SPECIFICATION Spec
CONSTANTS
  t1 = t1
  t2 = t2
  t3 = t3
  t4 = t4
  n1 = n1
  n2 = n2
  Entrenadores = {t1, t2, t3, t4}
  PokeNests = {n1, n2}
  Desconocido = Desconocido
  Ninguno = Ninguno
  Cantidad <- DosYUno
  Posicion <- DosLugares
  Objetivos <- Cuatro
  Quantum = 4
  Metas <- ConBatalla
  MaxAbandonos = 0
  MaxRecargas = 0
INVARIANT SonCoordenadas
CHECK_DEADLOCK FALSE
SYMMETRY Iguales
