SPECIFICATION Spec
CONSTANTS
  t1 = t1
  t2 = t2
  t3 = t3
  t4 = t4
  n1 = n1
  n2 = n2
  Entrenadores = {t1, t2, t3}
  PokeNests = {n1, n2}
  Desconocido = Desconocido
  Ninguno = Ninguno
  Cantidad <- DosNidos
  Posicion <- DosLugares
  Objetivos <- Tres
  Quantum = 2
  Metas <- ConBatalla
  MaxAbandonos = 0
  MaxRecargas = 0
INVARIANT AvisoFiel
CHECK_DEADLOCK FALSE
