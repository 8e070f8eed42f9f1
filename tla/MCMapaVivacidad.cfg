SPECIFICATION FairSpec
CONSTANTS
  t1 = t1
  t2 = t2
  t3 = t3
  t4 = t4
  n1 = n1
  n2 = n2
  Entrenadores = {t1, t2}
  PokeNests = {n1, n2}
  Desconocido = Desconocido
  Ninguno = Ninguno
  Cantidad <- DosNidos
  Posicion <- DosLugares
  Objetivos <- Cruzados
  Quantum = 2
  Metas <- CambiaTodo
  MaxAbandonos = 0
  MaxRecargas = 1
PROPERTIES AsignaBien DeadlockSeResuelve TodosTerminan
