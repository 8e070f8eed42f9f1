SPECIFICATION FairSpec
CONSTANTS
  t1 = t1
  t2 = t2
  t3 = t3
  t4 = t4
  n1 = n1
  n2 = n2
  Entrenadores = {t1, t2}
  PokeNests = {n1, n2}
  Desconocido = Desconocido
  Ninguno = Ninguno
  Cantidad <- DosNidos
  Posicion <- DosLugares
  Objetivos <- Extraviado
  Quantum = 1
  Metas <- SinBatalla
  MaxAbandonos = 1
  MaxRecargas = 0
INVARIANT ProcesoSano
PROPERTIES NadieEsperaEnVano TodosTerminan
