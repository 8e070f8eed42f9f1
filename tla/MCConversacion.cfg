SPECIFICATION FairSpec
CONSTANTS
  m1 = m1
  m2 = m2
  h1 = h1
  h2 = h2
  h3 = h3
  Montajes = {m1, m2}
  Hilos = {h1, h2, h3}
  De <- DeCada
  Inicial <- Primero
  Nadie = Nadie
  Operaciones <- Pedidas
  Grupo = 2
  Comienzos = {2, 3}
  Tramos <- Pedazos
  MaxBloques = 3
  MaxEntradas = 2
  MaxLlamadas = 2
  Mortales = {m1}
INVARIANTS TypeOK UnPaquete RespuestaPropia CaeConCausa
PROPERTY TodoVuelve
CHECK_DEADLOCK FALSE
