SPECIFICATION FairSpec
CONSTANTS
  h1 = h1
  h2 = h2
  Hilos = {h1, h2}
  Nadie = Nadie
  Rutas <- Separados
  NumArchivos = 2
  NumBloques = 3
  TamBloque = 2
  MaxTam = 3
  Operaciones = {"create", "truncate", "open", "release", "write", "morir"}
  MaxPedidos = 5
INVARIANTS Fsck NuncaSinBloque CandadosJustos
PROPERTY Atendidos
CHECK_DEADLOCK FALSE
