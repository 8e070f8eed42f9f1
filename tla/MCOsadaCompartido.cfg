SPECIFICATION Spec
CONSTANTS
  h1 = h1
  h2 = h2
  Hilos = {h1, h2}
  Nadie = Nadie
  Rutas <- Compartido
  NumArchivos = 2
  NumBloques = 3
  TamBloque = 2
  MaxTam = 3
  Operaciones = {"create", "truncate", "open", "release", "write", "unlink"}
  MaxPedidos = 4
INVARIANTS Reservas SinCiclos
CHECK_DEADLOCK FALSE
