SPECIFICATION Spec
CONSTANTS
  h1 = h1
  h2 = h2
  Hilos = {h1}
  Nadie = Nadie
  Rutas <- UnCliente
  NumArchivos = 3
  NumBloques = 3
  TamBloque = 2
  MaxTam = 1
  Operaciones = {"create", "mkdir", "rmdir", "rename", "unlink", "truncate", "open", "release", "write"}
  MaxPedidos = 7
INVARIANT PadreVivo
CHECK_DEADLOCK FALSE
