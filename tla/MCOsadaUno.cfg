SPECIFICATION Spec
CONSTANTS
  h1 = h1
  h2 = h2
  Hilos = {h1}
  Nadie = Nadie
  Rutas <- UnCliente
  NumArchivos = 3
  NumBloques = 3
  TamBloque = 2
  MaxTam = 5
  Operaciones = {"create", "mkdir", "rmdir", "rename", "unlink", "utimens", "truncate", "open", "release", "write"}
  MaxPedidos = 8
INVARIANTS TypeOK Fsck CheckState Imagen NombresUnicos
CHECK_DEADLOCK FALSE
