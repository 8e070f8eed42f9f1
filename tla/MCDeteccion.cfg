SPECIFICATION FairSpec
CONSTANTS
  PokeNests = {n1, n2}
  MaxEntrenadores = 3
  MaxPokemons = 1
INVARIANTS Completitud Absueltos Resultado
PROPERTY Termina
CHECK_DEADLOCK FALSE
