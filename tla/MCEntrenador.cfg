SPECIFICATION FairSpec
CONSTANTS
  NumMapas = 2
  Objetivos <- DosMapas
  Vidas = 2
  MaxPasos = 2
  MaxUsr1 = 2
  MaxTerm = 2
  MaxReintentos = 1
INVARIANTS TypeOK VidasCuadran MuereConCausa MedallasGanadas FinJusto
PROPERTY TodoIntentoTermina
CHECK_DEADLOCK FALSE
