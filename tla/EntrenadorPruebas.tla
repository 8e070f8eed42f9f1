------------------------- MODULE EntrenadorPruebas -------------------------
(***************************************************************************)
(* Proofs about Entrenador: lives add up, nobody dies without a cause,     *)
(* medals are not lost and game over is fair, for any travel sheet, number *)
(* of lives and number of signals.                                         *)
(*                                                                         *)
(* The safety invariants are not inductive: a death may follow a test made *)
(* many steps before.  Each is strengthened by what main knows while it    *)
(* plays: that it has a life (ConVida), that it has a map to play          *)
(* (Avanza), that a SIGTERM seen has not been paid for (Pendiente), that a *)
(* connection that has ended is that of a map that has died (Cerrado) and  *)
(* that a verdict is only given at the end (Sentencia).                    *)
(***************************************************************************)
EXTENDS Entrenador, TLAPS

Jugando == {"vida", "mapa"} \cup EnMapa \cup Muriendo

\* the lives main counts with; the decrement has still to be written
Corrientes == IF pc = "restada" THEN leida ELSE vidasDisponibles

\* The counters are bounded by the lives given.
Cotas ==
  /\ vidasDisponibles <= Vidas + usr1 /\ leida <= Vidas + usr1 /\ muertes <= Vidas + usr1

\* Who plays has a life to lose.
ConVida == pc \in Jugando => Corrientes >= 1

\* Who is in a map has one to play, and who moves has somewhere to go.
Avanza ==
  /\ pc \in EnMapa => mapasJugados < NumMapas
  /\ pc \in {"paso", "paso2", "eje"} => falta >= 1
  /\ pc \notin Afuera => reintentos <= MaxReintentos

InvVidas == TypeOK /\ VidasCuadran /\ Cotas /\ ConVida /\ Avanza

\* A SIGTERM seen while playing, or the death that is about to come, has its cause.
Pendiente ==
  /\ sigterm /\ pc \in {"mapa"} \cup EnMapa => muertes + 1 <= causas
  /\ pc = "muerte" => muertes + 1 <= causas

InvCausas == MuereConCausa /\ Pendiente

\* A connection that has ended is to a map that has died.
Cerrado == pc \in EnMapa \ {"conectar"} /\ enlace # "vivo" => Actual \in caidos

\* The verdict comes after the last life.
Sentencia ==
  /\ desenlace # "ninguno" => pc \in {"balance", "pregunta", "inicio"} \cup Afuera
  /\ desenlace = "gameover" => pc # "balance"

InvFin == MedallasGanadas /\ FinJusto /\ Cerrado /\ Sentencia

-----------------------------------------------------------------------------
\* Init has no lives, maps or verdicts yet.
LEMMA InicioInv == Init => InvVidas /\ InvCausas /\ InvFin
<1> SUFFICES ASSUME Init PROVE InvVidas /\ InvCausas /\ InvFin
  OBVIOUS
<1> USE SupuestoEntrenador DEF SupuestoEntrenador, Init, EnMapa, Muriendo, Esperando, Afuera
<1>1. TypeOK
  <2>1. sigterm \in BOOLEAN
    BY Zenon
  <2>2. vidasDisponibles \in 0..127 /\ leida \in 0..127 /\ muertes \in 0..127 /\ mapasJugados \in 0..NumMapas
    OBVIOUS
  <2>3. objCumplidos \in Nat /\ falta \in 0..MaxPasos /\ reintentos \in 0..MaxReintentos + 1
    OBVIOUS
  <2>4. usr1 \in 0..MaxUsr1 /\ term \in 0..MaxTerm /\ recibidas \in 0..usr1 /\ causas \in Nat
    OBVIOUS
  <2>5. QED
    BY <2>1, <2>2, <2>3, <2>4 DEF TypeOK
<1>2. InvVidas
  BY <1>1 DEF InvVidas, VidasCuadran, Cotas, ConVida, Avanza, Jugando, Corrientes
<1>3. InvCausas
  BY DEF InvCausas, MuereConCausa, Pendiente
<1>4. InvFin
  BY DEF InvFin, MedallasGanadas, FinJusto, Cerrado, Sentencia
<1>5. QED
  BY <1>2, <1>3, <1>4

\* Every step keeps the types, the sum of the lives and a life while playing.
LEMMA PasoVidas == InvVidas /\ [Next]_vars => InvVidas'
<1> SUFFICES ASSUME InvVidas, [Next]_vars PROVE InvVidas'
  OBVIOUS
<1> USE SupuestoEntrenador DEF SupuestoEntrenador, InvVidas, TypeOK, VidasCuadran, Cotas, ConVida, Avanza, Corrientes,
        Jugando, contadores, viaje, seniales, EnMapa, Muriendo, Esperando, Afuera, Actual, Mapas
<1>1. CASE Intento
  BY <1>1 DEF Intento
<1>2. CASE OtraVida
  BY <1>2 DEF OtraVida
<1>3. CASE JugarVida
  BY <1>3 DEF JugarVida
<1>4. CASE OtroMapa
  BY <1>4 DEF OtroMapa
<1>5. CASE Balance
  BY <1>5 DEF Balance
<1>6. CASE Reintentar
  BY <1>6 DEF Reintentar
<1>7. CASE ConectarMapa
  BY <1>7 DEF ConectarMapa
<1>8. CASE Objetivo
  BY <1>8 DEF Objetivo, Enviar
<1>9. CASE ObtenerCoordenadas
  BY <1>9 DEF ObtenerCoordenadas
<1>10. CASE Caminar
  BY <1>10 DEF Caminar, Enviar
<1>11. CASE Paso
  BY <1>11 DEF Paso
<1>12. CASE OtroEje
  BY <1>12 DEF OtroEje, Enviar
<1>13. CASE CapturarPokemon
  BY <1>13 DEF CapturarPokemon, Mensajes
<1>14. CASE ObtenerMedalla
  BY <1>14 DEF ObtenerMedalla
<1>15. CASE Muerte
  BY <1>15 DEF Muerte
<1>16. CASE Restar
  BY <1>16 DEF Restar
<1>17. CASE Restada
  BY <1>17 DEF Restada
<1>18. CASE Sigusr1
  BY <1>18 DEF Sigusr1
<1>19. CASE Sigterm
  BY <1>19 DEF Sigterm
<1>20. CASE \E m \in Mapas : MapaCae(m)
  BY <1>20 DEF MapaCae, Esperando
<1>21. CASE UNCHANGED vars
  BY <1>21 DEF vars
<1>22. QED
  BY <1>1, <1>2, <1>3, <1>4, <1>5, <1>6, <1>7, <1>8, <1>9, <1>10, <1>11, <1>12, <1>13, <1>14, <1>15, <1>16, <1>17, <1>18, <1>19, <1>20, <1>21 DEF Next, Principal

\* Every step keeps a cause for each death.
LEMMA PasoCausas == InvVidas /\ InvCausas /\ [Next]_vars => InvCausas'
<1> SUFFICES ASSUME TypeOK, InvCausas, [Next]_vars PROVE InvCausas'
  BY DEF InvVidas
<1> USE DEF InvCausas, TypeOK, MuereConCausa, Pendiente, contadores, viaje, seniales, EnMapa, Muriendo, Esperando, Afuera, Actual, Mapas
<1>1. CASE Intento
  BY <1>1 DEF Intento
<1>2. CASE OtraVida
  BY <1>2 DEF OtraVida
<1>3. CASE JugarVida
  BY <1>3 DEF JugarVida
<1>4. CASE OtroMapa
  BY <1>4 DEF OtroMapa
<1>5. CASE Balance
  BY <1>5 DEF Balance
<1>6. CASE Reintentar
  BY <1>6 DEF Reintentar
<1>7. CASE ConectarMapa
  BY <1>7 DEF ConectarMapa
<1>8. CASE Objetivo
  BY <1>8 DEF Objetivo, Enviar
<1>9. CASE ObtenerCoordenadas
  BY <1>9 DEF ObtenerCoordenadas
<1>10. CASE Caminar
  BY <1>10 DEF Caminar, Enviar
<1>11. CASE Paso
  BY <1>11 DEF Paso
<1>12. CASE OtroEje
  BY <1>12 DEF OtroEje, Enviar
<1>13. CASE CapturarPokemon
  BY <1>13 DEF CapturarPokemon, Mensajes
<1>14. CASE ObtenerMedalla
  BY <1>14 DEF ObtenerMedalla
<1>15. CASE Muerte
  BY <1>15 DEF Muerte
<1>16. CASE Restar
  BY <1>16 DEF Restar
<1>17. CASE Restada
  BY <1>17 DEF Restada
<1>18. CASE Sigusr1
  BY <1>18 DEF Sigusr1
<1>19. CASE Sigterm
  BY <1>19 DEF Sigterm
<1>20. CASE \E m \in Mapas : MapaCae(m)
  BY <1>20 DEF MapaCae, Esperando
<1>21. CASE UNCHANGED vars
  BY <1>21 DEF vars
<1>22. QED
  BY <1>1, <1>2, <1>3, <1>4, <1>5, <1>6, <1>7, <1>8, <1>9, <1>10, <1>11, <1>12, <1>13, <1>14, <1>15, <1>16, <1>17, <1>18, <1>19, <1>20, <1>21 DEF Next, Principal

\* Every step keeps the medals, and gives a verdict only to who deserves it.
LEMMA PasoFin == InvVidas /\ InvFin /\ [Next]_vars => InvFin'
<1> SUFFICES ASSUME InvVidas, InvFin, [Next]_vars PROVE InvFin'
  OBVIOUS
<1> USE SupuestoEntrenador DEF SupuestoEntrenador, InvVidas, TypeOK, VidasCuadran, ConVida, Avanza, Corrientes, Jugando,
        InvFin, MedallasGanadas, FinJusto, Cerrado, Sentencia, contadores, viaje, seniales, EnMapa, Muriendo, Esperando, Afuera, Actual, Mapas
<1>1. CASE Intento
  BY <1>1 DEF Intento
<1>2. CASE OtraVida
  BY <1>2 DEF OtraVida
<1>3. CASE JugarVida
  BY <1>3 DEF JugarVida
<1>4. CASE OtroMapa
  BY <1>4 DEF OtroMapa
<1>5. CASE Balance
  BY <1>5 DEF Balance
<1>6. CASE Reintentar
  BY <1>6 DEF Reintentar
<1>7. CASE ConectarMapa
  BY <1>7 DEF ConectarMapa
<1>8. CASE Objetivo
  BY <1>8 DEF Objetivo, Enviar
<1>9. CASE ObtenerCoordenadas
  BY <1>9 DEF ObtenerCoordenadas
<1>10. CASE Caminar
  BY <1>10 DEF Caminar, Enviar
<1>11. CASE Paso
  BY <1>11 DEF Paso
<1>12. CASE OtroEje
  BY <1>12 DEF OtroEje, Enviar
<1>13. CASE CapturarPokemon
  BY <1>13 DEF CapturarPokemon, Mensajes
<1>14. CASE ObtenerMedalla
  BY <1>14 DEF ObtenerMedalla
<1>15. CASE Muerte
  BY <1>15 DEF Muerte
<1>16. CASE Restar
  BY <1>16 DEF Restar
<1>17. CASE Restada
  BY <1>17 DEF Restada
<1>18. CASE Sigusr1
  BY <1>18 DEF Sigusr1
<1>19. CASE Sigterm
  BY <1>19 DEF Sigterm
<1>20. CASE \E m \in Mapas : MapaCae(m)
  BY <1>20 DEF MapaCae, Esperando
<1>21. CASE UNCHANGED vars
  BY <1>21 DEF vars
<1>22. QED
  BY <1>1, <1>2, <1>3, <1>4, <1>5, <1>6, <1>7, <1>8, <1>9, <1>10, <1>11, <1>12, <1>13, <1>14, <1>15, <1>16, <1>17, <1>18, <1>19, <1>20, <1>21 DEF Next, Principal

\* The three together are an invariant.
LEMMA Invariante == Spec => [](InvVidas /\ InvCausas /\ InvFin)
<1>1. Init => InvVidas /\ InvCausas /\ InvFin
  BY InicioInv
<1>2. (InvVidas /\ InvCausas /\ InvFin) /\ [Next]_vars => (InvVidas /\ InvCausas /\ InvFin)'
  BY PasoVidas, PasoCausas, PasoFin
<1>3. QED
  BY <1>1, <1>2, PTL DEF Spec

-----------------------------------------------------------------------------
\* The values of the variables; the counters of main do not overflow a char.
THEOREM TiposEntrenador == Spec => []TypeOK
<1>1. InvVidas => TypeOK
  BY DEF InvVidas
<1>2. QED
  BY <1>1, Invariante, PTL

\* Lives add up whatever the signals interrupt (lines 194 and 203).
THEOREM VidasSeSuman == Spec => []VidasCuadran
<1>1. InvVidas => VidasCuadran
  BY DEF InvVidas
<1>2. QED
  BY <1>1, Invariante, PTL

\* Every death is a battle lost or a SIGTERM received in this attempt.
THEOREM MuerteConCausa == Spec => []MuereConCausa
<1>1. InvCausas => MuereConCausa
  BY DEF InvCausas
<1>2. QED
  BY <1>1, Invariante, PTL

\* A map counted as played has left its medal, or has died.
THEOREM MedallaPorMapa == Spec => []MedallasGanadas
<1>1. InvFin => MedallasGanadas
  BY DEF InvFin
<1>2. QED
  BY <1>1, Invariante, PTL

\* Game over comes only after as many deaths as lives there were.
THEOREM GameOverJusto == Spec => []FinJusto
<1>1. InvFin => FinJusto
  BY DEF InvFin
<1>2. QED
  BY <1>1, Invariante, PTL
=============================================================================
