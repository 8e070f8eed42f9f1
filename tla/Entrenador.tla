----------------------------- MODULE Entrenador -----------------------------
(***************************************************************************)
(* A trainer (src/entrenador/entrenador.c): the loop of main over attempts *)
(* and lives, the maps of its travel sheet one after another, the files it *)
(* keeps (medals), and the handlers of SIGUSR1 and SIGTERM, which may run  *)
(* between any two steps of main.  Module Mapa has what goes on in a map;  *)
(* here a map is what answers each request, or dies.                       *)
(*                                                                         *)
(* The program is built without optimization (makefile), so the decrement  *)
(* of vidasDisponibles is a read and a write.  glibc's signal() restarts   *)
(* recv: a handler does not wake main up.                                  *)
(***************************************************************************)
EXTENDS Integers, FiniteSets

CONSTANTS
  NumMapas,      \* maps of the travel sheet
  Objetivos,     \* how many objectives each of them has
  Vidas,         \* entrenador->vidas
  MaxPasos,      \* bound: moves from one nest to the next
  MaxUsr1,       \* bound: SIGUSR1 sent
  MaxTerm,       \* bound: SIGTERM sent
  MaxReintentos  \* bound: attempts after the first

Mapas == 1..NumMapas

\* the counters are char
ASSUME SupuestoEntrenador ==
  /\ NumMapas \in Nat /\ Objetivos \in [Mapas -> Nat \ {0}] /\ Vidas \in Nat
  /\ MaxPasos \in Nat \ {0} /\ MaxUsr1 \in Nat /\ MaxTerm \in Nat /\ MaxReintentos \in Nat
  /\ Vidas + MaxUsr1 <= 127 /\ NumMapas <= 127 /\ MaxReintentos < 127

VARIABLES
  pc,               \* where main is
  vidasDisponibles,
  leida,            \* the value muerte has read and has yet to write
  muertes,
  mapasJugados,
  reintentos,
  sigterm,
  objCumplidos,
  falta,            \* moves left to the nest
  enlace,           \* the connection: "vivo"; "fin", the map has closed; "roto", written to after that
  caidos,           \* the maps that have died
  medallas,         \* the maps whose medal is in dirMedallas
  desenlace,        \* what the attempt has ended with
  usr1, term,       \* signals sent so far
  recibidas,        \* SIGUSR1 of this attempt, but those that came inside the decrement
  causas            \* of death in this attempt: battles lost, SIGTERM received

contadores == <<vidasDisponibles, leida, muertes>>
viaje == <<mapasJugados, objCumplidos, falta>>
seniales == <<usr1, term, recibidas, causas>>
vars == <<pc, contadores, viaje, reintentos, sigterm, enlace, caidos, medallas, desenlace, seniales>>

Actual == mapasJugados + 1     \* the map being played
Esperando == {"coordenadas", "paso", "paso2", "captura", "medalla"} \* in recv
Afuera == {"salio", "sigpipe"} \* the process has ended

Init ==
  /\ pc = "inicio"
  /\ vidasDisponibles = 0 /\ leida = 0 /\ muertes = 0
  /\ mapasJugados = 0 /\ objCumplidos = 0 /\ falta = 0
  /\ reintentos = 0 /\ sigterm = FALSE
  /\ enlace = "vivo" /\ caidos = {} /\ medallas = {} /\ desenlace = "ninguno"
  /\ usr1 = 0 /\ term = 0 /\ recibidas = 0 /\ causas = 0

-----------------------------------------------------------------------------
(* main: attempts and lives. *)

\* borrar and the reset of the counters
Intento ==
  /\ pc = "inicio"
  /\ pc' = "vidas"
  /\ vidasDisponibles' = Vidas /\ muertes' = 0 /\ mapasJugados' = 0
  /\ medallas' = {} /\ desenlace' = "ninguno" /\ recibidas' = 0 /\ causas' = 0
  /\ UNCHANGED <<leida, objCumplidos, falta, reintentos, sigterm, enlace, caidos, usr1, term>>

\* Wrong on purpose: the attempt is tested after a life, not before
OtraVidaSiempre ==
  /\ pc = "vidas"
  /\ pc' = "vida"
  /\ UNCHANGED <<contadores, viaje, reintentos, sigterm, enlace, caidos, medallas, desenlace, seniales>>

\* while(vidasDisponibles)
OtraVida ==
  /\ pc = "vidas"
  /\ pc' = IF vidasDisponibles # 0 THEN "vida" ELSE "balance"
  /\ UNCHANGED <<contadores, viaje, reintentos, sigterm, enlace, caidos, medallas, desenlace, seniales>>

\* Wrong on purpose: sigterm is not cleared
JugarVidaSinLimpiar ==
  /\ pc = "vida"
  /\ pc' = "mapa"
  /\ UNCHANGED <<contadores, viaje, reintentos, sigterm, enlace, caidos, medallas, desenlace, seniales>>

JugarVida ==
  /\ pc = "vida"
  /\ sigterm' = FALSE
  /\ pc' = "mapa"
  /\ UNCHANGED <<contadores, viaje, reintentos, enlace, caidos, medallas, desenlace, seniales>>

\* the loop of jugarVida, and what main does when it returns 0
OtroMapa ==
  /\ pc = "mapa"
  /\ IF mapasJugados < NumMapas
       THEN pc' = "conectar" /\ UNCHANGED desenlace
       ELSE pc' = "balance" /\ desenlace' = "maestro"
  /\ UNCHANGED <<contadores, viaje, reintentos, sigterm, enlace, caidos, medallas, seniales>>

\* Wrong on purpose: whoever comes here has lost
BalanceSinPrueba ==
  /\ pc = "balance"
  /\ pc' = "pregunta"
  /\ desenlace' = "gameover" /\ medallas' = {}
  /\ UNCHANGED <<contadores, viaje, reintentos, sigterm, enlace, caidos, seniales>>

\* if( vidasDisponibles == 0 ): sinVidas and borrar
Balance ==
  /\ pc = "balance"
  /\ pc' = "pregunta"
  /\ IF vidasDisponibles = 0
       THEN desenlace' = "gameover" /\ medallas' = {}
       ELSE UNCHANGED <<desenlace, medallas>>
  /\ UNCHANGED <<contadores, viaje, reintentos, sigterm, enlace, caidos, seniales>>

\* the key that is pressed
Reintentar ==
  /\ pc = "pregunta"
  /\ \/ reintentos < MaxReintentos /\ pc' = "inicio"
     \/ pc' = "salio"
  /\ reintentos' = reintentos + 1
  /\ UNCHANGED <<contadores, viaje, sigterm, enlace, caidos, medallas, desenlace, seniales>>

-----------------------------------------------------------------------------
(* One map. *)

\* send: the first to a map that has closed is lost, the second raises SIGPIPE
Enviar(luego) ==
  IF enlace = "roto" THEN pc' = "sigpipe" /\ UNCHANGED enlace
  ELSE pc' = luego /\ enlace' = IF enlace = "vivo" THEN "vivo" ELSE "roto"

\* conectarMapa and irPosicionInicial
ConectarMapa ==
  /\ pc = "conectar"
  /\ IF Actual \in caidos THEN pc' = "salio" /\ UNCHANGED <<enlace, objCumplidos>>
     ELSE pc' = "objetivo" /\ enlace' = "vivo" /\ objCumplidos' = 0
  /\ UNCHANGED <<contadores, mapasJugados, falta, reintentos, sigterm, caidos, medallas, desenlace, seniales>>

\* the loop of jugarMapa: "C" for the next objective, "O" after the last
Objetivo ==
  /\ pc = "objetivo"
  /\ Enviar(IF objCumplidos < Objetivos[Actual] THEN "coordenadas" ELSE "medalla")
  /\ UNCHANGED <<contadores, viaje, reintentos, sigterm, caidos, medallas, desenlace, seniales>>

\* The answer to "C", or "N".  From a map that has died come no bytes, and the
\* coordinates are 0 and 0, or what was in the buffer.
ObtenerCoordenadas ==
  /\ pc = "coordenadas"
  /\ \/ pc' = "caminar" /\ falta' \in IF enlace = "fin" THEN 1..MaxPasos ELSE 0..MaxPasos
     \/ enlace # "fin" /\ pc' = "salio" /\ UNCHANGED falta
  /\ UNCHANGED <<contadores, mapasJugados, objCumplidos, reintentos, sigterm, enlace, caidos,
                 medallas, desenlace, seniales>>

\* The head of the loop of irPosicionPokenest, or the "G" that follows it.  A turn
\* of the loop is a move, or one along each axis.
Caminar ==
  /\ pc = "caminar"
  /\ \/ falta = 0 /\ Enviar("captura")
     \/ falta > 0 /\ sigterm /\ pc' = "muerte" /\ UNCHANGED enlace
     \/ falta > 0 /\ ~sigterm /\ Enviar("paso")
  /\ UNCHANGED <<contadores, viaje, reintentos, sigterm, caidos, medallas, desenlace, seniales>>

\* the answer to a move, which nobody looks at
Paso ==
  /\ pc \in {"paso", "paso2"}
  /\ \/ pc' = "caminar"
     \/ pc = "paso" /\ falta > 1 /\ pc' = "eje"
  /\ falta' = falta - 1
  /\ UNCHANGED <<contadores, mapasJugados, objCumplidos, reintentos, sigterm, enlace, caidos,
                 medallas, desenlace, seniales>>

\* the move along the other axis: sigterm is not looked at
OtroEje ==
  /\ pc = "eje"
  /\ Enviar("paso2")
  /\ UNCHANGED <<contadores, viaje, reintentos, sigterm, caidos, medallas, desenlace, seniales>>

\* What recv leaves in mensaje[0]: the path of a pokemon, "D" or "R", "K".  An empty
\* message is taken for a path; a recv that fails leaves what was there.
Mensajes == IF enlace = "fin" THEN {"ruta"} ELSE {"ruta", "aviso", "K"}

CapturarPokemon ==
  /\ pc = "captura"
  /\ \E m \in Mensajes :
       \/ /\ sigterm \/ m = "K"
          /\ pc' = "muerte"
          /\ causas' = IF sigterm THEN causas ELSE causas + 1
          /\ UNCHANGED objCumplidos
       \/ /\ ~sigterm /\ m = "ruta"
          /\ pc' = "objetivo"
          /\ objCumplidos' = objCumplidos + 1
          /\ UNCHANGED causas
       \/ ~sigterm /\ m = "aviso" /\ UNCHANGED <<pc, objCumplidos, causas>>
  /\ UNCHANGED <<contadores, mapasJugados, falta, reintentos, sigterm, enlace, caidos, medallas,
                 desenlace, usr1, term, recibidas>>

\* Wrong on purpose: the map is not counted
ObtenerMedallaSinContar ==
  /\ pc = "medalla"
  /\ pc' = "mapa"
  /\ medallas' = IF enlace = "vivo" THEN medallas \cup {Actual} ELSE medallas
  /\ UNCHANGED <<contadores, viaje, reintentos, sigterm, enlace, caidos, desenlace, seniales>>

\* The answer to "O", whatever it is, and desconectarMapa.
ObtenerMedalla ==
  /\ pc = "medalla"
  /\ pc' = "mapa"
  /\ medallas' = IF enlace = "vivo" THEN medallas \cup {Actual} ELSE medallas
  /\ mapasJugados' = mapasJugados + 1
  /\ UNCHANGED <<contadores, objCumplidos, falta, reintentos, sigterm, enlace, caidos, desenlace, seniales>>

-----------------------------------------------------------------------------
(* muerte *)

\* Wrong on purpose: a death takes the files away, as the end of the game does
MuerteBorra ==
  /\ pc = "muerte"
  /\ muertes' = muertes + 1
  /\ medallas' = {}
  /\ pc' = "restar"
  /\ UNCHANGED <<vidasDisponibles, leida, viaje, reintentos, sigterm, enlace, caidos, desenlace, seniales>>

Muerte ==
  /\ pc = "muerte"
  /\ muertes' = muertes + 1
  /\ pc' = "restar"
  /\ UNCHANGED <<vidasDisponibles, leida, viaje, reintentos, sigterm, enlace, caidos, medallas,
                 desenlace, seniales>>

Restar ==
  /\ pc = "restar"
  /\ leida' = vidasDisponibles
  /\ pc' = "restada"
  /\ UNCHANGED <<vidasDisponibles, muertes, viaje, reintentos, sigterm, enlace, caidos, medallas,
                 desenlace, seniales>>

\* Wrong on purpose: the life is not taken
RestadaSinResta ==
  /\ pc = "restada"
  /\ vidasDisponibles' = leida
  /\ pc' = "vidas"
  /\ UNCHANGED <<leida, muertes, viaje, reintentos, sigterm, enlace, caidos, medallas, desenlace, seniales>>

\* the write, and desconectarMapa
Restada ==
  /\ pc = "restada"
  /\ vidasDisponibles' = leida - 1
  /\ pc' = "vidas"
  /\ UNCHANGED <<leida, muertes, viaje, reintentos, sigterm, enlace, caidos, medallas, desenlace, seniales>>

-----------------------------------------------------------------------------
(* signalRutina, and the death of a map. *)

Sigusr1 ==
  /\ pc \notin Afuera /\ usr1 < MaxUsr1
  /\ usr1' = usr1 + 1
  /\ vidasDisponibles' = vidasDisponibles + 1
  /\ recibidas' = IF pc = "restada" THEN recibidas ELSE recibidas + 1
  /\ UNCHANGED <<pc, leida, muertes, viaje, reintentos, sigterm, enlace, caidos, medallas, desenlace,
                 term, causas>>

Sigterm ==
  /\ pc \notin Afuera /\ term < MaxTerm
  /\ term' = term + 1
  /\ sigterm' = TRUE
  /\ causas' = causas + 1
  /\ UNCHANGED <<pc, contadores, viaje, reintentos, enlace, caidos, medallas, desenlace, usr1, recibidas>>

\* Nobody restarts it.  If it had not read the request its end resets the connection.
MapaCae(m) ==
  /\ pc \notin Afuera /\ m \notin caidos
  /\ caidos' = caidos \cup {m}
  /\ IF m = Actual /\ enlace = "vivo"
       THEN enlace' \in {"fin"} \cup (IF pc \in Esperando THEN {"roto"} ELSE {})
       ELSE UNCHANGED enlace
  /\ UNCHANGED <<pc, contadores, viaje, reintentos, sigterm, medallas, desenlace, seniales>>

-----------------------------------------------------------------------------
Principal ==
  \/ Intento \/ OtraVida \/ JugarVida \/ OtroMapa \/ Balance
  \/ ConectarMapa \/ Objetivo \/ ObtenerCoordenadas \/ Caminar \/ Paso \/ OtroEje
  \/ CapturarPokemon \/ ObtenerMedalla \/ Muerte \/ Restar \/ Restada

Next == Principal \/ Reintentar \/ Sigusr1 \/ Sigterm \/ \E m \in Mapas : MapaCae(m)

Spec == Init /\ [][Next]_vars

\* Main runs and the maps answer; of the answers to "G" one is in the end not a
\* notice.  Nobody has to press a key, send a signal or stop a map.
FairSpec == Spec /\ WF_vars(Principal)

-----------------------------------------------------------------------------
EnMapa == {"conectar", "objetivo", "caminar", "eje"} \cup Esperando
Muriendo == {"muerte", "restar", "restada"}

\* The values of the variables; the char counters do not overflow.
TypeOK ==
  /\ pc \in {"inicio", "vidas", "vida", "mapa", "balance", "pregunta"} \cup EnMapa \cup Muriendo \cup Afuera
  /\ vidasDisponibles \in 0..127 /\ leida \in 0..127 /\ muertes \in 0..127
  /\ mapasJugados \in 0..NumMapas /\ objCumplidos \in Nat /\ falta \in 0..MaxPasos
  /\ reintentos \in 0..MaxReintentos + 1 /\ sigterm \in BOOLEAN
  /\ enlace \in {"vivo", "fin", "roto"} /\ caidos \subseteq Mapas /\ medallas \subseteq Mapas
  /\ desenlace \in {"ninguno", "maestro", "gameover"}
  /\ usr1 \in 0..MaxUsr1 /\ term \in 0..MaxTerm /\ recibidas \in 0..usr1 /\ causas \in Nat

\* Lives add up although the handler of SIGUSR1 (line 203) and muerte (line 194)
\* change the same counter: an attempt has had its lives, one more for each SIGUSR1
\* and one less for each death.  Only a SIGUSR1 between the read and the write of
\* the decrement is lost.
VidasCuadran ==
  LET vidas == IF pc = "restada" THEN leida ELSE vidasDisponibles
      muerto == IF pc \in {"restar", "restada"} THEN muertes - 1 ELSE muertes
  IN pc # "inicio" => vidas + muerto = Vidas + recibidas

\* No death without a cause: one SIGTERM costs at most one life, and none a life that
\* begins after it (jugarVida clears the flag at line 440).
MuereConCausa == muertes <= causas

\* Every map counted as played has left its medal, and so has each map of who is
\* told to be a Pokemon Master (line 258), through deaths, signals and attempts.  The
\* exception is a map that dies under the trainer: obtenerMedalla (line 300) does
\* not look at what recv returns.
MedallasGanadas ==
  /\ desenlace # "gameover" /\ pc # "inicio" => 1..mapasJugados \subseteq medallas \cup caidos
  /\ desenlace = "maestro" => mapasJugados = NumMapas /\ vidasDisponibles > 0

\* GAME OVER only comes to who has died as many times as it had lives, and an attempt
\* that ends otherwise has lives left: a SIGUSR1 between the test of the loop and
\* that of line 509 ends it with neither a victory nor a defeat.
FinJusto ==
  /\ desenlace = "gameover" => muertes >= Vidas
  /\ pc = "pregunta" /\ desenlace # "gameover" => vidasDisponibles > 0

\* Every attempt ends: no signal, battle or death of a map keeps the loop over lives
\* going for ever.
TodoIntentoTermina == pc = "vidas" ~> pc \in {"pregunta"} \cup Afuera
=============================================================================
