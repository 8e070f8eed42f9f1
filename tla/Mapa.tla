-------------------------------- MODULE Mapa --------------------------------
(***************************************************************************)
(* The map process (src/mapa/mapa.c): its handshake, planificador,         *)
(* asignador and deadlock threads, the lists and semaphores they share,    *)
(* and the trainers that play on it through their sockets                  *)
(* (src/entrenador/entrenador.c, conectarMapa to jugarMapa).               *)
(*                                                                         *)
(* A member of Entrenadores is one connection: a trainer that dies and     *)
(* comes back is another member.  Its tEntrenador lives from the handshake *)
(* to desconectarEntrenador, which closes the socket and frees it, so the  *)
(* structure exists exactly while sock is "abierto", "finCliente" (the     *)
(* client closed its end) or "roto" (and the map has written to it since). *)
(*                                                                         *)
(* Grain.  A step is what a thread does between two points where another   *)
(* one can see the difference.  The sections under mutexReady hold one     *)
(* list operation and wait for nothing: they are single steps and the      *)
(* mutex has no variable.  sem_post comes after the unlock: a step of its  *)
(* own.  The pokemon of one nest are interchangeable: libres counts a      *)
(* nest's queue, tiene a trainer's list.  Positions lie on one axis.       *)
(***************************************************************************)
EXTENDS Interbloqueo, FiniteSets, SequencesExt

CONSTANTS
  Entrenadores, PokeNests,
  Desconocido,    \* a nest name a trainer may ask for and the map lacks
  Ninguno,        \* obj = 0, no trainer
  Cantidad,       \* pokemon of each nest
  Posicion,       \* place of each nest; trainers start at 1
  Objetivos,      \* the nests each trainer wants, in order
  Quantum,
  Metas,          \* the metadata files a reload may find: algoritmo, batalla
  MaxAbandonos,   \* bound: clients killed while connected
  MaxRecargas     \* bound: SIGUSR2 received

ASSUME SupuestoMapa ==
  /\ IsFiniteSet(Entrenadores) /\ IsFiniteSet(PokeNests)
  /\ Desconocido \notin PokeNests /\ Ninguno \notin PokeNests \cup Entrenadores
  /\ Desconocido # Ninguno
  /\ Cantidad \in [PokeNests -> Nat] /\ Posicion \in [PokeNests -> Nat]
  /\ Objetivos \in [Entrenadores -> Seq(PokeNests \cup {Desconocido})]
  /\ Quantum \in Nat \ {0}
  /\ Metas # {} /\ Metas \subseteq [algoritmo : {"RR", "SRDF"}, batalla : BOOLEAN]
  /\ MaxAbandonos \in Nat /\ MaxRecargas \in Nat

VARIABLES
  eReady, eBlocked, eDeadlock,    \* the three lists
  semPlanificador, semAsignador,
  mutexBlocked,                   \* its holder, or "libre"
  rev,     \* i of detectarDesconectados, in the thread that runs it
  plan,    \* planificador: pc, trainer in hand, quantum left, algorithm running
  asig,    \* asignador: pc and trainer in hand
  dlk,     \* pc of the deadlock thread
  hs,      \* pc of each handshake thread
  meta,    \* mapaMetadata
  obj, pos, tiene, libres,        \* tEntrenador's fields, the nests' queues
  sock, pedido, resp,             \* each socket and what is in flight on it
  cli, x, cumplidos,              \* the client: where it is, place, objCumplidos
  mapa,    \* "vivo", "sigpipe" (killed by a write), "memoria" (invalid pointer)
  abandonos, recargas

mutex   == <<mutexBlocked, rev>>
listas  == <<eReady, eBlocked, eDeadlock>>
sems    == <<semPlanificador, semAsignador>>
hilos   == <<plan, asig, dlk, hs>>
datos   == <<obj, pos, tiene, libres>>
red     == <<sock, pedido, resp>>
cliente == <<cli, x, cumplidos>>
entorno == <<meta, abandonos, recargas>>
vars == <<eReady, eBlocked, eDeadlock, semPlanificador, semAsignador, mutexBlocked,
          rev, plan, asig, dlk, hs, meta, obj, pos, tiene, libres, sock, pedido, resp,
          cli, x, cumplidos, mapa, abandonos, recargas>>

Nada == [n \in PokeNests |-> 0]
Msj(op, n) == [op |-> op, nido |-> n]
Vivos == {t \in Entrenadores : sock[t] \in {"abierto", "finCliente", "roto"}}

Init ==
  /\ eReady = <<>> /\ eBlocked = <<>> /\ eDeadlock = <<>>
  /\ semPlanificador = 0 /\ semAsignador = 0
  /\ mutexBlocked = "libre" /\ rev = 1
  /\ plan = [pc |-> "esperar", ent |-> Ninguno, ql |-> 0, alg |-> "RR"]
  /\ asig = [pc |-> "esperar", ent |-> Ninguno]
  /\ dlk = "dormir"
  /\ hs = [t \in Entrenadores |-> "no"]
  /\ meta \in Metas
  /\ obj = [t \in Entrenadores |-> Ninguno]
  /\ pos = [t \in Entrenadores |-> 1]
  /\ tiene = [t \in Entrenadores |-> Nada]
  /\ libres = Cantidad
  /\ sock = [t \in Entrenadores |-> "libre"]
  /\ pedido = [t \in Entrenadores |-> <<>>]
  /\ resp = [t \in Entrenadores |-> <<>>]
  /\ cli = [t \in Entrenadores |-> "fuera"]
  /\ x = [t \in Entrenadores |-> 1]
  /\ cumplidos = [t \in Entrenadores |-> 0]
  /\ mapa = "vivo" /\ abandonos = 0 /\ recargas = 0

-----------------------------------------------------------------------------
\* send to the trainers of T: the first write to a closed peer is lost and
\* breaks the connection, the next one raises SIGPIPE, which nobody handles.
EnviarATodos(T, m) ==
  /\ resp' = [t \in Entrenadores |->
                IF t \in T /\ sock[t] = "abierto" THEN Append(resp[t], m) ELSE resp[t]]
  /\ sock' = [t \in Entrenadores |->
                IF t \in T /\ sock[t] = "finCliente" THEN "roto" ELSE sock[t]]
  /\ mapa' = IF \E t \in T : sock[t] = "roto" THEN "sigpipe" ELSE mapa

Enviar(t, m) == EnviarATodos({t}, m)

\* recv returns 0: the client closed and nothing is left to read.
Cerrado(t) == pedido[t] = <<>> /\ sock[t] \in {"finCliente", "roto"}

\* Wrong on purpose: the pokemon are not given back.
DesconectarSinDevolver(t) ==
  /\ UNCHANGED libres
  /\ tiene' = [tiene EXCEPT ![t] = Nada]
  /\ sock' = [sock EXCEPT ![t] = "cerrado"]

\* desconectarEntrenador, at once: for the threads that hold mutexBlocked.  The
\* planner, the only other one to touch the queues, just adds to them.
Desconectar(t) ==
  /\ libres' = [n \in PokeNests |-> libres[n] + tiene[t][n]]
  /\ tiene' = [tiene EXCEPT ![t] = Nada]
  /\ sock' = [sock EXCEPT ![t] = "cerrado"]

\* detectarDesconectados: the loop goes on to the next trainer that left, and ends
\* when there is none from i on
Caidos == {k \in DOMAIN eBlocked : k >= rev /\ Cerrado(eBlocked[k])}
QuitarCaido ==
  \E k \in Caidos :
    /\ \A j \in Caidos : k <= j
    /\ rev' = k
    /\ eBlocked' = RemoveAt(eBlocked, k)
    /\ Desconectar(eBlocked[k])

\* Where a thread is, while the process lives.
Plan(pc)  == mapa = "vivo" /\ plan.pc = pc
Asig(pc)  == mapa = "vivo" /\ asig.pc = pc
Dlk(pc)   == mapa = "vivo" /\ dlk = pc
Hs(t, pc) == mapa = "vivo" /\ hs[t] = pc

-----------------------------------------------------------------------------
(* Handshake threads, one per connection accepted by main. *)

HBienvenida(t) ==
  /\ Hs(t, "bienvenida")
  /\ hs' = [hs EXCEPT ![t] = "recibir"]
  /\ Enviar(t, "Bienvenida")
  /\ UNCHANGED <<listas, sems, mutex, plan, asig, dlk, datos, pedido, cliente, entorno>>

\* recv of the symbol, then the list_add of agregarReady
HRecibir(t) ==
  /\ Hs(t, "recibir")
  /\ pedido[t] # <<>>
  /\ hs' = [hs EXCEPT ![t] = "postear"]
  /\ pedido' = [pedido EXCEPT ![t] = Tail(@)]
  /\ eReady' = Append(eReady, t)
  /\ UNCHANGED <<eBlocked, eDeadlock, sems, mutex, plan, asig, dlk, datos,
                 sock, resp, cliente, entorno, mapa>>

\* the client left before sending its symbol
HDesconexion(t) ==
  /\ Hs(t, "recibir")
  /\ Cerrado(t)
  /\ hs' = [hs EXCEPT ![t] = "fin"]
  /\ sock' = [sock EXCEPT ![t] = "cerrado"]
  /\ UNCHANGED <<listas, sems, mutex, plan, asig, dlk, datos,
                 pedido, resp, cliente, entorno, mapa>>

HPostear(t) ==
  /\ Hs(t, "postear")
  /\ hs' = [hs EXCEPT ![t] = "fin"]
  /\ semPlanificador' = semPlanificador + 1
  /\ UNCHANGED <<listas, semAsignador, mutex, plan, asig, dlk, datos,
                 red, cliente, entorno, mapa>>

Handshake(t) == HBienvenida(t) \/ HRecibir(t) \/ HDesconexion(t) \/ HPostear(t)

-----------------------------------------------------------------------------
(* Planificador: planRR and planSRDF. *)

PEsperar ==
  /\ Plan("esperar")
  /\ semPlanificador > 0
  /\ semPlanificador' = semPlanificador - 1
  /\ plan' = [pc |-> "sacar", ent |-> Ninguno, ql |-> Quantum, alg |-> meta.algoritmo]
  /\ UNCHANGED <<listas, semAsignador, mutex, asig, dlk, hs, datos,
                 red, cliente, entorno, mapa>>

Distancia(t) ==
  IF obj[t] = Ninguno THEN -1
  ELSE LET d == Posicion[obj[t]] - pos[t] IN IF d < 0 THEN -d ELSE d

\* planRR takes the first, planSRDF the first of those nearest to their objective
Turno(i) ==
  IF plan.alg = "RR" THEN i = 1
  ELSE \A j \in DOMAIN eReady :
         \/ Distancia(eReady[i]) < Distancia(eReady[j])
         \/ Distancia(eReady[i]) = Distancia(eReady[j]) /\ i <= j

\* Neither asks whether eReady is empty: list_remove would return NULL
PSacar ==
  /\ Plan("sacar")
  /\ IF eReady = <<>>
       THEN mapa' = "memoria" /\ UNCHANGED <<plan, eReady>>
       ELSE \E i \in DOMAIN eReady :
              /\ Turno(i)
              /\ plan' = [plan EXCEPT !.pc = "atender", !.ent = eReady[i]]
              /\ eReady' = RemoveAt(eReady, i)
              /\ UNCHANGED mapa
  /\ UNCHANGED <<eBlocked, eDeadlock, sems, mutex, asig, dlk, hs, datos,
                 red, cliente, entorno>>

PFinQuantum ==
  /\ Plan("atender") /\ plan.alg = "RR" /\ plan.ql = 0
  /\ eReady' = Append(eReady, plan.ent)
  /\ plan' = [plan EXCEPT !.pc = "postReady", !.ent = Ninguno]
  /\ UNCHANGED <<eBlocked, eDeadlock, sems, mutex, asig, dlk, hs, datos,
                 red, cliente, entorno, mapa>>

PPostReady ==
  /\ Plan("postReady")
  /\ semPlanificador' = semPlanificador + 1
  /\ plan' = [plan EXCEPT !.pc = "esperar"]
  /\ UNCHANGED <<listas, semAsignador, mutex, asig, dlk, hs, datos,
                 red, cliente, entorno, mapa>>

\* recv: what is common to every request of the trainer in hand
Recibe(t, op) ==
  /\ Plan("atender") /\ plan.ent = t
  /\ plan.alg = "RR" => plan.ql > 0
  /\ pedido[t] # <<>> /\ Head(pedido[t]).op = op
  /\ pedido' = [pedido EXCEPT ![t] = Tail(@)]

\* the quantum left after a request that keeps the trainer running
Resta == IF plan.alg = "RR" THEN plan.ql - 1 ELSE plan.ql

\* Wrong on purpose: a recv below 1 is taken as nothing to do.
PDesconexionIgnorada(t) ==
  /\ Plan("atender") /\ plan.ent = t
  /\ plan.alg = "RR" => plan.ql > 0
  /\ Cerrado(t)
  /\ plan' = [plan EXCEPT !.pc = "postReady", !.ent = Ninguno]
  /\ eReady' = Append(eReady, t)
  /\ UNCHANGED <<eBlocked, eDeadlock, sems, mutex, asig, dlk, hs, datos, red, cliente, entorno, mapa>>

PDesconexion(t) ==
  /\ Plan("atender") /\ plan.ent = t
  /\ plan.alg = "RR" => plan.ql > 0
  /\ Cerrado(t)
  /\ plan' = [plan EXCEPT !.pc = "devolver"]
  /\ UNCHANGED <<listas, sems, mutex, asig, dlk, hs, datos, red, cliente, entorno, mapa>>

\* Wrong on purpose: case 'C' falls through to case 'M'.
PCoordenadasSinBreak(t) ==
  /\ Recibe(t, "C")
  /\ LET n == Head(pedido[t]).nido IN
       /\ n \in PokeNests
       /\ obj' = [obj EXCEPT ![t] = n]
  /\ resp' = [resp EXCEPT ![t] = @ \o <<"Coord", "OK">>]
  /\ UNCHANGED <<sock, mapa>>
  /\ IF plan.alg = "RR"
       THEN /\ plan' = [plan EXCEPT !.ql = Resta]
            /\ UNCHANGED eReady
       ELSE /\ plan' = [plan EXCEPT !.pc = "postReady", !.ent = Ninguno]
            /\ eReady' = Append(eReady, t)
  /\ UNCHANGED <<eBlocked, eDeadlock, sems, mutex, asig, dlk, hs,
                 pos, tiene, libres, cliente, entorno>>

\* 'C' of a nest of the map; planSRDF then puts the trainer back in eReady
PCoordenadas(t) ==
  /\ Recibe(t, "C")
  /\ LET n == Head(pedido[t]).nido IN
       /\ n \in PokeNests
       /\ obj' = [obj EXCEPT ![t] = n]
  /\ Enviar(t, "Coord")
  /\ IF plan.alg = "RR"
       THEN /\ plan' = [plan EXCEPT !.ql = Resta]
            /\ UNCHANGED eReady
       ELSE /\ plan' = [plan EXCEPT !.pc = "postReady", !.ent = Ninguno]
            /\ eReady' = Append(eReady, t)
  /\ UNCHANGED <<eBlocked, eDeadlock, sems, mutex, asig, dlk, hs,
                 pos, tiene, libres, cliente, entorno>>

\* 'C' of a nest the map lacks
PNoExiste(t) ==
  /\ Recibe(t, "C")
  /\ Head(pedido[t]).nido \notin PokeNests
  /\ Enviar(t, "N")
  /\ plan' = [plan EXCEPT !.pc = "devolver"]
  /\ UNCHANGED <<listas, sems, mutex, asig, dlk, hs, datos, cliente, entorno>>

\* Wrong on purpose: the planner answers without looking at what recv returned.
PMoverSinControl(t) ==
  /\ \/ Recibe(t, "MR") /\ pos' = [pos EXCEPT ![t] = @ + 1]
     \/ Recibe(t, "ML") /\ pos' = [pos EXCEPT ![t] = @ - 1]
     \/ /\ Plan("atender") /\ plan.ent = t /\ Cerrado(t)
        /\ UNCHANGED <<pedido, pos>>
  /\ Enviar(t, "OK")
  /\ plan' = [plan EXCEPT !.ql = Resta]
  /\ UNCHANGED <<listas, sems, mutex, asig, dlk, hs, obj, tiene, libres, cliente, entorno>>

\* Wrong on purpose: the map answers and leaves the trainer where it was.
PMoverQuieto(t) ==
  /\ \/ Recibe(t, "MR") /\ pos' = [pos EXCEPT ![t] = @]
     \/ Recibe(t, "ML") /\ pos' = [pos EXCEPT ![t] = @]
  /\ Enviar(t, "OK")
  /\ plan' = [plan EXCEPT !.ql = Resta]
  /\ UNCHANGED <<listas, sems, mutex, asig, dlk, hs, obj, tiene, libres, cliente, entorno>>

PMover(t) ==
  /\ \/ Recibe(t, "MR") /\ pos' = [pos EXCEPT ![t] = @ + 1]
     \/ Recibe(t, "ML") /\ pos' = [pos EXCEPT ![t] = @ - 1]
  /\ Enviar(t, "OK")
  /\ plan' = [plan EXCEPT !.ql = Resta]
  /\ UNCHANGED <<listas, sems, mutex, asig, dlk, hs, obj, tiene, libres, cliente, entorno>>

PCapturar(t) ==
  /\ Recibe(t, "G")
  /\ plan' = [plan EXCEPT !.pc = "bloquear"]
  /\ UNCHANGED <<listas, sems, mutex, asig, dlk, hs, datos,
                 sock, resp, cliente, entorno, mapa>>

\* agregarBlocked: waits for mutexBlocked
PBloquear ==
  /\ Plan("bloquear")
  /\ mutexBlocked = "libre"
  /\ eBlocked' = Append(eBlocked, plan.ent)
  /\ plan' = [plan EXCEPT !.pc = "postBlocked", !.ent = Ninguno]
  /\ UNCHANGED <<eReady, eDeadlock, sems, mutex, asig, dlk, hs, datos,
                 red, cliente, entorno, mapa>>

\* Wrong on purpose: agregarBlocked without its sem_post.
PPostBlockedMudo ==
  /\ Plan("postBlocked")
  /\ plan' = [plan EXCEPT !.pc = "esperar"]
  /\ UNCHANGED <<listas, sems, mutex, asig, dlk, hs, datos,
                 red, cliente, entorno, mapa>>

PPostBlocked ==
  /\ Plan("postBlocked")
  /\ semAsignador' = semAsignador + 1
  /\ plan' = [plan EXCEPT !.pc = "esperar"]
  /\ UNCHANGED <<listas, semPlanificador, mutex, asig, dlk, hs, datos,
                 red, cliente, entorno, mapa>>

\* Wrong on purpose: enviarMedalla does not disconnect.
PMedallaSinDesconectar(t) ==
  /\ Recibe(t, "O")
  /\ Enviar(t, "Medalla")
  /\ plan' = [plan EXCEPT !.pc = "esperar", !.ent = Ninguno]
  /\ UNCHANGED <<listas, sems, mutex, asig, dlk, hs, datos, cliente, entorno>>

PMedalla(t) ==
  /\ Recibe(t, "O")
  /\ Enviar(t, "Medalla")
  /\ plan' = [plan EXCEPT !.pc = "devolver"]
  /\ UNCHANGED <<listas, sems, mutex, asig, dlk, hs, datos, cliente, entorno>>

\* devolverPokemons by the planner: without mutexBlocked, one queue_push at a time
PDevolver ==
  /\ Plan("devolver")
  /\ \E n \in PokeNests :
       /\ tiene[plan.ent][n] > 0
       /\ tiene' = [tiene EXCEPT ![plan.ent][n] = @ - 1]
       /\ libres' = [libres EXCEPT ![n] = @ + 1]
  /\ UNCHANGED <<listas, sems, mutex, hilos, obj, pos, red, cliente, entorno, mapa>>

\* Wrong on purpose: the planner keeps the freed trainer.
PLiberarSinSoltar ==
  /\ Plan("devolver")
  /\ tiene[plan.ent] = Nada
  /\ sock' = [sock EXCEPT ![plan.ent] = "cerrado"]
  /\ plan' = [plan EXCEPT !.pc = "esperar"]
  /\ UNCHANGED <<listas, sems, mutex, asig, dlk, hs, datos,
                 pedido, resp, cliente, entorno, mapa>>

\* the end of desconectarEntrenador: close and free
PLiberar ==
  /\ Plan("devolver")
  /\ tiene[plan.ent] = Nada
  /\ sock' = [sock EXCEPT ![plan.ent] = "cerrado"]
  /\ plan' = [plan EXCEPT !.pc = "esperar", !.ent = Ninguno]
  /\ UNCHANGED <<listas, sems, mutex, asig, dlk, hs, datos,
                 pedido, resp, cliente, entorno, mapa>>

Atender(t) ==
  PDesconexion(t) \/ PCoordenadas(t) \/ PNoExiste(t) \/ PMover(t) \/ PCapturar(t) \/ PMedalla(t)

Planificador ==
  \/ PEsperar \/ PSacar \/ PFinQuantum \/ PPostReady
  \/ \E t \in Entrenadores : Atender(t)
  \/ PBloquear \/ PPostBlocked \/ PDevolver \/ PLiberar

-----------------------------------------------------------------------------
(* Asignador. *)

AEsperar ==
  /\ Asig("esperar")
  /\ semAsignador > 0
  /\ semAsignador' = semAsignador - 1
  /\ asig' = [asig EXCEPT !.pc = "tomar"]
  /\ UNCHANGED <<listas, semPlanificador, mutex, plan, dlk, hs, datos,
                 red, cliente, entorno, mapa>>

ATomar ==
  /\ Asig("tomar")
  /\ mutexBlocked = "libre"
  /\ mutexBlocked' = "asignador"
  /\ asig' = [asig EXCEPT !.pc = "detectar"]
  /\ UNCHANGED <<rev, listas, sems, plan, dlk, hs, datos, red, cliente, entorno, mapa>>

AQuitarCaido ==
  /\ Asig("detectar")
  /\ QuitarCaido
  /\ UNCHANGED <<eReady, eDeadlock, sems, mutexBlocked, plan, asig, dlk, hs, obj, pos,
                 pedido, resp, cliente, entorno, mapa>>

ADetectados ==
  /\ Asig("detectar")
  /\ Caidos = {}
  /\ asig' = [asig EXCEPT !.pc = "asignar"]
  /\ rev' = 1
  /\ UNCHANGED <<listas, sems, mutexBlocked, plan, dlk, hs, datos,
                 red, cliente, entorno, mapa>>

\* everybody left: the token is spent for nothing
AVacia ==
  /\ Asig("asignar") /\ eBlocked = <<>>
  /\ mutexBlocked' = "libre"
  /\ asig' = [asig EXCEPT !.pc = "esperar"]
  /\ UNCHANGED <<rev, listas, sems, plan, dlk, hs, datos, red, cliente, entorno, mapa>>

\* Wrong on purpose: queue_pop without queue_is_empty.
AOtorgarSinMirar ==
  /\ Asig("asignar") /\ eBlocked # <<>>
  /\ LET t == Head(eBlocked)
         n == obj[t]
     IN /\ libres' = [libres EXCEPT ![n] = @ - 1]
        /\ tiene' = [tiene EXCEPT ![t][n] = @ + 1]
        /\ obj' = [obj EXCEPT ![t] = Ninguno]
        /\ Enviar(t, "Ruta")
        /\ asig' = [pc |-> "agregar", ent |-> t]
  /\ eBlocked' = Tail(eBlocked)
  /\ UNCHANGED <<eReady, eDeadlock, sems, mutex, plan, dlk, hs, pos,
                 pedido, cliente, entorno>>

AOtorgar ==
  /\ Asig("asignar") /\ eBlocked # <<>>
  /\ LET t == Head(eBlocked)
         n == obj[t]
     IN /\ libres[n] > 0
        /\ libres' = [libres EXCEPT ![n] = @ - 1]
        /\ tiene' = [tiene EXCEPT ![t][n] = @ + 1]
        /\ obj' = [obj EXCEPT ![t] = Ninguno]
        /\ Enviar(t, "Ruta")
        /\ asig' = [pc |-> "agregar", ent |-> t]
  /\ eBlocked' = Tail(eBlocked)
  /\ UNCHANGED <<eReady, eDeadlock, sems, mutex, plan, dlk, hs, pos,
                 pedido, cliente, entorno>>

\* Wrong on purpose: list_get for list_remove.
ARotarSinSacar ==
  /\ Asig("asignar") /\ eBlocked # <<>>
  /\ libres[obj[Head(eBlocked)]] = 0
  /\ eBlocked' = Append(eBlocked, Head(eBlocked))
  /\ semAsignador' = semAsignador + 1
  /\ mutexBlocked' = "libre"
  /\ asig' = [asig EXCEPT !.pc = "esperar"]
  /\ UNCHANGED <<rev, eReady, eDeadlock, semPlanificador, plan, dlk, hs, datos,
                 red, cliente, entorno, mapa>>

\* Wrong on purpose: the token is not given back.
ARotarSinFicha ==
  /\ Asig("asignar") /\ eBlocked # <<>>
  /\ libres[obj[Head(eBlocked)]] = 0
  /\ eBlocked' = Append(Tail(eBlocked), Head(eBlocked))
  /\ mutexBlocked' = "libre"
  /\ asig' = [asig EXCEPT !.pc = "esperar"]
  /\ UNCHANGED <<rev, eReady, eDeadlock, sems, plan, dlk, hs, datos,
                 red, cliente, entorno, mapa>>

\* Wrong on purpose: obj = 0 also when nothing was given.
ARotarOlvida ==
  /\ Asig("asignar") /\ eBlocked # <<>>
  /\ libres[obj[Head(eBlocked)]] = 0
  /\ eBlocked' = Append(Tail(eBlocked), Head(eBlocked))
  /\ semAsignador' = semAsignador + 1
  /\ mutexBlocked' = "libre"
  /\ obj' = [obj EXCEPT ![Head(eBlocked)] = Ninguno]
  /\ asig' = [asig EXCEPT !.pc = "esperar"]
  /\ UNCHANGED <<rev, eReady, eDeadlock, semPlanificador, plan, dlk, hs, pos, tiene, libres,
                 red, cliente, entorno, mapa>>

\* the nest is empty: to the end of the list, and the token back
ARotar ==
  /\ Asig("asignar") /\ eBlocked # <<>>
  /\ libres[obj[Head(eBlocked)]] = 0
  /\ eBlocked' = Append(Tail(eBlocked), Head(eBlocked))
  /\ semAsignador' = semAsignador + 1
  /\ mutexBlocked' = "libre"
  /\ asig' = [asig EXCEPT !.pc = "esperar"]
  /\ UNCHANGED <<rev, eReady, eDeadlock, semPlanificador, plan, dlk, hs, datos,
                 red, cliente, entorno, mapa>>

AAgregar ==
  /\ Asig("agregar")
  /\ eReady' = Append(eReady, asig.ent)
  /\ asig' = [pc |-> "postear", ent |-> Ninguno]
  /\ UNCHANGED <<eBlocked, eDeadlock, sems, mutex, plan, dlk, hs, datos,
                 red, cliente, entorno, mapa>>

\* Wrong on purpose: agregarReady without its sem_post.
APostearMudo ==
  /\ Asig("postear")
  /\ mutexBlocked' = "libre"
  /\ asig' = [asig EXCEPT !.pc = "esperar"]
  /\ UNCHANGED <<rev, listas, sems, plan, dlk, hs, datos, red, cliente, entorno, mapa>>

APostear ==
  /\ Asig("postear")
  /\ semPlanificador' = semPlanificador + 1
  /\ mutexBlocked' = "libre"
  /\ asig' = [asig EXCEPT !.pc = "esperar"]
  /\ UNCHANGED <<rev, listas, semAsignador, plan, dlk, hs, datos, red, cliente, entorno, mapa>>

Asignador ==
  \/ AEsperar \/ ATomar \/ AQuitarCaido \/ ADetectados \/ AVacia \/ AOtorgar
  \/ ARotar \/ AAgregar \/ APostear

-----------------------------------------------------------------------------
(* Deadlock thread. *)

DTomar ==
  /\ Dlk("dormir")
  /\ mutexBlocked = "libre"
  /\ mutexBlocked' = "deadlock"
  /\ dlk' = "detectar"
  /\ UNCHANGED <<rev, listas, sems, plan, asig, hs, datos, red, cliente, entorno, mapa>>

DQuitarCaido ==
  /\ Dlk("detectar")
  /\ QuitarCaido
  /\ UNCHANGED <<eReady, eDeadlock, sems, mutexBlocked, plan, asig, dlk, hs, obj, pos,
                 pedido, resp, cliente, entorno, mapa>>

\* Wrong on purpose: deadlocks are looked for among more than two.
DDetectadosDeMas ==
  /\ Dlk("detectar")
  /\ Caidos = {}
  /\ IF Len(eBlocked) > 2
       THEN dlk' = "analizar" /\ UNCHANGED mutexBlocked
       ELSE dlk' = "dormir" /\ mutexBlocked' = "libre"
  /\ rev' = 1
  /\ UNCHANGED <<listas, sems, plan, asig, hs, datos, red, cliente, entorno, mapa>>

\* fewer than two blocked: unlock and sleep again
DDetectados ==
  /\ Dlk("detectar")
  /\ Caidos = {}
  /\ IF Len(eBlocked) > 1
       THEN dlk' = "analizar" /\ UNCHANGED mutexBlocked
       ELSE dlk' = "dormir" /\ mutexBlocked' = "libre"
  /\ rev' = 1
  /\ UNCHANGED <<listas, sems, plan, asig, hs, datos, red, cliente, entorno, mapa>>

\* llenarEstructuras and deadlockDetect, the latter as DeteccionDeadlock!Resultado
\* sums it up: the rows of eBlocked it marks
FilasMarcadas ==
  LET filas == DOMAIN eBlocked IN
  Marcados([i \in filas |-> obj[eBlocked[i]]], [i \in filas |-> tiene[eBlocked[i]]], libres)

\* in battle mode every trainer marked is appended to eDeadlock, in the order of
\* eBlocked, and told.  batalla is read once: the code reads it again at each row, and a
\* reload between two of them would leave out the first or the last ones.
Avisar(M) ==
  /\ \E f \in [1..Cardinality(M) -> M] :
       /\ \A p, q \in DOMAIN f : p < q => f[p] < f[q]
       /\ eDeadlock' = eDeadlock \o [p \in DOMAIN f |-> eBlocked[f[p]]]
  /\ EnviarATodos({eBlocked[i] : i \in M}, "D")

DAnalizar ==
  /\ Dlk("analizar")
  /\ IF FilasMarcadas = {}
       THEN mutexBlocked' = "libre" /\ dlk' = "dormir"
       ELSE UNCHANGED mutexBlocked /\ dlk' = "decidir"
  /\ IF meta.batalla THEN Avisar(FilasMarcadas) ELSE UNCHANGED <<eDeadlock, sock, resp, mapa>>
  /\ UNCHANGED <<rev, eReady, eBlocked, sems, plan, asig, hs, datos, pedido, cliente, entorno>>

\* the second reading of mapaMetadata->batalla, and the sort of eDeadlock by
\* time of arrival: any order
DDecidir ==
  /\ Dlk("decidir")
  /\ IF meta.batalla
       THEN /\ dlk' = "batalla"
            /\ \E f \in {g \in [DOMAIN eDeadlock -> DOMAIN eDeadlock] :
                           \A i, j \in DOMAIN g : g[i] = g[j] => i = j} :
                 eDeadlock' = [i \in DOMAIN eDeadlock |-> eDeadlock[f[i]]]
            /\ UNCHANGED mutexBlocked
       ELSE /\ dlk' = "dormir" /\ mutexBlocked' = "libre"
            /\ UNCHANGED eDeadlock
  /\ UNCHANGED <<rev, eReady, eBlocked, sems, plan, asig, hs, datos, red, cliente, entorno, mapa>>

\* One fight of the first two of eDeadlock: the winner is told and leaves the
\* list, the loser goes back to the front to fight again.
Duelo(gana, pierde) ==
  /\ Enviar(gana, "R")
  /\ eDeadlock' = <<pierde>> \o SubSeq(eDeadlock, 3, Len(eDeadlock))
  /\ dlk' = IF Len(eDeadlock) = 2 THEN "matar" ELSE "batalla"

\* A member of eDeadlock that can fight: not freed and with some pokemon.
Apto(t) == t \in Vivos /\ tiene[t] # Nada

DCombate ==
  /\ Dlk("batalla") /\ Len(eDeadlock) > 1
  /\ LET eA == eDeadlock[1]
         eB == eDeadlock[2]
     IN IF Apto(eA) /\ Apto(eB)
          THEN Duelo(eA, eB) \/ Duelo(eB, eA)
          ELSE /\ mapa' = "memoria"
               /\ UNCHANGED <<eDeadlock, sock, resp, dlk>>
  /\ UNCHANGED <<eReady, eBlocked, sems, mutex, plan, asig, hs, datos,
                 pedido, cliente, entorno>>

\* The last loser is killed.  If it is not in eBlocked the search of line 536
\* runs for ever, with mutexBlocked held.
DMatar ==
  /\ Dlk("matar")
  /\ LET t == Head(eDeadlock) IN
     IF t \notin ToSet(eBlocked)
       THEN /\ dlk' = "colgado"
            /\ UNCHANGED <<eBlocked, tiene, libres, sock, resp, mapa>>
       ELSE /\ dlk' = "batalla"
            /\ mapa' = IF sock[t] = "roto" THEN "sigpipe" ELSE mapa
            /\ resp' = IF sock[t] = "abierto" THEN [resp EXCEPT ![t] = Append(@, "K")] ELSE resp
            /\ \E k \in DOMAIN eBlocked : /\ eBlocked[k] = t /\ eBlocked' = RemoveAt(eBlocked, k)
                                          /\ \A j \in 1 .. k - 1 : eBlocked[j] # t
            /\ Desconectar(t)
  /\ eDeadlock' = <<>>
  /\ UNCHANGED <<eReady, sems, mutex, plan, asig, hs, obj, pos,
                 pedido, cliente, entorno>>

DFin ==
  /\ Dlk("batalla") /\ Len(eDeadlock) <= 1
  /\ dlk' = "dormir"
  /\ mutexBlocked' = "libre"
  /\ UNCHANGED <<rev, listas, sems, plan, asig, hs, datos, red, cliente, entorno, mapa>>

Deadlock ==
  \/ DTomar \/ DQuitarCaido \/ DDetectados \/ DAnalizar \/ DDecidir \/ DCombate
  \/ DMatar \/ DFin

-----------------------------------------------------------------------------
(* Signal SIGUSR2: getMapaMetadata reads the file again. *)

Recargar ==
  /\ recargas < MaxRecargas /\ mapa = "vivo"
  /\ recargas' = recargas + 1
  /\ meta' \in Metas \ {meta}
  /\ UNCHANGED <<listas, sems, mutex, hilos, datos, red, cliente, abandonos, mapa>>

-----------------------------------------------------------------------------
(* Trainers.  Each sends a request and waits for the reply; while it waits *)
(* for a capture it may also be told of deadlocks and battles.  Only       *)
(* capturarPokemon looks at what it receives: the other waits take the     *)
(* first bytes that come for their reply.                                  *)

\* connect and accept: main creates the handshake thread
Conectar(t) ==
  /\ sock[t] = "libre" /\ mapa = "vivo"
  /\ sock' = [sock EXCEPT ![t] = "abierto"]
  /\ hs' = [hs EXCEPT ![t] = "bienvenida"]
  /\ cli' = [cli EXCEPT ![t] = "bienvenida"]
  /\ UNCHANGED <<listas, sems, mutex, plan, asig, dlk, datos,
                 pedido, resp, x, cumplidos, entorno, mapa>>

Esperadas == [bienvenida |-> {"Bienvenida"}, coord |-> {"Coord", "N"}, mover |-> {"OK"},
              capturar |-> {"Ruta", "D", "R", "K"}, medalla |-> {"Medalla"}]

\* Of these, the notices: the deadlock thread sends them when it likes.
Avisos == {"D", "R"}

\* the client takes the next reply
Toma(t, r) ==
  /\ cli[t] \in DOMAIN Esperadas
  /\ resp[t] # <<>> /\ Head(resp[t]) = r
  /\ resp' = [resp EXCEPT ![t] = Tail(@)]
  /\ UNCHANGED <<listas, sems, mutex, hilos, datos, entorno, mapa>>

\* jugarMapa with c objectives fulfilled: ask for the next one, or for the medal
PedirProximo(t, c, antes) ==
  /\ UNCHANGED <<x, sock>>
  /\ cumplidos' = [cumplidos EXCEPT ![t] = c]
  /\ IF c < Len(Objetivos[t])
       THEN /\ pedido' = [pedido EXCEPT ![t] = @ \o antes \o <<Msj("C", Objetivos[t][c + 1])>>]
            /\ cli' = [cli EXCEPT ![t] = "coord"]
       ELSE /\ pedido' = [pedido EXCEPT ![t] = @ \o antes \o <<Msj("O", Ninguno)>>]
            /\ cli' = [cli EXCEPT ![t] = "medalla"]

\* irPosicionPokenest, and capturarPokemon once there
Avanzar(t) ==
  LET n == Objetivos[t][cumplidos[t] + 1] IN
  /\ UNCHANGED <<cumplidos, sock>>
  /\ IF x[t] = Posicion[n]
       THEN /\ pedido' = [pedido EXCEPT ![t] = Append(@, Msj("G", n))]
            /\ cli' = [cli EXCEPT ![t] = "capturar"]
            /\ UNCHANGED x
       ELSE /\ LET der == x[t] < Posicion[n] IN
                 /\ x' = [x EXCEPT ![t] = IF der THEN @ + 1 ELSE @ - 1]
                 /\ pedido' = [pedido EXCEPT ![t] =
                                 Append(@, Msj(IF der THEN "MR" ELSE "ML", Ninguno))]
            /\ cli' = [cli EXCEPT ![t] = "mover"]

\* the client closes its socket
Irse(t) ==
  /\ cli' = [cli EXCEPT ![t] = "fin"]
  /\ sock' = [sock EXCEPT ![t] = IF @ = "abierto" THEN "finCliente" ELSE @]

\* A notice in the place of the coordinates (6 bytes) or of the OK (2): the rest of its
\* 256 bytes will be taken for the replies to come.  The model follows the trainer no
\* further; it can still be killed.
Desfasarse(t) ==
  /\ \E r \in Avisos : Toma(t, r)
  /\ cli' = [cli EXCEPT ![t] = "desfasado"]
  /\ UNCHANGED <<sock, pedido, x, cumplidos>>

CBienvenida(t) == Toma(t, "Bienvenida") /\ cli[t] = "bienvenida"
                  /\ PedirProximo(t, 0, <<Msj("Id", Ninguno)>>)
CCoordenadas(t) == cli[t] = "coord" /\ ((Toma(t, "Coord") /\ Avanzar(t)) \/ Desfasarse(t))
CMover(t) == cli[t] = "mover" /\ ((Toma(t, "OK") /\ Avanzar(t)) \/ Desfasarse(t))
CCaptura(t) == Toma(t, "Ruta") /\ cli[t] = "capturar" /\ PedirProximo(t, cumplidos[t] + 1, <<>>)
CAviso(t) == /\ \E r \in Avisos : Toma(t, r)
             /\ cli[t] = "capturar"
             /\ UNCHANGED <<sock, pedido, cliente>>
\* whatever comes is the path of the medal
CSalir(t) == /\ \/ Toma(t, "N") /\ cli[t] = "coord"
                \/ Toma(t, "K") /\ cli[t] = "capturar"
                \/ (\E r \in Avisos \cup {"Medalla"} : Toma(t, r)) /\ cli[t] = "medalla"
             /\ Irse(t)
             /\ UNCHANGED <<pedido, x, cumplidos>>

Cliente(t) ==
  \/ CBienvenida(t) \/ CCoordenadas(t) \/ CMover(t) \/ CCaptura(t) \/ CAviso(t)
  \/ CSalir(t)

\* the trainer is killed (SIGINT, or SIGTERM seen at its next check)
Abandonar(t) ==
  /\ abandonos < MaxAbandonos
  /\ cli[t] \in DOMAIN Esperadas \cup {"desfasado"}
  /\ abandonos' = abandonos + 1
  /\ Irse(t)
  /\ resp' = [resp EXCEPT ![t] = <<>>]
  /\ UNCHANGED <<listas, sems, mutex, hilos, datos, pedido, x, cumplidos,
                 meta, recargas, mapa>>

-----------------------------------------------------------------------------
Next ==
  \/ \E t \in Entrenadores : Handshake(t) \/ Conectar(t) \/ Cliente(t) \/ Abandonar(t)
  \/ Planificador \/ Asignador \/ Deadlock \/ Recargar

Spec == Init /\ [][Next]_vars

\* Every thread runs and every trainer answers.  A thread that wants mutexBlocked
\* gets it: asignador and deadlock sleep between two uses of it (lines 585, 567).
Equidad ==
  /\ \A t \in Entrenadores :
       WF_vars(Handshake(t)) /\ WF_vars(Conectar(t)) /\ WF_vars(Cliente(t))
  /\ WF_vars(Planificador) /\ SF_vars(PBloquear)
  /\ WF_vars(Asignador) /\ SF_vars(ATomar)
  /\ WF_vars(Deadlock) /\ SF_vars(DTomar)

FairSpec == Spec /\ Equidad

-----------------------------------------------------------------------------
Pedidos == [op : {"Id", "C", "MR", "ML", "G", "O"},
            nido : PokeNests \cup {Desconocido, Ninguno}]
Respuestas == {"Bienvenida", "Coord", "N", "OK", "Ruta", "D", "R", "K", "Medalla"}
Hay(b) == IF b THEN 1 ELSE 0

TListas == /\ eReady \in Seq(Entrenadores) /\ eBlocked \in Seq(Entrenadores)
           /\ eDeadlock \in Seq(Entrenadores)
TSems == /\ semPlanificador \in Nat /\ semAsignador \in Nat
         /\ mutexBlocked \in {"libre", "asignador", "deadlock"} /\ rev \in Nat
TPlan == /\ plan \in [pc : {"esperar", "sacar", "atender", "postReady", "bloquear",
                            "postBlocked", "devolver"},
                      ent : Entrenadores \cup {Ninguno}, ql : 0..Quantum, alg : {"RR", "SRDF"}]
         /\ plan.pc \in {"atender", "bloquear", "devolver"} <=> plan.ent # Ninguno
TAsig == /\ asig \in [pc : {"esperar", "tomar", "detectar", "asignar", "agregar", "postear"},
                      ent : Entrenadores \cup {Ninguno}]
         /\ asig.pc = "agregar" <=> asig.ent # Ninguno
THilos ==
  /\ dlk \in {"dormir", "detectar", "analizar", "decidir", "batalla", "matar", "colgado"}
  /\ hs \in [Entrenadores -> {"no", "bienvenida", "recibir", "postear", "fin"}]
TDatos == /\ obj \in [Entrenadores -> PokeNests \cup {Ninguno}]
          /\ pos \in [Entrenadores -> Int]
          /\ tiene \in [Entrenadores -> [PokeNests -> Nat]] /\ libres \in [PokeNests -> Nat]
TRed ==
  /\ sock \in [Entrenadores -> {"libre", "abierto", "finCliente", "roto", "cerrado"}]
  /\ pedido \in [Entrenadores -> Seq(Pedidos)] /\ resp \in [Entrenadores -> Seq(Respuestas)]
TCliente ==
  /\ cli \in [Entrenadores -> {"fuera", "fin", "desfasado"} \cup DOMAIN Esperadas]
  /\ x \in [Entrenadores -> Int] /\ cumplidos \in [Entrenadores -> Nat]
  /\ \A t \in Entrenadores :
       /\ cumplidos[t] <= Len(Objetivos[t])
       /\ cli[t] \in {"coord", "mover", "capturar"} => cumplidos[t] < Len(Objetivos[t])
TEntorno == /\ meta \in Metas /\ mapa \in {"vivo", "sigpipe", "memoria"}
            /\ abandonos \in 0..MaxAbandonos /\ recargas \in 0..MaxRecargas

\* The values the variables of the process and of its trainers can take.  A thread
\* has a trainer in hand exactly where its code has one; a client that plays has an
\* objective left.
TypeOK ==
  TListas /\ TSems /\ TPlan /\ TAsig /\ THilos /\ TDatos /\ TRed /\ TCliente /\ TEntorno

\* No pokemon is lost or made up: the queue of a nest and the lists of the
\* trainers always add up to what the nest started with, through captures,
\* devolverPokemons without the mutex, deaths and disconnections.
Conservacion ==
  \A n \in PokeNests :
    libres[n] + MapThenSumSet(LAMBDA t : tiene[t][n], Entrenadores) = Cantidad[n]

\* Each tEntrenador has one owner: it is in eReady, in eBlocked, or in the hand of
\* one thread, once; a freed one is nowhere, so nobody but eDeadlock (no owner)
\* can reach freed memory (agregarReady, agregarBlocked, desconectarEntrenador).
Apariciones(t) ==
  Cardinality({i \in DOMAIN eReady : eReady[i] = t})
    + Cardinality({i \in DOMAIN eBlocked : eBlocked[i] = t})
    + Hay(plan.ent = t) + Hay(asig.ent = t) + Hay(hs[t] \in {"bienvenida", "recibir"})
UnSoloDuenio == \A t \in Entrenadores : Apariciones(t) = Hay(t \in Vivos)

\* The tokens of semPlanificador, counting those about to be posted and the one
\* the planner has taken, are as many as the trainers in eReady: the planner never
\* takes from an empty list (line 619) and no ready trainer is forgotten.
PorPostear == {t \in Entrenadores : hs[t] = "postear"}
FichasReady ==
  Len(eReady) = semPlanificador + Cardinality(PorPostear)
                + Hay(plan.pc \in {"sacar", "postReady"}) + Hay(asig.pc = "postear")

\* No lost wake-up: there is a token of semAsignador for every blocked trainer.
\* There may be more: those of trainers removed by the other thread.
FichasBlocked ==
  Len(eBlocked) <= semAsignador + Hay(plan.pc = "postBlocked")
                   + Hay(asig.pc \in {"tomar", "detectar", "asignar"})

\* A trainer that waits stands on the nest it waits for and obj names it, so
\* getPokeNestFromID(obj) of lines 392 and 589 is never -1.
EsperaEnSuNido ==
  \A t \in Entrenadores :
    t \in ToSet(eBlocked) \/ (plan.pc = "bloquear" /\ plan.ent = t) =>
      obj[t] \in PokeNests /\ pos[t] = Posicion[obj[t]]

\* Map and trainer agree, until the trainer takes a notice for its reply (SinDesfase): the
\* pokemon the map has given are the objectives the trainer counts plus the routes it has
\* not read, and both have the trainer in the same place but for the moves on their way.
Veces(s, v) == Cardinality({i \in DOMAIN s : s[i] = v})
Enviados(t, op) == Cardinality({i \in DOMAIN pedido[t] : pedido[t][i].op = op})
Espejo ==
  \A t \in Entrenadores :
    sock[t] = "abierto" /\ cli[t] # "desfasado" /\ ~(plan.pc = "devolver" /\ plan.ent = t) =>
      /\ MapThenSumSet(LAMBDA n : tiene[t][n], PokeNests) = cumplidos[t] + Veces(resp[t], "Ruta")
      /\ x[t] = pos[t] + Enviados(t, "MR") - Enviados(t, "ML")

\* What a trainer has to read is what it is waiting for: one reply of that kind at most,
\* with nothing after it, and notices only before it and only while it waits for a capture.
EnFase(t) ==
  cli[t] \in DOMAIN Esperadas =>
    \A i \in DOMAIN resp[t] :
      resp[t][i] \in Esperadas[cli[t]] /\ (resp[t][i] \in Avisos \/ i = Len(resp[t]))

\* A trainer that asked for coordinates gets them, or is told that there is no such nest:
\* "Recibo las coordenadas en formato XXXYYY", says entrenador.c 319 of the recv that
\* takes the next 6 bytes.  The code breaks it: see README.
SonCoordenadas ==
  \A t \in Entrenadores :
    cli[t] = "coord" /\ resp[t] # <<>> => Head(resp[t]) \in Esperadas["coord"]

\* There is one way for a trainer and its map to get out of step: a battle won on account
\* of an old entry of eDeadlock, whose "R" (line 529) goes to a trainer that nobody keeps
\* waiting.  The "D" of a deadlock, the "R" of the other winners, the replies of the
\* planner and of asignador and what the trainer does itself always find it in step: the
\* client does not look at what it receives (entrenador.c 320, 355), it would take the
\* bytes of another message for its reply.
SinDesfase ==
  [][\A t \in Entrenadores :
       EnFase(t) /\ ~EnFase(t)' => dlk = "batalla" /\ t \in ToSet(eDeadlock) \ ToSet(eBlocked)]_vars

\* Neither SIGPIPE nor an invalid pointer stops the map, and the deadlock thread
\* does not hang with mutexBlocked held (lines 487, 529, 536, 619).
ProcesoSano == mapa = "vivo" /\ dlk # "colgado"

-----------------------------------------------------------------------------
\* The trainers really in deadlock: the largest set of blocked ones that wait for
\* pokemon held, all of them, within the set.
Interbloqueados ==
  UNION {D \in SUBSET ToSet(eBlocked) :
           \A t \in D : /\ libres[obj[t]] = 0
                        /\ \A u \in Entrenadores : tiene[u][obj[t]] > 0 => u \in D}

\* A battle is called when there is one: every trainer that is told "D" is in
\* deadlock, as the comment of line 486 says.  The code breaks it: see README.
AvisoFiel ==
  dlk = "decidir" /\ meta.batalla => ToSet(eDeadlock) \subseteq Interbloqueados

\* What the declaration of eDeadlock says (line 95: the list of trainers in
\* deadlock) taken at its weakest: while the thread sleeps, whoever is in the list
\* is at least blocked.  The code breaks it: one that was marked alone stays (line 504).
EnDeadlockBloqueado ==
  dlk = "dormir" => ToSet(eDeadlock) \subseteq ToSet(eBlocked)

\* What the liveness properties do not answer for: the process is dead or hung, or
\* eDeadlock has the entries EnDeadlockBloqueado is about, which may end in that, or a
\* trainer has read the "R" that one of them made the map send.
Ruina == ~ProcesoSano \/ ~EnDeadlockBloqueado \/ \E t \in Entrenadores : cli[t] = "desfasado"

\* With the battle mode on, no deadlock lasts: some loser is sent away and the
\* others go on (deadlock, batallaPokemon), whenever it has been switched on or off:
\* between two rounds, or between the two readings of it in one (lines 482 and 572).
DeadlockSeResuelve ==
  \A t \in Entrenadores : t \in Interbloqueados ~> t \notin Interbloqueados \/ ~meta.batalla \/ Ruina

\* Nobody is left waiting in front of a pokemon: the trainer at the head of
\* eBlocked whose nest has one gets out of the list.
NadieEsperaEnVano ==
  \A t \in Entrenadores :
    (eBlocked # <<>> /\ Head(eBlocked) = t /\ libres[obj[t]] > 0) ~> t \notin ToSet(eBlocked)

\* Every trainer that connects is dealt with to the end: it gets its medal, dies
\* or is found gone, and its connection is closed and its structure freed.  Only a
\* deadlock that no battle resolves keeps it for ever.
TodosTerminan ==
  \A t \in Entrenadores : sock[t] = "abierto" ~>
    sock[t] = "cerrado" \/ (~meta.batalla /\ t \in Interbloqueados) \/ Ruina

\* The map allocates its pokemon as Recursos says.  A trainer asks while it is in
\* eBlocked and stops playing when the planner starts disconnecting it.
Asignacion == INSTANCE Recursos WITH
  pide <- [t \in Entrenadores |-> IF t \in ToSet(eBlocked) THEN obj[t] ELSE Ninguno],
  juega <- {t \in Vivos : hs[t] \notin {"bienvenida", "recibir"}
                          /\ ~(plan.pc = "devolver" /\ plan.ent = t)}
AsignaBien == Asignacion!Spec
=============================================================================
