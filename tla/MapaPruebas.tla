---------------------------- MODULE MapaPruebas ----------------------------
(***************************************************************************)
(* Proofs about Mapa for any number of trainers, nests and pokemon: the    *)
(* types of all its variables, the two counts of tokens that tie each      *)
(* semaphore to its list; who owns each tEntrenador (it is in one list,    *)
(* once, or in the hand of one thread); and, from that, that the map       *)
(* allocates its pokemon as Recursos says.                                 *)
(***************************************************************************)
EXTENDS Mapa, FiniteSetTheorems, SequenceTheorems, TLAPS

-----------------------------------------------------------------------------
\* RemoveAt takes one element away.
LEMMA Quitado ==
  ASSUME NEW S, NEW s \in Seq(S), NEW k \in DOMAIN s
  PROVE  RemoveAt(s, k) \in Seq(S) /\ Len(RemoveAt(s, k)) = Len(s) - 1
BY SMTT(30) DEF RemoveAt

\* The two parts of a list with something in it.
LEMMA Cabeza ==
  ASSUME NEW S, NEW s \in Seq(S), s # <<>>
  PROVE  Head(s) \in S /\ Tail(s) \in Seq(S) /\ Len(Tail(s)) = Len(s) - 1
OBVIOUS

\* One more, or one fewer where there is some.
LEMMA Contado ==
  ASSUME NEW S, NEW f \in [S -> Nat], NEW n
  PROVE  /\ [f EXCEPT ![n] = @ + 1] \in [S -> Nat]
         /\ f[n] > 0 => [f EXCEPT ![n] = @ - 1] \in [S -> Nat]
<1>1. CASE n \in S
  BY <1>1
<1>2. CASE n \notin S
  BY <1>2
<1>. QED BY <1>1, <1>2

\* The places where a trainer waits for a reply.
LEMMA Estaciones ==
  DOMAIN Esperadas = {"bienvenida", "coord", "mover", "capturar", "medalla"}
BY DEF Esperadas

\* Sending keeps the types of what it touches.
LEMMA Enviado ==
  ASSUME TRed, TEntorno, NEW T \in SUBSET Entrenadores, NEW m \in Respuestas,
         EnviarATodos(T, m)
  PROVE  /\ sock' \in [Entrenadores -> {"libre", "abierto", "finCliente", "roto", "cerrado"}]
         /\ resp' \in [Entrenadores -> Seq(Respuestas)]
         /\ mapa' \in {"vivo", "sigpipe", "memoria"}
BY DEF TRed, TEntorno, EnviarATodos

\* Sending to one trainer is sending to a set of them.
LEMMA Uno == \A t \in Entrenadores : {t} \in SUBSET Entrenadores
OBVIOUS

\* detectarDesconectados keeps the types of what it touches and takes one
\* trainer out of eBlocked.
LEMMA CaidoTipo ==
  ASSUME TListas, TDatos, TRed, TSems, QuitarCaido
  PROVE  /\ eBlocked' \in Seq(Entrenadores) /\ Len(eBlocked') = Len(eBlocked) - 1
         /\ rev' \in Nat
         /\ libres' \in [PokeNests -> Nat] /\ tiene' \in [Entrenadores -> [PokeNests -> Nat]]
         /\ sock' \in [Entrenadores -> {"libre", "abierto", "finCliente", "roto", "cerrado"}]
<1>1. PICK k \in Caidos : /\ rev' = k /\ eBlocked' = RemoveAt(eBlocked, k)
                          /\ Desconectar(eBlocked[k])
  BY DEF QuitarCaido
<1>2. k \in DOMAIN eBlocked /\ k \in Nat /\ eBlocked[k] \in Entrenadores
  BY DEF Caidos, TListas
<1>3. eBlocked' \in Seq(Entrenadores) /\ Len(eBlocked') = Len(eBlocked) - 1
  BY <1>1, <1>2, Quitado DEF TListas
<1>4. /\ libres' \in [PokeNests -> Nat] /\ tiene' \in [Entrenadores -> [PokeNests -> Nat]]
      /\ sock' \in [Entrenadores -> {"libre", "abierto", "finCliente", "roto", "cerrado"}]
  BY <1>1, <1>2 DEF Desconectar, TDatos, TRed, Nada
<1>. QED BY <1>1, <1>2, <1>3, <1>4

\* The rows marked are rows of eBlocked, finitely many.
LEMMA FilasTipo ==
  ASSUME TListas
  PROVE  /\ FilasMarcadas \subseteq DOMAIN eBlocked
         /\ Cardinality(FilasMarcadas) \in Nat
<1>1. FilasMarcadas \subseteq DOMAIN eBlocked
  BY DEF FilasMarcadas, Marcados, Tenedores
<1>2. DOMAIN eBlocked = 1..Len(eBlocked) /\ Len(eBlocked) \in Nat
  BY DEF TListas
<1>3. IsFiniteSet(DOMAIN eBlocked)
  BY <1>2, FS_Interval
<1>. QED BY <1>1, <1>3, FS_Subset, FS_CardinalityType

\* Telling the marked trainers keeps the types of what it touches.
LEMMA AvisoTipo ==
  ASSUME TListas, TRed, TEntorno, Avisar(FilasMarcadas)
  PROVE  /\ eDeadlock' \in Seq(Entrenadores)
         /\ sock' \in [Entrenadores -> {"libre", "abierto", "finCliente", "roto", "cerrado"}]
         /\ resp' \in [Entrenadores -> Seq(Respuestas)]
         /\ mapa' \in {"vivo", "sigpipe", "memoria"}
<1>. DEFINE M == FilasMarcadas
            T == {eBlocked[i] : i \in M}
<1>1. PICK f \in [1..Cardinality(M) -> M] :
        eDeadlock' = eDeadlock \o [p \in DOMAIN f |-> eBlocked[f[p]]]
  BY DEF Avisar
<1>2. \A i \in M : eBlocked[i] \in Entrenadores
  BY FilasTipo DEF TListas
<1>. DEFINE s == [p \in DOMAIN f |-> eBlocked[f[p]]]
<1>3. s \in Seq(Entrenadores)
  <2>. DEFINE n == Cardinality(M)
  <2>1. n \in Nat /\ DOMAIN f = 1..n
    BY FilasTipo
  <2>2. \A p \in 1..n : eBlocked[f[p]] \in Entrenadores
    BY <1>2
  <2>. HIDE DEF n, M
  <2>. QED BY <2>1, <2>2
<1>4. eDeadlock' \in Seq(Entrenadores)
  <2>1. eDeadlock' = eDeadlock \o s
    BY <1>1
  <2>. HIDE DEF s
  <2>. QED BY <1>3, <2>1 DEF TListas
<1>5. T \in SUBSET Entrenadores /\ "D" \in Respuestas /\ EnviarATodos(T, "D")
  BY <1>2 DEF Avisar, Respuestas
<1>. QED BY <1>4, <1>5, Enviado

-----------------------------------------------------------------------------
\* The handshake threads.
LEMMA TipoHandshake ==
  ASSUME TypeOK, NEW t \in Entrenadores, Handshake(t)
  PROVE  TypeOK'
<1>. USE DEF TypeOK, Hs
<1>1. CASE HBienvenida(t)
  <2>1. TListas' /\ TSems' /\ TPlan' /\ TAsig' /\ TDatos' /\ TCliente'
    BY <1>1 DEF HBienvenida, TListas, TSems, TPlan, TAsig, TDatos, TCliente, listas,
                sems, mutex, datos, cliente, entorno, red
  <2>2. THilos'
    BY <1>1 DEF HBienvenida, THilos
  <2>3. TRed'
    BY <1>1, Enviado, Uno DEF HBienvenida, TRed, Enviar, Respuestas
  <2>4. TEntorno'
    BY <1>1, Enviado, Uno DEF HBienvenida, TEntorno, Enviar, Respuestas, entorno
  <2>. QED BY <2>1, <2>2, <2>3, <2>4
<1>2. CASE HRecibir(t)
  <2>1. TSems' /\ TPlan' /\ TAsig' /\ TDatos' /\ TCliente' /\ TEntorno'
    BY <1>2 DEF HRecibir, TSems, TPlan, TAsig, TDatos, TCliente, TEntorno, listas, sems,
                mutex, datos, cliente, entorno, red
  <2>2. THilos'
    BY <1>2 DEF HRecibir, THilos
  <2>3. TListas'
    BY <1>2 DEF HRecibir, TListas
  <2>4. TRed'
    BY <1>2 DEF HRecibir, TRed
  <2>. QED BY <2>1, <2>2, <2>3, <2>4
<1>3. CASE HDesconexion(t)
  <2>1. TListas' /\ TSems' /\ TPlan' /\ TAsig' /\ TDatos' /\ TCliente' /\ TEntorno'
    BY <1>3 DEF HDesconexion, TListas, TSems, TPlan, TAsig, TDatos, TCliente, TEntorno,
                listas, sems, mutex, datos, cliente, entorno, red
  <2>2. THilos'
    BY <1>3 DEF HDesconexion, THilos
  <2>3. TRed'
    BY <1>3 DEF HDesconexion, TRed
  <2>. QED BY <2>1, <2>2, <2>3
<1>4. CASE HPostear(t)
  <2>1. TListas' /\ TPlan' /\ TAsig' /\ TDatos' /\ TRed' /\ TCliente' /\ TEntorno'
    BY <1>4 DEF HPostear, TListas, TPlan, TAsig, TDatos, TRed, TCliente, TEntorno,
                listas, sems, mutex, datos, cliente, entorno, red
  <2>2. THilos'
    BY <1>4 DEF HPostear, THilos
  <2>3. TSems'
    BY <1>4 DEF HPostear, TSems, mutex
  <2>. QED BY <2>1, <2>2, <2>3
<1>. QED BY <1>1, <1>2, <1>3, <1>4 DEF Handshake

\* The planner serving the trainer in hand.
LEMMA TipoAtender ==
  ASSUME TypeOK, NEW t \in Entrenadores, Atender(t)
  PROVE  TypeOK'
<1>. USE DEF TypeOK, Plan, Recibe
<1>1. CASE PDesconexion(t)
  <2>1. TListas' /\ TSems' /\ TAsig' /\ THilos' /\ TDatos' /\ TRed' /\ TCliente' /\ TEntorno'
    BY <1>1 DEF PDesconexion, TListas, TSems, TAsig, THilos, TDatos, TRed, TCliente,
                TEntorno, listas, sems, mutex, datos, cliente, entorno, red
  <2>2. TPlan'
    BY <1>1 DEF PDesconexion, TPlan
  <2>. QED BY <2>1, <2>2
<1>2. CASE PCoordenadas(t)
  <2>1. TSems' /\ TAsig' /\ THilos' /\ TCliente'
    BY <1>2 DEF PCoordenadas, TSems, TAsig, THilos, TCliente, listas, sems, mutex,
                datos, cliente, entorno, red
  <2>2. TListas'
    <3>1. eReady' = eReady \/ eReady' = Append(eReady, t)
      BY <1>2 DEF PCoordenadas
    <3>2. eBlocked' = eBlocked /\ eDeadlock' = eDeadlock
      BY <1>2 DEF PCoordenadas
    <3>. QED BY <3>1, <3>2, SMTT(60) DEF TListas
  <2>3. TPlan'
    <3>1. Resta \in 0..Quantum
      BY <1>2, SupuestoMapa DEF PCoordenadas, Resta, TPlan
    <3>2. /\ plan.pc = "atender"
          /\ \/ plan' = [plan EXCEPT !.ql = Resta]
             \/ plan' = [plan EXCEPT !.pc = "postReady", !.ent = Ninguno]
      BY <1>2 DEF PCoordenadas
    <3>. QED BY <3>1, <3>2 DEF TPlan
  <2>4. TDatos'
    BY <1>2 DEF PCoordenadas, TDatos, Recibe
  <2>5. TRed'
    BY <1>2, Enviado, Uno DEF PCoordenadas, TRed, Enviar, Respuestas, Recibe
  <2>6. TEntorno'
    BY <1>2, Enviado, Uno DEF PCoordenadas, TEntorno, Enviar, Respuestas, entorno
  <2>. QED BY <2>1, <2>2, <2>3, <2>4, <2>5, <2>6
<1>3. CASE PNoExiste(t)
  <2>1. TListas' /\ TSems' /\ TAsig' /\ THilos' /\ TDatos' /\ TCliente'
    BY <1>3 DEF PNoExiste, TListas, TSems, TAsig, THilos, TDatos, TCliente, listas,
                sems, mutex, datos, cliente, entorno, red
  <2>2. TPlan'
    BY <1>3 DEF PNoExiste, TPlan, Recibe, Plan
  <2>3. TRed'
    BY <1>3, Enviado, Uno DEF PNoExiste, TRed, Enviar, Respuestas, Recibe
  <2>4. TEntorno'
    BY <1>3, Enviado, Uno DEF PNoExiste, TEntorno, Enviar, Respuestas, entorno
  <2>. QED BY <2>1, <2>2, <2>3, <2>4
<1>4. CASE PMover(t)
  <2>1. TListas' /\ TSems' /\ TAsig' /\ THilos' /\ TCliente'
    BY <1>4 DEF PMover, TListas, TSems, TAsig, THilos, TCliente, listas, sems, mutex,
                datos, cliente, entorno, red
  <2>2. TPlan'
    <3>1. Resta \in 0..Quantum
      BY <1>4, SupuestoMapa DEF PMover, Resta, TPlan
    <3>2. plan' = [plan EXCEPT !.ql = Resta]
      BY <1>4 DEF PMover
    <3>. QED BY <3>1, <3>2 DEF TPlan
  <2>3. TDatos'
    BY <1>4 DEF PMover, TDatos, Recibe
  <2>4. TRed'
    <3>1. pedido[t] # <<>> /\ pedido' = [pedido EXCEPT ![t] = Tail(@)]
      BY <1>4 DEF PMover
    <3>2. EnviarATodos({t}, "OK") /\ "OK" \in Respuestas
      BY <1>4 DEF PMover, Enviar, Respuestas
    <3>3. pedido' \in [Entrenadores -> Seq(Pedidos)]
      BY <3>1 DEF TRed
    <3>. QED BY <3>2, <3>3, Enviado, Uno DEF TRed
  <2>5. TEntorno'
    BY <1>4, Enviado, Uno DEF PMover, TEntorno, Enviar, Respuestas, entorno
  <2>. QED BY <2>1, <2>2, <2>3, <2>4, <2>5
<1>5. CASE PCapturar(t)
  <2>1. TListas' /\ TSems' /\ TAsig' /\ THilos' /\ TDatos' /\ TCliente' /\ TEntorno'
    BY <1>5 DEF PCapturar, TListas, TSems, TAsig, THilos, TDatos, TCliente, TEntorno,
                listas, sems, mutex, datos, cliente, entorno, red
  <2>2. TPlan'
    BY <1>5 DEF PCapturar, TPlan, Recibe, Plan
  <2>3. TRed'
    BY <1>5 DEF PCapturar, TRed, Recibe
  <2>. QED BY <2>1, <2>2, <2>3
<1>6. CASE PMedalla(t)
  <2>1. TListas' /\ TSems' /\ TAsig' /\ THilos' /\ TDatos' /\ TCliente'
    BY <1>6 DEF PMedalla, TListas, TSems, TAsig, THilos, TDatos, TCliente, listas, sems,
                mutex, datos, cliente, entorno, red
  <2>2. TPlan'
    BY <1>6 DEF PMedalla, TPlan, Recibe, Plan
  <2>3. TRed'
    BY <1>6, Enviado, Uno DEF PMedalla, TRed, Enviar, Respuestas, Recibe
  <2>4. TEntorno'
    BY <1>6, Enviado, Uno DEF PMedalla, TEntorno, Enviar, Respuestas, entorno
  <2>. QED BY <2>1, <2>2, <2>3, <2>4
<1>. QED BY <1>1, <1>2, <1>3, <1>4, <1>5, <1>6 DEF Atender

\* The rest of the planner.
LEMMA TipoPlanificador ==
  ASSUME TypeOK, Planificador
  PROVE  TypeOK'
<1>. USE DEF TypeOK, Plan
<1>1. CASE PEsperar
  <2>1. TListas' /\ TAsig' /\ THilos' /\ TDatos' /\ TRed' /\ TCliente' /\ TEntorno'
    BY <1>1 DEF PEsperar, TListas, TAsig, THilos, TDatos, TRed, TCliente, TEntorno,
                listas, sems, mutex, datos, cliente, entorno, red
  <2>2. TSems'
    BY <1>1 DEF PEsperar, TSems, mutex
  <2>3. TPlan'
    BY <1>1, SupuestoMapa DEF PEsperar, TPlan, TEntorno
  <2>. QED BY <2>1, <2>2, <2>3
<1>2. CASE PSacar
  <2>1. TSems' /\ TAsig' /\ THilos' /\ TDatos' /\ TRed' /\ TCliente'
    BY <1>2 DEF PSacar, TSems, TAsig, THilos, TDatos, TRed, TCliente, listas, sems,
                mutex, datos, cliente, entorno, red
  <2>2. TListas'
    <3>1. eReady' = eReady \/ \E i \in DOMAIN eReady : eReady' = RemoveAt(eReady, i)
      BY <1>2 DEF PSacar
    <3>2. eReady' \in Seq(Entrenadores)
      BY <3>1, Quitado DEF TListas
    <3>3. eBlocked' = eBlocked /\ eDeadlock' = eDeadlock
      BY <1>2 DEF PSacar
    <3>. QED BY <3>2, <3>3 DEF TListas
  <2>3. TPlan'
    <3>1. \A i \in DOMAIN eReady : eReady[i] \in Entrenadores /\ eReady[i] # Ninguno
      BY SupuestoMapa DEF TListas
    <3>2. \/ plan' = plan
          \/ \E t \in Entrenadores :
               t # Ninguno /\ plan' = [plan EXCEPT !.pc = "atender", !.ent = t]
      BY <1>2, <3>1 DEF PSacar
    <3>. QED BY <3>2 DEF TPlan
  <2>4. TEntorno'
    BY <1>2 DEF PSacar, TEntorno, entorno
  <2>. QED BY <2>1, <2>2, <2>3, <2>4
<1>3. CASE PFinQuantum
  <2>1. TSems' /\ TAsig' /\ THilos' /\ TDatos' /\ TRed' /\ TCliente' /\ TEntorno'
    BY <1>3 DEF PFinQuantum, TSems, TAsig, THilos, TDatos, TRed, TCliente, TEntorno,
                listas, sems, mutex, datos, cliente, entorno, red
  <2>2. TListas'
    BY <1>3 DEF PFinQuantum, TListas, TPlan
  <2>3. TPlan'
    BY <1>3 DEF PFinQuantum, TPlan
  <2>. QED BY <2>1, <2>2, <2>3
<1>4. CASE PPostReady
  <2>1. TListas' /\ TAsig' /\ THilos' /\ TDatos' /\ TRed' /\ TCliente' /\ TEntorno'
    BY <1>4 DEF PPostReady, TListas, TAsig, THilos, TDatos, TRed, TCliente, TEntorno,
                listas, sems, mutex, datos, cliente, entorno, red
  <2>2. TSems'
    BY <1>4 DEF PPostReady, TSems, mutex
  <2>3. TPlan'
    BY <1>4 DEF PPostReady, TPlan
  <2>. QED BY <2>1, <2>2, <2>3
<1>5. CASE PBloquear
  <2>1. TSems' /\ TAsig' /\ THilos' /\ TDatos' /\ TRed' /\ TCliente' /\ TEntorno'
    BY <1>5 DEF PBloquear, TSems, TAsig, THilos, TDatos, TRed, TCliente, TEntorno,
                listas, sems, mutex, datos, cliente, entorno, red
  <2>2. TListas'
    BY <1>5 DEF PBloquear, TListas, TPlan
  <2>3. TPlan'
    BY <1>5 DEF PBloquear, TPlan
  <2>. QED BY <2>1, <2>2, <2>3
<1>6. CASE PPostBlocked
  <2>1. TListas' /\ TAsig' /\ THilos' /\ TDatos' /\ TRed' /\ TCliente' /\ TEntorno'
    BY <1>6 DEF PPostBlocked, TListas, TAsig, THilos, TDatos, TRed, TCliente, TEntorno,
                listas, sems, mutex, datos, cliente, entorno, red
  <2>2. TSems'
    BY <1>6 DEF PPostBlocked, TSems, mutex
  <2>3. TPlan'
    BY <1>6 DEF PPostBlocked, TPlan
  <2>. QED BY <2>1, <2>2, <2>3
<1>7. CASE PDevolver
  <2>1. TListas' /\ TSems' /\ TPlan' /\ TAsig' /\ THilos' /\ TRed' /\ TCliente' /\ TEntorno'
    BY <1>7, SMTT(30) DEF PDevolver, TListas, TSems, TPlan, TAsig, THilos, TRed, TCliente,
                TEntorno, listas, sems, mutex, datos, cliente, entorno, red, hilos
  <2>2. TDatos'
    <3>1. PICK n \in PokeNests :
            /\ tiene[plan.ent][n] > 0
            /\ tiene' = [tiene EXCEPT ![plan.ent][n] = @ - 1]
            /\ libres' = [libres EXCEPT ![n] = @ + 1]
      BY <1>7 DEF PDevolver
    <3>2. plan.ent \in Entrenadores
      BY <1>7 DEF PDevolver, TPlan
    <3>3. tiene' \in [Entrenadores -> [PokeNests -> Nat]] /\ libres' \in [PokeNests -> Nat]
      BY <3>1, <3>2 DEF TDatos
    <3>. QED BY <1>7, <3>3 DEF PDevolver, TDatos
  <2>. QED BY <2>1, <2>2
<1>8. CASE PLiberar
  <2>1. TListas' /\ TSems' /\ TAsig' /\ THilos' /\ TDatos' /\ TCliente' /\ TEntorno'
    BY <1>8 DEF PLiberar, TListas, TSems, TAsig, THilos, TDatos, TCliente, TEntorno,
                listas, sems, mutex, datos, cliente, entorno, red
  <2>2. TPlan'
    BY <1>8 DEF PLiberar, TPlan
  <2>3. TRed'
    BY <1>8 DEF PLiberar, TRed, TPlan
  <2>. QED BY <2>1, <2>2, <2>3
<1>. QED BY <1>1, <1>2, <1>3, <1>4, <1>5, <1>6, <1>7, <1>8, TipoAtender DEF Planificador

\* The asignador thread.
LEMMA TipoAsignador ==
  ASSUME TypeOK, Asignador
  PROVE  TypeOK'
<1>. USE DEF TypeOK, Asig
<1>1. CASE AEsperar
  <2>1. TListas' /\ TPlan' /\ THilos' /\ TDatos' /\ TRed' /\ TCliente' /\ TEntorno'
    BY <1>1 DEF AEsperar, TListas, TPlan, THilos, TDatos, TRed, TCliente, TEntorno,
                listas, sems, mutex, datos, cliente, entorno, red
  <2>2. TSems'
    BY <1>1 DEF AEsperar, TSems, mutex
  <2>3. TAsig'
    BY <1>1 DEF AEsperar, TAsig
  <2>. QED BY <2>1, <2>2, <2>3
<1>2. CASE ATomar
  <2>1. TListas' /\ TPlan' /\ THilos' /\ TDatos' /\ TRed' /\ TCliente' /\ TEntorno'
    BY <1>2 DEF ATomar, TListas, TPlan, THilos, TDatos, TRed, TCliente, TEntorno,
                listas, sems, mutex, datos, cliente, entorno, red
  <2>2. TSems'
    BY <1>2 DEF ATomar, TSems, sems
  <2>3. TAsig'
    BY <1>2 DEF ATomar, TAsig
  <2>. QED BY <2>1, <2>2, <2>3
<1>3. CASE AQuitarCaido
  <2>1. TPlan' /\ TAsig' /\ THilos' /\ TCliente' /\ TEntorno'
    BY <1>3 DEF AQuitarCaido, TPlan, TAsig, THilos, TCliente, TEntorno, listas, sems,
                mutex, datos, cliente, entorno, red
  <2>2. TListas'
    BY <1>3, CaidoTipo DEF AQuitarCaido, TListas
  <2>3. TSems'
    BY <1>3, CaidoTipo DEF AQuitarCaido, TSems, sems
  <2>4. TDatos'
    BY <1>3, CaidoTipo DEF AQuitarCaido, TDatos
  <2>5. TRed'
    BY <1>3, CaidoTipo DEF AQuitarCaido, TRed
  <2>. QED BY <2>1, <2>2, <2>3, <2>4, <2>5
<1>4. CASE ADetectados
  <2>1. TListas' /\ TPlan' /\ THilos' /\ TDatos' /\ TRed' /\ TCliente' /\ TEntorno'
    BY <1>4 DEF ADetectados, TListas, TPlan, THilos, TDatos, TRed, TCliente, TEntorno,
                listas, sems, mutex, datos, cliente, entorno, red
  <2>2. TSems'
    BY <1>4 DEF ADetectados, TSems, sems
  <2>3. TAsig'
    BY <1>4 DEF ADetectados, TAsig
  <2>. QED BY <2>1, <2>2, <2>3
<1>5. CASE AVacia
  <2>1. TListas' /\ TPlan' /\ THilos' /\ TDatos' /\ TRed' /\ TCliente' /\ TEntorno'
    BY <1>5 DEF AVacia, TListas, TPlan, THilos, TDatos, TRed, TCliente, TEntorno,
                listas, sems, mutex, datos, cliente, entorno, red
  <2>2. TSems'
    BY <1>5 DEF AVacia, TSems, sems
  <2>3. TAsig'
    BY <1>5 DEF AVacia, TAsig
  <2>. QED BY <2>1, <2>2, <2>3
<1>6. CASE AOtorgar
  <2>1. TSems' /\ TPlan' /\ THilos' /\ TCliente'
    BY <1>6 DEF AOtorgar, TSems, TPlan, THilos, TCliente, listas, sems, mutex, datos,
                cliente, entorno, red
  <2>2. TListas'
    BY <1>6 DEF AOtorgar, TListas
  <2>3. TAsig'
    BY <1>6, Cabeza, SupuestoMapa DEF AOtorgar, TAsig, TListas
  <2>4. TDatos'
    <3>. DEFINE t == Head(eBlocked)
                n == obj[t]
    <3>1. t \in Entrenadores
      BY <1>6, Cabeza DEF AOtorgar, TListas
    <3>2. /\ libres[n] > 0
          /\ libres' = [libres EXCEPT ![n] = @ - 1]
          /\ tiene' = [tiene EXCEPT ![t][n] = @ + 1]
          /\ obj' = [obj EXCEPT ![t] = Ninguno]
          /\ pos' = pos
      BY <1>6 DEF AOtorgar
    <3>. HIDE DEF t, n
    <3>3. obj' \in [Entrenadores -> PokeNests \cup {Ninguno}]
      BY <3>1, <3>2 DEF TDatos
    <3>4. libres' \in [PokeNests -> Nat]
      BY <3>2, Contado DEF TDatos
    <3>5. tiene' \in [Entrenadores -> [PokeNests -> Nat]]
      <4>1. [tiene[t] EXCEPT ![n] = @ + 1] \in [PokeNests -> Nat]
        BY <3>1, Contado DEF TDatos
      <4>2. tiene' = [tiene EXCEPT ![t] = [tiene[t] EXCEPT ![n] = @ + 1]]
        BY <3>2
      <4>. QED BY <4>1, <4>2, <3>1 DEF TDatos
    <3>. QED BY <3>2, <3>3, <3>4, <3>5 DEF TDatos
  <2>5. TRed'
    BY <1>6, Enviado, Uno, Cabeza DEF AOtorgar, TRed, Enviar, Respuestas, TListas
  <2>6. TEntorno'
    BY <1>6, Enviado, Uno DEF AOtorgar, TEntorno, Enviar, Respuestas, entorno, TListas
  <2>. QED BY <2>1, <2>2, <2>3, <2>4, <2>5, <2>6
<1>7. CASE ARotar
  <2>1. TPlan' /\ THilos' /\ TDatos' /\ TRed' /\ TCliente' /\ TEntorno'
    BY <1>7 DEF ARotar, TPlan, THilos, TDatos, TRed, TCliente, TEntorno, listas, sems,
                mutex, datos, cliente, entorno, red
  <2>2. TListas'
    BY <1>7 DEF ARotar, TListas
  <2>3. TSems'
    BY <1>7 DEF ARotar, TSems
  <2>4. TAsig'
    BY <1>7 DEF ARotar, TAsig
  <2>. QED BY <2>1, <2>2, <2>3, <2>4
<1>8. CASE AAgregar
  <2>1. TSems' /\ TPlan' /\ THilos' /\ TDatos' /\ TRed' /\ TCliente' /\ TEntorno'
    BY <1>8 DEF AAgregar, TSems, TPlan, THilos, TDatos, TRed, TCliente, TEntorno,
                listas, sems, mutex, datos, cliente, entorno, red
  <2>2. TListas'
    BY <1>8 DEF AAgregar, TListas, TAsig
  <2>3. TAsig'
    BY <1>8 DEF AAgregar, TAsig
  <2>. QED BY <2>1, <2>2, <2>3
<1>9. CASE APostear
  <2>1. TListas' /\ TPlan' /\ THilos' /\ TDatos' /\ TRed' /\ TCliente' /\ TEntorno'
    BY <1>9 DEF APostear, TListas, TPlan, THilos, TDatos, TRed, TCliente, TEntorno,
                listas, sems, mutex, datos, cliente, entorno, red
  <2>2. TSems'
    BY <1>9 DEF APostear, TSems
  <2>3. TAsig'
    BY <1>9 DEF APostear, TAsig
  <2>. QED BY <2>1, <2>2, <2>3
<1>. QED BY <1>1, <1>2, <1>3, <1>4, <1>5, <1>6, <1>7, <1>8, <1>9 DEF Asignador

\* The deadlock thread.
LEMMA TipoDeadlock ==
  ASSUME TypeOK, Deadlock
  PROVE  TypeOK'
<1>. USE DEF TypeOK, Dlk
<1>1. CASE DTomar
  <2>1. TListas' /\ TPlan' /\ TAsig' /\ TDatos' /\ TRed' /\ TCliente' /\ TEntorno'
    BY <1>1 DEF DTomar, TListas, TPlan, TAsig, TDatos, TRed, TCliente, TEntorno, listas,
                sems, mutex, datos, cliente, entorno, red
  <2>2. TSems'
    BY <1>1 DEF DTomar, TSems, sems
  <2>3. THilos'
    BY <1>1 DEF DTomar, THilos
  <2>. QED BY <2>1, <2>2, <2>3
<1>2. CASE DQuitarCaido
  <2>1. TPlan' /\ TAsig' /\ THilos' /\ TCliente' /\ TEntorno'
    BY <1>2 DEF DQuitarCaido, TPlan, TAsig, THilos, TCliente, TEntorno, listas, sems,
                mutex, datos, cliente, entorno, red
  <2>2. TListas'
    BY <1>2, CaidoTipo DEF DQuitarCaido, TListas
  <2>3. TSems'
    BY <1>2, CaidoTipo DEF DQuitarCaido, TSems, sems
  <2>4. TDatos'
    BY <1>2, CaidoTipo DEF DQuitarCaido, TDatos
  <2>5. TRed'
    BY <1>2, CaidoTipo DEF DQuitarCaido, TRed
  <2>. QED BY <2>1, <2>2, <2>3, <2>4, <2>5
<1>3. CASE DDetectados
  <2>1. TListas' /\ TPlan' /\ TAsig' /\ TDatos' /\ TRed' /\ TCliente' /\ TEntorno'
    BY <1>3 DEF DDetectados, TListas, TPlan, TAsig, TDatos, TRed, TCliente, TEntorno,
                listas, sems, mutex, datos, cliente, entorno, red
  <2>2. TSems'
    BY <1>3 DEF DDetectados, TSems, sems
  <2>3. THilos'
    BY <1>3 DEF DDetectados, THilos
  <2>. QED BY <2>1, <2>2, <2>3
<1>4. CASE DAnalizar
  <2>1. TPlan' /\ TAsig' /\ TDatos' /\ TCliente'
    BY <1>4 DEF DAnalizar, TPlan, TAsig, TDatos, TCliente, listas, sems, mutex, datos,
                cliente, entorno, red
  <2>2. TListas'
    BY <1>4, AvisoTipo DEF DAnalizar, TListas
  <2>3. TSems'
    BY <1>4 DEF DAnalizar, TSems, sems
  <2>4. THilos'
    BY <1>4 DEF DAnalizar, THilos
  <2>5. TRed'
    BY <1>4, AvisoTipo DEF DAnalizar, TRed
  <2>6. TEntorno'
    BY <1>4, AvisoTipo DEF DAnalizar, TEntorno, entorno
  <2>. QED BY <2>1, <2>2, <2>3, <2>4, <2>5, <2>6
<1>5. CASE DDecidir
  <2>1. TPlan' /\ TAsig' /\ TDatos' /\ TRed' /\ TCliente' /\ TEntorno'
    BY <1>5 DEF DDecidir, TPlan, TAsig, TDatos, TRed, TCliente, TEntorno, listas, sems,
                mutex, datos, cliente, entorno, red
  <2>2. TListas'
    <3>1. \/ eDeadlock' = eDeadlock
          \/ \E f \in [DOMAIN eDeadlock -> DOMAIN eDeadlock] :
               eDeadlock' = [i \in DOMAIN eDeadlock |-> eDeadlock[f[i]]]
      BY <1>5 DEF DDecidir
    <3>2. ASSUME NEW f \in [DOMAIN eDeadlock -> DOMAIN eDeadlock]
          PROVE  [i \in DOMAIN eDeadlock |-> eDeadlock[f[i]]] \in Seq(Entrenadores)
      <4>1. Len(eDeadlock) \in Nat /\ DOMAIN eDeadlock = 1..Len(eDeadlock)
        BY DEF TListas
      <4>2. \A i \in DOMAIN eDeadlock : eDeadlock[f[i]] \in Entrenadores
        BY DEF TListas
      <4>. QED BY <4>1, <4>2
    <3>3. eReady' = eReady /\ eBlocked' = eBlocked
      BY <1>5 DEF DDecidir
    <3>. QED BY <3>1, <3>2, <3>3 DEF TListas
  <2>3. TSems'
    BY <1>5 DEF DDecidir, TSems, sems
  <2>4. THilos'
    BY <1>5 DEF DDecidir, THilos
  <2>. QED BY <2>1, <2>2, <2>3, <2>4
<1>6. CASE DCombate
  <2>1. TSems' /\ TPlan' /\ TAsig' /\ TDatos' /\ TCliente'
    BY <1>6 DEF DCombate, TSems, TPlan, TAsig, TDatos, TCliente, listas, sems, mutex,
                datos, cliente, entorno, red
  <2>2. TListas'
    <3>1. /\ eDeadlock[1] \in Entrenadores /\ eDeadlock[2] \in Entrenadores
          /\ SubSeq(eDeadlock, 3, Len(eDeadlock)) \in Seq(Entrenadores)
      BY <1>6 DEF DCombate, TListas
    <3>2. \/ eDeadlock' = eDeadlock
          \/ \E t \in {eDeadlock[1], eDeadlock[2]} :
               eDeadlock' = <<t>> \o SubSeq(eDeadlock, 3, Len(eDeadlock))
      BY <1>6 DEF DCombate, Duelo
    <3>3. eReady' = eReady /\ eBlocked' = eBlocked
      BY <1>6 DEF DCombate
    <3>4. \A t \in Entrenadores :
            <<t>> \o SubSeq(eDeadlock, 3, Len(eDeadlock)) \in Seq(Entrenadores)
      BY <3>1
    <3>5. eDeadlock' \in Seq(Entrenadores)
      BY <3>1, <3>2, <3>4 DEF TListas
    <3>. QED BY <3>3, <3>5 DEF TListas
  <2>3. THilos'
    BY <1>6 DEF DCombate, THilos, Duelo
  <2>4. TRed'
    <3>1. eDeadlock[1] \in Entrenadores /\ eDeadlock[2] \in Entrenadores
      BY <1>6 DEF DCombate, TListas
    <3>2. \/ UNCHANGED <<sock, resp>>
          \/ \E t \in {eDeadlock[1], eDeadlock[2]} : EnviarATodos({t}, "R")
      BY <1>6 DEF DCombate, Duelo, Enviar
    <3>3. pedido' = pedido /\ "R" \in Respuestas
      BY <1>6 DEF DCombate, Respuestas
    <3>. QED BY <3>1, <3>2, <3>3, Enviado, Uno DEF TRed
  <2>5. TEntorno'
    BY <1>6, Enviado, Uno DEF DCombate, TEntorno, Enviar, Respuestas, entorno, Duelo,
       TListas
  <2>. QED BY <2>1, <2>2, <2>3, <2>4, <2>5
<1>7. CASE DMatar
  <2>1. TSems' /\ TPlan' /\ TAsig' /\ TCliente'
    BY <1>7 DEF DMatar, TSems, TPlan, TAsig, TCliente, listas, sems, mutex, datos,
                cliente, entorno, red
  <2>2. TListas'
    BY <1>7, Quitado DEF DMatar, TListas
  <2>3. THilos'
    BY <1>7 DEF DMatar, THilos
  <2>4. TDatos'
    <3>. DEFINE t == Head(eDeadlock)
    <3>1. \/ UNCHANGED <<tiene, libres>>
          \/ t \in Entrenadores /\ Desconectar(t)
      BY <1>7 DEF DMatar, ToSet, TListas
    <3>2. UNCHANGED <<obj, pos>>
      BY <1>7 DEF DMatar
    <3>. HIDE DEF t
    <3>. QED BY <3>1, <3>2 DEF Desconectar, TDatos, Nada
  <2>5. TRed'
    <3>. DEFINE t == Head(eDeadlock)
    <3>1. \/ sock' = sock
          \/ t \in Entrenadores /\ sock' = [sock EXCEPT ![t] = "cerrado"]
      BY <1>7 DEF DMatar, Desconectar, ToSet, TListas
    <3>2. \/ resp' = resp
          \/ t \in Entrenadores /\ resp' = [resp EXCEPT ![t] = Append(@, "K")]
      BY <1>7 DEF DMatar, ToSet, TListas
    <3>3. pedido' = pedido
      BY <1>7 DEF DMatar
    <3>. HIDE DEF t
    <3>4. sock' \in [Entrenadores -> {"libre", "abierto", "finCliente", "roto", "cerrado"}]
      BY <3>1 DEF TRed
    <3>5. resp' \in [Entrenadores -> Seq(Respuestas)]
      <4>1. "K" \in Respuestas
        BY DEF Respuestas
      <4>2. \A u \in Entrenadores : Append(resp[u], "K") \in Seq(Respuestas)
        BY <4>1 DEF TRed
      <4>3. \A u \in Entrenadores :
              [resp EXCEPT ![u] = Append(@, "K")] \in [Entrenadores -> Seq(Respuestas)]
        BY <4>2 DEF TRed
      <4>. QED BY <3>2, <4>3 DEF TRed
    <3>. QED BY <3>3, <3>4, <3>5 DEF TRed
  <2>6. TEntorno'
    BY <1>7 DEF DMatar, TEntorno, entorno
  <2>. QED BY <2>1, <2>2, <2>3, <2>4, <2>5, <2>6
<1>8. CASE DFin
  <2>1. TListas' /\ TPlan' /\ TAsig' /\ TDatos' /\ TRed' /\ TCliente' /\ TEntorno'
    BY <1>8 DEF DFin, TListas, TPlan, TAsig, TDatos, TRed, TCliente, TEntorno, listas,
                sems, mutex, datos, cliente, entorno, red
  <2>2. TSems'
    BY <1>8 DEF DFin, TSems, sems
  <2>3. THilos'
    BY <1>8 DEF DFin, THilos
  <2>. QED BY <2>1, <2>2, <2>3
<1>. QED BY <1>1, <1>2, <1>3, <1>4, <1>5, <1>6, <1>7, <1>8 DEF Deadlock

\* jugarMapa's next request leaves the client with an objective left, or waiting
\* for its medal.
LEMMA PedirTipo ==
  ASSUME TRed, TCliente, NEW t \in Entrenadores, NEW c \in 0..Len(Objetivos[t]),
         NEW antes \in Seq(Pedidos), PedirProximo(t, c, antes)
  PROVE  /\ TCliente'
         /\ sock' = sock /\ pedido' \in [Entrenadores -> Seq(Pedidos)]
<1>. USE SupuestoMapa, Estaciones
<1>1. CASE c < Len(Objetivos[t])
  <2>. DEFINE m == Msj("C", Objetivos[t][c + 1])
  <2>1. m \in Pedidos
    BY <1>1 DEF Msj, Pedidos
  <2>2. /\ pedido' = [pedido EXCEPT ![t] = @ \o antes \o <<m>>]
        /\ cli' = [cli EXCEPT ![t] = "coord"]
        /\ cumplidos' = [cumplidos EXCEPT ![t] = c]
        /\ x' = x /\ sock' = sock
    BY <1>1 DEF PedirProximo
  <2>3. TCliente'
    BY <1>1, <2>2 DEF TCliente
  <2>. HIDE DEF m
  <2>4. pedido[t] \o antes \o <<m>> \in Seq(Pedidos)
    BY <2>1 DEF TRed
  <2>. QED BY <2>2, <2>3, <2>4 DEF TRed
<1>2. CASE ~(c < Len(Objetivos[t]))
  <2>. DEFINE m == Msj("O", Ninguno)
  <2>1. m \in Pedidos
    BY DEF Msj, Pedidos
  <2>2. /\ pedido' = [pedido EXCEPT ![t] = @ \o antes \o <<m>>]
        /\ cli' = [cli EXCEPT ![t] = "medalla"]
        /\ cumplidos' = [cumplidos EXCEPT ![t] = c]
        /\ x' = x /\ sock' = sock
    BY <1>2 DEF PedirProximo
  <2>3. TCliente'
    BY <2>2 DEF TCliente
  <2>. HIDE DEF m
  <2>4. pedido[t] \o antes \o <<m>> \in Seq(Pedidos)
    BY <2>1 DEF TRed
  <2>. QED BY <2>2, <2>3, <2>4 DEF TRed
<1>. QED BY <1>1, <1>2

\* A client with an objective left moves or asks for the pokemon, and keeps it.
LEMMA AvanzarTipo ==
  ASSUME TRed, TCliente, NEW t \in Entrenadores, cumplidos[t] < Len(Objetivos[t]),
         Avanzar(t)
  PROVE  /\ TCliente'
         /\ sock' = sock /\ pedido' \in [Entrenadores -> Seq(Pedidos)]
<1>. USE SupuestoMapa, Estaciones
<1>. DEFINE n == Objetivos[t][cumplidos[t] + 1]
<1>1. /\ n \in PokeNests \cup {Desconocido}
      /\ Msj("G", n) \in Pedidos /\ Msj("MR", Ninguno) \in Pedidos
      /\ Msj("ML", Ninguno) \in Pedidos
  BY DEF TCliente, Msj, Pedidos
<1>2. /\ \E m \in Pedidos : pedido' = [pedido EXCEPT ![t] = Append(@, m)]
      /\ \E c \in {"mover", "capturar"} : cli' = [cli EXCEPT ![t] = c]
      /\ \/ x' = x
         \/ \E d \in {x[t] - 1, x[t] + 1} : x' = [x EXCEPT ![t] = d]
      /\ UNCHANGED <<cumplidos, sock>>
  BY <1>1 DEF Avanzar
<1>3. pedido' \in [Entrenadores -> Seq(Pedidos)]
  BY <1>2 DEF TRed
<1>4. x' \in [Entrenadores -> Int]
  BY <1>2 DEF TCliente
<1>5. TCliente'
  BY <1>2, <1>4 DEF TCliente
<1>. QED BY <1>2, <1>3, <1>5

\* A client that closes its socket is out of every place.
LEMMA IrseTipo ==
  ASSUME TRed, TCliente, NEW t \in Entrenadores, Irse(t), UNCHANGED <<x, cumplidos>>
  PROVE  /\ TCliente'
         /\ sock' \in [Entrenadores -> {"libre", "abierto", "finCliente", "roto", "cerrado"}]
BY Estaciones DEF Irse, TRed, TCliente

\* What a client that takes a reply leaves alone.
LEMMA TomaTipo ==
  ASSUME TypeOK, NEW t \in Entrenadores, NEW r, Toma(t, r)
  PROVE  /\ TListas' /\ TSems' /\ TPlan' /\ TAsig' /\ THilos' /\ TDatos' /\ TEntorno'
         /\ resp' \in [Entrenadores -> Seq(Respuestas)]
<1>1. TListas' /\ TSems' /\ TPlan' /\ TAsig' /\ THilos' /\ TDatos' /\ TEntorno'
  BY DEF Toma, TypeOK, TListas, TSems, TPlan, TAsig, THilos, TDatos, TEntorno,
         listas, sems, mutex, hilos, datos, entorno
<1>2. resp[t] # <<>> /\ resp' = [resp EXCEPT ![t] = Tail(@)]
  BY DEF Toma
<1>. QED BY <1>1, <1>2 DEF TypeOK, TRed

\* The clients.
LEMMA TipoCliente ==
  ASSUME TypeOK, NEW t \in Entrenadores, Cliente(t)
  PROVE  TypeOK'
<1>. USE DEF TypeOK
<1>1. CASE CBienvenida(t)
  <2>1. <<Msj("Id", Ninguno)>> \in Seq(Pedidos)
    BY DEF Msj, Pedidos
  <2>2. 0 \in 0..Len(Objetivos[t])
    BY SupuestoMapa
  <2>3. Toma(t, "Bienvenida") /\ PedirProximo(t, 0, <<Msj("Id", Ninguno)>>)
    BY <1>1 DEF CBienvenida
  <2>. QED BY <2>1, <2>2, <2>3, TomaTipo, PedirTipo DEF TRed
<1>2. ASSUME Desfasarse(t)
      PROVE  TypeOK'
  <2>1. PICK r \in Avisos : Toma(t, r)
    BY <1>2 DEF Desfasarse
  <2>2. TCliente' /\ sock' = sock /\ pedido' = pedido
    BY <1>2 DEF Desfasarse, TCliente
  <2>. QED BY <2>1, <2>2, TomaTipo DEF TRed
<1>3. CASE CCoordenadas(t) \/ CMover(t)
  <2>1. CASE Avanzar(t)
    <3>1. PICK r : Toma(t, r)
      BY <1>3 DEF CCoordenadas, CMover, Desfasarse
    <3>2. cumplidos[t] < Len(Objetivos[t])
      BY <1>3 DEF CCoordenadas, CMover, TCliente
    <3>. QED BY <2>1, <3>1, <3>2, TomaTipo, AvanzarTipo DEF TRed
  <2>. QED BY <1>2, <1>3, <2>1 DEF CCoordenadas, CMover
<1>4. CASE CCaptura(t)
  <2>1. Toma(t, "Ruta") /\ PedirProximo(t, cumplidos[t] + 1, <<>>)
    BY <1>4 DEF CCaptura
  <2>2. cumplidos[t] + 1 \in 0..Len(Objetivos[t])
    BY <1>4, SupuestoMapa DEF CCaptura, TCliente
  <2>3. <<>> \in Seq(Pedidos)
    OBVIOUS
  <2>. QED BY <2>1, <2>2, <2>3, TomaTipo, PedirTipo DEF TRed
<1>5. CASE CAviso(t)
  <2>1. \E r \in Avisos : Toma(t, r)
    BY <1>5 DEF CAviso
  <2>2. TCliente' /\ sock' = sock /\ pedido' = pedido
    BY <1>5 DEF CAviso, TCliente, cliente
  <2>. QED BY <2>1, <2>2, TomaTipo DEF TRed
<1>6. CASE CSalir(t)
  <2>1. \E r : Toma(t, r)
    BY <1>6 DEF CSalir
  <2>2. Irse(t) /\ UNCHANGED <<pedido, x, cumplidos>>
    BY <1>6 DEF CSalir
  <2>. QED BY <2>1, <2>2, TomaTipo, IrseTipo DEF TRed
<1>. QED BY <1>1, <1>3, <1>4, <1>5, <1>6 DEF Cliente

\* A connection, a client killed, a reload and a stuttering step.
LEMMA TipoEntorno ==
  ASSUME TypeOK,
         \/ \E t \in Entrenadores : Conectar(t) \/ Abandonar(t)
         \/ Recargar
         \/ UNCHANGED vars
  PROVE  TypeOK'
<1>. USE DEF TypeOK
<1>1. ASSUME NEW t \in Entrenadores, Conectar(t)
      PROVE  TypeOK'
  <2>1. TListas' /\ TSems' /\ TPlan' /\ TAsig' /\ TDatos' /\ TEntorno'
    BY <1>1 DEF Conectar, TListas, TSems, TPlan, TAsig, TDatos, TEntorno,
                listas, sems, mutex, datos, entorno
  <2>2. THilos' /\ TRed'
    BY <1>1 DEF Conectar, THilos, TRed
  <2>3. TCliente'
    BY <1>1, Estaciones DEF Conectar, TCliente
  <2>. QED BY <2>1, <2>2, <2>3
<1>2. ASSUME NEW t \in Entrenadores, Abandonar(t)
      PROVE  TypeOK'
  <2>1. TListas' /\ TSems' /\ TPlan' /\ TAsig' /\ THilos' /\ TDatos'
    BY <1>2 DEF Abandonar, TListas, TSems, TPlan, TAsig, THilos, TDatos,
                listas, sems, mutex, hilos, datos
  <2>2. TEntorno'
    BY <1>2, SupuestoMapa DEF Abandonar, TEntorno
  <2>3. /\ TCliente'
        /\ sock' \in [Entrenadores -> {"libre", "abierto", "finCliente", "roto", "cerrado"}]
    BY <1>2, IrseTipo DEF Abandonar
  <2>4. pedido' = pedido /\ resp' \in [Entrenadores -> Seq(Respuestas)]
    BY <1>2 DEF Abandonar, TRed
  <2>. QED BY <2>1, <2>2, <2>3, <2>4 DEF TRed
<1>3. CASE Recargar
  <2>1. TListas' /\ TSems' /\ TPlan' /\ TAsig' /\ THilos' /\ TDatos' /\ TRed' /\ TCliente'
    BY <1>3, SMTT(60) DEF Recargar, TListas, TSems, TPlan, TAsig, THilos, TDatos, TRed, TCliente,
                listas, sems, mutex, hilos, datos, red, cliente
  <2>2. TEntorno'
    BY <1>3, SupuestoMapa DEF Recargar, TEntorno
  <2>. QED BY <2>1, <2>2
<1>4. CASE UNCHANGED vars
  BY <1>4 DEF vars, TListas, TSems, TPlan, TAsig, THilos, TDatos, TRed, TCliente, TEntorno
<1>. QED BY <1>1, <1>2, <1>3, <1>4

LEMMA TipoInicial ==
  ASSUME Init
  PROVE  TypeOK
<1>. USE SupuestoMapa DEF Init
<1>1. TListas /\ TSems /\ TAsig /\ THilos /\ TEntorno
  BY DEF TListas, TSems, TAsig, THilos, TEntorno
<1>2. TPlan
  BY DEF TPlan
<1>3. TDatos
  BY DEF TDatos, Nada
<1>4. TRed
  BY DEF TRed
<1>5. TCliente
  BY Estaciones DEF TCliente
<1>. QED BY <1>1, <1>2, <1>3, <1>4, <1>5 DEF TypeOK

LEMMA TipoPaso ==
  ASSUME TypeOK, [Next]_vars
  PROVE  TypeOK'
BY TipoHandshake, TipoCliente, TipoEntorno, TipoPlanificador, TipoAsignador, TipoDeadlock
   DEF Next

\* Every variable of the map and of its trainers keeps its type in every reachable
\* state: a thread has a trainer in
\* hand exactly where mapa.c has one, and a client that plays has an objective left.
THEOREM TipoCorrecto == Spec => []TypeOK
<1>1. Init => TypeOK
  BY TipoInicial
<1>2. TypeOK /\ [Next]_vars => TypeOK'
  BY TipoPaso
<1>. QED BY <1>1, <1>2, PTL DEF Spec

-----------------------------------------------------------------------------
\* The handshake threads about to post are finitely many, and a step of one of them
\* changes their number by one at most.
LEMMA Postean ==
  ASSUME TypeOK
  PROVE  /\ IsFiniteSet(PorPostear) /\ Cardinality(PorPostear) \in Nat
         /\ hs' = hs => Cardinality(PorPostear') = Cardinality(PorPostear)
<1>1. PorPostear \subseteq Entrenadores
  BY DEF PorPostear
<1>2. IsFiniteSet(PorPostear) /\ Cardinality(PorPostear) \in Nat
  BY <1>1, SupuestoMapa, FS_Subset, FS_CardinalityType
<1>3. hs' = hs => PorPostear' = PorPostear
  BY DEF PorPostear
<1>. QED BY <1>2, <1>3

LEMMA PosteanCambio ==
  ASSUME TypeOK, NEW t \in Entrenadores,
         \A u \in Entrenadores : u # t => hs'[u] = hs[u]
  PROVE  /\ (hs'[t] = "postear" <=> hs[t] = "postear") =>
              Cardinality(PorPostear') = Cardinality(PorPostear)
         /\ hs'[t] = "postear" /\ hs[t] # "postear" =>
              Cardinality(PorPostear') = Cardinality(PorPostear) + 1
         /\ hs'[t] # "postear" /\ hs[t] = "postear" =>
              Cardinality(PorPostear') = Cardinality(PorPostear) - 1
<1>1. ASSUME hs'[t] = "postear", hs[t] # "postear"
      PROVE  Cardinality(PorPostear') = Cardinality(PorPostear) + 1
  <2>1. PorPostear' = PorPostear \cup {t} /\ t \notin PorPostear
    BY <1>1 DEF PorPostear
  <2>. QED BY <2>1, Postean, FS_AddElement
<1>2. ASSUME hs'[t] # "postear", hs[t] = "postear"
      PROVE  Cardinality(PorPostear') = Cardinality(PorPostear) - 1
  <2>1. PorPostear' = PorPostear \ {t} /\ t \in PorPostear
    BY <1>2 DEF PorPostear
  <2>. QED BY <2>1, Postean, FS_RemoveElement
<1>3. ASSUME hs'[t] = "postear" <=> hs[t] = "postear"
      PROVE  Cardinality(PorPostear') = Cardinality(PorPostear)
  <2>1. PorPostear' = PorPostear
    BY <1>3 DEF PorPostear
  <2>. QED BY <2>1
<1>. QED BY <1>1, <1>2, <1>3

\* A connection nobody has made has no handshake thread.
SinHilo == \A t \in Entrenadores : sock[t] = "libre" => hs[t] = "no"

\* Sending never makes a socket free again.
LEMMA EnviadoLibre ==
  ASSUME TRed, NEW T, NEW m, EnviarATodos(T, m)
  PROVE  \A t \in Entrenadores : sock'[t] = "libre" => sock[t] = "libre"
BY DEF TRed, EnviarATodos

LEMMA DesconectadoLibre ==
  ASSUME TRed, NEW u, Desconectar(u)
  PROVE  \A t \in Entrenadores : sock'[t] = "libre" => sock[t] = "libre"
BY DEF TRed, Desconectar

LEMMA SinHiloPaso ==
  ASSUME TypeOK, SinHilo, [Next]_vars
  PROVE  SinHilo'
<1>. USE DEF SinHilo, TypeOK, TRed, THilos
<1>. DEFINE Queda == \A t \in Entrenadores : sock'[t] = "libre" => sock[t] = "libre"
<1>1. ASSUME NEW t \in Entrenadores, Handshake(t)
      PROVE  SinHilo'
  <2>1. /\ hs[t] # "no"
        /\ \A u \in Entrenadores : u # t => hs'[u] = hs[u]
    BY <1>1 DEF Handshake, HBienvenida, HRecibir, HDesconexion, HPostear, Hs
  <2>2. Queda
    BY <1>1, EnviadoLibre DEF Handshake, HBienvenida, HRecibir, HDesconexion, HPostear,
                              Enviar, red
  <2>. QED BY <2>1, <2>2
<1>2. ASSUME NEW t \in Entrenadores, Conectar(t)
      PROVE  SinHilo'
  BY <1>2 DEF Conectar
<1>3. CASE hs' = hs /\ Queda
  BY <1>3
<1>4. ASSUME NEW t \in Entrenadores, Cliente(t) \/ Abandonar(t)
      PROVE  hs' = hs /\ Queda
  <2>1. hs' = hs
    BY <1>4 DEF Cliente, CBienvenida, CCoordenadas, CMover, CCaptura, CAviso, CSalir,
                Desfasarse, Toma, Abandonar, hilos
  <2>2. sock' = sock \/ Irse(t)
    BY <1>4 DEF Cliente, CBienvenida, CCoordenadas, CMover, CCaptura, CAviso, CSalir,
                Desfasarse, PedirProximo, Avanzar, Abandonar
  <2>. QED BY <2>1, <2>2 DEF Irse
<1>5. ASSUME NEW t \in Entrenadores, Atender(t)
      PROVE  hs' = hs /\ Queda
  <2>1. hs' = hs
    BY <1>5 DEF Atender, PDesconexion, PCoordenadas, PNoExiste, PMover, PCapturar, PMedalla
  <2>2. sock' = sock \/ \E m : EnviarATodos({t}, m)
    BY <1>5 DEF Atender, PDesconexion, PCoordenadas, PNoExiste, PMover, PCapturar, PMedalla,
                red, Enviar
  <2>. QED BY <2>1, <2>2, EnviadoLibre
<1>6. CASE PEsperar \/ PSacar \/ PFinQuantum \/ PPostReady \/ PBloquear \/ PPostBlocked
           \/ PDevolver \/ PLiberar
  <2>1. hs' = hs
    BY <1>6 DEF PEsperar, PSacar, PFinQuantum, PPostReady, PBloquear, PPostBlocked,
                PDevolver, PLiberar, hilos
  <2>2. sock' = sock \/ sock' = [sock EXCEPT ![plan.ent] = "cerrado"]
    BY <1>6 DEF PEsperar, PSacar, PFinQuantum, PPostReady, PBloquear, PPostBlocked,
                PDevolver, PLiberar, red
  <2>. QED BY <1>3, <2>1, <2>2
<1>7. CASE Asignador
  <2>1. hs' = hs
    BY <1>7 DEF Asignador, AEsperar, ATomar, AQuitarCaido, ADetectados, AVacia, AOtorgar,
                ARotar, AAgregar, APostear
  <2>2. \/ sock' = sock
        \/ \E u : Desconectar(u)
        \/ \E u, m : EnviarATodos({u}, m)
    BY <1>7 DEF Asignador, AEsperar, ATomar, AQuitarCaido, ADetectados, AVacia, AOtorgar,
                ARotar, AAgregar, APostear, QuitarCaido, red, Enviar
  <2>. QED BY <1>3, <2>1, <2>2, EnviadoLibre, DesconectadoLibre
<1>8. CASE Deadlock
  <2>1. hs' = hs
    BY <1>8 DEF Deadlock, DTomar, DQuitarCaido, DDetectados, DAnalizar, DDecidir, DCombate,
                DMatar, DFin
  <2>2. \/ sock' = sock
        \/ \E u : Desconectar(u)
        \/ \E T, m : EnviarATodos(T, m)
    BY <1>8 DEF Deadlock, DTomar, DQuitarCaido, DDetectados, DAnalizar, DDecidir, DCombate,
                DMatar, DFin, QuitarCaido, Duelo, Avisar, red, Enviar
  <2>. QED BY <1>3, <2>1, <2>2, EnviadoLibre, DesconectadoLibre
<1>9. CASE Recargar \/ UNCHANGED vars
  BY <1>9 DEF Recargar, hilos, red, vars
<1>. QED BY <1>1, <1>2, <1>3, <1>4, <1>5, <1>6, <1>7, <1>8, <1>9 DEF Next, Planificador

LEMMA ReadyInicial ==
  ASSUME Init
  PROVE  FichasReady
<1>1. PorPostear = {}
  BY DEF Init, PorPostear
<1>2. Cardinality(PorPostear) = 0
  BY <1>1, FS_EmptySet
<1>. QED BY <1>2 DEF Init, FichasReady, Hay

LEMMA ReadyHandshake ==
  ASSUME TypeOK, FichasReady, NEW t \in Entrenadores, Handshake(t)
  PROVE  FichasReady'
<1>. USE Postean DEF FichasReady, Hay, TypeOK, TListas, TSems, THilos
<1>1. \A u \in Entrenadores : u # t => hs'[u] = hs[u]
  BY DEF Handshake, HBienvenida, HRecibir, HDesconexion, HPostear
<1>2. UNCHANGED <<plan, asig>>
  BY DEF Handshake, HBienvenida, HRecibir, HDesconexion, HPostear
<1>3. CASE HBienvenida(t) \/ HDesconexion(t)
  <2>1. hs[t] # "postear" /\ hs'[t] # "postear"
    BY <1>3 DEF HBienvenida, HDesconexion, Hs
  <2>2. UNCHANGED <<eReady, semPlanificador>>
    BY <1>3 DEF HBienvenida, HDesconexion, listas, sems
  <2>3. PorPostear' = PorPostear
    BY <1>1, <2>1 DEF PorPostear
  <2>. QED BY <1>2, <2>2, <2>3
<1>4. CASE HRecibir(t)
  <2>1. Len(eReady') = Len(eReady) + 1 /\ semPlanificador' = semPlanificador
    BY <1>4 DEF HRecibir, sems
  <2>2. hs[t] # "postear" /\ hs'[t] = "postear"
    BY <1>4 DEF HRecibir, Hs
  <2>3. Cardinality(PorPostear') = Cardinality(PorPostear) + 1
    BY <1>1, <2>2, PosteanCambio
  <2>. QED BY <1>2, <2>1, <2>3
<1>5. CASE HPostear(t)
  <2>1. eReady' = eReady /\ semPlanificador' = semPlanificador + 1
    BY <1>5 DEF HPostear, listas
  <2>2. hs[t] = "postear" /\ hs'[t] # "postear"
    BY <1>5 DEF HPostear, Hs
  <2>3. Cardinality(PorPostear') = Cardinality(PorPostear) - 1
    BY <1>1, <2>2, PosteanCambio
  <2>. QED BY <1>2, <2>1, <2>3
<1>. QED BY <1>3, <1>4, <1>5 DEF Handshake

LEMMA ReadyPlanificador ==
  ASSUME TypeOK, FichasReady, Planificador
  PROVE  FichasReady'
<1>. USE Postean DEF FichasReady, Hay, Plan, TypeOK, TListas, TSems
<1>1. ASSUME NEW t \in Entrenadores, PCoordenadas(t)
      PROVE  FichasReady'
  <2>1. /\ UNCHANGED <<semPlanificador, hs, asig>> /\ plan.pc = "atender"
        /\ \/ eReady' = eReady /\ plan'.pc = plan.pc
           \/ eReady' = Append(eReady, t) /\ plan'.pc = "postReady"
    BY <1>1 DEF PCoordenadas, Recibe, sems, TPlan
  <2>. QED BY <2>1
<1>2. ASSUME NEW t \in Entrenadores, Atender(t), ~PCoordenadas(t)
      PROVE  FichasReady'
  <2>1. /\ UNCHANGED <<eReady, semPlanificador, hs, asig>> /\ plan.pc = "atender"
        /\ plan'.pc \in {"atender", "devolver", "bloquear"}
    BY <1>2 DEF Atender, PDesconexion, PNoExiste, PMover, PCapturar, PMedalla, Recibe,
                listas, sems, TPlan
  <2>. QED BY <2>1
<1>3. CASE PEsperar
  BY <1>3 DEF PEsperar, listas
<1>4. CASE PSacar
  <2>1. eReady # <<>>
    <3>1. plan.pc = "sacar"
      BY <1>4 DEF PSacar
    <3>2. Len(eReady) >= 1
      BY <3>1
    <3>. QED BY <3>2
  <2>2. Len(eReady') = Len(eReady) - 1
    <3>1. PICK i \in DOMAIN eReady : eReady' = RemoveAt(eReady, i)
      BY <1>4, <2>1 DEF PSacar
    <3>. QED BY <3>1, Quitado
  <2>3. plan.pc = "sacar" /\ plan'.pc = "atender" /\ UNCHANGED <<semPlanificador, hs, asig>>
    BY <1>4, <2>1 DEF PSacar, sems, TPlan
  <2>. QED BY <2>2, <2>3
<1>5. CASE PFinQuantum
  <2>1. Len(eReady') = Len(eReady) + 1
    <3>1. eReady' = Append(eReady, plan.ent) /\ plan.ent \in Entrenadores
      BY <1>5 DEF PFinQuantum, TPlan
    <3>. QED BY <3>1
  <2>2. /\ plan.pc = "atender" /\ plan'.pc = "postReady"
        /\ UNCHANGED <<semPlanificador, hs, asig>>
    BY <1>5 DEF PFinQuantum, sems, TPlan
  <2>. QED BY <2>1, <2>2
<1>6. CASE PPostReady
  <2>1. /\ plan.pc = "postReady" /\ plan'.pc = "esperar"
        /\ semPlanificador' = semPlanificador + 1 /\ UNCHANGED <<eReady, hs, asig>>
    BY <1>6 DEF PPostReady, listas, TPlan
  <2>. QED BY <2>1
<1>7. CASE PBloquear \/ PPostBlocked \/ PDevolver \/ PLiberar
  <2>1. /\ UNCHANGED <<eReady, semPlanificador, hs, asig>>
        /\ plan.pc \in {"bloquear", "postBlocked", "devolver"}
        /\ plan'.pc \in {"postBlocked", "devolver", "esperar"}
    BY <1>7 DEF PBloquear, PPostBlocked, PDevolver, PLiberar, listas, sems, hilos, TPlan
  <2>. QED BY <2>1
<1>. QED BY <1>1, <1>2, <1>3, <1>4, <1>5, <1>6, <1>7 DEF Planificador

LEMMA ReadyAsignador ==
  ASSUME TypeOK, FichasReady, Asignador
  PROVE  FichasReady'
<1>. USE Postean DEF FichasReady, Hay, Asig, TypeOK, TListas, TSems, TAsig
<1>1. CASE AAgregar
  <2>1. eReady' = Append(eReady, asig.ent) /\ asig.ent \in Entrenadores
    BY <1>1 DEF AAgregar
  <2>2. /\ asig.pc = "agregar" /\ asig'.pc = "postear"
        /\ UNCHANGED <<semPlanificador, hs, plan>>
    BY <1>1 DEF AAgregar, sems
  <2>. QED BY <2>1, <2>2
<1>2. CASE APostear
  <2>1. /\ asig.pc = "postear" /\ asig'.pc = "esperar"
        /\ semPlanificador' = semPlanificador + 1 /\ UNCHANGED <<eReady, hs, plan>>
    BY <1>2 DEF APostear, listas
  <2>. QED BY <2>1
<1>3. CASE \/ AEsperar \/ ATomar \/ AQuitarCaido \/ ADetectados \/ AVacia \/ AOtorgar
           \/ ARotar
  <2>1. /\ UNCHANGED <<eReady, semPlanificador, hs, plan>>
        /\ asig.pc # "postear" /\ asig'.pc # "postear"
    BY <1>3 DEF AEsperar, ATomar, AQuitarCaido, ADetectados, AVacia, AOtorgar, ARotar,
                listas, sems
  <2>. QED BY <2>1
<1>. QED BY <1>1, <1>2, <1>3 DEF Asignador

LEMMA ReadyResto ==
  ASSUME TypeOK, SinHilo, FichasReady,
         \/ \E t \in Entrenadores : Conectar(t) \/ Cliente(t) \/ Abandonar(t)
         \/ Deadlock \/ Recargar \/ UNCHANGED vars
  PROVE  FichasReady'
<1>1. ASSUME NEW t \in Entrenadores, Conectar(t)
      PROVE  FichasReady'
  <2>1. hs[t] # "postear"
    BY <1>1 DEF Conectar, SinHilo
  <2>2. Cardinality(PorPostear') = Cardinality(PorPostear)
    <3>1. hs'[t] # "postear" /\ \A u \in Entrenadores : u # t => hs'[u] = hs[u]
      BY <1>1 DEF Conectar, TypeOK, THilos
    <3>. QED BY <2>1, <3>1, PosteanCambio
  <2>3. UNCHANGED <<eReady, semPlanificador, plan, asig>>
    BY <1>1 DEF Conectar, listas, sems
  <2>. QED BY <2>2, <2>3 DEF FichasReady
<1>2. ASSUME NEW t \in Entrenadores, Cliente(t) \/ Abandonar(t)
      PROVE  UNCHANGED <<eReady, semPlanificador, hs, plan, asig>>
  BY <1>2 DEF Cliente, CBienvenida, CCoordenadas, CMover, CCaptura, CAviso, CSalir,
              Desfasarse, Toma, Abandonar, listas, sems, hilos
<1>3. CASE Deadlock
  <2>1. UNCHANGED <<eReady, semPlanificador, hs, plan, asig>>
    BY <1>3 DEF Deadlock, DTomar, DQuitarCaido, DDetectados, DAnalizar, DDecidir, DCombate,
                DMatar, DFin, listas, sems
  <2>. QED BY <2>1, Postean DEF FichasReady
<1>4. CASE Recargar \/ UNCHANGED vars
  <2>1. UNCHANGED <<eReady, semPlanificador, hs, plan, asig>>
    BY <1>4 DEF Recargar, listas, sems, hilos, vars
  <2>. QED BY <2>1, Postean DEF FichasReady
<1>5. UNCHANGED <<eReady, semPlanificador, hs, plan, asig>> => FichasReady'
  BY Postean DEF FichasReady
<1>. QED BY <1>1, <1>2, <1>3, <1>4, <1>5

LEMMA ReadyPaso ==
  ASSUME TypeOK, SinHilo, FichasReady, [Next]_vars
  PROVE  FichasReady'
BY ReadyHandshake, ReadyPlanificador, ReadyAsignador, ReadyResto DEF Next

-----------------------------------------------------------------------------
LEMMA BlockedPlanificador ==
  ASSUME TypeOK, FichasBlocked, Planificador
  PROVE  FichasBlocked'
<1>. USE DEF FichasBlocked, Hay, Plan, TypeOK, TListas, TSems, TPlan, sems, listas
<1>1. ASSUME NEW t \in Entrenadores, Atender(t)
      PROVE  FichasBlocked'
  <2>1. /\ UNCHANGED <<eBlocked, semAsignador, asig>>
        /\ plan.pc = "atender"
    BY <1>1 DEF Atender, PDesconexion, PCoordenadas, PNoExiste, PMover, PCapturar, PMedalla,
                Recibe
  <2>. QED BY <2>1
<1>2. CASE PBloquear
  <2>1. eBlocked' = Append(eBlocked, plan.ent) /\ plan.ent \in Entrenadores
    BY <1>2 DEF PBloquear
  <2>2. plan'.pc = "postBlocked" /\ plan.pc = "bloquear" /\ UNCHANGED <<semAsignador, asig>>
    BY <1>2 DEF PBloquear
  <2>. QED BY <2>1, <2>2
<1>3. CASE PPostBlocked
  <2>1. /\ semAsignador' = semAsignador + 1 /\ plan.pc = "postBlocked"
        /\ plan'.pc = "esperar" /\ UNCHANGED <<eBlocked, asig>>
    BY <1>3 DEF PPostBlocked
  <2>. QED BY <2>1
<1>4. CASE PEsperar \/ PSacar \/ PFinQuantum \/ PPostReady \/ PDevolver \/ PLiberar
  <2>1. UNCHANGED <<eBlocked, semAsignador, asig>> /\ plan.pc # "postBlocked"
    BY <1>4 DEF PEsperar, PSacar, PFinQuantum, PPostReady, PDevolver, PLiberar, hilos
  <2>. QED BY <2>1
<1>. QED BY <1>1, <1>2, <1>3, <1>4 DEF Planificador

LEMMA BlockedAsignador ==
  ASSUME TypeOK, FichasBlocked, Asignador
  PROVE  FichasBlocked'
<1>. USE DEF FichasBlocked, Hay, Asig, TypeOK, TListas, TSems, TAsig, sems, listas
<1>1. CASE AEsperar
  <2>1. /\ semAsignador' = semAsignador - 1 /\ asig.pc = "esperar" /\ asig'.pc = "tomar"
        /\ UNCHANGED <<eBlocked, plan>>
    BY <1>1 DEF AEsperar
  <2>. QED BY <2>1
<1>2. CASE ATomar \/ ADetectados
  <2>1. /\ asig.pc \in {"tomar", "detectar"} /\ asig'.pc \in {"detectar", "asignar"}
        /\ UNCHANGED <<eBlocked, semAsignador, plan>>
    BY <1>2 DEF ATomar, ADetectados
  <2>. QED BY <2>1
<1>3. CASE AQuitarCaido
  <2>1. Len(eBlocked') = Len(eBlocked) - 1
    BY <1>3, CaidoTipo DEF AQuitarCaido
  <2>2. UNCHANGED <<semAsignador, plan, asig>>
    BY <1>3 DEF AQuitarCaido
  <2>. QED BY <2>1, <2>2
<1>4. CASE AVacia
  <2>1. Len(eBlocked') = 0 /\ UNCHANGED <<semAsignador, plan>>
    BY <1>4 DEF AVacia
  <2>. QED BY <1>4, <2>1 DEF AVacia
<1>5. CASE AOtorgar
  <2>1. Len(eBlocked') = Len(eBlocked) - 1
    BY <1>5, Cabeza DEF AOtorgar
  <2>2. UNCHANGED <<semAsignador, plan>> /\ asig.pc = "asignar" /\ asig'.pc = "agregar"
    BY <1>5 DEF AOtorgar
  <2>. QED BY <2>1, <2>2
<1>6. CASE ARotar
  <2>1. Len(eBlocked') = Len(eBlocked)
    BY <1>6, Cabeza DEF ARotar
  <2>2. /\ semAsignador' = semAsignador + 1 /\ asig.pc = "asignar" /\ asig'.pc = "esperar"
        /\ plan' = plan
    BY <1>6 DEF ARotar
  <2>. QED BY <2>1, <2>2
<1>7. CASE AAgregar \/ APostear
  <2>1. /\ asig.pc \in {"agregar", "postear"} /\ UNCHANGED <<eBlocked, semAsignador, plan>>
    BY <1>7 DEF AAgregar, APostear
  <2>. QED BY <2>1
<1>. QED BY <1>1, <1>2, <1>3, <1>4, <1>5, <1>6, <1>7 DEF Asignador

LEMMA BlockedDeadlock ==
  ASSUME TypeOK, FichasBlocked, Deadlock
  PROVE  FichasBlocked'
<1>. USE DEF FichasBlocked, Hay, Dlk, TypeOK, TListas, TSems, sems, listas
<1>1. UNCHANGED <<semAsignador, plan, asig>>
  BY DEF Deadlock, DTomar, DQuitarCaido, DDetectados, DAnalizar, DDecidir, DCombate,
         DMatar, DFin
<1>2. CASE DQuitarCaido
  <2>1. Len(eBlocked') = Len(eBlocked) - 1
    BY <1>2, CaidoTipo DEF DQuitarCaido
  <2>. QED BY <1>1, <2>1
<1>3. CASE DMatar
  <2>1. eBlocked' = eBlocked \/ \E k \in DOMAIN eBlocked : eBlocked' = RemoveAt(eBlocked, k)
    BY <1>3 DEF DMatar
  <2>2. Len(eBlocked') <= Len(eBlocked) /\ Len(eBlocked') \in Nat
    BY <2>1, Quitado
  <2>. QED BY <1>1, <2>2
<1>4. CASE DTomar \/ DDetectados \/ DAnalizar \/ DDecidir \/ DCombate \/ DFin
  <2>1. eBlocked' = eBlocked
    BY <1>4 DEF DTomar, DDetectados, DAnalizar, DDecidir, DCombate, DFin
  <2>. QED BY <1>1, <2>1
<1>. QED BY <1>2, <1>3, <1>4 DEF Deadlock

LEMMA BlockedPaso ==
  ASSUME TypeOK, FichasBlocked, [Next]_vars
  PROVE  FichasBlocked'
<1>1. ASSUME UNCHANGED <<eBlocked, semAsignador, plan, asig>>
      PROVE  FichasBlocked'
  BY <1>1 DEF FichasBlocked
<1>2. ASSUME NEW t \in Entrenadores, Handshake(t) \/ Conectar(t)
      PROVE  UNCHANGED <<eBlocked, semAsignador, plan, asig>>
  BY <1>2 DEF Handshake, HBienvenida, HRecibir, HDesconexion, HPostear, Conectar, listas, sems
<1>3. ASSUME NEW t \in Entrenadores, Cliente(t) \/ Abandonar(t)
      PROVE  UNCHANGED <<eBlocked, semAsignador, plan, asig>>
  BY <1>3 DEF Cliente, CBienvenida, CCoordenadas, CMover, CCaptura, CAviso, CSalir,
              Desfasarse, Toma, Abandonar, listas, sems, hilos
<1>4. ASSUME Recargar \/ UNCHANGED vars
      PROVE  UNCHANGED <<eBlocked, semAsignador, plan, asig>>
  BY <1>4 DEF Recargar, listas, sems, hilos, vars
<1>. QED BY <1>1, <1>2, <1>3, <1>4, BlockedPlanificador, BlockedAsignador, BlockedDeadlock
         DEF Next

-----------------------------------------------------------------------------
IInv == TypeOK /\ SinHilo /\ FichasReady /\ FichasBlocked

LEMMA InvInicial ==
  ASSUME Init
  PROVE  IInv
<1>1. SinHilo
  BY DEF Init, SinHilo
<1>2. FichasBlocked
  BY DEF Init, FichasBlocked, Hay
<1>. QED BY <1>1, <1>2, TipoInicial, ReadyInicial DEF IInv

LEMMA InvPaso ==
  ASSUME IInv, [Next]_vars
  PROVE  IInv'
BY TipoPaso, SinHiloPaso, ReadyPaso, BlockedPaso DEF IInv

\* The inductive invariant: types, who is in no thread's hands, and the tokens of both
\* semaphores (agregarReady, agregarBlocked and the threads that consume them).
THEOREM Invariante == Spec => []IInv
<1>1. Init => IInv
  BY InvInicial
<1>2. IInv /\ [Next]_vars => IInv'
  BY InvPaso
<1>. QED BY <1>1, <1>2, PTL DEF Spec

\* The tokens of semPlanificador match eReady, whatever the number of trainers and
\* the order of the threads (agregarReady, sem_wait at line 700, list_remove at 619
\* and 668).
THEOREM ListosContados == Spec => []FichasReady
<1>1. IInv => FichasReady
  BY DEF IInv
<1>. QED BY <1>1, Invariante, PTL

\* No wake-up of asignador is lost: semAsignador covers every trainer of eBlocked
\* (agregarBlocked, asignador and the two places that take trainers out).
THEOREM BloqueadosContados == Spec => []FichasBlocked
<1>1. IInv => FichasBlocked
  BY DEF IInv
<1>. QED BY <1>1, Invariante, PTL

\* So planRR and planSRDF never take a trainer from an empty list, which they do
\* not check (lines 619 and 668).
ListaConAlguien == plan.pc = "sacar" => eReady # <<>>

\* The planner, between sem_wait (line 700) and list_remove, always finds a trainer in
\* eReady.
THEOREM SacaDeVerdad == Spec => []ListaConAlguien
<1>1. IInv => ListaConAlguien
  BY Postean DEF IInv, FichasReady, Hay, ListaConAlguien, TypeOK, TSems, TListas
<1>. QED BY <1>1, Invariante, PTL

-----------------------------------------------------------------------------

\* Where a trainer may be.
EnReady(t) == t \in ToSet(eReady)
EnBlocked(t) == t \in ToSet(eBlocked)
Llegando(t) == hs[t] \in {"bienvenida", "recibir"}

\* It is in one place if it lives, and in none if it does not.
UnLugar(t) ==
  /\ t \in Vivos <=> EnReady(t) \/ EnBlocked(t) \/ plan.ent = t \/ asig.ent = t \/ Llegando(t)
  /\ EnReady(t) => ~EnBlocked(t) /\ plan.ent # t /\ asig.ent # t /\ ~Llegando(t)
  /\ EnBlocked(t) => plan.ent # t /\ asig.ent # t /\ ~Llegando(t)
  /\ plan.ent = t => asig.ent # t /\ ~Llegando(t)
  /\ asig.ent = t => ~Llegando(t)

\* Who has not played has no pokemon.
SinJugar == \A t \in Entrenadores : hs[t] \in {"no", "bienvenida", "recibir"} => tiene[t] = Nada
ConHilo == \A t \in Entrenadores : hs[t] = "no" => sock[t] = "libre"

DInv ==
  /\ IsInjective(eReady) /\ IsInjective(eBlocked)
  /\ \A t \in Entrenadores : UnLugar(t)
  /\ ConHilo /\ SinJugar

-----------------------------------------------------------------------------
(* Lists without repetition. *)

\* Adding somebody new at the end.
LEMMA Agregado ==
  ASSUME NEW S, NEW s \in Seq(S), NEW e \in S
  PROVE  /\ Append(s, e) \in Seq(S)
         /\ ToSet(Append(s, e)) = ToSet(s) \cup {e}
         /\ IsInjective(s) /\ e \notin ToSet(s) => IsInjective(Append(s, e))
<1>. DEFINE u == Append(s, e)
<1>1. /\ u \in Seq(S) /\ DOMAIN s = 1..Len(s) /\ DOMAIN u = 1..Len(s) + 1 /\ Len(s) \in Nat
      /\ \A i \in 1..Len(s) : u[i] = s[i]
      /\ u[Len(s) + 1] = e
  OBVIOUS
<1>. HIDE DEF u
<1>2. ToSet(u) = ToSet(s) \cup {e}
  <2>1. ASSUME NEW y \in ToSet(u) PROVE y \in ToSet(s) \cup {e}
    <3>1. PICK i \in DOMAIN u : y = u[i]
      BY DEF ToSet
    <3>. QED BY <1>1, <3>1 DEF ToSet
  <2>2. ASSUME NEW y \in ToSet(s) \cup {e} PROVE y \in ToSet(u)
    BY <1>1 DEF ToSet
  <2>. QED BY <2>1, <2>2
<1>3. IsInjective(s) /\ e \notin ToSet(s) => IsInjective(u)
  BY <1>1 DEF IsInjective, ToSet
<1>. QED BY <1>1, <1>2, <1>3 DEF u

\* Taking away the one at place k.
LEMMA Sacado ==
  ASSUME NEW S, NEW s \in Seq(S), NEW k \in DOMAIN s
  PROVE  /\ RemoveAt(s, k) \in Seq(S) /\ s[k] \in S
         /\ IsInjective(s) =>
              IsInjective(RemoveAt(s, k)) /\ ToSet(RemoveAt(s, k)) = ToSet(s) \ {s[k]}
<1>. DEFINE a == SubSeq(s, 1, k - 1)
            b == SubSeq(s, k + 1, Len(s))
            u == a \o b
<1>0. k \in 1..Len(s) /\ Len(s) \in Nat /\ DOMAIN s = 1..Len(s) /\ RemoveAt(s, k) = u
  BY DEF RemoveAt
<1>a. a \in Seq(S) /\ Len(a) = k - 1 /\ \A i \in 1..k - 1 : a[i] = s[i]
  BY <1>0
<1>b. b \in Seq(S) /\ Len(b) = Len(s) - k /\ \A i \in 1..Len(s) - k : b[i] = s[k + i]
  <2>1. \A i \in k + 1..Len(s) : s[i] \in S
    BY <1>0
  <2>2. k + 1 \in Int /\ Len(s) \in Int
    BY <1>0
  <2>3. /\ b \in Seq(S) /\ Len(b) = IF k + 1 <= Len(s) THEN Len(s) - (k + 1) + 1 ELSE 0
        /\ \A i \in 1..Len(s) - (k + 1) + 1 : b[i] = s[k + 1 + i - 1]
    BY <2>1, <2>2, SubSeqProperties
  <2>. HIDE DEF b
  <2>4. Len(s) - (k + 1) + 1 = Len(s) - k /\ \A i \in Int : k + 1 + i - 1 = k + i
    BY <1>0
  <2>5. Len(b) = Len(s) - k
    BY <1>0, <2>3
  <2>6. ASSUME NEW i \in 1..Len(s) - k
        PROVE  b[i] = s[k + i]
    <3>1. i \in Int /\ i \in 1..Len(s) - (k + 1) + 1
      BY <1>0, <2>4
    <3>. QED BY <2>3, <2>4, <3>1
  <2>. QED BY <2>3, <2>5, <2>6
<1>. HIDE DEF a, b
<1>1. /\ u \in Seq(S) /\ DOMAIN u = 1..Len(s) - 1
      /\ \A i \in 1..Len(s) - 1 : u[i] = IF i < k THEN s[i] ELSE s[i + 1]
  <2>1. u \in Seq(S) /\ Len(u) = Len(s) - 1 /\ DOMAIN u = 1..Len(s) - 1
    <3>1. u \in Seq(S) /\ Len(u) = Len(a) + Len(b)
      BY <1>a, <1>b, ConcatProperties
    <3>2. Len(a) + Len(b) = Len(s) - 1
      BY <1>0, <1>a, <1>b
    <3>3. DOMAIN u = 1..Len(u)
      BY <3>1, LenProperties
    <3>. HIDE DEF u
    <3>. QED BY <3>1, <3>2, <3>3
  <2>2. ASSUME NEW i \in 1..Len(s) - 1, i < k
        PROVE  u[i] = s[i]
    BY <1>0, <1>a, <1>b, <2>2
  <2>3. ASSUME NEW i \in 1..Len(s) - 1, i >= k
        PROVE  u[i] = s[i + 1]
    <3>1. u[i] = b[i - Len(a)]
      BY <1>0, <1>a, <1>b, <2>3, SMTT(60)
    <3>2. i - Len(a) \in 1..Len(s) - k /\ k + (i - Len(a)) = i + 1
      BY <1>0, <1>a, <2>3
    <3>. QED BY <1>b, <3>1, <3>2
  <2>4. ASSUME NEW i \in 1..Len(s) - 1
        PROVE  u[i] = IF i < k THEN s[i] ELSE s[i + 1]
    <3>. HIDE DEF u
    <3>. QED BY <1>0, <2>2, <2>3
  <2>. QED BY <2>1, <2>4
<1>. HIDE DEF u
<1>2. ASSUME IsInjective(s)
      PROVE  IsInjective(u)
  <2>1. ASSUME NEW i \in DOMAIN u, NEW j \in DOMAIN u, u[i] = u[j]
        PROVE  i = j
    <3>. DEFINE f(m) == IF m < k THEN m ELSE m + 1
    <3>1. f(i) \in DOMAIN s /\ f(j) \in DOMAIN s /\ u[i] = s[f(i)] /\ u[j] = s[f(j)]
      BY <1>0, <1>1
    <3>2. f(i) = f(j)
      BY <1>2, <2>1, <3>1 DEF IsInjective
    <3>. QED BY <1>0, <1>1, <3>2
  <2>. QED BY <2>1 DEF IsInjective
<1>3. ASSUME IsInjective(s)
      PROVE  ToSet(u) = ToSet(s) \ {s[k]}
  <2>1. ASSUME NEW y \in ToSet(u) PROVE y \in ToSet(s) \ {s[k]}
    <3>1. PICK i \in DOMAIN u : y = u[i]
      BY DEF ToSet
    <3>2. PICK j \in DOMAIN s : y = s[j] /\ j # k
      BY <1>0, <1>1, <3>1
    <3>. QED BY <1>0, <1>3, <3>2 DEF ToSet, IsInjective
  <2>2. ASSUME NEW y \in ToSet(s) \ {s[k]} PROVE y \in ToSet(u)
    <3>1. PICK j \in DOMAIN s : y = s[j] /\ j # k
      BY DEF ToSet
    <3>2. PICK i \in DOMAIN u : y = u[i]
      <4>1. CASE j < k
        BY <1>0, <1>1, <3>1, <4>1
      <4>2. CASE j > k
        <5>1. j - 1 \in DOMAIN u /\ u[j - 1] = s[j]
          BY <1>0, <1>1, <4>2
        <5>. QED BY <3>1, <5>1
      <4>. QED BY <1>0, <3>1, <4>1, <4>2
    <3>. QED BY <3>2 DEF ToSet
  <2>. QED BY <2>1, <2>2
<1>. QED BY <1>0, <1>1, <1>2, <1>3

\* Taking away the first.
LEMMA Descabezado ==
  ASSUME NEW S, NEW s \in Seq(S), s # <<>>
  PROVE  /\ Tail(s) \in Seq(S) /\ Head(s) \in S /\ Head(s) \in ToSet(s)
         /\ IsInjective(s) => IsInjective(Tail(s)) /\ ToSet(Tail(s)) = ToSet(s) \ {Head(s)}
<1>1. 1 \in DOMAIN s /\ s[1] = Head(s) /\ Tail(s) \in Seq(S) /\ Len(Tail(s)) = Len(s) - 1
      /\ \A i \in 1..Len(s) - 1 : Tail(s)[i] = s[i + 1]
  OBVIOUS
<1>2. Len(s) \in Nat /\ DOMAIN s = 1..Len(s) /\ DOMAIN Tail(s) = 1..Len(s) - 1
  BY <1>1
<1>3. ASSUME IsInjective(s)
      PROVE  IsInjective(Tail(s))
  BY <1>1, <1>2, <1>3 DEF IsInjective
<1>4. ASSUME IsInjective(s)
      PROVE  ToSet(Tail(s)) = ToSet(s) \ {Head(s)}
  <2>1. ASSUME NEW y \in ToSet(Tail(s)) PROVE y \in ToSet(s) \ {Head(s)}
    <3>1. PICK i \in 1..Len(s) - 1 : y = s[i + 1]
      BY <1>1, <1>2 DEF ToSet
    <3>2. i + 1 \in DOMAIN s /\ i + 1 # 1
      BY <1>2
    <3>. QED BY <1>1, <1>4, <3>1, <3>2 DEF ToSet, IsInjective
  <2>2. ASSUME NEW y \in ToSet(s) \ {Head(s)} PROVE y \in ToSet(Tail(s))
    <3>1. PICK j \in DOMAIN s : y = s[j] /\ j # 1
      BY <1>1 DEF ToSet
    <3>2. j - 1 \in DOMAIN Tail(s) /\ Tail(s)[j - 1] = s[j]
      <4>1. j - 1 \in 1..Len(s) - 1 /\ (j - 1) + 1 = j
        BY <1>2, <3>1
      <4>. QED BY <1>1, <1>2, <4>1
    <3>. QED BY <3>1, <3>2 DEF ToSet
  <2>. QED BY <2>1, <2>2
<1>5. Head(s) \in ToSet(s) /\ Head(s) \in S
  <2>1. s[1] \in ToSet(s)
    BY <1>1 DEF ToSet
  <2>2. s[1] \in S
    BY <1>1, <1>2
  <2>. QED BY <1>1, <2>1, <2>2
<1>. QED BY <1>1, <1>3, <1>4, <1>5

-----------------------------------------------------------------------------
(* What happens to one trainer in a step. *)

\* It stays where it is.
Queda(t) ==
  /\ EnReady(t)' <=> EnReady(t)
  /\ EnBlocked(t)' <=> EnBlocked(t)
  /\ (plan'.ent = t) <=> (plan.ent = t)
  /\ (asig'.ent = t) <=> (asig.ent = t)
  /\ Llegando(t)' <=> Llegando(t)
  /\ t \in Vivos' <=> t \in Vivos

\* If it has still to play, nothing of what it has changes; if it has still to
\* connect, neither does its socket.
NoJuega(t) ==
  /\ hs'[t] \in {"no", "bienvenida", "recibir"} =>
       hs[t] \in {"no", "bienvenida", "recibir"} /\ tiene'[t] = tiene[t]
  /\ hs'[t] = "no" => hs[t] = "no" /\ sock'[t] = sock[t]

\* A step that moves at most one trainer.
LEMMA Mudanza ==
  ASSUME DInv, NEW e \in Entrenadores,
         IsInjective(eReady)', IsInjective(eBlocked)',
         \A t \in Entrenadores \ {e} : Queda(t),
         UnLugar(e)',
         \A t \in Entrenadores : NoJuega(t)
  PROVE  DInv'
<1>1. ASSUME NEW t \in Entrenadores
      PROVE  UnLugar(t)'
  BY <1>1 DEF DInv, UnLugar, Queda
<1>2. ConHilo' /\ SinJugar'
  BY DEF DInv, ConHilo, SinJugar, NoJuega
<1>. QED BY <1>1, <1>2 DEF DInv

\* A step that moves none.
LEMMA Quietos ==
  ASSUME DInv, UNCHANGED <<eReady, eBlocked>>,
         \A t \in Entrenadores : Queda(t) /\ NoJuega(t)
  PROVE  DInv'
<1>1. ASSUME NEW t \in Entrenadores
      PROVE  UnLugar(t)'
  BY <1>1 DEF DInv, UnLugar, Queda
<1>2. ConHilo' /\ SinJugar'
  BY DEF DInv, ConHilo, SinJugar, NoJuega
<1>. QED BY <1>1, <1>2 DEF DInv

\* The usual way to move none.
LEMMA Quieto ==
  ASSUME TypeOK, DInv, UNCHANGED <<eReady, eBlocked, hs>>,
         plan'.ent = plan.ent, asig'.ent = asig.ent,
         Vivos' = Vivos, \A t \in Entrenadores : sock[t] = "libre" => sock'[t] = "libre",
         \A t \in Entrenadores : t \notin Vivos \/ Llegando(t) => tiene'[t] = tiene[t]
  PROVE  DInv'
<1>1. ASSUME NEW t \in Entrenadores
      PROVE  Queda(t)
  BY <1>1 DEF Queda, EnReady, EnBlocked, Llegando
<1>2. ASSUME NEW t \in Entrenadores
      PROVE  NoJuega(t)
  BY <1>2 DEF NoJuega, Llegando, DInv, ConHilo, Vivos
<1>. QED BY <1>1, <1>2, Quietos

\* Sending frees nobody's structure.
LEMMA EnviadoVivos ==
  ASSUME TypeOK, NEW T, NEW m, EnviarATodos(T, m)
  PROVE  Vivos' = Vivos /\ \A t \in Entrenadores : sock[t] = "libre" => sock'[t] = "libre"
BY DEF TypeOK, TRed, EnviarATodos, Vivos

\* desconectarEntrenador frees one.
LEMMA DesconectadoVivos ==
  ASSUME TypeOK, NEW e \in Vivos, Desconectar(e)
  PROVE  /\ Vivos' = Vivos \ {e}
         /\ \A t \in Entrenadores : sock[t] = "libre" => sock'[t] = "libre"
         /\ \A t \in Entrenadores \ {e} : tiene'[t] = tiene[t] /\ sock'[t] = sock[t]
<1>1. e \in Entrenadores /\ sock[e] # "libre"
  BY DEF Vivos
<1>2. sock' = [sock EXCEPT ![e] = "cerrado"] /\ tiene' = [tiene EXCEPT ![e] = Nada]
  BY DEF Desconectar
<1>. QED BY <1>1, <1>2 DEF TypeOK, TRed, TDatos, Vivos

\* Who is somewhere lives and has its handshake behind it or under way.
LEMMA Ubicado ==
  ASSUME TypeOK, DInv, NEW e \in Entrenadores,
         EnReady(e) \/ EnBlocked(e) \/ plan.ent = e \/ asig.ent = e
  PROVE  e \in Vivos /\ hs[e] \in {"postear", "fin"} /\ sock[e] # "libre"
<1>1. e \in Vivos /\ ~Llegando(e)
  BY DEF DInv, UnLugar
<1>2. hs[e] # "no"
  BY <1>1 DEF DInv, ConHilo, Vivos
<1>. QED BY <1>1, <1>2 DEF Llegando, TypeOK, THilos, Vivos

-----------------------------------------------------------------------------
(* One lemma per thread. *)

LEMMA DueniosHandshake ==
  ASSUME TypeOK, DInv, NEW t \in Entrenadores, Handshake(t)
  PROVE  DInv'
<1>. USE DEF TypeOK, TListas, THilos, TRed, Hs
<1>1. CASE HBienvenida(t)
  <2>1. /\ UNCHANGED <<eReady, eBlocked, plan, asig, tiene>>
        /\ hs[t] = "bienvenida" /\ hs' = [hs EXCEPT ![t] = "recibir"]
        /\ EnviarATodos({t}, "Bienvenida")
    BY <1>1 DEF HBienvenida, listas, datos, Enviar
  <2>2. Vivos' = Vivos
    BY <2>1, EnviadoVivos
  <2>3. ASSUME NEW u \in Entrenadores
        PROVE  Queda(u) /\ NoJuega(u)
    <3>1. Llegando(u)' <=> Llegando(u)
      BY <2>1 DEF Llegando
    <3>2. u # t => hs'[u] = hs[u]
      BY <2>1
    <3>3. hs[u] = "no" => sock'[u] = sock[u]
      BY <2>1 DEF EnviarATodos, DInv, ConHilo
    <3>. QED BY <2>1, <2>2, <3>1, <3>2, <3>3 DEF Queda, NoJuega, EnReady, EnBlocked
  <2>. QED BY <2>1, <2>3, Quietos
<1>2. CASE HRecibir(t)
  <2>1. /\ UNCHANGED <<eBlocked, plan, asig, tiene, sock>>
        /\ hs[t] = "recibir" /\ hs' = [hs EXCEPT ![t] = "postear"]
        /\ eReady' = Append(eReady, t)
    BY <1>2 DEF HRecibir, datos
  <2>2. Llegando(t) /\ ~EnReady(t)
    BY <2>1 DEF Llegando, DInv, UnLugar
  <2>3. IsInjective(eReady') /\ ToSet(eReady') = ToSet(eReady) \cup {t}
    BY <2>1, <2>2, Agregado DEF DInv, EnReady
  <2>4. Vivos' = Vivos
    BY <2>1 DEF Vivos
  <2>5. ASSUME NEW u \in Entrenadores \ {t}
        PROVE  Queda(u)
    BY <2>1, <2>3, <2>4 DEF Queda, EnReady, EnBlocked, Llegando
  <2>6. UnLugar(t)'
    <3>1. UnLugar(t)
      BY DEF DInv
    <3>2. EnReady(t)' /\ ~Llegando(t)' /\ (EnBlocked(t)' <=> EnBlocked(t))
      BY <2>1, <2>3 DEF EnReady, EnBlocked, Llegando
    <3>. QED BY <2>1, <2>2, <2>4, <3>1, <3>2 DEF UnLugar
  <2>7. \A u \in Entrenadores : NoJuega(u)
    BY <2>1 DEF NoJuega
  <2>8. IsInjective(eBlocked')
    BY <2>1 DEF DInv
  <2>. QED BY <2>3, <2>5, <2>6, <2>7, <2>8, Mudanza
<1>3. CASE HDesconexion(t)
  <2>1. /\ UNCHANGED <<eReady, eBlocked, plan, asig, tiene>>
        /\ hs[t] = "recibir" /\ hs' = [hs EXCEPT ![t] = "fin"]
        /\ sock' = [sock EXCEPT ![t] = "cerrado"]
    BY <1>3 DEF HDesconexion, listas, datos
  <2>2. Vivos' = Vivos \ {t}
    BY <2>1 DEF Vivos
  <2>3. ASSUME NEW u \in Entrenadores \ {t}
        PROVE  Queda(u)
    BY <2>1, <2>2 DEF Queda, EnReady, EnBlocked, Llegando
  <2>4. UnLugar(t)'
    <3>1. UnLugar(t) /\ Llegando(t) /\ ~Llegando(t)'
      BY <2>1 DEF DInv, Llegando
    <3>. QED BY <2>1, <2>2, <3>1 DEF UnLugar, EnReady, EnBlocked
  <2>5. \A u \in Entrenadores : NoJuega(u)
    BY <2>1 DEF NoJuega
  <2>6. IsInjective(eReady') /\ IsInjective(eBlocked')
    BY <2>1 DEF DInv
  <2>. QED BY <2>3, <2>4, <2>5, <2>6, Mudanza
<1>4. CASE HPostear(t)
  <2>1. /\ UNCHANGED <<eReady, eBlocked, plan, asig, tiene, sock>>
        /\ hs[t] = "postear" /\ hs' = [hs EXCEPT ![t] = "fin"]
    BY <1>4 DEF HPostear, listas, datos, red
  <2>2. Vivos' = Vivos
    BY <2>1 DEF Vivos
  <2>3. ASSUME NEW u \in Entrenadores
        PROVE  Queda(u) /\ NoJuega(u)
    BY <2>1, <2>2 DEF Queda, NoJuega, EnReady, EnBlocked, Llegando
  <2>. QED BY <2>1, <2>3, Quietos
<1>. QED BY <1>1, <1>2, <1>3, <1>4 DEF Handshake

\* The planner puts the trainer it has in hand at the end of eReady.
LEMMA ALaFila ==
  ASSUME TypeOK, DInv, NEW e \in Entrenadores, plan.ent = e, plan'.ent = Ninguno,
         eReady' = Append(eReady, e), UNCHANGED <<eBlocked, asig, hs, tiene>>, Vivos' = Vivos,
         \A t \in Entrenadores : sock[t] = "libre" => sock'[t] = "libre"
  PROVE  DInv'
<1>. USE DEF TypeOK, TListas
<1>1. UnLugar(e) /\ ~EnReady(e)
  BY DEF DInv, UnLugar
<1>2. IsInjective(eReady') /\ ToSet(eReady') = ToSet(eReady) \cup {e}
  BY <1>1, Agregado DEF DInv, EnReady
<1>3. ASSUME NEW u \in Entrenadores \ {e}
      PROVE  Queda(u)
  BY <1>2, SupuestoMapa DEF Queda, EnReady, EnBlocked, Llegando
<1>4. UnLugar(e)'
  <2>1. EnReady(e)' /\ (Llegando(e)' <=> Llegando(e)) /\ (EnBlocked(e)' <=> EnBlocked(e))
    BY <1>2 DEF EnReady, EnBlocked, Llegando
  <2>2. plan'.ent # e
    BY SupuestoMapa
  <2>. QED BY <1>1, <2>1, <2>2 DEF UnLugar
<1>5. \A u \in Entrenadores : NoJuega(u)
  BY DEF NoJuega, DInv, ConHilo
<1>6. IsInjective(eBlocked')
  BY DEF DInv
<1>. QED BY <1>2, <1>3, <1>4, <1>5, <1>6, Mudanza

LEMMA DueniosPlanificador ==
  ASSUME TypeOK, DInv, Planificador
  PROVE  DInv'
<1>. USE DEF TypeOK, TListas, TPlan, Plan
<1>1. ASSUME NEW t \in Entrenadores, PCoordenadas(t)
      PROVE  DInv'
  <2>1. /\ UNCHANGED <<eBlocked, asig, hs, tiene>> /\ plan.ent = t
        /\ EnviarATodos({t}, "Coord")
        /\ \/ eReady' = eReady /\ plan'.ent = t
           \/ eReady' = Append(eReady, t) /\ plan'.ent = Ninguno
    BY <1>1 DEF PCoordenadas, Recibe, Enviar
  <2>2. Vivos' = Vivos /\ \A u \in Entrenadores : sock[u] = "libre" => sock'[u] = "libre"
    BY <2>1, EnviadoVivos
  <2>. QED BY <2>1, <2>2, Quieto, ALaFila
<1>2. ASSUME NEW t \in Entrenadores, Atender(t), ~PCoordenadas(t)
      PROVE  DInv'
  <2>1. /\ UNCHANGED <<eReady, eBlocked, asig, hs, tiene>> /\ plan'.ent = plan.ent
        /\ sock' = sock \/ \E m : EnviarATodos({t}, m)
    BY <1>2 DEF Atender, PDesconexion, PNoExiste, PMover, PCapturar, PMedalla, Recibe,
                listas, datos, red, Enviar
  <2>2. Vivos' = Vivos /\ \A u \in Entrenadores : sock[u] = "libre" => sock'[u] = "libre"
    <3>1. CASE sock' = sock
      BY <3>1 DEF Vivos
    <3>. QED BY <2>1, <3>1, EnviadoVivos
  <2>. QED BY <2>1, <2>2, Quieto
<1>3. CASE PEsperar \/ PPostReady \/ PPostBlocked
  <2>1. /\ UNCHANGED <<eReady, eBlocked, asig, hs, tiene, sock>> /\ plan'.ent = plan.ent
    BY <1>3 DEF PEsperar, PPostReady, PPostBlocked, listas, datos, red
  <2>2. Vivos' = Vivos
    BY <2>1 DEF Vivos
  <2>. QED BY <2>1, <2>2, Quieto
<1>4. CASE PSacar
  <2>1. UNCHANGED <<eBlocked, asig, hs, tiene, sock>> /\ plan.ent = Ninguno
    BY <1>4 DEF PSacar, datos, red
  <2>2. Vivos' = Vivos
    BY <2>1 DEF Vivos
  <2>3. CASE UNCHANGED <<plan, eReady>>
    BY <2>1, <2>2, <2>3, Quieto
  <2>4. ASSUME NEW i \in DOMAIN eReady, plan'.ent = eReady[i], eReady' = RemoveAt(eReady, i)
        PROVE  DInv'
    <3>a. eReady[i] \in Entrenadores
      OBVIOUS
    <3>b. PICK e \in Entrenadores : e = eReady[i]
      BY <3>a
    <3>c. IsInjective(eReady)
      BY DEF DInv
    <3>1. /\ EnReady(e) /\ UnLugar(e) /\ IsInjective(eReady') /\ plan'.ent = e
          /\ ToSet(eReady') = ToSet(eReady) \ {e}
      <4>1. IsInjective(eReady') /\ ToSet(eReady') = ToSet(eReady) \ {e}
        BY <2>4, <3>b, <3>c, Sacado
      <4>2. EnReady(e)
        BY <3>b DEF EnReady, ToSet
      <4>. QED BY <2>4, <3>b, <4>1, <4>2 DEF DInv
    <3>2. ASSUME NEW u \in Entrenadores \ {e}
          PROVE  Queda(u)
      BY <2>1, <2>2, <3>1, SupuestoMapa DEF Queda, EnReady, EnBlocked, Llegando
    <3>3. UnLugar(e)'
      <4>1. ~EnReady(e)' /\ (Llegando(e)' <=> Llegando(e)) /\ (EnBlocked(e)' <=> EnBlocked(e))
        BY <2>1, <3>1 DEF EnReady, EnBlocked, Llegando
      <4>. QED BY <2>1, <2>2, <3>1, <4>1 DEF UnLugar
    <3>4. \A u \in Entrenadores : NoJuega(u)
      BY <2>1 DEF NoJuega
    <3>5. IsInjective(eBlocked')
      BY <2>1 DEF DInv
    <3>. QED BY <3>1, <3>2, <3>3, <3>4, <3>5, Mudanza
  <2>5. \/ UNCHANGED <<plan, eReady>>
        \/ \E i \in DOMAIN eReady : plan'.ent = eReady[i] /\ eReady' = RemoveAt(eReady, i)
    BY <1>4 DEF PSacar
  <2>. QED BY <2>3, <2>4, <2>5
<1>5. CASE PFinQuantum
  <2>1. /\ UNCHANGED <<eBlocked, asig, hs, tiene, sock>> /\ plan'.ent = Ninguno
        /\ plan.ent \in Entrenadores /\ eReady' = Append(eReady, plan.ent)
    BY <1>5 DEF PFinQuantum, datos, red
  <2>2. Vivos' = Vivos
    BY <2>1 DEF Vivos
  <2>. QED BY <2>1, <2>2, ALaFila
<1>6. CASE PBloquear
  <2>1. /\ UNCHANGED <<eReady, asig, hs, tiene, sock>> /\ plan'.ent = Ninguno
        /\ plan.ent \in Entrenadores /\ eBlocked' = Append(eBlocked, plan.ent)
    BY <1>6 DEF PBloquear, datos, red
  <2>2. Vivos' = Vivos
    BY <2>1 DEF Vivos
  <2>3. PICK e \in Entrenadores : e = plan.ent
    BY <2>1
  <2>4. UnLugar(e) /\ ~EnBlocked(e)
    BY <2>3 DEF DInv, UnLugar
  <2>5. IsInjective(eBlocked') /\ ToSet(eBlocked') = ToSet(eBlocked) \cup {e}
    BY <2>1, <2>3, <2>4, Agregado DEF DInv, EnBlocked
  <2>6. ASSUME NEW u \in Entrenadores \ {e}
        PROVE  Queda(u)
    BY <2>1, <2>2, <2>3, <2>5, SupuestoMapa DEF Queda, EnReady, EnBlocked, Llegando
  <2>7. UnLugar(e)'
    <3>1. EnBlocked(e)' /\ (Llegando(e)' <=> Llegando(e)) /\ (EnReady(e)' <=> EnReady(e))
      BY <2>1, <2>5 DEF EnReady, EnBlocked, Llegando
    <3>2. plan'.ent # e
      BY <2>1, SupuestoMapa
    <3>. QED BY <2>1, <2>2, <2>3, <2>4, <3>1, <3>2 DEF UnLugar
  <2>8. \A u \in Entrenadores : NoJuega(u)
    BY <2>1 DEF NoJuega
  <2>9. IsInjective(eReady')
    BY <2>1 DEF DInv
  <2>. QED BY <2>5, <2>6, <2>7, <2>8, <2>9, Mudanza
<1>7. CASE PDevolver
  <2>1. /\ UNCHANGED <<eReady, eBlocked, plan, asig, hs, sock>> /\ plan.ent \in Entrenadores
        /\ \E n \in PokeNests : tiene' = [tiene EXCEPT ![plan.ent][n] = @ - 1]
    BY <1>7 DEF PDevolver, listas, hilos, red
  <2>2. Vivos' = Vivos
    BY <2>1 DEF Vivos
  <2>3. \A u \in Entrenadores : u # plan.ent => tiene'[u] = tiene[u]
    BY <2>1 DEF TDatos
  <2>4. plan.ent \in Vivos /\ ~Llegando(plan.ent)
    BY <2>1, Ubicado DEF Llegando
  <2>. QED BY <2>1, <2>2, <2>3, <2>4, Quieto
<1>8. CASE PLiberar
  <2>1. /\ UNCHANGED <<eReady, eBlocked, asig, hs, tiene>> /\ plan'.ent = Ninguno
        /\ plan.ent \in Entrenadores /\ sock' = [sock EXCEPT ![plan.ent] = "cerrado"]
    BY <1>8 DEF PLiberar, listas, datos
  <2>2. PICK e \in Entrenadores : e = plan.ent
    BY <2>1
  <2>3. Vivos' = Vivos \ {e} /\ UnLugar(e) /\ hs[e] # "no"
    <3>1. hs[e] # "no"
      BY <2>2, Ubicado
    <3>. QED BY <2>1, <2>2, <3>1 DEF Vivos, TRed, DInv
  <2>4. ASSUME NEW u \in Entrenadores \ {e}
        PROVE  Queda(u)
    BY <2>1, <2>2, <2>3, SupuestoMapa DEF Queda, EnReady, EnBlocked, Llegando
  <2>5. UnLugar(e)'
    <3>1. plan'.ent # e
      BY <2>1, SupuestoMapa
    <3>. QED BY <2>1, <2>2, <2>3, <3>1 DEF UnLugar, EnReady, EnBlocked, Llegando
  <2>6. \A u \in Entrenadores : NoJuega(u)
    BY <2>1, <2>2, <2>3 DEF NoJuega, TRed
  <2>7. IsInjective(eReady') /\ IsInjective(eBlocked')
    BY <2>1 DEF DInv
  <2>. QED BY <2>4, <2>5, <2>6, <2>7, Mudanza
<1>. QED BY <1>1, <1>2, <1>3, <1>4, <1>5, <1>6, <1>7, <1>8 DEF Planificador

\* Who holds mutexBlocked takes a trainer out of eBlocked and frees it.
LEMMA Expulsado ==
  ASSUME TypeOK, DInv, NEW k \in DOMAIN eBlocked, eBlocked' = RemoveAt(eBlocked, k),
         Desconectar(eBlocked[k]), UNCHANGED <<eReady, plan, asig, hs>>
  PROVE  DInv'
<1>. USE DEF TypeOK, TListas
<1>1. PICK e \in Entrenadores : e = eBlocked[k]
  OBVIOUS
<1>2. EnBlocked(e) /\ UnLugar(e)
  BY <1>1 DEF EnBlocked, ToSet, DInv
<1>3. e \in Vivos /\ hs[e] \in {"postear", "fin"}
  BY <1>2, Ubicado
<1>4. /\ Vivos' = Vivos \ {e}
      /\ \A t \in Entrenadores : sock[t] = "libre" => sock'[t] = "libre"
      /\ \A t \in Entrenadores \ {e} : tiene'[t] = tiene[t] /\ sock'[t] = sock[t]
  BY <1>1, <1>3, DesconectadoVivos
<1>5. IsInjective(eBlocked') /\ ToSet(eBlocked') = ToSet(eBlocked) \ {e}
  BY <1>1, Sacado DEF DInv
<1>6. ASSUME NEW u \in Entrenadores \ {e}
      PROVE  Queda(u)
  BY <1>4, <1>5 DEF Queda, EnReady, EnBlocked, Llegando
<1>7. UnLugar(e)'
  <2>1. /\ ~EnBlocked(e)' /\ (Llegando(e)' <=> Llegando(e)) /\ (EnReady(e)' <=> EnReady(e))
        /\ e \notin Vivos'
    BY <1>4, <1>5 DEF EnReady, EnBlocked, Llegando
  <2>. QED BY <1>2, <2>1 DEF UnLugar
<1>8. \A u \in Entrenadores : NoJuega(u)
  BY <1>3, <1>4 DEF NoJuega
<1>9. IsInjective(eReady')
  BY DEF DInv
<1>. QED BY <1>5, <1>6, <1>7, <1>8, <1>9, Mudanza

LEMMA DueniosAsignador ==
  ASSUME TypeOK, DInv, Asignador
  PROVE  DInv'
<1>. USE DEF TypeOK, TListas, TAsig, Asig
<1>1. CASE AEsperar \/ ATomar \/ ADetectados \/ AVacia \/ APostear
  <2>1. /\ UNCHANGED <<eReady, eBlocked, plan, hs, tiene, sock>> /\ asig'.ent = asig.ent
    BY <1>1 DEF AEsperar, ATomar, ADetectados, AVacia, APostear, listas, datos, red
  <2>2. Vivos' = Vivos
    BY <2>1 DEF Vivos
  <2>. QED BY <2>1, <2>2, Quieto
<1>2. CASE AQuitarCaido
  <2>1. PICK k \in DOMAIN eBlocked : /\ eBlocked' = RemoveAt(eBlocked, k)
                                     /\ Desconectar(eBlocked[k])
    BY <1>2 DEF AQuitarCaido, QuitarCaido, Caidos
  <2>2. UNCHANGED <<eReady, plan, asig, hs>>
    BY <1>2 DEF AQuitarCaido
  <2>. QED BY <2>1, <2>2, Expulsado
<1>3. CASE AOtorgar
  <2>1. PICK e \in Entrenadores : e = Head(eBlocked)
    BY <1>3, Cabeza DEF AOtorgar
  <2>2. /\ UNCHANGED <<eReady, plan, hs>> /\ eBlocked' = Tail(eBlocked) /\ eBlocked # <<>>
        /\ asig.ent = Ninguno /\ asig'.ent = e /\ EnviarATodos({e}, "Ruta")
        /\ tiene' = [tiene EXCEPT ![e][obj[e]] = @ + 1]
    BY <1>3, <2>1 DEF AOtorgar, Enviar
  <2>3. Vivos' = Vivos /\ \A t \in Entrenadores : sock[t] = "libre" => sock'[t] = "libre"
    BY <2>2, EnviadoVivos
  <2>4. /\ EnBlocked(e) /\ UnLugar(e) /\ IsInjective(eBlocked')
        /\ ToSet(eBlocked') = ToSet(eBlocked) \ {e}
    BY <2>1, <2>2, Descabezado DEF EnBlocked, DInv
  <2>5. hs[e] \in {"postear", "fin"}
    BY <2>4, Ubicado
  <2>6. ASSUME NEW u \in Entrenadores \ {e}
        PROVE  Queda(u)
    BY <2>2, <2>3, <2>4, SupuestoMapa DEF Queda, EnReady, EnBlocked, Llegando
  <2>7. UnLugar(e)'
    <3>1. ~EnBlocked(e)' /\ (Llegando(e)' <=> Llegando(e)) /\ (EnReady(e)' <=> EnReady(e))
      BY <2>2, <2>4 DEF EnReady, EnBlocked, Llegando
    <3>. QED BY <2>2, <2>3, <2>4, <3>1 DEF UnLugar
  <2>8. ASSUME NEW u \in Entrenadores
        PROVE  NoJuega(u)
    <3>1. u # e => tiene'[u] = tiene[u]
      BY <2>2 DEF TDatos
    <3>2. hs[u] = "no" => sock'[u] = sock[u]
      BY <2>2, <2>3 DEF DInv, ConHilo
    <3>. QED BY <2>2, <2>5, <3>1, <3>2 DEF NoJuega
  <2>9. IsInjective(eReady')
    BY <2>2 DEF DInv
  <2>. QED BY <2>4, <2>6, <2>7, <2>8, <2>9, Mudanza
<1>4. CASE ARotar
  <2>1. /\ UNCHANGED <<eReady, plan, hs, tiene, sock>> /\ asig'.ent = asig.ent
        /\ eBlocked' = Append(Tail(eBlocked), Head(eBlocked)) /\ eBlocked # <<>>
    BY <1>4 DEF ARotar, datos, red
  <2>2. Vivos' = Vivos
    BY <2>1 DEF Vivos
  <2>3. /\ Tail(eBlocked) \in Seq(Entrenadores) /\ Head(eBlocked) \in Entrenadores
        /\ Head(eBlocked) \in ToSet(eBlocked) /\ IsInjective(Tail(eBlocked))
        /\ ToSet(Tail(eBlocked)) = ToSet(eBlocked) \ {Head(eBlocked)}
    BY <2>1, Descabezado DEF DInv
  <2>4. IsInjective(eBlocked') /\ ToSet(eBlocked') = ToSet(eBlocked)
    <3>1. /\ IsInjective(eBlocked')
          /\ ToSet(eBlocked') = ToSet(Tail(eBlocked)) \cup {Head(eBlocked)}
      <4>. DEFINE r == Tail(eBlocked)
                  e == Head(eBlocked)
      <4>1. r \in Seq(Entrenadores) /\ e \in Entrenadores /\ IsInjective(r) /\ e \notin ToSet(r)
        BY <2>3
      <4>2. eBlocked' = Append(r, e)
        BY <2>1
      <4>. HIDE DEF r, e
      <4>3. IsInjective(Append(r, e)) /\ ToSet(Append(r, e)) = ToSet(r) \cup {e}
        BY <4>1, Agregado
      <4>. QED BY <4>2, <4>3 DEF r, e
    <3>. QED BY <2>3, <3>1
  <2>5. ASSUME NEW u \in Entrenadores
        PROVE  Queda(u) /\ NoJuega(u)
    BY <2>1, <2>2, <2>4 DEF Queda, NoJuega, EnReady, EnBlocked, Llegando
  <2>6. ASSUME NEW u \in Entrenadores
        PROVE  UnLugar(u)'
    BY <2>5 DEF UnLugar, Queda, DInv
  <2>7. ConHilo' /\ SinJugar'
    BY <2>5 DEF DInv, ConHilo, SinJugar, NoJuega
  <2>. QED BY <2>1, <2>4, <2>6, <2>7 DEF DInv
<1>5. CASE AAgregar
  <2>1. /\ UNCHANGED <<eBlocked, plan, hs, tiene, sock>> /\ asig'.ent = Ninguno
        /\ asig.ent \in Entrenadores /\ eReady' = Append(eReady, asig.ent)
    BY <1>5 DEF AAgregar, datos, red
  <2>2. Vivos' = Vivos
    BY <2>1 DEF Vivos
  <2>3. PICK e \in Entrenadores : e = asig.ent
    BY <2>1
  <2>4. UnLugar(e) /\ ~EnReady(e)
    BY <2>3 DEF DInv, UnLugar
  <2>5. IsInjective(eReady') /\ ToSet(eReady') = ToSet(eReady) \cup {e}
    BY <2>1, <2>3, <2>4, Agregado DEF DInv, EnReady
  <2>6. ASSUME NEW u \in Entrenadores \ {e}
        PROVE  Queda(u)
    BY <2>1, <2>2, <2>3, <2>5, SupuestoMapa DEF Queda, EnReady, EnBlocked, Llegando
  <2>7. UnLugar(e)'
    <3>1. EnReady(e)' /\ (Llegando(e)' <=> Llegando(e)) /\ (EnBlocked(e)' <=> EnBlocked(e))
      BY <2>1, <2>5 DEF EnReady, EnBlocked, Llegando
    <3>2. asig'.ent # e
      BY <2>1, SupuestoMapa
    <3>. QED BY <2>1, <2>2, <2>3, <2>4, <3>1, <3>2 DEF UnLugar
  <2>8. \A u \in Entrenadores : NoJuega(u)
    BY <2>1 DEF NoJuega
  <2>9. IsInjective(eBlocked')
    BY <2>1 DEF DInv
  <2>. QED BY <2>5, <2>6, <2>7, <2>8, <2>9, Mudanza
<1>. QED BY <1>1, <1>2, <1>3, <1>4, <1>5 DEF Asignador

LEMMA DueniosDeadlock ==
  ASSUME TypeOK, DInv, Deadlock
  PROVE  DInv'
<1>. USE DEF TypeOK, TListas, Dlk
<1>1. UNCHANGED <<eReady, plan, asig, hs>>
  BY DEF Deadlock, DTomar, DQuitarCaido, DDetectados, DAnalizar, DDecidir, DCombate,
         DMatar, DFin, listas
<1>2. CASE DTomar \/ DDetectados \/ DAnalizar \/ DDecidir \/ DCombate \/ DFin
  <2>1. UNCHANGED <<eBlocked, tiene>> /\ (sock' = sock \/ \E T, m : EnviarATodos(T, m))
    BY <1>2 DEF DTomar, DDetectados, DAnalizar, DDecidir, DCombate, DFin, Duelo, Avisar,
                listas, datos, red, Enviar
  <2>2. Vivos' = Vivos /\ \A t \in Entrenadores : sock[t] = "libre" => sock'[t] = "libre"
    <3>1. CASE sock' = sock
      BY <3>1 DEF Vivos
    <3>. QED BY <2>1, <3>1, EnviadoVivos
  <2>. QED BY <1>1, <2>1, <2>2, Quieto
<1>3. CASE DQuitarCaido
  <2>1. PICK k \in DOMAIN eBlocked : /\ eBlocked' = RemoveAt(eBlocked, k)
                                     /\ Desconectar(eBlocked[k])
    BY <1>3 DEF DQuitarCaido, QuitarCaido, Caidos
  <2>. QED BY <1>1, <2>1, Expulsado
<1>4. CASE DMatar
  <2>1. CASE UNCHANGED <<eBlocked, tiene, sock>>
    <3>1. Vivos' = Vivos
      BY <2>1 DEF Vivos
    <3>. QED BY <1>1, <2>1, <3>1, Quieto
  <2>2. ASSUME NEW k \in DOMAIN eBlocked, eBlocked' = RemoveAt(eBlocked, k),
               Desconectar(eBlocked[k])
        PROVE  DInv'
    BY <1>1, <2>2, Expulsado
  <2>3. \/ UNCHANGED <<eBlocked, tiene, sock>>
        \/ \E k \in DOMAIN eBlocked : /\ eBlocked' = RemoveAt(eBlocked, k)
                                      /\ Desconectar(eBlocked[k])
    BY <1>4 DEF DMatar
  <2>. QED BY <2>1, <2>2, <2>3
<1>. QED BY <1>2, <1>3, <1>4 DEF Deadlock

LEMMA DueniosResto ==
  ASSUME TypeOK, SinHilo, DInv,
         \/ \E t \in Entrenadores : Conectar(t) \/ Cliente(t) \/ Abandonar(t)
         \/ Recargar \/ UNCHANGED vars
  PROVE  DInv'
<1>. USE DEF TypeOK, TListas, TRed, THilos
<1>1. ASSUME NEW t \in Entrenadores, Conectar(t)
      PROVE  DInv'
  <2>1. /\ UNCHANGED <<eReady, eBlocked, plan, asig, tiene>> /\ sock[t] = "libre"
        /\ hs' = [hs EXCEPT ![t] = "bienvenida"] /\ sock' = [sock EXCEPT ![t] = "abierto"]
    BY <1>1 DEF Conectar, listas, datos
  <2>2. hs[t] = "no" /\ t \notin Vivos /\ Vivos' = Vivos \cup {t}
    BY <2>1 DEF SinHilo, Vivos
  <2>3. ASSUME NEW u \in Entrenadores \ {t}
        PROVE  Queda(u)
    BY <2>1, <2>2 DEF Queda, EnReady, EnBlocked, Llegando
  <2>4. UnLugar(t)'
    <3>1. UnLugar(t) /\ Llegando(t)'
      BY <2>1 DEF DInv, Llegando
    <3>. QED BY <2>1, <2>2, <3>1 DEF UnLugar, EnReady, EnBlocked
  <2>5. \A u \in Entrenadores : NoJuega(u)
    BY <2>1, <2>2 DEF NoJuega
  <2>6. IsInjective(eReady') /\ IsInjective(eBlocked')
    BY <2>1 DEF DInv
  <2>. QED BY <2>3, <2>4, <2>5, <2>6, Mudanza
<1>2. ASSUME NEW t \in Entrenadores, Cliente(t) \/ Abandonar(t)
      PROVE  DInv'
  <2>1. UNCHANGED <<eReady, eBlocked, plan, asig, hs, tiene>>
    BY <1>2 DEF Cliente, CBienvenida, CCoordenadas, CMover, CCaptura, CAviso, CSalir,
                Desfasarse, Toma, Abandonar, listas, hilos, datos
  <2>2. sock' = sock \/ Irse(t)
    BY <1>2 DEF Cliente, CBienvenida, CCoordenadas, CMover, CCaptura, CAviso, CSalir,
                Desfasarse, PedirProximo, Avanzar, Abandonar
  <2>3. Vivos' = Vivos /\ \A u \in Entrenadores : sock[u] = "libre" => sock'[u] = "libre"
    BY <2>2 DEF Vivos, Irse
  <2>. QED BY <2>1, <2>3, Quieto
<1>3. CASE Recargar \/ UNCHANGED vars
  <2>1. UNCHANGED <<eReady, eBlocked, plan, asig, hs, tiene, sock>>
    BY <1>3 DEF Recargar, listas, hilos, datos, red, vars
  <2>2. Vivos' = Vivos
    BY <2>1 DEF Vivos
  <2>. QED BY <2>1, <2>2, Quieto
<1>. QED BY <1>1, <1>2, <1>3

LEMMA DueniosInicial ==
  ASSUME Init
  PROVE  DInv
<1>1. /\ eReady = <<>> /\ eBlocked = <<>> /\ plan.ent = Ninguno /\ asig.ent = Ninguno
      /\ \A t \in Entrenadores : hs[t] = "no" /\ sock[t] = "libre" /\ tiene[t] = Nada
  BY DEF Init
<1>2. IsInjective(<<>>) /\ ToSet(<<>>) = {}
  BY DEF IsInjective, ToSet
<1>3. ASSUME NEW t \in Entrenadores
      PROVE  UnLugar(t)
  BY <1>1, <1>2, SupuestoMapa DEF UnLugar, EnReady, EnBlocked, Llegando, Vivos
<1>. QED BY <1>1, <1>2, <1>3 DEF DInv, ConHilo, SinJugar

LEMMA DueniosPaso ==
  ASSUME TypeOK, SinHilo, DInv, [Next]_vars
  PROVE  DInv'
BY DueniosHandshake, DueniosPlanificador, DueniosAsignador, DueniosDeadlock, DueniosResto
   DEF Next

\* Wherever the threads stop, each trainer the map knows is in one list, once, or in the
\* hand of one thread, and has pokemon only after its handshake (agregarReady,
\* agregarBlocked, list_remove in the planner and in asignador, desconectarEntrenador).
THEOREM CadaUnoEnSuLugar == Spec => []DInv
<1>1. Init => DInv
  BY DueniosInicial
<1>2. IInv /\ DInv /\ [Next]_vars => DInv'
  BY DueniosPaso DEF IInv
<1>. QED BY <1>1, <1>2, Invariante, PTL DEF Spec

\* How many times a list without repetition has somebody.
LEMMA Aparece ==
  ASSUME NEW s \in Seq(Entrenadores), IsInjective(s), NEW t
  PROVE  Cardinality({i \in DOMAIN s : s[i] = t}) = Hay(t \in ToSet(s))
<1>. DEFINE I == {i \in DOMAIN s : s[i] = t}
<1>1. CASE t \notin ToSet(s)
  <2>1. I = {}
    BY <1>1 DEF ToSet
  <2>. QED BY <1>1, <2>1, FS_EmptySet DEF Hay
<1>2. CASE t \in ToSet(s)
  <2>1. PICK k \in DOMAIN s : s[k] = t
    BY <1>2 DEF ToSet
  <2>2. I = {k}
    BY <2>1 DEF IsInjective
  <2>3. Cardinality({k}) = 1
    BY FS_Singleton
  <2>. QED BY <1>2, <2>2, <2>3 DEF Hay
<1>. QED BY <1>1, <1>2

\* Each tEntrenador has one owner and a freed one has none, whatever the order in which
\* the handshakes, the planner, asignador and the deadlock thread pass it on
\* (agregarReady, agregarBlocked, list_remove, desconectarEntrenador).
THEOREM UnSoloDuenioSiempre == Spec => []UnSoloDuenio
<1>1. TypeOK /\ DInv => UnSoloDuenio
  <2>. SUFFICES ASSUME TypeOK, DInv, NEW t \in Entrenadores
                PROVE  Apariciones(t) = Hay(t \in Vivos)
    BY DEF UnSoloDuenio
  <2>1. /\ Cardinality({i \in DOMAIN eReady : eReady[i] = t}) = Hay(EnReady(t))
        /\ Cardinality({i \in DOMAIN eBlocked : eBlocked[i] = t}) = Hay(EnBlocked(t))
    BY Aparece DEF TypeOK, TListas, DInv, EnReady, EnBlocked
  <2>2. UnLugar(t)
    BY DEF DInv
  <2>. QED BY <2>1, <2>2 DEF Apariciones, UnLugar, Hay, Llegando
<1>2. IInv => TypeOK
  BY DEF IInv
<1>. QED BY <1>1, <1>2, Invariante, CadaUnoEnSuLugar, PTL

-----------------------------------------------------------------------------
(* The map implements Recursos. *)

\* What the map shows of itself.
Pide == [t \in Entrenadores |-> IF t \in ToSet(eBlocked) THEN obj[t] ELSE Ninguno]
Juega == {t \in Vivos : hs[t] \notin {"bienvenida", "recibir"}
                        /\ ~(plan.pc = "devolver" /\ plan.ent = t)}

\* A step of Recursos, or none.
Paso == Asignacion!Next \/ UNCHANGED Asignacion!vars

LEMMA PasoQuieto ==
  ASSUME UNCHANGED <<libres, tiene>>, Pide' = Pide, Juega' = Juega
  PROVE  Paso
BY DEF Paso, Asignacion!vars, Pide, Juega

LEMMA PasoEntrar ==
  ASSUME NEW t \in Entrenadores, t \notin Juega, tiene[t] = Nada, Juega' = Juega \cup {t},
         UNCHANGED <<libres, tiene>>, Pide' = Pide
  PROVE  Paso
<1>1. Asignacion!Entrar(t)
  BY DEF Asignacion!Entrar, Pide, Juega, Nada
<1>. QED BY <1>1 DEF Paso, Asignacion!Next

LEMMA PasoPedir ==
  ASSUME NEW t \in Entrenadores, NEW n \in PokeNests, t \in Juega, Pide[t] = Ninguno,
         Pide' = [Pide EXCEPT ![t] = n], UNCHANGED <<libres, tiene>>, Juega' = Juega
  PROVE  Paso
<1>1. Asignacion!Pedir(t, n)
  BY DEF Asignacion!Pedir, Pide, Juega
<1>. QED BY <1>1 DEF Paso, Asignacion!Next

LEMMA PasoOtorgar ==
  ASSUME NEW t \in Entrenadores, t \in Juega, Pide[t] # Ninguno, libres[Pide[t]] > 0,
         libres' = [libres EXCEPT ![Pide[t]] = @ - 1],
         tiene' = [tiene EXCEPT ![t][Pide[t]] = @ + 1],
         Pide' = [Pide EXCEPT ![t] = Ninguno], Juega' = Juega
  PROVE  Paso
<1>1. Asignacion!Otorgar(t)
  BY DEF Asignacion!Otorgar, Pide, Juega
<1>. QED BY <1>1 DEF Paso, Asignacion!Next

LEMMA PasoSalir ==
  ASSUME NEW t \in Entrenadores, t \in Juega, Juega' = Juega \ {t},
         Pide' = [Pide EXCEPT ![t] = Ninguno], tiene' = [tiene EXCEPT ![t] = Nada],
         libres' = [n \in PokeNests |-> libres[n] + tiene[t][n]]
  PROVE  Paso
<1>1. Asignacion!Salir(t)
  BY DEF Asignacion!Salir, Pide, Juega, Nada
<1>. QED BY <1>1 DEF Paso, Asignacion!Next

LEMMA PasoDejar ==
  ASSUME NEW t \in Entrenadores, t \in Juega, Pide[t] = Ninguno, Juega' = Juega \ {t},
         UNCHANGED <<libres, tiene>>, Pide' = Pide
  PROVE  Paso
<1>1. Asignacion!DejarDeJugar(t)
  BY DEF Asignacion!DejarDeJugar, Pide, Juega
<1>. QED BY <1>1 DEF Paso, Asignacion!Next

LEMMA PasoDevolver ==
  ASSUME NEW t \in Entrenadores, NEW n \in PokeNests, t \notin Juega, tiene[t][n] > 0,
         tiene' = [tiene EXCEPT ![t][n] = @ - 1], libres' = [libres EXCEPT ![n] = @ + 1],
         Pide' = Pide, Juega' = Juega
  PROVE  Paso
<1>1. Asignacion!Devolver(t, n)
  BY DEF Asignacion!Devolver, Pide, Juega
<1>. QED BY <1>1 DEF Paso, Asignacion!Next

\* The usual step that Recursos does not see.
LEMMA SinNovedad ==
  ASSUME ToSet(eBlocked') = ToSet(eBlocked), UNCHANGED <<libres, tiene, hs>>,
         Vivos' = Vivos, \A t \in ToSet(eBlocked) : obj'[t] = obj[t],
         plan.pc # "devolver", plan'.pc # "devolver"
  PROVE  Paso
<1>1. Pide' = Pide
  BY DEF Pide
<1>2. Juega' = Juega
  BY DEF Juega
<1>. QED BY <1>1, <1>2, PasoQuieto

\* The same for the steps of the other threads, whatever the planner is doing.
LEMMA SinNovedadAjena ==
  ASSUME ToSet(eBlocked') = ToSet(eBlocked), UNCHANGED <<libres, tiene, hs, obj, plan>>,
         Vivos' = Vivos
  PROVE  Paso
<1>1. Pide' = Pide
  BY DEF Pide
<1>2. Juega' = Juega
  BY DEF Juega
<1>. QED BY <1>1, <1>2, PasoQuieto

\* A trainer of eBlocked plays.
LEMMA EsperaJugando ==
  ASSUME TypeOK, DInv, NEW t \in Entrenadores, EnBlocked(t)
  PROVE  t \in Juega /\ Pide[t] = obj[t] /\ plan.ent # t
<1>1. t \in Vivos /\ hs[t] \in {"postear", "fin"}
  BY Ubicado
<1>2. plan.ent # t
  BY DEF DInv, UnLugar
<1>. QED BY <1>1, <1>2 DEF Juega, Pide, EnBlocked

\* Who holds mutexBlocked makes a trainer that waits leave.
LEMMA PasoExpulsado ==
  ASSUME TypeOK, DInv, NEW k \in DOMAIN eBlocked, eBlocked' = RemoveAt(eBlocked, k),
         Desconectar(eBlocked[k]), UNCHANGED <<plan, hs, obj>>
  PROVE  Paso
<1>. USE DEF TypeOK, TListas
<1>1. PICK e \in Entrenadores : e = eBlocked[k]
  OBVIOUS
<1>2. EnBlocked(e)
  BY <1>1 DEF EnBlocked, ToSet
<1>3. e \in Juega /\ plan.ent # e /\ e \in Vivos
  BY <1>2, EsperaJugando DEF Juega
<1>4. Vivos' = Vivos \ {e}
  BY <1>1, <1>3, DesconectadoVivos
<1>5. ToSet(eBlocked') = ToSet(eBlocked) \ {e}
  BY <1>1, Sacado DEF DInv
<1>6. Juega' = Juega \ {e}
  BY <1>3, <1>4 DEF Juega
<1>7. Pide' = [Pide EXCEPT ![e] = Ninguno]
  BY <1>5 DEF Pide
<1>8. /\ tiene' = [tiene EXCEPT ![e] = Nada]
      /\ libres' = [n \in PokeNests |-> libres[n] + tiene[e][n]]
  BY <1>1 DEF Desconectar
<1>. QED BY <1>3, <1>6, <1>7, <1>8, PasoSalir

LEMMA PasoHandshake ==
  ASSUME TypeOK, DInv, NEW t \in Entrenadores, Handshake(t)
  PROVE  Paso
<1>. USE DEF TypeOK, THilos, TRed, Hs
<1>1. CASE HBienvenida(t)
  <2>1. /\ UNCHANGED <<eBlocked, plan, tiene, libres, obj>>
        /\ hs[t] = "bienvenida" /\ hs' = [hs EXCEPT ![t] = "recibir"]
        /\ EnviarATodos({t}, "Bienvenida")
    BY <1>1 DEF HBienvenida, listas, datos, Enviar
  <2>2. Vivos' = Vivos
    BY <2>1, EnviadoVivos
  <2>3. Pide' = Pide /\ Juega' = Juega
    BY <2>1, <2>2 DEF Pide, Juega
  <2>. QED BY <2>1, <2>3, PasoQuieto
<1>2. CASE HRecibir(t)
  <2>1. /\ UNCHANGED <<eBlocked, plan, tiene, libres, obj, sock>>
        /\ hs[t] = "recibir" /\ hs' = [hs EXCEPT ![t] = "postear"]
    BY <1>2 DEF HRecibir, datos
  <2>2. t \in Vivos /\ plan.ent # t /\ tiene[t] = Nada
    BY <2>1 DEF DInv, UnLugar, Llegando, SinJugar
  <2>3. Vivos' = Vivos
    BY <2>1 DEF Vivos
  <2>4. Pide' = Pide
    BY <2>1 DEF Pide
  <2>5. t \notin Juega /\ Juega' = Juega \cup {t}
    BY <2>1, <2>2, <2>3 DEF Juega
  <2>. QED BY <2>1, <2>2, <2>4, <2>5, PasoEntrar
<1>3. CASE HDesconexion(t)
  <2>1. /\ UNCHANGED <<eBlocked, plan, tiene, libres, obj>>
        /\ hs[t] = "recibir" /\ hs' = [hs EXCEPT ![t] = "fin"]
        /\ sock' = [sock EXCEPT ![t] = "cerrado"]
    BY <1>3 DEF HDesconexion, listas, datos
  <2>2. Vivos' = Vivos \ {t}
    BY <2>1 DEF Vivos
  <2>3. Pide' = Pide /\ Juega' = Juega
    BY <2>1, <2>2 DEF Pide, Juega
  <2>. QED BY <2>1, <2>3, PasoQuieto
<1>4. CASE HPostear(t)
  <2>1. /\ UNCHANGED <<eBlocked, plan, tiene, libres, obj, sock>>
        /\ hs[t] = "postear" /\ hs' = [hs EXCEPT ![t] = "fin"]
    BY <1>4 DEF HPostear, listas, datos, red
  <2>2. Vivos' = Vivos
    BY <2>1 DEF Vivos
  <2>3. Pide' = Pide /\ Juega' = Juega
    BY <2>1, <2>2 DEF Pide, Juega
  <2>. QED BY <2>1, <2>3, PasoQuieto
<1>. QED BY <1>1, <1>2, <1>3, <1>4 DEF Handshake

\* The planner starts disconnecting the trainer it has in hand.
LEMMA PasoDespedida ==
  ASSUME TypeOK, DInv, NEW t \in Entrenadores, plan.ent = t, plan.pc # "devolver",
         plan'.pc = "devolver", plan'.ent = t, Vivos' = Vivos,
         UNCHANGED <<eBlocked, hs, tiene, libres, obj>>
  PROVE  Paso
<1>1. t \in Vivos /\ hs[t] \in {"postear", "fin"} /\ ~EnBlocked(t)
  BY Ubicado DEF DInv, UnLugar
<1>2. Pide' = Pide /\ Pide[t] = Ninguno
  BY <1>1 DEF Pide, EnBlocked
<1>3. t \in Juega /\ Juega' = Juega \ {t}
  BY <1>1 DEF Juega
<1>. QED BY <1>2, <1>3, PasoDejar

LEMMA PasoPlanificador ==
  ASSUME TypeOK, DInv, Planificador
  PROVE  Paso
<1>. USE DEF TypeOK, TPlan, Plan
<1>1. ASSUME NEW t \in Entrenadores, PCoordenadas(t)
      PROVE  Paso
  <2>1. /\ UNCHANGED <<eBlocked, hs, tiene, libres>> /\ plan.ent = t
        /\ EnviarATodos({t}, "Coord") /\ \A u \in Entrenadores : u # t => obj'[u] = obj[u]
        /\ plan.pc # "devolver" /\ plan'.pc # "devolver"
    BY <1>1 DEF PCoordenadas, Recibe, Enviar, TDatos
  <2>2. t \notin ToSet(eBlocked)
    BY <2>1 DEF DInv, UnLugar, EnBlocked
  <2>3. \A u \in ToSet(eBlocked) : u \in Entrenadores
    BY DEF ToSet, TListas
  <2>. QED BY <2>1, <2>2, <2>3, EnviadoVivos, SinNovedad
<1>2. ASSUME NEW t \in Entrenadores, PDesconexion(t) \/ PNoExiste(t) \/ PMedalla(t)
      PROVE  Paso
  <2>1. /\ UNCHANGED <<eBlocked, hs, tiene, libres, obj>> /\ plan.ent = t /\ plan.pc # "devolver"
        /\ plan'.pc = "devolver" /\ plan'.ent = t
        /\ sock' = sock \/ \E m : EnviarATodos({t}, m)
    BY <1>2 DEF PDesconexion, PNoExiste, PMedalla, Recibe, listas, datos, red, Enviar
  <2>2. Vivos' = Vivos
    <3>1. CASE sock' = sock
      BY <3>1 DEF Vivos
    <3>. QED BY <2>1, <3>1, EnviadoVivos
  <2>. QED BY <2>1, <2>2, PasoDespedida
<1>3. ASSUME NEW t \in Entrenadores, PMover(t) \/ PCapturar(t)
      PROVE  Paso
  <2>1. /\ UNCHANGED <<eBlocked, hs, tiene, libres, obj>>
        /\ plan.pc # "devolver" /\ plan'.pc # "devolver"
        /\ sock' = sock \/ \E m : EnviarATodos({t}, m)
    BY <1>3 DEF PMover, PCapturar, Recibe, listas, datos, Enviar
  <2>2. Vivos' = Vivos
    <3>1. CASE sock' = sock
      BY <3>1 DEF Vivos
    <3>. QED BY <2>1, <3>1, EnviadoVivos
  <2>. QED BY <2>1, <2>2, SinNovedad
<1>4. CASE PEsperar \/ PSacar \/ PFinQuantum \/ PPostReady \/ PPostBlocked
  <2>1. /\ UNCHANGED <<eBlocked, hs, tiene, libres, obj, sock>>
        /\ plan.pc # "devolver" /\ plan'.pc # "devolver"
    <3>1. CASE PSacar
      <4>1. UNCHANGED <<eBlocked, hs, tiene, libres, obj, sock>> /\ plan.pc = "sacar"
        BY <3>1 DEF PSacar, datos, red
      <4>2. plan' = plan \/ \E e : plan' = [plan EXCEPT !.pc = "atender", !.ent = e]
        BY <3>1 DEF PSacar
      <4>. QED BY <4>1, <4>2
    <3>2. CASE PEsperar
      BY <3>2 DEF PEsperar, listas, datos, red
    <3>3. CASE PFinQuantum \/ PPostReady \/ PPostBlocked
      <4>1. UNCHANGED <<eBlocked, hs, tiene, libres, obj, sock>>
        BY <3>3 DEF PFinQuantum, PPostReady, PPostBlocked, listas, datos, red
      <4>2. /\ plan.pc # "devolver"
            /\ \/ plan' = [plan EXCEPT !.pc = "postReady", !.ent = Ninguno]
               \/ plan' = [plan EXCEPT !.pc = "esperar"]
        BY <3>3 DEF PFinQuantum, PPostReady, PPostBlocked
      <4>. QED BY <4>1, <4>2
    <3>. QED BY <1>4, <3>1, <3>2, <3>3
  <2>2. Vivos' = Vivos
    BY <2>1 DEF Vivos
  <2>. QED BY <2>1, <2>2, SinNovedad
<1>5. CASE PBloquear
  <2>1. /\ UNCHANGED <<hs, tiene, libres, obj, sock>> /\ plan'.ent = Ninguno
        /\ plan.pc # "devolver" /\ plan'.pc # "devolver"
        /\ plan.ent \in Entrenadores /\ eBlocked' = Append(eBlocked, plan.ent)
    BY <1>5 DEF PBloquear, datos, red
  <2>2. Vivos' = Vivos
    BY <2>1 DEF Vivos
  <2>3. PICK e \in Entrenadores : e = plan.ent
    BY <2>1
  <2>4. e \in Vivos /\ hs[e] \in {"postear", "fin"} /\ ~EnBlocked(e)
    BY <2>3, Ubicado DEF DInv, UnLugar
  <2>5. ToSet(eBlocked') = ToSet(eBlocked) \cup {e}
    BY <2>1, <2>3, Agregado DEF TListas
  <2>6. Juega' = Juega /\ e \in Juega
    BY <2>1, <2>2, <2>4 DEF Juega
  <2>7. Pide' = [Pide EXCEPT ![e] = obj[e]] /\ Pide[e] = Ninguno
    BY <2>1, <2>4, <2>5 DEF Pide, EnBlocked
  <2>8. CASE obj[e] \in PokeNests
    BY <2>1, <2>6, <2>7, <2>8, PasoPedir
  <2>9. CASE obj[e] = Ninguno
    <3>1. Pide' = Pide
      BY <2>7, <2>9 DEF Pide
    <3>. QED BY <2>1, <2>6, <3>1, PasoQuieto
  <2>. QED BY <2>8, <2>9 DEF TDatos
<1>6. CASE PDevolver
  <2>1. /\ UNCHANGED <<eBlocked, plan, hs, sock, obj>> /\ plan.pc = "devolver"
        /\ plan.ent \in Entrenadores
    BY <1>6 DEF PDevolver, listas, hilos, red
  <2>2. PICK n \in PokeNests :
          /\ tiene[plan.ent][n] > 0
          /\ tiene' = [tiene EXCEPT ![plan.ent][n] = @ - 1]
          /\ libres' = [libres EXCEPT ![n] = @ + 1]
    BY <1>6 DEF PDevolver
  <2>3. Vivos' = Vivos
    BY <2>1 DEF Vivos
  <2>4. Pide' = Pide /\ Juega' = Juega /\ plan.ent \notin Juega
    BY <2>1, <2>3 DEF Pide, Juega
  <2>. QED BY <2>1, <2>2, <2>4, PasoDevolver
<1>7. CASE PLiberar
  <2>1. /\ UNCHANGED <<eBlocked, hs, tiene, libres, obj>> /\ plan'.pc # "devolver"
        /\ plan.pc = "devolver" /\ sock' = [sock EXCEPT ![plan.ent] = "cerrado"]
        /\ plan.ent \in Entrenadores
    BY <1>7 DEF PLiberar, listas, datos
  <2>2. Vivos' = Vivos \ {plan.ent}
    BY <2>1 DEF Vivos, TRed
  <2>3. Pide' = Pide /\ Juega' = Juega
    BY <2>1, <2>2 DEF Pide, Juega
  <2>. QED BY <2>1, <2>3, PasoQuieto
<1>. QED BY <1>1, <1>2, <1>3, <1>4, <1>5, <1>6, <1>7 DEF Planificador, Atender

LEMMA PasoAsignador ==
  ASSUME TypeOK, DInv, Asignador
  PROVE  Paso
<1>. USE DEF TypeOK, TListas, TAsig, Asig
<1>1. CASE AEsperar \/ ATomar \/ ADetectados \/ AVacia \/ APostear \/ AAgregar
  <2>1. UNCHANGED <<eBlocked, plan, hs, tiene, libres, obj, sock>>
    BY <1>1 DEF AEsperar, ATomar, ADetectados, AVacia, APostear, AAgregar, listas, datos, red
  <2>2. Vivos' = Vivos
    BY <2>1 DEF Vivos
  <2>. QED BY <2>1, <2>2, SinNovedadAjena
<1>2. CASE AQuitarCaido
  <2>1. PICK k \in DOMAIN eBlocked : /\ eBlocked' = RemoveAt(eBlocked, k)
                                     /\ Desconectar(eBlocked[k])
    BY <1>2 DEF AQuitarCaido, QuitarCaido, Caidos
  <2>2. UNCHANGED <<plan, hs, obj>>
    BY <1>2 DEF AQuitarCaido
  <2>. QED BY <2>1, <2>2, PasoExpulsado
<1>3. CASE AOtorgar
  <2>1. PICK e \in Entrenadores : e = Head(eBlocked)
    BY <1>3, Cabeza DEF AOtorgar
  <2>2. /\ UNCHANGED <<plan, hs>> /\ eBlocked' = Tail(eBlocked) /\ eBlocked # <<>>
        /\ EnviarATodos({e}, "Ruta") /\ libres[obj[e]] > 0
        /\ libres' = [libres EXCEPT ![obj[e]] = @ - 1]
        /\ tiene' = [tiene EXCEPT ![e][obj[e]] = @ + 1]
        /\ obj' = [obj EXCEPT ![e] = Ninguno]
    BY <1>3, <2>1 DEF AOtorgar, Enviar
  <2>3. Vivos' = Vivos
    BY <2>2, EnviadoVivos
  <2>4. EnBlocked(e) /\ ToSet(eBlocked') = ToSet(eBlocked) \ {e}
    BY <2>1, <2>2, Descabezado DEF EnBlocked, DInv
  <2>5. e \in Juega /\ Pide[e] = obj[e]
    BY <2>4, EsperaJugando
  <2>6. Juega' = Juega
    BY <2>2, <2>3 DEF Juega
  <2>7. Pide' = [Pide EXCEPT ![e] = Ninguno]
    BY <2>2, <2>4 DEF Pide, TDatos
  <2>8. CASE obj[e] # Ninguno
    BY <2>2, <2>5, <2>6, <2>7, <2>8, PasoOtorgar
  <2>9. CASE obj[e] = Ninguno
    <3>1. libres' = libres /\ tiene' = tiene
      BY <2>2, <2>9, SupuestoMapa DEF TDatos
    <3>2. Pide' = Pide
      BY <2>5, <2>7, <2>9 DEF Pide
    <3>. QED BY <2>6, <3>1, <3>2, PasoQuieto
  <2>. QED BY <2>8, <2>9
<1>4. CASE ARotar
  <2>1. /\ UNCHANGED <<plan, hs, tiene, libres, obj, sock>>
        /\ eBlocked' = Append(Tail(eBlocked), Head(eBlocked)) /\ eBlocked # <<>>
    BY <1>4 DEF ARotar, datos, red
  <2>2. Vivos' = Vivos
    BY <2>1 DEF Vivos
  <2>3. /\ Tail(eBlocked) \in Seq(Entrenadores) /\ Head(eBlocked) \in Entrenadores
        /\ Head(eBlocked) \in ToSet(eBlocked)
        /\ ToSet(Tail(eBlocked)) = ToSet(eBlocked) \ {Head(eBlocked)}
    BY <2>1, Descabezado DEF DInv
  <2>4. ToSet(eBlocked') = ToSet(Tail(eBlocked)) \cup {Head(eBlocked)}
    <3>. DEFINE r == Tail(eBlocked)
                e == Head(eBlocked)
    <3>1. r \in Seq(Entrenadores) /\ e \in Entrenadores /\ eBlocked' = Append(r, e)
      BY <2>1, <2>3
    <3>. HIDE DEF r, e
    <3>2. ToSet(Append(r, e)) = ToSet(r) \cup {e}
      BY <3>1, Agregado
    <3>. QED BY <3>1, <3>2 DEF r, e
  <2>5. ToSet(eBlocked') = ToSet(eBlocked)
    BY <2>3, <2>4
  <2>. QED BY <2>1, <2>2, <2>5, SinNovedadAjena
<1>. QED BY <1>1, <1>2, <1>3, <1>4 DEF Asignador

LEMMA PasoDeadlock ==
  ASSUME TypeOK, DInv, Deadlock
  PROVE  Paso
<1>1. UNCHANGED <<plan, hs, obj>>
  BY DEF Deadlock, DTomar, DQuitarCaido, DDetectados, DAnalizar, DDecidir, DCombate,
         DMatar, DFin, datos
<1>2. CASE DTomar \/ DDetectados \/ DAnalizar \/ DDecidir \/ DCombate \/ DFin
  <2>1. UNCHANGED <<eBlocked, tiene, libres>> /\ (sock' = sock \/ \E T, m : EnviarATodos(T, m))
    BY <1>2 DEF DTomar, DDetectados, DAnalizar, DDecidir, DCombate, DFin, Duelo, Avisar,
                listas, datos, red, Enviar
  <2>2. Vivos' = Vivos
    <3>1. CASE sock' = sock
      BY <3>1 DEF Vivos
    <3>. QED BY <2>1, <3>1, EnviadoVivos
  <2>. QED BY <1>1, <2>1, <2>2, SinNovedadAjena
<1>3. CASE DQuitarCaido \/ DMatar
  <2>1. CASE UNCHANGED <<eBlocked, tiene, libres, sock>>
    <3>1. Vivos' = Vivos
      BY <2>1 DEF Vivos
    <3>. QED BY <1>1, <2>1, <3>1, SinNovedadAjena
  <2>2. \/ UNCHANGED <<eBlocked, tiene, libres, sock>>
        \/ \E k \in DOMAIN eBlocked : /\ eBlocked' = RemoveAt(eBlocked, k)
                                      /\ Desconectar(eBlocked[k])
    BY <1>3 DEF DMatar, DQuitarCaido, QuitarCaido, Caidos
  <2>. QED BY <1>1, <2>1, <2>2, PasoExpulsado
<1>. QED BY <1>2, <1>3 DEF Deadlock

LEMMA PasoResto ==
  ASSUME TypeOK, SinHilo, DInv,
         \/ \E t \in Entrenadores : Conectar(t) \/ Cliente(t) \/ Abandonar(t)
         \/ Recargar \/ UNCHANGED vars
  PROVE  Paso
<1>1. ASSUME NEW t \in Entrenadores, Conectar(t)
      PROVE  Paso
  <2>1. /\ UNCHANGED <<eBlocked, plan, tiene, libres, obj>> /\ sock[t] = "libre"
        /\ hs' = [hs EXCEPT ![t] = "bienvenida"] /\ sock' = [sock EXCEPT ![t] = "abierto"]
    BY <1>1 DEF Conectar, listas, datos
  <2>2. t \notin Vivos /\ Vivos' = Vivos \cup {t}
    BY <2>1 DEF Vivos, TypeOK, TRed
  <2>3. Pide' = Pide /\ Juega' = Juega
    BY <2>1, <2>2 DEF Pide, Juega, TypeOK, THilos
  <2>. QED BY <2>1, <2>3, PasoQuieto
<1>2. ASSUME NEW t \in Entrenadores, Cliente(t) \/ Abandonar(t)
      PROVE  Paso
  <2>1. UNCHANGED <<eBlocked, plan, hs, tiene, libres, obj>>
    BY <1>2 DEF Cliente, CBienvenida, CCoordenadas, CMover, CCaptura, CAviso, CSalir,
                Desfasarse, Toma, Abandonar, listas, hilos, datos
  <2>2. sock' = sock \/ Irse(t)
    BY <1>2 DEF Cliente, CBienvenida, CCoordenadas, CMover, CCaptura, CAviso, CSalir,
                Desfasarse, PedirProximo, Avanzar, Abandonar
  <2>3. Vivos' = Vivos
    BY <2>2 DEF Vivos, Irse, TypeOK, TRed
  <2>. QED BY <2>1, <2>3, SinNovedadAjena
<1>3. CASE Recargar \/ UNCHANGED vars
  <2>1. UNCHANGED <<eBlocked, plan, hs, tiene, libres, obj, sock>>
    BY <1>3 DEF Recargar, listas, hilos, datos, red, vars
  <2>2. Vivos' = Vivos
    BY <2>1 DEF Vivos
  <2>. QED BY <2>1, <2>2, SinNovedadAjena
<1>. QED BY <1>1, <1>2, <1>3

\* The map hands out its pokemon as Recursos says, for any number of trainers and nests:
\* a trainer gets one only from a nest that has some and while it waits for it, keeps
\* what it got until it leaves, and then all of it goes back (asignador,
\* devolverPokemons, desconectarEntrenador, detectarDesconectados, batallaPokemon).
THEOREM ImplementaRecursos == Spec => AsignaBien
<1>1. Init => Asignacion!Init
  <2>. SUFFICES ASSUME Init
                PROVE  Asignacion!Init
    OBVIOUS
  <2>1. Pide = [t \in Entrenadores |-> Ninguno] /\ Juega = {}
    BY DEF Init, Pide, Juega, Vivos, ToSet
  <2>. QED BY <2>1 DEF Init, Nada, Pide, Juega, Asignacion!Init
<1>2. IInv /\ DInv /\ [Next]_vars => [Asignacion!Next]_(Asignacion!vars)
  <2>1. IInv /\ DInv /\ [Next]_vars => Paso
    BY PasoHandshake, PasoPlanificador, PasoAsignador, PasoDeadlock, PasoResto
       DEF Next, IInv
  <2>. QED BY <2>1 DEF Paso
<1>. QED BY <1>1, <1>2, Invariante, CadaUnoEnSuLugar, PTL DEF Spec, AsignaBien, Asignacion!Spec
=============================================================================
