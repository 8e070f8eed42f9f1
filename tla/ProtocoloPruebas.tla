-------------------------- MODULE ProtocoloPruebas --------------------------
(***************************************************************************)
(* Proofs about what the map and each trainer say to each other in Mapa,   *)
(* for any number of trainers, nests and pokemon: who has the turn, where  *)
(* each one has the trainer, and what has been given to it.                *)
(***************************************************************************)
EXTENDS MapaPruebas, Induccion

\* No reply proper is on its way; or r is the only one.
SinPosta(s) == \A i \in DOMAIN s : s[i] \in Avisos
Posta(s, r) ==
  /\ r \notin Avisos
  /\ \E i \in DOMAIN s : s[i] = r /\ \A j \in DOMAIN s : j # i => s[j] \in Avisos

\* The request of t that the map has not read: the last thing in pedido.
Habla(t) == pedido[t] # <<>>
Ultimo(t) == pedido[t][Len(pedido[t])]

\* The objective the trainer is after.
Meta(t) == Objetivos[t][cumplidos[t] + 1]

\* The map keeps it waiting for a pokemon, or is throwing it out.
Bloqueado(t) == EnBlocked(t) \/ (plan.pc = "bloquear" /\ plan.ent = t)
Devuelto(t) == plan.pc = "devolver" /\ plan.ent = t

\* The socket and its two ends.
Conexion(t) ==
  /\ cli[t] = "fuera" <=> sock[t] = "libre"
  /\ sock[t] = "abierto" => cli[t] # "fin"
  /\ sock[t] \in {"finCliente", "roto"} => cli[t] = "fin"
  /\ sock[t] = "libre" => resp[t] = <<>> /\ cumplidos[t] = 0

\* One request at a time; the first comes with the symbol of the trainer.
Solicitud(t) ==
  \/ ~Habla(t)
  \/ Len(pedido[t]) = 1 /\ Ultimo(t).op # "Id" /\ hs[t] \in {"postear", "fin"}
  \/ Len(pedido[t]) = 2 /\ pedido[t][1].op = "Id" /\ Ultimo(t).op \in {"C", "O"} /\ hs[t] = "recibir"

\* The move that the map has still to make.
Movida(t) ==
  IF ~Habla(t) THEN 0
  ELSE IF Ultimo(t).op = "MR" THEN 1 ELSE IF Ultimo(t).op = "ML" THEN -1 ELSE 0

\* Where it is, for the map and for itself.
Lugar(t) ==
  /\ x[t] = pos[t] + Movida(t)
  /\ Bloqueado(t) => ~Habla(t)
  /\ Bloqueado(t) \/ (Habla(t) /\ Ultimo(t).op = "G") => obj[t] \in PokeNests /\ x[t] = Posicion[obj[t]]

\* Whose turn it is.
Pidiendo(t) ==
  /\ Habla(t) /\ sock[t] = "abierto" /\ SinPosta(resp[t])
  /\ \/ cli[t] = "coord" /\ Ultimo(t) = Msj("C", Meta(t))
     \/ cli[t] = "mover" /\ Ultimo(t).op \in {"MR", "ML"} /\ obj[t] = Meta(t)
     \/ cli[t] = "capturar" /\ Ultimo(t).op = "G"
     \/ cli[t] = "medalla" /\ Ultimo(t).op = "O"
Esperando(t) ==
  /\ ~Habla(t) /\ sock[t] = "abierto" /\ SinPosta(resp[t])
  /\ \/ cli[t] = "bienvenida" /\ hs[t] = "bienvenida"
     \/ cli[t] = "capturar" /\ Bloqueado(t)
Despedidas == {"N", "K", "Medalla"}
Contestado(t) ==
  /\ ~Habla(t) /\ ~Bloqueado(t)
  /\ \E r \in Esperadas[cli[t]] :
       /\ Posta(resp[t], r)
       /\ r \notin Despedidas => sock[t] = "abierto" /\ ~Devuelto(t)
       /\ r \in {"Coord", "OK"} => obj[t] = Meta(t)
       /\ hs[t] \in IF r = "Bienvenida" THEN {"recibir"} ELSE {"postear", "fin"}
Charla(t) ==
  /\ cli[t] \in DOMAIN Esperadas => Pidiendo(t) \/ Esperando(t) \/ Contestado(t)
  /\ Devuelto(t) => ~Habla(t)

Conv(t) == Conexion(t) /\ Solicitud(t) /\ Lugar(t) /\ Charla(t)
PInv == \A t \in Entrenadores : Conv(t)

-----------------------------------------------------------------------------
(* Replies that come and go. *)

\* One more at the end.
LEMMA LlegaRespuesta ==
  ASSUME NEW V, NEW s \in Seq(V), NEW m \in V
  PROVE  /\ Append(s, m) # <<>>
         /\ m \in Avisos => /\ SinPosta(s) => SinPosta(Append(s, m))
                            /\ \A r : Posta(s, r) => Posta(Append(s, m), r)
         /\ m \notin Avisos /\ SinPosta(s) => Posta(Append(s, m), m)
<1>. DEFINE u == Append(s, m)
<1>1. /\ DOMAIN s = 1..Len(s) /\ DOMAIN u = 1..Len(s) + 1 /\ Len(s) \in Nat
      /\ \A i \in 1..Len(s) : u[i] = s[i]
      /\ u[Len(s) + 1] = m /\ u # <<>>
  OBVIOUS
<1>. HIDE DEF u
<1>2. ASSUME m \in Avisos, SinPosta(s)
      PROVE  SinPosta(u)
  BY <1>1, <1>2 DEF SinPosta
<1>3. ASSUME m \in Avisos, NEW r, Posta(s, r)
      PROVE  Posta(u, r)
  BY <1>1, <1>3 DEF Posta
<1>4. ASSUME m \notin Avisos, SinPosta(s)
      PROVE  Posta(u, m)
  BY <1>1, <1>4 DEF Posta, SinPosta
<1>. QED BY <1>1, <1>2, <1>3, <1>4 DEF u

\* The first one is read.
LEMMA LeeRespuesta ==
  ASSUME NEW V, NEW s \in Seq(V), s # <<>>
  PROVE  /\ Head(s) \in Avisos => /\ SinPosta(s) => SinPosta(Tail(s))
                                  /\ \A r : Posta(s, r) => Posta(Tail(s), r)
         /\ Head(s) \notin Avisos => /\ ~SinPosta(s)
                                     /\ \A r : Posta(s, r) => r = Head(s) /\ SinPosta(Tail(s))
<1>. DEFINE u == Tail(s)
<1>1. /\ DOMAIN s = 1..Len(s) /\ DOMAIN u = 1..Len(s) - 1 /\ Len(s) \in Nat \ {0}
      /\ \A i \in 1..Len(s) - 1 : u[i] = s[i + 1]
      /\ Head(s) = s[1]
  OBVIOUS
<1>. HIDE DEF u
<1>2. \A i \in DOMAIN u : i + 1 \in DOMAIN s /\ i + 1 # 1 /\ u[i] = s[i + 1]
  BY <1>1
<1>3. \A i \in DOMAIN s : i # 1 => i - 1 \in DOMAIN u /\ u[i - 1] = s[i]
  <2>1. ASSUME NEW i \in DOMAIN s, i # 1
        PROVE  i - 1 \in DOMAIN u /\ u[i - 1] = s[i]
    <3>1. i - 1 \in 1..Len(s) - 1 /\ (i - 1) + 1 = i
      BY <1>1, <2>1
    <3>. QED BY <1>1, <3>1
  <2>. QED BY <2>1
<1>4. ASSUME SinPosta(s)
      PROVE  SinPosta(u) /\ Head(s) \in Avisos
  BY <1>1, <1>2, <1>4 DEF SinPosta
<1>5. ASSUME Head(s) \in Avisos, NEW r, Posta(s, r)
      PROVE  Posta(u, r)
  <2>1. PICK i \in DOMAIN s : s[i] = r /\ \A j \in DOMAIN s : j # i => s[j] \in Avisos
    BY <1>5 DEF Posta
  <2>2. i # 1
    BY <1>1, <1>5, <2>1 DEF Posta
  <2>3. i - 1 \in DOMAIN u /\ u[i - 1] = r
    BY <1>3, <2>1, <2>2
  <2>4. ASSUME NEW j \in DOMAIN u, j # i - 1
        PROVE  u[j] \in Avisos
    <3>1. j + 1 \in DOMAIN s /\ j + 1 # i /\ u[j] = s[j + 1]
      BY <1>1, <1>2, <2>1, <2>4
    <3>. QED BY <2>1, <3>1
  <2>. QED BY <1>5, <2>3, <2>4 DEF Posta
<1>6. ASSUME Head(s) \notin Avisos, NEW r, Posta(s, r)
      PROVE  r = Head(s) /\ SinPosta(u)
  <2>1. PICK i \in DOMAIN s : s[i] = r /\ \A j \in DOMAIN s : j # i => s[j] \in Avisos
    BY <1>6 DEF Posta
  <2>2. i = 1
    BY <1>1, <1>6, <2>1
  <2>. QED BY <1>1, <1>2, <2>1, <2>2 DEF SinPosta
<1>. QED BY <1>4, <1>5, <1>6 DEF u

\* The rest of a sequence of one element, and of one of two.
LEMMA Resto ==
  ASSUME NEW V, NEW s \in Seq(V), s # <<>>
  PROVE  /\ Head(s) = s[1]
         /\ Len(s) = 1 => Tail(s) = <<>>
         /\ Len(s) = 2 => Tail(s) # <<>> /\ Len(Tail(s)) = 1 /\ Tail(s)[1] = s[2]
<1>1. /\ Head(s) = s[1] /\ Tail(s) \in Seq(V) /\ Len(Tail(s)) = Len(s) - 1 /\ Len(s) \in Nat
      /\ \A i \in 1..Len(s) - 1 : Tail(s)[i] = s[i + 1]
  OBVIOUS
<1>. DEFINE u == Tail(s)
<1>2. u \in Seq(V) /\ Len(u) = Len(s) - 1 /\ \A i \in 1..Len(s) - 1 : u[i] = s[i + 1]
  BY <1>1
<1>. HIDE DEF u
<1>3. Len(s) = 1 => Len(u) = 0 /\ u = <<>>
  BY <1>1, <1>2
<1>4. ASSUME Len(s) = 2
      PROVE  u # <<>> /\ Len(u) = 1 /\ u[1] = s[2]
  <2>1. Len(u) = 1 /\ 1 \in 1..Len(s) - 1
    BY <1>2, <1>4
  <2>2. u[1] = s[1 + 1]
    BY <1>2, <2>1
  <2>3. u # <<>>
    BY <2>1
  <2>. QED BY <2>1, <2>2, <2>3
<1>. QED BY <1>1, <1>3, <1>4 DEF u

\* The first request is read.
LEMMA LeePedido ==
  ASSUME TRed, NEW t \in Entrenadores, pedido[t] # <<>>, pedido'[t] = Tail(pedido[t])
  PROVE  /\ Len(pedido[t]) = 1 => Ultimo(t) = Head(pedido[t]) /\ ~Habla(t)'
         /\ Len(pedido[t]) = 2 => Habla(t)' /\ Ultimo(t)' = Ultimo(t) /\ Len(pedido'[t]) = 1
                                  /\ Head(pedido[t]) = pedido[t][1]
<1>1. pedido[t] \in Seq(Pedidos)
  BY DEF TRed
<1>. QED BY <1>1, Resto DEF Ultimo, Habla

-----------------------------------------------------------------------------
(* What a step does to the conversation of one trainer. *)

\* Nothing that matters.
Igual(t) ==
  /\ cli'[t] = cli[t] /\ sock'[t] = sock[t] /\ resp'[t] = resp[t] /\ pedido'[t] = pedido[t]
  /\ hs'[t] = hs[t] \/ (hs[t] = "postear" /\ hs'[t] = "fin")
  /\ obj'[t] = obj[t] /\ pos'[t] = pos[t] /\ x'[t] = x[t] /\ cumplidos'[t] = cumplidos[t]
  /\ Bloqueado(t)' <=> Bloqueado(t)
  /\ Devuelto(t)' => Devuelto(t)

LEMMA Igualado ==
  ASSUME NEW t \in Entrenadores, Conv(t), Igual(t)
  PROVE  Conv(t)'
<1>. USE DEF Igual
<1>1. /\ (Habla(t)' <=> Habla(t)) /\ Ultimo(t)' = Ultimo(t) /\ Movida(t)' = Movida(t)
      /\ Meta(t)' = Meta(t)
  BY DEF Habla, Ultimo, Movida, Meta
<1>2. Conexion(t)' /\ Solicitud(t)' /\ Lugar(t)'
  BY <1>1 DEF Conv, Conexion, Solicitud, Lugar
<1>3. Charla(t)'
  <2>1. CASE Pidiendo(t)
    <3>1. Pidiendo(t)'
      BY <1>1, <2>1 DEF Pidiendo
    <3>. QED BY <1>1, <2>1, <3>1 DEF Charla, Conv
  <2>2. CASE Esperando(t)
    <3>1. Esperando(t)'
      BY <1>1, <2>2 DEF Esperando
    <3>. QED BY <1>1, <2>2, <3>1 DEF Charla, Conv
  <2>3. CASE Contestado(t)
    <3>1. Contestado(t)'
      BY <1>1, <2>3 DEF Contestado
    <3>. QED BY <1>1, <2>3, <3>1 DEF Charla, Conv
  <2>4. CASE cli[t] \notin DOMAIN Esperadas
    BY <1>1, <2>4 DEF Charla, Conv
  <2>. QED BY <2>1, <2>2, <2>3, <2>4 DEF Charla, Conv
<1>. QED BY <1>2, <1>3 DEF Conv

\* A step of a thread with the trainer e in hand says nothing of the others.
LEMMA Ajeno ==
  ASSUME NEW e, plan.ent \in {e, Ninguno}, plan'.ent \in {e, Ninguno}, UNCHANGED eBlocked,
         NEW t \in Entrenadores, t # e
  PROVE  (Bloqueado(t)' <=> Bloqueado(t)) /\ (Devuelto(t)' <=> Devuelto(t))
BY SupuestoMapa DEF Bloqueado, Devuelto, EnBlocked

\* Sending.
LEMMA EnviadoConv ==
  ASSUME TypeOK, NEW e \in Entrenadores, NEW m \in Respuestas, Enviar(e, m)
  PROVE  /\ sock[e] = "abierto" => resp'[e] = Append(resp[e], m) /\ sock'[e] = "abierto"
         /\ sock[e] # "abierto" => /\ resp'[e] = resp[e]
                                   /\ sock'[e] = IF sock[e] = "finCliente" THEN "roto" ELSE sock[e]
         /\ \A t \in Entrenadores \ {e} : sock'[t] = sock[t] /\ resp'[t] = resp[t]
BY DEF Enviar, EnviarATodos, TypeOK, TRed

\* An aviso to any of them.
LEMMA Avisado ==
  ASSUME TypeOK, NEW T, NEW m \in Avisos, EnviarATodos(T, m), NEW t \in Entrenadores, Conv(t),
         UNCHANGED <<cli, pedido, hs, obj, pos, x, cumplidos>>,
         Bloqueado(t)' <=> Bloqueado(t), Devuelto(t)' <=> Devuelto(t)
  PROVE  Conv(t)'
<1>1. CASE resp'[t] = resp[t] /\ sock'[t] = sock[t]
  BY <1>1, Igualado DEF Igual
<1>2. CASE resp'[t] = resp[t] /\ sock[t] = "finCliente" /\ sock'[t] = "roto"
  <2>1. /\ (Habla(t)' <=> Habla(t)) /\ Ultimo(t)' = Ultimo(t) /\ Movida(t)' = Movida(t)
    BY DEF Habla, Ultimo, Movida
  <2>2. cli[t] = "fin"
    BY <1>2 DEF Conv, Conexion
  <2>. QED BY <1>2, <2>1, <2>2, Estaciones DEF Conv, Conexion, Solicitud, Lugar, Charla
<1>3. CASE resp'[t] = Append(resp[t], m) /\ sock[t] = "abierto" /\ sock'[t] = sock[t]
  <2>1. /\ (Habla(t)' <=> Habla(t)) /\ Ultimo(t)' = Ultimo(t) /\ Movida(t)' = Movida(t)
        /\ Meta(t)' = Meta(t)
    BY DEF Habla, Ultimo, Movida, Meta
  <2>2. Conexion(t)' /\ Solicitud(t)' /\ Lugar(t)'
    BY <1>3, <2>1 DEF Conv, Conexion, Solicitud, Lugar
  <2>3. /\ SinPosta(resp[t]) => SinPosta(resp'[t])
        /\ \A r : Posta(resp[t], r) => Posta(resp'[t], r)
    <3>1. resp[t] \in Seq(Respuestas) /\ m \in Respuestas
      BY DEF TypeOK, TRed, Avisos, Respuestas
    <3>. QED BY <1>3, <3>1, LlegaRespuesta
  <2>4. Charla(t)'
    <3>1. Pidiendo(t) => Pidiendo(t)'
      BY <1>3, <2>1, <2>3 DEF Pidiendo
    <3>2. Esperando(t) => Esperando(t)'
      BY <1>3, <2>1, <2>3 DEF Esperando
    <3>3. Contestado(t) => Contestado(t)'
      BY <1>3, <2>1, <2>3 DEF Contestado
    <3>. QED BY <2>1, <3>1, <3>2, <3>3 DEF Conv, Charla
  <2>. QED BY <2>2, <2>4 DEF Conv
<1>. QED BY <1>1, <1>2, <1>3 DEF EnviarATodos, TypeOK, TRed

\* The reply that the trainer e was waiting for.
LEMMA Respondido ==
  ASSUME TypeOK, NEW e \in Entrenadores, Conv(e), NEW m \in Respuestas \ Avisos, Enviar(e, m),
         UNCHANGED <<cli, x, cumplidos>>, ~Habla(e)', ~Bloqueado(e)', pos'[e] = x[e],
         sock[e] # "libre",
         cli[e] \in DOMAIN Esperadas =>
           /\ sock[e] = "abierto" /\ SinPosta(resp[e]) /\ m \in Esperadas[cli[e]]
           /\ m \notin Despedidas => ~Devuelto(e)'
           /\ m \in {"Coord", "OK"} => obj'[e] = Meta(e)
           /\ hs'[e] \in IF m = "Bienvenida" THEN {"recibir"} ELSE {"postear", "fin"}
  PROVE  Conv(e)'
<1>1. /\ sock[e] = "abierto" => resp'[e] = Append(resp[e], m) /\ sock'[e] = "abierto"
      /\ sock[e] # "abierto" => sock'[e] = IF sock[e] = "finCliente" THEN "roto" ELSE sock[e]
  BY EnviadoConv
<1>2. Conexion(e)'
  BY <1>1 DEF Conv, Conexion
<1>3. Solicitud(e)' /\ Lugar(e)'
  <2>1. Movida(e)' = 0 /\ x'[e] = pos'[e]
    BY DEF Movida
  <2>2. pos'[e] \in Int
    BY DEF TypeOK, TCliente
  <2>. QED BY <2>1, <2>2 DEF Solicitud, Lugar
<1>4. Charla(e)'
  <2>1. CASE cli[e] \in DOMAIN Esperadas
    <3>1. resp[e] \in Seq(Respuestas) /\ resp'[e] = Append(resp[e], m) /\ sock'[e] = "abierto"
      BY <1>1, <2>1 DEF TypeOK, TRed
    <3>2. Posta(resp'[e], m)
      BY <2>1, <3>1, LlegaRespuesta
    <3>3. Meta(e)' = Meta(e)
      BY DEF Meta
    <3>4. Contestado(e)'
      BY <2>1, <3>1, <3>2, <3>3 DEF Contestado
    <3>. QED BY <3>4 DEF Charla
  <2>2. CASE cli[e] \notin DOMAIN Esperadas
    BY <2>2 DEF Charla
  <2>. QED BY <2>1, <2>2
<1>. QED BY <1>2, <1>3, <1>4 DEF Conv

\* A step that only the trainer e notices.
LEMMA Solo ==
  ASSUME PInv, NEW e \in Entrenadores, \A t \in Entrenadores \ {e} : Igual(t), Conv(e)'
  PROVE  PInv'
<1>1. ASSUME NEW t \in Entrenadores \ {e}
      PROVE  Conv(t)'
  BY <1>1, Igualado DEF PInv
<1>. QED BY <1>1 DEF PInv

\* A step that nobody notices.
LEMMA Nadie ==
  ASSUME PInv, \A t \in Entrenadores : Igual(t)
  PROVE  PInv'
BY Igualado DEF PInv

-----------------------------------------------------------------------------
(* The handshake threads. *)

LEMMA ProtocoloHandshake ==
  ASSUME TypeOK, DInv, PInv, NEW e \in Entrenadores, Handshake(e)
  PROVE  PInv'
<1>. USE DEF TypeOK, THilos, TRed, Hs
<1>0. Conv(e)
  BY DEF PInv
<1>1. CASE HBienvenida(e)
  <2>1. /\ UNCHANGED <<eBlocked, plan, pedido, cli, x, cumplidos, obj, pos>>
        /\ hs[e] = "bienvenida" /\ hs' = [hs EXCEPT ![e] = "recibir"] /\ Enviar(e, "Bienvenida")
    BY <1>1 DEF HBienvenida, cliente, listas, datos
  <2>2. /\ e \in Vivos /\ ~EnBlocked(e) /\ plan.ent # e
    BY <2>1 DEF DInv, UnLugar, Llegando
  <2>3. ~Habla(e) /\ ~Bloqueado(e) /\ ~Devuelto(e)
    BY <1>0, <2>1, <2>2 DEF Conv, Solicitud, Bloqueado, Devuelto
  <2>4. pos[e] = x[e]
    BY <1>0, <2>3 DEF Conv, Lugar, Movida, TDatos
  <2>5. sock[e] # "libre"
    BY <2>2 DEF Vivos
  <2>6. cli[e] \in DOMAIN Esperadas => Esperando(e)
    BY <1>0, <2>1, <2>3, Estaciones DEF Conv, Charla, Pidiendo, Contestado
  <2>7. cli[e] \in DOMAIN Esperadas => cli[e] = "bienvenida"
    BY <2>3, <2>6 DEF Esperando
  <2>8. Conv(e)'
    <3>1. ~Habla(e)' /\ ~Bloqueado(e)' /\ hs'[e] = "recibir"
      BY <2>1, <2>3 DEF Habla, Bloqueado, EnBlocked
    <3>2. "Bienvenida" \in Respuestas \ Avisos /\ "Bienvenida" \in Esperadas["bienvenida"]
      BY DEF Respuestas, Avisos, Esperadas
    <3>3. "Bienvenida" \notin Despedidas => ~Devuelto(e)'
      BY <2>1, <2>3 DEF Devuelto
    <3>. QED BY <1>0, <2>1, <2>4, <2>5, <2>6, <2>7, <3>1, <3>2, <3>3, Respondido DEF Esperando
  <2>9. ASSUME NEW t \in Entrenadores \ {e}
        PROVE  Igual(t)
    BY <2>1, EnviadoConv DEF Igual, Bloqueado, EnBlocked, Devuelto, Enviar, EnviarATodos
  <2>. QED BY <2>8, <2>9, Solo
<1>2. CASE HRecibir(e)
  <2>1. /\ UNCHANGED <<eBlocked, plan, cli, x, cumplidos, obj, pos, sock, resp>>
        /\ hs[e] = "recibir" /\ hs' = [hs EXCEPT ![e] = "postear"]
        /\ pedido[e] # <<>> /\ pedido' = [pedido EXCEPT ![e] = Tail(@)]
    BY <1>2 DEF HRecibir, cliente, datos
  <2>2. /\ hs'[e] = "postear" /\ pedido'[e] = Tail(pedido[e]) /\ Habla(e)
        /\ Len(pedido[e]) = 2 /\ Ultimo(e).op \in {"C", "O"}
    BY <1>0, <2>1 DEF Conv, Solicitud, Habla
  <2>3. Habla(e)' /\ Ultimo(e)' = Ultimo(e) /\ Len(pedido'[e]) = 1
    BY <2>1, <2>2, LeePedido
  <2>4. Movida(e)' = Movida(e) /\ Meta(e)' = Meta(e) /\ (Bloqueado(e)' <=> Bloqueado(e))
        /\ (Devuelto(e)' <=> Devuelto(e))
    BY <2>1, <2>2, <2>3 DEF Movida, Meta, Bloqueado, EnBlocked, Devuelto
  <2>5. Solicitud(e)'
    BY <2>2, <2>3 DEF Solicitud
  <2>6. Conexion(e)' /\ Lugar(e)'
    BY <1>0, <2>1, <2>2, <2>3, <2>4 DEF Conv, Conexion, Lugar
  <2>7. Charla(e)'
    <3>1. Pidiendo(e) => Pidiendo(e)'
      BY <2>1, <2>3, <2>4 DEF Pidiendo
    <3>2. ~Esperando(e) /\ ~Contestado(e)
      BY <2>2 DEF Esperando, Contestado
    <3>. QED BY <1>0, <2>1, <2>2, <2>4, <3>1, <3>2 DEF Charla, Conv
  <2>8. Conv(e)'
    BY <2>5, <2>6, <2>7 DEF Conv
  <2>9. ASSUME NEW t \in Entrenadores \ {e}
        PROVE  Igual(t)
    BY <2>1 DEF Igual, Bloqueado, EnBlocked, Devuelto
  <2>. QED BY <2>8, <2>9, Solo
<1>3. CASE HDesconexion(e)
  <2>1. /\ UNCHANGED <<eBlocked, plan, cli, x, cumplidos, obj, pos, pedido, resp>>
        /\ hs[e] = "recibir" /\ hs' = [hs EXCEPT ![e] = "fin"]
        /\ pedido[e] = <<>> /\ sock[e] \in {"finCliente", "roto"}
        /\ sock' = [sock EXCEPT ![e] = "cerrado"]
    BY <1>3 DEF HDesconexion, Cerrado, cliente, listas, datos
  <2>2. cli[e] = "fin" /\ ~Habla(e) /\ ~Habla(e)' /\ sock'[e] = "cerrado"
    BY <1>0, <2>1 DEF Conv, Conexion, Habla
  <2>3. Conv(e)'
    <3>1. Conexion(e)'
      BY <1>0, <2>1, <2>2 DEF Conv, Conexion
    <3>2. Solicitud(e)' /\ Charla(e)'
      BY <2>1, <2>2, Estaciones DEF Solicitud, Charla
    <3>3. Lugar(e)'
      BY <1>0, <2>1, <2>2 DEF Conv, Lugar, Movida, Bloqueado, EnBlocked
    <3>. QED BY <3>1, <3>2, <3>3 DEF Conv
  <2>4. ASSUME NEW t \in Entrenadores \ {e}
        PROVE  Igual(t)
    BY <2>1 DEF Igual, Bloqueado, EnBlocked, Devuelto
  <2>. QED BY <2>3, <2>4, Solo
<1>4. CASE HPostear(e)
  <2>1. ASSUME NEW t \in Entrenadores
        PROVE  Igual(t)
    BY <1>4 DEF HPostear, Igual, Bloqueado, EnBlocked, Devuelto, listas, datos, red, cliente
  <2>. QED BY <2>1, Nadie
<1>. QED BY <1>1, <1>2, <1>3, <1>4 DEF Handshake

-----------------------------------------------------------------------------
(* The planner. *)

\* The planner reads the only request of the trainer in hand, which waits for the reply
\* if it has not left.
LEMMA Recibido ==
  ASSUME TypeOK, DInv, NEW e \in Entrenadores, Conv(e), NEW op, Recibe(e, op)
  PROVE  /\ Ultimo(e) = Head(pedido[e]) /\ Ultimo(e).op = op /\ Habla(e) /\ ~Habla(e)'
         /\ ~Bloqueado(e) /\ ~Devuelto(e) /\ ~EnBlocked(e) /\ plan.pc = "atender" /\ plan.ent = e
         /\ hs[e] \in {"postear", "fin"} /\ sock[e] # "libre"
         /\ cli[e] \in DOMAIN Esperadas => Pidiendo(e)
         /\ \A t \in Entrenadores \ {e} : pedido'[t] = pedido[t]
<1>. USE DEF TypeOK
<1>1. /\ plan.pc = "atender" /\ plan.ent = e /\ pedido[e] # <<>> /\ Head(pedido[e]).op = op
      /\ pedido' = [pedido EXCEPT ![e] = Tail(@)]
  BY DEF Recibe, Plan
<1>2. hs[e] \in {"postear", "fin"} /\ sock[e] # "libre" /\ e \in Vivos
  BY <1>1, Ubicado
<1>3. ~EnBlocked(e)
  BY <1>1 DEF DInv, UnLugar
<1>4. Habla(e) /\ Len(pedido[e]) = 1
  BY <1>1, <1>2 DEF Conv, Solicitud, Habla
<1>5. Ultimo(e) = Head(pedido[e]) /\ ~Habla(e)' /\ pedido'[e] = Tail(pedido[e])
  <2>1. pedido'[e] = Tail(pedido[e])
    BY <1>1 DEF TRed
  <2>. QED BY <1>1, <1>4, <2>1, LeePedido
<1>6. cli[e] \in DOMAIN Esperadas => Pidiendo(e)
  BY <1>4 DEF Conv, Charla, Esperando, Contestado
<1>7. \A t \in Entrenadores \ {e} : pedido'[t] = pedido[t]
  BY <1>1 DEF TRed
<1>. QED BY <1>1, <1>2, <1>3, <1>4, <1>5, <1>6, <1>7 DEF Bloqueado, Devuelto

LEMMA ProtocoloAtender ==
  ASSUME TypeOK, DInv, PInv, NEW e \in Entrenadores, Atender(e)
  PROVE  PInv'
<1>. USE DEF TypeOK
<1>0. Conv(e)
  BY DEF PInv
<1>1. CASE PDesconexion(e)
  <2>1. /\ UNCHANGED <<eBlocked, cli, x, cumplidos, obj, pos, pedido, resp, sock, hs>>
        /\ plan.ent = e /\ plan.pc = "atender" /\ plan' = [plan EXCEPT !.pc = "devolver"]
        /\ pedido[e] = <<>> /\ sock[e] \in {"finCliente", "roto"}
    BY <1>1 DEF PDesconexion, Plan, Cerrado, cliente, listas, datos, red
  <2>2. plan'.ent = e /\ plan'.pc = "devolver" /\ cli[e] = "fin" /\ ~Habla(e) /\ ~Habla(e)'
    BY <1>0, <2>1 DEF Conv, Conexion, Habla, TPlan
  <2>3. Conv(e)'
    <3>1. Conexion(e)'
      BY <1>0, <2>1 DEF Conv, Conexion
    <3>2. Solicitud(e)' /\ Charla(e)'
      BY <2>1, <2>2, Estaciones DEF Solicitud, Charla
    <3>3. Lugar(e)'
      BY <1>0, <2>1, <2>2 DEF Conv, Lugar, Movida, Bloqueado, EnBlocked
    <3>. QED BY <3>1, <3>2, <3>3 DEF Conv
  <2>4. ASSUME NEW t \in Entrenadores \ {e}
        PROVE  Igual(t)
    BY <2>1, <2>2, Ajeno DEF Igual
  <2>. QED BY <2>3, <2>4, Solo
<1>2. ASSUME NEW op, NEW m \in Respuestas \ Avisos, Recibe(e, op), Enviar(e, m),
             UNCHANGED <<eBlocked, hs, cli, x, cumplidos>>,
             plan'.pc # "bloquear", plan'.ent \in {e, Ninguno}, pos'[e] = x[e],
             m \notin Despedidas => plan'.pc # "devolver",
             \A t \in Entrenadores \ {e} : obj'[t] = obj[t] /\ pos'[t] = pos[t],
             m # "Bienvenida",
             Pidiendo(e) => /\ m \in Esperadas[cli[e]]
                            /\ m \in {"Coord", "OK"} => obj'[e] = Meta(e)
      PROVE  PInv'
  <2>1. /\ ~Habla(e)' /\ ~EnBlocked(e) /\ plan.ent = e /\ hs[e] \in {"postear", "fin"}
        /\ sock[e] # "libre" /\ (cli[e] \in DOMAIN Esperadas => Pidiendo(e))
        /\ \A t \in Entrenadores \ {e} : pedido'[t] = pedido[t]
    BY <1>0, <1>2, Recibido
  <2>2. ~Bloqueado(e)' /\ (m \notin Despedidas => ~Devuelto(e)')
    BY <1>2, <2>1 DEF Bloqueado, EnBlocked, Devuelto
  <2>3. Conv(e)'
    BY <1>0, <1>2, <2>1, <2>2, Respondido DEF Pidiendo
  <2>4. ASSUME NEW t \in Entrenadores \ {e}
        PROVE  Igual(t)
    BY <1>2, <2>1, Ajeno, EnviadoConv, SMTT(60) DEF Igual
  <2>. QED BY <2>3, <2>4, Solo
<1>3. CASE PCoordenadas(e)
  <2>1. /\ UNCHANGED <<eBlocked, hs, cli, x, cumplidos, pos>> /\ Recibe(e, "C") /\ Enviar(e, "Coord")
        /\ obj' = [obj EXCEPT ![e] = Head(pedido[e]).nido] /\ plan.ent = e /\ plan.pc = "atender"
        /\ plan'.pc \in {plan.pc, "postReady"} /\ plan'.ent \in {plan.ent, Ninguno}
    BY <1>3 DEF PCoordenadas, Recibe, Plan, cliente, TPlan
  <2>2. Habla(e) /\ Ultimo(e) = Head(pedido[e]) /\ Ultimo(e).op = "C"
    BY <1>0, <2>1, Recibido
  <2>3. pos[e] = x[e]
    BY <1>0, <2>2 DEF Conv, Lugar, Movida, TDatos
  <2>4. Pidiendo(e) => cli[e] = "coord" /\ Ultimo(e) = Msj("C", Meta(e))
    BY <2>2 DEF Pidiendo
  <2>5. Pidiendo(e) => "Coord" \in Esperadas[cli[e]] /\ obj'[e] = Meta(e)
    BY <2>1, <2>2, <2>4 DEF Msj, Esperadas, TDatos
  <2>6. "Coord" \in Respuestas \ Avisos
    BY DEF Respuestas, Avisos
  <2>7. \A t \in Entrenadores \ {e} : obj'[t] = obj[t]
    BY <2>1 DEF TDatos
  <2>8. plan'.pc # "devolver" /\ plan'.pc # "bloquear" /\ plan'.ent \in {e, Ninguno}
    BY <2>1
  <2>. QED BY <1>2, <2>1, <2>3, <2>5, <2>6, <2>7, <2>8
<1>4. CASE PNoExiste(e)
  <2>1. /\ UNCHANGED <<eBlocked, hs, cli, x, cumplidos, pos, obj>> /\ Recibe(e, "C") /\ Enviar(e, "N")
        /\ plan.ent = e /\ plan' = [plan EXCEPT !.pc = "devolver"]
    BY <1>4 DEF PNoExiste, Recibe, cliente, datos, listas
  <2>2. Habla(e) /\ Ultimo(e).op = "C"
    BY <1>0, <2>1, Recibido
  <2>3. pos[e] = x[e]
    BY <1>0, <2>2 DEF Conv, Lugar, Movida, TDatos
  <2>4. Pidiendo(e) => "N" \in Esperadas[cli[e]]
    BY <2>2 DEF Pidiendo, Esperadas
  <2>5. "N" \in Respuestas \ Avisos /\ "N" \in Despedidas
    BY DEF Respuestas, Avisos, Despedidas
  <2>6. plan'.pc = "devolver" /\ plan'.ent = e
    BY <2>1 DEF TPlan
  <2>. QED BY <1>2, <2>1, <2>3, <2>4, <2>5, <2>6
<1>5. CASE PMover(e)
  <2>1. /\ UNCHANGED <<eBlocked, hs, cli, x, cumplidos, obj>> /\ Enviar(e, "OK")
        /\ plan.ent = e /\ plan.pc = "atender" /\ plan' = [plan EXCEPT !.ql = Resta]
    BY <1>5 DEF PMover, Recibe, Plan, cliente, listas
  <2>2. PICK op \in {"MR", "ML"} :
          /\ Recibe(e, op) /\ pos' = [pos EXCEPT ![e] = IF op = "MR" THEN @ + 1 ELSE @ - 1]
    BY <1>5 DEF PMover
  <2>3. Habla(e) /\ Ultimo(e).op = op
    BY <1>0, <2>2, Recibido
  <2>4. pos'[e] = x[e] /\ \A t \in Entrenadores \ {e} : pos'[t] = pos[t]
    <3>1. x[e] = pos[e] + (IF op = "MR" THEN 1 ELSE -1) /\ pos[e] \in Int
      BY <1>0, <2>3 DEF Conv, Lugar, Movida, TDatos
    <3>. QED BY <2>2, <3>1 DEF TDatos
  <2>5. Pidiendo(e) => "OK" \in Esperadas[cli[e]] /\ obj'[e] = Meta(e)
    BY <2>1, <2>3 DEF Pidiendo, Esperadas, Msj
  <2>6. "OK" \in Respuestas \ Avisos
    BY DEF Respuestas, Avisos
  <2>7. plan'.pc = "atender" /\ plan'.ent = e
    BY <2>1 DEF TPlan
  <2>. QED BY <1>2, <2>1, <2>2, <2>4, <2>5, <2>6, <2>7
<1>6. CASE PCapturar(e)
  <2>1. /\ UNCHANGED <<eBlocked, hs, cli, x, cumplidos, obj, pos, resp, sock>> /\ Recibe(e, "G")
        /\ plan.ent = e /\ plan' = [plan EXCEPT !.pc = "bloquear"]
    BY <1>6 DEF PCapturar, Recibe, cliente, datos, listas
  <2>2. /\ Habla(e) /\ Ultimo(e).op = "G" /\ ~Habla(e)' /\ hs[e] \in {"postear", "fin"}
        /\ (cli[e] \in DOMAIN Esperadas => Pidiendo(e))
        /\ \A t \in Entrenadores \ {e} : pedido'[t] = pedido[t]
    BY <1>0, <2>1, Recibido
  <2>3. plan'.ent = e /\ plan'.pc = "bloquear"
    BY <2>1 DEF TPlan
  <2>4. Conv(e)'
    <3>1. Conexion(e)' /\ Solicitud(e)'
      BY <1>0, <2>1, <2>2 DEF Conv, Conexion, Solicitud
    <3>2. Lugar(e)'
      <4>1. x[e] = pos[e] /\ obj[e] \in PokeNests /\ x[e] = Posicion[obj[e]]
        BY <1>0, <2>2 DEF Conv, Lugar, Movida, TDatos
      <4>2. Movida(e)' = 0 /\ pos'[e] \in Int
        BY <2>1, <2>2 DEF Movida, TDatos
      <4>. QED BY <2>1, <2>2, <4>1, <4>2 DEF Lugar, TDatos
    <3>3. Charla(e)'
      <4>1. ~Devuelto(e)' /\ Bloqueado(e)'
        BY <2>3 DEF Devuelto, Bloqueado
      <4>2. Pidiendo(e) => Esperando(e)'
        BY <2>1, <2>2, <4>1 DEF Pidiendo, Esperando, Msj
      <4>. QED BY <2>1, <2>2, <4>1, <4>2 DEF Charla
    <3>. QED BY <3>1, <3>2, <3>3 DEF Conv
  <2>5. ASSUME NEW t \in Entrenadores \ {e}
        PROVE  Igual(t)
    BY <2>1, <2>2, <2>3, Ajeno DEF Igual
  <2>. QED BY <2>4, <2>5, Solo
<1>7. CASE PMedalla(e)
  <2>1. /\ UNCHANGED <<eBlocked, hs, cli, x, cumplidos, pos, obj>> /\ Recibe(e, "O")
        /\ Enviar(e, "Medalla") /\ plan.ent = e /\ plan' = [plan EXCEPT !.pc = "devolver"]
    BY <1>7 DEF PMedalla, Recibe, cliente, datos, listas
  <2>2. Habla(e) /\ Ultimo(e).op = "O"
    BY <1>0, <2>1, Recibido
  <2>3. pos[e] = x[e]
    BY <1>0, <2>2 DEF Conv, Lugar, Movida, TDatos
  <2>4. Pidiendo(e) => "Medalla" \in Esperadas[cli[e]]
    BY <2>2 DEF Pidiendo, Esperadas, Msj
  <2>5. "Medalla" \in Respuestas \ Avisos /\ "Medalla" \in Despedidas
    BY DEF Respuestas, Avisos, Despedidas
  <2>6. plan'.pc = "devolver" /\ plan'.ent = e
    BY <2>1 DEF TPlan
  <2>. QED BY <1>2, <2>1, <2>3, <2>4, <2>5, <2>6
<1>. QED BY <1>1, <1>3, <1>4, <1>5, <1>6, <1>7 DEF Atender

\* A step that moves no trainer in or out of the waiting ones and says nothing.
LEMMA Callado ==
  ASSUME PInv, UNCHANGED <<hs, cli, sock, resp, pedido, obj, pos, x, cumplidos>>,
         \A t \in Entrenadores : (Bloqueado(t)' <=> Bloqueado(t)) /\ (Devuelto(t)' => Devuelto(t))
  PROVE  PInv'
<1>1. \A t \in Entrenadores : Igual(t)
  BY DEF Igual
<1>. QED BY <1>1, Nadie

\* The planner frees a trainer: it has gone, or it has been told to go.
LEMMA ProtocoloLiberar ==
  ASSUME TypeOK, DInv, PInv, PLiberar
  PROVE  PInv'
<1>. USE DEF TypeOK
<1>0. PICK e \in Entrenadores : e = plan.ent
  BY DEF PLiberar, Plan, TPlan
<1>1. /\ UNCHANGED <<eBlocked, hs, cli, x, cumplidos, obj, pos, pedido, resp>> /\ plan.pc = "devolver"
      /\ plan.ent = e /\ sock' = [sock EXCEPT ![e] = "cerrado"] /\ plan'.ent = Ninguno /\ plan'.pc = "esperar"
  BY <1>0 DEF PLiberar, Plan, TPlan, listas, datos, cliente
<1>3. Conv(e) /\ e \in Vivos /\ hs[e] \in {"postear", "fin"} /\ sock[e] # "libre" /\ ~EnBlocked(e)
      /\ Devuelto(e)
  BY <1>1, Ubicado DEF PInv, DInv, UnLugar, Devuelto
<1>4. /\ ~Habla(e) /\ ~Habla(e)' /\ ~Bloqueado(e) /\ ~Bloqueado(e)' /\ ~Devuelto(e)'
      /\ sock'[e] = "cerrado"
  BY <1>1, <1>3, SupuestoMapa
     DEF Conv, Charla, Habla, Bloqueado, EnBlocked, Devuelto, TRed
<1>5. Conexion(e)' /\ Solicitud(e)' /\ Lugar(e)'
  BY <1>1, <1>3, <1>4 DEF Conv, Conexion, Solicitud, Lugar, Movida
<1>6. Charla(e)'
  <2>1. CASE cli[e] \in DOMAIN Esperadas
    <3>1. Contestado(e)
      BY <1>3, <1>4, <2>1 DEF Conv, Charla, Pidiendo, Esperando
    <3>2. PICK r \in Esperadas[cli[e]] :
            /\ Posta(resp[e], r) /\ r \in Despedidas
            /\ r \in {"Coord", "OK"} => obj[e] = Meta(e)
            /\ hs[e] \in IF r = "Bienvenida" THEN {"recibir"} ELSE {"postear", "fin"}
      BY <1>3, <3>1 DEF Contestado
    <3>3. Meta(e)' = Meta(e)
      BY <1>1 DEF Meta
    <3>4. Contestado(e)'
      BY <1>1, <1>4, <3>2, <3>3 DEF Contestado
    <3>. QED BY <1>4, <3>4 DEF Charla
  <2>2. CASE cli[e] \notin DOMAIN Esperadas
    BY <1>1, <1>4, <2>2 DEF Charla
  <2>. QED BY <2>1, <2>2
<1>7. ASSUME NEW t \in Entrenadores \ {e}
      PROVE  Igual(t)
  <2>1. plan.ent \in {e, Ninguno} /\ plan'.ent \in {e, Ninguno}
    BY <1>1
  <2>2. (Bloqueado(t)' <=> Bloqueado(t)) /\ (Devuelto(t)' <=> Devuelto(t))
    BY <1>1, <2>1, Ajeno
  <2>3. sock'[t] = sock[t]
    BY <1>1 DEF TRed
  <2>. QED BY <1>1, <2>2, <2>3 DEF Igual
<1>. QED BY <1>5, <1>6, <1>7, Solo DEF Conv

LEMMA ProtocoloPlanificador ==
  ASSUME TypeOK, DInv, PInv, Planificador
  PROVE  PInv'
<1>. USE DEF TypeOK
<1>1. CASE PEsperar \/ PFinQuantum \/ PPostReady \/ PPostBlocked
  <2>1. /\ UNCHANGED <<eBlocked, hs, cli, sock, resp, pedido, obj, pos, x, cumplidos>>
        /\ plan.pc \notin {"bloquear", "devolver"}
    BY <1>1 DEF PEsperar, PFinQuantum, PPostReady, PPostBlocked, Plan,
                listas, datos, red, cliente
  <2>2. plan'.pc \in {"sacar", "postReady", "esperar"}
    <3>1. CASE PEsperar
      BY <3>1 DEF PEsperar
    <3>2. CASE PFinQuantum \/ PPostReady \/ PPostBlocked
      BY <3>2 DEF PFinQuantum, PPostReady, PPostBlocked, TPlan
    <3>. QED BY <1>1, <3>1, <3>2
  <2>. QED BY <2>1, <2>2, Callado DEF Bloqueado, EnBlocked, Devuelto
<1>2. CASE PSacar
  <2>1. /\ UNCHANGED <<eBlocked, hs, cli, sock, resp, pedido, obj, pos, x, cumplidos>>
        /\ plan.pc = "sacar" /\ (plan' = plan \/ plan'.pc = "atender")
    BY <1>2 DEF PSacar, Plan, TPlan, datos, red, cliente
  <2>. QED BY <2>1, Callado DEF Bloqueado, EnBlocked, Devuelto
<1>3. CASE PBloquear
  <2>1. /\ UNCHANGED <<hs, cli, sock, resp, pedido, obj, pos, x, cumplidos>>
        /\ plan.pc = "bloquear" /\ plan.ent \in Entrenadores
        /\ eBlocked' = Append(eBlocked, plan.ent) /\ plan'.pc = "postBlocked"
    BY <1>3 DEF PBloquear, Plan, TPlan, datos, red, cliente
  <2>2. ToSet(eBlocked') = ToSet(eBlocked) \cup {plan.ent}
    BY <2>1, Agregado DEF TListas
  <2>. QED BY <2>1, <2>2, Callado DEF Bloqueado, EnBlocked, Devuelto
<1>4. CASE PDevolver
  BY <1>4, Callado DEF PDevolver, Bloqueado, EnBlocked, Devuelto, listas, hilos, red, cliente
<1>. QED BY <1>1, <1>2, <1>3, <1>4, ProtocoloAtender, ProtocoloLiberar DEF Planificador

-----------------------------------------------------------------------------
(* asignador and the deadlock thread. *)

\* desconectarEntrenador, of one in eBlocked, by the other two threads.
LEMMA ProtocoloExpulsado ==
  ASSUME TypeOK, DInv, PInv, NEW k \in DOMAIN eBlocked, eBlocked' = RemoveAt(eBlocked, k),
         NEW e \in Entrenadores, e = eBlocked[k], sock' = [sock EXCEPT ![e] = "cerrado"],
         UNCHANGED <<plan, hs, obj, pos, pedido, cliente>>,
         \A t \in Entrenadores \ {e} : resp'[t] = resp[t],
         cli[e] \in DOMAIN Esperadas =>
           \E r \in Esperadas[cli[e]] \cap Despedidas : Posta(resp'[e], r)
  PROVE  PInv'
<1>. USE DEF TypeOK, TListas, cliente
<1>0. EnBlocked(e)
  BY DEF EnBlocked, ToSet
<1>1. EnBlocked(e) /\ ToSet(eBlocked') = ToSet(eBlocked) \ {e}
  BY <1>0, Sacado DEF DInv
<1>2. Conv(e) /\ plan.ent # e /\ hs[e] \in {"postear", "fin"} /\ sock[e] # "libre"
  BY <1>1, Ubicado DEF PInv, DInv, UnLugar
<1>3. /\ ~Habla(e) /\ ~Habla(e)' /\ ~Bloqueado(e)' /\ ~Devuelto(e) /\ ~Devuelto(e)'
      /\ sock'[e] = "cerrado"
  BY <1>1, <1>2 DEF Conv, Lugar, Bloqueado, EnBlocked, Habla, Devuelto, TRed
<1>4. Conexion(e)' /\ Solicitud(e)' /\ Lugar(e)'
  BY <1>2, <1>3 DEF Conv, Conexion, Solicitud, Lugar, Movida
<1>5. Charla(e)'
  <2>1. CASE cli[e] \in DOMAIN Esperadas
    <3>1. PICK r \in Esperadas[cli[e]] \cap Despedidas : Posta(resp'[e], r)
      BY <2>1
    <3>2. r \notin {"Coord", "OK", "Bienvenida"}
      BY DEF Despedidas
    <3>3. Contestado(e)'
      BY <1>2, <1>3, <3>1, <3>2 DEF Contestado
    <3>. QED BY <1>3, <3>3 DEF Charla
  <2>2. CASE cli[e] \notin DOMAIN Esperadas
    BY <1>3, <2>2 DEF Charla
  <2>. QED BY <2>1, <2>2
<1>6. ASSUME NEW t \in Entrenadores \ {e}
      PROVE  Igual(t)
  BY <1>1 DEF Igual, Bloqueado, EnBlocked, Devuelto, TRed
<1>. QED BY <1>4, <1>5, <1>6, Solo DEF Conv

LEMMA ProtocoloCaido ==
  ASSUME TypeOK, DInv, PInv, QuitarCaido, UNCHANGED <<plan, hs, obj, pos, pedido, resp, cliente>>
  PROVE  PInv'
<1>1. PICK k \in Caidos : eBlocked' = RemoveAt(eBlocked, k) /\ Desconectar(eBlocked[k])
  BY DEF QuitarCaido
<1>2. k \in DOMAIN eBlocked /\ Cerrado(eBlocked[k])
  BY DEF Caidos
<1>3. PICK e \in Entrenadores : e = eBlocked[k]
  BY <1>2, Sacado DEF TypeOK, TListas
<1>4. cli[e] = "fin" /\ sock' = [sock EXCEPT ![e] = "cerrado"]
  BY <1>1, <1>2, <1>3 DEF PInv, Conv, Conexion, Cerrado, Desconectar
<1>5. cli[e] \notin DOMAIN Esperadas
  BY <1>4, Estaciones
<1>. QED BY <1>1, <1>2, <1>3, <1>4, <1>5, ProtocoloExpulsado

\* Who waits for a capture has no request on its way and nothing to read but avisos.
LEMMA EnEspera ==
  ASSUME TypeOK, DInv, NEW e \in Entrenadores, Conv(e), EnBlocked(e)
  PROVE  /\ ~Habla(e) /\ plan.ent # e /\ hs[e] \in {"postear", "fin"} /\ sock[e] # "libre"
         /\ x[e] = pos[e] /\ obj[e] \in PokeNests
         /\ cli[e] \in DOMAIN Esperadas =>
              cli[e] = "capturar" /\ sock[e] = "abierto" /\ SinPosta(resp[e])
<1>1. plan.ent # e /\ hs[e] \in {"postear", "fin"} /\ sock[e] # "libre" /\ Bloqueado(e)
  BY Ubicado DEF DInv, UnLugar, Bloqueado
<1>2. ~Habla(e) /\ obj[e] \in PokeNests
  BY <1>1 DEF Conv, Lugar
<1>3. x[e] = pos[e]
  BY <1>2 DEF Conv, Lugar, Movida, TypeOK, TDatos
<1>4. cli[e] \in DOMAIN Esperadas => Esperando(e)
  BY <1>1, <1>2 DEF Conv, Charla, Pidiendo, Contestado
<1>. QED BY <1>1, <1>2, <1>3, <1>4 DEF Esperando

\* To the end of the list: the same trainers.
LEMMA Rotado ==
  ASSUME NEW S, NEW s \in Seq(S), s # <<>>, IsInjective(s)
  PROVE  ToSet(Append(Tail(s), Head(s))) = ToSet(s)
<1>. DEFINE r == Tail(s)
            e == Head(s)
<1>1. r \in Seq(S) /\ e \in S /\ e \in ToSet(s) /\ ToSet(r) = ToSet(s) \ {e}
  BY Descabezado
<1>. HIDE DEF r, e
<1>2. ToSet(Append(r, e)) = ToSet(r) \cup {e}
  BY <1>1, Agregado
<1>3. ToSet(Append(r, e)) = ToSet(s)
  BY <1>1, <1>2
<1>. QED BY <1>3 DEF r, e

LEMMA ProtocoloAsignador ==
  ASSUME TypeOK, DInv, PInv, Asignador
  PROVE  PInv'
<1>. USE DEF TypeOK, TListas
<1>1. CASE AEsperar \/ ATomar \/ ADetectados \/ AVacia \/ AAgregar \/ APostear
  <2>1. UNCHANGED <<eBlocked, plan, hs, cli, sock, resp, pedido, obj, pos, x, cumplidos>>
    BY <1>1 DEF AEsperar, ATomar, ADetectados, AVacia, AAgregar, APostear,
                listas, datos, red, cliente
  <2>. QED BY <2>1, Callado DEF Bloqueado, EnBlocked, Devuelto
<1>2. CASE AQuitarCaido
  BY <1>2, ProtocoloCaido DEF AQuitarCaido
<1>3. CASE AOtorgar
  <2>0. PICK e \in Entrenadores : e = Head(eBlocked) /\ eBlocked # <<>>
    BY <1>3 DEF AOtorgar
  <2>1. /\ UNCHANGED <<plan, hs, pos, pedido, cli, x, cumplidos>>
        /\ obj' = [obj EXCEPT ![e] = Ninguno] /\ Enviar(e, "Ruta") /\ eBlocked' = Tail(eBlocked)
    BY <1>3, <2>0 DEF AOtorgar, cliente
  <2>2. EnBlocked(e) /\ ToSet(eBlocked') = ToSet(eBlocked) \ {e}
    BY <2>0, <2>1, Descabezado DEF EnBlocked, DInv
  <2>3. /\ Conv(e) /\ ~Habla(e) /\ plan.ent # e /\ hs[e] \in {"postear", "fin"}
        /\ sock[e] # "libre" /\ x[e] = pos[e]
        /\ cli[e] \in DOMAIN Esperadas =>
             cli[e] = "capturar" /\ sock[e] = "abierto" /\ SinPosta(resp[e])
    BY <2>2, EnEspera DEF PInv
  <2>4. ~Habla(e)' /\ ~Bloqueado(e)' /\ ~Devuelto(e)' /\ pos'[e] = x[e]
    BY <2>1, <2>2, <2>3 DEF Habla, Bloqueado, EnBlocked, Devuelto
  <2>5. "Ruta" \in Respuestas \ Avisos /\ "Ruta" \in Esperadas["capturar"]
    BY DEF Respuestas, Avisos, Esperadas
  <2>6. Conv(e)'
    BY <2>1, <2>2, <2>3, <2>4, <2>5, Respondido
  <2>7. ASSUME NEW t \in Entrenadores \ {e}
        PROVE  Igual(t)
    BY <2>1, <2>2, <2>5, EnviadoConv DEF Igual, Bloqueado, EnBlocked, Devuelto, TDatos
  <2>. QED BY <2>6, <2>7, Solo
<1>4. CASE ARotar
  <2>1. /\ UNCHANGED <<plan, hs, cli, sock, resp, pedido, obj, pos, x, cumplidos>>
        /\ eBlocked # <<>> /\ eBlocked' = Append(Tail(eBlocked), Head(eBlocked))
    BY <1>4 DEF ARotar, datos, red, cliente
  <2>2. ToSet(eBlocked') = ToSet(eBlocked)
    BY <2>1, Rotado DEF DInv
  <2>. QED BY <2>1, <2>2, Callado DEF Bloqueado, EnBlocked, Devuelto
<1>. QED BY <1>1, <1>2, <1>3, <1>4 DEF Asignador

LEMMA ProtocoloDeadlock ==
  ASSUME TypeOK, DInv, PInv, Deadlock
  PROVE  PInv'
<1>. USE DEF TypeOK, TListas
<1>1. CASE DTomar \/ DDetectados \/ DDecidir \/ DFin
  <2>1. UNCHANGED <<eBlocked, plan, hs, cli, sock, resp, pedido, obj, pos, x, cumplidos>>
    BY <1>1 DEF DTomar, DDetectados, DDecidir, DFin, listas, datos, red, cliente
  <2>. QED BY <2>1, Callado DEF Bloqueado, EnBlocked, Devuelto
<1>2. CASE DQuitarCaido
  BY <1>2, ProtocoloCaido DEF DQuitarCaido
<1>3. CASE DAnalizar \/ DCombate
  <2>1. /\ UNCHANGED <<eBlocked, plan, hs, cli, pedido, obj, pos, x, cumplidos>>
        /\ UNCHANGED <<sock, resp>> \/ \E T : \E m \in Avisos : EnviarATodos(T, m)
    BY <1>3 DEF DAnalizar, DCombate, Avisar, Duelo, Enviar, Avisos, datos, cliente
  <2>2. \A t \in Entrenadores : (Bloqueado(t)' <=> Bloqueado(t)) /\ (Devuelto(t)' <=> Devuelto(t))
    BY <2>1 DEF Bloqueado, EnBlocked, Devuelto
  <2>3. CASE UNCHANGED <<sock, resp>>
    BY <2>1, <2>2, <2>3, Callado
  <2>4. ASSUME NEW T, NEW m \in Avisos, EnviarATodos(T, m)
        PROVE  PInv'
    <3>1. ASSUME NEW t \in Entrenadores
          PROVE  Conv(t)'
      BY <2>1, <2>2, <2>4, <3>1, Avisado DEF PInv
    <3>. QED BY <3>1 DEF PInv
  <2>. QED BY <2>1, <2>3, <2>4
<1>4. CASE DMatar
  <2>. DEFINE e == Head(eDeadlock)
  <2>1. UNCHANGED <<plan, hs, obj, pos, pedido, cliente>>
    BY <1>4 DEF DMatar
  <2>2. CASE UNCHANGED <<eBlocked, sock, resp>>
    BY <2>1, <2>2, Callado DEF Bloqueado, EnBlocked, Devuelto, cliente
  <2>3. CASE ~UNCHANGED <<eBlocked, sock, resp>>
    <3>1. /\ resp' = IF sock[e] = "abierto" THEN [resp EXCEPT ![e] = Append(@, "K")] ELSE resp
          /\ Desconectar(e)
          /\ \E k \in DOMAIN eBlocked : eBlocked[k] = e /\ eBlocked' = RemoveAt(eBlocked, k)
      BY <1>4, <2>3 DEF DMatar
    <3>2. PICK k \in DOMAIN eBlocked : eBlocked[k] = e /\ eBlocked' = RemoveAt(eBlocked, k)
      BY <3>1
    <3>3. e \in Entrenadores /\ EnBlocked(e) /\ sock' = [sock EXCEPT ![e] = "cerrado"]
      BY <3>1, <3>2, Sacado DEF EnBlocked, ToSet, Desconectar
    <3>. HIDE DEF e
    <3>4. cli[e] \in DOMAIN Esperadas =>
            cli[e] = "capturar" /\ sock[e] = "abierto" /\ SinPosta(resp[e])
      BY <3>3, EnEspera DEF PInv
    <3>5. SinPosta(resp[e]) => Posta(Append(resp[e], "K"), "K")
      <4>1. "K" \in Respuestas /\ "K" \notin Avisos /\ resp[e] \in Seq(Respuestas)
        BY <3>3 DEF Respuestas, Avisos, TRed
      <4>. QED BY <4>1, LlegaRespuesta
    <3>6. cli[e] \in DOMAIN Esperadas =>
            \E r \in Esperadas[cli[e]] \cap Despedidas : Posta(resp'[e], r)
      <4>1. "K" \in Esperadas["capturar"] \cap Despedidas
        BY DEF Esperadas, Despedidas
      <4>. QED BY <3>1, <3>3, <3>4, <3>5, <4>1 DEF TRed
    <3>7. \A t \in Entrenadores \ {e} : resp'[t] = resp[t]
      BY <3>1 DEF TRed
    <3>. QED BY <2>1, <3>2, <3>3, <3>6, <3>7, ProtocoloExpulsado
  <2>. QED BY <2>2, <2>3
<1>. QED BY <1>1, <1>2, <1>3, <1>4 DEF Deadlock

-----------------------------------------------------------------------------
(* The trainers. *)

\* The client takes a reply proper: the one it was waiting for, and the last of them.
LEMMA Leido ==
  ASSUME TypeOK, NEW e \in Entrenadores, Conv(e), NEW r, r \notin Avisos, Toma(e, r)
  PROVE  /\ r \in Esperadas[cli[e]] /\ SinPosta(resp'[e])
         /\ ~Habla(e) /\ ~Bloqueado(e) /\ x[e] = pos[e] /\ Len(pedido[e]) = 0
         /\ r \notin Despedidas => sock[e] = "abierto" /\ ~Devuelto(e)
         /\ r \in {"Coord", "OK"} => obj[e] = Meta(e)
         /\ hs[e] \in IF r = "Bienvenida" THEN {"recibir"} ELSE {"postear", "fin"}
<1>1. /\ cli[e] \in DOMAIN Esperadas /\ resp[e] # <<>> /\ Head(resp[e]) = r
      /\ resp'[e] = Tail(resp[e]) /\ resp[e] \in Seq(Respuestas)
  BY DEF Toma, TypeOK, TRed
<1>2. ~SinPosta(resp[e]) /\ \A q : Posta(resp[e], q) => q = r /\ SinPosta(resp'[e])
  BY <1>1, LeeRespuesta
<1>3. Contestado(e)
  BY <1>1, <1>2 DEF Conv, Charla, Pidiendo, Esperando
<1>4. PICK q \in Esperadas[cli[e]] :
        /\ Posta(resp[e], q)
        /\ q \notin Despedidas => sock[e] = "abierto" /\ ~Devuelto(e)
        /\ q \in {"Coord", "OK"} => obj[e] = Meta(e)
        /\ hs[e] \in IF q = "Bienvenida" THEN {"recibir"} ELSE {"postear", "fin"}
  BY <1>3 DEF Contestado
<1>5. q = r /\ SinPosta(resp'[e]) /\ ~Habla(e) /\ ~Bloqueado(e)
  BY <1>2, <1>3, <1>4 DEF Contestado
<1>6. x[e] = pos[e] /\ Len(pedido[e]) = 0
  BY <1>5 DEF Conv, Lugar, Movida, TypeOK, TDatos, Habla
<1>. QED BY <1>4, <1>5, <1>6

\* What taking a reply leaves alone, in all of them.
LEMMA TomaAjena ==
  ASSUME TypeOK, NEW e \in Entrenadores, NEW r, Toma(e, r)
  PROVE  /\ UNCHANGED <<obj, pos, hs>>
         /\ \A t \in Entrenadores : (Bloqueado(t)' <=> Bloqueado(t)) /\ (Devuelto(t)' <=> Devuelto(t))
         /\ \A t \in Entrenadores \ {e} : resp'[t] = resp[t]
BY DEF Toma, TypeOK, TRed, hilos, datos, listas, Bloqueado, EnBlocked, Devuelto

\* Two requests, one after the other.
LEMMA DosPedidos ==
  ASSUME NEW V, NEW s \in Seq(V), Len(s) = 0, NEW a \in V, NEW b \in V
  PROVE  /\ s \o <<a>> \o <<b>> = <<a, b>> /\ s \o <<>> \o <<b>> = <<b>>
         /\ Append(s, b) = <<b>>
<1>1. s = <<>>
  OBVIOUS
<1>2. <<>> \o <<a>> \o <<b>> = <<a, b>>
  <2>1. <<>> \o <<a>> = <<a>>
    OBVIOUS
  <2>2. <<a>> \o <<b>> = <<a, b>>
    <3>. DEFINE p == <<a>>
                q == <<b>>
                u == p \o q
                w == <<a, b>>
    <3>1. /\ p \in Seq(V) /\ q \in Seq(V) /\ w \in Seq(V) /\ Len(p) = 1 /\ Len(q) = 1 /\ Len(w) = 2
          /\ p[1] = a /\ q[1] = b /\ w[1] = a /\ w[2] = b
      OBVIOUS
    <3>. HIDE DEF p, q, w
    <3>2. /\ u \in Seq(V) /\ Len(u) = 2
          /\ \A i \in 1..2 : u[i] = IF i <= 1 THEN p[i] ELSE q[i - 1]
      <4>1. /\ u \in Seq(V) /\ Len(u) = Len(p) + Len(q)
            /\ \A i \in 1..Len(p) + Len(q) : u[i] = IF i <= Len(p) THEN p[i] ELSE q[i - Len(p)]
        BY <3>1, ConcatProperties
      <4>. HIDE DEF u
      <4>. QED BY <3>1, <4>1
    <3>. HIDE DEF u
    <3>3. \A i \in 1..2 : u[i] = w[i]
      BY <3>1, <3>2
    <3>4. u = w
      BY <3>1, <3>2, <3>3, SeqEqual
    <3>. QED BY <3>4 DEF u, p, q, w
  <2>. QED BY <2>1, <2>2
<1>3. <<>> \o <<>> \o <<b>> = <<b>>
  OBVIOUS
<1>4. Append(<<>>, b) = <<b>>
  OBVIOUS
<1>. QED BY <1>1, <1>2, <1>3, <1>4

\* A new request: the trainer has the turn no more.
LEMMA Pedido ==
  ASSUME TypeOK, NEW e \in Entrenadores, Conv(e), NEW r, r \notin Avisos \cup Despedidas, Toma(e, r),
         UNCHANGED sock, Habla(e)', cli'[e] \in DOMAIN Esperadas, Solicitud(e)',
         x'[e] = pos[e] + Movida(e)',
         Ultimo(e)'.op = "G" => obj[e] \in PokeNests /\ x'[e] = Posicion[obj[e]],
         \/ cli'[e] = "coord" /\ Ultimo(e)' = Msj("C", Meta(e)')
         \/ cli'[e] = "mover" /\ Ultimo(e)'.op \in {"MR", "ML"} /\ obj[e] = Meta(e)'
         \/ cli'[e] = "capturar" /\ Ultimo(e)'.op = "G"
         \/ cli'[e] = "medalla" /\ Ultimo(e)'.op = "O"
  PROVE  Conv(e)'
<1>1. /\ UNCHANGED <<obj, pos, hs>> /\ (Bloqueado(e)' <=> Bloqueado(e))
      /\ (Devuelto(e)' <=> Devuelto(e))
  BY TomaAjena
<1>2. SinPosta(resp'[e]) /\ ~Bloqueado(e) /\ sock[e] = "abierto" /\ ~Devuelto(e)
  BY Leido
<1>3. Conexion(e)'
  BY <1>2, Estaciones DEF Conexion
<1>4. Lugar(e)'
  BY <1>1, <1>2 DEF Lugar
<1>5. Charla(e)'
  BY <1>1, <1>2 DEF Charla, Pidiendo
<1>. QED BY <1>3, <1>4, <1>5 DEF Conv

\* jugarMapa after the welcome, or after a capture.
LEMMA Proximo ==
  ASSUME TypeOK, NEW e \in Entrenadores, Conv(e), NEW r \in {"Bienvenida", "Ruta"}, Toma(e, r),
         NEW c \in Nat, NEW antes, PedirProximo(e, c, antes), c <= Len(Objetivos[e]),
         antes = IF r = "Bienvenida" THEN <<Msj("Id", Ninguno)>> ELSE <<>>
  PROVE  Conv(e)'
<1>. USE DEF TypeOK
<1>. DEFINE m == IF c < Len(Objetivos[e]) THEN Msj("C", Objetivos[e][c + 1]) ELSE Msj("O", Ninguno)
<1>1. /\ ~Habla(e) /\ x[e] = pos[e] /\ Len(pedido[e]) = 0
      /\ hs[e] \in IF r = "Bienvenida" THEN {"recibir"} ELSE {"postear", "fin"}
  BY Leido DEF Avisos
<1>2. Msj("Id", Ninguno) \in Pedidos /\ m \in Pedidos
  BY SupuestoMapa DEF Msj, Pedidos
<1>3. /\ UNCHANGED <<x, sock, obj, pos, hs>> /\ cumplidos'[e] = c
      /\ cli'[e] = IF c < Len(Objetivos[e]) THEN "coord" ELSE "medalla"
      /\ pedido'[e] = pedido[e] \o antes \o <<m>>
  BY TomaAjena DEF PedirProximo, TCliente, TRed
<1>4. m.op \in {"C", "O"} /\ m.op = (IF c < Len(Objetivos[e]) THEN "C" ELSE "O")
  BY DEF Msj
<1>5. c < Len(Objetivos[e]) => m = Msj("C", Objetivos[e][c + 1])
  OBVIOUS
<1>. HIDE DEF m
<1>6. pedido'[e] = IF r = "Bienvenida" THEN <<Msj("Id", Ninguno), m>> ELSE <<m>>
  <2>1. pedido[e] \in Seq(Pedidos)
    BY DEF TRed
  <2>2. /\ pedido[e] \o <<Msj("Id", Ninguno)>> \o <<m>> = <<Msj("Id", Ninguno), m>>
        /\ pedido[e] \o <<>> \o <<m>> = <<m>>
    BY <1>1, <1>2, <2>1, DosPedidos
  <2>. QED BY <1>3, <2>2
<1>7. Habla(e)' /\ Ultimo(e)' = m /\ (r = "Bienvenida" => pedido'[e][1] = Msj("Id", Ninguno))
      /\ Len(pedido'[e]) = IF r = "Bienvenida" THEN 2 ELSE 1
  <2>1. CASE r = "Bienvenida"
    <3>1. pedido'[e] = <<Msj("Id", Ninguno), m>>
      BY <1>6, <2>1
    <3>. QED BY <2>1, <3>1 DEF Habla, Ultimo
  <2>2. CASE r # "Bienvenida"
    <3>1. pedido'[e] = <<m>>
      BY <1>6, <2>2
    <3>. QED BY <2>2, <3>1 DEF Habla, Ultimo
  <2>. QED BY <2>1, <2>2
<1>8. Solicitud(e)'
  <2>1. /\ Ultimo(e)'.op \in {"C", "O"} /\ Ultimo(e)'.op # "Id"
        /\ hs'[e] \in IF r = "Bienvenida" THEN {"recibir"} ELSE {"postear", "fin"}
    BY <1>1, <1>3, <1>4, <1>7
  <2>2. r = "Bienvenida" => pedido'[e][1].op = "Id"
    BY <1>7 DEF Msj
  <2>. QED BY <1>7, <2>1, <2>2 DEF Solicitud
<1>9. Movida(e)' = 0 /\ x'[e] = pos[e] /\ pos[e] \in Int
  BY <1>1, <1>3, <1>4, <1>7 DEF Movida, TDatos
<1>10. c < Len(Objetivos[e]) => m = Msj("C", Meta(e)')
  BY <1>3, <1>5 DEF Meta
<1>11. cli'[e] \in DOMAIN Esperadas /\ r \notin Avisos \cup Despedidas
  BY <1>3, Estaciones DEF Avisos, Despedidas
<1>. QED BY <1>3, <1>4, <1>7, <1>8, <1>9, <1>10, <1>11, Pedido

\* irPosicionPokenest and capturarPokemon, after each reply of the planner.
LEMMA Avanzado ==
  ASSUME TypeOK, NEW e \in Entrenadores, Conv(e), NEW r \in {"Coord", "OK"}, Toma(e, r),
         cli[e] \in {"coord", "mover"}, Avanzar(e)
  PROVE  Conv(e)'
<1>. USE DEF TypeOK
<1>. DEFINE n == Objetivos[e][cumplidos[e] + 1]
<1>1. /\ ~Habla(e) /\ x[e] = pos[e] /\ Len(pedido[e]) = 0
      /\ hs[e] \in {"postear", "fin"} /\ obj[e] = Meta(e)
  BY Leido DEF Avisos
<1>2. n \in PokeNests \cup {Desconocido} /\ n = Meta(e)
  <2>1. cumplidos[e] \in Nat /\ cumplidos[e] < Len(Objetivos[e])
    BY DEF TCliente
  <2>2. Objetivos[e] \in Seq(PokeNests \cup {Desconocido})
    BY SupuestoMapa
  <2>. QED BY <2>1, <2>2 DEF Meta
<1>3. obj[e] = n /\ n \in PokeNests
  BY <1>1, <1>2, SupuestoMapa DEF TDatos
<1>4. UNCHANGED <<cumplidos, sock, obj, pos, hs>> /\ Meta(e)' = n
  BY <1>2, TomaAjena DEF Avanzar, Meta
<1>5. r \notin Avisos \cup Despedidas
  BY DEF Avisos, Despedidas
<1>6. pos[e] \in Int /\ x \in [Entrenadores -> Int] /\ Posicion[n] \in Nat
      /\ pedido[e] \in Seq(Pedidos)
  BY <1>3, SupuestoMapa DEF TDatos, TCliente, TRed
<1>7. CASE x[e] = Posicion[n]
  <2>1. pedido'[e] = Append(pedido[e], Msj("G", n)) /\ cli'[e] = "capturar" /\ x' = x
    BY <1>7 DEF Avanzar, TRed, TCliente
  <2>2. Msj("G", n) \in Pedidos
    BY <1>3 DEF Msj, Pedidos
  <2>3. pedido'[e] = <<Msj("G", n)>>
    BY <1>1, <1>6, <2>1, <2>2, DosPedidos
  <2>4. Habla(e)' /\ Ultimo(e)' = Msj("G", n) /\ Len(pedido'[e]) = 1
    BY <2>3 DEF Habla, Ultimo
  <2>5. Ultimo(e)'.op = "G" /\ Movida(e)' = 0
    BY <2>4 DEF Msj, Movida
  <2>6. Solicitud(e)'
    BY <1>1, <1>4, <2>4, <2>5 DEF Solicitud
  <2>7. x'[e] = pos[e] + Movida(e)' /\ x'[e] = Posicion[obj[e]] /\ obj[e] \in PokeNests
    BY <1>1, <1>3, <1>6, <1>7, <2>1, <2>5
  <2>. QED BY <1>4, <1>5, <2>1, <2>4, <2>5, <2>6, <2>7, Pedido, Estaciones
<1>8. CASE x[e] # Posicion[n]
  <2>. DEFINE op == IF x[e] < Posicion[n] THEN "MR" ELSE "ML"
  <2>1. /\ pedido'[e] = Append(pedido[e], Msj(op, Ninguno)) /\ cli'[e] = "mover"
        /\ x'[e] = IF x[e] < Posicion[n] THEN x[e] + 1 ELSE x[e] - 1
    BY <1>6, <1>8 DEF Avanzar, TRed, TCliente
  <2>2. op \in {"MR", "ML"} /\ (op = "MR" <=> x[e] < Posicion[n])
    OBVIOUS
  <2>. HIDE DEF op
  <2>3. Msj(op, Ninguno) \in Pedidos
    BY <2>2 DEF Msj, Pedidos
  <2>4. pedido'[e] = <<Msj(op, Ninguno)>>
    BY <1>1, <1>6, <2>1, <2>3, DosPedidos
  <2>5. Habla(e)' /\ Ultimo(e)' = Msj(op, Ninguno) /\ Len(pedido'[e]) = 1
    BY <2>4 DEF Habla, Ultimo
  <2>6. Ultimo(e)'.op = op /\ Movida(e)' = IF op = "MR" THEN 1 ELSE -1
    BY <2>2, <2>5 DEF Msj, Movida
  <2>7. Solicitud(e)'
    BY <1>1, <1>4, <2>2, <2>5, <2>6 DEF Solicitud
  <2>8. x'[e] = pos[e] + Movida(e)'
    BY <1>1, <1>6, <2>1, <2>2, <2>6
  <2>. QED BY <1>3, <1>4, <1>5, <2>1, <2>2, <2>5, <2>6, <2>7, <2>8, Pedido, Estaciones
<1>. QED BY <1>7, <1>8

\* The client closes its end.
LEMMA Ido ==
  ASSUME TypeOK, PInv, NEW e \in Entrenadores, cli[e] \in DOMAIN Esperadas \cup {"desfasado"}, Irse(e),
         UNCHANGED <<eBlocked, plan, hs, obj, pos, pedido, x, cumplidos>>,
         \A t \in Entrenadores \ {e} : resp'[t] = resp[t]
  PROVE  PInv'
<1>. USE DEF TypeOK
<1>1. /\ cli'[e] = "fin" /\ sock'[e] = IF sock[e] = "abierto" THEN "finCliente" ELSE sock[e]
      /\ \A t \in Entrenadores \ {e} : cli'[t] = cli[t] /\ sock'[t] = sock[t]
  BY DEF Irse, TRed, TCliente
<1>2. Conv(e)
  BY DEF PInv
<1>3. Conexion(e)'
  BY <1>1, <1>2, Estaciones DEF Conv, Conexion
<1>4. Solicitud(e)' /\ Lugar(e)'
  BY <1>2 DEF Conv, Solicitud, Lugar, Movida, Habla, Ultimo, Bloqueado, EnBlocked
<1>5. Charla(e)'
  BY <1>1, <1>2, Estaciones DEF Conv, Charla, Habla, Devuelto
<1>6. ASSUME NEW t \in Entrenadores \ {e}
      PROVE  Igual(t)
  BY <1>1 DEF Igual, Bloqueado, EnBlocked, Devuelto
<1>. QED BY <1>3, <1>4, <1>5, <1>6, Solo DEF Conv

\* The client takes a notice for another reply: nothing is said of it from then on.
LEMMA Desfasado ==
  ASSUME TypeOK, NEW e \in Entrenadores, Conv(e), Desfasarse(e)
  PROVE  Conv(e)'
<1>1. PICK r \in Avisos : Toma(e, r)
  BY DEF Desfasarse
<1>2. /\ cli[e] \in DOMAIN Esperadas /\ cli'[e] = "desfasado"
      /\ UNCHANGED <<sock, pedido, x, cumplidos>>
  BY <1>1 DEF Desfasarse, Toma, TypeOK, TCliente
<1>3. /\ UNCHANGED <<obj, pos, hs>> /\ (Bloqueado(e)' <=> Bloqueado(e))
      /\ (Devuelto(e)' <=> Devuelto(e))
  BY <1>1, TomaAjena
<1>4. (Habla(e)' <=> Habla(e)) /\ Ultimo(e)' = Ultimo(e) /\ Movida(e)' = Movida(e)
  BY <1>2 DEF Habla, Ultimo, Movida
<1>5. Conexion(e)'
  BY <1>2, Estaciones DEF Conv, Conexion
<1>6. Solicitud(e)' /\ Lugar(e)'
  BY <1>2, <1>3, <1>4 DEF Conv, Solicitud, Lugar
<1>7. Charla(e)'
  BY <1>2, <1>3, <1>4, Estaciones DEF Conv, Charla
<1>. QED BY <1>5, <1>6, <1>7 DEF Conv

LEMMA ProtocoloCliente ==
  ASSUME TypeOK, PInv, NEW e \in Entrenadores, Cliente(e)
  PROVE  PInv'
<1>. USE DEF TypeOK
<1>0. Conv(e)
  BY DEF PInv
<1>1. ASSUME NEW r, Toma(e, r), Conv(e)', UNCHANGED <<sock>>,
             \A t \in Entrenadores \ {e} :
               /\ cli'[t] = cli[t] /\ pedido'[t] = pedido[t] /\ x'[t] = x[t]
               /\ cumplidos'[t] = cumplidos[t]
      PROVE  PInv'
  <2>1. \A t \in Entrenadores \ {e} : Igual(t)
    BY <1>1, TomaAjena DEF Igual
  <2>. QED BY <1>1, <2>1, Solo
<1>2. CASE CBienvenida(e)
  <2>1. Toma(e, "Bienvenida") /\ PedirProximo(e, 0, <<Msj("Id", Ninguno)>>)
    BY <1>2 DEF CBienvenida
  <2>2. 0 <= Len(Objetivos[e])
    BY SupuestoMapa
  <2>3. Conv(e)'
    BY <1>0, <2>1, <2>2, Proximo
  <2>. QED BY <1>1, <2>1, <2>3 DEF PedirProximo, TRed, TCliente
<1>3. CASE CCoordenadas(e) \/ CMover(e)
  <2>1. CASE Desfasarse(e)
    <3>1. Conv(e)'
      BY <1>0, <2>1, Desfasado
    <3>2. PICK r \in Avisos : Toma(e, r)
      BY <2>1 DEF Desfasarse
    <3>. QED BY <1>1, <2>1, <3>1, <3>2 DEF Desfasarse, TRed, TCliente
  <2>2. CASE ~Desfasarse(e)
    <3>1. PICK r \in {"Coord", "OK"} : Toma(e, r) /\ cli[e] \in {"coord", "mover"} /\ Avanzar(e)
      BY <1>3, <2>2 DEF CCoordenadas, CMover
    <3>2. Conv(e)'
      BY <1>0, <3>1, Avanzado
    <3>. QED BY <1>1, <3>1, <3>2 DEF Avanzar, TRed, TCliente
  <2>. QED BY <2>1, <2>2
<1>5. CASE CCaptura(e)
  <2>1. Toma(e, "Ruta") /\ PedirProximo(e, cumplidos[e] + 1, <<>>) /\ cli[e] = "capturar"
    BY <1>5 DEF CCaptura
  <2>2. cumplidos[e] + 1 \in Nat /\ cumplidos[e] + 1 <= Len(Objetivos[e])
    <3>1. Len(Objetivos[e]) \in Nat
      BY SupuestoMapa
    <3>. QED BY <2>1, <3>1 DEF TCliente
  <2>3. Conv(e)'
    BY <1>0, <2>1, <2>2, Proximo
  <2>. QED BY <1>1, <2>1, <2>3 DEF PedirProximo, TRed, TCliente
<1>6. CASE CAviso(e)
  <2>1. PICK r \in Avisos : Toma(e, r) /\ UNCHANGED <<sock, pedido, cli, x, cumplidos>>
    BY <1>6 DEF CAviso, Avisos, cliente
  <2>2. /\ UNCHANGED <<obj, pos, hs>> /\ (Bloqueado(e)' <=> Bloqueado(e))
        /\ (Devuelto(e)' <=> Devuelto(e))
    BY <2>1, TomaAjena
  <2>3. /\ SinPosta(resp[e]) => SinPosta(resp'[e])
        /\ \A q : Posta(resp[e], q) => Posta(resp'[e], q)
        /\ resp[e] # <<>> /\ cli[e] \in DOMAIN Esperadas
    <3>1. resp[e] # <<>> /\ Head(resp[e]) \in Avisos /\ resp'[e] = Tail(resp[e])
          /\ resp[e] \in Seq(Respuestas) /\ cli[e] \in DOMAIN Esperadas
      BY <2>1 DEF Toma, TRed
    <3>. QED BY <3>1, LeeRespuesta
  <2>4. (Habla(e)' <=> Habla(e)) /\ Ultimo(e)' = Ultimo(e) /\ Movida(e)' = Movida(e)
        /\ Meta(e)' = Meta(e)
    BY <2>1 DEF Habla, Ultimo, Movida, Meta
  <2>5. Conexion(e)' /\ Solicitud(e)' /\ Lugar(e)'
    <3>1. cli[e] # "fuera"
      BY <2>3, Estaciones
    <3>. QED BY <1>0, <2>1, <2>2, <2>4, <3>1 DEF Conv, Conexion, Solicitud, Lugar
  <2>6. Charla(e)'
    <3>1. Pidiendo(e) => Pidiendo(e)'
      BY <2>1, <2>2, <2>3, <2>4 DEF Pidiendo
    <3>2. Esperando(e) => Esperando(e)'
      BY <2>1, <2>2, <2>3, <2>4 DEF Esperando
    <3>3. Contestado(e) => Contestado(e)'
      BY <2>1, <2>2, <2>3, <2>4 DEF Contestado
    <3>. QED BY <1>0, <2>1, <2>2, <2>3, <2>4, <3>1, <3>2, <3>3 DEF Conv, Charla
  <2>7. Conv(e)'
    BY <2>5, <2>6 DEF Conv
  <2>. QED BY <1>1, <2>1, <2>7
<1>7. CASE CSalir(e)
  <2>1. PICK r : Toma(e, r)
    BY <1>7 DEF CSalir
  <2>2. Irse(e) /\ UNCHANGED <<pedido, x, cumplidos>> /\ cli[e] \in DOMAIN Esperadas
    BY <1>7, <2>1 DEF CSalir, Toma
  <2>3. UNCHANGED <<eBlocked, plan, hs, obj, pos>> /\ \A t \in Entrenadores \ {e} : resp'[t] = resp[t]
    BY <2>1 DEF Toma, listas, hilos, datos, TRed
  <2>. QED BY <2>2, <2>3, Ido
<1>. QED BY <1>2, <1>3, <1>5, <1>6, <1>7 DEF Cliente

LEMMA ProtocoloResto ==
  ASSUME TypeOK, SinHilo, PInv,
         \/ \E t \in Entrenadores : Conectar(t) \/ Abandonar(t)
         \/ Recargar \/ UNCHANGED vars
  PROVE  PInv'
<1>. USE DEF TypeOK
<1>1. ASSUME NEW e \in Entrenadores, Conectar(e)
      PROVE  PInv'
  <2>1. /\ UNCHANGED <<eBlocked, plan, obj, pos, pedido, resp, x, cumplidos>> /\ sock[e] = "libre"
        /\ sock'[e] = "abierto" /\ hs'[e] = "bienvenida" /\ cli'[e] = "bienvenida"
        /\ \A t \in Entrenadores \ {e} : sock'[t] = sock[t] /\ hs'[t] = hs[t] /\ cli'[t] = cli[t]
    BY <1>1 DEF Conectar, listas, datos, TRed, THilos, TCliente
  <2>2. Conv(e) /\ hs[e] = "no" /\ resp[e] = <<>>
    BY <2>1 DEF PInv, SinHilo, Conv, Conexion
  <2>3. ~Habla(e) /\ ~Habla(e)' /\ SinPosta(resp'[e])
    BY <2>1, <2>2 DEF Conv, Solicitud, Habla, SinPosta
  <2>4. Conexion(e)' /\ Solicitud(e)'
    BY <2>1, <2>3, Estaciones DEF Conexion, Solicitud
  <2>5. Lugar(e)'
    BY <2>1, <2>2, <2>3 DEF Conv, Lugar, Movida, Bloqueado, EnBlocked
  <2>6. Charla(e)'
    BY <2>1, <2>3 DEF Charla, Esperando
  <2>7. ASSUME NEW t \in Entrenadores \ {e}
        PROVE  Igual(t)
    BY <2>1 DEF Igual, Bloqueado, EnBlocked, Devuelto
  <2>. QED BY <2>4, <2>5, <2>6, <2>7, Solo DEF Conv
<1>2. ASSUME NEW e \in Entrenadores, Abandonar(e)
      PROVE  PInv'
  <2>1. /\ UNCHANGED <<eBlocked, plan, hs, obj, pos, pedido, x, cumplidos>>
        /\ cli[e] \in DOMAIN Esperadas \cup {"desfasado"} /\ Irse(e)
        /\ \A t \in Entrenadores \ {e} : resp'[t] = resp[t]
    BY <1>2 DEF Abandonar, listas, hilos, datos, TRed
  <2>. QED BY <2>1, Ido
<1>3. CASE Recargar \/ UNCHANGED vars
  <2>1. UNCHANGED <<eBlocked, plan, hs, cli, sock, resp, pedido, obj, pos, x, cumplidos>>
    BY <1>3 DEF Recargar, vars, listas, hilos, datos, red, cliente
  <2>. QED BY <2>1, Callado DEF Bloqueado, EnBlocked, Devuelto
<1>. QED BY <1>1, <1>2, <1>3

LEMMA ProtocoloInicial ==
  ASSUME Init
  PROVE  PInv
<1>. SUFFICES ASSUME NEW t \in Entrenadores
              PROVE  Conv(t)
  BY DEF PInv
<1>1. /\ plan.pc = "esperar" /\ eBlocked = <<>> /\ cli[t] = "fuera" /\ sock[t] = "libre"
      /\ resp[t] = <<>> /\ pedido[t] = <<>> /\ x[t] = 1 /\ pos[t] = 1 /\ cumplidos[t] = 0
  BY DEF Init
<1>2. ~Habla(t) /\ ~Bloqueado(t) /\ ~Devuelto(t)
  BY <1>1 DEF Habla, Bloqueado, EnBlocked, Devuelto, ToSet
<1>. QED BY <1>1, <1>2, Estaciones DEF Conv, Conexion, Solicitud, Lugar, Movida, Charla

LEMMA ProtocoloPaso ==
  ASSUME TypeOK, SinHilo, DInv, PInv, [Next]_vars
  PROVE  PInv'
BY ProtocoloHandshake, ProtocoloPlanificador, ProtocoloAsignador, ProtocoloDeadlock,
   ProtocoloCliente, ProtocoloResto
   DEF Next

\* The map and each trainer take turns: a trainer that plays has made one request that
\* nobody has read, or waits for the map with nothing on its way, or has one reply to
\* read of the kind it waits for; and both have it in the same place, but for the move
\* on its way (planRR, planSRDF, asignador, batallaPokemon and jugarMapa).
THEOREM PorTurnos == Spec => []PInv
<1>1. Init => PInv
  BY ProtocoloInicial
<1>2. IInv /\ DInv /\ PInv /\ [Next]_vars => PInv'
  BY ProtocoloPaso DEF IInv
<1>. QED BY <1>1, <1>2, Invariante, CadaUnoEnSuLugar, PTL DEF Spec

-----------------------------------------------------------------------------
(* In step. *)

\* Nothing to read comes or goes, or the trainer plays no more.
LEMMA FaseIgual ==
  ASSUME NEW t \in Entrenadores, EnFase(t),
         (cli'[t] = cli[t] /\ resp'[t] = resp[t]) \/ cli'[t] \notin DOMAIN Esperadas
  PROVE  EnFase(t)'
BY DEF EnFase

\* One more to read, of those it waits for, with no reply proper before it.
LEMMA FaseLlega ==
  ASSUME TypeOK, NEW t \in Entrenadores, EnFase(t), NEW m, cli'[t] = cli[t],
         resp'[t] = Append(resp[t], m),
         cli[t] \in DOMAIN Esperadas => m \in Esperadas[cli[t]] /\ SinPosta(resp[t])
  PROVE  EnFase(t)'
<1>. SUFFICES ASSUME cli[t] \in DOMAIN Esperadas, NEW i \in DOMAIN resp'[t]
              PROVE  resp'[t][i] \in Esperadas[cli[t]] /\ (resp'[t][i] \in Avisos \/ i = Len(resp'[t]))
  BY DEF EnFase
<1>1. resp[t] \in Seq(Respuestas)
  BY DEF TypeOK, TRed
<1>. DEFINE s == resp[t]
            u == Append(s, m)
<1>2. /\ DOMAIN s = 1..Len(s) /\ DOMAIN u = 1..Len(s) + 1 /\ Len(s) \in Nat /\ Len(u) = Len(s) + 1
      /\ \A k \in 1..Len(s) : u[k] = s[k]
      /\ u[Len(s) + 1] = m
  BY <1>1
<1>3. \A k \in DOMAIN s : s[k] \in Esperadas[cli[t]] /\ s[k] \in Avisos
  BY DEF EnFase, SinPosta
<1>. HIDE DEF s, u
<1>4. resp'[t] = u
  BY DEF u, s
<1>. QED BY <1>2, <1>3, <1>4

\* A reply proper always finds the trainer waiting for it: it has the turn afterwards.
LEMMA FaseRespuesta ==
  ASSUME TypeOK, PInv', NEW t \in Entrenadores, EnFase(t), NEW m \in Respuestas \ Avisos,
         cli'[t] = cli[t], resp'[t] = Append(resp[t], m)
  PROVE  EnFase(t)'
<1>1. resp[t] \in Seq(Respuestas)
  BY DEF TypeOK, TRed
<1>. DEFINE s == resp[t]
            u == Append(s, m)
<1>2. /\ DOMAIN s = 1..Len(s) /\ DOMAIN u = 1..Len(s) + 1 /\ Len(s) \in Nat
      /\ \A k \in 1..Len(s) : u[k] = s[k]
      /\ u[Len(s) + 1] = m
  BY <1>1
<1>. HIDE DEF s, u
<1>3. resp'[t] = u /\ s = resp[t]
  BY DEF u, s
<1>4. ASSUME cli[t] \in DOMAIN Esperadas
      PROVE  m \in Esperadas[cli[t]] /\ SinPosta(s)
  <2>1. ~SinPosta(u)
    BY <1>2 DEF SinPosta
  <2>2. Contestado(t)'
    BY <1>3, <1>4, <2>1 DEF PInv, Conv, Charla, Pidiendo, Esperando
  <2>3. PICK r \in Esperadas[cli[t]] : Posta(u, r)
    BY <1>3, <2>2 DEF Contestado
  <2>4. PICK k \in DOMAIN u : u[k] = r /\ \A j \in DOMAIN u : j # k => u[j] \in Avisos
    BY <2>3 DEF Posta
  <2>5. k = Len(s) + 1
    BY <1>2, <2>4
  <2>6. \A j \in DOMAIN s : j \in DOMAIN u /\ j # k /\ u[j] = s[j]
    BY <1>2, <2>5
  <2>. QED BY <1>2, <2>3, <2>4, <2>5, <2>6 DEF SinPosta
<1>. QED BY <1>3, <1>4, FaseLlega DEF u

\* A notice to one that is kept waiting.
LEMMA FaseAviso ==
  ASSUME TypeOK, DInv, PInv, NEW t \in Entrenadores, EnFase(t), EnBlocked(t), NEW m \in Avisos,
         cli'[t] = cli[t], resp'[t] = Append(resp[t], m)
  PROVE  EnFase(t)'
<1>1. cli[t] \in DOMAIN Esperadas => cli[t] = "capturar" /\ SinPosta(resp[t])
  BY EnEspera DEF PInv
<1>2. m \in Esperadas["capturar"]
  BY DEF Esperadas, Avisos
<1>. QED BY <1>1, <1>2, FaseLlega

\* A reply proper is read: it was the last one.  Or a notice, by one that goes on waiting.
LEMMA FaseLeida ==
  ASSUME TypeOK, NEW t \in Entrenadores, EnFase(t), NEW r, Toma(t, r),
         r \in Avisos => cli'[t] = cli[t]
  PROVE  EnFase(t)'
<1>. DEFINE s == resp[t]
            u == Tail(s)
<1>1. /\ s \in Seq(Respuestas) /\ s # <<>> /\ Head(s) = r /\ resp'[t] = u /\ cli[t] \in DOMAIN Esperadas
  BY DEF Toma, TypeOK, TRed
<1>2. /\ DOMAIN s = 1..Len(s) /\ DOMAIN u = 1..Len(s) - 1 /\ Len(s) \in Nat \ {0} /\ Len(u) = Len(s) - 1
      /\ \A i \in 1..Len(s) - 1 : u[i] = s[i + 1]
      /\ Head(s) = s[1]
  BY <1>1
<1>3. \A i \in DOMAIN s : s[i] \in Esperadas[cli[t]] /\ (s[i] \in Avisos \/ i = Len(s))
  BY <1>1 DEF EnFase
<1>. HIDE DEF s, u
<1>4. CASE r \notin Avisos
  <2>1. Len(s) = 1 /\ Len(s) - 1 = 0
    BY <1>1, <1>2, <1>3, <1>4
  <2>2. \A i \in DOMAIN u : FALSE
    <3>1. DOMAIN u = 1..0
      BY <1>2, <2>1
    <3>. QED BY <3>1
  <2>. QED BY <1>1, <2>2 DEF EnFase
<1>5. CASE r \in Avisos
  <2>1. ASSUME NEW i \in DOMAIN u
        PROVE  u[i] \in Esperadas[cli[t]] /\ (u[i] \in Avisos \/ i = Len(u))
    <3>1. i + 1 \in DOMAIN s /\ u[i] = s[i + 1] /\ (i + 1 = Len(s) => i = Len(u))
      BY <1>2, <2>1
    <3>. QED BY <1>3, <3>1
  <2>. QED BY <1>1, <1>5, <2>1 DEF EnFase
<1>. QED BY <1>4, <1>5

\* The threads that answer.
LEMMA FaseEnvio ==
  ASSUME TypeOK, PInv', NEW e \in Entrenadores, NEW m \in Respuestas \ Avisos, Enviar(e, m),
         cli' = cli, NEW t \in Entrenadores, EnFase(t)
  PROVE  EnFase(t)'
<1>1. resp'[t] = resp[t] \/ resp'[t] = Append(resp[t], m)
  BY EnviadoConv
<1>. QED BY <1>1, FaseIgual, FaseRespuesta

LEMMA FaseHilos ==
  ASSUME TypeOK, PInv', (\E e \in Entrenadores : Handshake(e)) \/ Planificador \/ Asignador,
         NEW t \in Entrenadores, EnFase(t)
  PROVE  EnFase(t)'
<1>1. CASE UNCHANGED <<cli, resp>>
  BY <1>1, FaseIgual
<1>2. CASE ~UNCHANGED <<cli, resp>>
  <2>1. cli' = cli
    BY DEF Handshake, HBienvenida, HRecibir, HDesconexion, HPostear, Planificador, PEsperar, PSacar,
           PFinQuantum, PPostReady, Atender, PDesconexion, PCoordenadas, PNoExiste, PMover, PCapturar,
           PMedalla, PBloquear, PPostBlocked, PDevolver, PLiberar, Asignador, AEsperar, ATomar,
           AQuitarCaido, ADetectados, AVacia, AOtorgar, ARotar, AAgregar, APostear, cliente
  <2>2. \E e \in Entrenadores : \/ HBienvenida(e) \/ PCoordenadas(e) \/ PNoExiste(e) \/ PMover(e)
                                \/ PMedalla(e) \/ AOtorgar
    BY <1>2, <2>1
       DEF Handshake, HRecibir, HDesconexion, HPostear, Planificador, PEsperar, PSacar,
           PFinQuantum, PPostReady, Atender, PDesconexion, PCapturar,
           PBloquear, PPostBlocked, PDevolver, PLiberar, Asignador, AEsperar, ATomar,
           AQuitarCaido, ADetectados, AVacia, ARotar, AAgregar, APostear, red
  <2>3. \E e \in Entrenadores : \E m \in {"Bienvenida", "Coord", "N", "OK", "Medalla", "Ruta"} : Enviar(e, m)
    <3>1. AOtorgar => Head(eBlocked) \in Entrenadores /\ Enviar(Head(eBlocked), "Ruta")
      BY DEF AOtorgar, TypeOK, TListas
    <3>. QED BY <2>2, <3>1 DEF HBienvenida, PCoordenadas, PNoExiste, PMover, PMedalla
  <2>4. {"Bienvenida", "Coord", "N", "OK", "Medalla", "Ruta"} \subseteq Respuestas \ Avisos
    BY DEF Respuestas, Avisos
  <2>. QED BY <2>1, <2>3, <2>4, FaseEnvio
<1>. QED BY <1>1, <1>2

\* The deadlock thread: its notices go to those that wait, but for the winners of old entries.
LEMMA FaseDeadlock ==
  ASSUME TypeOK, DInv, PInv, PInv', Deadlock, NEW t \in Entrenadores, EnFase(t), ~EnFase(t)'
  PROVE  dlk = "batalla" /\ t \in ToSet(eDeadlock) \ ToSet(eBlocked)
<1>. USE DEF TypeOK, TListas
<1>1. cli' = cli
  BY DEF Deadlock, DTomar, DQuitarCaido, DDetectados, DAnalizar, DDecidir, DCombate, DMatar, DFin, cliente
<1>2. resp'[t] # resp[t]
  BY <1>1, FaseIgual
<1>3. DAnalizar \/ DCombate \/ DMatar
  BY <1>2 DEF Deadlock, DTomar, DQuitarCaido, DDetectados, DDecidir, DFin, red
<1>4. CASE DAnalizar
  <2>1. EnviarATodos({eBlocked[i] : i \in FilasMarcadas}, "D")
    BY <1>2, <1>4 DEF DAnalizar, Avisar
  <2>2. t \in {eBlocked[i] : i \in FilasMarcadas} /\ resp'[t] = Append(resp[t], "D")
    BY <1>2, <2>1 DEF EnviarATodos
  <2>3. FilasMarcadas \subseteq DOMAIN eBlocked
    BY DEF FilasMarcadas, Marcados, Tenedores
  <2>4. EnBlocked(t)
    BY <2>2, <2>3 DEF EnBlocked, ToSet
  <2>5. "D" \in Avisos
    BY DEF Avisos
  <2>. QED BY <1>1, <2>2, <2>4, <2>5, FaseAviso
<1>5. CASE DCombate
  <2>1. dlk = "batalla" /\ Len(eDeadlock) > 1
    BY <1>5 DEF DCombate, Dlk
  <2>2. Duelo(eDeadlock[1], eDeadlock[2]) \/ Duelo(eDeadlock[2], eDeadlock[1])
    BY <1>2, <1>5 DEF DCombate
  <2>3. PICK i \in {1, 2} : Enviar(eDeadlock[i], "R")
    BY <2>2 DEF Duelo
  <2>4. t = eDeadlock[i] /\ resp'[t] = Append(resp[t], "R")
    BY <1>2, <2>3 DEF Enviar, EnviarATodos
  <2>5. t \in ToSet(eDeadlock)
    BY <2>1, <2>4 DEF ToSet
  <2>6. "R" \in Avisos
    BY DEF Avisos
  <2>7. ~EnBlocked(t)
    BY <1>1, <2>4, <2>6, FaseAviso
  <2>. QED BY <2>1, <2>5, <2>7 DEF EnBlocked
<1>6. CASE DMatar
  <2>1. resp'[t] = Append(resp[t], "K")
    BY <1>2, <1>6 DEF DMatar, TRed
  <2>2. "K" \in Respuestas \ Avisos
    BY DEF Respuestas, Avisos
  <2>. QED BY <1>1, <2>1, <2>2, FaseRespuesta
<1>. QED BY <1>3, <1>4, <1>5, <1>6

\* The trainers themselves, and what comes from outside.
LEMMA FaseResto ==
  ASSUME TypeOK, PInv, NEW t \in Entrenadores, EnFase(t),
         \/ \E e \in Entrenadores : Conectar(e) \/ Cliente(e) \/ Abandonar(e)
         \/ Recargar \/ UNCHANGED vars
  PROVE  EnFase(t)'
<1>. USE DEF TypeOK, TRed, TCliente
<1>1. ASSUME NEW e \in Entrenadores, Conectar(e)
      PROVE  EnFase(t)'
  <2>1. CASE t # e
    BY <1>1, <2>1, FaseIgual DEF Conectar
  <2>2. CASE t = e
    <3>1. resp'[t] = <<>>
      BY <1>1, <2>2 DEF Conectar, PInv, Conv, Conexion
    <3>. QED BY <3>1 DEF EnFase
  <2>. QED BY <2>1, <2>2
<1>2. ASSUME NEW e \in Entrenadores, Abandonar(e)
      PROVE  EnFase(t)'
  BY <1>2, Estaciones, FaseIgual DEF Abandonar, Irse
<1>3. ASSUME NEW e \in Entrenadores, Cliente(e)
      PROVE  EnFase(t)'
  <2>1. PICK r : Toma(e, r)
    BY <1>3 DEF Cliente, CBienvenida, CCoordenadas, CMover, CCaptura, CAviso, CSalir, Desfasarse
  <2>2. CASE t # e
    <3>1. resp'[t] = resp[t]
      BY <2>1, <2>2 DEF Toma
    <3>2. cli'[t] = cli[t]
      BY <1>3, <2>2 DEF Cliente, CBienvenida, CCoordenadas, CMover, CCaptura, CAviso, CSalir,
                        Desfasarse, PedirProximo, Avanzar, Irse, cliente
    <3>. QED BY <3>1, <3>2, FaseIgual
  <2>3. CASE t = e /\ (CSalir(e) \/ Desfasarse(e))
    <3>1. cli'[t] \in {"fin", "desfasado"}
      BY <2>3 DEF CSalir, Irse, Desfasarse
    <3>. QED BY <3>1, Estaciones, FaseIgual
  <2>4. CASE t = e /\ CAviso(e)
    <3>1. cli'[t] = cli[t]
      BY <2>4 DEF CAviso, cliente
    <3>. QED BY <2>1, <2>4, <3>1, FaseLeida
  <2>5. CASE t = e /\ ~CSalir(e) /\ ~Desfasarse(e) /\ ~CAviso(e)
    <3>1. PICK q \in {"Bienvenida", "Coord", "OK", "Ruta"} : Toma(e, q)
      BY <1>3, <2>5 DEF Cliente, CBienvenida, CCoordenadas, CMover, CCaptura
    <3>2. q \notin Avisos
      BY DEF Avisos
    <3>. QED BY <2>5, <3>1, <3>2, FaseLeida
  <2>. QED BY <2>2, <2>3, <2>4, <2>5
<1>4. CASE Recargar \/ UNCHANGED vars
  BY <1>4, FaseIgual DEF Recargar, vars, cliente, red
<1>. QED BY <1>1, <1>2, <1>3, <1>4

\* For any trainers, nests and objectives: the only message that reaches a trainer out of
\* its turn is the "R" of a battle for one that is in eDeadlock and in eBlocked no more
\* (mapa.c 529); whatever else the map says, or the trainer does, finds it in step.
THEOREM SinDesfaseSiempre == Spec => SinDesfase
<1>1. ASSUME TypeOK, DInv, PInv, PInv', [Next]_vars
      PROVE  [\A t \in Entrenadores :
                EnFase(t) /\ ~EnFase(t)' => dlk = "batalla" /\ t \in ToSet(eDeadlock) \ ToSet(eBlocked)]_vars
  <2>. SUFFICES ASSUME NEW t \in Entrenadores, EnFase(t), ~EnFase(t)'
                PROVE  dlk = "batalla" /\ t \in ToSet(eDeadlock) \ ToSet(eBlocked)
    OBVIOUS
  <2>. QED BY <1>1, FaseHilos, FaseDeadlock, FaseResto DEF Next
<1>. QED BY <1>1, PorTurnos, CadaUnoEnSuLugar, TipoCorrecto, PTL DEF Spec, SinDesfase

\* The nest that asignador and llenarEstructuras look up for a trainer that waits is one
\* of the map's, and the trainer stands on it.
THEOREM EsperaEnSuNidoSiempre == Spec => []EsperaEnSuNido
<1>1. TypeOK /\ PInv => EsperaEnSuNido
  <2>. SUFFICES ASSUME TypeOK, PInv, NEW t \in Entrenadores, Bloqueado(t)
                PROVE  obj[t] \in PokeNests /\ pos[t] = Posicion[obj[t]]
    BY DEF EsperaEnSuNido, Bloqueado, EnBlocked
  <2>. QED BY DEF PInv, Conv, Lugar, Movida, TypeOK, TDatos
<1>. QED BY <1>1, PorTurnos, TipoCorrecto, PTL

-----------------------------------------------------------------------------
(* The pokemon. *)

\* The pokemon of nest n in the hands of the trainers.
Prestados(n) == MapThenSumSet(LAMBDA t : tiene[t][n], Entrenadores)

\* It is a sum, now and in the next state.
LEMMA EsColumna == \A n \in PokeNests : Prestados(n) = Columna(Entrenadores, tiene, n)
BY DEF Prestados, Columna

LEMMA SeraColumna == (\A n \in PokeNests : Prestados(n) = Columna(Entrenadores, tiene, n))'
BY EsColumna, PTL

LEMMA PrestadosSuma ==
  ASSUME NEW n \in PokeNests
  PROVE  /\ TDatos => EsSuma(Prestados(n), Entrenadores, [t \in Entrenadores |-> tiene[t][n]])
         /\ TDatos' => EsSuma(Prestados(n)', Entrenadores, [t \in Entrenadores |-> tiene'[t][n]])
<1>1. IsFiniteSet(Entrenadores)
  BY SupuestoMapa
<1>2. ASSUME TDatos
      PROVE  EsSuma(Prestados(n), Entrenadores, [t \in Entrenadores |-> tiene[t][n]])
  <2>1. EsSuma(Columna(Entrenadores, tiene, n), Entrenadores, [t \in Entrenadores |-> tiene[t][n]])
    BY <1>1, <1>2, SumaColumna DEF TDatos
  <2>. QED BY <2>1, EsColumna
<1>3. ASSUME TDatos'
      PROVE  EsSuma(Prestados(n)', Entrenadores, [t \in Entrenadores |-> tiene'[t][n]])
  <2>1. EsSuma(Columna(Entrenadores, tiene', n), Entrenadores, [t \in Entrenadores |-> tiene'[t][n]])
    BY <1>1, <1>3, SumaColumna DEF TDatos
  <2>2. Prestados(n)' = Columna(Entrenadores, tiene', n)
    BY SeraColumna
  <2>. QED BY <2>1, <2>2
<1>. QED BY <1>2, <1>3

\* A trainer and the nests exchange pokemon.
LEMMA Canje ==
  ASSUME TDatos, TDatos', NEW e \in Entrenadores,
         \A t \in Entrenadores \ {e} : tiene'[t] = tiene[t],
         NEW n \in PokeNests, libres'[n] + tiene'[e][n] = libres[n] + tiene[e][n],
         libres[n] + Prestados(n) = Cantidad[n]
  PROVE  libres'[n] + Prestados(n)' = Cantidad[n]
<1>. DEFINE f == [t \in Entrenadores |-> tiene[t][n]]
            g == [t \in Entrenadores |-> tiene'[t][n]]
<1>1. f \in [Entrenadores -> Nat] /\ g \in [Entrenadores -> Nat]
      /\ f[e] = tiene[e][n] /\ g[e] = tiene'[e][n] /\ \A t \in Entrenadores \ {e} : g[t] = f[t]
  BY DEF TDatos
<1>2. IsFiniteSet(Entrenadores)
  BY SupuestoMapa
<1>3. EsSuma(Prestados(n), Entrenadores, f)
  BY PrestadosSuma
<1>4. EsSuma(Prestados(n)', Entrenadores, g)
  BY PrestadosSuma
<1>. HIDE DEF f, g
<1>5. /\ Prestados(n) \in Nat /\ Prestados(n)' \in Nat
      /\ Prestados(n) + g[e] = Prestados(n)' + f[e]
  BY <1>1, <1>2, <1>3, <1>4, SumaCambia
<1>6. libres[n] \in Nat /\ libres'[n] \in Nat /\ tiene[e][n] \in Nat /\ tiene'[e][n] \in Nat
  BY DEF TDatos
<1>. QED BY <1>1, <1>5, <1>6

\* No step of Recursos loses or makes up a pokemon.
LEMMA PasoConserva ==
  ASSUME TypeOK, TypeOK', Conservacion, Paso
  PROVE  Conservacion'
<1>. USE DEF TypeOK
<1>1. ASSUME NEW t \in Entrenadores, \A u \in Entrenadores \ {t} : tiene'[u] = tiene[u],
             \A n \in PokeNests : libres'[n] + tiene'[t][n] = libres[n] + tiene[t][n]
      PROVE  Conservacion'
  BY <1>1, Canje DEF Conservacion, Prestados
<1>2. CASE UNCHANGED <<libres, tiene>>
  <2>1. \A n \in PokeNests : Prestados(n)' = Prestados(n)
    <3>1. tiene' = tiene
      BY <1>2
    <3>. QED BY <3>1, EsColumna, SeraColumna
  <2>. QED BY <1>2, <2>1 DEF Conservacion, Prestados
<1>3. ASSUME NEW t \in Entrenadores, Asignacion!Otorgar(t)
      PROVE  Conservacion'
  <2>1. /\ Pide[t] # Ninguno /\ libres[Pide[t]] > 0
        /\ libres' = [libres EXCEPT ![Pide[t]] = @ - 1]
        /\ tiene' = [tiene EXCEPT ![t][Pide[t]] = @ + 1]
    BY <1>3 DEF Asignacion!Otorgar, Pide
  <2>2. PICK n \in PokeNests : n = Pide[t]
    BY <2>1 DEF Pide, TDatos
  <2>3. /\ \A u \in Entrenadores \ {t} : tiene'[u] = tiene[u]
        /\ \A m \in PokeNests \ {n} : libres'[m] = libres[m] /\ tiene'[t][m] = tiene[t][m]
        /\ libres'[n] = libres[n] - 1 /\ tiene'[t][n] = tiene[t][n] + 1
        /\ \A m \in PokeNests : libres[m] \in Nat /\ tiene[t][m] \in Nat
    BY <2>1, <2>2 DEF TDatos
  <2>4. \A m \in PokeNests : libres'[m] + tiene'[t][m] = libres[m] + tiene[t][m]
    BY <2>3
  <2>. QED BY <1>1, <2>3, <2>4
<1>4. ASSUME NEW t \in Entrenadores, Asignacion!Salir(t)
      PROVE  Conservacion'
  <2>1. /\ tiene' = [tiene EXCEPT ![t] = [n \in PokeNests |-> 0]]
        /\ libres' = [n \in PokeNests |-> libres[n] + tiene[t][n]]
    BY <1>4 DEF Asignacion!Salir
  <2>2. /\ \A u \in Entrenadores \ {t} : tiene'[u] = tiene[u]
        /\ \A n \in PokeNests : libres'[n] + tiene'[t][n] = libres[n] + tiene[t][n]
    BY <2>1 DEF TDatos
  <2>. QED BY <1>1, <2>2
<1>5. ASSUME NEW t \in Entrenadores, NEW n \in PokeNests, Asignacion!Devolver(t, n)
      PROVE  Conservacion'
  <2>1. /\ tiene' = [tiene EXCEPT ![t][n] = @ - 1] /\ libres' = [libres EXCEPT ![n] = @ + 1]
    BY <1>5 DEF Asignacion!Devolver
  <2>2. /\ \A u \in Entrenadores \ {t} : tiene'[u] = tiene[u]
        /\ \A m \in PokeNests \ {n} : libres'[m] = libres[m] /\ tiene'[t][m] = tiene[t][m]
        /\ libres'[n] = libres[n] + 1 /\ tiene'[t][n] = tiene[t][n] - 1
        /\ \A m \in PokeNests : libres[m] \in Nat /\ tiene[t][m] \in Nat
    BY <2>1 DEF TDatos
  <2>3. \A m \in PokeNests : libres'[m] + tiene'[t][m] = libres[m] + tiene[t][m]
    BY <2>2
  <2>. QED BY <1>1, <2>2, <2>3
<1>. QED BY <1>2, <1>3, <1>4, <1>5
     DEF Paso, Asignacion!Next, Asignacion!vars, Asignacion!Entrar, Asignacion!Pedir,
         Asignacion!DejarDeJugar

\* For any number of trainers and nests, the pokemon of a nest in its queue and in the
\* lists of the trainers are always as many as it started with (asignador,
\* devolverPokemons, desconectarEntrenador).
THEOREM ConservacionSiempre == Spec => []Conservacion
<1>1. Init => Conservacion
  <2>. SUFFICES ASSUME Init, NEW n \in PokeNests
                PROVE  libres[n] + Prestados(n) = Cantidad[n]
    BY DEF Conservacion, Prestados
  <2>1. /\ TDatos /\ libres[n] = Cantidad[n] /\ Cantidad[n] \in Nat
        /\ \A t \in Entrenadores : tiene[t][n] = 0
    BY TipoInicial, SupuestoMapa DEF Init, Nada, TypeOK
  <2>. DEFINE f == [t \in Entrenadores |-> tiene[t][n]]
  <2>2. IsFiniteSet(Entrenadores) /\ f \in [Entrenadores -> Nat] /\ \A t \in Entrenadores : f[t] = 0
    BY <2>1, SupuestoMapa DEF TDatos
  <2>3. EsSuma(Prestados(n), Entrenadores, f)
    BY <2>1, PrestadosSuma
  <2>. HIDE DEF f
  <2>4. Prestados(n) = 0
    BY <2>2, <2>3, SumaCeros
  <2>. QED BY <2>1, <2>4
<1>2. IInv /\ DInv /\ Conservacion /\ [Next]_vars => Conservacion'
  <2>. SUFFICES ASSUME IInv, DInv, Conservacion, [Next]_vars
                PROVE  Conservacion'
    OBVIOUS
  <2>1. Paso
    BY PasoHandshake, PasoPlanificador, PasoAsignador, PasoDeadlock, PasoResto
       DEF Next, IInv
  <2>2. TypeOK /\ TypeOK'
    BY TipoPaso DEF IInv
  <2>. QED BY <2>1, <2>2, PasoConserva
<1>. QED BY <1>1, <1>2, Invariante, CadaUnoEnSuLugar, PTL DEF Spec

-----------------------------------------------------------------------------
(* What each side counts. *)

\* A pokemon given that the trainer has still to read of.
HayRuta(t) == \E i \in DOMAIN resp[t] : resp[t][i] = "Ruta"

\* The pokemon of a trainer are the objectives it counts, and that one.
EnJuego(t) == sock[t] = "abierto" /\ cli[t] # "desfasado" /\ ~Devuelto(t)
Cuenta(t) ==
  EnJuego(t) =>
    EsSuma(cumplidos[t] + Hay(HayRuta(t)), PokeNests, tiene[t])
CInv == \A t \in Entrenadores : Cuenta(t)

\* Nothing of that changes.
Sigue(t) ==
  EnJuego(t)' =>
    /\ EnJuego(t) /\ cumplidos'[t] = cumplidos[t]
    /\ tiene'[t] = tiene[t] /\ (HayRuta(t)' <=> HayRuta(t))

LEMMA SiguenTodos ==
  ASSUME CInv, \A t \in Entrenadores : Sigue(t) \/ Cuenta(t)'
  PROVE  CInv'
BY DEF CInv, Cuenta, Sigue, Hay

\* Who has nothing has nothing to count.
LEMMA SumaNada == EsSuma(0, PokeNests, Nada)
<1>1. IsFiniteSet(PokeNests) /\ Nada \in [PokeNests -> Nat] /\ \A n \in PokeNests : Nada[n] = 0
  BY SupuestoMapa DEF Nada
<1>2. PICK it : Suma(it, PokeNests, Nada)
  BY <1>1, HaySuma
<1>3. EsSuma(it[PokeNests], PokeNests, Nada)
  BY <1>2 DEF EsSuma
<1>4. it[PokeNests] = 0
  BY <1>1, <1>3, SumaCeros
<1>. QED BY <1>3, <1>4

\* A message that gives no pokemon.
LEMMA SinRuta ==
  ASSUME TypeOK, NEW T, NEW m \in Respuestas, m # "Ruta", EnviarATodos(T, m),
         NEW t \in Entrenadores
  PROVE  (sock'[t] = "abierto" => sock[t] = "abierto") /\ (HayRuta(t)' <=> HayRuta(t))
<1>1. /\ sock'[t] = "abierto" => sock[t] = "abierto"
      /\ resp'[t] = resp[t] \/ resp'[t] = Append(resp[t], m)
      /\ resp[t] \in Seq(Respuestas)
  BY DEF EnviarATodos, TypeOK, TRed
<1>2. ASSUME NEW s \in Seq(Respuestas)
      PROVE  (\E i \in DOMAIN Append(s, m) : Append(s, m)[i] = "Ruta")
               <=> (\E i \in DOMAIN s : s[i] = "Ruta")
  <2>. DEFINE u == Append(s, m)
  <2>1. /\ DOMAIN s = 1..Len(s) /\ DOMAIN u = 1..Len(s) + 1 /\ Len(s) \in Nat
        /\ (\A i \in 1..Len(s) : u[i] = s[i]) /\ u[Len(s) + 1] = m
    OBVIOUS
  <2>. HIDE DEF u
  <2>2. (\E i \in DOMAIN u : u[i] = "Ruta") <=> (\E i \in DOMAIN s : s[i] = "Ruta")
    BY <2>1
  <2>. QED BY <2>2 DEF u
<1>. QED BY <1>1, <1>2 DEF HayRuta

LEMMA CuentaHandshake ==
  ASSUME TypeOK, CInv, NEW e \in Entrenadores, Handshake(e)
  PROVE  CInv'
<1>1. UNCHANGED <<plan, tiene, cumplidos, cli>>
  BY DEF Handshake, HBienvenida, HRecibir, HDesconexion, HPostear, cliente, datos
<1>2. ASSUME NEW t \in Entrenadores
      PROVE  (sock'[t] = "abierto" => sock[t] = "abierto") /\ (HayRuta(t)' <=> HayRuta(t))
  <2>1. CASE HBienvenida(e)
    BY <2>1, SinRuta DEF HBienvenida, Enviar, Respuestas
  <2>2. CASE HRecibir(e) \/ HDesconexion(e) \/ HPostear(e)
    BY <2>2 DEF HRecibir, HDesconexion, HPostear, red, HayRuta, TypeOK, TRed
  <2>. QED BY <2>1, <2>2 DEF Handshake
<1>3. \A t \in Entrenadores : Sigue(t)
  BY <1>1, <1>2 DEF Sigue, EnJuego, Devuelto
<1>. QED BY <1>3, SiguenTodos

LEMMA CuentaPlanificador ==
  ASSUME TypeOK, CInv, Planificador
  PROVE  CInv'
<1>. USE DEF TypeOK
<1>1. CASE PDevolver
  <2>1. /\ UNCHANGED <<plan, cumplidos, cli, sock, resp>> /\ plan.pc = "devolver"
        /\ \A t \in Entrenadores : t # plan.ent => tiene'[t] = tiene[t]
    BY <1>1 DEF PDevolver, Plan, hilos, cliente, red, TDatos
  <2>2. \A t \in Entrenadores : Sigue(t)
    BY <2>1 DEF Sigue, EnJuego, Devuelto, HayRuta
  <2>. QED BY <2>2, SiguenTodos
<1>2. CASE PLiberar
  <2>1. /\ UNCHANGED <<tiene, cumplidos, cli, resp>> /\ plan.ent \in Entrenadores
        /\ sock' = [sock EXCEPT ![plan.ent] = "cerrado"]
    BY <1>2 DEF PLiberar, Plan, datos, cliente, TPlan
  <2>2. \A t \in Entrenadores : Sigue(t)
    BY <2>1 DEF Sigue, EnJuego, Devuelto, HayRuta, TRed
  <2>. QED BY <2>2, SiguenTodos
<1>3. ASSUME UNCHANGED <<tiene, cumplidos, cli>>, plan.pc # "devolver",
             \/ UNCHANGED <<sock, resp>>
             \/ \E T : \E m \in Respuestas \ {"Ruta"} : EnviarATodos(T, m)
      PROVE  CInv'
  <2>1. ASSUME NEW t \in Entrenadores
        PROVE  (sock'[t] = "abierto" => sock[t] = "abierto") /\ (HayRuta(t)' <=> HayRuta(t))
    <3>1. CASE UNCHANGED <<sock, resp>>
      BY <3>1 DEF HayRuta
    <3>2. ASSUME NEW T, NEW m \in Respuestas \ {"Ruta"}, EnviarATodos(T, m)
          PROVE  (sock'[t] = "abierto" => sock[t] = "abierto") /\ (HayRuta(t)' <=> HayRuta(t))
      BY <3>2, SinRuta
    <3>. QED BY <1>3, <3>1, <3>2
  <2>2. \A t \in Entrenadores : Sigue(t)
    BY <1>3, <2>1 DEF Sigue, EnJuego, Devuelto
  <2>. QED BY <2>2, SiguenTodos
<1>4. CASE PEsperar \/ PSacar \/ PFinQuantum \/ PPostReady \/ PBloquear \/ PPostBlocked
  BY <1>3, <1>4 DEF PEsperar, PSacar, PFinQuantum, PPostReady, PBloquear, PPostBlocked, Plan,
                    datos, red, cliente
<1>5. ASSUME NEW t \in Entrenadores, Atender(t)
      PROVE  CInv'
  <2>1. UNCHANGED <<tiene, cumplidos, cli>> /\ plan.pc = "atender"
    BY <1>5 DEF Atender, PDesconexion, PCoordenadas, PNoExiste, PMover, PCapturar, PMedalla,
                Recibe, Plan, datos, cliente
  <2>2. UNCHANGED <<sock, resp>> \/ \E m \in Respuestas \ {"Ruta"} : EnviarATodos({t}, m)
    BY <1>5 DEF Atender, PDesconexion, PCoordenadas, PNoExiste, PMover, PCapturar, PMedalla,
                Enviar, red, Respuestas
  <2>. QED BY <1>3, <2>1, <2>2
<1>. QED BY <1>1, <1>2, <1>4, <1>5 DEF Planificador

\* Freed by the other two threads.
LEMMA CuentaExpulsado ==
  ASSUME TypeOK, CInv, NEW e \in Entrenadores, Desconectar(e), UNCHANGED <<plan, cumplidos, cli>>,
         \A t \in Entrenadores \ {e} : resp'[t] = resp[t]
  PROVE  CInv'
<1>1. \A t \in Entrenadores : Sigue(t)
  BY DEF Sigue, EnJuego, Devuelto, HayRuta, Desconectar, TypeOK, TRed, TDatos
<1>. QED BY <1>1, SiguenTodos

LEMMA CuentaCaido ==
  ASSUME TypeOK, CInv, QuitarCaido, UNCHANGED <<plan, cumplidos, cli, resp>>
  PROVE  CInv'
<1>1. PICK k \in Caidos : Desconectar(eBlocked[k])
  BY DEF QuitarCaido
<1>2. PICK e \in Entrenadores : e = eBlocked[k]
  BY Sacado DEF Caidos, TypeOK, TListas
<1>. QED BY <1>1, <1>2, CuentaExpulsado

\* One more pokemon, and one more route to read.
LEMMA CuentaOtorgar ==
  ASSUME TypeOK, DInv, PInv, CInv, AOtorgar
  PROVE  CInv'
<1>. USE DEF TypeOK, TListas
<1>0. PICK e \in Entrenadores : e = Head(eBlocked) /\ eBlocked # <<>>
  BY DEF AOtorgar
<1>1. /\ UNCHANGED <<plan, cumplidos, cli>> /\ Enviar(e, "Ruta")
      /\ tiene' = [tiene EXCEPT ![e][obj[e]] = @ + 1]
  BY <1>0 DEF AOtorgar, cliente
<1>2. EnBlocked(e)
  BY <1>0, Descabezado DEF EnBlocked
<1>3. PICK n \in PokeNests : n = obj[e]
  BY <1>2, EnEspera DEF PInv
<1>4. Cuenta(e)'
  <2>. SUFFICES ASSUME sock'[e] = "abierto", cli'[e] # "desfasado", ~Devuelto(e)'
                PROVE  EsSuma(cumplidos'[e] + Hay(HayRuta(e)'), PokeNests, tiene'[e])
    BY DEF Cuenta, EnJuego
  <2>1. /\ sock[e] = "abierto" /\ resp'[e] = Append(resp[e], "Ruta") /\ ~Devuelto(e)
    BY <1>1, EnviadoConv DEF Respuestas, Devuelto, TRed
  <2>2. cli[e] \in DOMAIN Esperadas
    BY <1>1, <2>1, Estaciones DEF PInv, Conv, Conexion, TCliente
  <2>3. ~HayRuta(e)
    BY <1>2, <2>2, EnEspera DEF PInv, SinPosta, Avisos, HayRuta
  <2>4. HayRuta(e)'
    <3>1. resp[e] \in Seq(Respuestas) /\ "Ruta" \in Respuestas
      BY DEF TRed, Respuestas
    <3>2. Len(resp[e]) + 1 \in DOMAIN Append(resp[e], "Ruta")
          /\ Append(resp[e], "Ruta")[Len(resp[e]) + 1] = "Ruta"
      BY <3>1
    <3>. QED BY <2>1, <3>2 DEF HayRuta
  <2>5. EsSuma(cumplidos[e], PokeNests, tiene[e])
    <3>1. EsSuma(cumplidos[e] + 0, PokeNests, tiene[e]) /\ cumplidos[e] \in Nat
      BY <1>1, <2>1, <2>3 DEF CInv, Cuenta, EnJuego, Hay, TCliente
    <3>2. cumplidos[e] + 0 = cumplidos[e]
      BY <3>1
    <3>. QED BY <3>1, <3>2
  <2>6. tiene[e] \in [PokeNests -> Nat] /\ tiene'[e] = [tiene[e] EXCEPT ![n] = @ + 1]
    BY <1>1, <1>3 DEF TDatos
  <2>7. EsSuma(cumplidos[e] + 1, PokeNests, tiene'[e])
    <3>. DEFINE f == tiene[e]
                g == tiene'[e]
    <3>1. /\ f \in [PokeNests -> Nat] /\ g \in [PokeNests -> Nat]
          /\ g[n] = f[n] + 1 /\ \A d \in PokeNests \ {n} : g[d] = f[d]
      BY <2>6
    <3>2. EsSuma(cumplidos[e], PokeNests, f) /\ IsFiniteSet(PokeNests)
      BY <2>5, SupuestoMapa
    <3>. HIDE DEF f, g
    <3>3. EsSuma(cumplidos[e] + 1, PokeNests, g)
      BY <3>1, <3>2, SumaUno
    <3>. QED BY <3>3 DEF g
  <2>8. cumplidos'[e] = cumplidos[e] /\ Hay(HayRuta(e)') = 1
    BY <1>1, <2>4 DEF Hay
  <2>. QED BY <2>7, <2>8
<1>5. ASSUME NEW t \in Entrenadores \ {e}
      PROVE  Sigue(t)
  BY <1>1, EnviadoConv DEF Sigue, EnJuego, Devuelto, HayRuta, Respuestas, TDatos
<1>. QED BY <1>4, <1>5, SiguenTodos

LEMMA CuentaHilos ==
  ASSUME TypeOK, DInv, PInv, CInv, Asignador \/ Deadlock
  PROVE  CInv'
<1>. USE DEF TypeOK
<1>1. CASE AQuitarCaido \/ DQuitarCaido
  BY <1>1, CuentaCaido DEF AQuitarCaido, DQuitarCaido, cliente
<1>2. CASE \/ AEsperar \/ ATomar \/ ADetectados \/ AVacia \/ ARotar \/ AAgregar \/ APostear
           \/ DTomar \/ DDetectados \/ DDecidir \/ DFin
  <2>1. UNCHANGED <<plan, tiene, cumplidos, cli, sock, resp>>
    BY <1>2 DEF AEsperar, ATomar, ADetectados, AVacia, ARotar, AAgregar, APostear,
                DTomar, DDetectados, DDecidir, DFin, datos, red, cliente
  <2>2. \A t \in Entrenadores : Sigue(t)
    BY <2>1 DEF Sigue, EnJuego, Devuelto, HayRuta
  <2>. QED BY <2>2, SiguenTodos
<1>3. CASE DAnalizar \/ DCombate
  <2>1. /\ UNCHANGED <<plan, tiene, cumplidos, cli>>
        /\ \/ UNCHANGED <<sock, resp>>
           \/ \E T : \E m \in Respuestas \ {"Ruta"} : EnviarATodos(T, m)
    BY <1>3 DEF DAnalizar, DCombate, Avisar, Duelo, Enviar, Respuestas, datos, cliente
  <2>2. ASSUME NEW t \in Entrenadores
        PROVE  (sock'[t] = "abierto" => sock[t] = "abierto") /\ (HayRuta(t)' <=> HayRuta(t))
    <3>1. CASE UNCHANGED <<sock, resp>>
      BY <3>1 DEF HayRuta
    <3>2. ASSUME NEW T, NEW m \in Respuestas \ {"Ruta"}, EnviarATodos(T, m)
          PROVE  (sock'[t] = "abierto" => sock[t] = "abierto") /\ (HayRuta(t)' <=> HayRuta(t))
      BY <3>2, SinRuta
    <3>. QED BY <2>1, <3>1, <3>2
  <2>3. \A t \in Entrenadores : Sigue(t)
    BY <2>1, <2>2 DEF Sigue, EnJuego, Devuelto
  <2>. QED BY <2>3, SiguenTodos
<1>4. CASE DMatar
  <2>1. UNCHANGED <<plan, cumplidos, cli>>
    BY <1>4 DEF DMatar, cliente
  <2>2. CASE UNCHANGED <<tiene, sock, resp>>
    <3>1. \A t \in Entrenadores : Sigue(t)
      BY <2>1, <2>2 DEF Sigue, EnJuego, Devuelto, HayRuta
    <3>. QED BY <3>1, SiguenTodos
  <2>3. CASE ~UNCHANGED <<tiene, sock, resp>>
    <3>1. /\ Desconectar(Head(eDeadlock)) /\ Head(eDeadlock) \in ToSet(eBlocked)
          /\ resp' = IF sock[Head(eDeadlock)] = "abierto"
                       THEN [resp EXCEPT ![Head(eDeadlock)] = Append(@, "K")] ELSE resp
      BY <1>4, <2>3 DEF DMatar
    <3>2. PICK e \in Entrenadores : e = Head(eDeadlock)
      BY <3>1 DEF ToSet, TListas
    <3>3. \A t \in Entrenadores \ {e} : resp'[t] = resp[t]
      BY <3>1, <3>2 DEF TRed
    <3>. QED BY <2>1, <3>1, <3>2, <3>3, CuentaExpulsado
  <2>. QED BY <2>2, <2>3
<1>. QED BY <1>1, <1>2, <1>3, <1>4, CuentaOtorgar DEF Asignador, Deadlock

\* The client reads, and counts what it reads.
LEMMA CuentaCliente ==
  ASSUME TypeOK, DInv, PInv, CInv, NEW e \in Entrenadores, Cliente(e)
  PROVE  CInv'
<1>. USE DEF TypeOK
<1>0. PICK r : Toma(e, r)
  BY DEF Cliente, CBienvenida, CCoordenadas, CMover, CCaptura, CAviso, CSalir, Desfasarse
<1>1. /\ UNCHANGED <<plan, tiene, hs>> /\ resp[e] \in Seq(Respuestas) /\ resp[e] # <<>>
      /\ Head(resp[e]) = r /\ resp'[e] = Tail(resp[e])
      /\ \A t \in Entrenadores \ {e} : resp'[t] = resp[t]
  BY <1>0 DEF Toma, hilos, datos, TRed
<1>2. \A t \in Entrenadores \ {e} : cumplidos'[t] = cumplidos[t] /\ sock'[t] = sock[t] /\ cli'[t] = cli[t]
  BY DEF Cliente, CBienvenida, CCoordenadas, CMover, CCaptura, CAviso, CSalir,
         Desfasarse, PedirProximo, Avanzar, Irse, cliente, TRed, TCliente
<1>3. ASSUME NEW t \in Entrenadores \ {e}
      PROVE  Sigue(t)
  BY <1>1, <1>2 DEF Sigue, EnJuego, Devuelto, HayRuta
<1>4. CASE CBienvenida(e) \/ CCaptura(e)
  <2>1. /\ \/ Toma(e, "Bienvenida") /\ cumplidos'[e] = 0
           \/ Toma(e, "Ruta") /\ cumplidos'[e] = cumplidos[e] + 1
        /\ sock' = sock
    BY <1>4 DEF CBienvenida, CCaptura, PedirProximo, TCliente
  <2>2. r \in {"Bienvenida", "Ruta"} /\ r \notin Avisos \cup Despedidas
        /\ cumplidos'[e] = IF r = "Bienvenida" THEN 0 ELSE cumplidos[e] + 1
    BY <1>1, <2>1 DEF Toma, Avisos, Despedidas
  <2>3. /\ SinPosta(resp'[e]) /\ sock[e] = "abierto" /\ ~Devuelto(e)
        /\ r = "Bienvenida" => hs[e] = "recibir"
    BY <1>0, <2>2, Leido DEF PInv
  <2>4. ~HayRuta(e)'
    BY <2>3 DEF SinPosta, Avisos, HayRuta
  <2>5. Cuenta(e)'
    <3>1. CASE r = "Bienvenida"
      <4>1. tiene'[e] = Nada
        BY <1>1, <2>3, <3>1 DEF DInv, SinJugar
      <4>2. cumplidos'[e] + Hay(HayRuta(e)') = 0
        BY <2>2, <2>4, <3>1 DEF Hay
      <4>. QED BY <4>1, <4>2, SumaNada DEF Cuenta
    <3>2. CASE r # "Bienvenida"
      <4>1. HayRuta(e)
        <5>1. 1 \in DOMAIN resp[e] /\ resp[e][1] = Head(resp[e])
          BY <1>1
        <5>. QED BY <1>1, <2>2, <3>2, <5>1 DEF HayRuta
      <4>2. EsSuma(cumplidos[e] + 1, PokeNests, tiene[e])
        BY <1>0, <2>3, <4>1, Estaciones DEF CInv, Cuenta, EnJuego, Hay, Toma
      <4>3. cumplidos'[e] + Hay(HayRuta(e)') = cumplidos[e] + 1
        BY <2>2, <2>4, <3>2 DEF Hay, TCliente
      <4>. QED BY <1>1, <4>2, <4>3 DEF Cuenta
    <3>. QED BY <3>1, <3>2
  <2>. QED BY <1>3, <2>5, SiguenTodos
<1>5. CASE CCoordenadas(e) \/ CMover(e) \/ CAviso(e)
  <2>1. /\ cumplidos'[e] = cumplidos[e] /\ sock' = sock /\ cli[e] # "desfasado"
        /\ \E q \in {"Coord", "OK", "D", "R"} : Toma(e, q)
    BY <1>5, Estaciones DEF CCoordenadas, CMover, CAviso, Avanzar, Desfasarse, Avisos, cliente, Toma
  <2>2. r # "Ruta"
    BY <1>1, <2>1 DEF Toma
  <2>3. HayRuta(e)' <=> HayRuta(e)
    <3>1. ASSUME NEW s \in Seq(Respuestas), s # <<>>, Head(s) # "Ruta"
          PROVE  (\E i \in DOMAIN Tail(s) : Tail(s)[i] = "Ruta") <=> (\E i \in DOMAIN s : s[i] = "Ruta")
      <4>. DEFINE u == Tail(s)
      <4>1. /\ DOMAIN s = 1..Len(s) /\ DOMAIN u = 1..Len(s) - 1 /\ Len(s) \in Nat \ {0}
            /\ (\A i \in 1..Len(s) - 1 : u[i] = s[i + 1]) /\ Head(s) = s[1]
        BY <3>1
      <4>. HIDE DEF u
      <4>2. ASSUME NEW i \in DOMAIN u, u[i] = "Ruta"
            PROVE  \E j \in DOMAIN s : s[j] = "Ruta"
        <5>1. i + 1 \in DOMAIN s /\ s[i + 1] = "Ruta"
          BY <4>1, <4>2
        <5>. QED BY <5>1
      <4>3. ASSUME NEW i \in DOMAIN s, s[i] = "Ruta"
            PROVE  \E j \in DOMAIN u : u[j] = "Ruta"
        <5>1. i # 1
          BY <3>1, <4>1, <4>3
        <5>2. i - 1 \in 1..Len(s) - 1 /\ (i - 1) + 1 = i
          BY <4>1, <4>3, <5>1
        <5>. QED BY <4>1, <4>3, <5>2
      <4>4. (\E i \in DOMAIN u : u[i] = "Ruta") <=> (\E i \in DOMAIN s : s[i] = "Ruta")
        BY <4>2, <4>3
      <4>. QED BY <4>4 DEF u
    <3>. QED BY <1>1, <2>2, <3>1 DEF HayRuta
  <2>4. Sigue(e)
    BY <1>1, <2>1, <2>3 DEF Sigue, EnJuego, Devuelto
  <2>. QED BY <1>3, <2>4, SiguenTodos
<1>6. CASE CSalir(e)
  <2>1. sock'[e] # "abierto"
    BY <1>6 DEF CSalir, Irse, TRed
  <2>. QED BY <1>3, <2>1, SiguenTodos DEF Sigue, EnJuego
<1>. QED BY <1>4, <1>5, <1>6 DEF Cliente

LEMMA CuentaResto ==
  ASSUME TypeOK, SinHilo, DInv, PInv, CInv,
         \/ \E t \in Entrenadores : Conectar(t) \/ Abandonar(t)
         \/ Recargar \/ UNCHANGED vars
  PROVE  CInv'
<1>. USE DEF TypeOK
<1>1. ASSUME NEW e \in Entrenadores, Conectar(e)
      PROVE  CInv'
  <2>1. /\ UNCHANGED <<plan, tiene, cumplidos, resp>> /\ sock[e] = "libre"
        /\ \A t \in Entrenadores \ {e} : sock'[t] = sock[t] /\ cli'[t] = cli[t]
    BY <1>1 DEF Conectar, datos, TRed, TCliente
  <2>2. cumplidos'[e] = 0 /\ resp'[e] = <<>> /\ tiene'[e] = Nada
    BY <2>1 DEF PInv, Conv, Conexion, SinHilo, DInv, SinJugar
  <2>3. cumplidos'[e] + Hay(HayRuta(e)') = 0
    BY <2>2 DEF Hay, HayRuta
  <2>4. Cuenta(e)'
    BY <2>2, <2>3, SumaNada DEF Cuenta
  <2>5. \A t \in Entrenadores \ {e} : Sigue(t)
    BY <2>1 DEF Sigue, EnJuego, Devuelto, HayRuta
  <2>. QED BY <2>4, <2>5, SiguenTodos
<1>2. ASSUME NEW e \in Entrenadores, Abandonar(e)
      PROVE  CInv'
  <2>1. /\ UNCHANGED <<plan, tiene, cumplidos>> /\ sock'[e] # "abierto"
        /\ \A t \in Entrenadores \ {e} : sock'[t] = sock[t] /\ resp'[t] = resp[t] /\ cli'[t] = cli[t]
    BY <1>2 DEF Abandonar, Irse, hilos, datos, TRed, TCliente
  <2>2. \A t \in Entrenadores : Sigue(t)
    BY <2>1 DEF Sigue, EnJuego, Devuelto, HayRuta
  <2>. QED BY <2>2, SiguenTodos
<1>3. CASE Recargar \/ UNCHANGED vars
  <2>1. UNCHANGED <<plan, tiene, cumplidos, cli, sock, resp>>
    BY <1>3 DEF Recargar, vars, hilos, datos, red, cliente
  <2>2. \A t \in Entrenadores : Sigue(t)
    BY <2>1 DEF Sigue, EnJuego, Devuelto, HayRuta
  <2>. QED BY <2>2, SiguenTodos
<1>. QED BY <1>1, <1>2, <1>3

\* How many there are, where there is one at most.
LEMMA UnoONinguno ==
  ASSUME NEW k, NEW I \in SUBSET {k}
  PROVE  Cardinality(I) = Hay(I # {})
<1>1. CASE I = {k}
  BY <1>1, FS_Singleton DEF Hay
<1>2. CASE I = {}
  BY <1>2, FS_EmptySet DEF Hay
<1>. QED BY <1>1, <1>2

\* The moves on their way: the last request, if it is one.
LEMMA EnCamino ==
  ASSUME TypeOK, NEW t \in Entrenadores, Solicitud(t), NEW op \in {"MR", "ML"}
  PROVE  Enviados(t, op) = Hay(Habla(t) /\ Ultimo(t).op = op)
<1>. DEFINE I == {i \in DOMAIN pedido[t] : pedido[t][i].op = op}
<1>1. pedido[t] \in Seq(Pedidos) /\ DOMAIN pedido[t] = 1..Len(pedido[t]) /\ Len(pedido[t]) \in Nat
  BY DEF TypeOK, TRed
<1>2. CASE ~Habla(t)
  <2>1. I = {}
    BY <1>1, <1>2 DEF Habla
  <2>. QED BY <1>2, <2>1, UnoONinguno DEF Enviados, Hay
<1>3. CASE Habla(t)
  <2>1. I \in SUBSET {Len(pedido[t])} /\ Len(pedido[t]) \in DOMAIN pedido[t]
    <3>1. CASE Len(pedido[t]) = 1
      <4>1. 1..Len(pedido[t]) = {1}
        BY <3>1
      <4>. QED BY <1>1, <3>1, <4>1
    <3>2. CASE Len(pedido[t]) = 2 /\ pedido[t][1].op = "Id"
      <4>1. 1..Len(pedido[t]) = {1, 2} /\ op # "Id"
        BY <3>2
      <4>2. \A i \in I : i = 2
        BY <1>1, <3>2, <4>1
      <4>. QED BY <1>1, <3>2, <4>1, <4>2
    <3>. QED BY <1>3, <3>1, <3>2 DEF Solicitud
  <2>2. I # {} <=> Ultimo(t).op = op
    BY <2>1 DEF Ultimo
  <2>3. Cardinality(I) = Hay(I # {})
    <3>. HIDE DEF I
    <3>. QED BY <2>1, UnoONinguno
  <2>. QED BY <1>3, <2>2, <2>3 DEF Enviados, Hay
<1>. QED BY <1>2, <1>3

\* The routes to read: one at most.
LEMMA RutasPorLeer ==
  ASSUME NEW t \in Entrenadores, \A i, j \in DOMAIN resp[t] : resp[t][i] = "Ruta" /\ resp[t][j] = "Ruta" => i = j
  PROVE  Veces(resp[t], "Ruta") = Hay(HayRuta(t))
<1>. DEFINE I == {i \in DOMAIN resp[t] : resp[t][i] = "Ruta"}
<1>1. CASE HayRuta(t)
  <2>1. PICK k \in DOMAIN resp[t] : resp[t][k] = "Ruta"
    BY <1>1 DEF HayRuta
  <2>2. I \in SUBSET {k} /\ I # {}
    BY <2>1
  <2>. HIDE DEF I
  <2>3. Cardinality(I) = Hay(I # {})
    BY <2>2, UnoONinguno
  <2>. QED BY <1>1, <2>2, <2>3 DEF I, Veces, Hay
<1>2. CASE ~HayRuta(t)
  <2>1. I = {}
    BY <1>2 DEF HayRuta
  <2>. QED BY <1>2, <2>1, FS_EmptySet DEF Veces, Hay
<1>. QED BY <1>1, <1>2

\* The pokemon of a trainer are a sum, of a row.
LEMMA EsFila ==
  ASSUME TDatos, NEW t \in Entrenadores
  PROVE  EsSuma(MapThenSumSet(LAMBDA n : tiene[t][n], PokeNests), PokeNests, tiene[t])
<1>1. IsFiniteSet(PokeNests) /\ tiene[t] \in [PokeNests -> Nat]
  BY SupuestoMapa DEF TDatos
<1>2. EsSuma(Fila(PokeNests, tiene[t]), PokeNests, tiene[t])
  BY <1>1, SumaFila
<1>3. MapThenSumSet(LAMBDA n : tiene[t][n], PokeNests) = Fila(PokeNests, tiene[t])
  BY DEF Fila
<1>. QED BY <1>2, <1>3

\* For any trainers, nests and objectives: the map and a trainer that plays agree on what
\* it has captured and on where it is, but for what is on its way between them (asignador,
\* devolverPokemons, planRR, planSRDF, irPosicionPokenest and capturarPokemon).
THEOREM EspejoSiempre == Spec => []Espejo
<1>1. Init => CInv
  BY DEF Init, CInv, Cuenta, EnJuego
<1>2. IInv /\ DInv /\ PInv /\ CInv /\ [Next]_vars => CInv'
  BY CuentaHandshake, CuentaPlanificador, CuentaHilos, CuentaCliente, CuentaResto DEF IInv, Next
<1>3. TypeOK /\ PInv /\ CInv => Espejo
  <2>. SUFFICES ASSUME TypeOK, PInv, CInv, NEW t \in Entrenadores, sock[t] = "abierto", ~Devuelto(t),
                       cli[t] # "desfasado"
                PROVE  /\ MapThenSumSet(LAMBDA n : tiene[t][n], PokeNests)
                            = cumplidos[t] + Veces(resp[t], "Ruta")
                       /\ x[t] = pos[t] + Enviados(t, "MR") - Enviados(t, "ML")
    BY DEF Espejo, Devuelto
  <2>1. Conv(t) /\ cli[t] \in DOMAIN Esperadas
    BY Estaciones DEF PInv, Conv, Conexion, TypeOK, TCliente
  <2>2. \A i, j \in DOMAIN resp[t] : resp[t][i] = "Ruta" /\ resp[t][j] = "Ruta" => i = j
    <3>1. SinPosta(resp[t]) \/ \E r : Posta(resp[t], r)
      BY <2>1 DEF Conv, Charla, Pidiendo, Esperando, Contestado
    <3>. QED BY <3>1 DEF SinPosta, Posta, Avisos
  <2>3. Veces(resp[t], "Ruta") = Hay(HayRuta(t))
    BY <2>2, RutasPorLeer
  <2>4. MapThenSumSet(LAMBDA n : tiene[t][n], PokeNests) = cumplidos[t] + Veces(resp[t], "Ruta")
    <3>. DEFINE v == MapThenSumSet(LAMBDA n : tiene[t][n], PokeNests)
                w == cumplidos[t] + Veces(resp[t], "Ruta")
    <3>1. EsSuma(v, PokeNests, tiene[t]) /\ EsSuma(w, PokeNests, tiene[t])
      BY <2>3, EsFila DEF CInv, Cuenta, EnJuego, TypeOK
    <3>2. IsFiniteSet(PokeNests) /\ tiene[t] \in [PokeNests -> Nat]
      BY SupuestoMapa DEF TypeOK, TDatos
    <3>. HIDE DEF v, w
    <3>3. v = w
      BY <3>1, <3>2, SumaUnica
    <3>. QED BY <3>3 DEF v, w
  <2>5. x[t] = pos[t] + Enviados(t, "MR") - Enviados(t, "ML")
    <3>1. /\ Enviados(t, "MR") = Hay(Habla(t) /\ Ultimo(t).op = "MR")
          /\ Enviados(t, "ML") = Hay(Habla(t) /\ Ultimo(t).op = "ML")
      BY <2>1, EnCamino DEF Conv
    <3>2. x[t] = pos[t] + Movida(t) /\ pos[t] \in Int
      BY <2>1 DEF Conv, Lugar, TypeOK, TDatos
    <3>. QED BY <3>1, <3>2 DEF Movida, Hay
  <2>. QED BY <2>4, <2>5
<1>. QED BY <1>1, <1>2, <1>3, Invariante, CadaUnoEnSuLugar, PorTurnos, TipoCorrecto, PTL DEF Spec

-----------------------------------------------------------------------------
(* The process, where no battle is ever called. *)

\* No thread is about to write to t.
Mudo(t) == ~Habla(t) /\ ~Bloqueado(t) /\ hs[t] # "bienvenida"

\* Nobody writes again to a broken connection.
Rotos == \A t \in Entrenadores : sock[t] = "roto" => Mudo(t)
EnPaz == ~meta.batalla /\ dlk \in {"dormir", "detectar", "analizar", "decidir"}
SInv == mapa = "vivo" /\ Rotos /\ EnPaz

\* The only write of a step to a trainer that was waiting for it.
LEMMA Escrito ==
  ASSUME TypeOK, SInv, NEW e \in Entrenadores, NEW m \in Respuestas, Enviar(e, m),
         ~Mudo(e), Mudo(e)', \A t \in Entrenadores \ {e} : Mudo(t) => Mudo(t)'
  PROVE  mapa' = "vivo" /\ Rotos'
<1>1. sock[e] # "roto"
  BY DEF SInv, Rotos
<1>2. mapa' = "vivo"
  BY <1>1 DEF Enviar, EnviarATodos, SInv
<1>3. \A t \in Entrenadores \ {e} : sock'[t] = sock[t]
  BY EnviadoConv
<1>. QED BY <1>2, <1>3 DEF SInv, Rotos

\* A step that writes to nobody.
LEMMA NoEscrito ==
  ASSUME SInv, mapa' = mapa,
         \A t \in Entrenadores : sock'[t] = "roto" => sock[t] = "roto" /\ (Mudo(t) => Mudo(t)')
  PROVE  mapa' = "vivo" /\ Rotos'
BY DEF SInv, Rotos

LEMMA SanoHandshake ==
  ASSUME TypeOK, DInv, PInv, SInv, NEW e \in Entrenadores, Handshake(e)
  PROVE  mapa' = "vivo" /\ Rotos'
<1>. USE DEF TypeOK, THilos, TRed, Hs
<1>1. CASE HBienvenida(e)
  <2>1. /\ UNCHANGED <<eBlocked, plan, pedido>> /\ hs[e] = "bienvenida" /\ hs'[e] = "recibir"
        /\ \A t \in Entrenadores \ {e} : hs'[t] = hs[t]
        /\ Enviar(e, "Bienvenida")
    BY <1>1 DEF HBienvenida, listas
  <2>2. ~Habla(e) /\ ~Bloqueado(e)
    BY <2>1 DEF PInv, Conv, Solicitud, Bloqueado, DInv, UnLugar, Llegando
  <2>3. ~Mudo(e) /\ Mudo(e)'
    BY <2>1, <2>2 DEF Mudo, Habla, Bloqueado, EnBlocked
  <2>4. \A t \in Entrenadores \ {e} : Mudo(t) => Mudo(t)'
    BY <2>1 DEF Mudo, Habla, Bloqueado, EnBlocked
  <2>. QED BY <2>1, <2>3, <2>4, Escrito DEF Respuestas
<1>2. CASE HRecibir(e)
  <2>1. /\ UNCHANGED <<eBlocked, plan, sock, mapa>> /\ hs'[e] = "postear"
        /\ pedido[e] # <<>>
        /\ \A t \in Entrenadores \ {e} : hs'[t] = hs[t] /\ pedido'[t] = pedido[t]
    BY <1>2 DEF HRecibir
  <2>. QED BY <2>1, NoEscrito DEF Mudo, Habla, Bloqueado, EnBlocked
<1>3. CASE HDesconexion(e)
  <2>1. /\ UNCHANGED <<eBlocked, plan, pedido, mapa>> /\ sock'[e] = "cerrado"
        /\ \A t \in Entrenadores \ {e} : hs'[t] = hs[t] /\ sock'[t] = sock[t]
    BY <1>3 DEF HDesconexion, listas
  <2>. QED BY <2>1, NoEscrito DEF Mudo, Habla, Bloqueado, EnBlocked
<1>4. CASE HPostear(e)
  <2>1. /\ UNCHANGED <<eBlocked, plan, pedido, sock, mapa>> /\ hs'[e] = "fin"
        /\ \A t \in Entrenadores \ {e} : hs'[t] = hs[t]
    BY <1>4 DEF HPostear, listas, red
  <2>. QED BY <2>1, NoEscrito DEF Mudo, Habla, Bloqueado, EnBlocked
<1>. QED BY <1>1, <1>2, <1>3, <1>4 DEF Handshake

LEMMA SanoAtender ==
  ASSUME TypeOK, DInv, PInv, SInv, NEW e \in Entrenadores, Atender(e)
  PROVE  mapa' = "vivo" /\ Rotos'
<1>. USE DEF TypeOK
<1>1. CASE PDesconexion(e)
  <2>1. /\ UNCHANGED <<eBlocked, pedido, sock, hs, mapa>> /\ plan'.pc = "devolver"
    BY <1>1 DEF PDesconexion, Plan, listas, red, TPlan
  <2>. QED BY <2>1, NoEscrito DEF Mudo, Habla, Bloqueado, EnBlocked
<1>2. CASE PCapturar(e)
  <2>1. /\ UNCHANGED <<eBlocked, hs, sock, mapa>> /\ Recibe(e, "G") /\ plan'.ent = e
    BY <1>2 DEF PCapturar, Recibe, listas, TPlan
  <2>2. Habla(e) /\ \A t \in Entrenadores \ {e} : pedido'[t] = pedido[t]
    BY <2>1, Recibido DEF PInv
  <2>3. sock[e] # "roto"
    BY <2>2 DEF SInv, Rotos, Mudo
  <2>4. ASSUME NEW t \in Entrenadores \ {e}
        PROVE  Mudo(t) => Mudo(t)'
    BY <2>1, <2>2 DEF Mudo, Habla, Bloqueado, EnBlocked
  <2>. QED BY <2>1, <2>3, <2>4, NoEscrito
<1>3. ASSUME NEW op, NEW m \in Respuestas, Recibe(e, op), Enviar(e, m),
             UNCHANGED <<eBlocked, hs>>, plan'.pc # "bloquear"
      PROVE  mapa' = "vivo" /\ Rotos'
  <2>1. /\ Habla(e) /\ ~Habla(e)' /\ ~EnBlocked(e) /\ hs[e] \in {"postear", "fin"}
        /\ \A t \in Entrenadores \ {e} : pedido'[t] = pedido[t]
    BY <1>3, Recibido DEF PInv
  <2>2. ~Mudo(e) /\ Mudo(e)'
    BY <1>3, <2>1 DEF Mudo, Bloqueado, EnBlocked
  <2>3. \A t \in Entrenadores \ {e} : Mudo(t) => Mudo(t)'
    BY <1>3, <2>1 DEF Mudo, Habla, Bloqueado, EnBlocked
  <2>. QED BY <1>3, <2>2, <2>3, Escrito
<1>4. CASE PCoordenadas(e)
  <2>1. /\ UNCHANGED <<eBlocked, hs>> /\ Recibe(e, "C") /\ Enviar(e, "Coord")
        /\ plan.pc = "atender" /\ plan'.pc \in {plan.pc, "postReady"}
    BY <1>4 DEF PCoordenadas, Recibe, Plan, TPlan
  <2>. QED BY <1>3, <2>1 DEF Respuestas
<1>5. CASE PNoExiste(e)
  <2>1. UNCHANGED <<eBlocked, hs>> /\ Recibe(e, "C") /\ Enviar(e, "N") /\ plan'.pc = "devolver"
    BY <1>5 DEF PNoExiste, listas, TPlan
  <2>. QED BY <1>3, <2>1 DEF Respuestas
<1>6. CASE PMover(e)
  <2>1. /\ UNCHANGED <<eBlocked, hs>> /\ Enviar(e, "OK") /\ plan.pc = "atender" /\ plan'.pc = plan.pc
        /\ Recibe(e, "MR") \/ Recibe(e, "ML")
    BY <1>6 DEF PMover, Recibe, Plan, listas, TPlan
  <2>. QED BY <1>3, <2>1 DEF Respuestas
<1>7. CASE PMedalla(e)
  <2>1. UNCHANGED <<eBlocked, hs>> /\ Recibe(e, "O") /\ Enviar(e, "Medalla") /\ plan'.pc = "devolver"
    BY <1>7 DEF PMedalla, listas, TPlan
  <2>. QED BY <1>3, <2>1 DEF Respuestas
<1>. QED BY <1>1, <1>2, <1>4, <1>5, <1>6, <1>7 DEF Atender

LEMMA SanoPlanificador ==
  ASSUME IInv, DInv, PInv, SInv, Planificador
  PROVE  mapa' = "vivo" /\ Rotos'
<1>. USE DEF IInv, TypeOK
<1>1. CASE PEsperar \/ PFinQuantum \/ PPostReady \/ PPostBlocked
  <2>1. UNCHANGED <<eBlocked, hs, pedido, sock, mapa>>
    BY <1>1 DEF PEsperar, PFinQuantum, PPostReady, PPostBlocked, listas, red
  <2>2. plan'.pc \in {"sacar", "postReady", "esperar"}
    <3>1. CASE PEsperar
      BY <3>1 DEF PEsperar
    <3>2. CASE PFinQuantum \/ PPostReady \/ PPostBlocked
      BY <3>2 DEF PFinQuantum, PPostReady, PPostBlocked, TPlan
    <3>. QED BY <1>1, <3>1, <3>2
  <2>. QED BY <2>1, <2>2, NoEscrito DEF Mudo, Habla, Bloqueado, EnBlocked
<1>2. CASE PSacar
  <2>1. eReady # <<>>
    <3>1. TypeOK /\ FichasReady /\ plan.pc = "sacar"
      BY <1>2 DEF PSacar, Plan
    <3>. QED BY <3>1, Postean DEF FichasReady, Hay, TSems, TListas
  <2>2. UNCHANGED <<eBlocked, hs, pedido, sock, mapa>> /\ plan'.pc = "atender"
    BY <1>2, <2>1 DEF PSacar, red, TPlan
  <2>. QED BY <2>2, NoEscrito DEF Mudo, Habla, Bloqueado, EnBlocked
<1>3. CASE PBloquear
  <2>1. /\ UNCHANGED <<hs, pedido, sock, mapa>> /\ plan.pc = "bloquear" /\ plan.ent \in Entrenadores
        /\ eBlocked' = Append(eBlocked, plan.ent) /\ plan'.pc = "postBlocked"
    BY <1>3 DEF PBloquear, Plan, TPlan, red
  <2>2. ToSet(eBlocked') = ToSet(eBlocked) \cup {plan.ent}
    BY <2>1, Agregado DEF TListas
  <2>. QED BY <2>1, <2>2, NoEscrito DEF Mudo, Habla, Bloqueado, EnBlocked
<1>4. CASE PDevolver
  BY <1>4, NoEscrito DEF PDevolver, Mudo, Habla, Bloqueado, EnBlocked, listas, hilos, red
<1>5. CASE PLiberar
  <2>1. /\ UNCHANGED <<eBlocked, hs, pedido, mapa>> /\ plan'.pc = "esperar"
        /\ \A t \in Entrenadores : sock'[t] = "roto" => sock[t] = "roto"
    BY <1>5 DEF PLiberar, Plan, listas, TPlan, TRed
  <2>. QED BY <2>1, NoEscrito DEF Mudo, Habla, Bloqueado, EnBlocked
<1>. QED BY <1>1, <1>2, <1>3, <1>4, <1>5, SanoAtender DEF Planificador

\* One that has gone is taken out of eBlocked.
LEMMA SanoCaido ==
  ASSUME TypeOK, DInv, SInv, QuitarCaido, UNCHANGED <<plan, hs, pedido, mapa>>
  PROVE  mapa' = "vivo" /\ Rotos'
<1>1. PICK k \in Caidos : eBlocked' = RemoveAt(eBlocked, k) /\ Desconectar(eBlocked[k])
  BY DEF QuitarCaido
<1>2. k \in DOMAIN eBlocked /\ eBlocked \in Seq(Entrenadores) /\ IsInjective(eBlocked)
  BY <1>1 DEF Caidos, TypeOK, TListas, DInv
<1>3. ToSet(eBlocked') \subseteq ToSet(eBlocked)
  BY <1>1, <1>2, Sacado
<1>4. \A t \in Entrenadores : sock'[t] = "roto" => sock[t] = "roto"
  BY <1>1 DEF Desconectar, TypeOK, TRed
<1>. QED BY <1>3, <1>4, NoEscrito DEF Mudo, Habla, Bloqueado, EnBlocked

LEMMA SanoAsignador ==
  ASSUME TypeOK, DInv, PInv, SInv, Asignador
  PROVE  mapa' = "vivo" /\ Rotos'
<1>. USE DEF TypeOK, TListas
<1>1. CASE AEsperar \/ ATomar \/ ADetectados \/ AVacia \/ AAgregar \/ APostear
  <2>1. UNCHANGED <<eBlocked, plan, hs, pedido, sock, mapa>>
    BY <1>1 DEF AEsperar, ATomar, ADetectados, AVacia, AAgregar, APostear, listas, red
  <2>. QED BY <2>1, NoEscrito DEF Mudo, Habla, Bloqueado, EnBlocked
<1>2. CASE AQuitarCaido
  BY <1>2, SanoCaido DEF AQuitarCaido
<1>3. CASE AOtorgar
  <2>0. PICK e \in Entrenadores : e = Head(eBlocked) /\ eBlocked # <<>>
    BY <1>3 DEF AOtorgar
  <2>1. UNCHANGED <<plan, hs, pedido>> /\ Enviar(e, "Ruta") /\ eBlocked' = Tail(eBlocked)
    BY <1>3, <2>0 DEF AOtorgar
  <2>2. EnBlocked(e) /\ ToSet(eBlocked') = ToSet(eBlocked) \ {e}
    BY <2>0, <2>1, Descabezado DEF EnBlocked, DInv
  <2>3. ~Habla(e) /\ plan.ent # e /\ hs[e] \in {"postear", "fin"}
    BY <2>2, EnEspera DEF PInv
  <2>4. ~Mudo(e) /\ Mudo(e)'
    BY <2>1, <2>2, <2>3 DEF Mudo, Habla, Bloqueado, EnBlocked
  <2>5. \A t \in Entrenadores \ {e} : Mudo(t) => Mudo(t)'
    BY <2>1, <2>2 DEF Mudo, Habla, Bloqueado, EnBlocked
  <2>. QED BY <2>1, <2>4, <2>5, Escrito DEF Respuestas
<1>4. CASE ARotar
  <2>1. /\ UNCHANGED <<plan, hs, sock, pedido, mapa>>
        /\ eBlocked # <<>> /\ eBlocked' = Append(Tail(eBlocked), Head(eBlocked))
    BY <1>4 DEF ARotar, red
  <2>2. ToSet(eBlocked') = ToSet(eBlocked)
    BY <2>1, Rotado DEF DInv
  <2>. QED BY <2>1, <2>2, NoEscrito DEF Mudo, Habla, Bloqueado, EnBlocked
<1>. QED BY <1>1, <1>2, <1>3, <1>4 DEF Asignador

\* The deadlock thread looks for deadlocks and says nothing.
LEMMA SanoDeadlock ==
  ASSUME TypeOK, DInv, PInv, SInv, Deadlock
  PROVE  SInv'
<1>. USE DEF TypeOK, SInv, EnPaz
<1>1. CASE DQuitarCaido
  <2>1. UNCHANGED <<plan, hs, pedido, mapa, dlk, meta>> /\ QuitarCaido
    BY <1>1 DEF DQuitarCaido, entorno
  <2>. QED BY <2>1, SanoCaido
<1>2. CASE DTomar \/ DDetectados \/ DAnalizar \/ DDecidir
  <2>1. /\ UNCHANGED <<eBlocked, plan, hs, pedido, sock, mapa, meta>>
        /\ dlk' \in {"dormir", "detectar", "analizar", "decidir"}
    BY <1>2 DEF DTomar, DDetectados, DAnalizar, DDecidir, listas, red, entorno
  <2>. QED BY <2>1, NoEscrito DEF Mudo, Habla, Bloqueado, EnBlocked
<1>3. CASE DCombate \/ DMatar \/ DFin
  BY <1>3 DEF DCombate, DMatar, DFin, Dlk
<1>. QED BY <1>1, <1>2, <1>3 DEF Deadlock

LEMMA SanoCliente ==
  ASSUME TypeOK, PInv, SInv, NEW e \in Entrenadores,
         Cliente(e) \/ Conectar(e) \/ Abandonar(e)
  PROVE  mapa' = "vivo" /\ Rotos'
<1>. USE DEF TypeOK, TRed
<1>1. /\ UNCHANGED <<eBlocked, plan, mapa>> /\ sock[e] # "roto"
      /\ sock'[e] = sock[e] \/ sock'[e] \in {"finCliente", "abierto"}
      /\ \A t \in Entrenadores \ {e} :
           sock'[t] = sock[t] /\ hs'[t] = hs[t] /\ pedido'[t] = pedido[t]
  <2>1. CASE Conectar(e)
    BY <2>1 DEF Conectar, listas, THilos
  <2>2. CASE Abandonar(e)
    BY <2>2, Estaciones DEF Abandonar, Irse, PInv, Conv, Conexion, listas, hilos
  <2>3. CASE Cliente(e)
    <3>1. PICK r : Toma(e, r)
      BY <2>3 DEF Cliente, CBienvenida, CCoordenadas, CMover, CCaptura, CAviso, CSalir, Desfasarse
    <3>2. UNCHANGED <<eBlocked, plan, hs, mapa>> /\ cli[e] \in DOMAIN Esperadas
      BY <3>1 DEF Toma, listas, hilos
    <3>3. sock[e] # "roto"
      BY <3>2, Estaciones DEF PInv, Conv, Conexion
    <3>4. \/ UNCHANGED <<sock, pedido>>
          \/ Irse(e) /\ UNCHANGED pedido
          \/ UNCHANGED sock /\ \E s : pedido' = [pedido EXCEPT ![e] = s]
      <4>1. CASE CAviso(e) \/ CSalir(e)
        BY <4>1 DEF CAviso, CSalir
      <4>2. CASE CBienvenida(e) \/ CCaptura(e)
        BY <4>2 DEF CBienvenida, CCaptura, PedirProximo
      <4>3. CASE CCoordenadas(e) \/ CMover(e)
        BY <4>3 DEF CCoordenadas, CMover, Avanzar, Desfasarse
      <4>. QED BY <2>3, <4>1, <4>2, <4>3 DEF Cliente
    <3>. QED BY <3>2, <3>3, <3>4 DEF Irse
  <2>. QED BY <2>1, <2>2, <2>3
<1>2. ASSUME NEW t \in Entrenadores \ {e}
      PROVE  Mudo(t) => Mudo(t)'
  BY <1>1 DEF Mudo, Habla, Bloqueado, EnBlocked
<1>. QED BY <1>1, <1>2, NoEscrito

\* Where no battle is ever called (batalla = 0 in every metadata file the map reads),
\* nothing stops the map and the deadlock thread never hangs: no thread writes twice to
\* a connection that its client has closed, and planRR and planSRDF always find a
\* trainer in eReady.
THEOREM ProcesoSanoSinBatalla ==
  ASSUME \A m \in Metas : ~m.batalla
  PROVE  Spec => []ProcesoSano
<1>1. Init => SInv
  BY DEF Init, SInv, Rotos, EnPaz
<1>2. IInv /\ DInv /\ PInv /\ SInv /\ [Next]_vars => SInv'
  <2>. SUFFICES ASSUME IInv, DInv, PInv, SInv, [Next]_vars
                PROVE  SInv'
    OBVIOUS
  <2>. USE DEF IInv
  <2>1. ASSUME NEW t \in Entrenadores, Handshake(t) \/ Conectar(t) \/ Cliente(t) \/ Abandonar(t)
        PROVE  SInv'
    <3>1. mapa' = "vivo" /\ Rotos'
      BY <2>1, SanoHandshake, SanoCliente
    <3>2. UNCHANGED <<dlk, meta>>
      <4>1. CASE Handshake(t)
        BY <4>1 DEF Handshake, HBienvenida, HRecibir, HDesconexion, HPostear, entorno
      <4>2. CASE Conectar(t) \/ Abandonar(t)
        BY <4>2 DEF Conectar, Abandonar, hilos, entorno
      <4>3. CASE Cliente(t)
        BY <4>3 DEF Cliente, CBienvenida, CCoordenadas, CMover, CCaptura, CAviso, CSalir,
                    Desfasarse, Toma, hilos, entorno
      <4>. QED BY <2>1, <4>1, <4>2, <4>3
    <3>. QED BY <3>1, <3>2 DEF SInv, EnPaz
  <2>2. CASE Planificador
    <3>1. UNCHANGED <<dlk, meta>>
      BY <2>2 DEF Planificador, PEsperar, PSacar, PFinQuantum, PPostReady, Atender, PDesconexion,
                  PCoordenadas, PNoExiste, PMover, PCapturar, PMedalla, PBloquear, PPostBlocked,
                  PDevolver, PLiberar, hilos, entorno
    <3>. QED BY <2>2, <3>1, SanoPlanificador DEF SInv, EnPaz
  <2>3. CASE Asignador
    <3>1. UNCHANGED <<dlk, meta>>
      BY <2>3 DEF Asignador, AEsperar, ATomar, AQuitarCaido, ADetectados, AVacia, AOtorgar,
                  ARotar, AAgregar, APostear, entorno
    <3>. QED BY <2>3, <3>1, SanoAsignador DEF SInv, EnPaz
  <2>4. CASE Deadlock
    BY <2>4, SanoDeadlock
  <2>5. CASE Recargar \/ UNCHANGED vars
    <3>1. UNCHANGED <<eBlocked, plan, hs, pedido, sock, mapa, dlk>> /\ (meta' = meta \/ meta' \in Metas)
      BY <2>5 DEF Recargar, vars, listas, hilos, red
    <3>2. mapa' = "vivo" /\ Rotos'
      BY <3>1, NoEscrito DEF Mudo, Habla, Bloqueado, EnBlocked
    <3>. QED BY <3>1, <3>2 DEF SInv, EnPaz
  <2>. QED BY <2>1, <2>2, <2>3, <2>4, <2>5 DEF Next
<1>3. SInv => ProcesoSano
  BY DEF SInv, EnPaz, ProcesoSano
<1>. QED BY <1>1, <1>2, <1>3, Invariante, CadaUnoEnSuLugar, PorTurnos, PTL DEF Spec
=============================================================================
