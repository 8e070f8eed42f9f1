------------------------ MODULE ConversacionPruebas ------------------------
(***************************************************************************)
(* Proofs about Conversacion, for any mounts, FUSE threads and files: the  *)
(* values of its variables, that every answer reaches who asked for it and *)
(* whole, and what can take the server down.                               *)
(***************************************************************************)
EXTENDS Conversacion, Induccion

\* Where the server's thread is in osada_read, in osada_write or osada_ftruncate, and where
\* it has sent part of the answer.
Escribe == {"escribirTam", "escribirIr", "escribirBloque", "escribirSeguir", "nunca",
            "truncar", "andar", "mirar", "avanzar", "enlazar", "quitar"}
Leer == {"leerTam", "leerPrimero", "leerBloque", "leerFin"}
EnPartes == {"listar", "leerBloque", "leerFin"}
Ocupa(t, m) == serv[t].sock = m /\ serv[t].pc \in Atareado

\* Each FUSE thread and mux_socket.
Turno(h) ==
  /\ hilo[h].pc \in {"enviar", "recibir", "desfasado"} <=> mux[De[h]] = h
  /\ De[h] \in muertos => hilo[h].pc = "muerto"
  /\ hilo[h].op = "escribir" => hilo[h].faltan > 0
  /\ hilo[h].op = "lista" /\ hilo[h].pc \in {"mutex", "enviar"} => hilo[h].faltan = 0
Mutex(m) == mux[m] # Nadie => De[mux[m]] = m

\* Each thread of the server.
Local(t) ==
  /\ serv[t].pc \in {"cola", "nuevo"} <=> serv[t].sock = Nadie
  /\ serv[t].pc = "nuevo" => sock_Cli # Nadie
  /\ serv[t].pc = "fin" => serv[t].sock \in muertos
  /\ serv[t].pc # "desfasado"
  /\ serv[t].pc \notin EnPartes => serv[t].i = 0
  /\ serv[t].pc = "listar" =>
       serv[t].ped.tipo = "lista" /\ serv[t].cant \in 1..MaxEntradas /\ serv[t].i < serv[t].cant
  /\ serv[t].pc \in Leer => serv[t].ped.tipo = "leer"
  /\ serv[t].pc = "leerBloque" => serv[t].copiedMSG <= (serv[t].i % Grupo) + 1

\* The server has one request of each mount, at most.  It has begun to answer those of a
\* mount that it has written to after its death.
Empezada(t) ==
  \/ serv[t].ped.tipo = "lista" /\ serv[t].i > 0
  \/ serv[t].ped.tipo = "leer" /\ serv[t].i >= Grupo
Pendiente(m) ==
  servidor = "vivo" =>
    /\ m \in rotos => m \in muertos /\ aServidor[m] = <<>>
    /\ \A t \in Montajes : Ocupa(t, m) =>
         /\ aServidor[m] = <<>> /\ \A u \in Montajes : Ocupa(u, m) => u = t
         /\ m \in rotos => Empezada(t)

\* A thread that waits, for an answer or for the rest of it.
Espera(h) == h # Nadie /\ hilo[h].pc \in {"recibir", "desfasado"}

\* How many packets a listing waits for, in a directory of n: f is its faltan.
Faltan(f, n) == IF f = 0 THEN n ELSE f

\* A packet of a directory, and one of a read, in the channel c to thread h.
Entrada(f, c, k) ==
  /\ c[k].len = Corto
  /\ IF c[k].cod_return < 0 \/ c[k].offset = 0 THEN Len(c) = 1 ELSE Len(c) <= Faltan(f, c[k].offset)
Trozo(c, k) ==
  /\ k < Len(c) => c[k].size = 1
  /\ c[k].size = 1 => c[k].len = Largo /\ c[k].cod_return = 0

\* What a channel may have for thread h, whose record is r: one answer, but for those of
\* readdir and read; none of these comes after the one that ends its callback.
EnFila(h, r, c) ==
  /\ \A k \in DOMAIN c : c[k].de = h /\ c[k].tipo = r.op
  /\ r.op \notin {"lista", "leer"} => Len(c) = 1
  /\ r.op = "lista" => \A k \in DOMAIN c : Entrada(r.faltan, c, k)
  /\ r.op = "leer" => \A k \in DOMAIN c : Trozo(c, k)

\* The answers on their way to a mount are to who has mux_socket.
Llegan(m) == aCliente[m] # <<>> => Espera(mux[m]) /\ EnFila(mux[m], hilo[mux[m]], aCliente[m])

\* A request on its way from mount m, and one that the server's thread t has in hand.
Encargo(m, p) ==
  LET h == mux[m] IN
  /\ Espera(h) /\ hilo[h].pc = "recibir" /\ p.de = h /\ p.tipo = hilo[h].op /\ aCliente[m] = <<>>
  /\ hilo[h].op = "lista" => hilo[h].faltan = 0
Avance(x, r, c) ==
  /\ x.ped.tipo = r.op
  /\ x.pc \notin EnPartes => c = <<>> /\ r.pc = "recibir"
  /\ x.pc = "listar" =>
       /\ Len(c) + x.cant - x.i <= Faltan(r.faltan, x.cant)
       /\ \A k \in DOMAIN c : c[k].cod_return = 0 /\ c[k].offset = x.cant
  /\ x.pc \in Leer => \A k \in DOMAIN c : c[k].size = 1
Tarea(m, t) ==
  /\ Espera(mux[m]) /\ serv[t].ped.de = mux[m]
  /\ Avance(serv[t], hilo[mux[m]], aCliente[m])

\* What the server has of a mount that lives is what mux_socket's thread has asked for.
Pedida(m) ==
  servidor = "vivo" =>
    /\ \A k \in DOMAIN aServidor[m] : Encargo(m, aServidor[m][k])
    /\ \A t \in Montajes : Ocupa(t, m) => Tarea(m, t)

\* A thread that reads an answer has read nothing, or not all of the header and goes by the
\* length of the one before, or the header of the first and not all of it.
Leyendo(h) ==
  LET c == aCliente[De[h]] IN
  /\ hilo[h].pc = "recibir" =>
       /\ c = <<>> => hilo[h].leido = 0
       /\ hilo[h].leido >= Cabecera => hilo[h].len = Head(c).len /\ hilo[h].leido < Bytes(Head(c))
       /\ hilo[h].leido < Cabecera =>
            /\ hilo[h].op = "lista" /\ hilo[h].faltan > 0 => hilo[h].len = Corto
            /\ hilo[h].op = "leer" => hilo[h].len = Largo
  /\ hilo[h].pc = "desfasado" =>
       hilo[h].op = "lista" /\ hilo[h].faltan = 0 /\ c # <<>> /\ Head(c).offset > 1

\* What is asked for is within the largest file.
Cabal(x) ==
  IF x.op = "lista" THEN x.offset = 0 /\ x.size = 0 ELSE x.offset + x.size + x.faltan <= MaxBloques

\* What TypeOK says, and that there is a channel each way for each mount.
Clientes ==
  {x \in [pc : {"libre", "mutex", "enviar", "recibir", "desfasado", "muerto"},
          op : OpsPosibles, len : 0..Largo, leido : Nat, size : 0..MaxBloques,
          offset : 0..MaxBloques, faltan : Nat] : Cabal(x)}
Hijos ==
  [pc : Atareado \cup {"cola", "nuevo", "saludo", "espera", "fin", "desfasado"},
   sock : Montajes \cup {Nadie}, len : 0..Largo, leido : Nat, ped : Pedidos,
   cod : {-1, 0}, cant : Int, size : 0..Mucho, i : Nat,
   block_start : 0..FIN, copied : Nat, copiedMSG : 0..Grupo, trunco : BOOLEAN]
Fichero ==
  /\ cadena \in 1..MaxBloques /\ tam \in 0..MaxBloques
  /\ sueltos \subseteq Montajes /\ retenido \in BOOLEAN
Resto ==
  /\ muertos \subseteq Montajes /\ rotos \subseteq Montajes
  /\ sock_Cli \in Montajes \cup {Nadie}
  /\ Fichero
  /\ servidor \in {"vivo", "fuera"} /\ llamadas \in 0..MaxLlamadas
Canales ==
  /\ aServidor \in [Montajes -> Seq(Pedidos)] /\ \A m \in Montajes : Len(aServidor[m]) <= 1
  /\ aCliente \in [Montajes -> Seq(Respuestas)]
Tipos ==
  /\ hilo \in [Hilos -> Clientes] /\ mux \in [Montajes -> Hilos \cup {Nadie}]
  /\ serv \in [Montajes -> Hijos] /\ Canales /\ Resto

Parte(m) == Mutex(m) /\ Pendiente(m) /\ (m \notin muertos => Llegan(m) /\ Pedida(m))
EnCurso == \A m \in Montajes : Parte(m)
Turnos == \A h \in Hilos : Turno(h) /\ Leyendo(h)
Locales == \A t \in Montajes : Local(t)

\* The inductive invariant.
CInv == Tipos /\ Turnos /\ Locales /\ EnCurso

-----------------------------------------------------------------------------
(* The lengths. *)

LEMMA Medidas == Cabecera = 2 /\ Corto = 1 /\ Largo = 2 /\ FIN = MaxBloques /\ Mucho = MaxBloques + 2
BY DEF Cabecera, Corto, Largo, FIN, Mucho

\* The lesser of two.
LEMMA DeDos ==
  ASSUME NEW a \in Int, NEW b \in Int
  PROVE  Min({a, b}) \in Int /\ Min({a, b}) <= a /\ Min({a, b}) <= b /\ Min({a, b}) \in {a, b}
<1>. DEFINE x == IF a <= b THEN a ELSE b
<1>1. x \in {a, b} /\ \A y \in {a, b} : x <= y
  OBVIOUS
<1>2. Min({a, b}) \in {a, b} /\ \A y \in {a, b} : Min({a, b}) <= y
  <2>. HIDE DEF x
  <2>. QED BY <1>1 DEF Min
<1>. QED BY <1>2

\* What a channel has in it: as many bytes as its packet, if it has one.
LEMMA EnElCanal ==
  ASSUME NEW V, NEW c \in Seq(V), \A p \in V : p.len \in Nat
  PROVE  Total(c) \in Nat /\ (Len(c) = 1 => Total(c) = Bytes(Head(c)))
<1>. DEFINE n == Len(c)
            f == [i \in 1..n |-> Bytes(c[i])]
<1>1. n \in Nat /\ DOMAIN c = 1..n /\ \A i \in 1..n : c[i] \in V
  OBVIOUS
<1>2. f \in [1..n -> Nat] /\ \A i \in 1..n : f[i] = Bytes(c[i]) /\ f[i] = Cabecera + c[i].len
  BY <1>1, Medidas DEF Bytes
<1>. HIDE DEF f
<1>3. PICK it : Recorre(it, n, f)
  BY <1>1, <1>2, HayRecorrido
<1>. DEFINE R(g) == g = [s \in SUBSET (DOMAIN c) |->
                          IF s = {} THEN 0 ELSE g[s \ {Max(s)}] + Bytes(c[Max(s)])]
<1>. HIDE DEF n
<1>4. ASSUME NEW g
      PROVE  R(g) <=> Recorre(g, n, f)
  <2>1. ASSUME NEW s \in SUBSET (1..n), s # {}
        PROVE  f[Max(s)] = Bytes(c[Max(s)])
    BY <1>1, <1>2, <2>1, Ultima
  <2>2. ASSUME NEW s \in SUBSET (1..n)
        PROVE  (IF s = {} THEN 0 ELSE g[s \ {Max(s)}] + Bytes(c[Max(s)]))
                 = (IF s = {} THEN 0 ELSE g[s \ {Max(s)}] + f[Max(s)])
    BY <2>1
  <2>3. [s \in SUBSET (1..n) |-> IF s = {} THEN 0 ELSE g[s \ {Max(s)}] + Bytes(c[Max(s)])]
          = [s \in SUBSET (1..n) |-> IF s = {} THEN 0 ELSE g[s \ {Max(s)}] + f[Max(s)]]
    BY <2>2
  <2>. QED BY <1>1, <2>3 DEF Recorre
<1>5. R(CHOOSE g : R(g)) /\ Total(c) = (CHOOSE g : R(g))[DOMAIN c]
  BY <1>3, <1>4 DEF Total, FoldLeft, MapThenFoldSet
<1>. QED
  <2>. DEFINE h == CHOOSE g : R(g)
  <2>1. Recorre(h, n, f)
    BY <1>4, <1>5
  <2>. HIDE DEF h
  <2>2. h[1..n] \in Nat /\ (n = 1 => h[1..n] = f[1])
    BY <1>1, <1>2, <2>1, Recorrido
  <2>3. Total(c) = h[1..n]
    BY <1>1, <1>5 DEF h
  <2>. QED BY <1>1, <1>2, <2>2, <2>3 DEF n

-----------------------------------------------------------------------------
(* What a step leaves alone. *)

Igual(x, y) == x.pc = y.pc /\ x.op = y.op /\ x.faltan = y.faltan

\* The conversation of a mount that a step does not touch.
LEMMA ParteIgual ==
  ASSUME NEW m \in Montajes, Parte(m), mux'[m] = mux[m],
         mux[m] # Nadie => Igual(hilo'[mux[m]], hilo[mux[m]]),
         aServidor'[m] = aServidor[m], aCliente'[m] = aCliente[m],
         m \in muertos => m \in muertos',
         servidor' = "vivo" => servidor = "vivo" /\ (m \in rotos' => m \in rotos),
         \A t \in Montajes : serv'[t] = serv[t] \/ ~Ocupa(t, m)'
  PROVE  Parte(m)'
<1>1. Mutex(m)'
  BY DEF Parte, Mutex
<1>2. Pendiente(m)'
  BY DEF Parte, Pendiente, Ocupa, Empezada
<1>3. Espera(mux[m]) => Espera(mux[m])' /\ Igual(hilo'[mux[m]], hilo[mux[m]])
  BY DEF Espera, Igual
<1>4. ASSUME m \notin muertos'
      PROVE  Llegan(m)'
  <2>1. Llegan(m)
    BY <1>4 DEF Parte
  <2>. SUFFICES ASSUME aCliente[m] # <<>>
                PROVE  Llegan(m)'
    BY DEF Llegan
  <2>2. Espera(mux[m])
    BY <2>1 DEF Llegan
  <2>. QED BY <1>3, <2>1, <2>2 DEF Llegan, EnFila, Igual
<1>5. ASSUME m \notin muertos', servidor' = "vivo"
      PROVE  Pedida(m)'
  <2>1. Pedida(m) /\ servidor = "vivo"
    BY <1>5 DEF Parte
  <2>2. ASSUME NEW k \in DOMAIN aServidor[m]
        PROVE  Encargo(m, aServidor[m][k])'
    BY <1>3, <2>1 DEF Pedida, Encargo, Igual
  <2>3. ASSUME NEW t \in Montajes, Ocupa(t, m)'
        PROVE  Tarea(m, t)'
    <3>1. serv'[t] = serv[t] /\ Ocupa(t, m)
      BY <2>3 DEF Ocupa
    <3>2. Tarea(m, t)
      BY <2>1, <3>1 DEF Pedida
    <3>. QED BY <1>3, <3>1, <3>2 DEF Tarea, Avance, Igual
  <2>. QED BY <2>2, <2>3 DEF Pedida
<1>6. m \notin muertos' => Llegan(m)' /\ Pedida(m)'
  BY <1>4, <1>5 DEF Pedida
<1>. QED BY <1>1, <1>2, <1>6 DEF Parte

\* A mount that nothing is said to, and of which the server has nothing.
LEMMA ParteVacia ==
  ASSUME NEW m \in Montajes, aCliente'[m] = <<>>,
         servidor' = "vivo" => aServidor'[m] = <<>> /\ \A t \in Montajes : ~Ocupa(t, m)'
  PROVE  Llegan(m)' /\ Pedida(m)'
<1>1. DOMAIN (<<>>) = {}
  OBVIOUS
<1>2. Llegan(m)'
  BY <1>1 DEF Llegan
<1>. QED BY <1>1, <1>2 DEF Pedida

\* A thread that a step does not touch, and whose first answer it leaves there.
LEMMA TurnoIgual ==
  ASSUME NEW h \in Hilos, Turno(h), Leyendo(h), hilo'[h] = hilo[h],
         mux'[De[h]] = h <=> mux[De[h]] = h,
         De[h] \in muertos' => De[h] \in muertos,
         \/ mux[De[h]] # h
         \/ aCliente'[De[h]] = aCliente[De[h]]
         \/ /\ aCliente'[De[h]] # <<>>
            /\ aCliente[De[h]] # <<>> => Head(aCliente'[De[h]]) = Head(aCliente[De[h]])
  PROVE  Turno(h)' /\ Leyendo(h)'
<1>1. Turno(h)'
  BY DEF Turno
<1>2. CASE mux[De[h]] # h
  <2>1. hilo'[h].pc \notin {"recibir", "desfasado"}
    BY <1>2 DEF Turno
  <2>. QED BY <1>1, <2>1 DEF Leyendo
<1>3. CASE aCliente'[De[h]] = aCliente[De[h]]
  BY <1>1, <1>3 DEF Leyendo
<1>4. CASE /\ aCliente'[De[h]] # <<>>
           /\ aCliente[De[h]] # <<>> => Head(aCliente'[De[h]]) = Head(aCliente[De[h]])
  <2>1. CASE aCliente[De[h]] = <<>>
    BY <1>1, <1>4, <2>1, Medidas DEF Leyendo
  <2>2. CASE aCliente[De[h]] # <<>>
    BY <1>1, <1>4, <2>2 DEF Leyendo
  <2>. QED BY <2>1, <2>2
<1>. QED BY <1>2, <1>3, <1>4

\* A thread of the server that a step does not touch.
LEMMA LocalIgual ==
  ASSUME NEW t \in Montajes, Local(t), serv'[t] = serv[t], muertos \subseteq muertos',
         sock_Cli # Nadie => sock_Cli' # Nadie
  PROVE  Local(t)'
BY DEF Local

\* What a step of a FUSE thread may change, besides what is of it and of its mount: nothing.
DelHilo(h) ==
  /\ \A g \in Hilos \ {h} : hilo'[g] = hilo[g]
  /\ \A n \in Montajes \ {De[h]} :
       /\ mux'[n] = mux[n] /\ aServidor'[n] = aServidor[n] /\ aCliente'[n] = aCliente[n]
       /\ n \in rotos' => n \in rotos
  /\ mux[De[h]] \in {h, Nadie} /\ mux'[De[h]] \in {h, Nadie}
  /\ UNCHANGED <<muertos, serv, sock_Cli, servidor>>

LEMMA PasoDelHilo ==
  ASSUME SupuestoConversacion, CInv, NEW h \in Hilos, DelHilo(h), Turno(h)', Leyendo(h)',
         Pendiente(De[h])', Llegan(De[h])', Pedida(De[h])'
  PROVE  Turnos' /\ Locales' /\ EnCurso'
<1>1. De \in [Hilos -> Montajes] /\ Nadie \notin Hilos
  BY DEF SupuestoConversacion
<1>2. ASSUME NEW g \in Hilos
      PROVE  Turno(g)' /\ Leyendo(g)'
  <2>1. CASE g = h
    BY <2>1
  <2>2. CASE g # h
    <3>1. Turno(g) /\ Leyendo(g) /\ hilo'[g] = hilo[g] /\ muertos' = muertos
      BY <2>2 DEF CInv, Turnos, DelHilo
    <3>2. CASE De[g] = De[h]
      <4>1. mux'[De[g]] # g /\ mux[De[g]] # g
        BY <1>1, <2>2, <3>2 DEF DelHilo
      <4>. QED BY <3>1, <4>1, TurnoIgual
    <3>3. CASE De[g] # De[h]
      <4>1. mux'[De[g]] = mux[De[g]] /\ aCliente'[De[g]] = aCliente[De[g]]
        BY <1>1, <3>3 DEF DelHilo
      <4>. QED BY <3>1, <4>1, TurnoIgual
    <3>. QED BY <3>2, <3>3
  <2>. QED BY <2>1, <2>2
<1>3. ASSUME NEW t \in Montajes
      PROVE  Local(t)'
  <2>1. Local(t)
    BY DEF CInv, Locales
  <2>. QED BY <2>1, LocalIgual DEF DelHilo
<1>4. ASSUME NEW m \in Montajes
      PROVE  Parte(m)'
  <2>1. CASE m = De[h]
    BY <1>1, <2>1 DEF Parte, Mutex, DelHilo
  <2>2. CASE m # De[h]
    <3>1. Parte(m) /\ mux[m] \in Hilos \cup {Nadie}
      BY DEF CInv, EnCurso, Tipos
    <3>2. mux[m] # Nadie => hilo'[mux[m]] = hilo[mux[m]]
      BY <2>2, <3>1 DEF Parte, Mutex, DelHilo
    <3>3. /\ mux'[m] = mux[m] /\ aServidor'[m] = aServidor[m] /\ aCliente'[m] = aCliente[m]
          /\ m \in muertos => m \in muertos'
          /\ servidor' = "vivo" => servidor = "vivo" /\ (m \in rotos' => m \in rotos)
          /\ \A t \in Montajes : serv'[t] = serv[t] \/ ~Ocupa(t, m)'
      BY <2>2 DEF DelHilo
    <3>4. mux[m] # Nadie => Igual(hilo'[mux[m]], hilo[mux[m]])
      BY <3>2 DEF Igual
    <3>. QED BY <3>1, <3>3, <3>4, ParteIgual
  <2>. QED BY <2>1, <2>2
<1>. QED BY <1>2, <1>3, <1>4 DEF Turnos, Locales, EnCurso

\* And a step of a thread of the server with its mount.
DelHijo(t) ==
  LET s == serv[t].sock IN
  /\ s \in Montajes /\ serv'[t].sock = s
  /\ \A u \in Montajes \ {t} : serv'[u] = serv[u]
  /\ \A n \in Montajes \ {s} :
       /\ aServidor'[n] = aServidor[n] /\ aCliente'[n] = aCliente[n]
       /\ n \in rotos' => n \in rotos
  /\ \/ aCliente'[s] = aCliente[s]
     \/ aCliente'[s] # <<>> /\ (aCliente[s] # <<>> => Head(aCliente'[s]) = Head(aCliente[s]))
  /\ servidor' = "vivo" => servidor = "vivo"
  /\ UNCHANGED <<hilo, mux, muertos, sock_Cli>>

LEMMA PasoDelHijo ==
  ASSUME SupuestoConversacion, CInv, NEW t \in Montajes, DelHijo(t), Local(t)',
         Pendiente(serv[t].sock)',
         serv[t].sock \notin muertos => Llegan(serv[t].sock)' /\ Pedida(serv[t].sock)'
  PROVE  Turnos' /\ Locales' /\ EnCurso'
<1>1. De \in [Hilos -> Montajes] /\ Nadie \notin Hilos
  BY DEF SupuestoConversacion
<1>2. ASSUME NEW g \in Hilos
      PROVE  Turno(g)' /\ Leyendo(g)'
  <2>1. Turno(g) /\ Leyendo(g) /\ hilo'[g] = hilo[g] /\ muertos' = muertos /\ mux'[De[g]] = mux[De[g]]
    BY DEF CInv, Turnos, DelHijo
  <2>2. \/ aCliente'[De[g]] = aCliente[De[g]]
        \/ /\ aCliente'[De[g]] # <<>>
           /\ aCliente[De[g]] # <<>> => Head(aCliente'[De[g]]) = Head(aCliente[De[g]])
    BY <1>1 DEF DelHijo
  <2>. QED BY <2>1, <2>2, TurnoIgual
<1>3. ASSUME NEW u \in Montajes
      PROVE  Local(u)'
  <2>1. Local(u)
    BY DEF CInv, Locales
  <2>. QED BY <2>1, LocalIgual DEF DelHijo
<1>4. ASSUME NEW m \in Montajes
      PROVE  Parte(m)'
  <2>0. Parte(m)
    BY DEF CInv, EnCurso
  <2>1. CASE m = serv[t].sock
    BY <2>0, <2>1 DEF Parte, Mutex, DelHijo
  <2>2. CASE m # serv[t].sock
    <3>1. /\ mux'[m] = mux[m] /\ aServidor'[m] = aServidor[m] /\ aCliente'[m] = aCliente[m]
          /\ m \in muertos => m \in muertos'
          /\ servidor' = "vivo" => servidor = "vivo" /\ (m \in rotos' => m \in rotos)
          /\ mux[m] # Nadie => Igual(hilo'[mux[m]], hilo[mux[m]])
      BY <2>2 DEF DelHijo, Igual
    <3>2. \A u \in Montajes : serv'[u] = serv[u] \/ ~Ocupa(u, m)'
      BY <2>2 DEF DelHijo, Ocupa
    <3>. QED BY <2>0, <3>1, <3>2, ParteIgual
  <2>. QED BY <2>1, <2>2
<1>. QED BY <1>2, <1>3, <1>4 DEF Turnos, Locales, EnCurso

-----------------------------------------------------------------------------
(* The steps of the callbacks. *)

\* The kernel calls.
LEMMA PasoLlamar ==
  ASSUME SupuestoConversacion, CInv, NEW h \in Hilos, Llamar(h)
  PROVE  CInv'
<1>1. /\ De \in [Hilos -> Montajes] /\ Nadie \notin Hilos /\ MaxBloques \in Nat \ {0}
      /\ Operaciones \in [Montajes -> SUBSET {"simple", "statfs", "crear", "lista", "leer", "escribir", "truncar"}]
      /\ MaxLlamadas \in Nat
  BY DEF SupuestoConversacion
<1>2. PICK op \in Operaciones[De[h]] : \E r \in Llamadas(op) : hilo' = [hilo EXCEPT ![h] = r]
  BY DEF Llamar
<1>3. PICK r \in Llamadas(op) : hilo' = [hilo EXCEPT ![h] = r]
  BY <1>2
<1>4. op \in OpsPosibles \ {"saludo"}
  BY <1>1 DEF OpsPosibles
<1>5. PICK n \in 0..MaxBloques, desde \in 0..MaxBloques, bloques \in 0..MaxBloques :
        /\ r = Llamada(op, n, desde, bloques)
        /\ desde + n + bloques <= MaxBloques /\ (op = "escribir" => bloques > 0)
        /\ op = "lista" => desde = 0 /\ n = 0 /\ bloques = 0
  <2>1. CASE op \in {"leer", "escribir"}
    <3>1. PICK tr \in Tramos : r = IF op = "leer" THEN Llamada(op, tr.cant, tr.desde, 0)
                                  ELSE Llamada(op, 0, tr.desde, tr.cant)
      BY <2>1 DEF Llamadas
    <3>2. /\ tr.desde \in 0..MaxBloques /\ tr.cant \in 1..MaxBloques
          /\ tr.desde + tr.cant <= MaxBloques
      BY <1>1 DEF SupuestoConversacion
    <3>3. PICK d \in 0..MaxBloques, c \in 1..MaxBloques : d = tr.desde /\ c = tr.cant
      BY <3>2
    <3>4. d + c + 0 <= MaxBloques /\ d + 0 + c <= MaxBloques /\ c > 0 /\ c \in 0..MaxBloques /\ 0 \in 0..MaxBloques
      BY <1>1, <3>2, <3>3
    <3>5. CASE op = "leer"
      BY <3>1, <3>3, <3>4, <3>5
    <3>6. CASE op = "escribir"
      BY <3>1, <3>3, <3>4, <3>6
    <3>. QED BY <2>1, <3>5, <3>6
  <2>2. CASE op = "truncar"
    <3>1. PICK n \in 0..MaxBloques : r = Llamada(op, n, 0, 0)
      BY <2>2 DEF Llamadas
    <3>. QED BY <1>1, <2>2, <3>1
  <2>3. CASE op \notin {"leer", "escribir", "truncar"}
    <3>1. r = Llamada(op, 0, 0, 0)
      BY <2>3 DEF Llamadas
    <3>. QED BY <1>1, <2>3, <3>1
  <2>. QED BY <2>1, <2>2, <2>3
<1>6. r \in Clientes /\ r.pc = "mutex" /\ r.op = op /\ r.faltan = bloques
  BY <1>1, <1>4, <1>5, Medidas DEF Llamada, Clientes, Cabal
<1>7. /\ hilo' = [hilo EXCEPT ![h] = r] /\ hilo \in [Hilos -> Clientes] /\ hilo[h].pc = "libre"
      /\ llamadas < MaxLlamadas /\ llamadas' = llamadas + 1
      /\ UNCHANGED <<mux, aServidor, aCliente, muertos, rotos, serv, sock_Cli, archivo, servidor>>
  BY <1>3, <1>6 DEF CInv, Tipos, Llamar
<1>8. hilo' \in [Hilos -> Clientes] /\ hilo'[h] = r /\ \A g \in Hilos \ {h} : hilo'[g] = hilo[g]
  BY <1>6, <1>7
<1>9. Turno(h) /\ De[h] \notin muertos /\ mux[De[h]] # h
  BY <1>7 DEF CInv, Turnos, Turno
<1>10. Tipos'
  BY <1>1, <1>7, <1>8 DEF CInv, Tipos, Canales, Resto, Fichero, archivo
<1>11. ASSUME NEW g \in Hilos
       PROVE  Turno(g)' /\ Leyendo(g)'
  <2>1. CASE g = h
    BY <1>5, <1>6, <1>7, <1>8, <1>9, <2>1 DEF Turno, Leyendo
  <2>2. CASE g # h
    <3>1. Turno(g) /\ Leyendo(g) /\ hilo'[g] = hilo[g]
      BY <1>8, <2>2 DEF CInv, Turnos
    <3>. QED BY <1>7, <3>1, TurnoIgual
  <2>. QED BY <2>1, <2>2
<1>12. ASSUME NEW t \in Montajes
       PROVE  Local(t)'
  <2>1. Local(t)
    BY DEF CInv, Locales
  <2>. QED BY <1>7, <2>1, LocalIgual
<1>13. ASSUME NEW m \in Montajes
       PROVE  Parte(m)'
  <2>1. Parte(m) /\ mux[m] \in Hilos \cup {Nadie}
    BY DEF CInv, EnCurso, Tipos
  <2>2. mux[m] # Nadie => Igual(hilo'[mux[m]], hilo[mux[m]])
    BY <1>8, <1>9, <2>1 DEF Parte, Mutex, Igual
  <2>. QED BY <1>7, <2>1, <2>2, ParteIgual
<1>. QED BY <1>10, <1>11, <1>12, <1>13 DEF CInv, Turnos, Locales, EnCurso

\* sem_wait
LEMMA PasoTomar ==
  ASSUME SupuestoConversacion, CInv, NEW h \in Hilos, Tomar(h)
  PROVE  CInv'
<1>. DEFINE m == De[h]
<1>1. m \in Montajes /\ Nadie \notin Hilos
  BY DEF SupuestoConversacion
<1>2. Turno(h) /\ hilo \in [Hilos -> Clientes] /\ mux \in [Montajes -> Hilos \cup {Nadie}] /\ Parte(m)
  BY <1>1 DEF CInv, Turnos, Tipos, EnCurso
<1>3. m \notin muertos /\ mux[m] = Nadie
  BY <1>2 DEF Turno, Tomar
<1>. DEFINE r == [hilo[h] EXCEPT !.pc = "enviar"]
<1>4. r \in Clientes /\ r.pc = "enviar" /\ r.op = hilo[h].op /\ r.faltan = hilo[h].faltan
  BY <1>2 DEF Clientes, Cabal
<1>5. /\ hilo' \in [Hilos -> Clientes] /\ hilo'[h] = r /\ \A g \in Hilos \ {h} : hilo'[g] = hilo[g]
      /\ mux' \in [Montajes -> Hilos \cup {Nadie}] /\ mux'[m] = h
      /\ \A n \in Montajes \ {m} : mux'[n] = mux[n]
  <2>1. hilo' = [hilo EXCEPT ![h] = r]
    BY DEF Tomar
  <2>2. mux' = [mux EXCEPT ![m] = h]
    BY DEF Tomar
  <2>. HIDE DEF m, r
  <2>. QED BY <1>1, <1>2, <1>4, <2>1, <2>2
<1>. HIDE DEF r
<1>6. Tipos'
  BY <1>5 DEF CInv, Tipos, Canales, Resto, Fichero, archivo, Tomar
<1>7. DelHilo(h)
  BY <1>3, <1>5 DEF DelHilo, Tomar
<1>8. Turno(h)' /\ Leyendo(h)'
  BY <1>2, <1>3, <1>4, <1>5 DEF Turno, Leyendo, Tomar
<1>9. Pendiente(m)'
  BY <1>2 DEF Parte, Pendiente, Ocupa, Empezada, Tomar
<1>10. Llegan(m)' /\ Pedida(m)'
  <2>1. Llegan(m) /\ Pedida(m) /\ ~Espera(mux[m])
    BY <1>2, <1>3 DEF Parte, Espera
  <2>2. aCliente[m] = <<>>
    BY <2>1 DEF Llegan
  <2>3. aServidor[m] \in Seq(Pedidos)
    BY <1>1 DEF CInv, Tipos, Canales
  <2>4. servidor = "vivo" => aServidor[m] = <<>> /\ \A t \in Montajes : ~Ocupa(t, m)
    <3>1. servidor = "vivo" => DOMAIN aServidor[m] = {}
      BY <2>1 DEF Pedida, Encargo
    <3>. QED BY <2>1, <2>3, <3>1 DEF Pedida, Tarea
  <2>. QED BY <1>1, <2>2, <2>4, ParteVacia DEF Tomar, Ocupa
<1>. QED BY <1>6, <1>7, <1>8, <1>9, <1>10, PasoDelHilo DEF CInv

\* A step of thread h leaves it as r, and mux_socket of its mount with x.
LEMMA Queda ==
  ASSUME SupuestoConversacion, Tipos, NEW h \in Hilos, NEW r \in Clientes, NEW x \in Hilos \cup {Nadie},
         hilo' = [hilo EXCEPT ![h] = r], mux' = [mux EXCEPT ![De[h]] = x]
  PROVE  /\ hilo' \in [Hilos -> Clientes] /\ hilo'[h] = r /\ \A g \in Hilos \ {h} : hilo'[g] = hilo[g]
         /\ mux' \in [Montajes -> Hilos \cup {Nadie}] /\ mux'[De[h]] = x
         /\ \A n \in Montajes \ {De[h]} : mux'[n] = mux[n]
<1>1. De[h] \in Montajes
  BY DEF SupuestoConversacion
<1>. QED BY <1>1 DEF Tipos

\* The end of a callback, which leaves nothing behind it.
LEMMA VueltaBien ==
  ASSUME SupuestoConversacion, CInv, NEW h \in Hilos, De[h] \notin muertos,
         NEW r \in Clientes, r \in {EnPaz, Llamada("simple", 0, 0, 0)},
         hilo' = [hilo EXCEPT ![h] = r], mux' = [mux EXCEPT ![De[h]] = Nadie], muertos' = muertos
  PROVE  Turno(h)' /\ Leyendo(h)'
<1>1. Nadie \notin Hilos
  BY DEF SupuestoConversacion
<1>2. /\ r.pc \in {"libre", "mutex"} /\ r.op \notin {"escribir", "lista"}
  BY DEF EnPaz, Llamada
<1>3. hilo'[h] = r /\ mux'[De[h]] = Nadie
  BY Queda DEF CInv
<1>. QED BY <1>1, <1>2, <1>3 DEF Turno, Leyendo

\* While a mount has an answer to read, the server has nothing of it but the rest of the
\* answer of a directory or of a read; and nothing while the mount has nothing to wait for.
LEMMA EnCamino ==
  ASSUME CInv, NEW m \in Montajes \ muertos, servidor = "vivo"
  PROVE  /\ ~Espera(mux[m]) => aServidor[m] = <<>> /\ \A t \in Montajes : ~Ocupa(t, m)
         /\ aCliente[m] # <<>> =>
              /\ aServidor[m] = <<>>
              /\ \A t \in Montajes : Ocupa(t, m) => serv[t].pc \in EnPartes /\ Tarea(m, t)
<1>1. Pedida(m) /\ aServidor[m] \in Seq(Pedidos)
  BY DEF CInv, EnCurso, Parte, Tipos, Canales
<1>2. (~Espera(mux[m]) \/ aCliente[m] # <<>>) => DOMAIN aServidor[m] = {}
  BY <1>1 DEF Pedida, Encargo
<1>. QED BY <1>1, <1>2 DEF Pedida, Tarea, Avance

\* A mount that is alive has not been left by the server, unless the server is out.
LEMMA Abierto ==
  ASSUME CInv, NEW m \in Montajes \ muertos, servidor = "vivo"
  PROVE  ~Cerrado(m) /\ m \notin rotos
<1>1. Pendiente(m) /\ \A t \in Montajes : Local(t)
  BY DEF CInv, EnCurso, Parte, Locales
<1>. QED BY <1>1 DEF Pendiente, Local, Cerrado, Lectores

\* A thread that waits for the answer to what it has sent.
Esperando(x, n) == [x EXCEPT !.pc = "recibir", !.len = n, !.leido = 0]

LEMMA QuedaEsperando ==
  ASSUME NEW x \in Clientes, NEW n \in 0..Largo
  PROVE  LET r == Esperando(x, n)
         IN  /\ r \in Clientes /\ r.pc = "recibir" /\ r.len = n /\ r.leido = 0
             /\ r.op = x.op /\ r.faltan = x.faltan
BY DEF Clientes, Cabal, Esperando

\* What a request is for does not end after the largest file.
LEMMA PiezaCabe ==
  ASSUME SupuestoConversacion, NEW x \in Clientes, x.op = "escribir" => x.faltan > 0
  PROVE  Pieza(x) \in 0..MaxBloques /\ x.offset + Pieza(x) <= MaxBloques
<1>1. /\ x.offset \in 0..MaxBloques /\ x.size \in 0..MaxBloques /\ x.faltan \in Nat
      /\ MaxBloques \in Nat /\ Grupo \in Nat \ {0} /\ Cabal(x)
  BY DEF Clientes, SupuestoConversacion
<1>2. CASE x.op = "escribir"
  <2>1. PICK a \in Int, b \in Int : a = Grupo /\ b = x.faltan
    BY <1>1
  <2>2. Min({a, b}) \in Int /\ Min({a, b}) <= b /\ Min({a, b}) \in {a, b}
    BY DeDos, Zenon
  <2>3. PICK k \in Int : k = Min({a, b}) /\ k <= b /\ k \in {a, b}
    BY <2>2
  <2>4. Pieza(x) = k
    BY <1>2, <2>1, <2>3 DEF Pieza
  <2>. QED BY <1>1, <1>2, <2>1, <2>3, <2>4 DEF Cabal
<1>3. CASE x.op # "escribir"
  BY <1>1, <1>3 DEF Pieza, Cabal
<1>. QED BY <1>2, <1>3

\* send_socket of a callback
LEMMA PasoEnviar ==
  ASSUME SupuestoConversacion, CInv, NEW h \in Hilos, Enviar(h)
  PROVE  CInv'
<1>. DEFINE m == De[h]
<1>1. m \in Montajes /\ Nadie \notin Hilos /\ MaxBloques \in Nat
  BY DEF SupuestoConversacion
<1>2. /\ Turno(h) /\ Parte(m) /\ Tipos /\ hilo[h].pc = "enviar"
      /\ UNCHANGED <<llamadas, aCliente, muertos, serv, sock_Cli, archivo, servidor>>
  BY <1>1 DEF CInv, Turnos, EnCurso, Enviar
<1>3. m \notin muertos /\ mux[m] = h /\ mux \in [Montajes -> Hilos \cup {Nadie}]
  BY <1>2 DEF Turno, Tipos
<1>4. aCliente[m] = <<>>
  BY <1>2, <1>3 DEF Parte, Llegan, Espera
<1>5. servidor = "vivo" =>
        aServidor[m] = <<>> /\ (\A t \in Montajes : ~Ocupa(t, m)) /\ ~Cerrado(m) /\ m \notin rotos
  BY <1>1, <1>2, <1>3, EnCamino, Abierto DEF Espera
<1>6. CASE m \in rotos
  <2>1. /\ hilo' = [hilo EXCEPT ![h] = EnPaz] /\ mux' = [mux EXCEPT ![De[h]] = Nadie]
        /\ aServidor' = aServidor /\ rotos' = rotos
    BY <1>6 DEF Enviar, Volver
  <2>2. EnPaz \in Clientes
    BY <1>1, Medidas DEF EnPaz, Clientes, Cabal, OpsPosibles
  <2>3. /\ hilo' \in [Hilos -> Clientes] /\ \A g \in Hilos \ {h} : hilo'[g] = hilo[g]
        /\ mux' \in [Montajes -> Hilos \cup {Nadie}] /\ mux'[m] = Nadie
        /\ \A n \in Montajes \ {m} : mux'[n] = mux[n]
    BY <1>2, <2>1, <2>2, Queda
  <2>4. Tipos'
    BY <1>2, <2>1, <2>3 DEF Tipos, Canales, Resto, Fichero, archivo
  <2>5. DelHilo(h)
    BY <1>2, <1>3, <2>1, <2>3 DEF DelHilo
  <2>6. Turno(h)' /\ Leyendo(h)'
    BY <1>2, <1>3, <2>1, <2>2, VueltaBien
  <2>7. Pendiente(m)'
    BY <1>2, <1>5, <1>6 DEF Pendiente
  <2>8. Llegan(m)' /\ Pedida(m)'
    BY <1>1, <1>2, <1>4, <1>5, <1>6, ParteVacia
  <2>. QED BY <2>4, <2>5, <2>6, <2>7, <2>8, PasoDelHilo DEF CInv
<1>7. CASE m \notin rotos
  <2>0. hilo[h] \in Clientes
    BY <1>2 DEF Tipos
  <2>a. PICK cuanto \in 0..MaxBloques : cuanto = Pieza(hilo[h]) /\ hilo[h].offset + cuanto <= MaxBloques
    <3>1. hilo[h].op = "escribir" => hilo[h].faltan > 0
      BY <1>2 DEF Turno
    <3>2. Pieza(hilo[h]) \in 0..MaxBloques /\ hilo[h].offset + Pieza(hilo[h]) <= MaxBloques
      BY <2>0, <3>1, PiezaCabe
    <3>. QED BY <3>2
  <2>1. PICK p \in Pedidos : /\ p = Pedido(h, hilo[h].op, cuanto, hilo[h].offset)
                             /\ p.de = h /\ p.tipo = hilo[h].op /\ (p.tipo = "leer" => p.len = Largo)
    <3>. DEFINE q == Pedido(h, hilo[h].op, cuanto, hilo[h].offset)
    <3>1. q \in Pedidos /\ q.de = h /\ q.tipo = hilo[h].op /\ (q.tipo = "leer" => q.len = Largo)
      BY <1>1, <2>0, <2>a, Medidas DEF Pedido, Pedidos, Clientes
    <3>. HIDE DEF q
    <3>2. \E p \in Pedidos : p = q /\ p.de = h /\ p.tipo = hilo[h].op /\ (p.tipo = "leer" => p.len = Largo)
      BY <3>1
    <3>. QED BY <3>2 DEF q
  <2>2. PICK r \in Clientes : /\ r = Esperando(hilo[h], p.len)
                              /\ r.pc = "recibir" /\ r.len = p.len /\ r.leido = 0 /\ r.op = hilo[h].op
                              /\ r.faltan = hilo[h].faltan
    <3>1. p.len \in 0..Largo
      BY <2>1 DEF Pedidos
    <3>. QED BY <2>0, <3>1, QuedaEsperando
  <2>3. /\ hilo' = [hilo EXCEPT ![h] = r] /\ mux' = [mux EXCEPT ![De[h]] = h]
        /\ IF Cerrado(m) THEN rotos' = rotos \cup {m} /\ UNCHANGED aServidor
           ELSE aServidor' = [aServidor EXCEPT ![m] = Append(@, p)] /\ UNCHANGED rotos
    <3>1. UNCHANGED mux => mux' = [mux EXCEPT ![De[h]] = h]
      BY <1>1, <1>3
    <3>. QED BY <1>7, <2>a, <2>1, <2>2, <3>1 DEF Enviar, Esperando
  <2>4. /\ hilo' \in [Hilos -> Clientes] /\ hilo'[h] = r /\ \A g \in Hilos \ {h} : hilo'[g] = hilo[g]
        /\ mux' \in [Montajes -> Hilos \cup {Nadie}] /\ mux'[m] = h
        /\ \A n \in Montajes \ {m} : mux'[n] = mux[n]
    <3>1. PICK z \in Hilos \cup {Nadie} : z = h
      OBVIOUS
    <3>2. Tipos /\ hilo' = [hilo EXCEPT ![h] = r] /\ mux' = [mux EXCEPT ![De[h]] = z]
      BY <1>2, <2>3, <3>1
    <3>. HIDE DEF m
    <3>3. /\ hilo' \in [Hilos -> Clientes] /\ hilo'[h] = r /\ \A g \in Hilos \ {h} : hilo'[g] = hilo[g]
          /\ mux' \in [Montajes -> Hilos \cup {Nadie}] /\ mux'[De[h]] = z
          /\ \A n \in Montajes \ {De[h]} : mux'[n] = mux[n]
      BY <3>2, Queda
    <3>. QED BY <3>1, <3>3 DEF m
  <2>5. Turno(h)'
    BY <1>2, <1>3, <2>2, <2>4 DEF Turno
  <2>6. Leyendo(h)'
    <3>1. aCliente' = aCliente
      BY <1>2
    <3>2. aCliente[m] = <<>> /\ r.pc = "recibir" /\ r.leido = 0 /\ ~(0 >= Cabecera) /\ hilo'[h] = r
      BY <1>4, <2>2, <2>4, Medidas
    <3>3. /\ r.op = "lista" /\ r.faltan > 0 => r.len = Corto
          /\ r.op = "leer" => r.len = Largo
      BY <1>2, <1>4, <2>1, <2>2, Medidas DEF Turno
    <3>. QED BY <3>1, <3>2, <3>3 DEF Leyendo
  <2>7. CASE Cerrado(m)
    <3>1. servidor' # "vivo" /\ aServidor' = aServidor /\ rotos' = rotos \cup {m}
      BY <1>2, <1>5, <2>3, <2>7
    <3>2. Tipos'
      BY <1>1, <1>2, <2>4, <3>1 DEF Tipos, Canales, Resto, Fichero, archivo
    <3>3. DelHilo(h)
      BY <1>2, <1>3, <2>4, <3>1 DEF DelHilo
    <3>4. Pendiente(m)' /\ Llegan(m)' /\ Pedida(m)'
      BY <1>1, <1>2, <1>4, <3>1, ParteVacia DEF Pendiente
    <3>. QED BY <2>5, <2>6, <3>2, <3>3, <3>4, PasoDelHilo DEF CInv
  <2>8. CASE ~Cerrado(m)
    <3>1. servidor = "vivo" /\ rotos' = rotos /\ aServidor[m] = <<>>
      BY <1>2, <1>5, <2>3, <2>8 DEF Cerrado, Tipos, Resto
    <3>2. /\ aServidor' \in [Montajes -> Seq(Pedidos)] /\ aServidor'[m] = <<p>>
          /\ \A n \in Montajes \ {m} : aServidor'[n] = aServidor[n]
      <4>1. aServidor \in [Montajes -> Seq(Pedidos)] /\ <<p>> \in Seq(Pedidos) /\ Append(<<>>, p) = <<p>>
        BY <1>2, <2>1 DEF Tipos, Canales
      <4>2. aServidor' = [aServidor EXCEPT ![m] = <<p>>]
        BY <2>3, <2>8, <3>1, <4>1
      <4>. HIDE DEF m
      <4>. QED BY <1>1, <4>1, <4>2
    <3>3. Tipos'
      <4>1. \A n \in Montajes : Len(aServidor'[n]) <= 1
        <5>1. Len(<<p>>) = 1
          OBVIOUS
        <5>2. \A n \in Montajes : Len(aServidor[n]) <= 1
          BY <1>2 DEF Tipos, Canales
        <5>3. ASSUME NEW n \in Montajes
              PROVE  Len(aServidor'[n]) <= 1
          <6>1. CASE n = m
            <7>1. Len(aServidor'[n]) = 1
              BY <3>2, <5>1, <6>1, Zenon
            <7>. QED BY <7>1
          <6>2. CASE n # m
            BY <3>2, <5>2, <6>2
          <6>. QED BY <6>1, <6>2
        <5>. QED BY <5>3
      <4>. QED BY <1>2, <2>4, <3>1, <3>2, <4>1 DEF Tipos, Canales, Resto, Fichero, archivo
    <3>4. DelHilo(h)
      BY <1>2, <1>3, <2>4, <3>1, <3>2 DEF DelHilo
    <3>5. Pendiente(m)'
      BY <1>2, <1>5, <1>7, <3>1 DEF Pendiente, Ocupa
    <3>6. Llegan(m)'
      BY <1>2, <1>4 DEF Llegan
    <3>7. Pedida(m)'
      <4>1. Encargo(m, p)'
        <5>1. mux'[m] = h /\ hilo'[h] = r /\ aCliente'[m] = <<>> /\ h # Nadie
          BY <1>1, <1>2, <1>4, <2>4
        <5>2. r.op = "lista" => r.faltan = 0
          BY <1>2, <2>2 DEF Turno
        <5>. QED BY <2>1, <2>2, <5>1, <5>2 DEF Encargo, Espera
      <4>2. \A k \in DOMAIN aServidor'[m] : aServidor'[m][k] = p
        BY <3>2
      <4>3. \A t \in Montajes : ~Ocupa(t, m)'
        BY <1>2, <1>5, <3>1 DEF Ocupa
      <4>. QED BY <4>1, <4>2, <4>3 DEF Pedida
    <3>. QED BY <2>5, <2>6, <3>3, <3>4, <3>5, <3>6, <3>7, PasoDelHilo DEF CInv
  <2>. QED BY <2>7, <2>8
<1>. QED BY <1>6, <1>7

\* A thread after a recv.
Leido(y, n, len) == [y EXCEPT !.leido = n, !.len = len]

LEMMA QuedaLeido ==
  ASSUME NEW y \in Clientes, NEW n \in Nat, NEW len \in 0..Largo
  PROVE  LET x == Leido(y, n, len)
         IN  /\ x \in Clientes /\ x.pc = y.pc /\ x.op = y.op /\ x.faltan = y.faltan
             /\ x.leido = n /\ x.len = len
BY DEF Clientes, Cabal, Leido

\* What a recv of a callback gives: the loop of recv_socket does not go beyond the packet,
\* but for the first one of a directory.
LEMMA LeeBien ==
  ASSUME SupuestoConversacion, CInv, NEW h \in Hilos, hilo[h].pc = "recibir",
         aCliente[De[h]] # <<>>, NEW x \in Recv(hilo[h], aCliente[De[h]])
  PROVE  LET p == Head(aCliente[De[h]])
         IN  /\ x \in Clientes /\ x.pc = "recibir" /\ x.op = hilo[h].op /\ x.faltan = hilo[h].faltan
             /\ x.leido \in Nat /\ hilo[h].leido \in Nat /\ x.leido >= hilo[h].leido
             /\ ~Entero(x) => IF x.leido < Cabecera THEN x.len = hilo[h].len
                              ELSE x.len = p.len /\ x.leido < Bytes(p)
             /\ Entero(x) => x.len = p.len
             /\ Entero(x) /\ Desfasado(x, aCliente[De[h]]) =>
                  x.op = "lista" /\ x.faltan = 0 /\ p.offset > 1
<1>. DEFINE m == De[h]
<1>1. m \in Montajes /\ hilo[h] \in Clientes /\ aCliente[m] \in Seq(Respuestas)
  BY DEF SupuestoConversacion, CInv, Tipos, Canales
<1>2. PICK c \in Seq(Respuestas) : c = aCliente[m]
  BY <1>1
<1>3. PICK y \in Clientes : y = hilo[h]
  BY <1>1
<1>4. Leyendo(h) /\ Turno(h) /\ Parte(m)
  BY <1>1 DEF CInv, Turnos, EnCurso
<1>5. m \notin muertos /\ mux[m] = h
  BY <1>4 DEF Turno
<1>6. /\ y.pc = "recibir" /\ c # <<>>
      /\ y.leido >= Cabecera => y.len = Head(c).len /\ y.leido < Bytes(Head(c))
      /\ y.leido < Cabecera =>
           /\ y.op = "lista" /\ y.faltan > 0 => y.len = Corto
           /\ y.op = "leer" => y.len = Largo
  BY <1>2, <1>3, <1>4 DEF Leyendo
<1>7. PICK p \in Respuestas : p = Head(c) /\ p = c[1]
  BY <1>6
<1>8. /\ y.op \notin {"lista", "leer"} => Len(c) = 1
      /\ y.op = "lista" => Entrada(hilo[h].faltan, c, 1)
      /\ y.op = "leer" => Trozo(c, 1)
  <2>1. Llegan(m) /\ 1 \in DOMAIN c
    BY <1>4, <1>5, <1>6 DEF Parte
  <2>. QED BY <1>2, <1>3, <1>5, <1>6, <2>1 DEF Llegan, EnFila
<1>9. /\ y.len \in 0..2 /\ y.leido \in Nat /\ y.faltan \in Nat /\ p.len \in 0..2 /\ p.offset \in Nat
      /\ Bytes(p) = 2 + p.len /\ Bytes(p) \in Nat /\ Len(c) \in Nat /\ Len(c) >= 1
  BY <1>2, <1>6, Medidas, SMTT(60) DEF Clientes, Respuestas, Bytes, SupuestoConversacion
<1>10. Total(c) \in Nat /\ (Len(c) = 1 => Total(c) = Bytes(p))
  <2>1. \A q \in Respuestas : q.len \in Nat
    BY Medidas DEF Respuestas
  <2>. QED BY <1>7, <2>1, EnElCanal
<1>a. PICK L \in Nat : L = Len(c)
  BY <1>9
<1>b. PICK T \in Nat : T = Total(c)
  BY <1>10
<1>c. L >= 1 /\ (L = 1 => T = Bytes(p))
  BY <1>9, <1>10, <1>a, <1>b
<1>11. PICK k \in 1..Min({Pide(y), T - y.leido}) :
         x = Leido(y, y.leido + k, IF y.leido + k >= Cabecera THEN p.len ELSE y.len)
  <2>1. x \in Recv(y, c)
    BY <1>2, <1>3
  <2>2. \E k \in 1..Min({Pide(y), Total(c) - y.leido}) :
          x = Leido(y, y.leido + k, IF y.leido + k >= Cabecera THEN Head(c).len ELSE y.len)
    BY <2>1, Zenon DEF Recv, Leido
  <2>. QED BY <1>7, <1>b, <2>2
<1>12. k \in Nat /\ 1 <= k /\ k <= Pide(y) /\ k <= T - y.leido
  <2>1. PICK a \in Int, b \in Int : a = Pide(y) /\ b = T - y.leido
    BY <1>9, Medidas, SMTT(30) DEF Pide
  <2>2. Min({a, b}) \in Int /\ Min({a, b}) <= a /\ Min({a, b}) <= b
    BY <2>1, DeDos, Zenon
  <2>3. k \in 1..Min({a, b})
    BY <1>11, <2>1
  <2>. QED BY <2>1, <2>2, <2>3
<1>13. PICK n \in Nat : n = y.leido + k
  BY <1>9, <1>12
<1>14. PICK len \in 0..2 : len = IF n >= 2 THEN p.len ELSE y.len
  BY <1>9
<1>15. x = Leido(y, n, len)
  BY <1>11, <1>13, <1>14, Medidas
<1>16. x \in Clientes /\ x.pc = "recibir" /\ x.op = y.op /\ x.faltan = y.faltan /\ x.leido = n /\ x.len = len
  <2>1. len \in 0..Largo
    BY Medidas
  <2>. QED BY <1>6, <1>15, <2>1, QuedaLeido, SMTT(60)
<1>17. Entero(x) <=> n >= 2 + len
  BY <1>16, Medidas DEF Entero
<1>18. ASSUME ~Entero(x)
       PROVE  IF n < 2 THEN len = y.len ELSE len = p.len /\ n < Bytes(p)
  BY <1>9, <1>14, <1>17, <1>18
<1>19. ASSUME Entero(x)
       PROVE  len = p.len /\ n >= 2
  BY <1>9, <1>14, <1>17, <1>19
<1>20. ASSUME Entero(x), n # Bytes(p)
       PROVE  y.op = "lista" /\ y.faltan = 0 /\ p.offset > 1
  <2>1. n > 2 + p.len
    BY <1>9, <1>17, <1>19, <1>20
  <2>2. y.leido = 1 /\ n <= 2 + y.len
    <3>1. CASE y.leido = 0
      <4>1. Pide(y) = 2
        BY <3>1, Medidas DEF Pide
      <4>. QED BY <1>9, <1>12, <1>13, <2>1, <3>1, <4>1
    <3>2. CASE y.leido >= 2
      BY <1>6, <1>7, <1>9, <1>12, <1>13, <2>1, <3>2, Medidas, SMTT(60) DEF Pide
    <3>3. CASE y.leido = 1
      BY <1>9, <1>12, <1>13, <3>3, Medidas, SMTT(60) DEF Pide
    <3>4. y.leido \in Nat
      BY <1>9
    <3>. QED BY <3>1, <3>2, <3>3, <3>4
  <2>3. L > 1
    BY <1>9, <1>c, <1>12, <1>13, <2>1
  <2>4. y.op \in {"lista", "leer"}
    <3>1. L # 1
      BY <2>3
    <3>. QED BY <1>8, <1>a, <3>1, Zenon
  <2>5. y.op # "leer"
    BY <1>6, <1>7, <1>8, <1>9, <1>a, <2>1, <2>2, <2>3, Medidas DEF Trozo
  <2>6. Entrada(hilo[h].faltan, c, 1)
    BY <1>8, <2>4, <2>5
  <2>7. y.faltan = 0
    BY <1>6, <1>7, <1>9, <2>1, <2>2, <2>4, <2>5, <2>6, Medidas DEF Entrada
  <2>8. p.offset > 1
    <3>1. IF p.cod_return < 0 \/ p.offset = 0 THEN L = 1 ELSE L <= Faltan(hilo[h].faltan, p.offset)
      BY <1>7, <1>a, <2>6 DEF Entrada
    <3>2. Faltan(hilo[h].faltan, p.offset) = p.offset
      BY <1>3, <2>7 DEF Faltan
    <3>. QED BY <1>9, <2>3, <3>1, <3>2
  <2>. QED BY <2>4, <2>5, <2>7, <2>8
<1>21. x.leido \in Nat /\ y.leido \in Nat /\ x.leido >= y.leido
  BY <1>9, <1>12, <1>13, <1>16
<1>. QED BY <1>2, <1>3, <1>7, <1>16, <1>18, <1>19, <1>20, <1>21, Medidas DEF Desfasado

\* What recv_socket leaves alone.
SoloLee == UNCHANGED <<llamadas, aServidor, muertos, rotos, serv, sock_Cli, archivo, servidor>>

\* A thread that waits for an answer has mux_socket.
LEMMA AlLeer ==
  ASSUME SupuestoConversacion, CInv, NEW h \in Hilos, hilo[h].pc \in {"enviar", "recibir"}
  PROVE  LET m == De[h]
         IN  /\ m \in Montajes /\ m \notin muertos /\ mux[m] = h /\ h # Nadie /\ hilo[h] \in Clientes
             /\ mux \in [Montajes -> Hilos \cup {Nadie}]
             /\ aCliente \in [Montajes -> Seq(Respuestas)] /\ aCliente[m] \in Seq(Respuestas)
             /\ Turno(h) /\ Leyendo(h) /\ Parte(m) /\ Llegan(m)
<1>. DEFINE m == De[h]
<1>1. m \in Montajes /\ h # Nadie
  BY DEF SupuestoConversacion
<1>2. Turno(h) /\ Leyendo(h) /\ Parte(m) /\ Tipos
  BY <1>1 DEF CInv, Turnos, EnCurso
<1>3. m \notin muertos /\ mux[m] = h
  BY <1>2 DEF Turno
<1>. QED BY <1>1, <1>2, <1>3 DEF Tipos, Canales, Parte

\* A step of recv_socket leaves thread h as r, mux_socket with x and c to be read.
LEMMA QuedaTras ==
  ASSUME SupuestoConversacion, CInv, NEW h \in Hilos, hilo[h].pc = "recibir", SoloLee,
         NEW r \in Clientes, NEW x \in Hilos \cup {Nadie}, x = h \/ x = Nadie, NEW c \in Seq(Respuestas),
         hilo' = [hilo EXCEPT ![h] = r], mux' = [mux EXCEPT ![De[h]] = x],
         aCliente' = [aCliente EXCEPT ![De[h]] = c]
  PROVE  /\ Tipos' /\ DelHilo(h) /\ Pendiente(De[h])'
         /\ hilo'[h] = r /\ mux'[De[h]] = x /\ aCliente'[De[h]] = c
<1>. DEFINE m == De[h]
<1>1. /\ m \in Montajes /\ mux[m] = h /\ Parte(m) /\ Tipos /\ x \in Hilos \cup {Nadie}
      /\ aCliente \in [Montajes -> Seq(Respuestas)]
  BY AlLeer DEF CInv
<1>2. /\ hilo' \in [Hilos -> Clientes] /\ hilo'[h] = r /\ \A g \in Hilos \ {h} : hilo'[g] = hilo[g]
      /\ mux' \in [Montajes -> Hilos \cup {Nadie}] /\ mux'[m] = x
      /\ \A n \in Montajes \ {m} : mux'[n] = mux[n]
  BY <1>1, Queda, ZenonT(60)
<1>3. /\ aCliente' \in [Montajes -> Seq(Respuestas)] /\ aCliente'[m] = c
      /\ \A n \in Montajes \ {m} : aCliente'[n] = aCliente[n]
  <2>1. aCliente' = [aCliente EXCEPT ![m] = c]
    OBVIOUS
  <2>. HIDE DEF m
  <2>. QED BY <1>1, <2>1
<1>4. Tipos'
  BY <1>1, <1>2, <1>3 DEF SoloLee, Tipos, Canales, Resto, Fichero, archivo
<1>5. DelHilo(h)
  BY <1>1, <1>2, <1>3 DEF SoloLee, DelHilo
<1>6. Pendiente(m)'
  BY <1>1 DEF SoloLee, Parte, Pendiente, Ocupa, Empezada
<1>. QED BY <1>2, <1>3, <1>4, <1>5, <1>6

\* recv has given a part of a packet.
LEMMA PasoRecibeParte ==
  ASSUME SupuestoConversacion, CInv, NEW h \in Hilos, hilo[h].pc = "recibir", SoloLee,
         aCliente[De[h]] # <<>>, NEW x \in Recv(hilo[h], aCliente[De[h]]), ~Entero(x),
         hilo' = [hilo EXCEPT ![h] = x], mux' = mux, aCliente' = aCliente
  PROVE  CInv'
<1>. DEFINE m == De[h]
            c == aCliente[m]
<1>1. /\ m \in Montajes /\ m \notin muertos /\ mux[m] = h /\ h # Nadie /\ hilo[h] \in Clientes
      /\ mux \in [Montajes -> Hilos \cup {Nadie}]
      /\ aCliente \in [Montajes -> Seq(Respuestas)] /\ c \in Seq(Respuestas)
      /\ Turno(h) /\ Leyendo(h) /\ Parte(m)
  BY AlLeer
<1>2. /\ x \in Clientes /\ x.pc = "recibir" /\ x.op = hilo[h].op /\ x.faltan = hilo[h].faltan
      /\ IF x.leido < Cabecera THEN x.len = hilo[h].len ELSE x.len = Head(c).len /\ x.leido < Bytes(Head(c))
      /\ x.leido \in Nat /\ hilo[h].leido \in Nat /\ x.leido >= hilo[h].leido
  BY LeeBien
<1>3. mux' = [mux EXCEPT ![De[h]] = h] /\ aCliente' = [aCliente EXCEPT ![De[h]] = c]
  BY <1>1
<1>4. /\ Tipos' /\ DelHilo(h) /\ Pendiente(m)'
      /\ hilo'[h] = x /\ mux'[m] = h /\ aCliente'[m] = c
  BY <1>1, <1>2, <1>3, QuedaTras
<1>5. Turno(h)'
  BY <1>1, <1>2, <1>4 DEF Turno, SoloLee
<1>6. Leyendo(h)'
  <2>1. hilo[h].leido < Cabecera \/ hilo[h].leido >= Cabecera
    BY <1>1, Medidas DEF Clientes
  <2>2. x.leido < Cabecera => hilo[h].leido < Cabecera
    BY <1>2, Medidas
  <2>. QED BY <1>1, <1>2, <1>4, <2>1, <2>2, Medidas DEF Leyendo, Clientes
<1>7. Llegan(m)' /\ Pedida(m)'
  <2>1. Parte(m)'
    <3>1. Igual(hilo'[mux[m]], hilo[mux[m]])
      BY <1>1, <1>2, <1>4 DEF Igual
    <3>. QED BY <1>1, <1>4, <3>1, ParteIgual DEF SoloLee
  <2>. QED BY <1>1, <2>1 DEF Parte, SoloLee
<1>. QED BY <1>4, <1>5, <1>6, <1>7, PasoDelHilo DEF CInv

\* What is in a channel, and what the server does with the answer, go by op and faltan alone.
LEMMA FilaIgual ==
  ASSUME NEW h, NEW r, NEW q, NEW c, q.op = r.op, q.faltan = r.faltan
  PROVE  /\ EnFila(h, r, c) => EnFila(h, q, c)
         /\ \A x : x.pc \in EnPartes /\ Avance(x, r, c) => Avance(x, q, c)
BY DEF EnFila, Avance

\* The first packet is taken from the channel, and it is not the last one of the answer.
Restan(r, q, c) ==
  /\ q.op = r.op
  /\ \/ r.op = "lista" /\ q.faltan = Faltan(r.faltan, Head(c).offset) - 1 /\ q.faltan > 0
     \/ r.op = "leer" /\ Head(c).size = 1

LEMMA Cola ==
  ASSUME NEW V, NEW c \in Seq(V), c # <<>>
  PROVE  /\ Tail(c) \in Seq(V) /\ Len(c) \in Nat /\ Len(c) >= 1 /\ Len(Tail(c)) = Len(c) - 1
         /\ 1 \in DOMAIN c /\ Head(c) = c[1] /\ c[1] \in V
         /\ \A k \in DOMAIN Tail(c) : k \in Nat /\ k + 1 \in DOMAIN c /\ Tail(c)[k] = c[k + 1]
         /\ Tail(c) # <<>> => Len(c) > 1 /\ Head(Tail(c)) = Tail(c)[1] /\ 1 \in DOMAIN Tail(c)
OBVIOUS

LEMMA ColaDeUno ==
  ASSUME NEW V, NEW c \in Seq(V), c # <<>>, Len(c) <= 1
  PROVE  Len(c) = 1 /\ Tail(c) = <<>>
<1>1. PICK n \in Nat : n = Len(c) /\ n >= 1
  BY Cola
<1>2. n = 1
  BY <1>1
<1>3. PICK d \in Seq(V) : d = Tail(c) /\ Len(d) = n - 1
  BY <1>1, Cola
<1>4. d = <<>>
  BY <1>2, <1>3
<1>. QED BY <1>1, <1>2, <1>3, <1>4

LEMMA FilaResto ==
  ASSUME SupuestoConversacion, NEW h \in Hilos, NEW r \in Clientes, NEW q \in Clientes,
         NEW c \in Seq(Respuestas), c # <<>>, EnFila(h, r, c), Restan(r, q, c)
  PROVE  /\ Tail(c) # <<>> => EnFila(h, q, Tail(c))
         /\ q.op = "leer" => Head(c).len = Largo
<1>. DEFINE d == Tail(c)
            L == Len(c)
<1>1. /\ L \in Nat /\ L >= 1 /\ Len(d) = L - 1 /\ 1 \in DOMAIN c /\ Head(c) = c[1] /\ c[1] \in Respuestas
      /\ \A k \in DOMAIN d : k \in Nat /\ k + 1 \in DOMAIN c /\ d[k] = c[k + 1]
      /\ d # <<>> => L > 1
  BY Cola
<1>2. r.faltan \in Nat /\ q.faltan \in Nat
  BY DEF Clientes
<1>3. c[1].offset \in Nat
  BY <1>1 DEF Respuestas, SupuestoConversacion
<1>. HIDE DEF d, L
<1>4. CASE r.op = "lista" /\ q.op = "lista" /\ q.faltan = Faltan(r.faltan, c[1].offset) - 1 /\ q.faltan > 0
  <2>1. \A k \in DOMAIN c : Entrada(r.faltan, c, k)
    BY <1>4 DEF EnFila
  <2>2. c[1].len = Corto
    BY <1>1, <2>1 DEF Entrada
  <2>3. L # 1 => L - 1 <= q.faltan
    <3>1. IF c[1].cod_return < 0 \/ c[1].offset = 0 THEN L = 1 ELSE L <= Faltan(r.faltan, c[1].offset)
      BY <1>1, <2>1 DEF Entrada, L
    <3>2. Faltan(r.faltan, c[1].offset) \in Nat
      BY <1>2, <1>3 DEF Faltan
    <3>. QED BY <1>1, <1>2, <1>4, <3>1, <3>2
  <2>4. ASSUME NEW k \in DOMAIN d, L > 1
        PROVE  Entrada(q.faltan, d, k)
    <3>1. d[k].len = Corto /\ ~(d[k].cod_return < 0 \/ d[k].offset = 0)
      <4>1. Entrada(r.faltan, c, k + 1) /\ d[k] = c[k + 1] /\ Len(c) # 1
        BY <1>1, <2>1, <2>4 DEF L
      <4>. QED BY <4>1 DEF Entrada
    <3>2. Faltan(q.faltan, d[k].offset) = q.faltan
      BY <1>2, <1>4 DEF Faltan
    <3>3. Len(d) <= q.faltan
      BY <1>1, <1>2, <2>3, <2>4
    <3>. QED BY <3>1, <3>2, <3>3 DEF Entrada
  <2>5. \A k \in DOMAIN d : d[k].de = h /\ d[k].tipo = q.op
    BY <1>1, <1>4 DEF EnFila
  <2>. QED BY <1>1, <1>4, <2>2, <2>4, <2>5 DEF EnFila, d
<1>5. CASE r.op = "leer" /\ q.op = "leer" /\ c[1].size = 1
  <2>1. \A k \in DOMAIN c : Trozo(c, k)
    BY <1>5 DEF EnFila
  <2>2. c[1].len = Largo
    BY <1>1, <1>5, <2>1 DEF Trozo
  <2>3. ASSUME NEW k \in DOMAIN d
        PROVE  Trozo(d, k)
    <3>1. Trozo(c, k + 1) /\ d[k] = c[k + 1] /\ k \in Nat
      BY <1>1, <2>1
    <3>2. k < Len(d) => k + 1 < L
      BY <1>1, <3>1
    <3>. QED BY <3>1, <3>2 DEF Trozo, L
  <2>4. \A k \in DOMAIN d : d[k].de = h /\ d[k].tipo = q.op
    BY <1>1, <1>5 DEF EnFila
  <2>. QED BY <1>1, <1>5, <2>2, <2>3, <2>4 DEF EnFila, d
<1>. QED BY <1>1, <1>4, <1>5 DEF Restan

\* And what the server has still to send is what the rest of the answer has room for.
LEMMA AvanceResto ==
  ASSUME SupuestoConversacion, NEW r \in Clientes, NEW q \in Clientes, NEW c \in Seq(Respuestas), c # <<>>,
         Restan(r, q, c), NEW x \in Hijos, x.pc \in EnPartes, Avance(x, r, c),
         x.pc = "listar" => x.ped.tipo = "lista" /\ x.cant > 0,
         x.pc \in Leer => x.ped.tipo = "leer"
  PROVE  Avance(x, q, Tail(c))
<1>. DEFINE d == Tail(c)
            L == Len(c)
<1>1. /\ L \in Nat /\ L >= 1 /\ Len(d) = L - 1 /\ 1 \in DOMAIN c /\ Head(c) = c[1] /\ c[1] \in Respuestas
      /\ \A k \in DOMAIN d : k \in Nat /\ k + 1 \in DOMAIN c /\ d[k] = c[k + 1]
  BY Cola
<1>2. r.faltan \in Nat /\ q.faltan \in Nat /\ x.cant \in Int /\ x.i \in Nat
  BY DEF Clientes, Hijos
<1>3. x.ped.tipo = r.op /\ q.op = r.op
  BY DEF Avance, Restan
<1>. HIDE DEF d
<1>4. CASE x.pc = "listar"
  <2>1. /\ L + x.cant - x.i <= Faltan(r.faltan, x.cant)
        /\ \A k \in DOMAIN c : c[k].cod_return = 0 /\ c[k].offset = x.cant
    BY <1>4 DEF Avance
  <2>2. q.faltan = Faltan(r.faltan, x.cant) - 1 /\ q.faltan > 0
    BY <1>1, <1>3, <1>4, <2>1 DEF Restan
  <2>3. Faltan(r.faltan, x.cant) \in Nat /\ Faltan(q.faltan, x.cant) = q.faltan
    BY <1>2, <2>2 DEF Faltan
  <2>. HIDE DEF L
  <2>4. Len(d) + x.cant - x.i <= q.faltan
    BY <1>1, <1>2, <2>1, <2>2, <2>3
  <2>5. \A k \in DOMAIN d : d[k].cod_return = 0 /\ d[k].offset = x.cant
    BY <1>1, <2>1
  <2>6. x.pc \in EnPartes /\ x.pc \notin Leer
    BY <1>4 DEF EnPartes, Leer
  <2>. QED BY <1>3, <2>3, <2>4, <2>5, <2>6 DEF Avance, d
<1>5. CASE x.pc # "listar"
  <2>1. x.pc \in Leer => \A k \in DOMAIN d : d[k].size = 1
    BY <1>1 DEF Avance
  <2>. QED BY <1>3, <1>5, <2>1 DEF Avance, d
<1>. QED BY <1>4, <1>5

\* A thread reads and goes on waiting: for the rest of the packet, or of the answer.
Compatible(h, r, d) ==
  /\ r.pc \in {"recibir", "desfasado"} /\ r.op = hilo[h].op /\ (r.op = "escribir" => r.faltan > 0)
  /\ d # <<>> => EnFila(h, r, d)
  /\ \A t \in Montajes :
       Ocupa(t, De[h]) /\ serv[t].pc \in EnPartes /\ Avance(serv[t], hilo[h], aCliente[De[h]])
         => Avance(serv[t], r, d)

LEMMA PasoEspera ==
  ASSUME SupuestoConversacion, CInv, NEW h \in Hilos, hilo[h].pc = "recibir", SoloLee,
         NEW r \in Clientes, NEW d \in Seq(Respuestas), aCliente[De[h]] # <<>>, Compatible(h, r, d),
         hilo' = [hilo EXCEPT ![h] = r], mux' = mux, aCliente' = [aCliente EXCEPT ![De[h]] = d],
         Leyendo(h)'
  PROVE  CInv'
<1>. DEFINE m == De[h]
<1>1. /\ m \in Montajes /\ m \notin muertos /\ mux[m] = h /\ h # Nadie
      /\ mux \in [Montajes -> Hilos \cup {Nadie}] /\ Turno(h)
  BY AlLeer
<1>2. mux' = [mux EXCEPT ![De[h]] = h] /\ h \in {h, Nadie}
  BY <1>1
<1>3. /\ Tipos' /\ DelHilo(h) /\ Pendiente(m)'
      /\ hilo'[h] = r /\ mux'[m] = h /\ aCliente'[m] = d
  BY <1>2, QuedaTras, ZenonT(60)
<1>4. Turno(h)'
  BY <1>1, <1>3 DEF Turno, SoloLee, Compatible
<1>5. Espera(h)'
  BY <1>1, <1>3 DEF Espera, Compatible
<1>6. Llegan(m)'
  BY <1>3, <1>5 DEF Llegan, Compatible
<1>7. Pedida(m)'
  <2>. SUFFICES ASSUME servidor = "vivo"
                PROVE  Pedida(m)'
    BY DEF Pedida, SoloLee
  <2>1. /\ aServidor[m] = <<>>
        /\ \A t \in Montajes : Ocupa(t, m) => serv[t].pc \in EnPartes /\ Tarea(m, t)
    BY <1>1, EnCamino
  <2>2. aServidor'[m] = <<>> /\ DOMAIN (<<>>) = {}
    BY <2>1 DEF SoloLee
  <2>3. ASSUME NEW t \in Montajes, Ocupa(t, m)'
        PROVE  Tarea(m, t)'
    <3>1. serv' = serv /\ Ocupa(t, m)
      BY <2>3 DEF SoloLee, Ocupa
    <3>2. Tarea(m, t) /\ serv[t].pc \in EnPartes
      BY <2>1, <3>1
    <3>3. Avance(serv[t], r, d) /\ serv[t].ped.de = h
      BY <1>1, <3>1, <3>2 DEF Tarea, Compatible
    <3>. QED BY <1>3, <1>5, <3>1, <3>3 DEF Tarea
  <2>. QED BY <2>2, <2>3 DEF Pedida
<1>. QED BY <1>3, <1>4, <1>6, <1>7, PasoDelHilo DEF CInv

\* recv has given bytes of the second entry of a directory.
LEMMA PasoDesfasa ==
  ASSUME SupuestoConversacion, CInv, NEW h \in Hilos, hilo[h].pc = "recibir", SoloLee,
         aCliente[De[h]] # <<>>, NEW x \in Recv(hilo[h], aCliente[De[h]]), Entero(x),
         Desfasado(x, aCliente[De[h]]),
         hilo' = [hilo EXCEPT ![h] = [x EXCEPT !.pc = "desfasado"]], mux' = mux, aCliente' = aCliente
  PROVE  CInv'
<1>. DEFINE m == De[h]
            r == [x EXCEPT !.pc = "desfasado"]
<1>1. /\ m \in Montajes /\ m \notin muertos /\ mux[m] = h /\ h # Nadie /\ hilo[h] \in Clientes
      /\ aCliente \in [Montajes -> Seq(Respuestas)] /\ aCliente[m] \in Seq(Respuestas) /\ Llegan(m)
  BY AlLeer
<1>2. PICK c \in Seq(Respuestas) : c = aCliente[m]
  BY <1>1
<1>3. /\ x \in Clientes /\ x.pc = "recibir" /\ x.op = hilo[h].op /\ x.faltan = hilo[h].faltan
      /\ x.op = "lista" /\ x.faltan = 0 /\ Head(c).offset > 1
  BY <1>2, LeeBien
<1>4. /\ r \in Clientes /\ r.pc = "desfasado" /\ r.op = hilo[h].op /\ r.faltan = hilo[h].faltan
  BY <1>3 DEF Clientes, Cabal
<1>. HIDE DEF r
<1>5. aCliente' = [aCliente EXCEPT ![De[h]] = c] /\ hilo' = [hilo EXCEPT ![h] = r]
  BY <1>1, <1>2 DEF r
<1>6. Compatible(h, r, c)
  <2>1. EnFila(h, hilo[h], c)
    BY <1>1, <1>2 DEF Llegan
  <2>. QED BY <1>2, <1>3, <1>4, <2>1, FilaIgual DEF Compatible
<1>7. Leyendo(h)'
  <2>1. hilo'[h] = r /\ aCliente'[De[h]] = c /\ c # <<>>
    BY <1>1, <1>2, <1>5 DEF CInv, Tipos
  <2>. QED BY <1>3, <1>4, <2>1 DEF Leyendo
<1>. QED BY <1>2, <1>4, <1>5, <1>6, <1>7, PasoEspera

\* The packet is not the last one of a directory, or of a read.
LEMMA PasoSigue ==
  ASSUME SupuestoConversacion, CInv, NEW h \in Hilos, hilo[h].pc = "recibir", SoloLee,
         NEW c \in Seq(Respuestas), c = aCliente[De[h]], c # <<>>,
         NEW r \in Clientes, r.pc = "recibir", r.leido = 0, r.len = Head(c).len, Restan(hilo[h], r, c),
         hilo' = [hilo EXCEPT ![h] = r], mux' = mux, aCliente' = [aCliente EXCEPT ![De[h]] = Tail(c)]
  PROVE  CInv'
<1>. DEFINE m == De[h]
<1>1. /\ m \in Montajes /\ m \notin muertos /\ mux[m] = h /\ h # Nadie /\ hilo[h] \in Clientes
      /\ aCliente \in [Montajes -> Seq(Respuestas)] /\ Llegan(m)
  BY AlLeer
<1>2. Tail(c) \in Seq(Respuestas)
  BY Cola
<1>3. PICK d \in Seq(Respuestas) : d = Tail(c)
  BY <1>2
<1>4. EnFila(h, hilo[h], c)
  BY <1>1 DEF Llegan
<1>5. /\ d # <<>> => EnFila(h, r, d)
      /\ r.op = "leer" => Head(c).len = Largo
  <2>1. PICK y \in Clientes : y = hilo[h]
    BY <1>1
  <2>2. EnFila(h, y, c) /\ Restan(y, r, c)
    BY <1>4, <2>1
  <2>3. /\ Tail(c) # <<>> => EnFila(h, r, Tail(c))
        /\ r.op = "leer" => Head(c).len = Largo
    BY <2>2, FilaResto
  <2>. QED BY <1>3, <2>3
<1>6. Compatible(h, r, d)
  <2>1. ASSUME NEW t \in Montajes, serv[t].pc \in EnPartes, Avance(serv[t], hilo[h], c)
        PROVE  Avance(serv[t], r, d)
    <3>1. serv[t] \in Hijos /\ Local(t)
      BY DEF CInv, Tipos, Locales
    <3>2. serv[t].pc = "listar" => serv[t].ped.tipo = "lista" /\ serv[t].cant > 0
      BY <3>1 DEF Local, SupuestoConversacion
    <3>3. serv[t].pc \in Leer => serv[t].ped.tipo = "leer"
      BY <3>1 DEF Local
    <3>. QED BY <1>1, <1>3, <2>1, <3>1, <3>2, <3>3, AvanceResto
  <2>2. r.op = hilo[h].op /\ r.op # "escribir"
    BY DEF Restan
  <2>. QED BY <1>5, <2>1, <2>2 DEF Compatible
<1>7. Leyendo(h)'
  <2>1. hilo'[h] = r /\ aCliente'[m] = d
    BY <1>1, <1>3 DEF CInv, Tipos
  <2>2. r.op = "lista" => Head(c).len = Corto
    <3>1. r.op = "lista" => \A k \in DOMAIN c : Entrada(hilo[h].faltan, c, k)
      BY <1>4 DEF EnFila, Restan
    <3>2. 1 \in DOMAIN c /\ Head(c) = c[1]
      BY Cola
    <3>. QED BY <3>1, <3>2 DEF Entrada
  <2>. QED BY <1>5, <2>1, <2>2, Medidas DEF Leyendo
<1>. QED BY <1>1, <1>3, <1>6, <1>7, PasoEspera

\* The same of a channel left empty.
LEMMA QuedaVacio ==
  ASSUME SupuestoConversacion, CInv, NEW h \in Hilos, hilo[h].pc = "recibir", SoloLee,
         NEW r \in Clientes, NEW x \in Hilos \cup {Nadie}, x = h \/ x = Nadie,
         hilo' = [hilo EXCEPT ![h] = r], mux' = [mux EXCEPT ![De[h]] = x],
         aCliente' = [aCliente EXCEPT ![De[h]] = <<>>]
  PROVE  /\ Tipos' /\ DelHilo(h) /\ Pendiente(De[h])'
         /\ hilo'[h] = r /\ mux'[De[h]] = x /\ aCliente'[De[h]] = <<>>
<1>1. <<>> \in Seq(Respuestas)
  OBVIOUS
<1>. QED BY <1>1, QuedaTras

\* The callback ends, or sends the next piece; and the server owes the mount nothing.
Cierra(h, r, x) ==
  \/ r \in {EnPaz, Llamada("simple", 0, 0, 0)} /\ x = Nadie
  \/ r.pc = "enviar" /\ x = h /\ r.op = "escribir" /\ r.faltan > 0
NadaDebe(m) == servidor = "vivo" => aServidor[m] = <<>> /\ \A t \in Montajes : ~Ocupa(t, m)

\* The packet is the last one of the answer, or the connection is closed: the callback ends,
\* or sends the next piece.
LEMMA PasoUltimo ==
  ASSUME SupuestoConversacion, CInv, NEW h \in Hilos, hilo[h].pc = "recibir", SoloLee,
         NEW r \in Clientes, NEW x \in Hilos \cup {Nadie}, x = h \/ x = Nadie,
         hilo' = [hilo EXCEPT ![h] = r], mux' = [mux EXCEPT ![De[h]] = x],
         aCliente' = [aCliente EXCEPT ![De[h]] = <<>>],
         Cierra(h, r, x), NadaDebe(De[h])
  PROVE  CInv'
<1>. DEFINE m == De[h]
<1>1. m \in Montajes /\ m \notin muertos /\ h # Nadie
  BY AlLeer
<1>2. PICK c \in Seq(Respuestas) : c = <<>>
  <2>1. <<>> \in Seq(Respuestas)
    OBVIOUS
  <2>. QED BY <2>1
<1>3. /\ Tipos' /\ DelHilo(h) /\ Pendiente(m)'
      /\ hilo'[h] = r /\ mux'[m] = x /\ aCliente'[m] = c
  <2>1. /\ Tipos' /\ DelHilo(h) /\ Pendiente(De[h])'
        /\ hilo'[h] = r /\ mux'[De[h]] = x /\ aCliente'[De[h]] = <<>>
    BY QuedaVacio, Zenon
  <2>. QED BY <1>2, <2>1
<1>4. Turno(h)' /\ Leyendo(h)'
  <2>1. CASE r \in {EnPaz, Llamada("simple", 0, 0, 0)} /\ x = Nadie
    BY <1>1, <2>1, VueltaBien DEF SoloLee
  <2>2. CASE r.pc = "enviar" /\ x = h /\ r.op = "escribir" /\ r.faltan > 0
    BY <1>1, <1>3, <2>2 DEF Turno, Leyendo, SoloLee
  <2>. QED BY <2>1, <2>2 DEF Cierra
<1>5. Llegan(m)' /\ Pedida(m)'
  <2>1. aCliente'[m] = <<>>
    BY <1>2, <1>3
  <2>2. servidor' = "vivo" => aServidor'[m] = <<>> /\ \A t \in Montajes : ~Ocupa(t, m)'
    BY DEF SoloLee, Ocupa, NadaDebe
  <2>. QED BY <1>1, <2>1, <2>2, ParteVacia
<1>. QED BY <1>3, <1>4, <1>5, PasoDelHilo DEF CInv

\* The first packet of c is the last one of the answer, for what the callback knows.
Acaba(r, c) ==
  \/ r.op \notin {"lista", "leer"}
  \/ r.op = "lista" /\ (Head(c).cod_return < 0 \/ Faltan(r.faltan, Head(c).offset) <= 1)
  \/ r.op = "leer" /\ (Head(c).cod_return < 0 \/ Head(c).size # 1)

\* Then there is nothing more in the channel, and nothing more to come.
LEMMA FilaUltima ==
  ASSUME SupuestoConversacion, NEW h \in Hilos, NEW r \in Clientes,
         NEW c \in Seq(Respuestas), c # <<>>, EnFila(h, r, c), Acaba(r, c)
  PROVE  Len(c) = 1 /\ Tail(c) = <<>>
<1>. DEFINE L == Len(c)
<1>1. L \in Nat /\ L >= 1 /\ 1 \in DOMAIN c /\ Head(c) = c[1] /\ c[1] \in Respuestas
  BY Cola
<1>2. r.faltan \in Nat /\ c[1].offset \in Nat
  BY <1>1 DEF Clientes, Respuestas, SupuestoConversacion
<1>3. Faltan(r.faltan, c[1].offset) \in Nat
  BY <1>2 DEF Faltan
<1>4. CASE r.op \notin {"lista", "leer"}
  BY <1>4, Cola DEF EnFila
<1>5. CASE r.op = "lista"
  <2>1. Entrada(r.faltan, c, 1)
    BY <1>1, <1>5 DEF EnFila
  <2>2. IF c[1].cod_return < 0 \/ c[1].offset = 0 THEN L = 1 ELSE L <= Faltan(r.faltan, c[1].offset)
    BY <2>1 DEF Entrada
  <2>3. c[1].cod_return < 0 \/ Faltan(r.faltan, c[1].offset) <= 1
    BY <1>1, <1>5 DEF Acaba
  <2>4. L = 1
    <3>. HIDE DEF L
    <3>. QED BY <1>1, <1>3, <2>2, <2>3
  <2>. QED BY <2>4, Cola
<1>6. CASE r.op = "leer"
  <2>1. Trozo(c, 1)
    BY <1>1, <1>6 DEF EnFila
  <2>2. ~(1 < L)
    BY <1>1, <1>6, <2>1 DEF Trozo, Acaba
  <2>3. L = 1
    <3>. HIDE DEF L
    <3>. QED BY <1>1, <2>2
  <2>. QED BY <2>3, Cola
<1>. QED BY <1>4, <1>5, <1>6

LEMMA AvanceUltimo ==
  ASSUME SupuestoConversacion, NEW h \in Hilos, NEW r \in Clientes,
         NEW c \in Seq(Respuestas), c # <<>>, EnFila(h, r, c), Acaba(r, c),
         NEW x \in Hijos, x.pc \in EnPartes,
         x.pc = "listar" => x.ped.tipo = "lista" /\ x.i < x.cant,
         x.pc \in Leer => x.ped.tipo = "leer"
  PROVE  ~Avance(x, r, c)
<1>. SUFFICES ASSUME Avance(x, r, c)
              PROVE  FALSE
  OBVIOUS
<1>. DEFINE L == Len(c)
<1>1. L \in Nat /\ L >= 1 /\ 1 \in DOMAIN c /\ Head(c) = c[1] /\ c[1] \in Respuestas
  BY Cola
<1>2. x.cant \in Int /\ x.i \in Nat /\ r.faltan \in Nat
  BY DEF Hijos, Clientes
<1>3. x.ped.tipo = r.op
  BY DEF Avance
<1>4. CASE x.pc = "listar"
  <2>1. /\ L + x.cant - x.i <= Faltan(r.faltan, x.cant)
        /\ c[1].cod_return = 0 /\ c[1].offset = x.cant
    BY <1>1, <1>4 DEF Avance
  <2>2. Faltan(r.faltan, x.cant) <= 1
    BY <1>1, <1>3, <1>4, <2>1 DEF Acaba
  <2>3. PICK n \in Int, i \in Nat : n = x.cant /\ i = x.i /\ i < n
    BY <1>2, <1>4
  <2>4. PICK f \in Nat : f = Faltan(r.faltan, x.cant)
    BY <1>2, <2>3 DEF Faltan
  <2>. HIDE DEF L
  <2>. QED BY <1>1, <2>1, <2>2, <2>3, <2>4
<1>5. CASE x.pc \in Leer
  <2>1. Trozo(c, 1) /\ c[1].size = 1 /\ r.op = "leer"
    BY <1>1, <1>3, <1>5 DEF EnFila, Avance
  <2>. QED BY <1>1, <2>1 DEF Trozo, Acaba
<1>. QED BY <1>4, <1>5 DEF EnPartes, Leer

\* So the server has nothing of its mount.
LEMMA NadaMas ==
  ASSUME SupuestoConversacion, CInv, NEW h \in Hilos, hilo[h].pc = "recibir",
         NEW c \in Seq(Respuestas), c = aCliente[De[h]], c # <<>>, Acaba(hilo[h], c)
  PROVE  /\ Len(c) = 1 /\ Tail(c) = <<>>
         /\ servidor = "vivo" => aServidor[De[h]] = <<>> /\ \A t \in Montajes : ~Ocupa(t, De[h])
<1>. DEFINE m == De[h]
<1>1. /\ m \in Montajes /\ m \notin muertos /\ mux[m] = h /\ hilo[h] \in Clientes /\ Llegan(m)
  BY AlLeer
<1>2. PICK y \in Clientes : y = hilo[h]
  BY <1>1
<1>3. EnFila(h, y, c) /\ Acaba(y, c)
  BY <1>1, <1>2 DEF Llegan
<1>4. Len(c) = 1 /\ Tail(c) = <<>>
  BY <1>3, FilaUltima
<1>5. ASSUME servidor = "vivo", NEW t \in Montajes, Ocupa(t, m)
      PROVE  FALSE
  <2>1. serv[t].pc \in EnPartes /\ Tarea(m, t)
    BY <1>1, <1>5, EnCamino
  <2>2. serv[t] \in Hijos /\ Local(t)
    BY DEF CInv, Tipos, Locales
  <2>3. PICK x \in Hijos : x = serv[t]
    BY <2>2
  <2>4. Avance(x, y, c)
    BY <1>1, <1>2, <2>1, <2>3 DEF Tarea
  <2>5. /\ x.pc \in EnPartes
        /\ x.pc = "listar" => x.ped.tipo = "lista" /\ x.i < x.cant
        /\ x.pc \in Leer => x.ped.tipo = "leer"
    BY <2>1, <2>2, <2>3 DEF Local
  <2>. QED BY <1>3, <2>4, <2>5, AvanceUltimo
<1>6. servidor = "vivo" => aServidor[m] = <<>>
  BY <1>1, EnCamino
<1>. QED BY <1>4, <1>5, <1>6

\* What Seguir leaves.
Siguiendo(x, pc, n) == [x EXCEPT !.pc = pc, !.leido = 0, !.faltan = n]

Deja(r, x, pc, n) ==
  /\ r = Siguiendo(x, pc, n) /\ r.pc = pc /\ r.len = x.len /\ r.leido = 0 /\ r.op = x.op /\ r.faltan = n

LEMMA QuedaSiguiendo ==
  ASSUME SupuestoConversacion, NEW x \in Clientes, NEW n \in Nat, x.op = "lista" \/ n <= x.faltan
  PROVE  \E r \in Clientes : Deja(r, x, "recibir", n)
<1>. DEFINE r == Siguiendo(x, "recibir", n)
<1>1. /\ r \in [pc : {"libre", "mutex", "enviar", "recibir", "desfasado", "muerto"},
                op : OpsPosibles, len : 0..Largo, leido : Nat, size : 0..MaxBloques,
                offset : 0..MaxBloques, faltan : Nat]
      /\ r.pc = "recibir" /\ r.len = x.len /\ r.leido = 0 /\ r.op = x.op /\ r.faltan = n
      /\ r.size = x.size /\ r.offset = x.offset
  BY DEF Clientes, Siguiendo
<1>2. x.size \in Nat /\ x.offset \in Nat /\ x.faltan \in Nat /\ MaxBloques \in Nat /\ Cabal(x)
  BY DEF Clientes, SupuestoConversacion
<1>3. r = Siguiendo(x, "recibir", n)
  OBVIOUS
<1>. HIDE DEF r
<1>4. Cabal(r)
  BY <1>1, <1>2 DEF Cabal
<1>. QED BY <1>1, <1>3, <1>4 DEF Clientes, Deja

\* And the next request of a write.
OtraPieza(x) == Siguiendo([x EXCEPT !.offset = @ + Grupo], "enviar", x.faltan - Grupo)

LEMMA QuedaOtraPieza ==
  ASSUME SupuestoConversacion, NEW x \in Clientes, x.op = "escribir", ~(x.faltan <= Grupo)
  PROVE  \E r \in Clientes : r = OtraPieza(x) /\ r.pc = "enviar" /\ r.op = "escribir" /\ r.faltan > 0
<1>1. /\ x.offset \in Nat /\ x.size \in Nat /\ x.faltan \in Nat /\ MaxBloques \in Nat /\ Grupo \in Nat
      /\ x.offset + x.size + x.faltan <= MaxBloques
  BY DEF SupuestoConversacion, Clientes, Cabal
<1>2. PICK o \in 0..MaxBloques, n \in Nat : /\ o = x.offset + Grupo /\ n = x.faltan - Grupo /\ n > 0
                                           /\ o + x.size + n <= MaxBloques
  BY <1>1
<1>. DEFINE r == [x EXCEPT !.offset = o, !.pc = "enviar", !.leido = 0, !.faltan = n]
<1>3. r \in Clientes /\ r.pc = "enviar" /\ r.op = "escribir" /\ r.faltan = n
  BY <1>1, <1>2 DEF Clientes, Cabal
<1>4. r = OtraPieza(x)
  BY <1>2 DEF OtraPieza, Siguiendo, Clientes
<1>. HIDE DEF r
<1>. QED BY <1>2, <1>3, <1>4

\* recv_socket has its packet, the first one in the channel.
LEMMA PasoAtender ==
  ASSUME SupuestoConversacion, CInv, NEW h \in Hilos, hilo[h].pc = "recibir", SoloLee,
         NEW c \in Seq(Respuestas), c = aCliente[De[h]], c # <<>>,
         NEW x \in Clientes, x.op = hilo[h].op, x.faltan = hilo[h].faltan, x.len = Head(c).len,
         Atender(h, x, Head(c)), aCliente' = [aCliente EXCEPT ![De[h]] = Tail(c)]
  PROVE  CInv'
<1>. DEFINE m == De[h]
            p == Head(c)
<1>1. /\ m \in Montajes /\ mux[m] = h /\ h # Nadie /\ hilo[h] \in Clientes /\ Turno(h)
      /\ mux \in [Montajes -> Hilos \cup {Nadie}]
  BY AlLeer
<1>2. p \in Respuestas /\ x.faltan \in Nat
  BY Cola DEF Clientes
<1>3. p.offset \in Nat
  BY <1>2 DEF Respuestas, SupuestoConversacion
<1>4. EnPaz \in Clientes /\ Llamada("simple", 0, 0, 0) \in Clientes
  BY Medidas DEF SupuestoConversacion, EnPaz, Llamada, Clientes, Cabal, OpsPosibles
<1>5. ASSUME NEW r \in Clientes, r \in {EnPaz, Llamada("simple", 0, 0, 0)},
             hilo' = [hilo EXCEPT ![h] = r], mux' = [mux EXCEPT ![De[h]] = Nadie], Acaba(hilo[h], c)
      PROVE  CInv'
  <2>1. /\ Tail(c) = <<>>
        /\ servidor = "vivo" => aServidor[m] = <<>> /\ \A t \in Montajes : ~Ocupa(t, m)
    BY <1>5, NadaMas
  <2>2. aCliente' = [aCliente EXCEPT ![De[h]] = <<>>]
    BY <2>1
  <2>3. Nadie \in Hilos \cup {Nadie}
    OBVIOUS
  <2>4. Cierra(h, r, Nadie) /\ NadaDebe(De[h])
    BY <1>5, <2>1 DEF Cierra, NadaDebe
  <2>. QED BY <1>5, <2>2, <2>3, <2>4, PasoUltimo
<1>6. Volver(h) => hilo' = [hilo EXCEPT ![h] = EnPaz] /\ mux' = [mux EXCEPT ![De[h]] = Nadie]
  BY DEF Volver
<1>7. CASE x.op = "lista"
  <2>. DEFINE f == Faltan(x.faltan, p.offset) - 1
  <2>1. IF p.cod_return < 0 \/ f <= 0 THEN Volver(h) ELSE Seguir(h, x, "recibir", f)
    BY <1>7 DEF Atender, MasEntradas, Faltan
  <2>2. Faltan(x.faltan, p.offset) \in Nat
    BY <1>2, <1>3 DEF Faltan
  <2>3. CASE p.cod_return < 0 \/ f <= 0
    <3>1. Acaba(hilo[h], c)
      BY <1>7, <2>2, <2>3 DEF Acaba
    <3>. QED BY <1>4, <1>5, <1>6, <2>1, <2>3, <3>1
  <2>4. CASE ~(p.cod_return < 0 \/ f <= 0)
    <3>1. PICK n \in Nat : n = f /\ n > 0
      BY <2>2, <2>4
    <3>2. hilo' = [hilo EXCEPT ![h] = Siguiendo(x, "recibir", n)] /\ mux' = mux
      BY <2>1, <2>4, <3>1 DEF Seguir, Siguiendo
    <3>3. PICK r \in Clientes : Deja(r, x, "recibir", n)
      BY <1>7, QuedaSiguiendo
    <3>4. Restan(hilo[h], r, c)
      BY <1>7, <3>1, <3>3 DEF Restan, Deja
    <3>5. /\ hilo' = [hilo EXCEPT ![h] = r] /\ mux' = mux
          /\ r.pc = "recibir" /\ r.leido = 0 /\ r.len = Head(c).len
      BY <3>2, <3>3 DEF Deja
    <3>. QED BY <3>4, <3>5, PasoSigue, Zenon
  <2>. QED BY <2>3, <2>4
<1>8. CASE x.op = "leer"
  <2>1. IF p.cod_return < 0 \/ p.size # 1 THEN Volver(h) ELSE Seguir(h, x, "recibir", 0)
    BY <1>8 DEF Atender, MasDatos
  <2>2. CASE p.cod_return < 0 \/ p.size # 1
    <3>1. Acaba(hilo[h], c)
      BY <1>8, <2>2 DEF Acaba
    <3>. QED BY <1>4, <1>5, <1>6, <2>1, <2>2, <3>1
  <2>3. CASE ~(p.cod_return < 0 \/ p.size # 1)
    <3>2. hilo' = [hilo EXCEPT ![h] = Siguiendo(x, "recibir", 0)] /\ mux' = mux
      BY <2>1, <2>3 DEF Seguir, Siguiendo
    <3>3. PICK r \in Clientes : Deja(r, x, "recibir", 0)
      BY <1>2, QuedaSiguiendo
    <3>4. Restan(hilo[h], r, c)
      BY <1>8, <2>3, <3>3 DEF Restan, Deja
    <3>5. /\ hilo' = [hilo EXCEPT ![h] = r] /\ mux' = mux
          /\ r.pc = "recibir" /\ r.leido = 0 /\ r.len = Head(c).len
      BY <3>2, <3>3 DEF Deja
    <3>. QED BY <3>4, <3>5, PasoSigue, Zenon
  <2>. QED BY <2>2, <2>3
<1>9. CASE x.op = "escribir"
  <2>1. IF p.cod_return < 0 \/ x.faltan <= Grupo THEN Volver(h)
        ELSE Seguir(h, [x EXCEPT !.offset = @ + Grupo], "enviar", x.faltan - Grupo)
    BY <1>9 DEF Atender, MasPiezas
  <2>2. Acaba(hilo[h], c)
    BY <1>9 DEF Acaba
  <2>3. CASE p.cod_return < 0 \/ x.faltan <= Grupo
    BY <1>4, <1>5, <1>6, <2>1, <2>2, <2>3
  <2>4. CASE ~(p.cod_return < 0 \/ x.faltan <= Grupo)
    <3>2. hilo' = [hilo EXCEPT ![h] = OtraPieza(x)] /\ mux' = mux
      BY <2>1, <2>4 DEF Seguir, OtraPieza, Siguiendo
    <3>3. PICK r \in Clientes : r = OtraPieza(x) /\ r.pc = "enviar" /\ r.op = "escribir" /\ r.faltan > 0
      BY <1>9, <2>4, QuedaOtraPieza
    <3>4. /\ Tail(c) = <<>>
          /\ servidor = "vivo" => aServidor[m] = <<>> /\ \A t \in Montajes : ~Ocupa(t, m)
      BY <2>2, NadaMas
    <3>5. /\ hilo' = [hilo EXCEPT ![h] = r] /\ aCliente' = [aCliente EXCEPT ![De[h]] = <<>>]
          /\ mux' = [mux EXCEPT ![De[h]] = h]
          /\ r.pc = "enviar" /\ r.op = "escribir" /\ r.faltan > 0
      <4>1. r.pc = "enviar" /\ r.op = "escribir" /\ r.faltan > 0 /\ hilo' = [hilo EXCEPT ![h] = r]
        BY <3>2, <3>3
      <4>2. aCliente' = [aCliente EXCEPT ![De[h]] = <<>>]
        BY <3>4
      <4>3. mux' = [mux EXCEPT ![De[h]] = h]
        BY <1>1, <3>2
      <4>. QED BY <4>1, <4>2, <4>3
    <3>6. h \in Hilos \cup {Nadie}
      OBVIOUS
    <3>7. Cierra(h, r, h) /\ NadaDebe(De[h])
      BY <3>4, <3>5 DEF Cierra, NadaDebe
    <3>. QED BY <3>5, <3>6, <3>7, PasoUltimo, Zenon
  <2>. QED BY <2>3, <2>4
<1>10. CASE x.op \notin {"lista", "leer", "escribir"}
  <2>1. Acaba(hilo[h], c)
    BY <1>10 DEF Acaba
  <2>2. /\ mux' = [mux EXCEPT ![De[h]] = Nadie]
        /\ \/ hilo' = [hilo EXCEPT ![h] = EnPaz]
           \/ hilo' = [hilo EXCEPT ![h] = Llamada("simple", 0, 0, 0)]
    BY <1>6, <1>10 DEF Atender, AbrirCreado
  <2>. QED BY <1>4, <1>5, <2>1, <2>2
<1>. QED BY <1>7, <1>8, <1>9, <1>10

\* One recv of recv_socket, and what the callback does when it ends.
LEMMA PasoRecibir ==
  ASSUME SupuestoConversacion, CInv, NEW h \in Hilos, Recibir(h)
  PROVE  CInv'
<1>. DEFINE m == De[h]
<1>1. hilo[h].pc = "recibir" /\ SoloLee
  BY DEF Recibir, SoloLee
<1>2. /\ m \in Montajes /\ m \notin muertos /\ hilo[h] \in Clientes /\ aCliente[m] \in Seq(Respuestas)
      /\ aCliente \in [Montajes -> Seq(Respuestas)] /\ mux[m] = h
  BY <1>1, AlLeer
<1>3. CASE aCliente[m] # <<>> /\ \E x \in Recv(hilo[h], aCliente[m]) :
             IF ~Entero(x) THEN hilo' = [hilo EXCEPT ![h] = x] /\ UNCHANGED <<mux, aCliente>>
             ELSE IF Desfasado(x, aCliente[m])
               THEN hilo' = [hilo EXCEPT ![h] = [x EXCEPT !.pc = "desfasado"]] /\ UNCHANGED <<mux, aCliente>>
             ELSE Atender(h, x, Head(aCliente[m])) /\ aCliente' = [aCliente EXCEPT ![m] = Tail(@)]
  <2>1. PICK x \in Recv(hilo[h], aCliente[m]) :
             IF ~Entero(x) THEN hilo' = [hilo EXCEPT ![h] = x] /\ UNCHANGED <<mux, aCliente>>
             ELSE IF Desfasado(x, aCliente[m])
               THEN hilo' = [hilo EXCEPT ![h] = [x EXCEPT !.pc = "desfasado"]] /\ UNCHANGED <<mux, aCliente>>
             ELSE Atender(h, x, Head(aCliente[m])) /\ aCliente' = [aCliente EXCEPT ![m] = Tail(@)]
    BY <1>3
  <2>2. CASE ~Entero(x)
    BY <1>1, <1>3, <2>1, <2>2, PasoRecibeParte
  <2>3. CASE Entero(x) /\ Desfasado(x, aCliente[m])
    BY <1>1, <1>3, <2>1, <2>3, PasoDesfasa
  <2>4. CASE Entero(x) /\ ~Desfasado(x, aCliente[m])
    <3>1. PICK c \in Seq(Respuestas) : c = aCliente[m]
      BY <1>2
    <3>2. x \in Clientes /\ x.op = hilo[h].op /\ x.faltan = hilo[h].faltan /\ x.len = Head(c).len
      BY <1>1, <1>3, <2>4, <3>1, LeeBien
    <3>3. Atender(h, x, Head(c)) /\ aCliente' = [aCliente EXCEPT ![De[h]] = Tail(c)]
      BY <2>1, <2>4, <3>1
    <3>. QED BY <1>1, <1>3, <3>1, <3>2, <3>3, PasoAtender
  <2>. QED BY <2>2, <2>3, <2>4
<1>4. CASE aCliente[m] = <<>> /\ Cerrado(m) /\ Volver(h) /\ UNCHANGED aCliente
  <2>1. servidor # "vivo"
    BY <1>2, <1>4, Abierto
  <2>2. EnPaz \in Clientes /\ Nadie \in Hilos \cup {Nadie}
    BY Medidas DEF SupuestoConversacion, EnPaz, Clientes, Cabal, OpsPosibles
  <2>3. /\ hilo' = [hilo EXCEPT ![h] = EnPaz] /\ mux' = [mux EXCEPT ![De[h]] = Nadie]
        /\ aCliente' = [aCliente EXCEPT ![De[h]] = <<>>]
    BY <1>2, <1>4 DEF Volver
  <2>4. Cierra(h, EnPaz, Nadie) /\ NadaDebe(De[h])
    BY <2>1 DEF Cierra, NadaDebe
  <2>. QED BY <1>1, <2>2, <2>3, <2>4, PasoUltimo
<1>. QED BY <1>3, <1>4 DEF Recibir

\* The mount is killed: its threads, mux_socket and the answers to it go with it.
LEMMA PasoMatar ==
  ASSUME SupuestoConversacion, CInv, NEW m \in Montajes, Matar(m)
  PROVE  CInv'
<1>1. De \in [Hilos -> Montajes] /\ Nadie \notin Hilos
  BY DEF SupuestoConversacion
<1>2. /\ m \notin muertos /\ muertos' = muertos \cup {m} /\ rotos' = rotos \ {m}
      /\ hilo' = [h \in Hilos |-> IF De[h] = m THEN [EnPaz EXCEPT !.pc = "muerto"] ELSE hilo[h]]
      /\ mux' = [mux EXCEPT ![m] = Nadie] /\ aCliente' = [aCliente EXCEPT ![m] = <<>>]
      /\ UNCHANGED <<llamadas, aServidor, serv, sock_Cli, archivo, servidor>>
  BY DEF Matar
<1>. DEFINE r == [EnPaz EXCEPT !.pc = "muerto"]
<1>3. r \in Clientes /\ r.pc = "muerto" /\ r.op = "nada"
  BY Medidas DEF SupuestoConversacion, EnPaz, Clientes, Cabal, OpsPosibles
<1>. HIDE DEF r
<1>4. /\ hilo \in [Hilos -> Clientes] /\ mux \in [Montajes -> Hilos \cup {Nadie}]
      /\ aCliente \in [Montajes -> Seq(Respuestas)] /\ Tipos
  BY DEF CInv, Tipos, Canales
<1>5. /\ hilo' \in [Hilos -> Clientes] /\ \A h \in Hilos : hilo'[h] = IF De[h] = m THEN r ELSE hilo[h]
      /\ mux' \in [Montajes -> Hilos \cup {Nadie}] /\ mux'[m] = Nadie
      /\ \A n \in Montajes \ {m} : mux'[n] = mux[n] /\ aCliente'[n] = aCliente[n]
      /\ aCliente' \in [Montajes -> Seq(Respuestas)] /\ aCliente'[m] = <<>>
  <2>1. <<>> \in Seq(Respuestas)
    OBVIOUS
  <2>2. hilo' = [h \in Hilos |-> IF De[h] = m THEN r ELSE hilo[h]]
    BY <1>2 DEF r
  <2>. QED BY <1>2, <1>3, <1>4, <2>1, <2>2, ZenonT(60)
<1>6. Tipos'
  BY <1>2, <1>4, <1>5, ZenonT(60) DEF Tipos, Canales, Resto, Fichero, archivo
<1>7. ASSUME NEW g \in Hilos
      PROVE  Turno(g)' /\ Leyendo(g)'
  <2>1. CASE De[g] = m
    BY <1>1, <1>3, <1>5, <2>1 DEF Turno, Leyendo
  <2>2. CASE De[g] # m
    <3>1. Turno(g) /\ Leyendo(g) /\ hilo'[g] = hilo[g]
      BY <1>5, <2>2 DEF CInv, Turnos
    <3>2. De[g] \in Montajes /\ mux'[De[g]] = mux[De[g]] /\ aCliente'[De[g]] = aCliente[De[g]]
      BY <1>1, <1>5, <2>2
    <3>. QED BY <1>2, <2>2, <3>1, <3>2, TurnoIgual
  <2>. QED BY <2>1, <2>2
<1>8. ASSUME NEW t \in Montajes
      PROVE  Local(t)'
  <2>1. Local(t)
    BY DEF CInv, Locales
  <2>2. muertos \subseteq muertos' /\ serv' = serv /\ sock_Cli' = sock_Cli
    BY <1>2
  <2>. QED BY <2>1, <2>2, LocalIgual
<1>9. ASSUME NEW n \in Montajes
      PROVE  Parte(n)'
  <2>1. Parte(n) /\ mux[n] \in Hilos \cup {Nadie}
    BY <1>4 DEF CInv, EnCurso
  <2>2. CASE n = m
    <3>1. Pendiente(m)'
      BY <1>2, <2>1, <2>2 DEF Parte, Pendiente, Ocupa
    <3>. QED BY <1>2, <1>5, <2>2, <3>1 DEF Parte, Mutex
  <2>3. CASE n # m
    <3>1. mux[n] # Nadie => hilo'[mux[n]] = hilo[mux[n]]
      BY <1>5, <2>1, <2>3 DEF Parte, Mutex
    <3>2. /\ mux'[n] = mux[n] /\ aServidor'[n] = aServidor[n] /\ aCliente'[n] = aCliente[n]
          /\ n \in muertos => n \in muertos'
          /\ servidor' = "vivo" => servidor = "vivo" /\ (n \in rotos' => n \in rotos)
          /\ \A t \in Montajes : serv'[t] = serv[t] \/ ~Ocupa(t, n)'
          /\ mux[n] # Nadie => Igual(hilo'[mux[n]], hilo[mux[n]])
      BY <1>2, <1>5, <2>3, <3>1 DEF Igual
    <3>. QED BY <2>1, <3>2, ParteIgual
  <2>. QED BY <2>2, <2>3
<1>. QED BY <1>6, <1>7, <1>8, <1>9 DEF CInv, Turnos, Locales, EnCurso

-----------------------------------------------------------------------------
(* The steps of the server. *)

\* A thread of the server that has no request in hand after its step.
LEMMA PasoSuelto ==
  ASSUME SupuestoConversacion, CInv, NEW t \in Montajes, NEW x \in Hijos, x.pc \notin Atareado,
         serv' = [serv EXCEPT ![t] = x],
         UNCHANGED <<cliente, aServidor, aCliente, muertos, rotos, archivo, servidor>>,
         sock_Cli' \in Montajes \cup {Nadie}, sock_Cli # Nadie => sock_Cli' # Nadie, Local(t)'
  PROVE  CInv'
<1>1. /\ serv' \in [Montajes -> Hijos] /\ serv'[t] = x
      /\ \A u \in Montajes \ {t} : serv'[u] = serv[u]
  BY DEF CInv, Tipos
<1>2. /\ hilo' = hilo /\ mux' = mux /\ llamadas' = llamadas /\ aServidor' = aServidor
      /\ aCliente' = aCliente /\ muertos' = muertos /\ rotos' = rotos /\ servidor' = servidor
      /\ UNCHANGED <<cadena, tam, sueltos, retenido>>
  BY DEF cliente, archivo
<1>3. Tipos'
  BY <1>1, <1>2 DEF CInv, Tipos, Canales, Resto, Fichero
<1>4. Turnos'
  <2>1. ASSUME NEW g \in Hilos
        PROVE  Turno(g)' /\ Leyendo(g)'
    <3>1. Turno(g) /\ Leyendo(g)
      BY DEF CInv, Turnos
    <3>. QED BY <1>2, <3>1, TurnoIgual
  <2>. QED BY <2>1 DEF Turnos
<1>5. Locales'
  <2>1. ASSUME NEW u \in Montajes \ {t}
        PROVE  Local(u)'
    <3>1. Local(u)
      BY DEF CInv, Locales
    <3>. QED BY <1>1, <1>2, <3>1, LocalIgual
  <2>. QED BY <2>1 DEF Locales
<1>6. EnCurso'
  <2>1. ASSUME NEW m \in Montajes
        PROVE  Parte(m)'
    <3>1. Parte(m)
      BY DEF CInv, EnCurso
    <3>2. \A u \in Montajes : serv'[u] = serv[u] \/ ~Ocupa(u, m)'
      BY <1>1 DEF Ocupa
    <3>3. mux[m] # Nadie => Igual(hilo'[mux[m]], hilo[mux[m]])
      BY <1>2 DEF Igual
    <3>. QED BY <1>2, <3>1, <3>2, <3>3, ParteIgual
  <2>. QED BY <2>1 DEF EnCurso
<1>. QED BY <1>3, <1>4, <1>5, <1>6 DEF CInv

\* accept
LEMMA PasoAceptar ==
  ASSUME SupuestoConversacion, CInv, NEW t \in Montajes, Aceptar(t)
  PROVE  CInv'
<1>. DEFINE x == [serv[t] EXCEPT !.pc = "nuevo"]
<1>1. serv[t] \in Hijos /\ Local(t) /\ serv[t].pc = "cola" /\ t # Nadie
  BY DEF CInv, Tipos, Locales, Aceptar, SupuestoConversacion
<1>2. x \in Hijos /\ x.pc = "nuevo" /\ x.sock = serv[t].sock /\ x.i = serv[t].i
  BY <1>1 DEF Hijos
<1>3. serv' = [serv EXCEPT ![t] = x] /\ sock_Cli' = t
  BY DEF Aceptar
<1>. HIDE DEF x
<1>4. serv'[t] = x
  BY <1>3 DEF CInv, Tipos
<1>5. Local(t)'
  BY <1>1, <1>2, <1>3, <1>4 DEF Local, EnPartes, Leer
<1>6. /\ UNCHANGED <<cliente, aServidor, aCliente, muertos, rotos, archivo, servidor>>
      /\ x.pc \notin Atareado
  BY <1>2 DEF Aceptar, Atareado
<1>. QED BY <1>1, <1>2, <1>3, <1>5, <1>6, PasoSuelto

\* The new thread reads its socket.
LEMMA PasoLeerSocket ==
  ASSUME SupuestoConversacion, CInv, NEW t \in Montajes, LeerSocket(t)
  PROVE  CInv'
<1>. DEFINE x == [serv[t] EXCEPT !.sock = sock_Cli, !.pc = "saludo"]
<1>1. serv[t] \in Hijos /\ Local(t) /\ serv[t].pc = "nuevo" /\ sock_Cli \in Montajes \cup {Nadie}
  BY DEF CInv, Tipos, Resto, Locales, LeerSocket
<1>2. x \in Hijos /\ x.pc = "saludo" /\ x.sock = sock_Cli /\ x.i = serv[t].i
  BY <1>1 DEF Hijos
<1>3. serv' = [serv EXCEPT ![t] = x] /\ sock_Cli' = sock_Cli
  BY DEF LeerSocket
<1>. HIDE DEF x
<1>4. serv'[t] = x
  BY <1>3 DEF CInv, Tipos
<1>5. Local(t)'
  BY <1>1, <1>2, <1>3, <1>4 DEF Local, EnPartes, Leer
<1>6. /\ UNCHANGED <<cliente, aServidor, aCliente, muertos, rotos, archivo, servidor>>
      /\ x.pc \notin Atareado
  BY <1>2 DEF LeerSocket, Atareado
<1>. QED BY <1>1, <1>2, <1>3, <1>5, <1>6, PasoSuelto

\* What a step of the server leaves of the connection of mount s: c, to be read by it.
Salida(s, c) ==
  /\ aCliente' \in [Montajes -> Seq(Respuestas)] /\ aCliente'[s] = c
  /\ \A n \in Montajes \ {s} : aCliente'[n] = aCliente[n] /\ (n \in rotos' => n \in rotos)
  /\ rotos' \subseteq Montajes /\ servidor' \in {"vivo", "fuera"}
  /\ s \in rotos' => s \in muertos
  /\ c = aCliente[s] \/ (c # <<>> /\ (aCliente[s] # <<>> => Head(c) = Head(aCliente[s])))

\* That it is right: there is room for it, and for what is still to be sent.
Cabe(t, x, c) ==
  LET s == serv[t].sock
      h == mux[s]
  IN
  /\ servidor' = "vivo" /\ s \in rotos' /\ x.pc \in Atareado => Empezada(t)'
  /\ s \notin muertos =>
       /\ c # <<>> => EnFila(h, hilo[h], c)
       /\ servidor' = "vivo" /\ x.pc \in Atareado => x.ped = serv[t].ped /\ Avance(x, hilo[h], c)

\* A thread of the server with a request in hand, which goes on as x.
LEMMA PasoOcupado ==
  ASSUME SupuestoConversacion, CInv, NEW t \in Montajes, NEW x \in Hijos, NEW c \in Seq(Respuestas),
         servidor = "vivo", serv[t].pc \in Atareado, x.sock = serv[t].sock,
         serv' = [serv EXCEPT ![t] = x], Salida(serv[t].sock, c), Cabe(t, x, c), Local(t)',
         UNCHANGED <<cliente, aServidor, muertos, sock_Cli>>,
         Fichero'
  PROVE  CInv'
<1>. DEFINE s == serv[t].sock
<1>1. /\ serv' \in [Montajes -> Hijos] /\ serv'[t] = x
      /\ \A u \in Montajes \ {t} : serv'[u] = serv[u]
  BY DEF CInv, Tipos
<1>2. /\ hilo' = hilo /\ mux' = mux /\ llamadas' = llamadas /\ aServidor' = aServidor
      /\ muertos' = muertos /\ sock_Cli' = sock_Cli
  BY DEF cliente
<1>3. Local(t) /\ Tipos /\ serv[t] \in Hijos
  BY DEF CInv, Locales, Tipos
<1>4. s \in Montajes
  BY <1>3 DEF Local, Hijos, Atareado
<1>5. Tipos'
  <2>1. /\ aCliente' \in [Montajes -> Seq(Respuestas)] /\ rotos' \subseteq Montajes
        /\ servidor' \in {"vivo", "fuera"}
    BY DEF Salida
  <2>. QED BY <1>1, <1>2, <1>3, <2>1 DEF Tipos, Canales, Resto
<1>6. DelHijo(t)
  BY <1>1, <1>2, <1>4 DEF DelHijo, Salida
<1>7. /\ Ocupa(t, s) /\ Parte(s) /\ Pendiente(s) /\ aServidor[s] = <<>>
      /\ \A u \in Montajes : Ocupa(u, s) => u = t
  <2>1. Parte(s) /\ Ocupa(t, s)
    BY <1>4 DEF CInv, EnCurso, Ocupa
  <2>. QED BY <2>1 DEF Parte, Pendiente
<1>8. \A u \in Montajes : Ocupa(u, s)' => u = t /\ x.pc \in Atareado
  BY <1>1, <1>7 DEF Ocupa
<1>9. Pendiente(s)'
  BY <1>1, <1>2, <1>7, <1>8 DEF Pendiente, Salida, Cabe
<1>10. ASSUME s \notin muertos
       PROVE  Llegan(s)' /\ Pedida(s)'
  <2>1. Llegan(s) /\ Pedida(s) /\ Tarea(s, t)
    BY <1>7, <1>10 DEF Parte, Pedida
  <2>2. Espera(mux[s]) /\ serv[t].ped.de = mux[s]
    BY <2>1 DEF Tarea
  <2>3. Espera(mux[s])'
    BY <1>2, <2>2 DEF Espera
  <2>4. aCliente'[s] = c
    BY DEF Salida
  <2>5. Llegan(s)'
    BY <1>2, <1>10, <2>3, <2>4 DEF Llegan, Cabe
  <2>6. ASSUME servidor' = "vivo"
        PROVE  Pedida(s)'
    <3>1. DOMAIN aServidor'[s] = {}
      BY <1>2, <1>7
    <3>2. ASSUME NEW u \in Montajes, Ocupa(u, s)'
          PROVE  Tarea(s, u)'
      <4>1. u = t /\ x.ped = serv[t].ped /\ Avance(x, hilo[mux[s]], c)
        BY <1>8, <1>10, <2>6, <3>2 DEF Cabe
      <4>. QED BY <1>1, <1>2, <2>2, <2>3, <2>4, <4>1 DEF Tarea
    <3>. QED BY <3>1, <3>2 DEF Pedida
  <2>. QED BY <2>5, <2>6 DEF Pedida
<1>. QED BY <1>5, <1>6, <1>9, <1>10, PasoDelHijo DEF CInv

\* A step between two packets, or before the first one.
LEMMA PasoInterno ==
  ASSUME SupuestoConversacion, CInv, NEW t \in Montajes, NEW x \in Hijos,
         servidor = "vivo", serv[t].pc \in Atareado \ EnPartes,
         x.sock = serv[t].sock, x.ped = serv[t].ped, x.i = serv[t].i,
         x.pc \in (Atareado \ EnPartes) \cup {"leerBloque"},
         x.pc \in Leer => serv[t].ped.tipo = "leer",
         x.pc = "leerBloque" => x.copiedMSG <= 1,
         serv' = [serv EXCEPT ![t] = x],
         UNCHANGED <<cliente, aServidor, aCliente, muertos, rotos, sock_Cli, servidor>>,
         Fichero'
  PROVE  CInv'
<1>. DEFINE s == serv[t].sock
<1>1. Local(t) /\ serv[t] \in Hijos /\ aCliente \in [Montajes -> Seq(Respuestas)] /\ rotos \subseteq Montajes
  BY DEF CInv, Locales, Tipos, Canales, Resto
<1>2. s \in Montajes /\ serv[t].i = 0 /\ Ocupa(t, s)
  BY <1>1 DEF Local, Hijos, Atareado, Ocupa
<1>3. Parte(s) /\ Pendiente(s)
  BY <1>2 DEF CInv, EnCurso, Parte
<1>4. s \notin rotos
  BY <1>2, <1>3 DEF Pendiente, Empezada, SupuestoConversacion
<1>5. PICK c \in Seq(Respuestas) : c = aCliente[s]
  BY <1>1, <1>2
<1>6. Salida(s, c)
  BY <1>1, <1>4, <1>5 DEF Salida
<1>7. Local(t)'
  <2>1. serv'[t] = x /\ muertos' = muertos /\ sock_Cli' = sock_Cli
    BY DEF CInv, Tipos
  <2>2. /\ x.pc \notin {"cola", "nuevo", "fin", "desfasado", "listar"} /\ x.i = 0
        /\ serv[t].pc \notin {"cola", "nuevo"}
        /\ x.pc \in Leer => serv[t].ped.tipo = "leer"
    BY <1>1, <1>2 DEF Atareado, EnPartes, Local
  <2>3. 0 % Grupo = 0
    BY DEF SupuestoConversacion
  <2>. QED BY <1>1, <2>1, <2>2, <2>3 DEF Local
<1>8. Cabe(t, x, c)
  <2>1. ASSUME s \notin muertos
        PROVE  /\ c # <<>> => EnFila(mux[s], hilo[mux[s]], c)
               /\ Avance(x, hilo[mux[s]], c)
    <3>1. Llegan(s) /\ Tarea(s, t)
      BY <1>2, <1>3, <2>1 DEF Parte, Pedida
    <3>2. Avance(serv[t], hilo[mux[s]], c)
      BY <1>5, <3>1 DEF Tarea
    <3>3. c = <<>> /\ hilo[mux[s]].pc = "recibir"
      BY <3>2 DEF Avance
    <3>4. DOMAIN c = {} /\ x.pc # "listar" /\ x.ped.tipo = hilo[mux[s]].op
      BY <3>2, <3>3 DEF Avance, EnPartes
    <3>. QED BY <3>3, <3>4 DEF Avance
  <2>. QED BY <1>4, <2>1 DEF Cabe
<1>. QED BY <1>5, <1>6, <1>7, <1>8, PasoOcupado, Zenon

\* What Despachar gives, and a recv of the server.
Tomado(x, p) == [x EXCEPT !.ped = p, !.leido = 0, !.trunco = FALSE]

LEMMA QuedaCon ==
  ASSUME NEW v \in Hijos, NEW pc \in Atareado, NEW cod \in {-1, 0}
  PROVE  LET y == Con(v, pc, cod)
         IN  y \in Hijos /\ y.pc = pc /\ y.sock = v.sock /\ y.ped = v.ped /\ y.i = v.i
BY DEF Con, Hijos

LEMMA QuedaConEntradas ==
  ASSUME NEW v \in Hijos, NEW n \in Nat
  PROVE  LET y == ConEntradas(v, n)
         IN  y \in Hijos /\ y.pc = "listar" /\ y.cant = n /\ y.sock = v.sock /\ y.ped = v.ped /\ y.i = v.i
<1>. DEFINE w == Con(v, "listar", 0)
<1>1. w \in Hijos /\ w.pc = "listar" /\ w.sock = v.sock /\ w.ped = v.ped /\ w.i = v.i
  BY DEF Con, Hijos, Atareado
<1>. HIDE DEF w
<1>2. ConEntradas(v, n) = [w EXCEPT !.cant = n]
  BY DEF ConEntradas, w
<1>. QED BY <1>1, <1>2 DEF Hijos

LEMMA QuedaTomado ==
  ASSUME NEW x \in Hijos, NEW p \in Pedidos
  PROVE  /\ Tomado(x, p) \in Hijos /\ Tomado(x, p).ped = p
         /\ Tomado(x, p).sock = x.sock /\ Tomado(x, p).i = x.i
BY DEF Tomado, Hijos

\* The request is taken as it came, and goes on by its kind.
LEMMA Despachado ==
  ASSUME SupuestoConversacion, NEW x \in Hijos, NEW p \in Pedidos, NEW y \in Despachar(x, p)
  PROVE  /\ y \in Hijos /\ y.sock = x.sock /\ y.ped = p /\ y.i = x.i
         /\ y.pc \in {"contestar", "listar", "mux", "escribirTam", "truncar"}
         /\ y.pc = "listar" => p.tipo = "lista" /\ y.cant \in 1..MaxEntradas
<1>. DEFINE v == Tomado(x, p)
<1>1. v \in Hijos /\ v.ped = p /\ v.sock = x.sock /\ v.i = x.i
  BY QuedaTomado
<1>2. \/ \E pc \in {"contestar", "mux", "escribirTam", "truncar"}, cod \in {-1, 0} : y = Con(v, pc, cod)
      \/ p.tipo = "lista" /\ \E n \in 1..MaxEntradas : y = ConEntradas(v, n)
  <2>1. CASE x.pc = "saludo"
    BY <2>1 DEF Despachar, Tomado
  <2>2. CASE x.pc # "saludo" /\ p.tipo = "lista"
    BY <2>2 DEF Despachar, Tomado
  <2>3. CASE x.pc # "saludo" /\ p.tipo = "leer"
    BY <2>3 DEF Despachar, Tomado
  <2>4. CASE x.pc # "saludo" /\ p.tipo = "truncar"
    BY <2>4 DEF Despachar, Tomado
  <2>5. CASE x.pc # "saludo" /\ p.tipo = "statfs"
    BY <2>5 DEF Despachar, Tomado
  <2>6. CASE x.pc # "saludo" /\ p.tipo = "escribir"
    BY <2>6 DEF Despachar, Tomado
  <2>7. CASE x.pc # "saludo" /\ p.tipo \notin {"lista", "leer", "truncar", "statfs", "escribir"}
    BY <2>7 DEF Despachar, Tomado
  <2>. QED BY <2>1, <2>2, <2>3, <2>4, <2>5, <2>6, <2>7
<1>. HIDE DEF v
<1>3. CASE \E pc \in {"contestar", "mux", "escribirTam", "truncar"}, cod \in {-1, 0} : y = Con(v, pc, cod)
  <2>1. PICK pc \in {"contestar", "mux", "escribirTam", "truncar"}, cod \in {-1, 0} : y = Con(v, pc, cod)
    BY <1>3
  <2>2. pc \in Atareado
    BY DEF Atareado
  <2>. QED BY <1>1, <2>1, <2>2, QuedaCon
<1>4. CASE p.tipo = "lista" /\ \E n \in 1..MaxEntradas : y = ConEntradas(v, n)
  <2>1. PICK n \in 1..MaxEntradas : y = ConEntradas(v, n)
    BY <1>4
  <2>2. n \in Nat
    OBVIOUS
  <2>3. y \in Hijos /\ y.pc = "listar" /\ y.cant = n /\ y.sock = v.sock /\ y.ped = v.ped /\ y.i = v.i
    BY <1>1, <2>1, <2>2, QuedaConEntradas, Zenon
  <2>. QED BY <1>1, <1>4, <2>3
<1>. QED BY <1>2, <1>3, <1>4

Oido(x, n, len) == [x EXCEPT !.leido = n, !.len = len]

LEMMA QuedaOido ==
  ASSUME NEW x \in Hijos, NEW n \in Nat, NEW len \in 0..Largo
  PROVE  LET y == Oido(x, n, len)
         IN  /\ y \in Hijos /\ y.pc = x.pc /\ y.sock = x.sock /\ y.i = x.i
             /\ y.leido = n /\ y.len = len
BY DEF Oido, Hijos

\* There is only one request to be read, and recv_socket does not go beyond it.
LEMMA OyeBien ==
  ASSUME SupuestoConversacion, NEW x \in Hijos, NEW c \in Seq(Pedidos), c # <<>>, Len(c) <= 1,
         NEW y \in Recv(x, c)
  PROVE  /\ y \in Hijos /\ y.pc = x.pc /\ y.sock = x.sock /\ y.i = x.i
         /\ Entero(y) => ~Desfasado(y, c)
<1>1. Len(c) = 1
  BY ColaDeUno
<1>2. PICK p \in Pedidos : p = Head(c)
  BY Cola
<1>3. x.leido \in Nat /\ x.len \in 0..2 /\ p.len \in 0..2
  BY Medidas DEF Hijos, Pedidos
<1>4. PICK T \in Nat : T = Total(c) /\ T = 2 + p.len
  <2>1. \A q \in Pedidos : q.len \in Nat
    BY Medidas DEF Pedidos
  <2>2. Bytes(p) = 2 + p.len
    BY Medidas DEF Bytes
  <2>3. Total(c) \in Nat /\ Total(c) = Bytes(p)
    BY <1>1, <1>2, <2>1, EnElCanal
  <2>. QED BY <2>2, <2>3
<1>5. PICK k \in 1..Min({Pide(x), T - x.leido}) :
        y = Oido(x, x.leido + k, IF x.leido + k >= Cabecera THEN p.len ELSE x.len)
  <2>1. \E k \in 1..Min({Pide(x), Total(c) - x.leido}) :
          y = Oido(x, x.leido + k, IF x.leido + k >= Cabecera THEN Head(c).len ELSE x.len)
    BY Zenon DEF Recv, Oido
  <2>. QED BY <1>2, <1>4, <2>1
<1>6. PICK a \in Int, b \in Int : a = Pide(x) /\ b = T - x.leido
  BY <1>3, Medidas DEF Pide
<1>9. k \in Nat /\ k <= b
  <2>1. k \in 1..Min({a, b})
    BY <1>5, <1>6
  <2>2. Min({a, b}) \in Int /\ Min({a, b}) <= b
    BY DeDos, Zenon
  <2>. QED BY <2>1, <2>2
<1>10. PICK n \in Nat : n = x.leido + k
  BY <1>3, <1>9
<1>11. PICK len \in 0..2 : len = IF n >= 2 THEN p.len ELSE x.len
  BY <1>3
<1>12. y = Oido(x, n, len)
  BY <1>5, <1>10, <1>11, Medidas
<1>13. y \in Hijos /\ y.pc = x.pc /\ y.sock = x.sock /\ y.i = x.i /\ y.leido = n /\ y.len = len
  <2>1. len \in 0..Largo
    BY Medidas
  <2>. QED BY <1>12, <2>1, QuedaOido
<1>14. Entero(y) => n = 2 + p.len
  <2>1. Entero(y) <=> n >= 2 + len
    BY <1>13, Medidas DEF Entero
  <2>. QED BY <1>3, <1>4, <1>6, <1>9, <1>10, <1>11, <2>1
<1>. QED BY <1>2, <1>13, <1>14, Medidas DEF Desfasado, Bytes

\* recv_socket of the server: of the greeting or of a request.
LEMMA PasoEscuchar ==
  ASSUME SupuestoConversacion, CInv, NEW t \in Montajes, Escuchar(t)
  PROVE  CInv'
<1>. DEFINE s == serv[t].sock
<1>1. /\ servidor = "vivo" /\ serv[t].pc \in {"saludo", "espera"} /\ Lectores(s) = {t}
      /\ UNCHANGED <<cliente, aCliente, muertos, rotos, sock_Cli, archivo, servidor>>
  BY DEF Escuchar, En
<1>2. serv[t] \in Hijos /\ Local(t) /\ Tipos
  BY DEF CInv, Locales, Tipos
<1>3. s \in Montajes /\ serv[t].i = 0
  BY <1>1, <1>2 DEF Local, Hijos, EnPartes
<1>4. /\ hilo' = hilo /\ mux' = mux /\ llamadas' = llamadas /\ aCliente' = aCliente /\ muertos' = muertos
      /\ rotos' = rotos /\ sock_Cli' = sock_Cli /\ Fichero' /\ servidor' = servidor
  BY <1>1, <1>2 DEF cliente, archivo, Tipos, Resto, Fichero
<1>5. PICK c \in Seq(Pedidos) : c = aServidor[s] /\ Len(c) <= 1
  BY <1>2, <1>3 DEF Tipos, Canales
<1>6. ASSUME NEW x \in Hijos, x.pc \in {"saludo", "espera", "fin"}, x.sock = s, x.i = 0,
             x.pc = "fin" => s \in muertos,
             serv' = [serv EXCEPT ![t] = x], aServidor' = aServidor
      PROVE  CInv'
  <2>1. serv'[t] = x
    BY <1>2, <1>6 DEF Tipos
  <2>2. Local(t)'
    BY <1>3, <1>4, <1>6, <2>1 DEF SupuestoConversacion, Local, EnPartes, Leer
  <2>3. x.pc \notin Atareado
    BY <1>6 DEF Atareado
  <2>4. /\ UNCHANGED <<cliente, aServidor, aCliente, muertos, rotos, archivo, servidor>>
        /\ sock_Cli' \in Montajes \cup {Nadie} /\ (sock_Cli # Nadie => sock_Cli' # Nadie)
    BY <1>1, <1>2, <1>4, <1>6 DEF Tipos, Resto
  <2>. QED BY <1>6, <2>2, <2>3, <2>4, PasoSuelto
<1>7. ASSUME c # <<>>, NEW x \in Recv(serv[t], c), Entero(x), NEW y \in Despachar(x, Head(c)),
             serv' = [serv EXCEPT ![t] = y], aServidor' = [aServidor EXCEPT ![s] = Tail(c)]
      PROVE  CInv'
  <2>1. PICK z \in Hijos : z = serv[t]
    BY <1>2
  <2>2. x \in Recv(z, c)
    BY <1>7, <2>1
  <2>3. x \in Hijos /\ x.sock = s /\ x.i = 0
    BY <1>3, <1>5, <1>7, <2>1, <2>2, OyeBien
  <2>4. PICK p \in Pedidos : p = Head(c) /\ p = c[1] /\ 1 \in DOMAIN c
    BY <1>7, Cola
  <2>5. y \in Despachar(x, p)
    BY <1>7, <2>4
  <2>6. /\ y \in Hijos /\ y.sock = s /\ y.ped = p /\ y.i = 0
        /\ y.pc \in {"contestar", "listar", "mux", "escribirTam", "truncar"}
        /\ y.pc = "listar" => p.tipo = "lista" /\ y.cant \in 1..MaxEntradas
    BY <2>3, <2>5, Despachado
  <2>7. /\ serv' \in [Montajes -> Hijos] /\ serv'[t] = y
        /\ \A u \in Montajes \ {t} : serv'[u] = serv[u]
    BY <1>2, <1>7, <2>6 DEF Tipos
  <2>8. Tail(c) = <<>> /\ <<>> \in Seq(Pedidos) /\ Len(<<>>) = 0
    <3>1. Tail(c) = <<>>
      BY <1>5, <1>7, ColaDeUno
    <3>. QED BY <3>1
  <2>9. /\ aServidor' \in [Montajes -> Seq(Pedidos)] /\ aServidor'[s] = <<>>
        /\ \A n \in Montajes \ {s} : aServidor'[n] = aServidor[n]
    <3>1. aServidor' = [aServidor EXCEPT ![s] = <<>>]
      BY <1>7, <2>8
    <3>. HIDE DEF s
    <3>. QED BY <1>2, <1>3, <2>8, <3>1 DEF Tipos, Canales
  <2>10. Tipos'
    <3>1. ASSUME NEW n \in Montajes
          PROVE  Len(aServidor'[n]) <= 1
      <4>1. CASE n = s
        <5>1. Len(aServidor'[n]) = 0
          BY <2>8, <2>9, <4>1, Zenon
        <5>. QED BY <5>1
      <4>2. CASE n # s
        BY <1>2, <2>9, <4>2 DEF Tipos, Canales
      <4>. QED BY <4>1, <4>2
    <3>. QED BY <1>2, <1>4, <2>7, <2>9, <3>1 DEF Tipos, Canales, Resto
  <2>11. DelHijo(t)
    BY <1>3, <1>4, <2>6, <2>7, <2>9 DEF DelHijo
  <2>12. Local(t)'
    <3>1. y.pc \in {"contestar", "listar", "mux", "escribirTam", "truncar"} /\ s # Nadie
      BY <1>3, <2>6 DEF SupuestoConversacion
    <3>2. y.pc = "listar" => y.i < y.cant
      BY <2>6 DEF SupuestoConversacion
    <3>. QED BY <2>6, <2>7, <3>1, <3>2 DEF Local, Leer
  <2>13. Parte(s) /\ Pendiente(s) /\ s \notin rotos
    <3>1. Parte(s) /\ Pendiente(s)
      BY <1>3 DEF CInv, EnCurso, Parte
    <3>. QED BY <1>1, <1>5, <1>7, <3>1 DEF Pendiente
  <2>14. \A u \in Montajes : Ocupa(u, s)' => u = t
    <3>1. \A u \in Montajes : serv[u].sock = s => u = t
      BY <1>1 DEF Lectores
    <3>2. serv'[t].sock = s
      BY <2>6, <2>7
    <3>. QED BY <2>7, <3>1, <3>2 DEF Ocupa
  <2>15. Pendiente(s)'
    BY <1>4, <2>6, <2>7, <2>9, <2>13, <2>14 DEF Pendiente
  <2>16. ASSUME s \notin muertos
         PROVE  Llegan(s)' /\ Pedida(s)'
    <3>1. Llegan(s) /\ Pedida(s)
      BY <2>13, <2>16 DEF Parte
    <3>2. Encargo(s, p)
      BY <1>1, <1>5, <2>4, <3>1 DEF Pedida
    <3>3. Llegan(s)'
      BY <1>4, <2>6, <2>7, <3>1 DEF Llegan, Espera
    <3>4. Tarea(s, t)'
      <4>1. /\ Espera(mux[s]) /\ hilo[mux[s]].pc = "recibir" /\ p.de = mux[s]
            /\ p.tipo = hilo[mux[s]].op /\ aCliente[s] = <<>>
            /\ hilo[mux[s]].op = "lista" => hilo[mux[s]].faltan = 0
        BY <3>2 DEF Encargo
      <4>2. Avance(y, hilo[mux[s]], <<>>)
        <5>1. DOMAIN (<<>>) = {} /\ Len(<<>>) = 0
          OBVIOUS
        <5>2. y.pc = "listar" => 0 + y.cant - y.i <= Faltan(hilo[mux[s]].faltan, y.cant)
          BY <2>6, <4>1 DEF Faltan, SupuestoConversacion
        <5>. QED BY <2>6, <4>1, <5>1, <5>2 DEF Avance
      <4>. QED BY <1>4, <2>6, <2>7, <4>1, <4>2 DEF Tarea, Espera
    <3>5. Pedida(s)'
      <4>1. DOMAIN aServidor'[s] = {}
        BY <2>6, <2>7, <2>9
      <4>. QED BY <2>6, <2>7, <2>14, <3>4, <4>1 DEF Pedida
    <3>. QED BY <3>3, <3>5
  <2>. QED BY <2>10, <2>11, <2>12, <2>15, <2>16, PasoDelHijo DEF CInv
<1>8. CASE c # <<>> /\ \E x \in Recv(serv[t], c) :
             IF ~Entero(x) THEN serv' = [serv EXCEPT ![t] = x] /\ UNCHANGED aServidor
             ELSE IF Desfasado(x, c)
               THEN serv' = [serv EXCEPT ![t] = [x EXCEPT !.pc = "desfasado"]] /\ UNCHANGED aServidor
             ELSE /\ \E y \in Despachar(x, Head(c)) : serv' = [serv EXCEPT ![t] = y]
                  /\ aServidor' = [aServidor EXCEPT ![s] = Tail(@)]
  <2>1. PICK x \in Recv(serv[t], c) :
             IF ~Entero(x) THEN serv' = [serv EXCEPT ![t] = x] /\ UNCHANGED aServidor
             ELSE IF Desfasado(x, c)
               THEN serv' = [serv EXCEPT ![t] = [x EXCEPT !.pc = "desfasado"]] /\ UNCHANGED aServidor
             ELSE /\ \E y \in Despachar(x, Head(c)) : serv' = [serv EXCEPT ![t] = y]
                  /\ aServidor' = [aServidor EXCEPT ![s] = Tail(@)]
    BY <1>8
  <2>2. /\ x \in Hijos /\ x.pc = serv[t].pc /\ x.sock = s /\ x.i = 0
        /\ Entero(x) => ~Desfasado(x, c)
    <3>1. PICK z \in Hijos : z = serv[t]
      BY <1>2
    <3>2. x \in Recv(z, c)
      BY <3>1
    <3>. QED BY <1>3, <1>5, <1>8, <3>1, <3>2, OyeBien
  <2>3. CASE ~Entero(x)
    <3>1. serv' = [serv EXCEPT ![t] = x] /\ aServidor' = aServidor
      BY <2>1, <2>3
    <3>2. x.pc \in {"saludo", "espera", "fin"} /\ x.pc # "fin"
      BY <1>1, <2>2
    <3>. QED BY <1>6, <2>2, <3>1, <3>2
  <2>4. CASE Entero(x)
    <3>1. PICK y \in Despachar(x, Head(c)) : serv' = [serv EXCEPT ![t] = y]
      BY <2>1, <2>2, <2>4
    <3>2. aServidor' = [aServidor EXCEPT ![s] = Tail(c)]
      BY <1>5, <2>1, <2>2, <2>4
    <3>. QED BY <1>7, <1>8, <2>4, <3>1, <3>2
  <2>. QED BY <2>3, <2>4
<1>9. CASE s \in muertos /\ serv' = [serv EXCEPT ![t].pc = "fin"] /\ UNCHANGED aServidor
  <2>. DEFINE x == [serv[t] EXCEPT !.pc = "fin"]
  <2>1. x \in Hijos /\ x.pc = "fin" /\ x.sock = s /\ x.i = 0
    BY <1>2, <1>3, ZenonT(60) DEF Hijos
  <2>2. serv' = [serv EXCEPT ![t] = x] /\ aServidor' = aServidor
    BY <1>9
  <2>. HIDE DEF x
  <2>3. x.pc \in {"saludo", "espera", "fin"}
    BY <2>1
  <2>. QED BY <1>6, <1>9, <2>1, <2>2, <2>3
<1>. QED BY <1>5, <1>8, <1>9 DEF Escuchar

\* The records these steps leave.
ConTam(x, n, pc) == [x EXCEPT !.size = n, !.pc = pc]
ConPrimero(x, pc, b, n) == [x EXCEPT !.pc = pc, !.block_start = b, !.copied = n, !.copiedMSG = n]
ConPaso(x, pc) == [x EXCEPT !.pc = pc]
ConEnlace(x, b, n) == [x EXCEPT !.pc = "escribirBloque", !.block_start = b, !.copied = n]
ConSobra(x, n, pc) == [x EXCEPT !.cant = n, !.pc = pc]
ConUltimo(x, b, pc) == [x EXCEPT !.block_start = b, !.pc = pc]
ConInicio(x, pc, b) == [x EXCEPT !.pc = pc, !.block_start = b]
Comparten(y, x) == y \in Hijos /\ y.sock = x.sock /\ y.ped = x.ped /\ y.i = x.i

LEMMA QuedaConTam ==
  ASSUME NEW x \in Hijos, NEW n \in 0..Mucho, NEW pc \in Atareado
  PROVE  Comparten(ConTam(x, n, pc), x) /\ ConTam(x, n, pc).pc = pc
BY DEF ConTam, Hijos, Comparten

LEMMA QuedaConPrimero ==
  ASSUME SupuestoConversacion, NEW x \in Hijos, NEW pc \in Atareado, NEW b \in 0..FIN, NEW n \in Nat, n <= 1
  PROVE  /\ Comparten(ConPrimero(x, pc, b, n), x) /\ ConPrimero(x, pc, b, n).pc = pc
         /\ ConPrimero(x, pc, b, n).copiedMSG = n
<1>1. n \in 0..Grupo
  BY DEF SupuestoConversacion
<1>. QED BY <1>1 DEF ConPrimero, Hijos, Comparten

LEMMA QuedaConPaso ==
  ASSUME NEW x \in Hijos, NEW pc \in Atareado
  PROVE  /\ Comparten(ConPaso(x, pc), x) /\ ConPaso(x, pc).pc = pc
         /\ \A cod \in {-1, 0} : Comparten(Con(x, pc, cod), x) /\ Con(x, pc, cod).pc = pc
         /\ \A n \in Int : Comparten(ConSobra(x, n, pc), x) /\ ConSobra(x, n, pc).pc = pc
BY DEF ConPaso, Con, ConSobra, Hijos, Comparten

LEMMA QuedaConEnlace ==
  ASSUME NEW x \in Hijos, NEW b \in 0..FIN, NEW n \in Nat
  PROVE  Comparten(ConEnlace(x, b, n), x) /\ ConEnlace(x, b, n).pc = "escribirBloque"
BY DEF ConEnlace, Hijos, Comparten, Atareado

LEMMA QuedaAndando ==
  ASSUME NEW x \in Hijos, NEW b \in 0..FIN, NEW pc \in Atareado
  PROVE  /\ Comparten(ConUltimo(x, b, pc), x) /\ ConUltimo(x, b, pc).pc = pc
         /\ Comparten(ConInicio(x, pc, b), x) /\ ConInicio(x, pc, b).pc = pc
BY DEF ConUltimo, ConInicio, Hijos, Comparten

\* The step of a thread that only goes on in its request.
LEMMA SigueDentro ==
  ASSUME SupuestoConversacion, CInv, NEW t \in Montajes, NEW x, Comparten(x, serv[t]),
         servidor = "vivo",
         \/ serv[t].pc = "mux" /\ (x.pc = "contestar" \/ (x.pc = "leerTam" /\ serv[t].ped.tipo = "leer"))
         \/ serv[t].pc = "leerTam" /\ x.pc = "leerPrimero"
         \/ serv[t].pc = "leerPrimero" /\ x.pc = "leerBloque" /\ x.copiedMSG <= 1
         \/ serv[t].pc \in Escribe /\ x.pc \in Escribe \cup {"contestar"},
         serv' = [serv EXCEPT ![t] = x],
         UNCHANGED <<cliente, aServidor, aCliente, muertos, rotos, sock_Cli, servidor>>, Fichero'
  PROVE  CInv'
<1>1. x \in Hijos /\ x.sock = serv[t].sock /\ x.ped = serv[t].ped /\ x.i = serv[t].i
  BY DEF Comparten
<1>2. Local(t)
  BY DEF CInv, Locales
<1>3. /\ serv[t].pc \in Atareado \ EnPartes /\ x.pc \in (Atareado \ EnPartes) \cup {"leerBloque"}
      /\ x.pc \in Leer => serv[t].ped.tipo = "leer"
      /\ x.pc = "leerBloque" => x.copiedMSG <= 1
  BY <1>2 DEF Atareado, EnPartes, Leer, Escribe, Local
<1>. QED BY <1>1, <1>3, PasoInterno

\* A server that falls leaves everything as it is.
LEMMA CaeQuieto ==
  ASSUME SupuestoConversacion, CInv, NEW t \in Montajes, servidor = "vivo", serv[t].pc \in Atareado,
         servidor' = "fuera", serv' = serv,
         UNCHANGED <<cliente, aServidor, aCliente, muertos, rotos, sock_Cli>>, Fichero'
  PROVE  CInv'
<1>. DEFINE s == serv[t].sock
<1>1. /\ serv[t] \in Hijos /\ Tipos /\ Local(t)
      /\ serv \in [Montajes -> Hijos] /\ aCliente \in [Montajes -> Seq(Respuestas)]
  BY DEF CInv, Tipos, Canales, Locales
<1>2. s \in Montajes
  BY <1>1 DEF Local, Hijos, Atareado
<1>3. PICK c \in Seq(Respuestas) : c = aCliente[s]
  BY <1>1, <1>2
<1>4. Parte(s) /\ (s \notin muertos => s \notin rotos) /\ rotos \subseteq Montajes
  BY <1>1, <1>2, Abierto DEF CInv, EnCurso, Tipos, Resto
<1>5. Salida(s, c)
  BY <1>1, <1>3, <1>4 DEF Salida
<1>6. Cabe(t, serv[t], c)
  BY <1>3, <1>4 DEF Cabe, Parte, Llegan
<1>7. Local(t)'
  BY <1>1 DEF Local
<1>8. serv' = [serv EXCEPT ![t] = serv[t]]
  BY <1>1
<1>9. PICK x \in Hijos : x = serv[t]
  BY <1>1
<1>10. /\ serv' = [serv EXCEPT ![t] = x] /\ Cabe(t, x, c) /\ x.sock = serv[t].sock
       /\ UNCHANGED <<cliente, aServidor, muertos, sock_Cli>>
  BY <1>1, <1>6, <1>8, <1>9
<1>. QED BY <1>1, <1>5, <1>7, <1>10, PasoOcupado, Zenon

\* What a thread knows of its request and of the file.
LEMMA PedidoBien ==
  ASSUME SupuestoConversacion, CInv, NEW t \in Montajes
  PROVE  /\ serv[t] \in Hijos /\ Tipos /\ Fichero /\ MaxBloques \in Nat \ {0}
         /\ serv[t].ped.size \in 0..MaxBloques /\ serv[t].ped.offset \in 0..MaxBloques
         /\ Meta(serv[t].ped) \in 0..MaxBloques
         /\ serv[t].block_start \in 0..FIN /\ serv[t].copied \in Nat /\ serv[t].cant \in Int
<1>1. serv[t] \in Hijos /\ Tipos /\ Fichero /\ MaxBloques \in Nat \ {0}
  BY DEF CInv, Tipos, Resto, SupuestoConversacion
<1>2. PICK p \in Pedidos : p = serv[t].ped
  BY <1>1 DEF Hijos
<1>3. p.size \in 0..MaxBloques /\ p.offset \in 0..MaxBloques /\ p.offset + p.size <= MaxBloques
  BY DEF Pedidos
<1>4. Meta(p) \in 0..MaxBloques
  BY <1>1, <1>3 DEF Meta
<1>. QED BY <1>1, <1>2, <1>3, <1>4 DEF Hijos

\* The link that a thread reads is of a block, or the end.
LEMMA EnlaceBien ==
  ASSUME SupuestoConversacion, CInv, NEW t \in Montajes, NEW b \in Enlaces(t)
  PROVE  b \in 0..FIN
<1>1. serv[t].block_start \in 0..FIN /\ Fichero /\ MaxBloques \in Nat \ {0}
  BY PedidoBien
<1>. QED BY <1>1, Medidas DEF Enlaces, Fichero

\* What is done with the link of the block leaves a chain.
LEMMA LigadoBien ==
  ASSUME SupuestoConversacion, CInv, NEW t \in Montajes, Ligar(t)
  PROVE  cadena' \in 1..MaxBloques /\ sueltos' \subseteq Montajes
<1>1. serv[t].block_start \in 0..FIN /\ Fichero /\ MaxBloques \in Nat \ {0}
  BY PedidoBien
<1>. QED BY <1>1, Medidas DEF Ligar, Fichero

\* sem_wait on mux_osada
LEMMA PasoConMux ==
  ASSUME SupuestoConversacion, CInv, NEW t \in Montajes, ConMux(t)
  PROVE  CInv'
<1>1. serv[t] \in Hijos /\ Fichero
  BY PedidoBien
<1>. DEFINE lee == serv[t].ped.tipo = "leer"
<1>2. /\ servidor = "vivo" /\ serv[t].pc = "mux"
      /\ UNCHANGED <<cliente, aServidor, aCliente, muertos, rotos, sock_Cli, archivo, servidor>>
      /\ \/ serv' = [serv EXCEPT ![t] = Con(serv[t], "contestar", -1)]
         \/ ~lee /\ serv' = [serv EXCEPT ![t] = Con(serv[t], "contestar", 0)]
         \/ lee /\ serv' = [serv EXCEPT ![t] = Con(serv[t], "leerTam", 0)]
  BY DEF ConMux, En
<1>3. PICK x : /\ Comparten(x, serv[t]) /\ serv' = [serv EXCEPT ![t] = x]
               /\ x.pc = "contestar" \/ (x.pc = "leerTam" /\ lee)
  <2>1. "contestar" \in Atareado /\ "leerTam" \in Atareado
    BY DEF Atareado
  <2>2. /\ \A cod \in {-1, 0} : /\ Comparten(Con(serv[t], "contestar", cod), serv[t])
                                /\ Con(serv[t], "contestar", cod).pc = "contestar"
        /\ Comparten(Con(serv[t], "leerTam", 0), serv[t]) /\ Con(serv[t], "leerTam", 0).pc = "leerTam"
    BY <1>1, <2>1, QuedaConPaso
  <2>. QED BY <1>2, <2>2
<1>4. Fichero'
  BY <1>1, <1>2 DEF Fichero, archivo
<1>. QED BY <1>2, <1>3, <1>4, SigueDentro

LEMMA PasoLeerTam ==
  ASSUME SupuestoConversacion, CInv, NEW t \in Montajes, LeerTam(t)
  PROVE  CInv'
<1>1. serv[t] \in Hijos /\ Tipos
  BY DEF CInv, Tipos
<1>. DEFINE n == IF tam >= serv[t].ped.offset + serv[t].ped.size THEN serv[t].ped.size
                 ELSE IF tam >= serv[t].ped.offset THEN tam - serv[t].ped.offset ELSE Mucho
<1>2. n \in 0..Mucho
  <2>1. /\ serv[t].ped.size \in 0..MaxBloques /\ serv[t].ped.offset \in 0..MaxBloques
        /\ tam \in 0..MaxBloques /\ MaxBloques \in Nat
    BY PedidoBien DEF Fichero
  <2>. QED BY <2>1, Medidas
<1>. HIDE DEF n
<1>3. /\ Comparten(ConTam(serv[t], n, "leerPrimero"), serv[t])
      /\ ConTam(serv[t], n, "leerPrimero").pc = "leerPrimero"
  BY <1>1, <1>2, QuedaConTam DEF Atareado
<1>4. /\ serv' = [serv EXCEPT ![t] = ConTam(serv[t], n, "leerPrimero")]
      /\ servidor = "vivo" /\ serv[t].pc = "leerTam"
      /\ UNCHANGED <<cliente, aServidor, aCliente, muertos, rotos, sock_Cli, archivo, servidor>>
  BY <1>1 DEF LeerTam, En, ConTam, Hijos, n
<1>5. Fichero'
  BY <1>1, <1>4 DEF Tipos, Resto, Fichero, archivo
<1>. QED BY <1>3, <1>4, <1>5, SigueDentro

\* The walk to the first block.
LEMMA PasoAlPrimero ==
  ASSUME SupuestoConversacion, CInv, NEW t \in Montajes, NEW pc, AlPrimero(t, pc), servidor = "vivo",
         \/ serv[t].pc = "leerPrimero" /\ pc = "leerBloque"
         \/ serv[t].pc = "escribirIr" /\ pc = "escribirBloque"
  PROVE  CInv'
<1>1. /\ serv[t] \in Hijos /\ Tipos /\ Fichero /\ serv[t].ped.offset \in 0..MaxBloques /\ MaxBloques \in Nat
      /\ UNCHANGED <<cliente, aServidor, aCliente, muertos, rotos, sock_Cli, cadena, tam, retenido>>
      /\ serv[t].pc \in Atareado /\ pc \in Atareado
  BY PedidoBien DEF AlPrimero, Atareado
<1>2. Fichero'
  BY <1>1 DEF AlPrimero, Fichero
<1>3. CASE serv[t].ped.offset > cadena
  <2>1. servidor' = "fuera" /\ serv' = serv
    BY <1>3 DEF AlPrimero
  <2>. QED BY <1>1, <1>2, <2>1, CaeQuieto
<1>4. CASE ~(serv[t].ped.offset > cadena)
  <2>. DEFINE b == IF serv[t].ped.offset = cadena THEN FIN ELSE serv[t].ped.offset
              n == Min({1, serv[t].size})
  <2>1. b \in 0..FIN
    BY <1>1, Medidas
  <2>2. n \in Nat /\ n <= 1
    <3>1. PICK k \in Nat : k = serv[t].size
      BY <1>1, Medidas DEF Hijos
    <3>2. PICK u \in Int, w \in Int : u = 1 /\ w = k
      OBVIOUS
    <3>3. Min({u, w}) \in Int /\ Min({u, w}) <= u /\ Min({u, w}) \in {u, w}
      BY DeDos, Zenon
    <3>4. Min({1, k}) \in Int /\ Min({1, k}) <= 1 /\ Min({1, k}) \in {1, k}
      BY <3>2, <3>3
    <3>. QED BY <3>1, <3>4
  <2>. HIDE DEF b, n
  <2>3. /\ Comparten(ConPrimero(serv[t], pc, b, n), serv[t])
        /\ ConPrimero(serv[t], pc, b, n).pc = pc /\ ConPrimero(serv[t], pc, b, n).copiedMSG <= 1
    BY <1>1, <2>1, <2>2, QuedaConPrimero
  <2>4. serv' = [serv EXCEPT ![t] = ConPrimero(serv[t], pc, b, n)] /\ servidor' = servidor
    BY <1>4 DEF AlPrimero, ConPrimero, b, n
  <2>5. "escribirIr" \in Escribe /\ "escribirBloque" \in Escribe
    BY DEF Escribe
  <2>6. PICK x : /\ x = ConPrimero(serv[t], pc, b, n)
                 /\ Comparten(x, serv[t]) /\ x.pc = pc /\ x.copiedMSG <= 1
    BY <2>3
  <2>7. CASE serv[t].pc = "leerPrimero" /\ pc = "leerBloque"
    BY <1>1, <1>2, <2>4, <2>6, <2>7, SigueDentro
  <2>8. CASE serv[t].pc = "escribirIr" /\ pc = "escribirBloque"
    BY <1>1, <1>2, <2>4, <2>5, <2>6, <2>8, SigueDentro
  <2>. QED BY <2>7, <2>8
<1>. QED BY <1>3, <1>4

LEMMA PasoLeerPrimero ==
  ASSUME SupuestoConversacion, CInv, NEW t \in Montajes, LeerPrimero(t)
  PROVE  CInv'
BY PasoAlPrimero DEF LeerPrimero, En

LEMMA PasoEscribirIr ==
  ASSUME SupuestoConversacion, CInv, NEW t \in Montajes, EscribirIr(t)
  PROVE  CInv'
BY PasoAlPrimero DEF EscribirIr, En

\* osada_write: the size
LEMMA PasoEscribirTam ==
  ASSUME SupuestoConversacion, CInv, NEW t \in Montajes, EscribirTam(t)
  PROVE  CInv'
<1>1. /\ serv[t] \in Hijos /\ Fichero /\ serv[t].ped.size \in 0..MaxBloques /\ MaxBloques \in Nat
  BY PedidoBien
<1>. DEFINE n == serv[t].ped.size
            pc == IF tam < serv[t].ped.offset + serv[t].ped.size THEN "truncar" ELSE "escribirIr"
<1>2. n \in 0..Mucho /\ pc \in Atareado /\ pc \in Escribe
  BY <1>1, Medidas DEF Atareado, Escribe
<1>3. /\ serv' = [serv EXCEPT ![t] = ConTam(serv[t], n, pc)] /\ servidor = "vivo" /\ serv[t].pc = "escribirTam"
      /\ UNCHANGED <<cliente, aServidor, aCliente, muertos, rotos, sock_Cli, archivo, servidor>>
  BY DEF EscribirTam, En, ConTam
<1>. HIDE DEF n, pc
<1>4. Comparten(ConTam(serv[t], n, pc), serv[t]) /\ ConTam(serv[t], n, pc).pc = pc
  BY <1>1, <1>2, QuedaConTam
<1>5. Fichero' /\ "escribirTam" \in Escribe
  BY <1>1, <1>3 DEF Fichero, archivo, Escribe
<1>. QED BY <1>2, <1>3, <1>4, <1>5, SigueDentro

\* A turn of its loop.
LEMMA PasoEscribirBloque ==
  ASSUME SupuestoConversacion, CInv, NEW t \in Montajes, EscribirBloque(t)
  PROVE  CInv'
<1>1. /\ serv[t] \in Hijos /\ Fichero /\ servidor = "vivo" /\ serv[t].pc = "escribirBloque"
      /\ serv[t].pc \in Atareado /\ serv[t].pc \in Escribe
      /\ UNCHANGED <<cliente, aServidor, aCliente, muertos, rotos, sock_Cli, archivo>>
  BY PedidoBien DEF EscribirBloque, En, Atareado, Escribe
<1>2. Fichero'
  BY <1>1 DEF Fichero, archivo
<1>3. CASE serv[t].copied < serv[t].size /\ serv[t].block_start = FIN
  <2>1. servidor' = "fuera" /\ serv' = serv
    BY <1>3 DEF EscribirBloque
  <2>. QED BY <1>1, <1>2, <2>1, CaeQuieto
<1>4. CASE ~(serv[t].copied < serv[t].size /\ serv[t].block_start = FIN)
  <2>1. PICK pc \in {"contestar", "nunca", "escribirSeguir"} :
          serv' = [serv EXCEPT ![t] = ConPaso(serv[t], pc)] /\ servidor' = servidor
    <3>1. PICK b \in Enlaces(t) :
            serv' = [serv EXCEPT ![t].pc = IF serv[t].copied >= serv[t].size THEN "contestar"
                                           ELSE IF b = FIN THEN "nunca" ELSE "escribirSeguir"]
      BY <1>4 DEF EscribirBloque
    <3>. DEFINE pc == IF serv[t].copied >= serv[t].size THEN "contestar"
                      ELSE IF b = FIN THEN "nunca" ELSE "escribirSeguir"
    <3>2. pc \in {"contestar", "nunca", "escribirSeguir"}
      OBVIOUS
    <3>3. serv' = [serv EXCEPT ![t] = ConPaso(serv[t], pc)]
      BY <3>1 DEF ConPaso
    <3>4. servidor' = servidor
      BY <1>4 DEF EscribirBloque
    <3>. HIDE DEF pc
    <3>. QED BY <3>2, <3>3, <3>4
  <2>2. pc \in Atareado /\ pc \in Escribe \cup {"contestar"}
    BY DEF Atareado, Escribe
  <2>3. Comparten(ConPaso(serv[t], pc), serv[t]) /\ ConPaso(serv[t], pc).pc = pc
    BY <1>1, <2>2, QuedaConPaso
  <2>. QED BY <1>1, <1>2, <2>1, <2>2, <2>3, SigueDentro
<1>. QED BY <1>3, <1>4

LEMMA PasoEscribirSeguir ==
  ASSUME SupuestoConversacion, CInv, NEW t \in Montajes, EscribirSeguir(t)
  PROVE  CInv'
<1>1. /\ serv[t] \in Hijos /\ Fichero /\ serv[t].copied \in Nat
      /\ servidor = "vivo" /\ serv[t].pc = "escribirSeguir" /\ serv[t].pc \in Escribe
      /\ UNCHANGED <<cliente, aServidor, aCliente, muertos, rotos, sock_Cli, archivo, servidor>>
  BY PedidoBien DEF EscribirSeguir, En, Escribe
<1>2. PICK b \in Enlaces(t) : serv' = [serv EXCEPT ![t] = ConEnlace(serv[t], b, serv[t].copied + 1)]
  BY DEF EscribirSeguir, ConEnlace
<1>3. PICK n \in Nat : n = serv[t].copied + 1
  BY <1>1
<1>4. /\ Comparten(ConEnlace(serv[t], b, n), serv[t])
      /\ ConEnlace(serv[t], b, n).pc \in Escribe \cup {"contestar"}
  BY <1>1, EnlaceBien, QuedaConEnlace DEF Escribe
<1>5. Fichero'
  BY <1>1 DEF Fichero, archivo
<1>. QED BY <1>1, <1>2, <1>3, <1>4, <1>5, SigueDentro

\* A step to pc within osada_write or osada_ftruncate, with cod or not.
LEMMA PasoCon ==
  ASSUME SupuestoConversacion, CInv, NEW t \in Montajes, servidor = "vivo", serv[t].pc \in Escribe,
         NEW pc \in Escribe \cup {"contestar"},
         \/ serv' = [serv EXCEPT ![t] = ConPaso(serv[t], pc)]
         \/ \E cod \in {-1, 0} : serv' = [serv EXCEPT ![t] = Con(serv[t], pc, cod)]
         \/ \E n \in Int : serv' = [serv EXCEPT ![t] = ConSobra(serv[t], n, pc)],
         UNCHANGED <<cliente, aServidor, aCliente, muertos, rotos, sock_Cli, servidor>>, Fichero'
  PROVE  CInv'
<1>1. serv[t] \in Hijos /\ pc \in Atareado
  BY PedidoBien DEF Atareado, Escribe
<1>2. PICK x : Comparten(x, serv[t]) /\ x.pc = pc /\ serv' = [serv EXCEPT ![t] = x]
  BY <1>1, QuedaConPaso
<1>. QED BY <1>2, SigueDentro

\* Where it should never be.
LEMMA PasoNunca ==
  ASSUME SupuestoConversacion, CInv, NEW t \in Montajes, Nunca(t)
  PROVE  CInv'
<1>1. /\ Fichero /\ servidor = "vivo" /\ serv[t].pc = "nunca" /\ serv[t].pc \in Escribe
      /\ UNCHANGED <<cliente, aServidor, aCliente, muertos, rotos, sock_Cli, servidor>> /\ tam' = tam
  BY PedidoBien DEF Nunca, En, Escribe
<1>2. CASE /\ Ligar(t) /\ serv' = [serv EXCEPT ![t].pc = "escribirSeguir"] /\ UNCHANGED retenido
  <2>1. Fichero'
    BY <1>1, <1>2, LigadoBien DEF Fichero
  <2>2. serv' = [serv EXCEPT ![t] = ConPaso(serv[t], "escribirSeguir")] /\ "escribirSeguir" \in Escribe
    BY <1>2 DEF ConPaso, Escribe
  <2>. QED BY <1>1, <2>1, <2>2, PasoCon
<1>3. CASE /\ serv' = [serv EXCEPT ![t] = Con(serv[t], "contestar", -1)] /\ retenido' = TRUE
           /\ UNCHANGED <<cadena, sueltos>>
  <2>1. Fichero'
    BY <1>1, <1>3 DEF Fichero
  <2>. QED BY <1>1, <1>3, <2>1, PasoCon
<1>. QED BY <1>2, <1>3 DEF Nunca

\* osada_ftruncate
LEMMA PasoTruncar ==
  ASSUME SupuestoConversacion, CInv, NEW t \in Montajes, Truncar(t)
  PROVE  CInv'
<1>1. /\ serv[t] \in Hijos /\ Fichero /\ MaxBloques \in Nat /\ Meta(serv[t].ped) \in 0..MaxBloques
      /\ servidor = "vivo" /\ serv[t].pc = "truncar" /\ serv[t].pc \in Escribe
      /\ UNCHANGED <<cliente, aServidor, aCliente, muertos, rotos, sock_Cli, archivo, servidor>>
  BY PedidoBien DEF Truncar, En, Escribe
<1>2. Fichero'
  BY <1>1 DEF Fichero, archivo
<1>. DEFINE abm == BloquesDe(Meta(serv[t].ped)) - BloquesDe(tam)
<1>3. abm \in Int /\ "andar" \in Escribe
  BY <1>1 DEF BloquesDe, Fichero, Escribe
<1>4. \/ \E cod \in {-1, 0} : serv' = [serv EXCEPT ![t] = Truncado(serv[t], cod)]
      \/ serv' = [serv EXCEPT ![t] = ConSobra(serv[t], abm, "andar")]
  BY DEF Truncar, ConSobra
<1>. HIDE DEF abm
<1>5. CASE \E cod \in {-1, 0} : serv' = [serv EXCEPT ![t] = Truncado(serv[t], cod)]
  BY <1>1, <1>2, <1>5, PasoCon DEF Truncado, Escribe
<1>6. CASE serv' = [serv EXCEPT ![t] = ConSobra(serv[t], abm, "andar")]
  BY <1>1, <1>2, <1>3, <1>6, PasoCon
<1>. QED BY <1>4, <1>5, <1>6

\* The walk to the last block: its beginning,
LEMMA PasoAndar ==
  ASSUME SupuestoConversacion, CInv, NEW t \in Montajes, Andar(t)
  PROVE  CInv'
<1>1. /\ serv[t] \in Hijos /\ Fichero /\ 0 \in 0..FIN /\ "mirar" \in Atareado /\ "mirar" \in Escribe
      /\ servidor = "vivo" /\ serv[t].pc = "andar" /\ serv[t].pc \in Escribe
      /\ UNCHANGED <<cliente, aServidor, aCliente, muertos, rotos, sock_Cli, cadena, tam, retenido, servidor>>
      /\ sueltos' = sueltos \ {t}
  BY PedidoBien, Medidas DEF Andar, En, Escribe, Atareado
<1>2. serv' = [serv EXCEPT ![t] = ConInicio(serv[t], "mirar", 0)]
  BY DEF Andar, ConInicio
<1>3. Fichero'
  BY <1>1 DEF Fichero
<1>4. Comparten(ConInicio(serv[t], "mirar", 0), serv[t]) /\ ConInicio(serv[t], "mirar", 0).pc = "mirar"
  BY <1>1, QuedaAndando
<1>. QED BY <1>1, <1>2, <1>3, <1>4, SigueDentro

LEMMA UltimoBien ==
  ASSUME NEW x
  PROVE  AlUltimo(x) \in Escribe \cap Atareado
BY DEF AlUltimo, Escribe, Atareado

\* the test of a link,
LEMMA PasoMirar ==
  ASSUME SupuestoConversacion, CInv, NEW t \in Montajes, Mirar(t)
  PROVE  CInv'
<1>1. /\ serv[t] \in Hijos /\ Fichero /\ servidor = "vivo" /\ serv[t].pc = "mirar" /\ serv[t].pc \in Escribe
      /\ UNCHANGED <<cliente, aServidor, aCliente, muertos, rotos, sock_Cli, archivo, servidor>>
  BY PedidoBien DEF Mirar, En, Escribe
<1>2. Fichero'
  BY <1>1 DEF Fichero, archivo
<1>3. PICK b \in Enlaces(t) :
        serv' = [serv EXCEPT ![t] = ConPaso(serv[t], IF b = FIN THEN AlUltimo(serv[t]) ELSE "avanzar")]
  BY DEF Mirar, ConPaso
<1>4. (IF b = FIN THEN AlUltimo(serv[t]) ELSE "avanzar") \in Escribe
  BY UltimoBien DEF Escribe
<1>. QED BY <1>1, <1>2, <1>3, <1>4, PasoCon

\* and the step to the block after it, if there is still one.
LEMMA PasoAvanzar ==
  ASSUME SupuestoConversacion, CInv, NEW t \in Montajes, Avanzar(t)
  PROVE  CInv'
<1>1. /\ serv[t] \in Hijos /\ Fichero /\ servidor = "vivo" /\ serv[t].pc = "avanzar"
      /\ serv[t].pc \in Atareado /\ serv[t].pc \in Escribe
      /\ UNCHANGED <<cliente, aServidor, aCliente, muertos, rotos, sock_Cli, archivo>>
  BY PedidoBien DEF Avanzar, En, Atareado, Escribe
<1>2. Fichero'
  BY <1>1 DEF Fichero, archivo
<1>. DEFINE pc == IF t \in sueltos THEN AlUltimo(serv[t]) ELSE "mirar"
<1>3. PICK b \in Enlaces(t) :
        \/ servidor' = "fuera" /\ serv' = serv
        \/ servidor' = servidor /\ serv' = [serv EXCEPT ![t] = ConUltimo(serv[t], b, pc)]
  BY DEF Avanzar, ConUltimo
<1>4. pc \in Atareado /\ pc \in Escribe
  BY UltimoBien DEF Escribe, Atareado
<1>. HIDE DEF pc
<1>5. CASE servidor' = "fuera" /\ serv' = serv
  BY <1>1, <1>2, <1>5, CaeQuieto
<1>6. CASE servidor' = servidor /\ serv' = [serv EXCEPT ![t] = ConUltimo(serv[t], b, pc)]
  <2>1. Comparten(ConUltimo(serv[t], b, pc), serv[t]) /\ ConUltimo(serv[t], b, pc).pc = pc
    BY <1>1, <1>4, EnlaceBien, QuedaAndando
  <2>. QED BY <1>1, <1>2, <1>4, <1>6, <2>1, SigueDentro
<1>. QED BY <1>3, <1>5, <1>6

\* A block more, or none that is free.
LEMMA PasoEnlazar ==
  ASSUME SupuestoConversacion, CInv, NEW t \in Montajes, Enlazar(t)
  PROVE  CInv'
<1>1. /\ Fichero /\ servidor = "vivo" /\ serv[t].pc = "enlazar" /\ serv[t].pc \in Escribe
      /\ serv[t].cant - 1 \in Int
      /\ UNCHANGED <<cliente, aServidor, aCliente, muertos, rotos, sock_Cli, tam, retenido, servidor>>
  BY PedidoBien DEF Enlazar, En, Escribe
<1>2. CASE Ligar(t) /\ serv' = [serv EXCEPT ![t] = [serv[t] EXCEPT !.cant = serv[t].cant - 1, !.pc = "andar"]]
  <2>1. Fichero'
    BY <1>1, <1>2, LigadoBien DEF Fichero
  <2>2. serv' = [serv EXCEPT ![t] = ConSobra(serv[t], serv[t].cant - 1, "andar")] /\ "andar" \in Escribe
    BY <1>2 DEF ConSobra, Escribe
  <2>. QED BY <1>1, <2>1, <2>2, PasoCon
<1>3. CASE serv' = [serv EXCEPT ![t] = Con(serv[t], "contestar", -1)] /\ UNCHANGED <<cadena, sueltos>>
  <2>1. Fichero'
    BY <1>1, <1>3 DEF Fichero
  <2>. QED BY <1>1, <1>3, <2>1, PasoCon
<1>. QED BY <1>2, <1>3 DEF Enlazar

\* The last block of the chain, and the size.
LEMMA PasoQuitar ==
  ASSUME SupuestoConversacion, CInv, NEW t \in Montajes, Quitar(t)
  PROVE  CInv'
<1>1. /\ Fichero /\ servidor = "vivo" /\ serv[t].pc = "quitar" /\ serv[t].pc \in Escribe /\ "andar" \in Escribe
      /\ serv[t].cant + 1 \in Int
      /\ UNCHANGED <<cliente, aServidor, aCliente, muertos, rotos, sock_Cli, tam, retenido, servidor>>
      /\ serv' = [serv EXCEPT ![t] = ConSobra(serv[t], serv[t].cant + 1, "andar")]
  BY PedidoBien DEF Quitar, En, Escribe, ConSobra
<1>2. cadena' \in 1..MaxBloques /\ sueltos' \subseteq Montajes
  <2>1. CASE UNCHANGED <<cadena, sueltos>>
    BY <1>1, <2>1 DEF Fichero
  <2>2. CASE /\ cadena' \in IF t \in sueltos THEN 1..cadena ELSE 1..cadena \cap {serv[t].block_start}
             /\ sueltos' = sueltos \cup {u \in Montajes : serv[u].block_start \in cadena'..FIN - 1}
    <3>1. PICK c \in 1..MaxBloques : c = cadena
      BY <1>1 DEF Fichero
    <3>2. cadena' \in 1..c
      BY <2>2, <3>1
    <3>3. MaxBloques \in Nat
      BY DEF SupuestoConversacion
    <3>. QED BY <1>1, <2>2, <3>2, <3>3 DEF Fichero
  <2>. QED BY <2>1, <2>2 DEF Quitar
<1>3. Fichero'
  BY <1>1, <1>2 DEF Fichero
<1>. QED BY <1>1, <1>3, PasoCon

LEMMA PasoPonerTam ==
  ASSUME SupuestoConversacion, CInv, NEW t \in Montajes, PonerTam(t)
  PROVE  CInv'
<1>1. /\ Fichero /\ Meta(serv[t].ped) \in 0..MaxBloques
      /\ servidor = "vivo" /\ serv[t].pc = "andar" /\ serv[t].pc \in Escribe
      /\ UNCHANGED <<cliente, aServidor, aCliente, muertos, rotos, sock_Cli, cadena, sueltos, retenido, servidor>>
      /\ tam' = Meta(serv[t].ped) /\ serv' = [serv EXCEPT ![t] = Truncado(serv[t], 0)]
  BY PedidoBien DEF PonerTam, En, Escribe
<1>2. Fichero'
  BY <1>1 DEF Fichero
<1>. QED BY <1>1, <1>2, PasoCon DEF Truncado, Escribe

\* A packet at the end of a channel.
LEMMA AlFinal ==
  ASSUME NEW V, NEW c \in Seq(V), NEW p \in V
  PROVE  /\ Append(c, p) \in Seq(V) /\ Append(c, p) # <<>> /\ Len(c) \in Nat
         /\ Len(Append(c, p)) = Len(c) + 1
         /\ \A k \in DOMAIN Append(c, p) :
              /\ k \in Nat
              /\ \/ k \in DOMAIN c /\ Append(c, p)[k] = c[k]
                 \/ k = Len(c) + 1 /\ Append(c, p)[k] = p
         /\ c # <<>> => Head(Append(c, p)) = Head(c)
<1>1. /\ Append(c, p) \in Seq(V) /\ Append(c, p) # <<>> /\ Len(c) \in Nat
      /\ Len(Append(c, p)) = Len(c) + 1
  OBVIOUS
<1>2. ASSUME NEW k \in DOMAIN Append(c, p)
      PROVE  /\ k \in Nat
             /\ \/ k \in DOMAIN c /\ Append(c, p)[k] = c[k]
                \/ k = Len(c) + 1 /\ Append(c, p)[k] = p
  OBVIOUS
<1>3. c # <<>> => Head(Append(c, p)) = Head(c)
  OBVIOUS
<1>. QED BY <1>1, <1>2, <1>3

\* send_socket to the mount of a thread that has a request of it: to one that lives, the
\* packet; to one that has been killed, nothing, and the second time the server falls.
LEMMA AlMandar ==
  ASSUME SupuestoConversacion, CInv, NEW s \in Montajes, servidor = "vivo", NEW p, Mandar(s, p),
         s \notin muertos => p \in Respuestas
  PROVE  /\ s \notin muertos => s \notin rotos /\ rotos' = rotos /\ servidor' = "vivo"
                                /\ Salida(s, Append(aCliente[s], p))
         /\ s \in muertos => /\ Salida(s, aCliente[s])
                             /\ \/ servidor' = "vivo" /\ s \notin rotos
                                \/ servidor' = "fuera" /\ s \in rotos
         /\ aCliente[s] \in Seq(Respuestas)
<1>1. /\ aCliente \in [Montajes -> Seq(Respuestas)] /\ aCliente[s] \in Seq(Respuestas)
      /\ rotos \subseteq Montajes
  BY DEF CInv, Tipos, Canales, Resto
<1>2. s \notin muertos => s \notin rotos
  BY Abierto
<1>3. CASE s \notin muertos
  <2>1. PICK c \in Seq(Respuestas) : c = aCliente[s]
    BY <1>1
  <2>2. PICK d \in Seq(Respuestas) :
          d = Append(c, p) /\ d # <<>> /\ (c # <<>> => Head(d) = Head(c))
    <3>1. Append(c, p) \in Seq(Respuestas) /\ Append(c, p) # <<>> /\ (c # <<>> => Head(Append(c, p)) = Head(c))
      BY <1>3, AlFinal
    <3>. QED BY <3>1
  <2>3. aCliente' = [aCliente EXCEPT ![s] = d] /\ rotos' = rotos /\ servidor' = servidor
    BY <1>3, <2>1, <2>2 DEF Mandar
  <2>4. Salida(s, d)
    BY <1>1, <1>2, <1>3, <2>1, <2>2, <2>3 DEF Salida
  <2>. QED BY <1>1, <1>2, <1>3, <2>1, <2>2, <2>3, <2>4
<1>4. CASE s \in muertos
  <2>1. CASE s \notin rotos
    <3>1. rotos' = rotos \cup {s} /\ aCliente' = aCliente /\ servidor' = servidor
      BY <1>4, <2>1 DEF Mandar
    <3>. QED BY <1>1, <1>4, <2>1, <3>1 DEF Salida
  <2>2. CASE s \in rotos
    <3>1. rotos' = rotos /\ aCliente' = aCliente /\ servidor' = "fuera"
      BY <1>4, <2>2 DEF Mandar
    <3>. QED BY <1>1, <1>4, <2>2, <3>1 DEF Salida
  <2>. QED BY <2>1, <2>2
<1>. QED BY <1>3, <1>4

\* What the thread that has a request of a living mount knows of it.
LEMMA DeQuien ==
  ASSUME SupuestoConversacion, CInv, NEW t \in Montajes, servidor = "vivo", serv[t].pc \in Atareado
  PROVE  LET s == serv[t].sock
         IN  /\ serv[t] \in Hijos /\ Local(t) /\ s \in Montajes /\ aCliente[s] \in Seq(Respuestas)
             /\ s \in rotos => s \in muertos /\ Empezada(t)
             /\ s \notin muertos =>
                  /\ serv[t].ped.de = mux[s] /\ mux[s] \in Hilos /\ hilo[mux[s]] \in Clientes
                  /\ Avance(serv[t], hilo[mux[s]], aCliente[s])
                  /\ aCliente[s] # <<>> => EnFila(mux[s], hilo[mux[s]], aCliente[s])
<1>. DEFINE s == serv[t].sock
<1>1. serv[t] \in Hijos /\ Local(t) /\ Tipos
  BY DEF CInv, Tipos, Locales
<1>2. s \in Montajes
  BY <1>1 DEF Local, Hijos, Atareado
<1>3. Parte(s) /\ Ocupa(t, s) /\ Pendiente(s)
  BY <1>2 DEF CInv, EnCurso, Parte, Ocupa
<1>4. ASSUME s \notin muertos
      PROVE  /\ serv[t].ped.de = mux[s] /\ mux[s] \in Hilos /\ hilo[mux[s]] \in Clientes
             /\ Avance(serv[t], hilo[mux[s]], aCliente[s])
             /\ aCliente[s] # <<>> => EnFila(mux[s], hilo[mux[s]], aCliente[s])
  <2>1. Llegan(s) /\ Tarea(s, t)
    BY <1>3, <1>4 DEF Parte, Pedida
  <2>2. mux[s] # Nadie
    BY <2>1 DEF Tarea, Espera
  <2>. QED BY <1>1, <1>2, <2>1, <2>2 DEF Tipos, Llegan, Tarea
<1>. QED BY <1>1, <1>2, <1>3, <1>4 DEF Tipos, Canales, Pendiente

\* A packet of a reply.
LEMMA DeRespuesta ==
  ASSUME SupuestoConversacion, NEW ped \in Pedidos, ped.de \in Hilos, NEW len \in 0..Largo, NEW cod \in {-1, 0},
         NEW mas \in 0..1, NEW cant \in 0..MaxEntradas
  PROVE  LET p == Respuesta(ped, len, cod, mas, cant)
         IN  /\ p \in Respuestas /\ p.len = len /\ p.de = ped.de /\ p.tipo = ped.tipo
             /\ p.cod_return = cod /\ p.size = mas /\ p.offset = cant
BY DEF Respuesta, Respuestas, Pedidos

\* Back to the loop of procesar_cliente.
Como(z, s, len, trunco) == [z EXCEPT !.pc = "espera", !.sock = s, !.len = len, !.trunco = trunco]
Vuelto(s, len, trunco) == Como(Hijo, s, len, trunco)

LEMMA QuedaComo ==
  ASSUME NEW z \in Hijos, NEW s \in Montajes, NEW len \in 0..Largo, NEW trunco \in BOOLEAN
  PROVE  LET x == Como(z, s, len, trunco)
         IN  x \in Hijos /\ x.pc = "espera" /\ x.sock = s /\ x.i = z.i
BY DEF Como, Hijos

LEMMA QuedaVuelto ==
  ASSUME SupuestoConversacion, NEW s \in Montajes, NEW len \in 0..Largo, NEW trunco \in BOOLEAN
  PROVE  LET x == Vuelto(s, len, trunco)
         IN  x \in Hijos /\ x.pc = "espera" /\ x.sock = s /\ x.i = 0
<1>1. Nadie \notin Montajes /\ MaxBloques \in Nat \ {0} /\ Grupo \in Nat \ {0}
  BY DEF SupuestoConversacion
<1>2. SinPedido \in Pedidos
  BY <1>1 DEF SinPedido, Pedidos, OpsPosibles, Largo
<1>3. Hijo \in Hijos /\ Hijo.i = 0
  BY <1>1, <1>2, Medidas DEF Hijo, Hijos
<1>. QED BY <1>3, QuedaComo DEF Vuelto

\* The last packet of an answer has been sent, or there was none to send.
LEMMA Termina ==
  ASSUME SupuestoConversacion, CInv, NEW t \in Montajes, servidor = "vivo", serv[t].pc \in Atareado,
         NEW len \in 0..Largo, NEW trunco \in BOOLEAN, Escuchado(t, len, trunco),
         NEW c \in Seq(Respuestas), Salida(serv[t].sock, c),
         serv[t].sock \notin muertos /\ c # <<>> =>
           EnFila(mux[serv[t].sock], hilo[mux[serv[t].sock]], c),
         serv[t].sock \notin muertos => servidor' = "vivo",
         UNCHANGED <<cliente, aServidor, muertos, sock_Cli, archivo>>
  PROVE  CInv'
<1>. DEFINE s == serv[t].sock
<1>1. serv[t] \in Hijos /\ Local(t) /\ s \in Montajes /\ serv \in [Montajes -> Hijos] /\ Tipos
  BY DeQuien DEF CInv, Tipos
<1>2. PICK x \in Hijos : /\ x.sock = s /\ serv' = [serv EXCEPT ![t] = x]
                         /\ \/ x.pc = "espera" /\ x.i = 0
                            \/ servidor' = "fuera" /\ x = serv[t]
  <2>1. CASE servidor' = "fuera"
    <3>1. serv' = [serv EXCEPT ![t] = serv[t]]
      BY <1>1, <2>1 DEF Escuchado
    <3>. QED BY <1>1, <2>1, <3>1
  <2>2. CASE servidor' # "fuera"
    <3>1. serv' = [serv EXCEPT ![t] = Vuelto(s, len, trunco)]
      BY <2>2 DEF Escuchado, Vuelto, Como
    <3>2. /\ Vuelto(s, len, trunco) \in Hijos /\ Vuelto(s, len, trunco).pc = "espera"
          /\ Vuelto(s, len, trunco).sock = s /\ Vuelto(s, len, trunco).i = 0
      BY <1>1, QuedaVuelto
    <3>. QED BY <3>1, <3>2
  <2>. QED BY <2>1, <2>2
<1>3. serv'[t] = x /\ muertos' = muertos /\ sock_Cli' = sock_Cli
  BY <1>1, <1>2
<1>4. Local(t)'
  <2>1. CASE x.pc = "espera" /\ x.i = 0
    <3>1. s # Nadie
      BY <1>1 DEF SupuestoConversacion
    <3>. QED BY <1>2, <1>3, <2>1, <3>1 DEF Local, EnPartes, Leer
  <2>2. CASE x = serv[t]
    BY <1>1, <1>3, <2>2 DEF Local
  <2>. QED BY <1>2, <2>1, <2>2
<1>5. Cabe(t, x, c)
  BY <1>2 DEF Cabe, Atareado
<1>6. Fichero' /\ UNCHANGED <<cliente, aServidor, muertos, sock_Cli>>
  BY <1>1 DEF Tipos, Resto, Fichero, archivo
<1>. QED BY <1>2, <1>4, <1>5, <1>6, PasoOcupado

\* The answer of one packet.
LEMMA PasoContestar ==
  ASSUME SupuestoConversacion, CInv, NEW t \in Montajes, Contestar(t)
  PROVE  CInv'
<1>. DEFINE s == serv[t].sock
            x == serv[t]
<1>1. servidor = "vivo" /\ x.pc = "contestar" /\ UNCHANGED <<cliente, aServidor, muertos, sock_Cli, archivo>>
  BY DEF Contestar, En
<1>2. /\ x \in Hijos /\ Local(t) /\ s \in Montajes /\ aCliente[s] \in Seq(Respuestas)
      /\ s \in rotos => s \in muertos /\ Empezada(t)
      /\ s \notin muertos =>
           /\ x.ped.de = mux[s] /\ mux[s] \in Hilos /\ hilo[mux[s]] \in Clientes
           /\ Avance(x, hilo[mux[s]], aCliente[s])
  BY <1>1, DeQuien DEF Atareado
<1>3. PICK len \in CASE x.ped.tipo = "saludo" -> {0}
                     [] x.ped.tipo = "simple" /\ x.cod = 0 -> {Corto, Largo}
                     [] OTHER -> {Corto} :
        /\ Mandar(s, Respuesta(x.ped, len, x.cod, 0, 0))
        /\ Escuchado(t, IF x.ped.tipo = "statfs" \/ (x.ped.tipo = "lista" /\ x.cod = 0) THEN x.len ELSE len,
                     FALSE)
  BY DEF Contestar
<1>4. len \in 0..Largo /\ (x.ped.tipo = "lista" => len = Corto)
  BY <1>3, Medidas
<1>5. PICK n \in 0..Largo : Escuchado(t, n, FALSE)
  <2>1. x.len \in 0..Largo
    BY <1>2 DEF Hijos
  <2>. QED BY <1>3, <1>4, <2>1
<1>6. s \notin rotos
  <2>1. x.i = 0
    BY <1>1, <1>2 DEF Local, EnPartes
  <2>. QED BY <1>2, <2>1 DEF Empezada, SupuestoConversacion
<1>. DEFINE p == Respuesta(x.ped, len, x.cod, 0, 0)
<1>7. s \notin muertos => /\ p \in Respuestas /\ p.len = len /\ p.de = mux[s] /\ p.tipo = hilo[mux[s]].op
                          /\ p.size = 0 /\ p.offset = 0 /\ aCliente[s] = <<>>
  <2>. SUFFICES ASSUME s \notin muertos
                PROVE  /\ p \in Respuestas /\ p.len = len /\ p.de = mux[s] /\ p.tipo = hilo[mux[s]].op
                       /\ p.size = 0 /\ p.offset = 0 /\ aCliente[s] = <<>>
    OBVIOUS
  <2>1. x.ped.tipo = hilo[mux[s]].op /\ aCliente[s] = <<>>
    BY <1>1, <1>2 DEF Avance, EnPartes
  <2>2. PICK ped \in Pedidos : ped = x.ped
    BY <1>2 DEF Hijos
  <2>3. PICK cod \in {-1, 0} : cod = x.cod
    BY <1>2 DEF Hijos
  <2>4. 0 \in 0..1 /\ 0 \in 0..MaxEntradas
    BY DEF SupuestoConversacion
  <2>5. ped.de \in Hilos
    BY <1>2, <2>2
  <2>6. PICK q : q = Respuesta(ped, len, cod, 0, 0)
    OBVIOUS
  <2>7. q \in Respuestas /\ q.len = len /\ q.de = ped.de /\ q.tipo = ped.tipo /\ q.size = 0 /\ q.offset = 0
    BY <1>4, <2>4, <2>5, <2>6, DeRespuesta
  <2>. QED BY <1>2, <2>1, <2>2, <2>3, <2>6, <2>7
<1>. HIDE DEF p
<1>8. /\ s \notin muertos => servidor' = "vivo" /\ Salida(s, Append(aCliente[s], p))
      /\ s \in muertos => Salida(s, aCliente[s]) /\ servidor' = "vivo"
  <2>1. Mandar(s, p)
    BY <1>3 DEF p
  <2>. QED BY <1>1, <1>2, <1>6, <1>7, <2>1, AlMandar
<1>9. CASE s \in muertos
  <2>1. PICK c \in Seq(Respuestas) : c = aCliente[s]
    BY <1>2
  <2>. QED BY <1>1, <1>5, <1>8, <1>9, <2>1, Termina DEF Atareado
<1>10. CASE s \notin muertos
  <2>0. <<p>> \in Seq(Respuestas) /\ Append(<<>>, p) = <<p>>
    BY <1>7, <1>10
  <2>1. PICK c \in Seq(Respuestas) : c = Append(aCliente[s], p) /\ c = <<p>>
    BY <1>7, <1>10, <2>0
  <2>2. EnFila(mux[s], hilo[mux[s]], c)
    <3>1. DOMAIN c = {1} /\ c[1] = p /\ Len(c) = 1
      BY <2>1
    <3>2. hilo[mux[s]].op = "lista" => Entrada(hilo[mux[s]].faltan, c, 1)
      BY <1>2, <1>4, <1>7, <1>10, <2>1, <3>1 DEF Entrada, Avance
    <3>. QED BY <3>1, <3>2, <1>7, <1>10 DEF EnFila, Trozo
  <2>. QED BY <1>1, <1>5, <1>8, <1>10, <2>1, <2>2, Termina DEF Atareado
<1>. QED BY <1>9, <1>10

\* The entries of a directory of n, and packets of a read of which none is the last.
DeDir(c, n) == \A k \in DOMAIN c : c[k].cod_return = 0 /\ c[k].offset = n
Siguen(c) == \A k \in DOMAIN c : c[k].size = 1

\* An entry more of a directory, for which the thread that lists it has room.
LEMMA FilaMasEntrada ==
  ASSUME SupuestoConversacion, NEW h \in Hilos, NEW r \in Clientes, r.op = "lista",
         NEW c \in Seq(Respuestas), c # <<>> => EnFila(h, r, c), NEW n \in 1..MaxEntradas, DeDir(c, n),
         NEW p \in Respuestas, p.de = h, p.tipo = "lista", p.len = Corto, p.cod_return = 0, p.offset = n,
         Len(c) + 1 <= Faltan(r.faltan, n)
  PROVE  EnFila(h, r, Append(c, p)) /\ DeDir(Append(c, p), n)
<1>0. PICK d : d = Append(c, p)
  OBVIOUS
<1>1. /\ d \in Seq(Respuestas) /\ Len(d) = Len(c) + 1
      /\ \A k \in DOMAIN d : \/ k \in DOMAIN c /\ d[k] = c[k]
                             \/ k = Len(c) + 1 /\ d[k] = p
  <2>1. /\ d \in Seq(Respuestas) /\ Len(d) = Len(c) + 1
        /\ \A k \in DOMAIN d : \/ k \in DOMAIN c /\ d[k] = c[k]
                               \/ k = Len(c) + 1 /\ d[k] = p
    BY <1>0
  <2>. QED BY <2>1
<1>2. \A k \in DOMAIN d : d[k].cod_return = 0 /\ d[k].offset = n
  BY <1>1 DEF DeDir
<1>3. ASSUME NEW k \in DOMAIN d
      PROVE  d[k].de = h /\ d[k].tipo = "lista" /\ d[k].len = Corto
  <2>1. CASE d[k] = p
    BY <2>1
  <2>2. CASE k \in DOMAIN c /\ d[k] = c[k]
    <3>1. EnFila(h, r, c)
      BY <2>2
    <3>. QED BY <2>2, <3>1 DEF EnFila, Entrada
  <2>. QED BY <1>1, <2>1, <2>2
<1>4. ASSUME NEW k \in DOMAIN d
      PROVE  Entrada(r.faltan, d, k)
  <2>1. d[k].cod_return = 0 /\ d[k].offset = n /\ d[k].len = Corto
    BY <1>2, <1>3
  <2>2. n # 0 /\ ~(0 < 0)
    BY DEF SupuestoConversacion
  <2>. QED BY <1>1, <2>1, <2>2 DEF Entrada
<1>. QED BY <1>0, <1>1, <1>2, <1>3, <1>4 DEF EnFila, DeDir

\* And a packet more of a read, all the ones before it having said that it would come.
LEMMA FilaMasTrozo ==
  ASSUME SupuestoConversacion, NEW h \in Hilos, NEW r \in Clientes, r.op = "leer",
         NEW c \in Seq(Respuestas), c # <<>> => EnFila(h, r, c), Siguen(c),
         NEW p \in Respuestas, p.de = h, p.tipo = "leer", p.len = Largo, p.cod_return = 0
  PROVE  /\ EnFila(h, r, Append(c, p))
         /\ p.size = 1 => Siguen(Append(c, p))
<1>0. PICK d : d = Append(c, p)
  OBVIOUS
<1>1. /\ d \in Seq(Respuestas) /\ Len(d) = Len(c) + 1
      /\ \A k \in DOMAIN d : \/ k \in DOMAIN c /\ d[k] = c[k]
                             \/ k = Len(d) /\ d[k] = p
  <2>1. /\ d \in Seq(Respuestas) /\ Len(d) = Len(c) + 1
        /\ \A k \in DOMAIN d : \/ k \in DOMAIN c /\ d[k] = c[k]
                               \/ k = Len(c) + 1 /\ d[k] = p
    BY <1>0
  <2>. QED BY <2>1
<1>2. Len(c) \in Nat /\ DOMAIN d = 1..Len(d)
  OBVIOUS
<1>3. ASSUME NEW k \in DOMAIN d
      PROVE  d[k].de = h /\ d[k].tipo = "leer" /\ Trozo(d, k)
  <2>1. CASE k = Len(d) /\ d[k] = p
    <3>1. ~(k < Len(d))
      BY <1>2, <2>1
    <3>. QED BY <2>1, <3>1 DEF Trozo
  <2>2. CASE k \in DOMAIN c /\ d[k] = c[k]
    <3>1. EnFila(h, r, c)
      BY <2>2
    <3>2. Trozo(c, k) /\ c[k].de = h /\ c[k].tipo = "leer"
      BY <2>2, <3>1 DEF EnFila
    <3>. QED BY <2>2, <3>2 DEF Trozo, Siguen
  <2>. QED BY <1>1, <2>1, <2>2
<1>4. p.size = 1 => Siguen(d)
  BY <1>1 DEF Siguen
<1>. QED BY <1>0, <1>1, <1>3, <1>4 DEF EnFila

\* The next entry.
ConIndice(z, n) == [z EXCEPT !.i = n]

LEMMA QuedaConIndice ==
  ASSUME NEW z \in Hijos, NEW n \in Nat
  PROVE  LET w == ConIndice(z, n)
         IN  w \in Hijos /\ w.pc = z.pc /\ w.sock = z.sock /\ w.ped = z.ped /\ w.cant = z.cant /\ w.i = n
BY DEF ConIndice, Hijos

\* osada_readdir: an entry
LEMMA PasoListar ==
  ASSUME SupuestoConversacion, CInv, NEW t \in Montajes, Listar(t)
  PROVE  CInv'
<1>. DEFINE s == serv[t].sock
            x == serv[t]
            p == Respuesta(x.ped, Corto, 0, 0, x.cant)
<1>1. /\ servidor = "vivo" /\ x.pc = "listar" /\ Mandar(s, p)
      /\ IF x.i + 1 = x.cant THEN Escuchado(t, x.len, FALSE) ELSE serv' = [serv EXCEPT ![t].i = @ + 1]
      /\ UNCHANGED <<cliente, aServidor, muertos, sock_Cli, archivo>>
  BY DEF Listar, En
<1>2. /\ x \in Hijos /\ Local(t) /\ s \in Montajes /\ aCliente[s] \in Seq(Respuestas)
      /\ s \in rotos => s \in muertos /\ Empezada(t)
      /\ s \notin muertos =>
           /\ x.ped.de = mux[s] /\ mux[s] \in Hilos /\ hilo[mux[s]] \in Clientes
           /\ Avance(x, hilo[mux[s]], aCliente[s])
           /\ aCliente[s] # <<>> => EnFila(mux[s], hilo[mux[s]], aCliente[s])
  BY <1>1, DeQuien DEF Atareado
<1>3. x.ped.tipo = "lista" /\ x.cant \in 1..MaxEntradas /\ x.i < x.cant /\ x.i \in Nat
  BY <1>1, <1>2 DEF Local, Hijos
<1>4. PICK c \in Seq(Respuestas) : c = aCliente[s]
  BY <1>2
<1>5. s \notin muertos => /\ p \in Respuestas /\ p.len = Corto /\ p.de = mux[s] /\ p.tipo = "lista"
                          /\ p.cod_return = 0 /\ p.offset = x.cant
  <2>. SUFFICES ASSUME s \notin muertos
                PROVE  /\ p \in Respuestas /\ p.len = Corto /\ p.de = mux[s] /\ p.tipo = "lista"
                       /\ p.cod_return = 0 /\ p.offset = x.cant
    OBVIOUS
  <2>1. PICK ped \in Pedidos : ped = x.ped
    BY <1>2 DEF Hijos
  <2>2. PICK len \in 0..Largo, cod \in {-1, 0}, mas \in 0..1, cant \in 0..MaxEntradas :
          len = Corto /\ cod = 0 /\ mas = 0 /\ cant = x.cant
    <3>1. Corto \in 0..Largo /\ 0 \in 0..1 /\ x.cant \in 0..MaxEntradas
      BY <1>3, Medidas DEF SupuestoConversacion
    <3>. QED BY <3>1
  <2>3. ped.de \in Hilos
    BY <1>2, <2>1
  <2>4. PICK q : q = Respuesta(ped, len, cod, mas, cant)
    OBVIOUS
  <2>5. /\ q \in Respuestas /\ q.len = len /\ q.de = ped.de /\ q.tipo = ped.tipo
        /\ q.cod_return = cod /\ q.offset = cant
    BY <2>3, <2>4, DeRespuesta
  <2>6. q = p
    BY <2>1, <2>2, <2>4
  <2>. QED BY <1>2, <1>3, <2>1, <2>2, <2>5, <2>6
<1>. HIDE DEF p
<1>6. /\ s \notin muertos => rotos' = rotos /\ s \notin rotos /\ servidor' = "vivo" /\ Salida(s, Append(c, p))
      /\ s \in muertos => Salida(s, c)
  BY <1>1, <1>2, <1>4, <1>5, AlMandar
<1>7. PICK d \in Seq(Respuestas) : d = IF s \in muertos THEN c ELSE Append(c, p)
  <2>1. s \notin muertos => Append(c, p) \in Seq(Respuestas)
    BY <1>5, AlFinal
  <2>. QED BY <2>1
<1>8. Salida(s, d)
  BY <1>6, <1>7
<1>9. ASSUME s \notin muertos
      PROVE  /\ EnFila(mux[s], hilo[mux[s]], d) /\ hilo[mux[s]].op = "lista"
             /\ Len(d) + x.cant - (x.i + 1) <= Faltan(hilo[mux[s]].faltan, x.cant)
             /\ DeDir(d, x.cant)
  <2>1. PICK h \in Hilos, r \in Clientes : h = mux[s] /\ r = hilo[mux[s]]
    BY <1>2, <1>9
  <2>2. Avance(x, r, c) /\ (c # <<>> => EnFila(h, r, c))
    BY <1>2, <1>4, <1>9, <2>1
  <2>3. PICK n \in 1..MaxEntradas : n = x.cant
    BY <1>3
  <2>4. /\ r.op = "lista" /\ Len(c) + n - x.i <= Faltan(r.faltan, n)
        /\ DeDir(c, n)
    BY <1>1, <1>3, <2>2, <2>3 DEF Avance, DeDir
  <2>5. Len(c) \in Nat /\ Faltan(r.faltan, n) \in Nat /\ n \in Nat
    BY DEF Faltan, Clientes, SupuestoConversacion
  <2>6. PICK L \in Nat, f \in Nat, i \in Nat : L = Len(c) /\ f = Faltan(r.faltan, n) /\ i = x.i
    BY <1>3, <2>5
  <2>7. L + n - i <= f /\ i < n
    BY <1>3, <2>3, <2>4, <2>6
  <2>8. L + 1 <= f /\ (L + 1) + n - (i + 1) <= f
    BY <2>5, <2>7
  <2>9. d = Append(c, p) /\ Len(d) = L + 1
    BY <1>5, <1>7, <1>9, <2>6, AlFinal
  <2>10. EnFila(h, r, Append(c, p)) /\ DeDir(Append(c, p), n)
    <3>1. /\ p \in Respuestas /\ p.de = h /\ p.tipo = "lista" /\ p.len = Corto /\ p.cod_return = 0
          /\ p.offset = n /\ Len(c) + 1 <= Faltan(r.faltan, n)
      BY <1>5, <1>9, <2>1, <2>3, <2>6, <2>8
    <3>. QED BY <2>2, <2>4, <3>1, FilaMasEntrada
  <2>. QED BY <2>1, <2>3, <2>4, <2>6, <2>8, <2>9, <2>10
<1>10. CASE x.i + 1 = x.cant
  <2>1. PICK n \in 0..Largo : Escuchado(t, n, FALSE)
    BY <1>1, <1>2, <1>10 DEF Hijos
  <2>. QED BY <1>1, <1>6, <1>8, <1>9, <2>1, Termina DEF Atareado
<1>11. CASE x.i + 1 # x.cant
  <2>. DEFINE w == ConIndice(x, x.i + 1)
  <2>1. /\ w \in Hijos /\ w.pc = "listar" /\ w.sock = s /\ w.ped = x.ped /\ w.cant = x.cant
        /\ w.i = x.i + 1
    <3>1. PICK z \in Hijos, n \in Nat : z = x /\ n = x.i + 1
      BY <1>2, <1>3
    <3>. QED BY <1>1, <3>1, QuedaConIndice, ZenonT(60)
  <2>2. serv' = [serv EXCEPT ![t] = w]
    BY <1>1, <1>11 DEF ConIndice
  <2>. HIDE DEF w
  <2>3. serv'[t] = w /\ muertos' = muertos /\ sock_Cli' = sock_Cli
    BY <1>1, <2>2 DEF CInv, Tipos
  <2>4. Local(t)'
    <3>1. s # Nadie /\ w.i < w.cant
      <4>1. PICK i \in Nat, n \in Nat : i = x.i /\ n = x.cant /\ i < n
        BY <1>2, <1>3
      <4>2. i + 1 # n
        BY <1>11, <4>1
      <4>3. w.i = i + 1 /\ w.cant = n
        BY <2>1, <4>1
      <4>. QED BY <1>2, <4>1, <4>2, <4>3 DEF SupuestoConversacion
    <3>. QED BY <1>3, <2>1, <2>3, <3>1 DEF Local, EnPartes, Leer
  <2>5. Cabe(t, w, d)
    <3>1. Empezada(t)'
      BY <1>3, <2>1, <2>3 DEF Empezada
    <3>2. ASSUME s \notin muertos
          PROVE  Avance(w, hilo[mux[s]], d)
      BY <1>3, <1>9, <2>1, <3>2 DEF Avance, EnPartes, Leer, DeDir
    <3>. QED BY <1>9, <2>1, <3>1, <3>2 DEF Cabe
  <2>6. /\ Fichero'
        /\ UNCHANGED <<cliente, aServidor, muertos, sock_Cli>>
    BY <1>1 DEF CInv, Tipos, Resto, Fichero, archivo
  <2>7. x.pc \in Atareado
    BY <1>1 DEF Atareado
  <2>. QED BY <1>1, <1>8, <2>1, <2>2, <2>4, <2>5, <2>6, <2>7, PasoOcupado
<1>. QED BY <1>10, <1>11

-----------------------------------------------------------------------------
(* The loop of osada_read. *)

\* The remainder of a division is the only one.
LEMMA RestoUnico ==
  ASSUME NEW G \in Nat \ {0}, NEW q \in Int, NEW r \in 0..G - 1, NEW n \in Int, n = G * q + r
  PROVE  n % G = r
OBVIOUS

\* The remainders of a number and of the next.
LEMMA SiguienteResto ==
  ASSUME NEW n \in Nat, NEW G \in Nat \ {0}
  PROVE  /\ n % G \in 0..G - 1 /\ (n + 1) % G \in 0..G - 1
         /\ (n + 1) % G = 0 => n + 1 >= G
         /\ (n + 1) % G # 0 => (n + 1) % G = (n % G) + 1
<1>1. n % G \in 0..G - 1 /\ (n + 1) % G \in 0..G - 1
  OBVIOUS
<1>2. (n + 1) % G = 0 => n + 1 >= G
  OBVIOUS
<1>3. ASSUME (n + 1) % G # 0
      PROVE  (n + 1) % G = (n % G) + 1
  <2>1. PICK m \in Int : m = n + 1
    OBVIOUS
  <2>2. PICK q \in Int, r \in Int : r = m % G /\ m = G * q + r
    <3>1. G \in Int /\ G > 0
      OBVIOUS
    <3>. QED BY <3>1, Z3
  <2>3. PICK s \in 0..G - 1 : s = r - 1
    <3>1. r \in 0..G - 1 /\ r # 0
      BY <1>1, <1>3, <2>1, <2>2
    <3>. QED BY <3>1
  <2>4. n \in Int /\ n = G * q + s
    BY <2>1, <2>2, <2>3
  <2>5. n % G = s
    BY <2>4, RestoUnico
  <2>. QED BY <2>1, <2>2, <2>3, <2>5
<1>. QED BY <1>1, <1>2, <1>3

\* What a turn of the loop leaves: i and copiedMSG, and the next block or the end.
ConTurno(x, i, n) == [x EXCEPT !.i = i, !.copiedMSG = n]
ConFin(y) == [y EXCEPT !.pc = "leerFin"]
ConBloque(y, b, k, n) == [y EXCEPT !.block_start = b, !.copied = k, !.copiedMSG = n]

LEMMA QuedaConTurno ==
  ASSUME NEW x \in Hijos, NEW i \in Nat, NEW n \in 0..Grupo
  PROVE  LET y == ConTurno(x, i, n)
         IN  /\ y \in Hijos /\ y.pc = x.pc /\ y.sock = x.sock /\ y.ped = x.ped /\ y.i = i
             /\ y.copiedMSG = n /\ y.block_start = x.block_start /\ y.copied = x.copied
BY DEF ConTurno, Hijos

LEMMA QuedaConFin ==
  ASSUME NEW y \in Hijos
  PROVE  LET w == ConFin(y)
         IN  w \in Hijos /\ w.pc = "leerFin" /\ w.sock = y.sock /\ w.ped = y.ped /\ w.i = y.i
BY DEF ConFin, Hijos, Atareado

LEMMA QuedaConBloque ==
  ASSUME NEW y \in Hijos, NEW b \in 0..FIN, NEW k \in Nat, NEW n \in 0..Grupo
  PROVE  LET w == ConBloque(y, b, k, n)
         IN  /\ w \in Hijos /\ w.pc = y.pc /\ w.sock = y.sock /\ w.ped = y.ped /\ w.i = y.i
             /\ w.copiedMSG = n
BY DEF ConBloque, Hijos

\* A turn that leaves w, and c in the channel.
LEMMA PasoTurno ==
  ASSUME SupuestoConversacion, CInv, NEW t \in Montajes, NEW w \in Hijos,
         servidor = "vivo", serv[t].pc = "leerBloque",
         w.sock = serv[t].sock, w.ped = serv[t].ped, w.i = serv[t].i + 1,
         w.pc = "leerFin" \/ (w.pc = "leerBloque" /\ w.copiedMSG <= (w.i % Grupo) + 1),
         serv' = [serv EXCEPT ![t] = w],
         NEW c \in Seq(Respuestas), Salida(serv[t].sock, c),
         serv[t].sock \notin muertos =>
           Siguen(c) /\ (c # <<>> => EnFila(mux[serv[t].sock], hilo[mux[serv[t].sock]], c)),
         servidor' = "vivo" /\ serv[t].sock \in rotos' => serv[t].sock \in rotos \/ w.i >= Grupo,
         UNCHANGED <<cliente, aServidor, muertos, sock_Cli, archivo>>
  PROVE  CInv'
<1>. DEFINE s == serv[t].sock
<1>1. serv[t].pc \in Atareado
  BY DEF Atareado
<1>2. /\ serv[t] \in Hijos /\ Local(t) /\ s \in Montajes
      /\ s \in rotos => s \in muertos /\ Empezada(t)
      /\ s \notin muertos => Avance(serv[t], hilo[mux[s]], aCliente[s])
  BY <1>1, DeQuien
<1>3. serv[t].i \in Nat /\ serv[t].ped.tipo = "leer" /\ s # Nadie /\ Grupo \in Nat /\ w.i \in Nat
  BY <1>2 DEF Local, Leer, Hijos, SupuestoConversacion
<1>4. serv'[t] = w /\ muertos' = muertos /\ sock_Cli' = sock_Cli
  BY DEF CInv, Tipos
<1>5. Local(t)'
  BY <1>3, <1>4 DEF Local, EnPartes, Leer
<1>6. ASSUME servidor' = "vivo", s \in rotos'
      PROVE  Empezada(t)'
  <2>1. serv[t].i >= Grupo => w.i >= Grupo
    BY <1>3
  <2>2. w.i >= Grupo
    BY <1>2, <1>3, <1>6, <2>1 DEF Empezada
  <2>. QED BY <1>3, <1>4, <2>2 DEF Empezada
<1>7. ASSUME s \notin muertos
      PROVE  Avance(w, hilo[mux[s]], c)
  <2>1. serv[t].ped.tipo = hilo[mux[s]].op
    BY <1>2, <1>7 DEF Avance
  <2>. QED BY <1>7, <2>1 DEF Avance, EnPartes, Siguen
<1>8. Cabe(t, w, c)
  BY <1>6, <1>7 DEF Cabe
<1>9. Fichero'
  BY DEF CInv, Tipos, Resto, Fichero, archivo
<1>. QED BY <1>1, <1>5, <1>8, <1>9, PasoOcupado

\* A packet of a read is put in the channel, with mas in its size.
LEMMA MandarTrozo ==
  ASSUME SupuestoConversacion, CInv, NEW t \in Montajes, servidor = "vivo",
         serv[t].pc \in {"leerBloque", "leerFin"}, NEW mas \in 0..1,
         Mandar(serv[t].sock, Respuesta(serv[t].ped, Largo, 0, mas, 0))
  PROVE  \E c \in Seq(Respuestas) :
           /\ Salida(serv[t].sock, c)
           /\ serv[t].sock \notin muertos =>
                /\ c # <<>> => EnFila(mux[serv[t].sock], hilo[mux[serv[t].sock]], c)
                /\ mas = 1 => Siguen(c)
                /\ servidor' = "vivo"
<1>. DEFINE s == serv[t].sock
            x == serv[t]
            p == Respuesta(x.ped, Largo, 0, mas, 0)
<1>1. x.pc \in Atareado /\ x.pc \in Leer
  BY DEF Atareado, Leer
<1>2. /\ x \in Hijos /\ Local(t) /\ s \in Montajes /\ aCliente[s] \in Seq(Respuestas)
      /\ s \notin muertos =>
           /\ x.ped.de = mux[s] /\ mux[s] \in Hilos /\ hilo[mux[s]] \in Clientes
           /\ Avance(x, hilo[mux[s]], aCliente[s])
           /\ aCliente[s] # <<>> => EnFila(mux[s], hilo[mux[s]], aCliente[s])
  BY <1>1, DeQuien
<1>3. x.ped.tipo = "leer"
  BY <1>1, <1>2 DEF Local
<1>4. PICK c \in Seq(Respuestas) : c = aCliente[s]
  BY <1>2
<1>5. s \notin muertos => /\ p \in Respuestas /\ p.len = Largo /\ p.de = mux[s] /\ p.tipo = "leer"
                          /\ p.cod_return = 0 /\ p.size = mas
  <2>. SUFFICES ASSUME s \notin muertos
                PROVE  /\ p \in Respuestas /\ p.len = Largo /\ p.de = mux[s] /\ p.tipo = "leer"
                       /\ p.cod_return = 0 /\ p.size = mas
    OBVIOUS
  <2>1. PICK ped \in Pedidos : ped = x.ped
    BY <1>2 DEF Hijos
  <2>2. PICK len \in 0..Largo, cod \in {-1, 0}, cant \in 0..MaxEntradas : len = Largo /\ cod = 0 /\ cant = 0
    <3>1. Largo \in 0..Largo /\ 0 \in 0..MaxEntradas
      BY Medidas DEF SupuestoConversacion
    <3>. QED BY <3>1
  <2>3. ped.de \in Hilos
    BY <1>2, <2>1
  <2>4. PICK q : q = Respuesta(ped, len, cod, mas, cant)
    OBVIOUS
  <2>5. /\ q \in Respuestas /\ q.len = len /\ q.de = ped.de /\ q.tipo = ped.tipo
        /\ q.cod_return = cod /\ q.size = mas
    BY <2>3, <2>4, DeRespuesta
  <2>6. q = p
    BY <2>1, <2>2, <2>4
  <2>. QED BY <1>2, <1>3, <2>1, <2>2, <2>5, <2>6
<1>. HIDE DEF p
<1>6. /\ s \notin muertos => servidor' = "vivo" /\ Salida(s, Append(c, p))
      /\ s \in muertos => Salida(s, c)
  <2>1. Mandar(s, p)
    BY DEF p
  <2>. QED BY <1>2, <1>4, <1>5, <2>1, AlMandar
<1>7. CASE s \in muertos
  BY <1>6, <1>7
<1>8. CASE s \notin muertos
  <2>1. PICK h \in Hilos, r \in Clientes : h = mux[s] /\ r = hilo[mux[s]]
    BY <1>2, <1>8
  <2>2. Avance(x, r, c) /\ (c # <<>> => EnFila(h, r, c))
    BY <1>2, <1>4, <1>8, <2>1
  <2>3. r.op = "leer" /\ Siguen(c)
    BY <1>1, <1>3, <2>2 DEF Avance, Siguen
  <2>4. PICK q \in Respuestas : q = p
    BY <1>5, <1>8
  <2>5. q.de = h /\ q.tipo = "leer" /\ q.len = Largo /\ q.cod_return = 0 /\ q.size = mas
    BY <1>5, <1>8, <2>1, <2>4
  <2>6. EnFila(h, r, Append(c, q)) /\ (q.size = 1 => Siguen(Append(c, q)))
    BY <2>2, <2>3, <2>5, FilaMasTrozo
  <2>7. Append(c, q) \in Seq(Respuestas)
    OBVIOUS
  <2>. QED BY <1>6, <1>8, <2>1, <2>4, <2>5, <2>6, <2>7
<1>. QED BY <1>7, <1>8

\* A turn of the loop of osada_read: the packet when it is full, and the next block.
LEMMA PasoLeerBloque ==
  ASSUME SupuestoConversacion, CInv, NEW t \in Montajes, LeerBloque(t)
  PROVE  CInv'
<1>. DEFINE s == serv[t].sock
            x == serv[t]
            lleno == (x.i + 1) % Grupo = 0
            n == IF lleno THEN 0 ELSE x.copiedMSG
            y == ConTurno(x, x.i + 1, n)
<1>0. PICK b \in Enlaces(t) :
        serv' = [serv EXCEPT ![t] =
          IF x.block_start = FIN THEN ConFin(y) ELSE ConBloque(y, b, y.copied + 1, y.copiedMSG + 1)]
  BY DEF LeerBloque, ConTurno, ConFin, ConBloque
<1>. DEFINE w == IF x.block_start = FIN THEN ConFin(y) ELSE ConBloque(y, b, x.copied + 1, n + 1)
<1>1. /\ servidor = "vivo" /\ x.pc = "leerBloque" /\ x.pc \in Atareado
      /\ UNCHANGED <<cliente, aServidor, muertos, sock_Cli, archivo>>
  BY DEF LeerBloque, En, Atareado
<1>2. /\ x \in Hijos /\ Local(t) /\ s \in Montajes /\ aCliente[s] \in Seq(Respuestas)
      /\ s \in rotos => s \in muertos
      /\ s \notin muertos =>
           /\ Avance(x, hilo[mux[s]], aCliente[s])
           /\ aCliente[s] # <<>> => EnFila(mux[s], hilo[mux[s]], aCliente[s])
  BY <1>1, DeQuien
<1>3. /\ x.i \in Nat /\ Grupo \in Nat \ {0} /\ x.copied \in Nat /\ x.copiedMSG \in 0..Grupo
      /\ x.block_start \in 0..FIN /\ x.copiedMSG <= (x.i % Grupo) + 1
  BY <1>1, <1>2 DEF Local, Hijos, SupuestoConversacion
<1>4. /\ x.i % Grupo \in 0..Grupo - 1 /\ (x.i + 1) % Grupo \in 0..Grupo - 1
      /\ lleno => x.i + 1 >= Grupo
      /\ ~lleno => (x.i + 1) % Grupo = (x.i % Grupo) + 1
  BY <1>3, SiguienteResto
<1>5. n \in 0..Grupo /\ n + 1 \in 0..Grupo /\ n + 1 <= ((x.i + 1) % Grupo) + 1
  <2>1. PICK r \in Nat, r1 \in Nat, m \in Nat, G \in Nat :
          r = x.i % Grupo /\ r1 = (x.i + 1) % Grupo /\ m = x.copiedMSG /\ G = Grupo
    BY <1>3, <1>4
  <2>2. m <= r + 1 /\ r1 < G /\ (r1 # 0 => r1 = r + 1) /\ G > 0
    BY <1>3, <1>4, <2>1
  <2>. QED BY <2>1, <2>2
<1>6. b \in 0..FIN
  BY EnlaceBien
<1>. HIDE DEF lleno, n
<1>7. PICK z \in Hijos, i \in Nat : z = x /\ i = x.i + 1
  BY <1>2, <1>3
<1>8. /\ y \in Hijos /\ y.pc = x.pc /\ y.sock = s /\ y.ped = x.ped /\ y.i = x.i + 1
      /\ y.copiedMSG = n /\ y.block_start = x.block_start /\ y.copied = x.copied
  <2>1. PICK e \in 0..Grupo : e = n
    BY <1>5
  <2>2. PICK v : v = ConTurno(z, i, e)
    OBVIOUS
  <2>3. /\ v \in Hijos /\ v.pc = z.pc /\ v.sock = z.sock /\ v.ped = z.ped /\ v.i = i
        /\ v.copiedMSG = e /\ v.block_start = z.block_start /\ v.copied = z.copied
    BY <2>2, QuedaConTurno
  <2>4. v = y
    BY <1>7, <2>1, <2>2
  <2>. HIDE DEF y
  <2>. QED BY <1>7, <2>1, <2>3, <2>4
<1>9. /\ IF lleno THEN Mandar(s, Respuesta(x.ped, Largo, 0, 1, 0)) ELSE UNCHANGED <<aCliente, rotos, servidor>>
      /\ serv' = [serv EXCEPT ![t] = w]
  <2>1. /\ IF y.i % Grupo = 0 THEN Mandar(s, Respuesta(x.ped, Largo, 0, 1, 0))
           ELSE UNCHANGED <<aCliente, rotos, servidor>>
    BY DEF LeerBloque, ConTurno, n, lleno
  <2>. HIDE DEF y
  <2>. QED BY <1>0, <1>8, <2>1 DEF lleno
<1>. HIDE DEF y
<1>10. /\ w \in Hijos /\ w.sock = s /\ w.ped = x.ped /\ w.i = x.i + 1
       /\ w.pc = "leerFin" \/ (w.pc = "leerBloque" /\ w.copiedMSG <= (w.i % Grupo) + 1)
  <2>1. CASE x.block_start = FIN
    BY <1>8, <2>1, QuedaConFin
  <2>2. CASE x.block_start # FIN
    <3>1. PICK k \in Nat, n1 \in 0..Grupo : k = x.copied + 1 /\ n1 = n + 1
      BY <1>3, <1>5
    <3>2. LET v == ConBloque(y, b, k, n1)
          IN  v \in Hijos /\ v.pc = y.pc /\ v.sock = y.sock /\ v.ped = y.ped /\ v.i = y.i /\ v.copiedMSG = n1
      BY <1>6, <1>8, QuedaConBloque
    <3>3. w = ConBloque(y, b, k, n1)
      BY <2>2, <3>1
    <3>. QED BY <1>1, <1>5, <1>8, <3>1, <3>2, <3>3
  <2>. QED BY <2>1, <2>2
<1>. HIDE DEF w
<1>11. PICK c \in Seq(Respuestas) :
         /\ Salida(s, c)
         /\ s \notin muertos => Siguen(c) /\ (c # <<>> => EnFila(mux[s], hilo[mux[s]], c))
  <2>1. CASE lleno
    <3>1. PICK c \in Seq(Respuestas) :
            /\ Salida(s, c)
            /\ s \notin muertos => (c # <<>> => EnFila(mux[s], hilo[mux[s]], c)) /\ (1 = 1 => Siguen(c))
      BY <1>1, <1>9, <2>1, MandarTrozo
    <3>. QED BY <3>1
  <2>2. CASE ~lleno
    <3>1. PICK c \in Seq(Respuestas) : c = aCliente[s]
      BY <1>2
    <3>2. Salida(s, c)
      BY <1>2, <1>9, <2>2, <3>1 DEF Salida, CInv, Tipos, Canales, Resto
    <3>3. s \notin muertos => Siguen(c) /\ (c # <<>> => EnFila(mux[s], hilo[mux[s]], c))
      BY <1>1, <1>2, <3>1 DEF Avance, Siguen, Leer
    <3>. QED BY <3>2, <3>3
  <2>. QED BY <2>1, <2>2
<1>12. servidor' = "vivo" /\ s \in rotos' => s \in rotos \/ w.i >= Grupo
  BY <1>4, <1>9, <1>10
<1>. QED BY <1>1, <1>9, <1>10, <1>11, <1>12, PasoTurno

\* The end of osada_read: the last packet, if there is something to put in it.
LEMMA PasoLeerFin ==
  ASSUME SupuestoConversacion, CInv, NEW t \in Montajes, LeerFin(t)
  PROVE  CInv'
<1>. DEFINE s == serv[t].sock
            x == serv[t]
            ultimo == x.i = 0 \/ x.copiedMSG # 0
            trunco == x.i # 0 /\ x.copiedMSG = 0
<1>1. /\ servidor = "vivo" /\ x.pc \in {"leerBloque", "leerFin"} /\ x.pc \in Atareado
      /\ IF ultimo THEN Mandar(s, Respuesta(x.ped, Largo, 0, 0, 0)) ELSE UNCHANGED <<aCliente, rotos, servidor>>
      /\ Escuchado(t, x.len, trunco)
      /\ UNCHANGED <<cliente, aServidor, muertos, sock_Cli, archivo>>
  BY DEF LeerFin, En, Atareado
<1>2. /\ x \in Hijos /\ s \in Montajes /\ aCliente[s] \in Seq(Respuestas)
      /\ s \in rotos => s \in muertos
      /\ s \notin muertos /\ aCliente[s] # <<>> => EnFila(mux[s], hilo[mux[s]], aCliente[s])
  BY <1>1, DeQuien
<1>3. PICK len \in 0..Largo, fin \in BOOLEAN : len = x.len /\ Escuchado(t, len, fin)
  <2>1. x.len \in 0..Largo /\ trunco \in BOOLEAN
    BY <1>2 DEF Hijos
  <2>. QED BY <1>1, <2>1
<1>4. PICK c \in Seq(Respuestas) :
        /\ Salida(s, c)
        /\ s \notin muertos /\ c # <<>> => EnFila(mux[s], hilo[mux[s]], c)
        /\ s \notin muertos => servidor' = "vivo"
  <2>1. CASE ultimo
    <3>1. PICK mas \in 0..1 : mas = 0
      OBVIOUS
    <3>2. PICK c \in Seq(Respuestas) :
            /\ Salida(s, c)
            /\ s \notin muertos =>
                 (c # <<>> => EnFila(mux[s], hilo[mux[s]], c)) /\ (mas = 1 => Siguen(c)) /\ servidor' = "vivo"
      BY <1>1, <2>1, <3>1, MandarTrozo
    <3>. QED BY <3>2
  <2>2. CASE ~ultimo
    <3>1. PICK c \in Seq(Respuestas) : c = aCliente[s]
      BY <1>2
    <3>2. Salida(s, c) /\ servidor' = "vivo"
      BY <1>1, <1>2, <2>2, <3>1 DEF Salida, CInv, Tipos, Canales, Resto
    <3>. QED BY <1>2, <3>1, <3>2
  <2>. QED BY <2>1, <2>2
<1>. QED BY <1>1, <1>3, <1>4, Termina

-----------------------------------------------------------------------------
(* The invariant. *)

LEMMA AlEmpezar ==
  ASSUME SupuestoConversacion, Init
  PROVE  CInv
<1>1. /\ Nadie \notin Hilos /\ Nadie \notin Montajes /\ De \in [Hilos -> Montajes]
      /\ Inicial \in [Montajes -> Hilos] /\ \A m \in Montajes : De[Inicial[m]] = m
      /\ MaxBloques \in Nat \ {0} /\ Grupo \in Nat \ {0} /\ MaxLlamadas \in Nat
  BY DEF SupuestoConversacion
<1>2. SinPedido \in Pedidos
  BY <1>1 DEF SinPedido, Pedidos, OpsPosibles, Largo
<1>3. Hijo \in Hijos /\ Hijo.pc = "cola" /\ Hijo.sock = Nadie /\ Hijo.i = 0
  BY <1>1, <1>2, Medidas DEF Hijo, Hijos
<1>4. EnPaz \in Clientes /\ [EnPaz EXCEPT !.pc = "enviar", !.op = "saludo"] \in Clientes
  <2>1. 0 \in 0..Largo /\ 0 \in 0..MaxBloques /\ 0 \in Nat
    BY <1>1, Medidas
  <2>2. EnPaz \in Clientes
    BY <2>1 DEF EnPaz, Clientes, Cabal, OpsPosibles
  <2>3. PICK z \in Clientes : z = EnPaz
    BY <2>2
  <2>4. [z EXCEPT !.pc = "enviar", !.op = "saludo"] \in Clientes
    BY <1>1, <2>3 DEF EnPaz, Clientes, Cabal, OpsPosibles
  <2>. QED BY <2>3, <2>4
<1>5. Tipos
  <2>1. hilo \in [Hilos -> Clientes] /\ mux \in [Montajes -> Hilos \cup {Nadie}]
    BY <1>1, <1>4 DEF Init
  <2>2. serv \in [Montajes -> Hijos]
    BY <1>3 DEF Init
  <2>3. Canales
    BY DEF Init, Canales
  <2>4. Resto
    <3>1. /\ muertos = {} /\ rotos = {} /\ sock_Cli = Nadie /\ cadena \in Comienzos /\ tam = cadena
          /\ sueltos = {} /\ retenido = FALSE /\ servidor = "vivo" /\ llamadas = 0
      BY DEF Init
    <3>2. Fichero
      <4>1. PICK n \in 1..MaxBloques : n = cadena
        BY <3>1 DEF SupuestoConversacion
      <4>2. n \in 0..MaxBloques
        BY <1>1
      <4>. QED BY <3>1, <4>1, <4>2 DEF Fichero
    <3>3. 0 \in 0..MaxLlamadas
      BY <1>1
    <3>. QED BY <3>1, <3>2, <3>3 DEF Resto
  <2>. QED BY <2>1, <2>2, <2>3, <2>4 DEF Tipos
<1>6. ASSUME NEW h \in Hilos
      PROVE  Turno(h) /\ Leyendo(h)
  <2>1. mux[De[h]] = Inicial[De[h]] /\ De[h] \notin muertos
    BY <1>1 DEF Init
  <2>2. CASE h = Inicial[De[h]]
    <3>1. hilo[h].pc = "enviar" /\ hilo[h].op = "saludo"
      BY <2>2 DEF Init, EnPaz
    <3>. QED BY <2>1, <2>2, <3>1 DEF Turno, Leyendo
  <2>3. CASE h # Inicial[De[h]]
    <3>1. hilo[h].pc = "libre" /\ hilo[h].op = "nada"
      BY <2>3 DEF Init, EnPaz
    <3>. QED BY <2>1, <2>3, <3>1 DEF Turno, Leyendo
  <2>. QED BY <2>2, <2>3
<1>7. ASSUME NEW t \in Montajes
      PROVE  Local(t)
  <2>1. serv[t] = Hijo
    BY DEF Init
  <2>. QED BY <1>3, <2>1 DEF Local, EnPartes, Leer
<1>8. ASSUME NEW m \in Montajes
      PROVE  Parte(m)
  <2>1. /\ mux[m] = Inicial[m] /\ aServidor[m] = <<>> /\ aCliente[m] = <<>> /\ rotos = {}
        /\ DOMAIN aServidor[m] = {}
    BY DEF Init
  <2>2. \A t \in Montajes : ~Ocupa(t, m)
    BY <1>3 DEF Init, Ocupa, Atareado
  <2>. QED BY <1>1, <2>1, <2>2 DEF Parte, Mutex, Pendiente, Llegan, Pedida
<1>. QED BY <1>5, <1>6, <1>7, <1>8 DEF CInv, Turnos, Locales, EnCurso

LEMMA AlSeguir ==
  ASSUME SupuestoConversacion, CInv, [Next]_vars
  PROVE  CInv'
<1>1. ASSUME NEW h \in Hilos, Llamar(h)
      PROVE  CInv'
  BY <1>1, PasoLlamar
<1>2. ASSUME NEW h \in Hilos, Callback(h)
      PROVE  CInv'
  BY <1>2, PasoTomar, PasoEnviar, PasoRecibir DEF Callback
<1>3. ASSUME NEW m \in Montajes, Matar(m)
      PROVE  CInv'
  BY <1>3, PasoMatar
<1>4. ASSUME NEW t \in Montajes, HiloServidor(t)
      PROVE  CInv'
  <2>1. CASE Aceptar(t) \/ LeerSocket(t) \/ Escuchar(t)
    BY <2>1, PasoAceptar, PasoLeerSocket, PasoEscuchar
  <2>2. CASE Contestar(t) \/ Listar(t) \/ ConMux(t) \/ LeerTam(t) \/ LeerPrimero(t)
    BY <2>2, PasoContestar, PasoListar, PasoConMux, PasoLeerTam, PasoLeerPrimero
  <2>3. CASE LeerBloque(t) \/ LeerFin(t)
    BY <2>3, PasoLeerBloque, PasoLeerFin
  <2>4. CASE EscribirTam(t) \/ EscribirIr(t) \/ EscribirBloque(t) \/ EscribirSeguir(t) \/ Nunca(t)
    BY <2>4, PasoEscribirTam, PasoEscribirIr, PasoEscribirBloque, PasoEscribirSeguir, PasoNunca
  <2>5. CASE Truncar(t) \/ Andar(t) \/ Mirar(t) \/ Avanzar(t) \/ Enlazar(t) \/ Quitar(t) \/ PonerTam(t)
    BY <2>5, PasoTruncar, PasoAndar, PasoMirar, PasoAvanzar, PasoEnlazar, PasoQuitar, PasoPonerTam
  <2>. QED BY <1>4, <2>1, <2>2, <2>3, <2>4, <2>5 DEF HiloServidor
<1>5. CASE UNCHANGED vars
  <2>1. /\ UNCHANGED <<hilo, mux, llamadas, aServidor, aCliente, muertos, rotos, serv, sock_Cli, servidor>>
        /\ UNCHANGED <<cadena, tam, sueltos, retenido>>
    BY <1>5 DEF vars, cliente, archivo
  <2>2. Tipos'
    BY <2>1 DEF CInv, Tipos, Canales, Resto, Fichero
  <2>3. Turnos'
    BY <2>1 DEF CInv, Turnos, Turno, Leyendo
  <2>4. Locales'
    BY <2>1 DEF CInv, Locales, Local
  <2>5. ASSUME NEW m \in Montajes
        PROVE  Parte(m)'
    <3>1. Parte(m)
      BY DEF CInv, EnCurso
    <3>. QED BY <2>1, <3>1, SMTT(30) DEF Parte, Mutex, Pendiente, Ocupa, Empezada, Llegan, Espera, EnFila, Pedida,
                               Encargo, Tarea, Avance
  <2>. QED BY <2>2, <2>3, <2>4, <2>5 DEF CInv, EnCurso
<1>. QED BY <1>1, <1>2, <1>3, <1>4, <1>5 DEF Next

\* What the mounts and the server have to say to each other is always as CInv says.
THEOREM Conversan == Spec => []CInv
<1>1. Init => CInv
  BY SupuestoConversacion, AlEmpezar
<1>2. CInv /\ [Next]_vars => CInv'
  BY SupuestoConversacion, AlSeguir
<1>. QED BY <1>1, <1>2, PTL DEF Spec

-----------------------------------------------------------------------------
(* What it says. *)

\* Every variable has a value of its type, and a socket has at most one request in it.
THEOREM TiposSiempre == Spec => []TypeOK
<1>1. CInv => TypeOK
  BY DEF CInv, Tipos, Canales, Resto, Fichero, Clientes, Hijos, TypeOK
<1>. QED BY <1>1, Conversan, PTL

\* recv_socket returns a packet, whole and alone, but for the first of a directory of
\* more than one entry.
THEOREM UnPaqueteSiempre == Spec => []UnPaquete
<1>1. CInv => UnPaquete
  BY DEF CInv, Turnos, Locales, Leyendo, Local, UnPaquete
<1>. QED BY <1>1, Conversan, PTL

\* What is on its way to a mount, or is being answered, is of the callback that waits.
THEOREM RespuestaPropiaSiempre == Spec => []RespuestaPropia
<1>1. ASSUME CInv, NEW m \in Montajes \ muertos
      PROVE  /\ \A p \in ToSet(aCliente[m]) : p.de = mux[m] /\ p.tipo = hilo[p.de].op /\ hilo[p.de].pc # "enviar"
             /\ servidor = "vivo" =>
                  \A p \in ToSet(aServidor[m]) : p.de = mux[m] /\ p.tipo = hilo[p.de].op /\ aCliente[m] = <<>>
             /\ \A t \in Lectores(m) :
                  serv[t].pc \in Atareado /\ servidor = "vivo"
                  => serv[t].ped.de = mux[m] /\ aServidor[m] = <<>>
  <2>1. Llegan(m) /\ Pedida(m) /\ Pendiente(m)
    BY <1>1 DEF CInv, EnCurso, Parte
  <2>2. ASSUME NEW p \in ToSet(aCliente[m])
        PROVE  p.de = mux[m] /\ p.tipo = hilo[p.de].op /\ hilo[p.de].pc # "enviar"
    <3>1. PICK k \in DOMAIN aCliente[m] : p = aCliente[m][k]
      BY DEF ToSet
    <3>2. aCliente[m] # <<>>
      OBVIOUS
    <3>. QED BY <2>1, <3>1, <3>2 DEF Llegan, EnFila, Espera
  <2>3. ASSUME servidor = "vivo", NEW p \in ToSet(aServidor[m])
        PROVE  p.de = mux[m] /\ p.tipo = hilo[p.de].op /\ aCliente[m] = <<>>
    <3>1. PICK k \in DOMAIN aServidor[m] : p = aServidor[m][k]
      BY DEF ToSet
    <3>. QED BY <2>1, <2>3, <3>1 DEF Pedida, Encargo
  <2>4. ASSUME NEW t \in Lectores(m), serv[t].pc \in Atareado, servidor = "vivo"
        PROVE  serv[t].ped.de = mux[m] /\ aServidor[m] = <<>>
    <3>1. t \in Montajes /\ Ocupa(t, m)
      BY <2>4 DEF Lectores, Ocupa
    <3>. QED BY <2>1, <2>4, <3>1 DEF Pedida, Pendiente, Tarea
  <2>. QED BY <2>2, <2>3, <2>4
<1>2. CInv => RespuestaPropia
  BY <1>1 DEF RespuestaPropia
<1>. QED BY <1>2, Conversan, PTL

\* What took the server down.
Causa(t) ==
  \/ /\ serv[t].sock \in muertos \cap rotos
     /\ \/ serv[t].ped.tipo = "lista" /\ serv[t].i > 0
        \/ serv[t].ped.tipo = "leer" /\ serv[t].i >= Grupo
  \/ serv[t].pc \in {"leerPrimero", "escribirIr"} /\ serv[t].ped.offset > cadena
  \/ serv[t].pc = "escribirBloque" /\ serv[t].block_start = FIN /\ serv[t].copied < serv[t].size
  \/ serv[t].pc = "avanzar" /\ FIN \in Enlaces(t)

\* A server that has fallen does nothing more, and the mounts do not undo the cause.
LEMMA SigueCaido ==
  ASSUME servidor = "fuera", NEW t \in Montajes, Causa(t), [Next]_vars
  PROVE  Causa(t)'
<1>1. \A u \in Montajes : ~HiloServidor(u)
  BY DEF HiloServidor, Aceptar, LeerSocket, Escuchar, Contestar, Listar, ConMux, LeerTam, LeerPrimero, LeerBloque,
         LeerFin, EscribirTam, EscribirIr, EscribirBloque, EscribirSeguir, Nunca, Truncar, Andar, Mirar,
         Avanzar, Enlazar, Quitar, PonerTam, En
<1>2. /\ serv' = serv /\ UNCHANGED <<cadena, sueltos>>
      /\ \A s \in muertos \cap rotos : s \in muertos' /\ s \in rotos'
  <2>1. ASSUME NEW h \in Hilos, Llamar(h) \/ Tomar(h) \/ Recibir(h)
        PROVE  serv' = serv /\ UNCHANGED <<cadena, sueltos>> /\ muertos' = muertos /\ rotos' = rotos
    BY <2>1 DEF Llamar, Tomar, Recibir, archivo
  <2>2. ASSUME NEW h \in Hilos, Enviar(h)
        PROVE  serv' = serv /\ UNCHANGED <<cadena, sueltos>> /\ muertos' = muertos /\ rotos \subseteq rotos'
    BY <2>2 DEF Enviar, archivo
  <2>3. ASSUME NEW m \in Montajes, Matar(m)
        PROVE  /\ serv' = serv /\ UNCHANGED <<cadena, sueltos>> /\ m \notin muertos
               /\ muertos' = muertos \cup {m} /\ rotos' = rotos \ {m}
    BY <2>3 DEF Matar, archivo
  <2>4. CASE UNCHANGED vars
    BY <2>4 DEF vars, archivo
  <2>. QED BY <1>1, <2>1, <2>2, <2>3, <2>4 DEF Next, Callback
<1>. QED BY <1>2 DEF Causa, Enlaces

\* A write to a mount that takes the server down is of an answer that had begun.
LEMMA CaeAlMandar ==
  ASSUME SupuestoConversacion, CInv, NEW t \in Montajes, servidor = "vivo", serv[t].pc \in Atareado,
         NEW p, Mandar(serv[t].sock, p), servidor' = "fuera", muertos' = muertos,
         serv'[t].sock = serv[t].sock, serv'[t].ped = serv[t].ped,
         serv'[t].i \in {serv[t].i, serv[t].i + 1}
  PROVE  Causa(t)'
<1>1. serv[t].sock \in muertos /\ serv[t].sock \in rotos /\ rotos' = rotos
  BY DEF Mandar
<1>2. Empezada(t) /\ serv[t] \in Hijos
  BY <1>1, DeQuien
<1>3. PICK i \in Nat, j \in Nat : i = serv[t].i /\ j = serv'[t].i /\ j >= i
  BY <1>2 DEF Hijos
<1>4. Grupo \in Nat
  BY DEF SupuestoConversacion
<1>. QED BY <1>1, <1>2, <1>3, <1>4 DEF Causa, Empezada

\* A turn of the loop of osada_read is of the same request.
LEMMA IgualesTurno ==
  ASSUME NEW z \in Hijos, NEW i, NEW n, NEW b, NEW k, NEW n1
  PROVE  LET y == ConTurno(z, i, n)
             u == ConFin(y)
             w == ConBloque(y, b, k, n1)
         IN  /\ u.sock = z.sock /\ u.ped = z.ped /\ u.i = i
             /\ w.sock = z.sock /\ w.ped = z.ped /\ w.i = i
BY DEF ConTurno, ConFin, ConBloque, Hijos

\* The steps that take it down.
LEMMA Cae ==
  ASSUME SupuestoConversacion, CInv, servidor = "vivo", servidor' = "fuera", [Next]_vars
  PROVE  \E t \in Montajes : Causa(t)'
<1>1. PICK t \in Montajes : \/ Contestar(t) \/ Listar(t) \/ LeerPrimero(t) \/ LeerBloque(t) \/ LeerFin(t)
                            \/ EscribirIr(t) \/ EscribirBloque(t) \/ Avanzar(t)
  <2>1. ~UNCHANGED servidor
    OBVIOUS
  <2>2. \A h \in Hilos : ~Llamar(h) /\ ~Callback(h)
    BY <2>1 DEF Llamar, Callback, Tomar, Enviar, Recibir
  <2>3. \A t \in Montajes : /\ ~Matar(t) /\ ~Aceptar(t) /\ ~LeerSocket(t) /\ ~Escuchar(t) /\ ~ConMux(t)
                            /\ ~LeerTam(t) /\ ~EscribirTam(t) /\ ~EscribirSeguir(t) /\ ~Nunca(t)
    BY <2>1 DEF Matar, Aceptar, LeerSocket, Escuchar, ConMux, LeerTam, EscribirTam, EscribirSeguir, Nunca
  <2>4. \A t \in Montajes : /\ ~Truncar(t) /\ ~Andar(t) /\ ~Mirar(t) /\ ~Enlazar(t) /\ ~Quitar(t)
                            /\ ~PonerTam(t)
    BY <2>1 DEF Truncar, Andar, Mirar, Enlazar, Quitar, PonerTam
  <2>5. ~UNCHANGED vars
    BY <2>1 DEF vars
  <2>. QED BY <2>2, <2>3, <2>4, <2>5 DEF Next, HiloServidor
<1>2. serv \in [Montajes -> Hijos] /\ serv[t] \in Hijos
  BY DEF CInv, Tipos
<1>3. CASE LeerPrimero(t) \/ EscribirIr(t)
  BY <1>3 DEF LeerPrimero, EscribirIr, AlPrimero, En, Causa
<1>4. CASE EscribirBloque(t)
  BY <1>4 DEF EscribirBloque, En, Causa
<1>9. CASE Avanzar(t)
  <2>1. PICK b \in Enlaces(t) : IF b = FIN THEN servidor' = "fuera" /\ serv' = serv ELSE servidor' = servidor
    BY <1>9 DEF Avanzar
  <2>2. FIN \in Enlaces(t) /\ serv' = serv /\ UNCHANGED <<cadena, sueltos>> /\ serv[t].pc = "avanzar"
    BY <1>9, <2>1 DEF Avanzar, En, archivo
  <2>3. Enlaces(t)' = Enlaces(t)
    BY <2>2 DEF Enlaces
  <2>. QED BY <2>2, <2>3 DEF Causa
<1>5. CASE Contestar(t)
  <2>1. PICK len : Mandar(serv[t].sock, Respuesta(serv[t].ped, len, serv[t].cod, 0, 0))
    BY <1>5 DEF Contestar
  <2>2. serv' = serv /\ muertos' = muertos /\ serv[t].pc \in Atareado
    BY <1>5 DEF Contestar, Escuchado, En, Atareado
  <2>. QED BY <1>2, <2>1, <2>2, CaeAlMandar
<1>6. CASE Listar(t)
  <2>1. /\ Mandar(serv[t].sock, Respuesta(serv[t].ped, Corto, 0, 0, serv[t].cant))
        /\ muertos' = muertos /\ serv[t].pc \in Atareado
    BY <1>6 DEF Listar, En, Atareado
  <2>2. serv' = serv \/ serv' = [serv EXCEPT ![t] = ConIndice(serv[t], serv[t].i + 1)]
    BY <1>6 DEF Listar, Escuchado, ConIndice
  <2>3. PICK z \in Hijos, n \in Nat : z = serv[t] /\ n = serv[t].i + 1
    BY <1>2 DEF Hijos
  <2>4. LET w == ConIndice(z, n)
        IN  w \in Hijos /\ w.sock = z.sock /\ w.ped = z.ped /\ w.i = n
    BY QuedaConIndice
  <2>5. /\ serv'[t].sock = serv[t].sock /\ serv'[t].ped = serv[t].ped
        /\ serv'[t].i \in {serv[t].i, serv[t].i + 1}
    BY <1>2, <2>2, <2>3, <2>4
  <2>. QED BY <2>1, <2>5, CaeAlMandar
<1>7. CASE LeerFin(t)
  <2>1. PICK p : Mandar(serv[t].sock, p)
    BY <1>7 DEF LeerFin
  <2>2. serv' = serv /\ muertos' = muertos /\ serv[t].pc \in Atareado
    BY <1>7 DEF LeerFin, Escuchado, En, Atareado
  <2>. QED BY <1>2, <2>1, <2>2, CaeAlMandar
<1>8. CASE LeerBloque(t)
  <2>1. PICK p : Mandar(serv[t].sock, p)
    BY <1>8 DEF LeerBloque
  <2>2. muertos' = muertos /\ serv[t].pc \in Atareado
    BY <1>8 DEF LeerBloque, En, Atareado
  <2>3. PICK z \in Hijos : z = serv[t]
    BY <1>2
  <2>4. PICK w : /\ serv' = [serv EXCEPT ![t] = w]
                 /\ w.sock = z.sock /\ w.ped = z.ped /\ w.i = z.i + 1
    <3>1. PICK y, b, k, n, n1 :
            /\ y = ConTurno(z, z.i + 1, n)
            /\ serv' = [serv EXCEPT ![t] = IF z.block_start = FIN THEN ConFin(y) ELSE ConBloque(y, b, k, n1)]
      <4>. DEFINE n == IF (z.i + 1) % Grupo = 0 THEN 0 ELSE z.copiedMSG
                  y == ConTurno(z, z.i + 1, n)
      <4>1. PICK b \in Enlaces(t) :
              serv' = [serv EXCEPT ![t] = IF z.block_start = FIN THEN ConFin(y)
                                          ELSE ConBloque(y, b, y.copied + 1, y.copiedMSG + 1)]
        BY <1>8, <2>3 DEF LeerBloque, ConTurno, ConFin, ConBloque
      <4>. HIDE DEF n
      <4>. QED BY <4>1
    <3>2. /\ ConFin(y).sock = z.sock /\ ConFin(y).ped = z.ped /\ ConFin(y).i = z.i + 1
          /\ LET w == ConBloque(y, b, k, n1)
             IN  w.sock = z.sock /\ w.ped = z.ped /\ w.i = z.i + 1
      BY <3>1, IgualesTurno
    <3>. QED BY <3>1, <3>2
  <2>5. serv'[t] = w
    BY <1>2, <2>4
  <2>. QED BY <2>1, <2>2, <2>3, <2>4, <2>5, CaeAlMandar
<1>. QED BY <1>1, <1>3, <1>4, <1>5, <1>6, <1>7, <1>8, <1>9

\* The server falls only in the rest of an answer to a mount that has been killed, in a
\* read or a write from beyond the end of a chain that has been cut, in a write that has
\* come to such an end, or in a walk of osada_ftruncate that has been cut where it stood.
THEOREM CaeConCausaSiempre == Spec => []CaeConCausa
<1>1. CaeConCausa <=> (servidor = "fuera" => \E t \in Montajes : Causa(t))
  BY DEF CaeConCausa, Causa
<1>2. Init => CaeConCausa
  BY DEF Init, CaeConCausa
<1>3. CInv /\ CaeConCausa /\ [Next]_vars => CaeConCausa'
  <2>. SUFFICES ASSUME CInv, CaeConCausa, [Next]_vars, servidor' = "fuera"
                PROVE  \E t \in Montajes : Causa(t)'
    BY DEF CaeConCausa, Causa
  <2>1. CASE servidor = "fuera"
    BY <1>1, <2>1, SigueCaido
  <2>2. CASE servidor # "fuera"
    <3>1. servidor = "vivo"
      BY <2>2 DEF CInv, Tipos, Resto
    <3>. QED BY <3>1, SupuestoConversacion, Cae
  <2>. QED BY <2>1, <2>2
<1>. QED BY <1>2, <1>3, Conversan, PTL DEF Spec
=============================================================================
