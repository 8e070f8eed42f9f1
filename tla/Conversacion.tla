---------------------------- MODULE Conversacion ----------------------------
(***************************************************************************)
(* What pokeCliente and pokeServidor say to each other: the callbacks of a *)
(* mount, which several FUSE threads run at once and which share a socket  *)
(* and mux_socket (src/pokeCliente/pokeClient.c); the server's thread for  *)
(* each mount (procesar_cliente, osada_readdir, osada_read, osada_write,   *)
(* osada_statfs and osada_ftruncate in src/pokeServidor/pokeServ.c); and   *)
(* send_socket and recv_socket of both (socks_fs.c), down to recv giving   *)
(* fewer bytes than it is asked for.  A mount may be killed, and the       *)
(* server may fall.                                                        *)
(*                                                                         *)
(* What the requests do to the file system is module Osada's; here there   *)
(* is one file, which one mount reads and writes while another truncates   *)
(* it, and mux_osada, which a write may keep.                              *)
(***************************************************************************)
EXTENDS Integers, FiniteSets, SequencesExt

CONSTANTS
  Montajes,
  Hilos,         \* the FUSE threads
  De,            \* the mount of each thread
  Inicial,       \* the thread of each mount that runs osada_init
  Nadie,
  Operaciones,   \* what the threads of each mount ask for
  Grupo,         \* blocks of a packet of osada_read, and of one of osada_write
  Comienzos,     \* the blocks that the file may begin with
  Tramos,        \* the reads and writes: from which block, and how many
  MaxBloques,    \* bound: blocks of the file
  MaxEntradas,   \* bound: entries of the directory that is listed
  MaxLlamadas,   \* bound: callbacks
  Mortales       \* bound: the mounts that may be killed

ASSUME SupuestoConversacion ==
  /\ De \in [Hilos -> Montajes] /\ Inicial \in [Montajes -> Hilos]
  /\ \A m \in Montajes : De[Inicial[m]] = m
  /\ Nadie \notin Hilos \cup Montajes
  /\ Operaciones \in [Montajes -> SUBSET {"simple", "statfs", "crear", "lista", "leer", "escribir", "truncar"}]
  /\ Grupo \in Nat \ {0} /\ MaxBloques \in Nat \ {0} /\ MaxEntradas \in Nat
  /\ Comienzos \subseteq 1..MaxBloques
  /\ Tramos \subseteq [desde : 0..MaxBloques - 1, cant : 1..MaxBloques]
  /\ \A tr \in Tramos : tr.desde + tr.cant <= MaxBloques
  /\ MaxLlamadas \in Nat /\ Mortales \subseteq Montajes

VARIABLES
  hilo,      \* each FUSE thread: where it is in its callback, and its locals
  mux,       \* mux_socket: the thread of each mount that has it, or Nadie
  aServidor, \* the packets on their way from each mount; the reader may have
  aCliente,  \* taken some bytes of the first.  And those on their way back
  muertos,   \* the mounts that have been killed
  rotos,     \* connections written to after the other end was closed
  serv,      \* the server's thread for each mount, and its locals
  sock_Cli,  \* of main
  cadena,    \* the blocks of the file's chain
  tam,       \* its size, in blocks
  sueltos,   \* the server's threads whose block is no longer in the file's chain
  retenido,  \* mux_osada: a write has returned with it
  servidor,  \* "vivo" or "fuera"
  llamadas

cliente == <<hilo, mux, llamadas>>
archivo == <<cadena, tam, sueltos, retenido>>
vars == <<cliente, aServidor, aCliente, muertos, rotos, serv, sock_Cli, archivo, servidor>>

FIN == MaxBloques        \* 0xFFFFFFFF, in the chain
Mucho == MaxBloques + 2  \* a size that has gone below zero: more than any file has

\* Bytes, by what recv can tell apart: a header of 3, which may come in pieces, and a
\* length of 0, short (4, 13, 34) or long (290, 546).
Cabecera == 2
Corto == 1
Largo == 2
Bytes(p) == Cabecera + p.len
Total(canal) == FoldLeft(LAMBDA n, p : n + Bytes(p), 0, canal)

\* size and offset of a request, in blocks
Pedido(h, op, n, desde) ==
  [tipo |-> op, len |-> IF op \in {"saludo", "statfs"} THEN 0 ELSE Largo,
   de |-> h, size |-> n, offset |-> desde]

\* cod_return, and what size and offset of a reply are used for
Respuesta(ped, len, cod, mas, cant) ==
  [tipo |-> ped.tipo, len |-> len, de |-> ped.de, cod_return |-> cod, size |-> mas, offset |-> cant]

EnPaz == [pc |-> "libre", op |-> "nada", len |-> 0, leido |-> 0, size |-> 0, offset |-> 0, faltan |-> 0]
SinPedido == [tipo |-> "nada", len |-> 0, de |-> Nadie, size |-> 0, offset |-> 0]
Hijo == [pc |-> "cola", sock |-> Nadie, len |-> 0, leido |-> 0, ped |-> SinPedido, cod |-> 0,
         cant |-> 0, size |-> 0, i |-> 0, block_start |-> 0, copied |-> 0, copiedMSG |-> 0,
         trunco |-> FALSE] \* a read that has ended without its last packet

\* The threads of FUSE start when osada_init has ended, and mux_socket with them.
Init ==
  /\ hilo = [h \in Hilos |-> IF h = Inicial[De[h]] THEN [EnPaz EXCEPT !.pc = "enviar", !.op = "saludo"]
                             ELSE EnPaz]
  /\ mux = Inicial
  /\ aServidor = [m \in Montajes |-> <<>>] /\ aCliente = [m \in Montajes |-> <<>>]
  /\ muertos = {} /\ rotos = {}
  /\ serv = [m \in Montajes |-> Hijo] /\ sock_Cli = Nadie
  /\ cadena \in Comienzos /\ tam = cadena /\ sueltos = {} /\ retenido = FALSE
  /\ servidor = "vivo" /\ llamadas = 0

-----------------------------------------------------------------------------
(* recv_socket, by whoever has read leido bytes of the canal and finds len *)
(* in packet->len: the length of the packet that was there before, until   *)
(* the header is complete.                                                 *)

\* what a turn of the loop asks recv for
Pide(x) == IF x.leido = 0 THEN Cabecera ELSE Cabecera + x.len - x.leido

\* Wrong on purpose: the loop goes by the length that was in the packet before
RecvViejo(x, canal) ==
  {[x EXCEPT !.leido = @ + k] : k \in 1..Min({Pide(x), Total(canal) - x.leido})}

\* one recv: x afterwards
Recv(x, canal) ==
  {[x EXCEPT !.leido = @ + k, !.len = IF x.leido + k >= Cabecera THEN Head(canal).len ELSE @] :
     k \in 1..Min({Pide(x), Total(canal) - x.leido})}

Entero(x) == x.leido >= Cabecera + x.len
Desfasado(x, canal) == x.leido # Bytes(Head(canal))

-----------------------------------------------------------------------------
(* The callbacks. *)

\* Whose thread serves a mount, when one has read its socket.
Lectores(m) == {t \in Montajes : serv[t].sock = m}
Cerrado(m) == servidor = "fuera" \/ (Lectores(m) # {} /\ \A t \in Lectores(m) : serv[t].pc = "fin")

\* a callback that has begun
Llamada(op, n, desde, bloques) ==
  [pc |-> "mutex", op |-> op, len |-> 0, leido |-> 0, size |-> n, offset |-> desde, faltan |-> bloques]

\* what a thread may ask for: a read or a write of some blocks, a size for the file
Llamadas(op) ==
  CASE op = "leer" -> {Llamada(op, tr.cant, tr.desde, 0) : tr \in Tramos}
    [] op = "escribir" -> {Llamada(op, 0, tr.desde, tr.cant) : tr \in Tramos}
    [] op = "truncar" -> {Llamada(op, n, 0, 0) : n \in 0..MaxBloques}
    [] OTHER -> {Llamada(op, 0, 0, 0)}

Llamar(h) ==
  /\ hilo[h].pc = "libre" /\ hilo[Inicial[De[h]]].op # "saludo"
  /\ llamadas < MaxLlamadas
  /\ llamadas' = llamadas + 1
  /\ \E op \in Operaciones[De[h]] : \E l \in Llamadas(op) : hilo' = [hilo EXCEPT ![h] = l]
  /\ UNCHANGED <<mux, aServidor, aCliente, muertos, rotos, serv, sock_Cli, archivo, servidor>>

\* Wrong on purpose: sem_init gives more than one
TomarDeMas(h) ==
  /\ hilo[h].pc = "mutex"
  /\ mux' = [mux EXCEPT ![De[h]] = h]
  /\ hilo' = [hilo EXCEPT ![h].pc = "enviar"]
  /\ UNCHANGED <<llamadas, aServidor, aCliente, muertos, rotos, serv, sock_Cli, archivo, servidor>>

\* sem_wait
Tomar(h) ==
  /\ hilo[h].pc = "mutex" /\ mux[De[h]] = Nadie
  /\ mux' = [mux EXCEPT ![De[h]] = h]
  /\ hilo' = [hilo EXCEPT ![h].pc = "enviar"]
  /\ UNCHANGED <<llamadas, aServidor, aCliente, muertos, rotos, serv, sock_Cli, archivo, servidor>>

\* Wrong on purpose: without the sem_post
VolverSinPost(h) ==
  /\ hilo' = [hilo EXCEPT ![h] = EnPaz]
  /\ UNCHANGED mux

\* sem_post and the end of the callback
Volver(h) ==
  /\ mux' = [mux EXCEPT ![De[h]] = Nadie]
  /\ hilo' = [hilo EXCEPT ![h] = EnPaz]

\* The blocks of a request: of a write, of its next 256 bytes.
Pieza(x) == IF x.op = "escribir" THEN Min({Grupo, x.faltan}) ELSE x.size

\* send_socket.  The first packet to an end that is closed is lost; from then on send
\* fails, and FUSE has SIGPIPE ignored.
Enviar(h) ==
  LET m == De[h] IN
  /\ hilo[h].pc = "enviar"
  /\ IF m \in rotos THEN Volver(h) /\ UNCHANGED <<aServidor, rotos>>
     ELSE LET p == Pedido(h, hilo[h].op, Pieza(hilo[h]), hilo[h].offset) IN
          /\ hilo' = [hilo EXCEPT ![h] = [@ EXCEPT !.pc = "recibir", !.len = p.len, !.leido = 0]]
          /\ UNCHANGED mux
          /\ IF Cerrado(m) THEN rotos' = rotos \cup {m} /\ UNCHANGED aServidor
             ELSE aServidor' = [aServidor EXCEPT ![m] = Append(@, p)] /\ UNCHANGED rotos
  /\ UNCHANGED <<llamadas, aCliente, muertos, serv, sock_Cli, archivo, servidor>>

\* the rest of a callback that expects a packet more, or has one more to send
Seguir(h, x, pc, faltan) ==
  /\ hilo' = [hilo EXCEPT ![h] = [x EXCEPT !.pc = pc, !.leido = 0, !.faltan = faltan]]
  /\ UNCHANGED mux

\* Wrong on purpose: an entry too few
MasEntradasUnaMenos(h, x, p) ==
  LET faltan == (IF x.faltan = 0 THEN p.offset ELSE x.faltan) - 1 IN
  IF p.cod_return < 0 \/ faltan <= 1 THEN Volver(h) ELSE Seguir(h, x, "recibir", faltan)

\* osada_readdir: the first packet says how many there are
MasEntradas(h, x, p) ==
  LET faltan == (IF x.faltan = 0 THEN p.offset ELSE x.faltan) - 1 IN
  IF p.cod_return < 0 \/ faltan <= 0 THEN Volver(h) ELSE Seguir(h, x, "recibir", faltan)

\* osada_read: each packet says if there is another
MasDatos(h, x, p) ==
  IF p.cod_return < 0 \/ p.size # 1 THEN Volver(h) ELSE Seguir(h, x, "recibir", 0)

\* osada_write: a request for every 256 bytes
MasPiezas(h, x, p) ==
  IF p.cod_return < 0 \/ x.faltan <= Grupo THEN Volver(h)
  ELSE Seguir(h, [x EXCEPT !.offset = @ + Grupo], "enviar", x.faltan - Grupo)

\* osada_create: whatever the answer, osada_open
AbrirCreado(h) ==
  /\ mux' = [mux EXCEPT ![De[h]] = Nadie]
  /\ hilo' = [hilo EXCEPT ![h] = Llamada("simple", 0, 0, 0)]

\* What a callback does with a packet p: x is the thread after recv_socket.
Atender(h, x, p) ==
  CASE x.op = "lista" -> MasEntradas(h, x, p)
    [] x.op = "leer" -> MasDatos(h, x, p)
    [] x.op = "escribir" -> MasPiezas(h, x, p)
    [] x.op = "crear" -> AbrirCreado(h)
    [] OTHER -> Volver(h)

\* One recv of recv_socket; the last one ends it.
Recibir(h) ==
  LET m == De[h]
      canal == aCliente[m]
  IN
  /\ hilo[h].pc = "recibir"
  /\ \/ /\ canal # <<>>
        /\ \E x \in Recv(hilo[h], canal) :
             IF ~Entero(x) THEN hilo' = [hilo EXCEPT ![h] = x] /\ UNCHANGED <<mux, aCliente>>
             ELSE IF Desfasado(x, canal)
               THEN hilo' = [hilo EXCEPT ![h] = [x EXCEPT !.pc = "desfasado"]] /\ UNCHANGED <<mux, aCliente>>
             ELSE Atender(h, x, Head(canal)) /\ aCliente' = [aCliente EXCEPT ![m] = Tail(@)]
     \/ canal = <<>> /\ Cerrado(m) /\ Volver(h) /\ UNCHANGED aCliente
  /\ UNCHANGED <<llamadas, aServidor, muertos, rotos, serv, sock_Cli, archivo, servidor>>

\* The mount is killed: its socket is closed.
Matar(m) ==
  /\ m \in Mortales \ muertos
  /\ muertos' = muertos \cup {m}
  /\ rotos' = rotos \ {m}
  /\ hilo' = [h \in Hilos |-> IF De[h] = m THEN [EnPaz EXCEPT !.pc = "muerto"] ELSE hilo[h]]
  /\ mux' = [mux EXCEPT ![m] = Nadie]
  /\ aCliente' = [aCliente EXCEPT ![m] = <<>>]
  /\ UNCHANGED <<llamadas, aServidor, serv, sock_Cli, archivo, servidor>>

-----------------------------------------------------------------------------
(* The server: main, and procesar_cliente. *)

\* accept and pthread_create
Aceptar(t) ==
  /\ servidor = "vivo" /\ serv[t].pc = "cola"
  /\ sock_Cli' = t
  /\ serv' = [serv EXCEPT ![t].pc = "nuevo"]
  /\ UNCHANGED <<cliente, aServidor, aCliente, muertos, rotos, archivo, servidor>>

\* The new thread reads its socket from sock_Cli of main.
LeerSocket(t) ==
  /\ servidor = "vivo" /\ serv[t].pc = "nuevo"
  /\ serv' = [serv EXCEPT ![t] = [@ EXCEPT !.sock = sock_Cli, !.pc = "saludo"]]
  /\ UNCHANGED <<cliente, aServidor, aCliente, muertos, rotos, sock_Cli, archivo, servidor>>

\* Two threads on a socket share out its bytes: the model does not follow them.
En(t, pc) == servidor = "vivo" /\ serv[t].pc = pc /\ Lectores(serv[t].sock) = {t}

\* the request found, or not; and a directory with n entries
Con(y, pc, cod) == [y EXCEPT !.pc = pc, !.cod = cod]
ConEntradas(y, n) == [Con(y, "listar", 0) EXCEPT !.cant = n]

\* What the thread does when a request has come.  Its answer is one packet, but for
\* readdir and read; the requests may all fail (ENOENT).  A read waits for mux_osada first,
\* and so do create, mkdir and unlink, which may fail before; the rest of "simple" do not.
Despachar(x, p) ==
  LET y == [x EXCEPT !.ped = p, !.leido = 0, !.trunco = FALSE] IN
  CASE x.pc = "saludo" -> {Con(y, "contestar", 0)}
    [] p.tipo = "lista" -> {Con(y, "contestar", -1), Con(y, "contestar", 0)} \cup
                           {ConEntradas(y, n) : n \in 1..MaxEntradas}
    [] p.tipo = "leer" -> {Con(y, "mux", 0)}
    [] p.tipo = "escribir" -> {Con(y, "contestar", -1), Con(y, "escribirTam", 0)}
    [] p.tipo = "truncar" -> {Con(y, "truncar", 0)}
    [] p.tipo = "statfs" -> {Con(y, "contestar", 0)}
    [] OTHER -> {Con(y, "contestar", -1), Con(y, "contestar", 0), Con(y, "mux", 0)}

\* One recv of recv_socket: of the greeting or of a request.
Escuchar(t) ==
  LET s == serv[t].sock
      canal == aServidor[s]
  IN
  /\ En(t, "saludo") \/ En(t, "espera")
  /\ \/ /\ canal # <<>>
        /\ \E x \in Recv(serv[t], canal) :
             IF ~Entero(x) THEN serv' = [serv EXCEPT ![t] = x] /\ UNCHANGED aServidor
             ELSE IF Desfasado(x, canal)
               THEN serv' = [serv EXCEPT ![t] = [x EXCEPT !.pc = "desfasado"]] /\ UNCHANGED aServidor
             ELSE /\ \E y \in Despachar(x, Head(canal)) : serv' = [serv EXCEPT ![t] = y]
                  /\ aServidor' = [aServidor EXCEPT ![s] = Tail(@)]
     \/ /\ canal = <<>> /\ s \in muertos
        /\ serv' = [serv EXCEPT ![t].pc = "fin"]
        /\ UNCHANGED aServidor
  /\ UNCHANGED <<cliente, aCliente, muertos, rotos, sock_Cli, archivo, servidor>>

\* Wrong on purpose: the first packet raises SIGPIPE
MandarUno(s, p) ==
  IF s \notin muertos THEN aCliente' = [aCliente EXCEPT ![s] = Append(@, p)] /\ UNCHANGED <<rotos, servidor>>
  ELSE servidor' = "fuera" /\ UNCHANGED <<aCliente, rotos>>

\* send_socket of a packet to s.  The first to a mount that has been killed is lost; the
\* second raises SIGPIPE, which nobody handles.
Mandar(s, p) ==
  IF s \notin muertos THEN aCliente' = [aCliente EXCEPT ![s] = Append(@, p)] /\ UNCHANGED <<rotos, servidor>>
  ELSE IF s \notin rotos THEN rotos' = rotos \cup {s} /\ UNCHANGED <<aCliente, servidor>>
  ELSE servidor' = "fuera" /\ UNCHANGED <<aCliente, rotos>>

\* back to the loop of procesar_cliente with len in its packet; a server that falls stays
\* where it was
Escuchado(t, len, trunco) ==
  serv' = IF servidor' = "fuera" THEN serv
          ELSE [serv EXCEPT ![t] = [Hijo EXCEPT !.pc = "espera", !.sock = serv[t].sock, !.len = len,
                                                !.trunco = trunco]]

\* The answer of one packet.  That of getattr is a little longer than the others (17), which
\* recv cannot tell: it is any that is not empty.
Contestar(t) ==
  LET x == serv[t] IN
  /\ En(t, "contestar")
  /\ \E len \in CASE x.ped.tipo = "saludo" -> {0}
                  [] x.ped.tipo = "simple" /\ x.cod = 0 -> {Corto, Largo}
                  [] OTHER -> {Corto} :
       /\ Mandar(x.sock, Respuesta(x.ped, len, x.cod, 0, 0))
       /\ Escuchado(t, IF x.ped.tipo = "statfs" \/ (x.ped.tipo = "lista" /\ x.cod = 0) THEN x.len ELSE len,
                    FALSE)
  /\ UNCHANGED <<cliente, aServidor, muertos, sock_Cli, archivo>>

\* osada_readdir: a packet for each entry
Listar(t) ==
  LET x == serv[t] IN
  /\ En(t, "listar")
  /\ Mandar(x.sock, Respuesta(x.ped, Corto, 0, 0, x.cant))
  /\ IF x.i + 1 = x.cant THEN Escuchado(t, x.len, FALSE) ELSE serv' = [serv EXCEPT ![t].i = @ + 1]
  /\ UNCHANGED <<cliente, aServidor, muertos, sock_Cli, archivo>>

\* sem_wait on mux_osada, the search under it and the sem_post
ConMux(t) ==
  LET x == serv[t] IN
  /\ En(t, "mux") /\ ~retenido
  /\ \E y \in {Con(x, "contestar", -1),
              Con(x, IF x.ped.tipo = "leer" THEN "leerTam" ELSE "contestar", 0)} :
       serv' = [serv EXCEPT ![t] = y]
  /\ UNCHANGED <<cliente, aServidor, aCliente, muertos, rotos, sock_Cli, archivo, servidor>>

-----------------------------------------------------------------------------
(* osada_read and osada_write.  They hold no lock after the lookup, and    *)
(* read the size and the chain at different moments.                       *)

\* the links that may follow the block the thread is on: a block that is out of the chain
\* is free, or of any chain
Enlaces(t) ==
  LET b == serv[t].block_start IN
  IF t \in sueltos THEN {b, FIN} ELSE IF b < cadena - 1 THEN {b + 1} ELSE {FIN}

\* The walk to the block of the offset, which is copied.  Beyond the end of the chain it
\* indexes fat_osada with 0xFFFFFFFF.
AlPrimero(t, pc) ==
  LET x == serv[t] IN
  /\ IF x.ped.offset > cadena THEN servidor' = "fuera" /\ UNCHANGED <<serv, sueltos>>
     ELSE /\ serv' = [serv EXCEPT ![t] = [x EXCEPT !.pc = pc,
                !.block_start = IF x.ped.offset = cadena THEN FIN ELSE x.ped.offset,
                !.copied = Min({1, x.size}), !.copiedMSG = Min({1, x.size})]]
          /\ sueltos' = sueltos \ {t}
          /\ UNCHANGED servidor
  /\ UNCHANGED <<cliente, aServidor, aCliente, muertos, rotos, sock_Cli, cadena, tam, retenido>>

\* the size, which is unsigned
LeerTam(t) ==
  LET x == serv[t] IN
  /\ En(t, "leerTam")
  /\ serv' = [serv EXCEPT ![t] = [x EXCEPT !.pc = "leerPrimero",
       !.size = IF tam >= x.ped.offset + x.ped.size THEN x.ped.size
                ELSE IF tam >= x.ped.offset THEN tam - x.ped.offset ELSE Mucho]]
  /\ UNCHANGED <<cliente, aServidor, aCliente, muertos, rotos, sock_Cli, archivo, servidor>>

LeerPrimero(t) == En(t, "leerPrimero") /\ AlPrimero(t, "leerBloque")

\* A turn of the loop: the packet when it is full, the end of the chain, the next block.
LeerBloque(t) ==
  LET x == serv[t]
      y == [x EXCEPT !.i = @ + 1, !.copiedMSG = IF (x.i + 1) % Grupo = 0 THEN 0 ELSE @]
  IN
  /\ En(t, "leerBloque") /\ x.copied < x.size
  /\ IF y.i % Grupo = 0 THEN Mandar(x.sock, Respuesta(x.ped, Largo, 0, 1, 0))
     ELSE UNCHANGED <<aCliente, rotos, servidor>>
  /\ \E b \in Enlaces(t) :
       serv' = [serv EXCEPT ![t] =
         IF x.block_start = FIN THEN [y EXCEPT !.pc = "leerFin"]
         ELSE [y EXCEPT !.block_start = b, !.copied = @ + 1, !.copiedMSG = @ + 1]]
  /\ UNCHANGED <<cliente, aServidor, muertos, sock_Cli, archivo>>

\* the last packet, if there is something to put in it
LeerFin(t) ==
  LET x == serv[t] IN
  /\ En(t, "leerFin") \/ (En(t, "leerBloque") /\ x.copied >= x.size)
  /\ IF x.i = 0 \/ x.copiedMSG # 0 THEN Mandar(x.sock, Respuesta(x.ped, Largo, 0, 0, 0))
     ELSE UNCHANGED <<aCliente, rotos, servidor>>
  /\ Escuchado(t, x.len, x.i # 0 /\ x.copiedMSG = 0)
  /\ UNCHANGED <<cliente, aServidor, muertos, sock_Cli, archivo>>

\* osada_write has osada_ftruncate make the file as long as it is going to be.
EscribirTam(t) ==
  LET x == serv[t] IN
  /\ En(t, "escribirTam")
  /\ serv' = [serv EXCEPT ![t] = [x EXCEPT !.size = x.ped.size,
       !.pc = IF tam < x.ped.offset + x.ped.size THEN "truncar" ELSE "escribirIr"]]
  /\ UNCHANGED <<cliente, aServidor, aCliente, muertos, rotos, sock_Cli, archivo, servidor>>

EscribirIr(t) == En(t, "escribirIr") /\ AlPrimero(t, "escribirBloque")

\* a turn of the loop: the test of line 940
EscribirBloque(t) ==
  LET x == serv[t] IN
  /\ En(t, "escribirBloque")
  /\ IF x.copied < x.size /\ x.block_start = FIN THEN servidor' = "fuera" /\ UNCHANGED serv
     ELSE /\ \E b \in Enlaces(t) :
               serv' = [serv EXCEPT ![t].pc = IF x.copied >= x.size THEN "contestar"
                                              ELSE IF b = FIN THEN "nunca" ELSE "escribirSeguir"]
          /\ UNCHANGED servidor
  /\ UNCHANGED <<cliente, aServidor, aCliente, muertos, rotos, sock_Cli, archivo>>

\* it reads the link again
EscribirSeguir(t) ==
  LET x == serv[t] IN
  /\ En(t, "escribirSeguir")
  /\ \E b \in Enlaces(t) :
       serv' = [serv EXCEPT ![t] = [x EXCEPT !.pc = "escribirBloque", !.block_start = b, !.copied = @ + 1]]
  /\ UNCHANGED <<cliente, aServidor, aCliente, muertos, rotos, sock_Cli, archivo, servidor>>

-----------------------------------------------------------------------------
(* osada_ftruncate: what it reads of the size and of the chain it reads    *)
(* without a lock.                                                         *)

BloquesDe(n) == IF n = 0 THEN 1 ELSE n
Meta(ped) == IF ped.tipo = "truncar" THEN ped.size ELSE ped.offset + ped.size

\* its result, for procesar_cliente or for osada_write
Truncado(x, cod) ==
  IF x.ped.tipo = "escribir" /\ cod = 0 THEN Con(x, "escribirIr", 0) ELSE Con(x, "contestar", cod)

\* cant, which is block_abm: the blocks to add or, below zero, to take out.  It fails if the
\* file is not there, or if too few blocks are free.
Truncar(t) ==
  LET x == serv[t]
      abm == BloquesDe(Meta(x.ped)) - BloquesDe(tam)
      y == IF tam = Meta(x.ped) THEN Truncado(x, 0) ELSE [x EXCEPT !.cant = abm, !.pc = "andar"]
  IN
  /\ En(t, "truncar")
  /\ \E z \in {y, Truncado(x, -1)} : serv' = [serv EXCEPT ![t] = z]
  /\ UNCHANGED <<cliente, aServidor, aCliente, muertos, rotos, sock_Cli, archivo, servidor>>

\* For each block it walks to the last one: from first_block,
Andar(t) ==
  LET x == serv[t] IN
  /\ En(t, "andar") /\ x.cant # 0
  /\ serv' = [serv EXCEPT ![t] = [x EXCEPT !.pc = "mirar", !.block_start = 0]]
  /\ sueltos' = sueltos \ {t}
  /\ UNCHANGED <<cliente, aServidor, aCliente, muertos, rotos, sock_Cli, cadena, tam, retenido, servidor>>

\* what it does with the last one
AlUltimo(x) == IF x.cant > 0 THEN "enlazar" ELSE "quitar"

\* it tests a link (lines 1044 and 1082),
Mirar(t) ==
  LET x == serv[t] IN
  /\ En(t, "mirar")
  /\ \E b \in Enlaces(t) :
       serv' = [serv EXCEPT ![t].pc = IF b = FIN THEN AlUltimo(x) ELSE "avanzar"]
  /\ UNCHANGED <<cliente, aServidor, aCliente, muertos, rotos, sock_Cli, archivo, servidor>>

\* and reads it again (1045, 1084).  If the chain has been cut there in between, it indexes
\* fat_osada with 0xFFFFFFFF.  Out of its chain, the rest of the walk is this step.
Avanzar(t) ==
  LET x == serv[t] IN
  /\ En(t, "avanzar")
  /\ \E b \in Enlaces(t) :
       IF b = FIN THEN servidor' = "fuera" /\ UNCHANGED serv
       ELSE /\ serv' = [serv EXCEPT ![t] = [x EXCEPT !.block_start = b,
                          !.pc = IF t \in sueltos THEN AlUltimo(x) ELSE "mirar"]]
            /\ UNCHANGED servidor
  /\ UNCHANGED <<cliente, aServidor, aCliente, muertos, rotos, sock_Cli, archivo>>

\* A new block after the one the thread is on, which ends the chain there, whatever came
\* after; if that one is out of the chain, it may have come back to its end.  (Bound: there
\* is no room for a chain of more than MaxBloques.)
Ligar(t) ==
  LET b == serv[t].block_start IN
  \/ /\ t \notin sueltos /\ b + 2 <= MaxBloques
     /\ cadena' = b + 2
     /\ sueltos' = sueltos \cup {u \in Montajes : serv[u].block_start \in b + 1..FIN - 1}
  \/ /\ t \in sueltos
     /\ cadena' \in {cadena, cadena + 1} /\ cadena' <= MaxBloques
     /\ UNCHANGED sueltos

\* the search for a free block under mux_osada, and the link; or there is none
Enlazar(t) ==
  LET x == serv[t] IN
  /\ En(t, "enlazar") /\ ~retenido
  /\ \/ Ligar(t) /\ serv' = [serv EXCEPT ![t] = [x EXCEPT !.cant = x.cant - 1, !.pc = "andar"]]
     \/ serv' = [serv EXCEPT ![t] = Con(x, "contestar", -1)] /\ UNCHANGED <<cadena, sueltos>>
  /\ UNCHANGED <<cliente, aServidor, aCliente, muertos, rotos, sock_Cli, tam, retenido, servidor>>

\* Where osada_write should never be it links a block too; if there is none, it returns
\* without the sem_post (lines 947 to 949).
Nunca(t) ==
  LET x == serv[t] IN
  /\ En(t, "nunca") /\ ~retenido
  /\ \/ Ligar(t) /\ serv' = [serv EXCEPT ![t].pc = "escribirSeguir"] /\ UNCHANGED retenido
     \/ serv' = [serv EXCEPT ![t] = Con(x, "contestar", -1)] /\ retenido' = TRUE
        /\ UNCHANGED <<cadena, sueltos>>
  /\ UNCHANGED <<cliente, aServidor, aCliente, muertos, rotos, sock_Cli, tam, servidor>>

\* The last block of the chain, unless it is the first: its bit, under mux_osada, and the
\* link of the one before, which ends the chain there.  If the block is out of the chain by
\* now, that one may be anywhere.
Quitar(t) ==
  LET x == serv[t]
      b == x.block_start
  IN
  /\ En(t, "quitar")
  /\ \/ t \notin sueltos /\ b = 0 /\ UNCHANGED <<cadena, sueltos>>
     \/ /\ ~retenido
        /\ cadena' \in IF t \in sueltos THEN 1..cadena ELSE 1..cadena \cap {b}
        /\ sueltos' = sueltos \cup {u \in Montajes : serv[u].block_start \in cadena'..FIN - 1}
  /\ serv' = [serv EXCEPT ![t] = [x EXCEPT !.cant = x.cant + 1, !.pc = "andar"]]
  /\ UNCHANGED <<cliente, aServidor, aCliente, muertos, rotos, sock_Cli, tam, retenido, servidor>>

PonerTam(t) ==
  /\ En(t, "andar") /\ serv[t].cant = 0
  /\ tam' = Meta(serv[t].ped)
  /\ serv' = [serv EXCEPT ![t] = Truncado(@, 0)]
  /\ UNCHANGED <<cliente, aServidor, aCliente, muertos, rotos, sock_Cli, cadena, sueltos, retenido, servidor>>

-----------------------------------------------------------------------------
Callback(h) == Tomar(h) \/ Enviar(h) \/ Recibir(h)

HiloServidor(t) ==
  \/ Aceptar(t) \/ LeerSocket(t) \/ Escuchar(t) \/ Contestar(t) \/ Listar(t) \/ ConMux(t)
  \/ LeerTam(t) \/ LeerPrimero(t) \/ LeerBloque(t) \/ LeerFin(t)
  \/ EscribirTam(t) \/ EscribirIr(t) \/ EscribirBloque(t) \/ EscribirSeguir(t) \/ Nunca(t)
  \/ Truncar(t) \/ Andar(t) \/ Mirar(t) \/ Avanzar(t) \/ Enlazar(t) \/ Quitar(t) \/ PonerTam(t)

Next ==
  \/ \E h \in Hilos : Llamar(h) \/ Callback(h)
  \/ \E m \in Montajes : Matar(m) \/ HiloServidor(m)

Spec == Init /\ [][Next]_vars

Progreso == (\E h \in Hilos : Callback(h)) \/ (\E m \in Montajes : HiloServidor(m))

\* The programs do not stop while one of their threads can run; which one is up to the
\* scheduler.  Nothing makes the kernel call, or a mount die.
FairSpec == Spec /\ WF_vars(Progreso)

-----------------------------------------------------------------------------
\* where the server's thread has a request in hand
Atareado == {"contestar", "listar", "mux", "leerTam", "leerPrimero", "leerBloque", "leerFin",
             "escribirTam", "escribirIr", "escribirBloque", "escribirSeguir", "nunca",
             "truncar", "andar", "mirar", "avanzar", "enlazar", "quitar"}
OpsPosibles == {"saludo", "simple", "statfs", "crear", "lista", "leer", "escribir", "truncar", "nada"}
Pedidos == {p \in [tipo : OpsPosibles, len : 0..Largo, de : Hilos \cup {Nadie}, size : 0..MaxBloques,
                   offset : 0..MaxBloques] : p.offset + p.size <= MaxBloques}
Respuestas == [tipo : OpsPosibles, len : 0..Largo, de : Hilos, cod_return : {-1, 0}, size : 0..1,
               offset : 0..MaxEntradas]

\* The values of the variables: a socket never has more than one request in it.
TypeOK ==
  /\ hilo \in [Hilos -> [pc : {"libre", "mutex", "enviar", "recibir", "desfasado", "muerto"},
                         op : OpsPosibles, len : 0..Largo, leido : Nat, size : 0..MaxBloques,
                         offset : 0..MaxBloques, faltan : Nat]]
  /\ mux \in [Montajes -> Hilos \cup {Nadie}]
  /\ \A m \in Montajes : aServidor[m] \in Seq(Pedidos) /\ Len(aServidor[m]) <= 1
  /\ \A m \in Montajes : aCliente[m] \in Seq(Respuestas)
  /\ muertos \subseteq Montajes /\ rotos \subseteq Montajes
  /\ serv \in [Montajes -> [pc : Atareado \cup {"cola", "nuevo", "saludo", "espera", "fin", "desfasado"},
                            sock : Montajes \cup {Nadie}, len : 0..Largo, leido : Nat, ped : Pedidos,
                            cod : {-1, 0}, cant : Int, size : 0..Mucho, i : Nat,
                            block_start : 0..FIN, copied : Nat, copiedMSG : 0..Grupo,
                            trunco : BOOLEAN]]
  /\ sock_Cli \in Montajes \cup {Nadie}
  /\ cadena \in 1..MaxBloques /\ tam \in 0..MaxBloques
  /\ sueltos \subseteq Montajes /\ retenido \in BOOLEAN
  /\ servidor \in {"vivo", "fuera"} /\ llamadas \in 0..MaxLlamadas

\* recv_socket returns one packet, all of it and nothing of the next, although its loop
\* goes by a packet->len that is the old one until the header is in (line 82).  The
\* exception: the old length is a request's when the first entry of a directory comes,
\* and if the header of that one comes in pieces bytes of the second are read with it.
UnPaquete ==
  /\ \A t \in Montajes : serv[t].pc # "desfasado"
  /\ \A h \in Hilos : hilo[h].pc = "desfasado" =>
       hilo[h].op = "lista" /\ hilo[h].faltan = 0 /\ Head(aCliente[De[h]]).offset > 1

\* What is on its way to a mount, or being answered, is the answer to the callback that
\* has mux_socket and is waiting for it: no answer outlives its callback, also when the
\* callback returns with an error.  So "MENSAJE ERRONEO" is not printed, but after a
\* readdir that has read bytes of its second packet with the first (UnPaquete), where the
\* mount is not followed.
RespuestaPropia ==
  \A m \in Montajes \ muertos :
    /\ \A p \in ToSet(aCliente[m]) : p.de = mux[m] /\ p.tipo = hilo[p.de].op /\ hilo[p.de].pc # "enviar"
    /\ servidor = "vivo" =>
         \A p \in ToSet(aServidor[m]) : p.de = mux[m] /\ p.tipo = hilo[p.de].op /\ aCliente[m] = <<>>
    /\ \A t \in Lectores(m) :
         serv[t].pc \in Atareado /\ servidor = "vivo"
         => serv[t].ped.de = mux[m] /\ aServidor[m] = <<>>

\* The server only falls in an answer of several packets to a mount that has been killed,
\* in a read or a write from beyond the end of a chain that is shorter than the size was
\* (another mount has cut it), in a write that such an end has caught half way, or in a
\* walk of osada_ftruncate to the last block that another one has caught there: no other
\* request, and no other death of a mount, takes it down.
CaeConCausa ==
  servidor = "fuera" =>
    \E t \in Montajes :
      \/ /\ serv[t].sock \in muertos \cap rotos
         /\ \/ serv[t].ped.tipo = "lista" /\ serv[t].i > 0
            \/ serv[t].ped.tipo = "leer" /\ serv[t].i >= Grupo
      \/ serv[t].pc \in {"leerPrimero", "escribirIr"} /\ serv[t].ped.offset > cadena
      \/ serv[t].pc = "escribirBloque" /\ serv[t].block_start = FIN /\ serv[t].copied < serv[t].size
      \/ serv[t].pc = "avanzar" /\ FIN \in Enlaces(t)

\* A chain that ended just when a packet had been sent: "Mas datos", and nothing more.
Cortado(m) == \E t \in Lectores(m) : serv[t].trunco

\* A mount whose thread read the socket of the next one, or that has two threads.
MalAtendido(m) == serv[m].pc \notin {"cola", "nuevo"} /\ Lectores(m) # {m}

\* A request that waits for the mux_osada that a write has kept (line 949).
Retenido(m) == retenido /\ \E t \in Lectores(m) : serv[t].pc \in {"mux", "enlazar", "nunca", "quitar"}

\* Every callback returns, and every mount starts: what may keep one waiting is a read cut
\* short at the end of a packet, an accept before the last thread has read its socket, the
\* packet of a directory that was not read as such, or mux_osada once a write that found no
\* block has returned with it.  Nothing else, the death of the other mount or of the server
\* included, leaves a callback in recv or mux_socket taken.
TodoVuelve ==
  []<>(\A h \in Hilos :
         \/ hilo[h].pc \in {"libre", "muerto"}
         \/ \E g \in Hilos : De[g] = De[h] /\ hilo[g].pc = "desfasado"
         \/ Cortado(De[h]) \/ MalAtendido(De[h]) \/ Retenido(De[h]))
=============================================================================
