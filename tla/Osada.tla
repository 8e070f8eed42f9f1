------------------------------- MODULE Osada -------------------------------
(***************************************************************************)
(* The OSADA server (src/pokeServidor/pokeServ.c): the file table, the     *)
(* bitmap and the FAT it keeps in memory, the copies it makes of them to   *)
(* the image, mux_osada, the rwlock of each entry, and one thread per      *)
(* client that serves its requests.  A client is one mount: its kernel     *)
(* and pokeCliente ask for one thing at a time.  It may be killed.         *)
(*                                                                         *)
(* Grain.  A walk over the table or over a FAT chain is one step, and so   *)
(* is the section of osada_mkdir under mux_osada, which waits for nothing. *)
(* Where the code takes mux_osada, finds a free block and marks it, the    *)
(* two halves are different steps.  The contents of the blocks are not     *)
(* represented.  The image is what the code leaves in it for one client    *)
(* only: with several, their copies share one pointer (Copiar).            *)
(* Operations that change nothing (getattr, readdir, read, statfs) appear  *)
(* where their answer matters.                                             *)
(***************************************************************************)
EXTENDS Integers, FiniteSets, FiniteSetsExt, SequencesExt

CONSTANTS
  Hilos,         \* the clients, and the server's thread for each
  Nadie,
  Rutas,         \* the paths each client uses: sequences of names, not the root's
  NumArchivos,   \* MAX_FILES
  NumBloques,    \* data_blocks
  TamBloque,     \* OSADA_BLOCK_SIZE
  MaxTam,        \* bound: largest file, in bytes
  Operaciones,   \* what the clients ask for
  MaxPedidos     \* bound: requests of all the clients

ASSUME SupuestoOsada ==
  /\ Nadie \notin Hilos
  /\ NumArchivos \in Nat \ {0} /\ NumBloques \in Nat \ {0} /\ TamBloque \in Nat \ {0}
  /\ MaxTam \in Nat /\ MaxPedidos \in Nat
  /\ DOMAIN Rutas = Hilos
  /\ \A h \in Hilos : \A ruta \in Rutas[h] : ruta \in Seq(ToSet(ruta)) \ {<<>>}

Entradas == 0..NumArchivos - 1
NoEsta   == NumArchivos          \* what is_parent returns when there is none
Raiz     == -1                   \* parent_directory 0xFFFF
Bloques  == 0..NumBloques - 1
FIN      == NumBloques           \* 0xFFFFFFFF

VARIABLES
  tabla,     \* file_table
  bitmap,    \* the data blocks whose bit is set
  fat,
  disco,     \* the image: its copies of the three
  mux,       \* the thread that holds mux_osada, or Nadie
  mux_files, \* the rwlocks: who writes, how many read
  loc,       \* each thread: where it is, and its locals
  abierto,   \* the file each client has open
  pedidos,
  servidor   \* "vivo", or "fuera": it has used 0xFFFFFFFF as the number of a block

estructuras == <<tabla, bitmap, fat>>
vars == <<tabla, bitmap, fat, disco, mux, mux_files, loc, abierto, pedidos, servidor>>

Cerrado == [ruta |-> <<>>, modo |-> 0]
Ocioso == [pc |-> "libre", ruta |-> <<>>, dest |-> <<>>, modo |-> 0, desde |-> 0, tam |-> 0,
           pos |-> NoEsta, wpos |-> NoEsta, padre |-> NoEsta, abm |-> 0, blk |-> FIN, ant |-> FIN,
           copias |-> <<>>, luego |-> "libre", vuelve |-> "libre", creado |-> "no"]

Init ==
  /\ tabla = [i \in Entradas |-> [estado |-> "DELETED", nombre |-> "", padre |-> 0,
                                  tam |-> 0, primero |-> 0]]
  /\ bitmap = {}
  /\ fat = [b \in Bloques |-> FIN]
  /\ disco = [tabla |-> tabla, bitmap |-> bitmap, fat |-> fat]
  /\ mux = Nadie
  /\ mux_files = [i \in Entradas |-> [escribe |-> Nadie, leen |-> 0]]
  /\ loc = [h \in Hilos |-> Ocioso]
  /\ abierto = [h \in Hilos |-> Cerrado]
  /\ pedidos = 0 /\ servidor = "vivo"

-----------------------------------------------------------------------------
(* The table and the FAT. *)

Primera(S) == IF S = {} THEN NoEsta ELSE Min(S)

\* It looks at deleted entries too.
is_parent(ruta) ==
  LET f[k \in 0..Len(ruta)] ==
        IF k = 0 THEN Raiz
        ELSE IF f[k - 1] = NoEsta THEN NoEsta
        ELSE Primera({i \in Entradas : tabla[i].nombre = ruta[k] /\ tabla[i].padre = f[k - 1]})
  IN f[Len(ruta)]

PadreDe(ruta) == is_parent(Front(ruta))

Buscar(n, p, estados) ==
  Primera({i \in Entradas : tabla[i].nombre = n /\ tabla[i].padre = p
                            /\ tabla[i].estado \in estados})

\* getattr
Estado(ruta) ==
  LET p == PadreDe(ruta)
      i == Buscar(Last(ruta), p, {"REGULAR", "DIRECTORY"})
  IN IF p = NoEsta \/ i = NoEsta THEN "ENOENT" ELSE tabla[i].estado

\* the lookup of each directory of a path that the kernel does first
Camino(ruta) == \A k \in 1..Len(ruta) - 1 : Estado(SubSeq(ruta, 1, k)) = "DIRECTORY"

\* free_bit_bitmap
BitLibre == LET L == Bloques \ bitmap IN IF L = {} THEN FIN ELSE Min(L)

\* block number k of a chain that starts in b
Bloque(b, k) ==
  LET f[j \in Nat] ==
        IF j = 0 THEN b ELSE IF f[j - 1] = FIN THEN FIN ELSE fat[f[j - 1]]
  IN f[k]

\* the position of the last block of the chain that starts in b
Ultimo(b) == {k \in 0..NumBloques - 1 : Bloque(b, k) # FIN /\ Bloque(b, k + 1) = FIN}

\* an empty file has one block
BloquesDe(tam) == IF tam = 0 THEN 1 ELSE (tam + TamBloque - 1) \div TamBloque

En(h, pc) == servidor = "vivo" /\ loc[h].pc = pc
Ir(h, pc) == loc' = [loc EXCEPT ![h].pc = pc]
Responder(h) == loc' = [loc EXCEPT ![h] = Ocioso]
Copiando(h, regiones, luego) ==
  loc' = [loc EXCEPT ![h].pc = "copiar", ![h].copias = regiones, ![h].luego = luego]

-----------------------------------------------------------------------------
(* The client: its kernel looks the path up with GETATTR and sends what    *)
(* makes sense; by the time it is served another client may have changed   *)
(* the answer.                                                             *)

Pide(h, op, mensaje) ==
  /\ op \in Operaciones
  /\ pedidos < MaxPedidos
  /\ pedidos' = pedidos + 1
  /\ loc' = [loc EXCEPT ![h] = [mensaje EXCEPT !.pc = op]]
  /\ UNCHANGED <<estructuras, disco, mux, mux_files, abierto, servidor>>

PedirNuevo(h) ==
  \E ruta \in Rutas[h], op \in {"create", "mkdir"} :
    /\ Camino(ruta) /\ Estado(ruta) = "ENOENT"
    /\ op = "create" => abierto[h] = Cerrado
    /\ Pide(h, op, [Ocioso EXCEPT !.ruta = ruta, !.modo = 2])

PedirRename(h) ==
  \E ruta, dest \in Rutas[h] :
    /\ Camino(ruta) /\ Estado(ruta) # "ENOENT" /\ Camino(dest)
    /\ ~IsPrefix(ruta, dest) /\ ~IsPrefix(dest, ruta)
    /\ Pide(h, "rename", [Ocioso EXCEPT !.ruta = ruta, !.dest = dest])

PedirRmdir(h) ==
  \E ruta \in Rutas[h] :
    /\ Camino(ruta) /\ Estado(ruta) = "DIRECTORY"
    /\ Pide(h, "rmdir", [Ocioso EXCEPT !.ruta = ruta])

PedirUnlink(h) ==
  \E ruta \in Rutas[h] :
    /\ Camino(ruta) /\ Estado(ruta) = "REGULAR"
    /\ Pide(h, "unlink", [Ocioso EXCEPT !.ruta = ruta])

PedirUtimens(h) ==
  \E ruta \in Rutas[h] :
    /\ Camino(ruta) /\ Estado(ruta) # "ENOENT"
    /\ Pide(h, "utimens", [Ocioso EXCEPT !.ruta = ruta])

PedirTruncate(h) ==
  \E ruta \in Rutas[h], tam \in 0..MaxTam :
    /\ Camino(ruta) /\ Estado(ruta) = "REGULAR"
    /\ Pide(h, "truncate", [Ocioso EXCEPT !.ruta = ruta, !.tam = tam])

PedirOpen(h) ==
  \E ruta \in Rutas[h], modo \in 0..2 :
    /\ Camino(ruta) /\ Estado(ruta) = "REGULAR" /\ abierto[h] = Cerrado
    /\ Pide(h, "open", [Ocioso EXCEPT !.ruta = ruta, !.modo = modo])

PedirWrite(h) ==
  \E desde \in 0..MaxTam - 1 : \E tam \in desde + 1..MaxTam :
    /\ abierto[h].modo > 0
    /\ Pide(h, "write", [Ocioso EXCEPT !.ruta = abierto[h].ruta, !.desde = desde, !.tam = tam])

PedirRelease(h) ==
  /\ abierto[h] # Cerrado
  /\ Pide(h, "release", [Ocioso EXCEPT !.ruta = abierto[h].ruta])

Pedir(h) ==
  /\ En(h, "libre")
  /\ \/ PedirNuevo(h) \/ PedirRename(h) \/ PedirRmdir(h) \/ PedirUnlink(h)
     \/ PedirUtimens(h) \/ PedirTruncate(h) \/ PedirOpen(h) \/ PedirWrite(h) \/ PedirRelease(h)

\* The mount is killed, with nothing under way or between create and open: its thread
\* ends, and what it had open stays as it was.  What is under way the server does to the
\* end all the same.
Morir(h) ==
  /\ "morir" \in Operaciones
  /\ En(h, "libre") \/ (En(h, "open") /\ loc[h].creado # "no")
  /\ loc' = [loc EXCEPT ![h] = [Ocioso EXCEPT !.pc = "muerto"]]
  /\ UNCHANGED <<estructuras, disco, mux, mux_files, abierto, pedidos, servidor>>

-----------------------------------------------------------------------------
\* memcpy of a structure to the image, block by block through dirBlock.  dirBlock is one
\* variable of all the threads (line 22): the copies that two of them make at the same
\* time may land anywhere, which is not represented, so nothing is said of the image
\* with more than one client.
Copiar(h) ==
  /\ En(h, "copiar")
  /\ disco' = [disco EXCEPT ![Head(loc[h].copias)] =
                 [tabla |-> tabla, bitmap |-> bitmap, fat |-> fat][Head(loc[h].copias)]]
  /\ LET luego == loc[h].luego IN
       IF Len(loc[h].copias) > 1 THEN loc' = [loc EXCEPT ![h].copias = Tail(@)]
       ELSE IF luego = "libre" THEN Responder(h)
       ELSE loc' = [loc EXCEPT ![h].copias = <<>>, ![h].pc = luego, ![h].luego = "libre"]
  /\ UNCHANGED <<estructuras, mux, mux_files, abierto, pedidos, servidor>>

-----------------------------------------------------------------------------
(* osada_mkdir and osada_create. *)

\* the entry a new file or directory takes
Alta(h, i, tipo, primero) ==
  tabla' = [tabla EXCEPT ![i] = [estado |-> tipo, nombre |-> Last(loc[h].ruta),
                                 padre |-> loc[h].padre, tam |-> 0, primero |-> primero]]

Mkdir(h) ==
  /\ En(h, "mkdir")
  /\ LET p == PadreDe(loc[h].ruta) IN
       IF p = NoEsta THEN Responder(h)
       ELSE loc' = [loc EXCEPT ![h].pc = "mkdirMux", ![h].padre = p]
  /\ UNCHANGED <<estructuras, disco, mux, mux_files, abierto, pedidos, servidor>>

MkdirMux(h) ==
  /\ En(h, "mkdirMux") /\ mux = Nadie
  /\ LET libre == Primera({i \in Entradas : tabla[i].estado = "DELETED"})
     IN IF libre = NoEsta \/ Buscar(Last(loc[h].ruta), loc[h].padre, {"DIRECTORY"}) # NoEsta
          THEN Responder(h) /\ UNCHANGED tabla
          ELSE /\ Alta(h, libre, "DIRECTORY", FIN)
               /\ Copiando(h, <<"tabla">>, "libre")
  /\ UNCHANGED <<bitmap, fat, disco, mux, mux_files, abierto, pedidos, servidor>>

\* pokeCliente goes on to open the file, whatever create has answered.
CreateResponde(h, creado) ==
  loc' = [loc EXCEPT ![h] = [Ocioso EXCEPT !.pc = "open", !.ruta = loc[h].ruta,
                                           !.modo = loc[h].modo, !.creado = creado]]

Create(h) ==
  /\ En(h, "create")
  /\ LET p == PadreDe(loc[h].ruta) IN
       IF p = NoEsta THEN CreateResponde(h, "fallo")
       ELSE loc' = [loc EXCEPT ![h].pc = "createMux", ![h].padre = p]
  /\ UNCHANGED <<estructuras, disco, mux, mux_files, abierto, pedidos, servidor>>

\* Wrong on purpose: without the sem_wait
CreateSinMux(h) ==
  /\ En(h, "createMux")
  /\ LET libre == Primera({i \in Entradas : tabla[i].estado = "DELETED"})
     IN IF \/ libre = NoEsta
           \/ Buscar(Last(loc[h].ruta), loc[h].padre, {"REGULAR"}) # NoEsta
           \/ BitLibre = FIN
          THEN CreateResponde(h, "fallo")
          ELSE loc' = [loc EXCEPT ![h].pc = "createAlta", ![h].pos = libre, ![h].blk = BitLibre]
  /\ UNCHANGED <<estructuras, disco, mux, mux_files, abierto, pedidos, servidor>>

\* the searches, with mux_osada taken, for an entry and a block
CreateMux(h) ==
  /\ En(h, "createMux") /\ mux = Nadie
  /\ LET libre == Primera({i \in Entradas : tabla[i].estado = "DELETED"})
     IN IF \/ libre = NoEsta
           \/ Buscar(Last(loc[h].ruta), loc[h].padre, {"REGULAR"}) # NoEsta
           \/ BitLibre = FIN
          THEN CreateResponde(h, "fallo") /\ UNCHANGED mux
          ELSE /\ mux' = h
               /\ loc' = [loc EXCEPT ![h].pc = "createAlta", ![h].pos = libre, ![h].blk = BitLibre]
  /\ UNCHANGED <<estructuras, disco, mux_files, abierto, pedidos, servidor>>

CreateAlta(h) ==
  /\ En(h, "createAlta")
  /\ Alta(h, loc[h].pos, "REGULAR", loc[h].blk)
  /\ bitmap' = bitmap \cup {loc[h].blk}
  /\ fat' = [fat EXCEPT ![loc[h].blk] = FIN]
  /\ Copiando(h, <<"bitmap", "tabla", "fat">>, "createFin")
  /\ UNCHANGED <<disco, mux, mux_files, abierto, pedidos, servidor>>

CreateFin(h) ==
  /\ En(h, "createFin")
  /\ mux' = Nadie
  /\ CreateResponde(h, "si")
  /\ UNCHANGED <<estructuras, disco, mux_files, abierto, pedidos, servidor>>

-----------------------------------------------------------------------------
(* osada_rmdir and osada_rename: no mutex. *)

Rmdir(h) ==
  /\ En(h, "rmdir")
  /\ LET p == PadreDe(loc[h].ruta)
         i == Buscar(Last(loc[h].ruta), p, {"DIRECTORY"})
     IN IF \/ p = NoEsta \/ i = NoEsta
           \/ \E j \in Entradas : tabla[j].padre = i /\ tabla[j].estado # "DELETED"
          THEN Responder(h)
          ELSE loc' = [loc EXCEPT ![h].pc = "rmdirBaja", ![h].pos = i]
  /\ UNCHANGED <<estructuras, disco, mux, mux_files, abierto, pedidos, servidor>>

RmdirBaja(h) ==
  /\ En(h, "rmdirBaja")
  /\ tabla' = [tabla EXCEPT ![loc[h].pos].estado = "DELETED"]
  /\ Copiando(h, <<"tabla">>, "libre")
  /\ UNCHANGED <<bitmap, fat, disco, mux, mux_files, abierto, pedidos, servidor>>

Vigente(i) == i # NoEsta /\ tabla[i].estado # "DELETED"

\* Wrong on purpose: nobody looks for the new name
RenameSinValidar(h) ==
  /\ En(h, "rename")
  /\ LET de == is_parent(loc[h].ruta)
         a == PadreDe(loc[h].dest)
     IN IF ~Vigente(de) \/ (a # Raiz /\ ~Vigente(a)) THEN Responder(h)
        ELSE loc' = [loc EXCEPT ![h].pc = "renameAlta", ![h].pos = de, ![h].padre = a]
  /\ UNCHANGED <<estructuras, disco, mux, mux_files, abierto, pedidos, servidor>>

Rename(h) ==
  /\ En(h, "rename")
  /\ LET de == is_parent(loc[h].ruta)
         a == PadreDe(loc[h].dest)
     IN IF \/ ~Vigente(de)
           \/ a # Raiz /\ ~Vigente(a)
           \/ Buscar(Last(loc[h].dest), a, {"REGULAR", "DIRECTORY"}) # NoEsta
          THEN Responder(h)
          ELSE loc' = [loc EXCEPT ![h].pc = "renameAlta", ![h].pos = de, ![h].padre = a]
  /\ UNCHANGED <<estructuras, disco, mux, mux_files, abierto, pedidos, servidor>>

SinCandado(i) == mux_files[i] = [escribe |-> Nadie, leen |-> 0]

\* trywrlock, the change and unlock.  The path of what the client has open follows
\* the directory it is in.
RenameAlta(h) ==
  /\ En(h, "renameAlta")
  /\ LET i == loc[h].pos IN
       IF ~SinCandado(i) THEN Responder(h) /\ UNCHANGED <<tabla, abierto>>
       ELSE /\ tabla' = [tabla EXCEPT ![i].nombre = Last(loc[h].dest), ![i].padre = loc[h].padre]
            /\ abierto' = [abierto EXCEPT ![h].ruta =
                 IF abierto[h] # Cerrado /\ IsPrefix(loc[h].ruta, @)
                   THEN loc[h].dest \o SubSeq(@, Len(loc[h].ruta) + 1, Len(@)) ELSE @]
            /\ Copiando(h, <<"tabla">>, "libre")
  /\ UNCHANGED <<bitmap, fat, disco, mux, mux_files, pedidos, servidor>>

\* osada_utimens; the times themselves are not represented
Utimens(h) ==
  /\ En(h, "utimens")
  /\ IF Vigente(is_parent(loc[h].ruta)) THEN Copiando(h, <<"tabla">>, "libre") ELSE Responder(h)
  /\ UNCHANGED <<estructuras, disco, mux, mux_files, abierto, pedidos, servidor>>

-----------------------------------------------------------------------------
(* osada_unlink. *)

Unlink(h) ==
  /\ En(h, "unlink")
  /\ LET i == is_parent(loc[h].ruta) IN
       IF ~Vigente(i) THEN Responder(h)
       ELSE loc' = [loc EXCEPT ![h].pc = "unlinkBaja", ![h].pos = i]
  /\ UNCHANGED <<estructuras, disco, mux, mux_files, abierto, pedidos, servidor>>

UnlinkBaja(h) ==
  /\ En(h, "unlinkBaja")
  /\ IF ~SinCandado(loc[h].pos) THEN Responder(h) /\ UNCHANGED tabla
     ELSE /\ tabla' = [tabla EXCEPT ![loc[h].pos].estado = "DELETED"]
          /\ Ir(h, "unlinkPrimero")
  /\ UNCHANGED <<bitmap, fat, disco, mux, mux_files, abierto, pedidos, servidor>>

\* blocks = b: on to the next clean_bitmap, or to the copies
UnlinkSigue(h, b) ==
  loc' = [loc EXCEPT ![h].blk = b,
                     ![h].pc = IF b = FIN THEN "copiar" ELSE "unlinkLimpiar",
                     ![h].copias = IF b = FIN THEN <<"bitmap", "tabla">> ELSE <<>>]

UnlinkPrimero(h) ==
  /\ En(h, "unlinkPrimero")
  /\ UnlinkSigue(h, tabla[loc[h].pos].primero)
  /\ UNCHANGED <<estructuras, disco, mux, mux_files, abierto, pedidos, servidor>>

UnlinkLimpiar(h) ==
  /\ En(h, "unlinkLimpiar") /\ mux = Nadie
  /\ bitmap' = bitmap \ {loc[h].blk}
  /\ Ir(h, "unlinkSeguir")
  /\ UNCHANGED <<tabla, fat, disco, mux, mux_files, abierto, pedidos, servidor>>

\* Wrong on purpose: only the first block is given back
UnlinkSoloPrimero(h) ==
  /\ En(h, "unlinkSeguir")
  /\ UnlinkSigue(h, FIN)
  /\ UNCHANGED <<estructuras, disco, mux, mux_files, abierto, pedidos, servidor>>

UnlinkSeguir(h) ==
  /\ En(h, "unlinkSeguir")
  /\ UnlinkSigue(h, fat[loc[h].blk])
  /\ UNCHANGED <<estructuras, disco, mux, mux_files, abierto, pedidos, servidor>>

-----------------------------------------------------------------------------
(* osada_open and osada_release. *)

\* The answer to open.  The kernel has the file open if open says so, or if create did.
OpenResponde(h, ok) ==
  /\ Responder(h)
  /\ abierto' = IF loc[h].creado = "si" \/ (loc[h].creado = "no" /\ ok)
                  THEN [abierto EXCEPT ![h] = [ruta |-> loc[h].ruta, modo |-> loc[h].modo]]
                  ELSE abierto

RegularEn(ruta) ==
  LET p == PadreDe(ruta) IN IF p = NoEsta THEN NoEsta ELSE Buscar(Last(ruta), p, {"REGULAR"})

Open(h) ==
  /\ En(h, "open")
  /\ LET i == RegularEn(loc[h].ruta) IN
       IF i = NoEsta THEN OpenResponde(h, FALSE)
       ELSE loc' = [loc EXCEPT ![h].pc = "openTomar", ![h].pos = i] /\ UNCHANGED abierto
  /\ UNCHANGED <<estructuras, disco, mux, mux_files, pedidos, servidor>>

\* tryrdlock, or trywrlock and then osada_ftruncate to 0 when flags say so
OpenTomar(h) ==
  /\ En(h, "openTomar")
  /\ LET i == loc[h].pos IN
       \/ /\ loc[h].modo = 0 /\ mux_files[i].escribe = Nadie
          /\ mux_files' = [mux_files EXCEPT ![i].leen = @ + 1]
          /\ OpenResponde(h, TRUE)
       \/ /\ loc[h].modo > 0 /\ SinCandado(i)
          /\ mux_files' = [mux_files EXCEPT ![i].escribe = h]
          /\ IF loc[h].modo = 2
               THEN /\ loc' = [loc EXCEPT ![h].pc = "truncate", ![h].vuelve = "open"]
                    /\ UNCHANGED abierto
               ELSE OpenResponde(h, TRUE)
       \/ /\ IF loc[h].modo = 0 THEN mux_files[i].escribe # Nadie ELSE ~SinCandado(i)
          /\ OpenResponde(h, FALSE)
          /\ UNCHANGED mux_files
  /\ UNCHANGED <<estructuras, disco, mux, pedidos, servidor>>

Release(h) ==
  /\ En(h, "release")
  /\ LET i == RegularEn(loc[h].ruta) IN
       IF i = NoEsta THEN Responder(h) /\ abierto' = [abierto EXCEPT ![h] = Cerrado]
       ELSE loc' = [loc EXCEPT ![h].pc = "releaseSoltar", ![h].pos = i] /\ UNCHANGED abierto
  /\ UNCHANGED <<estructuras, disco, mux, mux_files, pedidos, servidor>>

\* Wrong on purpose: what is released is always a reader's
SoltarLector(h, i) == mux_files' = [mux_files EXCEPT ![i].leen = @ - 1]

\* Wrong on purpose: a reader that leaves releases nothing
SoltarEscritor(h, i) ==
  mux_files' = IF mux_files[i].escribe = h THEN [mux_files EXCEPT ![i].escribe = Nadie]
               ELSE mux_files

\* pthread_rwlock_unlock; of a lock the thread does not hold it is undefined: it may
\* do nothing or take another's away
Soltar(h, i) ==
  mux_files' \in
    IF mux_files[i].escribe = h THEN {[mux_files EXCEPT ![i].escribe = Nadie]}
    ELSE IF mux_files[i].leen > 0 THEN {[mux_files EXCEPT ![i].leen = @ - 1]}
    ELSE {mux_files, [mux_files EXCEPT ![i].escribe = Nadie]}

ReleaseSoltar(h) ==
  /\ En(h, "releaseSoltar")
  /\ Soltar(h, loc[h].pos)
  /\ Responder(h)
  /\ abierto' = [abierto EXCEPT ![h] = Cerrado]
  /\ UNCHANGED <<estructuras, disco, mux, pedidos, servidor>>

-----------------------------------------------------------------------------
(* osada_ftruncate, for truncate, open and write. *)

\* its return: loc.vuelve is who called it
Vuelve(h, ok) ==
  CASE loc[h].vuelve = "open" -> OpenResponde(h, ok)
    [] loc[h].vuelve = "write" /\ ok -> Ir(h, "writeIr") /\ UNCHANGED abierto
    [] OTHER -> Responder(h) /\ UNCHANGED abierto

\* Wrong on purpose: nobody counts the free blocks first
TruncateSinContar(h) ==
  /\ En(h, "truncate")
  /\ LET i == is_parent(loc[h].ruta) IN
       IF ~Vigente(i) THEN Vuelve(h, FALSE)
       ELSE IF loc[h].tam = tabla[i].tam THEN Vuelve(h, TRUE)
       ELSE /\ loc' = [loc EXCEPT ![h].pc = "cola", ![h].pos = i,
                                  ![h].abm = BloquesDe(loc[h].tam) - BloquesDe(tabla[i].tam)]
            /\ UNCHANGED abierto
  /\ UNCHANGED <<estructuras, disco, mux, mux_files, pedidos, servidor>>

Truncate(h) ==
  /\ En(h, "truncate")
  /\ LET i == is_parent(loc[h].ruta)
         abm == BloquesDe(loc[h].tam) - BloquesDe(tabla[i].tam)
     IN IF ~Vigente(i) THEN Vuelve(h, FALSE)
        ELSE IF loc[h].tam = tabla[i].tam THEN Vuelve(h, TRUE)
        ELSE IF abm > Cardinality(Bloques \ bitmap) THEN Vuelve(h, FALSE)
        ELSE /\ loc' = [loc EXCEPT ![h].pc = "cola", ![h].pos = i, ![h].abm = abm]
             /\ UNCHANGED abierto
  /\ UNCHANGED <<estructuras, disco, mux, mux_files, pedidos, servidor>>

\* each turn of the two loops: the walk to the last block of the chain
Cola(h) ==
  /\ En(h, "cola") /\ loc[h].abm # 0
  /\ LET b == tabla[loc[h].pos].primero IN
       IF b = FIN THEN servidor' = "fuera" /\ UNCHANGED loc
       ELSE \E k \in Ultimo(b) :
              /\ UNCHANGED servidor
              /\ loc' = [loc EXCEPT
                   ![h].blk = Bloque(b, k),
                   ![h].ant = IF k = 0 THEN FIN ELSE Bloque(b, k - 1),
                   ![h].abm = IF @ < 0 /\ k = 0 THEN @ + 1 ELSE @,
                   ![h].pc = IF loc[h].abm > 0 THEN "pedir"
                             ELSE IF k > 0 THEN "limpiar" ELSE "cola"]
  /\ UNCHANGED <<estructuras, disco, mux, mux_files, abierto, pedidos>>

\* Wrong on purpose: the block is looked for without mux_osada
PedirSinMux(h) ==
  /\ En(h, "pedir")
  /\ IF BitLibre = FIN THEN Vuelve(h, FALSE)
     ELSE /\ loc' = [loc EXCEPT ![h].pc = "marcar", ![h].ant = loc[h].blk, ![h].blk = BitLibre]
          /\ UNCHANGED abierto
  /\ UNCHANGED <<estructuras, disco, mux, mux_files, pedidos, servidor>>

\* Wrong on purpose: without a free block it answers that all is well
PedirSinError(h) ==
  /\ En(h, "pedir") /\ mux = Nadie
  /\ IF BitLibre = FIN THEN Vuelve(h, TRUE) /\ UNCHANGED mux
     ELSE /\ mux' = h
          /\ loc' = [loc EXCEPT ![h].pc = "marcar", ![h].ant = loc[h].blk, ![h].blk = BitLibre]
          /\ UNCHANGED abierto
  /\ UNCHANGED <<estructuras, disco, mux_files, pedidos, servidor>>

PedirBloque(h) ==
  /\ En(h, "pedir") /\ mux = Nadie
  /\ IF BitLibre = FIN THEN Vuelve(h, FALSE) /\ UNCHANGED mux
     ELSE /\ mux' = h
          /\ loc' = [loc EXCEPT ![h].pc = "marcar", ![h].ant = loc[h].blk, ![h].blk = BitLibre]
          /\ UNCHANGED abierto
  /\ UNCHANGED <<estructuras, disco, mux_files, pedidos, servidor>>

\* Wrong on purpose: without the sem_post
MarcarSinPost(h) ==
  /\ En(h, "marcar")
  /\ bitmap' = bitmap \cup {loc[h].blk}
  /\ Ir(h, "enlazar")
  /\ UNCHANGED <<tabla, fat, disco, mux, mux_files, abierto, pedidos, servidor>>

Marcar(h) ==
  /\ En(h, "marcar")
  /\ bitmap' = bitmap \cup {loc[h].blk}
  /\ mux' = Nadie
  /\ Ir(h, "enlazar")
  /\ UNCHANGED <<tabla, fat, disco, mux_files, abierto, pedidos, servidor>>

\* The two writes in fat_osada.  Until the second, what was the end links to a block
\* whose own link is the one it had when it was last freed.
Enlazar(h) ==
  /\ En(h, "enlazar")
  /\ fat' = [fat EXCEPT ![loc[h].ant] = loc[h].blk]
  /\ loc' = [loc EXCEPT ![h].pc = "terminar", ![h].luego = "cola", ![h].abm = @ - 1]
  /\ UNCHANGED <<tabla, bitmap, disco, mux, mux_files, abierto, pedidos, servidor>>

\* Wrong on purpose: the new block keeps its old link
TerminarSinFin(h) ==
  /\ En(h, "terminar")
  /\ loc' = [loc EXCEPT ![h].pc = "copiar", ![h].copias = <<"bitmap", "fat">>]
  /\ UNCHANGED <<estructuras, disco, mux, mux_files, abierto, pedidos, servidor>>

Terminar(h) ==
  /\ En(h, "terminar")
  /\ fat' = [fat EXCEPT ![loc[h].blk] = FIN]
  /\ loc' = [loc EXCEPT ![h].pc = "copiar", ![h].copias = <<"bitmap", "fat">>]
  /\ UNCHANGED <<tabla, bitmap, disco, mux, mux_files, abierto, pedidos, servidor>>

Limpiar(h) ==
  /\ En(h, "limpiar") /\ mux = Nadie
  /\ bitmap' = bitmap \ {loc[h].blk}
  /\ Ir(h, "cortar")
  /\ UNCHANGED <<tabla, fat, disco, mux, mux_files, abierto, pedidos, servidor>>

Cortar(h) ==
  /\ En(h, "cortar")
  /\ fat' = [fat EXCEPT ![loc[h].ant] = FIN]
  /\ loc' = [loc EXCEPT ![h].pc = "copiar", ![h].copias = <<"bitmap", "fat">>,
                        ![h].luego = "cola", ![h].abm = @ + 1]
  /\ UNCHANGED <<tabla, bitmap, disco, mux, mux_files, abierto, pedidos, servidor>>

\* Wrong on purpose: the new size is not copied to the image
TamanioSinCopia(h) ==
  /\ En(h, "cola") /\ loc[h].abm = 0
  /\ tabla' = [tabla EXCEPT ![loc[h].pos].tam = loc[h].tam]
  /\ Ir(h, "truncado")
  /\ UNCHANGED <<bitmap, fat, disco, mux, mux_files, abierto, pedidos, servidor>>

Tamanio(h) ==
  /\ En(h, "cola") /\ loc[h].abm = 0
  /\ tabla' = [tabla EXCEPT ![loc[h].pos].tam = loc[h].tam]
  /\ Copiando(h, <<"tabla">>, "truncado")
  /\ UNCHANGED <<bitmap, fat, disco, mux, mux_files, abierto, pedidos, servidor>>

Truncado(h) ==
  /\ En(h, "truncado")
  /\ Vuelve(h, TRUE)
  /\ UNCHANGED <<estructuras, disco, mux, mux_files, pedidos, servidor>>

-----------------------------------------------------------------------------
(* osada_write, from byte loc.desde to byte loc.tam.  The link that a turn *)
(* tests and the link that it follows are one reading of the FAT here, and *)
(* two in the code (lines 940 and 964); so are those of Cola (1044 and     *)
(* 1045, 1082 and 1084).                                                   *)

Write(h) ==
  /\ En(h, "write")
  /\ LET i == is_parent(loc[h].ruta) IN
       IF ~Vigente(i) THEN Responder(h)
       ELSE IF tabla[i].tam < loc[h].tam
         THEN loc' = [loc EXCEPT ![h].pc = "truncate", ![h].wpos = i, ![h].vuelve = "write"]
         ELSE loc' = [loc EXCEPT ![h].pc = "writeIr", ![h].wpos = i]
  /\ UNCHANGED <<estructuras, disco, mux, mux_files, abierto, pedidos, servidor>>

\* the walk to the first block; abm counts those that follow
WriteIr(h) ==
  /\ En(h, "writeIr")
  /\ LET primero == loc[h].desde \div TamBloque
         ultimo == (loc[h].tam - 1) \div TamBloque
         b == Bloque(tabla[loc[h].wpos].primero, primero)
     IN IF b = FIN THEN servidor' = "fuera" /\ UNCHANGED loc
        ELSE /\ loc' = [loc EXCEPT ![h].pc = "escribir", ![h].blk = b, ![h].abm = ultimo - primero]
             /\ UNCHANGED servidor
  /\ UNCHANGED <<estructuras, disco, mux, mux_files, abierto, pedidos>>

\* a block is written: on to the next one.  A chain that ends too soon leads to
\* the branch where one should never be (lines 940 to 964)
Escribir(h) ==
  /\ En(h, "escribir")
  /\ IF loc[h].abm = 0 THEN Responder(h)
     ELSE IF fat[loc[h].blk] = FIN THEN Ir(h, "nunca")
     ELSE loc' = [loc EXCEPT ![h].blk = fat[@], ![h].abm = @ - 1]
  /\ UNCHANGED <<estructuras, disco, mux, mux_files, abierto, pedidos, servidor>>

\* without a free block it returns with mux_osada taken
NuncaPedir(h) ==
  /\ En(h, "nunca") /\ mux = Nadie
  /\ mux' = h
  /\ IF BitLibre = FIN
       THEN Responder(h) /\ Soltar(h, loc[h].wpos)
       ELSE /\ loc' = [loc EXCEPT ![h].pc = "nuncaMarcar", ![h].ant = loc[h].blk, ![h].blk = BitLibre]
            /\ UNCHANGED mux_files
  /\ UNCHANGED <<estructuras, disco, abierto, pedidos, servidor>>

NuncaMarcar(h) ==
  /\ En(h, "nuncaMarcar")
  /\ bitmap' = bitmap \cup {loc[h].blk}
  /\ mux' = Nadie
  /\ Ir(h, "nuncaEnlazar")
  /\ UNCHANGED <<tabla, fat, disco, mux_files, abierto, pedidos, servidor>>

NuncaEnlazar(h) ==
  /\ En(h, "nuncaEnlazar")
  /\ fat' = [fat EXCEPT ![loc[h].ant] = loc[h].blk]
  /\ loc' = [loc EXCEPT ![h].pc = "terminar", ![h].luego = "nuncaSeguir"]
  /\ UNCHANGED <<tabla, bitmap, disco, mux, mux_files, abierto, pedidos, servidor>>

\* it reads again the link it has written, which another client may have cut
NuncaSeguir(h) ==
  /\ En(h, "nuncaSeguir")
  /\ IF fat[loc[h].ant] = FIN THEN servidor' = "fuera" /\ UNCHANGED loc
     ELSE /\ loc' = [loc EXCEPT ![h].pc = "escribir", ![h].blk = fat[loc[h].ant], ![h].abm = @ - 1]
          /\ UNCHANGED servidor
  /\ UNCHANGED <<estructuras, disco, mux, mux_files, abierto, pedidos>>

-----------------------------------------------------------------------------
Hilo(h) ==
  \/ Copiar(h) \/ Mkdir(h) \/ MkdirMux(h) \/ Create(h) \/ CreateMux(h) \/ CreateAlta(h)
  \/ CreateFin(h) \/ Rmdir(h) \/ RmdirBaja(h) \/ Rename(h) \/ RenameAlta(h)
  \/ Utimens(h) \/ Unlink(h) \/ UnlinkBaja(h) \/ UnlinkPrimero(h) \/ UnlinkLimpiar(h) \/ UnlinkSeguir(h)
  \/ Open(h) \/ OpenTomar(h) \/ Release(h) \/ ReleaseSoltar(h)
  \/ Truncate(h) \/ Cola(h) \/ PedirBloque(h) \/ Marcar(h) \/ Enlazar(h) \/ Terminar(h)
  \/ Limpiar(h) \/ Cortar(h) \/ Tamanio(h) \/ Truncado(h)
  \/ Write(h) \/ WriteIr(h) \/ Escribir(h) \/ NuncaPedir(h) \/ NuncaMarcar(h) \/ NuncaEnlazar(h)
  \/ NuncaSeguir(h)

Next == \E h \in Hilos : Pedir(h) \/ Hilo(h) \/ Morir(h)

Spec == Init /\ [][Next]_vars

\* The server's threads run.  Nothing makes a client ask, or die.
FairSpec == Spec /\ \A h \in Hilos : WF_vars(Hilo(h))

-----------------------------------------------------------------------------
Pasos == {"libre", "muerto", "utimens", "copiar", "mkdir", "mkdirMux", "create", "createMux", "createAlta",
          "createFin", "rmdir", "rmdirBaja", "rename", "renameAlta", "unlink", "unlinkBaja",
          "unlinkPrimero", "unlinkLimpiar", "unlinkSeguir", "open", "openTomar", "release",
          "releaseSoltar", "truncate", "cola", "pedir", "marcar", "enlazar", "terminar",
          "limpiar", "cortar", "truncado", "write", "writeIr", "escribir", "nunca", "nuncaMarcar",
          "nuncaEnlazar", "nuncaSeguir"}
Nombres == UNION {ToSet(ruta) : ruta \in UNION {Rutas[h] : h \in Hilos}}
Tablas == [Entradas -> [estado : {"DELETED", "REGULAR", "DIRECTORY"}, nombre : Nombres \cup {""},
                        padre : Entradas \cup {Raiz}, tam : 0..MaxTam, primero : Bloques \cup {FIN}]]
Fats == [Bloques -> Bloques \cup {FIN}]
Locales == [pc : Pasos, ruta : Seq(Nombres), dest : Seq(Nombres), modo : 0..2,
            desde : 0..MaxTam, tam : 0..MaxTam, pos : 0..NoEsta, wpos : 0..NoEsta,
            padre : Entradas \cup {Raiz, NoEsta}, abm : Int,
            blk : Bloques \cup {FIN}, ant : Bloques \cup {FIN},
            copias : Seq({"bitmap", "tabla", "fat"}), luego : Pasos,
            vuelve : {"libre", "open", "write"}, creado : {"no", "si", "fallo"}]

\* The values of the structures of the server and of the locals of its threads.
TypeOK ==
  /\ tabla \in Tablas /\ bitmap \subseteq Bloques /\ fat \in Fats
  /\ disco \in [tabla : Tablas, bitmap : SUBSET Bloques, fat : Fats]
  /\ mux \in Hilos \cup {Nadie}
  /\ mux_files \in [Entradas -> [escribe : Hilos \cup {Nadie}, leen : Nat]]
  /\ loc \in [Hilos -> Locales]
  /\ abierto \in [Hilos -> [ruta : Seq(Nombres), modo : 0..2]]
  /\ pedidos \in 0..MaxPedidos /\ servidor \in {"vivo", "fuera"}

EnPaz(h) == loc[h].pc \in {"libre", "muerto"}
Reposo == \A h \in Hilos : EnPaz(h)
Archivos == {i \in Entradas : tabla[i].estado = "REGULAR"}
Cadena(i) == {Bloque(tabla[i].primero, k) : k \in 0..NumBloques} \ {FIN}

\* The bitmap, the table and the FAT agree when no request is being served: each
\* file's chain ends, no block is in two of them, and the blocks taken are those of
\* the files (create, ftruncate, unlink, write).
Fsck ==
  Reposo =>
    /\ bitmap = UNION {Cadena(i) : i \in Archivos}
    /\ \A i, j \in Archivos : i # j => Cadena(i) \cap Cadena(j) = {}
    /\ \A i \in Archivos : Ultimo(tabla[i].primero) # {}

\* What check_state looks for (lines 1636 to 1663): a file has the blocks its size
\* asks for, after any sequence of requests, those that failed included.
CheckState ==
  Reposo => \A i \in Archivos : Cardinality(Cadena(i)) = BloquesDe(tabla[i].tam)

\* A walk along f comes to an end or to a block of salvo: no set of blocks is closed
\* under f.
Terminan(f, salvo) == \A S \in SUBSET Bloques : S # {} => \E b \in S : f[b] \notin S \/ b \in salvo

\* Of a server of one client.  Nothing is lost if it is stopped while it serves nobody:
\* the image has the table, the bitmap and the FAT of every block in use.  And if it is
\* killed in the middle of a request, no walk of the one that is started next goes round
\* for ever: a chain is copied only when its new end has been written.
ImagenAlDia ==
  Reposo =>
    /\ disco.tabla = tabla /\ disco.bitmap = bitmap
    /\ \A b \in bitmap : disco.fat[b] = fat[b]
ImagenSinCiclos == Terminan(disco.fat, {})
Imagen == ImagenAlDia /\ ImagenSinCiclos

\* No directory has two files or directories of the same name.
NombresUnicos ==
  \A i, j \in Entradas :
    /\ tabla[i].estado # "DELETED" /\ tabla[j].estado # "DELETED"
    /\ tabla[i].nombre = tabla[j].nombre /\ tabla[i].padre = tabla[j].padre
    => i = j

\* osada_write never finds the end of a chain that ftruncate has just made long
\* enough, as the comment of line 942 says.
NuncaSinBloque == \A h \in Hilos : loc[h].pc # "nunca"

\* Who finds a block free marks it before anybody else finds it: set_bitmap never
\* meets a bit that is set (its message at line 1221), whatever the clients ask for.
Reservando(h) == loc[h].pc \in {"createAlta", "marcar", "nuncaMarcar"}
Reservas ==
  \A h \in Hilos : Reservando(h) =>
    /\ loc[h].blk \notin bitmap
    /\ \A g \in Hilos \ {h} : Reservando(g) => loc[g].blk # loc[h].blk

\* The blocks a thread has linked, and has yet to end the chain at.
EnObra == {loc[h].blk : h \in {g \in Hilos : loc[g].pc = "terminar"}}

\* No walk along a chain goes round for ever (lines 69, 1044, 1082 and 1165), whatever
\* the clients do to the same file: fat_osada has no cycle, but through a block that is
\* being linked.
SinCiclos == Terminan(fat, EnObra)

\* Every file or directory is in the root or in another entry, of a directory that
\* exists: the comments of lines 387 and 466 say that the path is validated.
PadreVivo ==
  \A i \in Entradas : tabla[i].estado # "DELETED" =>
    \/ tabla[i].padre = Raiz
    \/ tabla[i].padre # i /\ tabla[tabla[i].padre].estado = "DIRECTORY"

\* When nobody is being served the rwlocks are those of the files that the clients
\* have open, or had when they were killed, and no other.
CandadosJustos ==
  Reposo => \A i \in Entradas :
    LET con == {h \in Hilos : abierto[h] # Cerrado /\ RegularEn(abierto[h].ruta) = i} IN
    /\ mux_files[i].leen = Cardinality({h \in con : abierto[h].modo = 0})
    /\ {h \in Hilos : mux_files[i].escribe = h} = {h \in con : abierto[h].modo > 0}

\* Every request is answered, also when another client has been killed with a file open:
\* no thread waits for mux_osada or for a rwlock for ever, no loop goes on for ever and the
\* server does not fall (it stops when it is "fuera").
Atendidos == \A h \in Hilos : ~EnPaz(h) ~> EnPaz(h)
=============================================================================
