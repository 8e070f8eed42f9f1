# Formal model of tp-2016-2c-System-Call

The repository is a distributed game written in C: trainers (`src/entrenador`)
connect to maps (`src/mapa`) and walk over them to capture the pokémon of
their nests, and the files both read and write live in a file system, OSADA,
that a server (`src/pokeServidor`) keeps in an image file and a FUSE client
(`src/pokeCliente`) mounts.  This directory holds TLA+ modules that model the
program, the TLC configurations that check them, and theorems about them that
TLAPS proves.

## Inventory

**mapa** (`src/mapa/mapa.c`, 883 lines).  State: the lists `eReady`,
`eBlocked` and `eDeadlock` of `tEntrenador` (id, position, objective `obj`,
pokémon captured, socket), the nests (`pokeNestArray`, a position and a queue
of pokémon each), the counting semaphores `semPlanificador` and
`semAsignador`, the mutexes `mutexReady` and `mutexBlocked`, and
`mapaMetadata` (algorithm, quantum, battle mode).  Threads: main accepts
connections; one *handshake* thread per connection adds the trainer to
`eReady`; *planificador* takes one ready trainer at a time (round robin or
nearest objective first) and serves its requests; *asignador* gives pokémon
to blocked trainers; *deadlock* wakes up from time to time, looks for
deadlocks in `eBlocked` and, in battle mode, makes the deadlocked trainers
fight and disconnects the loser; SIGUSR2 re-reads the metadata.  Hard:
four kinds of threads that hand trainers and tokens to one another;
`mutexBlocked` held over whole searches but not by the planner when it gives
pokémon back; clients that die at any point; a deadlock detector that looks
at half of the state; messages to closed sockets.  Correct means: no pokémon
is lost, every trainer is owned by one thread or list, tokens match lists,
nobody waits in front of a free pokémon, real deadlocks end, every connection
is closed in the end.

**entrenador** (`src/entrenador/entrenador.c`, 519 lines).  State: lives,
`sigterm`, the map being played, its objectives, deaths, the files in its
directory (medals, pokémon).  Operations: per map, connect, and per objective
ask for coordinates (`C`), walk (`M*`), capture (`G`), and for the medal at
the end (`O`); die, lose a life, ask to start again; SIGUSR1 adds a life,
SIGTERM kills.  Hard: signal handlers racing the main loop; replies read by
position in the program and not by content; maps that die and are taken for
played.  Correct means: lives add up, nobody dies without a cause, a map counted as
played has left its medal, GAME OVER only comes to who has spent its lives, every attempt ends.

**pokeServidor** (`src/pokeServidor/pokeServ.c`, 1673 lines).  State: the
OSADA image in memory (header, bitmap, file table of 2048 entries, FAT), the
mapped image they are copied to, the semaphore `mux_osada`, one rwlock per
table entry, and one global pointer `dirBlock` that every thread copies
through.  Operations: getattr, readdir, open, release, read, write, create,
unlink, mkdir, rmdir, rename, ftruncate, statfs, utimens, one thread per
client that dispatches them (`procesar_cliente`).  `mux_osada` covers the
search for a free block or a free entry and little else: the table, the FAT
and the bitmap are read, and in part written, without it.  The consistency
check `check_state` exists but its call is commented out.  Hard: growing a
file block by block with another client doing the same, checks made before
the lock, operations that look a path up twice, return paths that keep a
lock, a crash between two copies, clients that die holding locks.  Correct
means: bitmap, FAT and table agree whenever nobody is served, no block has two
owners, the image follows the memory, the locks match the open files, every
request is answered.

**pokeCliente** (`src/pokeCliente/pokeClient.c`, 822 lines).  The FUSE
callbacks, which several FUSE threads run at once: each sends its requests over the one
socket of the mount and reads the answers, under `mux_socket`.
**socks_fs** (`socks_fs.c` in both, 201 lines each): packets of a type and a 16-bit length,
received in pieces.  Hard: answers of several packets (readdir, read) whose end only
their contents tell; a length that is read before it has come; a server that gives the
same socket to two threads; SIGPIPE.  Correct means: whoever reads gets whole packets, each
callback the answer to its own request, and every callback returns.

Scripts, makefiles and the shell tests keep no state.  `PROJECT.json` lists
every component with its status and the hazards of the code at their lines.

## Modules

| module | models | code |
|---|---|---|
| `Interbloqueo` | the tables of the deadlock check; the reference notion of deadlock (`SinSalida`) and the closed form of what the code marks (`Marcados`) | mapa.c 388-402, 438-497 |
| `DeteccionDeadlock` | `deadlockDetect`, one action per loop iteration | mapa.c 438-497 |
| `Mapa` | the map's threads, lists, semaphores, nests and sockets, and the trainers that play on it | mapa.c 132-735, entrenador.c 179-438 |
| `Recursos` | what the map promises about its pokémon, without threads | abstract |
| `Entrenador` | a trainer's whole journey: attempts, lives, maps, medals, signals | entrenador.c 100-519 |
| `Osada` | the server's threads, structures, image and locks, and the clients that ask | pokeServ.c, pokeClient.c |
| `Conversacion` | what mounts and server say to each other, packet by packet and recv by recv | pokeClient.c, pokeServ.c, socks_fs.c |
| `DeteccionPruebas`, `MapaPruebas`, `ProtocoloPruebas`, `EntrenadorPruebas`, `OsadaPruebas`, `FsckPruebas`, `ConversacionPruebas` | theorems and proofs | |
| `Induccion` | lemmas: what sums over finite sets and folds over sequences compute | |
| `MCDeteccion`, `MCMapa`, `MCEntrenador`, `MCOsada`, `MCConversacion` | constants of the runs | |

The modules meet where the programs do.  `Mapa` holds both ends of a session between a trainer
and a map; `Entrenador` is the trainer from one session to the next and sees a map as what answers
each of its requests, or dies.  `Osada` is what requests do to the file system, with the
conversation reduced to a question and an answer; `Conversacion` is that conversation, with
the file system reduced to the chain of one file.

`DeteccionDeadlock` and `Mapa` both extend `Interbloqueo`.  The first goes
through the loops of `deadlockDetect`; it shows that they compute `Marcados`
(property and theorem `Resultado`), and `Mapa` uses `Marcados` as one step, which is
sound because the function runs with `mutexBlocked` held over tables that
nobody else sees.  `Mapa` instantiates `Recursos` with a refinement mapping
(`AsignaBien`).  Definitions headed *Wrong on purpose* are plausible bugs;
replacing the definition that follows by one of them makes a property fail,
which shows that the property depends on that code.

### Mapa

A trainer of the model is one connection, from `accept` to the `close` in
`desconectarEntrenador`; a trainer that dies and comes back is another.

| model | code |
|---|---|
| `eReady`, `eBlocked`, `eDeadlock`, `semPlanificador`, `semAsignador`, `mutexBlocked` | the globals of the same names |
| `plan`, `asig`, `dlk`, `hs[t]` | where each thread is, and the `tEntrenador` in its hand |
| `obj`, `pos`, `tiene`, `libres` | fields of `tEntrenador`, the nests' queues |
| `sock`, `pedido`, `resp` | state of each connection, bytes on their way to the map and to the trainer |
| `cli`, `x`, `cumplidos` | the program counter, place and `objCumplidos` of the client |
| `HBienvenida` … `HPostear` | `handshake`, `agregarReady` |
| `PEsperar` … `PLiberar` | `planificador`, `planRR`, `planSRDF`, `atenderSolicitud`, `agregarBlocked` |
| `AEsperar` … `APostear` | `asignador`, `detectarDesconectados` |
| `DTomar` … `DFin` | `deadlock`, `deadlockDetect`, `batallaPokemon` |
| `Recargar` | the SIGUSR2 handler |
| `Conectar`, `Cliente`, `Abandonar` | `conectarMapa`, `jugarMapa`, a client killed |

A step is what a thread does between two points where another thread can see
the difference.  Sections under `mutexReady` hold one list operation and are
one step; `sem_post` is always a step of its own because it follows the
unlock.  The planner gives pokémon back one at a time and without
`mutexBlocked` (`PDevolver`); the other threads do it with the mutex, in one
step.  A write to a connection that the client has closed is lost and breaks it; a
second one kills the process (`mapa = "sigpipe"`).

### Entrenador

| model | code |
|---|---|
| `vidasDisponibles`, `muertes`, `mapasJugados`, `reintentos`, `sigterm`, `objCumplidos` | the globals and fields of the same names; the counters are `char`, and the assumptions keep them under 128 |
| `enlace` | the connection to the map: open, closed by the map, or written to after that |
| `caidos`, `medallas` | the maps that have died; the files of `dirMedallas` |
| `Intento` … `Reintentar` | `main`, the loop of `jugarVida` |
| `ConectarMapa` … `ObtenerMedalla` | `conectarMapa`, `jugarMapa` and what it calls |
| `Muerte`, `Restar`, `Restada` | `muerte`; the decrement is a read and a write |
| `Sigusr1`, `Sigterm` | `signalRutina`, between any two steps |
| `MapaCae` | a map's process ends |
| `recibidas`, `causas` | history: what the properties compare the counters with |

A request to a map and the answer are two steps, so a map may die or a signal come in
between.  A recv from a map that has closed returns at once and leaves the buffer as it was,
and the code does not look: that is how `ObtenerMedalla` counts a map without its medal
and how a path may be read from nothing.

### Osada

| model | code |
|---|---|
| `tabla`, `bitmap`, `fat` | `file_table`, the data part of the bitmap, `fat_osada` |
| `disco` | the mapped image, changed only by `Copiar`, one structure per step |
| `mux`, `mux_files[i]` | `mux_osada`, the rwlock of entry i |
| `loc[h]` | program counter and locals of client h's thread |
| `abierto[h]`, `Pedir(h)` | what the client has open; what its kernel and pokeCliente may send next |
| `Mkdir` … `NuncaSeguir` | the `osada_*` functions, cut where another thread may come in |
| `Morir(h)` | the mount is killed: its thread leaves the loop of `procesar_cliente`, its locks stay |

`Truncate` to `Truncado` are `osada_ftruncate`, called by the client, by
`osada_open` (O_TRUNC) and by `osada_write` when the file is too short; `vuelve`
says who called.  `nunca*` are the steps of the branch of `osada_write` headed
"No deberia haber entrado NUNCA".  `is_parent` looks at deleted entries, as in the code.
A thread that follows the FAT past 0xFFFFFFFF reads outside the array; the
outcome is not followed (`servidor = "fuera"`, nothing moves).  Unlocking a
rwlock that the thread does not hold is undefined: `Soltar` chooses among the
outcomes.  A new block takes two steps, the link from the last one (`Enlazar`) and the end of
the chain (`Terminar`), because a walk or a kill may come in between.

### Conversacion

| model | code |
|---|---|
| `hilo[h]`, `mux` | the FUSE threads and `mux_socket` |
| `aServidor[m]`, `aCliente[m]` | the packets under way in each direction of a mount's socket |
| `serv[t]`, `sock_Cli` | the server's thread started by the t-th accept, and the variable it reads its socket from |
| `leido`, `len` | locals of `recv_socket`: the bytes read, and the length the buffer holds |
| `cadena`, `tam` | the chain and the size of the file that one mount reads and writes and another truncates |
| `sueltos` | the threads whose block is no longer in that chain, because another has cut it |
| `retenido` | `mux_osada` kept by a write that has returned without its `sem_post` (line 949) |
| `Recv`, `Entero` | one turn of the loop of `recv_socket` |
| `Llamar` … `Recibir` | a callback of `pokeClient.c`: mutex, send, answers, further packets or requests |
| `Aceptar`, `LeerSocket` | main's accept, the first lines of `procesar_cliente` |
| `Escuchar`, `Contestar`, `Listar`, `LeerTam` … `LeerFin` | its loop, readdir, read |
| `EscribirTam` … `EscribirSeguir`, `Nunca` | write: the test of the size, the walk to the offset, a block each step, the branch "NUNCA" |
| `Truncar` … `PonerTam` | ftruncate, alone or for a write: the walk to the last block (`Mirar`, `Avanzar`), the block linked (`Ligar`, `Enlazar`) or taken away (`Quitar`), the size |
| `Matar` | a mount is killed |

A header is two cells, so that it may come in pieces, and a body none, one or two: what
`recv_socket` can confuse is a length from before with one that has come.  When a thread has taken more or fewer bytes
than its packet has (`desfasado`), or two threads of the server read the same socket, the model
notes it and does not follow what they make of the bytes.

## Runs

| run | bounds | shows |
|---|---|---|
| `deteccion` | every table of 2-3 rows, 2 nests, 0-1 pokémon | `deadlockDetect` ends (`Termina`), misses no deadlock (`Completitud`), every row it finishes can finish (`Absueltos`), computes `Marcados` (`Resultado`) |
| `mapa_tres` | 3 trainers, 2 nests of 1 pokémon, Quantum 2, battles, 1 killed client | pokémon conserved, one owner per trainer, tokens match lists, blocked trainers stand on their nest, client and map agree, and only the battle of an old `eDeadlock` entry puts a trainer out of step (`SinDesfase`) |
| `mapa_vivacidad` | 2 trainers in each other's way; SIGUSR2 changes the algorithm, the battle mode or both, once, at any moment | with battles on deadlocks end, everyone's connection is closed in the end, the map refines `Recursos` |
| `mapa_sin_batalla` | 2 trainers, one asks for a nest the map lacks, 1 killed client, no battles | no SIGPIPE or invalid pointer, nobody waits in front of a free pokémon, everyone ends unless in deadlock |
| `mapa_aviso` | 3 trainers | violation: a trainer in no deadlock is told it is (`AvisoFiel`) |
| `mapa_desfase` | 4 trainers, nests of 2 and 1 pokémon | violation: a trainer that asked for coordinates reads the "R" of a battle (`SonCoordenadas`) |
| `entrenador` | 2 maps of 2 and 1 objectives, 2 lives, 2 SIGUSR1, 2 SIGTERM, 1 retry, maps that die | lives add up (`VidasCuadran`), every death has a cause (`MuereConCausa`), a map played by a living map left its medal (`MedallasGanadas`), GAME OVER is just (`FinJusto`), attempts end (`TodoIntentoTermina`) |
| `osada_uno` | 1 client, 3 entries, 3 blocks of 2 bytes, files to 5 bytes, 8 requests, directories and renames | table, bitmap and FAT agree, sizes and chains agree, the image follows and never has a cycle (`Imagen`), names are unique |
| `osada_dos` | 2 clients with a file each, 3 blocks, files to 3 bytes, 5 requests, clients killed at any moment | structures agree, the "never" branch is not taken, locks match the files open or left open by the dead, every request is answered |
| `osada_compartido` | 2 clients on one file, unlink included, 4 requests | nobody else finds a block between its search and its mark (`Reservas`); no chain in memory closes on itself (`SinCiclos`) |
| `osada_padre` | 1 client, 3 entries, up to 7 requests | violation, in five: a new directory takes the deleted entry its path leads to and is its own parent (`PadreVivo`) |
| `conversacion` | 2 mounts, one with 2 FUSE threads, 2 callbacks, a file of 2 or 3 blocks in packets of 2, that one mount reads and writes and the other truncates, 1 killed mount | whole packets (`UnPaquete`), each callback its own answer (`RespuestaPropia`), the server falls only for four causes (`CaeConCausa`), every callback returns but in four cases (`TodoVuelve`) |

**Why the bounds are enough.**  Two trainers and two nests make the smallest
deadlock; the third trainer makes an innocent one wait beside it, keeps a
battle from emptying the list, and lets all four kinds of threads hold a
trainer at once.  One pokémon per nest makes every capture contended.
Quantum 2 lets a turn end both by quantum and by blocking, Quantum 1 at every
step.  One killed client reaches every point where a thread may find a closed
socket.  Three rows with two nests are enough for `deadlockDetect` to need two
passes and to have a row before, at and after the first one that fails.  In
OSADA, with blocks of two bytes, sizes 0 to 5 take one to three blocks with
and without a partial last one; three blocks let a growth by two be refused,
and with two clients be half made; three entries allow a directory, its child and the reuse
of a deleted one.  `MaxPedidos` bounds the length of a history: eight requests let one
client fill the image, be refused, remove or rename what it made and use the space again.
For the trainer, two lives let a death be survived and one be the last, and two SIGUSR1 let one fall inside
the decrement and another after the last life is gone; the retry shows what an attempt leaves to the next.  In
`conversacion`, a file of three blocks in packets of two makes a read of two packets, whose chain the
other mount may cut before, between and after them; two threads in a mount contend for its mutex;
two mounts are what it takes to overwrite `sock_Cli`.  A file that begins with two blocks of the three there may be lets a
write make it longer while the other mount cuts it.  Only the mount with two threads may be killed: the
answers to the other, which truncates, are single packets, and no second write to it can raise SIGPIPE.  With two calls two cuts do
not overlap; that a truncation takes away a block that is already out of the chain is in the theorems only.

**`CHECK_DEADLOCK FALSE`** stands where the system really stops: `deadlockDetect`
returns, the clients of OSADA have made their `MaxPedidos`
requests or are dead (in `conversacion` too), a trainer's process ends, and with `mapa_tres`
the map may die of SIGPIPE in a battle or have trainers out of step.  The two other
passing runs of the map need no such line: asignador and the deadlock thread
wake up for ever.

**Fairness.**  In `Mapa`, `Equidad` gives each thread and each client weak
fairness: threads are scheduled, the timers of `usleep` expire, and a live client reads and
answers.  A client that keeps its connection open and sends nothing stops the
planner in `recv` (line 625) for ever; fairness excludes it, and the hazard
list names it.  `PBloquear`, `ATomar` and `DTomar`, which take
`mutexBlocked`, have strong fairness: asignador and deadlock sleep (lines 585
and 567) between two uses of it, so whoever waits gets it.  In `Osada` each
server thread has weak fairness and the clients none: nothing makes a client
ask, close or die.  Requests are bounded, so a thread that waits for
`mux_osada` cannot be passed for ever and weak fairness is enough.  In `Entrenador`
main has weak fairness, and with it the maps answer; keys, signals and the deaths of maps have
none.  In `Conversacion` all that runs is one weakly fair disjunction, `Progreso`: every step takes
some request further, so no thread can be passed for ever; nobody has to call, and no mount to die.

## Findings

- `mapa.c:391`: the tables are filled from `eBlocked` only; what ready
  or running trainers hold counts as held by nobody, and a trainer that only has to
  wait is told it is in deadlock and may be killed (`mapa_aviso`).
- `mapa.c:504`: a trainer marked alone stays in `eDeadlock`, gets its pokémon and plays on.  The next deadlock
  fights it again, and if it wins, line 529 sends it an "R" that it takes for its coordinates, or for the answer
  to a move (`mapa_desfase`).
- `pokeServ.c:238`: `is_parent` finds deleted directories: after `mkdir a`, `mkdir b`, `rmdir a`, `rename b a`,
  the path `a` leads to the deleted entry 0, `mkdir a/b` takes that entry for the new directory too, and
  this is its own parent (`osada_padre`).

Five more facts came out of the modelling.  No run shows them as a violation; the properties are stated so that
they hold of the code as it is:

- `mapa.c:441`: `flag` is never cleared between rows, so rows after the first unsatisfied one
  that holds something are marked too.  What holds is `Completitud` and `Absueltos`.
- `pokeServ.c:940`: osada_ftruncate takes no rwlock, so with a shared file osada_write does enter
  the branch that "should NEVER" be entered, and its -ENOSPC (947-949) keeps `mux_osada`: whoever needs it after that waits for
  ever.  `NuncaSinBloque` holds with files that are not shared; in `conversacion`, with one that is, the branch is
  entered and the mutex kept, and `TodoVuelve` names it.
- `pokeServ.c:346` and `108`: two packets sent to a mount that has died raise SIGPIPE, and the server
  ends for everybody.  The other ways are three: a read or a write that starts beyond the end of a chain another mount has
  cut (88, 923-924), a write caught half way by such an end (940-964), and a walk of osada_ftruncate to the last block, which tests
  a link and reads it again (1044-1045, 1082-1084), caught between the two.  `CaeConCausa` says that there is no other.
- `pokeServ.c:22`: the copies to the image go through one global `dirBlock` that all the threads
  set, and the makefiles ask for no optimisation, so `memcpy` reads it again: with two mounts at
  work a copy may land on another structure.
- `entrenador.c:301`: a map that dies before it answers counts as played, without a medal.

## Proofs

All are for any number of trainers, nests, pokémon, maps, lives, clients, files and blocks, from the
assumptions `SupuestoCotas`, `SupuestoMapa`, `SupuestoEntrenador`, `SupuestoOsada` and
`SupuestoConversacion` that the modules state about their constants: types, finite sets of trainers
and nests, in `Osada` that a path a client names is a sequence with at least one name (what FUSE passes for
anything but the root), and in `Conversacion` that mounts ask for the operations FUSE registers.

- **`DeteccionPruebas`**.  `TipoCorrecto`; `NingunoOmitido` (`Completitud`);
  `AbsueltosTerminan` (`Absueltos`); `FormaCerrada` (`Resultado`).  The inductive invariant
  (`Invariante`) says that `work` is what is free plus what the finished rows held, that
  no trapped row is finished, and that within a pass `flag` tells whether an earlier row
  failed; completeness needs it because `Completitud` alone does not say that
  `work` has nothing of a nest whose holders are all trapped.
- **`MapaPruebas`**.  `TipoCorrecto`; `ListosContados` (`FichasReady`);
  `BloqueadosContados` (`FichasBlocked`); `SacaDeVerdad` (the planner never takes
  from an empty list).  The invariant adds `SinHilo` (a connection not yet accepted has
  no handshake) to types and tokens.  Each step is shown
  to change the two sides of each count alike; the count of handshakes about
  post is a cardinality, and `PosteanCambio` says how one step changes it.

  On top of them, `UnSoloDuenioSiempre` (`UnSoloDuenio`) and
  `ImplementaRecursos` (`AsignaBien`: the map implements `Recursos`).  `UnSoloDuenio` lists who may
  have a trainer; what is inductive (`DInv`, theorem `CadaUnoEnSuLugar`) is that a live one is
  in exactly one of `eReady`, `eBlocked`, the hands of the planner, of asignador or of its handshake,
  that the two lists repeat nobody, and that who is still in its handshake has no pokémon.  The
  refinement maps the pokémon of each trainer and what it waits for; `HRecibir` is the abstract
  `Entrar`, `PBloquear` `Pedir`, `AOtorgar` `Otorgar`, `PDevolver` `Devolver`, the three ways in which the
  planner lets a trainer go `DejarDeJugar`, a disconnection by another thread or a lost battle
  `Salir`, and every other step stutters.
- **`ProtocoloPruebas`**, on top of `MapaPruebas`.  What a trainer and the map say to each other is a
  conversation by turns (`PInv`, theorem `PorTurnos`): either there is one request on its way and no reply
  proper, or one reply and no request, or the thread of the map that has the trainer is about to send it;
  notices of deadlock and results of battles may come at any time to who waits for a capture.  A trainer is in step
  (`EnFase`) while what is on its way to it is what its next recv waits for; the "R" of a battle on account of an old entry of
  `eDeadlock` is the one message that the turns do not order, and the invariant follows a trainer until it takes that one for a
  reply.  From it follow
  `SinDesfaseSiempre` (`SinDesfase`: there is no other way to get out of step) and
  `EsperaEnSuNidoSiempre` (`EsperaEnSuNido`: the place in the turn says where each end has the trainer).
  `ConservacionSiempre` (`Conservacion`) is a sum over the trainers, which every step leaves the same or
  moves between one of them and the queue of the nest; `EspejoSiempre` (`Espejo`) adds what a client in step counts
  as captured, and the one capture that may be on its way (`Cuenta`).  `ProcesoSanoSinBatalla` (`ProcesoSano`):
  when every metadata file the map reads says that there are no battles, as in the run that checks it, no
  thread of the map writes twice to a connection closed by its client, because such a trainer is silent and
  in nobody's hands but those of who is about to throw it out (`SInv`).
- **`ConversacionPruebas`**.  `TiposSiempre` (`TypeOK`), `UnPaqueteSiempre` (`UnPaquete`),
  `RespuestaPropiaSiempre` (`RespuestaPropia`), `CaeConCausaSiempre` (`CaeConCausa`).  None of the last three is
  inductive: what a channel may hold depends on how far the answer has come on the server's side, and on how much
  of it the callback still expects.  `CInv` (theorem `Conversan`) relates them.  Who waits has `mux_socket`
  (`Turno`); of each mount the server has one request at most, on its way or in hand (`Pendiente`); a request
  is of who waits, and before its first packet its channel is empty (`Encargo`, `Tarea`); a listing has no more
  packets sent and to be sent than the callback still counts, and of a read every packet before the last says that
  there are more (`Avance`, `EnFila`); the length left in the buffer from the packet before is that of the one that
  comes (`Leyendo`), which is why a header in pieces does no harm, but in the first packet of a directory.  The server
  falls of SIGPIPE only in a packet for a mount it has written to after its death, and it has then begun an answer of
  several packets (`Empezada`).  The other three causes of `CaeConCausa` are places where a thread goes by an index that was
  tested before, or never, and what the invariant says of the types of the chain and of the threads out of it shows that there are
  no more.
- **`Induccion`**.  The backends cannot instantiate the induction rules of the library, which take the
  property as a parameter, but a least counterexample does as well: the set of the naturals, or of the parts of a
  finite set, of which a statement is false has a least element, and it has none if each is true whenever the
  smaller ones are.  So `MapThenSumSet` is shown to have the value of a recursive function, that does not
  depend on the order (`SumaUnica`) and changes as one of its terms does (`SumaCambia`); and `FoldLeft`, that of a
  walk along the sequence (`Recorrido`).
- **`EntrenadorPruebas`**.  `TiposEntrenador`, `VidasSeSuman`, `MuerteConCausa`, `MedallaPorMapa`,
  `GameOverJusto`: the five invariants of the run.  `MuereConCausa` needs to know that who is on
  its way to `muerte` has a cause not yet counted, `FinJusto` that it never dies with no life left.
- **`OsadaPruebas`**.  `ReservasSiempre` (`Reservas`): whoever has found a free
  block holds `mux_osada` until it is marked, whatever the clients do.  `Reservas` is not
  inductive: the invariant adds that every thread in such a section holds the
  semaphore (`Tomado`), that the block found is not in the bitmap (`Hallado`)
  and where a thread that is copying goes on (`Regreso`), because create
  copies the structures before its `sem_post`.  `SinCiclosSiempre` (`SinCiclos`): every walk along a chain
  in memory ends, though clients share files and free blocks under one another, because a link
  always goes to a block that ends its chain one step later.  The exception is exact: a block
  that is between the two steps (`EnObra`).

  `Tipos` (`TypeOK`).  The types are not inductive by themselves: an index is used where the code has made
  sure, steps before, that it is one.  `TInv` adds which of a thread's locals hold an entry or a block at each
  point (`LocalBien`: after a failed search nobody goes on with the NUMBER it returned, and a walk of write or
  truncate that writes a link has a block under its feet), and that what is open has a path (`AbiertoBien`).  The walks
  are recursive functions; that they exist, and where they lead, rests on `HayItera` of `Induccion`.  The theorem does
  not say that nothing is read past an end: a walk of write over a chain that another client has cut does
  it, and that is the server's end (`fuera`, which `TypeOK` admits).

  `ImagenSiempre` (`Imagen`), under `Solo`: there is one client, because with two the global `dirBlock` may take a copy elsewhere.
  The inductive form (`MInv`) holds at every moment, not only at rest: a structure
  that differs from its copy is one that the thread has yet to copy.  It gives more than equality at rest: a crash at
  any step leaves an image in which every walk ends, because the end of a new block is copied with its link.

  `NombresSiempre` (`NombresUnicos`), under `Propios`: there is one client, or each has files of its own in
  the root.  Nothing in the server keeps two clients from writing one name at once (the search of
  osada_mkdir and osada_create under the mutex looks at entries of the same kind only, that of rename is
  under none), so the theorem says whose care it is: from the moment a
  thread looks for a name, or its client's kernel does, until it is written, no other writes it (`NuevoBien`).
- **`FsckPruebas`**, on top of `OsadaPruebas`.  `FsckSiempre` (`Fsck`) and `NuncaSinBloqueSiempre`
  (`NuncaSinBloque`), under `Apartados`: there is one client, which may ask for anything, or each has files
  of its own in the root (`Propios`) and none is deleted.  Both conditions are needed.  With a shared file
  osada_ftruncate cuts the chain that osada_write walks; and with files of one's own osada_unlink, which
  marks the entry as deleted before it reads its first block (line 1163), frees the block of
  another client's new file if osada_create has taken the entry in between.

  `Fsck` speaks of a server at rest, and says nothing of what a request leaves half done.  The
  invariant (`FInv`) gives each entry a chain, a sequence of blocks and its length, and says (`Cuadra`) what holds
  of them at every step: that of a file starts at its first block, follows the FAT and ends in it, but for one
  that some thread has cut or is deleting (`FilaBien`); no block is in two (`Separadas`); the bitmap has those of
  the chains and the blocks that a thread has marked and not yet linked (`Marcas`); and each thread, at each
  point of its walk, has the entry it looked up (`Usado`), is at the block of the chain that it should be
  at (`Puesto`), in a chain with as many blocks as the bytes ask for (`Largo`), and, in osada_unlink, has freed those before it
  (`Dejada`).  A step is then one of four changes of the chains: none, a block more at the end, one less at the
  end or one less at the start.  `RInv` adds what `Apartados` gives: the paths a thread works on are its
  client's, so the entries of two threads are not the same.  At rest the chains of the
  invariant are those that the walks of the code find (`CadenaDe`); that a chain has no more blocks than the
  disk, as a walk of `NumBloques` steps assumes, is the pigeonhole principle (`CadenaCorta`).

  `CheckStateSiempre` (`CheckState`), under `Solo`: there is one client, which may ask for anything.  `Cuadra`
  says that a chain is long enough; the invariant `EInv` adds (`Justa`) that it is not too long, now or when the
  request under way ends (its blocks and those it lacks are at most what its size takes), and that the blocks a
  growth has yet to mark are free.  The second is what makes the first survive: `osada_ftruncate` counts
  the free blocks once (line 1035), and with nobody else to take them each search that follows finds one, so
  a growth fails before its first block or not at all.  At rest nothing is lacking and the two bounds meet.
  With a second client the count goes stale, and the property is false.

  `CandadosJustosSiempre` (`CandadosJustos`), under `Llanos`: what `Apartados` says, the paths are in the root and
  nobody asks for a rename, which can take a file away from the path it was opened by.  What the property says of a server
  at rest has to be said at every step of what a client has open, or is about to: between the `trywrlock` of
  osada_open and its answer the thread that runs osada_ftruncate holds a lock that no client has open yet (`EnMano`).
  The invariant (`KInv`) says that such a file is in the table and its lock is exactly that of its client
  (`Tenido`, `Candado`), and that any other lock is free.  Three facts of the code make it last.  The truncation to 0 that
  osada_open asks for does not fail, whatever others do, because it only cuts (`Abierta`: the file exists and the blocks
  to add are never more than none): if it did, the lock would stay with nobody to release it.  After osada_create the
  file that osada_open looks for exists if, and only if, osada_create said so (`Creado`, `Abierta`): the kernel goes
  by the word of the first, and the lock by that of the second.  And osada_ftruncate, which looks at deleted
  entries too, finds the same file as osada_open, which does not, because a new file takes the first
  deleted entry of all, so no other of its name comes before it (`Primeros`).

Only model-checked: everything temporal but `[]` and the refinement (`Termina`, `DeadlockSeResuelve`,
`TodosTerminan`, `NadieEsperaEnVano`, `Atendidos`, `TodoIntentoTermina`, `TodoVuelve`), because liveness under
fairness and ENABLED are out of the prover's reach.  Of the invariants, all are proved; those of `Osada` that
ask how the clients share the disk or of the image, under the conditions named above.

## Abstractions and what is not modelled

*Map.*  Positions lie on one axis.  The pokémon of a nest are
interchangeable.  Queue and list operations are atomic, though the planner pushes to a
nest's queue without the mutex that asignador pops it under (line 161).  Each
connection has its own socket variable: the one that `main` shares with the
handshake thread (line 861) is a hazard not modelled.  Message boundaries
are kept.  Quantum is at least 1, counts fit in a `char`.  The algorithm
is RR or SRDF; the metadata are reloaded whole.  Of the client's receptions only that of
`capturarPokemon` looks at what it reads: coordinates and the answer to a move are whatever bytes come.  A trainer that has
taken a notice for them is out of step (`desfasado`), and what it makes of the bytes left over, 256 for an "R" against 6 or 1, is
not followed.  `batalla` is read once for all the rows of a detection, while line 482 reads it again for each.
The liveness properties say nothing of a process that has died,
whose `eDeadlock` holds a stale entry or that has a trainer out of step (`Ruina`): after the first two the code may use freed
memory.

*Trainer.*  Positions are counts of moves left.  The maps answer whatever a map may answer; that the
answers come in order is `Mapa`'s `SinDesfase`, up to the battle of an old entry.  The files of pokémon, the times that are added up for the final
message and the reading of the travel sheet change nothing that steers the program.  An answer of a map that
has died while it was being read may be empty or what the buffer held: both outcomes are there.

*OSADA.*  A path lookup and a walk over a chain are one step, and so is the `memcpy` of a structure.
The contents of the blocks are not represented.  In `Osada` each thread copies through a pointer of its
own, while the code has one, `dirBlock`, for all: with one client they are the same, and nothing is
claimed of the image with more (the hazard of line 961, with no property).  A link of the FAT that is tested and then
read again (940 and 964, 1044 and 1045, 1082 and 1084) is read once in `Osada` and, in write and truncate,
twice in `Conversacion`.  read, readdir and statfs are in `Conversacion`; the times that
utimens and the others put in the entries are not represented;
getattr is what `Pedir` looks at.
A client has one
request under way and one file open, opens after a create with O_TRUNC, and never renames
a directory into itself: the kernel sees to it.  A write is one message in `Osada`; pokeCliente
splits it every 256 bytes, as `Conversacion` has it.  `CreateAlta` fills the entry in one step under
`mux_osada`; a thread that reads the table without it could see half an entry.  A crash of the server is
covered, with one client, by what `Imagen` says at every step; what else it leaves (blocks nobody has, chains that
share a block) nothing in the code repairs.  A server that has read outside its arrays (`fuera`) is not
followed.  A client killed while the server works for it
is the same to the server as one killed after, but for the answers of several packets, which are `Conversacion`'s.  `Fsck` and
`CheckState` are checked where they hold: with two clients on one file,
unlink and truncate break the chains (`Fsck`), and a growth that fails half-way
because another client took the last block breaks `CheckState`.

*Conversation.*  A blocking send takes the whole packet; one that a signal cuts short is left out.  Requests
are a whole number of blocks from the start of one; the walk to the block of the offset (88, 923) is one step.
The file is not deleted while it is used, and whether there is space (-ENOSPC, -EFBIG) is left open.  A block cut from the
chain is free or in any chain: a thread that is on one (`sueltos`) may find any link there, and the rest of a
walk to the last block is then one step, the fall included.  A request that takes `mux_osada` for its own lookup or
its new entry waits for it (`ConMux`); what it does with it is `Osada`'s.  `osada_destroy`, which would say goodbye to the server, is
never registered with FUSE and so never runs.

*Not modelled*: the drawing, the logs, the reading of
configuration files and the copies of pokémon files, the creation and configuration of sockets, scripts and makefiles,
and the shell tests, which are run by hand.

## Plan

What is left, in order of interest:

1. `Osada`: entries filled field by field; the contents of the blocks, and with them what a shared `dirBlock`, or a
   rename in the middle of a write, do to the files; an abstract file system that the one-client server implements.
2. `Mapa`: a client that keeps its connection open and says nothing, the socket variable of the accept
   loop, the nest's queue at the grain of its pointers, counts beyond a `char`.
3. Proofs: `CandadosJustos` for files in directories, where a walk of several entries and a rename of one of them
   meet.

The hazards of `PROJECT.json` without a property are those of 1 and 2 and four that the models have and no
property catches: which of the writes of a battle is the one that kills the map (`mapa.c:529`), a SIGTERM
forgotten (`entrenador.c:440`), and what an unlink or a rename in the middle of another request does to the chains
(`pokeServ.c:1162` and `918`).  Each has its reason there.
