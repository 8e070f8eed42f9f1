---------------------------- MODULE OsadaPruebas ----------------------------
(***************************************************************************)
(* Proofs about Osada for any number of clients, files and blocks: who has *)
(* found a free block holds mux_osada until the block is marked, so nobody *)
(* else finds it; the chains of fat_osada have no cycle; the types; the    *)
(* names of a directory are unique, if clients keep to their own.  And if  *)
(* there is one client, the image is up to date when it is not served, and *)
(* its chains have no cycle at any moment.                                 *)
(***************************************************************************)
EXTENDS Osada, Induccion, SequenceTheorems

\* Where a thread is between its sem_wait and its sem_post.
EnSeccion(h) ==
  \/ loc[h].pc \in {"createAlta", "createFin", "marcar", "nuncaMarcar"}
  \/ loc[h].pc = "copiar" /\ loc[h].luego = "createFin"

Campos == {"pc", "ruta", "dest", "modo", "desde", "tam", "pos", "wpos", "padre", "abm", "blk",
           "ant", "copias", "luego", "vuelve", "creado"}

\* What each thread has to do with mux_osada, and what follows its copies.
Forma == DOMAIN loc = Hilos /\ \A h \in Hilos : DOMAIN loc[h] = Campos
Regreso(h) ==
  /\ loc[h].luego \in {"libre", "cola", "truncado", "nuncaSeguir", "createFin"}
  /\ loc[h].luego = "createFin" => loc[h].pc = "copiar"
Tomado(h) == EnSeccion(h) => mux = h
Hallado(h) == Reservando(h) => loc[h].blk \notin bitmap

IInv == Forma /\ \A h \in Hilos : Regreso(h) /\ Tomado(h) /\ Hallado(h)

-----------------------------------------------------------------------------
\* A set of naturals that is not empty has a least element.
LEMMA Minimo ==
  ASSUME NEW L \in SUBSET Nat, L # {}
  PROVE  Min(L) \in L /\ \A x \in L : Min(L) <= x
<1>1. \E m \in L : \A x \in L : m <= x
  BY Menor
<1>. QED BY <1>1 DEF Min

\* free_bit_bitmap finds a block whose bit is not set, when there is one.
LEMMA BloqueLibre == BitLibre # FIN => BitLibre \notin bitmap
<1>1. Bloques \ bitmap \in SUBSET Nat
  BY SupuestoOsada DEF Bloques
<1>2. Bloques \ bitmap # {} => Min(Bloques \ bitmap) \in Bloques \ bitmap
  BY <1>1, Minimo, SupuestoOsada
<1>. QED BY <1>2 DEF BitLibre

\* The invariant says what Reservas says: two threads cannot hold mux_osada.
LEMMA Basta == IInv => Reservas
BY SupuestoOsada DEF IInv, Tomado, Hallado, EnSeccion, Reservas, Reservando

\* Only the locals of h change, and they go on being the same fields.
SoloDe(h) ==
  /\ DOMAIN loc' = Hilos /\ DOMAIN loc'[h] = Campos
  /\ \A g \in Hilos \ {h} : loc'[g] = loc[g]

\* Where a thread may be with no part in this.
Fuera == Pasos \ {"createAlta", "createFin", "marcar", "nuncaMarcar"}

\* A step of h that ends out of the section, and does not take mux_osada from
\* another thread nor set bits, keeps the invariant.
LEMMA Afuera ==
  ASSUME IInv, NEW h \in Hilos, SoloDe(h), loc'[h].pc \in Fuera,
         loc'[h].luego \in {"libre", "cola", "truncado", "nuncaSeguir"},
         EnSeccion(h) \/ mux' = mux \/ mux = Nadie,
         EnSeccion(h) \/ bitmap' \subseteq bitmap
  PROVE  IInv'
<1>1. Regreso(h)' /\ ~EnSeccion(h)' /\ ~Reservando(h)'
  BY DEF Regreso, EnSeccion, Reservando, Fuera
<1>2. \A g \in Hilos \ {h} : Regreso(g)' /\ (EnSeccion(g)' <=> EnSeccion(g)) /\ (Reservando(g)' <=> Reservando(g))
  BY DEF IInv, Regreso, EnSeccion, Reservando, SoloDe
<1>3. ASSUME NEW g \in Hilos \ {h}, EnSeccion(g)
      PROVE mux' = g /\ bitmap' \subseteq bitmap
  BY <1>3, SupuestoOsada DEF IInv, Tomado
<1>4. \A g \in Hilos \ {h} : Reservando(g) => EnSeccion(g)
  BY DEF Reservando, EnSeccion
<1>5. \A g \in Hilos : Tomado(g)' /\ Hallado(g)'
  BY <1>1, <1>2, <1>3, <1>4 DEF Tomado, Hallado, IInv, SoloDe
<1>6. Forma'
  BY DEF IInv, Forma, SoloDe
<1>. QED BY <1>1, <1>2, <1>5, <1>6 DEF IInv

-----------------------------------------------------------------------------
\* The locals of a thread with nothing to do.
LEMMA OciosoForma == DOMAIN Ocioso = Campos /\ Ocioso.luego = "libre" /\ Ocioso.pc = "libre"
BY DEF Ocioso, Campos

\* An initial state satisfies the invariant.
LEMMA Inicia == Init => IInv
BY OciosoForma DEF Init, IInv, Forma, Regreso, Tomado, Hallado, EnSeccion, Reservando

\* The answers end out of the section.
LEMMA Responde ==
  ASSUME Forma, NEW h \in Hilos, Responder(h)
  PROVE  SoloDe(h) /\ loc'[h].pc = "libre" /\ loc'[h].luego = "libre"
BY OciosoForma DEF Responder, SoloDe, Forma

\* create's answer, after which the client opens the file.
LEMMA CreateRespondido ==
  ASSUME Forma, NEW h \in Hilos, NEW ok, CreateResponde(h, ok)
  PROVE  SoloDe(h) /\ loc'[h].pc = "open" /\ loc'[h].luego = "libre"
BY OciosoForma DEF CreateResponde, SoloDe, Forma, Campos

\* ftruncate's return.
LEMMA Vuelto ==
  ASSUME Forma, NEW h \in Hilos, NEW ok, Vuelve(h, ok)
  PROVE  /\ SoloDe(h) /\ loc'[h].pc \in {"libre", "writeIr"}
         /\ loc'[h].luego \in {"libre", loc[h].luego}
<1>1. Responder(h) \/ Ir(h, "writeIr")
  BY DEF Vuelve, OpenResponde
<1>2. CASE Responder(h)
  BY <1>2, Responde
<1>3. CASE Ir(h, "writeIr")
  BY <1>3 DEF Ir, SoloDe, Forma, Campos
<1>. QED BY <1>1, <1>2, <1>3

\* A client asks.
LEMMA PasoPedir == ASSUME IInv, NEW h \in Hilos, Pedir(h) PROVE IInv'
<1>1. mux' = mux /\ bitmap' = bitmap
  BY DEF Pedir, PedirNuevo, PedirRename, PedirRmdir, PedirUnlink, PedirUtimens, PedirTruncate,
         PedirOpen, PedirWrite, PedirRelease, Pide, estructuras
<1>2. PICK m, op : /\ DOMAIN m = Campos /\ m.luego = "libre" /\ op \in Fuera
                   /\ loc' = [loc EXCEPT ![h] = [m EXCEPT !.pc = op]]
  BY OciosoForma, ZenonT(60) DEF Pedir, PedirNuevo, PedirRename, PedirRmdir, PedirUnlink, PedirUtimens, PedirTruncate,
         PedirOpen, PedirWrite, PedirRelease, Pide, Fuera, Pasos, Campos
<1>3. SoloDe(h) /\ loc'[h].pc \in Fuera /\ loc'[h].luego = "libre"
  BY <1>2 DEF IInv, Forma, SoloDe, Campos
<1>. QED BY <1>1, <1>3, Afuera

\* A client is killed.
LEMMA PasoMorir == ASSUME IInv, NEW h \in Hilos, Morir(h) PROVE IInv'
<1>1. loc' = [loc EXCEPT ![h] = [Ocioso EXCEPT !.pc = "muerto"]] /\ mux' = mux /\ bitmap' = bitmap
  BY DEF Morir, estructuras
<1>2. SoloDe(h) /\ loc'[h].pc = "muerto" /\ loc'[h].luego = "libre"
  BY <1>1, OciosoForma DEF IInv, Forma, SoloDe, Campos
<1>. QED BY <1>1, <1>2, Afuera DEF Fuera, Pasos

\* osada_mkdir, osada_rmdir, osada_rename and osada_utimens.
LEMMA PasoDirectorios ==
  ASSUME IInv, NEW h \in Hilos,
         Mkdir(h) \/ MkdirMux(h) \/ Rmdir(h) \/ RmdirBaja(h)
         \/ Rename(h) \/ RenameAlta(h) \/ Utimens(h)
  PROVE  IInv'
<1> USE DEF En, IInv, Forma
<1>0. CASE Responder(h) /\ mux' = mux /\ bitmap' = bitmap
  BY <1>0, Responde, Afuera DEF Fuera, Pasos
<1>1. CASE Mkdir(h)
  BY <1>1, <1>0, Afuera DEF Mkdir, estructuras, SoloDe, Campos, Regreso, Fuera, Pasos
<1>2. CASE MkdirMux(h)
  BY <1>2, <1>0, Afuera DEF MkdirMux, estructuras, Copiando, SoloDe, Campos, Regreso, Fuera, Pasos
<1>3. CASE Rmdir(h)
  BY <1>3, <1>0, Afuera DEF Rmdir, estructuras, SoloDe, Campos, Regreso, Fuera, Pasos
<1>4. CASE RmdirBaja(h)
  BY <1>4, <1>0, Afuera DEF RmdirBaja, estructuras, Copiando, SoloDe, Campos, Regreso, Fuera, Pasos
<1>5. CASE Rename(h)
  BY <1>5, <1>0, Afuera DEF Rename, estructuras, SoloDe, Campos, Regreso, Fuera, Pasos
<1>6. CASE RenameAlta(h)
  <2>1. /\ loc[h].pc = "renameAlta" /\ mux' = mux /\ bitmap' = bitmap
        /\ Responder(h) \/ Copiando(h, <<"tabla">>, "libre")
    BY <1>6 DEF RenameAlta
  <2>. QED BY <2>1, <1>0, Afuera DEF Copiando, SoloDe, Campos, Regreso, Fuera, Pasos
<1>7. CASE Utimens(h)
  BY <1>7, <1>0, Afuera DEF Utimens, estructuras, Copiando, SoloDe, Campos, Regreso, Fuera, Pasos
<1>. QED BY <1>1, <1>2, <1>3, <1>4, <1>5, <1>6, <1>7

\* A turn of unlink's walk.
LEMMA UnlinkSigueFuera ==
  ASSUME IInv, NEW h \in Hilos, NEW b, loc[h].pc # "copiar", UnlinkSigue(h, b),
         mux' = mux, bitmap' = bitmap
  PROVE  IInv'
<1>. DEFINE q == IF b = FIN THEN "copiar" ELSE "unlinkLimpiar"
            c == IF b = FIN THEN <<"bitmap", "tabla">> ELSE <<>>
<1>1. /\ q \in {"copiar", "unlinkLimpiar"}
      /\ loc' = [loc EXCEPT ![h].blk = b, ![h].pc = q, ![h].copias = c]
  BY DEF UnlinkSigue
<1>. HIDE DEF q, c
<1>. QED BY <1>1, Afuera DEF IInv, Forma, SoloDe, Campos, Regreso, Fuera, Pasos

\* osada_unlink.
LEMMA PasoUnlink ==
  ASSUME IInv, NEW h \in Hilos,
         Unlink(h) \/ UnlinkBaja(h) \/ UnlinkPrimero(h)
         \/ UnlinkLimpiar(h) \/ UnlinkSeguir(h)
  PROVE  IInv'
<1> USE DEF En, IInv, Forma
<1>0. CASE Responder(h) /\ mux' = mux /\ bitmap' = bitmap
  BY <1>0, Responde, Afuera DEF Fuera, Pasos
<1>1. CASE Unlink(h)
  BY <1>1, <1>0, Afuera DEF Unlink, estructuras, SoloDe, Campos, Regreso, Fuera, Pasos
<1>2. CASE UnlinkBaja(h)
  BY <1>2, <1>0, Afuera DEF UnlinkBaja, estructuras, Ir, SoloDe, Campos, Regreso, Fuera, Pasos
<1>3. CASE UnlinkPrimero(h)
  BY <1>3, UnlinkSigueFuera DEF UnlinkPrimero, estructuras
<1>4. CASE UnlinkLimpiar(h)
  BY <1>4, <1>0, Afuera DEF UnlinkLimpiar, estructuras, Ir, SoloDe, Campos, Regreso, Fuera, Pasos
<1>5. CASE UnlinkSeguir(h)
  BY <1>5, UnlinkSigueFuera DEF UnlinkSeguir, estructuras
<1>. QED BY <1>1, <1>2, <1>3, <1>4, <1>5

\* osada_open, osada_release and osada_write.
LEMMA PasoArchivo ==
  ASSUME IInv, NEW h \in Hilos,
         Open(h) \/ OpenTomar(h) \/ Release(h) \/ ReleaseSoltar(h) \/ Write(h)
         \/ WriteIr(h) \/ Escribir(h) \/ NuncaEnlazar(h) \/ NuncaSeguir(h)
  PROVE  IInv'
<1> USE DEF En, IInv, Forma
<1>0. CASE Responder(h) /\ mux' = mux /\ bitmap' = bitmap
  BY <1>0, Responde, Afuera DEF Fuera, Pasos
<1>1. CASE Open(h)
  BY <1>1, <1>0, Afuera DEF Open, estructuras, OpenResponde, SoloDe, Campos, Regreso, Fuera, Pasos
<1>2. CASE OpenTomar(h)
  BY <1>2, <1>0, Afuera DEF OpenTomar, estructuras, OpenResponde, SoloDe, Campos, Regreso, Fuera, Pasos
<1>3. CASE Release(h)
  BY <1>3, <1>0, Afuera DEF Release, estructuras, SoloDe, Campos, Regreso, Fuera, Pasos
<1>4. CASE ReleaseSoltar(h)
  BY <1>4, <1>0, Afuera DEF ReleaseSoltar, estructuras, SoloDe, Campos, Regreso, Fuera, Pasos
<1>5. CASE Write(h)
  BY <1>5, <1>0, Afuera DEF Write, estructuras, SoloDe, Campos, Regreso, Fuera, Pasos
<1>6. CASE WriteIr(h)
  BY <1>6, <1>0, Afuera DEF WriteIr, estructuras, SoloDe, Campos, Regreso, Fuera, Pasos
<1>7. CASE Escribir(h)
  BY <1>7, <1>0, Afuera DEF Escribir, estructuras, Ir, SoloDe, Campos, Regreso, Fuera, Pasos
<1>8. CASE NuncaEnlazar(h)
  BY <1>8, <1>0, Afuera DEF NuncaEnlazar, estructuras, SoloDe, Campos, Regreso, Fuera, Pasos
<1>9. CASE NuncaSeguir(h)
  BY <1>9, <1>0, Afuera DEF NuncaSeguir, estructuras, SoloDe, Campos, Regreso, Fuera, Pasos
<1>. QED BY <1>1, <1>2, <1>3, <1>4, <1>5, <1>6, <1>7, <1>8, <1>9

\* osada_ftruncate, but for the block it takes.
LEMMA PasoTruncate ==
  ASSUME IInv, NEW h \in Hilos,
         Truncate(h) \/ Cola(h) \/ Enlazar(h) \/ Terminar(h) \/ Limpiar(h)
         \/ Cortar(h) \/ Tamanio(h) \/ Truncado(h)
  PROVE  IInv'
<1> USE DEF En, IInv, Forma
<1>0. CASE Responder(h) /\ mux' = mux /\ bitmap' = bitmap
  BY <1>0, Responde, Afuera DEF Fuera, Pasos
<1>1. CASE Truncate(h)
  <2>1. CASE \E ok \in BOOLEAN : Vuelve(h, ok)
    BY <1>1, <2>1, Vuelto, Afuera DEF Truncate, estructuras, Regreso, Fuera, Pasos
  <2>2. CASE ~\E ok \in BOOLEAN : Vuelve(h, ok)
    <3>1. /\ loc[h].pc = "truncate" /\ mux' = mux /\ bitmap' = bitmap
          /\ \E i, abm : loc' = [loc EXCEPT ![h].pc = "cola", ![h].pos = i, ![h].abm = abm]
      BY <1>1, <2>2, ZenonT(60) DEF Truncate, estructuras
    <3>. QED BY <3>1, Afuera DEF SoloDe, Campos, Regreso, Fuera, Pasos
  <2>. QED BY <2>1, <2>2
<1>2. CASE Cola(h)
  <2>1. loc[h].pc = "cola" /\ mux' = mux /\ bitmap' = bitmap
    BY <1>2 DEF Cola, estructuras
  <2>2. CASE loc' = loc
    BY <2>1, <2>2, Afuera DEF SoloDe, Campos, Regreso, Fuera, Pasos
  <2>3. CASE loc' # loc
    <3>1. PICK k \in Ultimo(tabla[loc[h].pos].primero) :
            loc' = [loc EXCEPT
              ![h].blk = Bloque(tabla[loc[h].pos].primero, k),
              ![h].ant = IF k = 0 THEN FIN ELSE Bloque(tabla[loc[h].pos].primero, k - 1),
              ![h].abm = IF @ < 0 /\ k = 0 THEN @ + 1 ELSE @,
              ![h].pc = IF loc[h].abm > 0 THEN "pedir" ELSE IF k > 0 THEN "limpiar" ELSE "cola"]
      BY <1>2, <2>3 DEF Cola
    <3>2. SoloDe(h) /\ loc'[h].luego = loc[h].luego /\ loc'[h].pc \in {"pedir", "limpiar", "cola"}
      BY <3>1 DEF SoloDe, Campos
    <3>. QED BY <2>1, <3>2, Afuera DEF Regreso, Fuera, Pasos
  <2>. QED BY <2>2, <2>3
<1>3. CASE Enlazar(h)
  BY <1>3, <1>0, Afuera DEF Enlazar, estructuras, SoloDe, Campos, Regreso, Fuera, Pasos
<1>8. CASE Terminar(h)
  BY <1>8, <1>0, Afuera DEF Terminar, SoloDe, Campos, Regreso, Fuera, Pasos
<1>4. CASE Limpiar(h)
  BY <1>4, <1>0, Afuera DEF Limpiar, estructuras, Ir, SoloDe, Campos, Regreso, Fuera, Pasos
<1>5. CASE Cortar(h)
  <2>1. SoloDe(h) /\ loc'[h].pc = "copiar" /\ loc'[h].luego = "cola" /\ mux' = mux /\ bitmap' = bitmap
    BY <1>5, <1>0 DEF Cortar, SoloDe, Campos
  <2>. QED BY <2>1, Afuera DEF Fuera, Pasos
<1>6. CASE Tamanio(h)
  BY <1>6, <1>0, Afuera DEF Tamanio, estructuras, Copiando, SoloDe, Campos, Regreso, Fuera, Pasos
<1>7. CASE Truncado(h)
  <2>1. CASE \E ok \in BOOLEAN : Vuelve(h, ok)
    BY <1>7, <2>1, Vuelto, Afuera DEF Truncado, estructuras, Regreso, Fuera, Pasos
  <2>2. CASE ~\E ok \in BOOLEAN : Vuelve(h, ok)
    BY <1>7, <2>2, Afuera DEF Truncado, estructuras, SoloDe, Campos, Regreso, Fuera, Pasos
  <2>. QED BY <2>1, <2>2
<1>. QED BY <1>1, <1>2, <1>3, <1>4, <1>5, <1>6, <1>7, <1>8

-----------------------------------------------------------------------------
(* The steps inside the section, and those into it and out of it. *)

\* A step of h into the section, with a block that was free, keeps the invariant.
LEMMA Adentro ==
  ASSUME IInv, NEW h \in Hilos, SoloDe(h), loc'[h].pc \in {"createAlta", "marcar", "nuncaMarcar"},
         loc'[h].luego \in {"libre", "cola", "truncado", "nuncaSeguir"},
         mux = Nadie, mux' = h, bitmap' = bitmap, loc'[h].blk \notin bitmap
  PROVE  IInv'
<1>1. \A g \in Hilos : ~EnSeccion(g) /\ ~Reservando(g)
  BY SupuestoOsada DEF IInv, Tomado, EnSeccion, Reservando
<1>. QED BY <1>1 DEF IInv, Forma, SoloDe, Regreso, Tomado, Hallado, EnSeccion, Reservando

\* A step of h within the section that may mark its block keeps the invariant.
LEMMA Sigue ==
  ASSUME IInv, NEW h \in Hilos, EnSeccion(h), SoloDe(h), Regreso(h)', ~Reservando(h)', mux' = mux
  PROVE  IInv'
<1>1. mux = h /\ \A g \in Hilos \ {h} : ~EnSeccion(g) /\ ~Reservando(g)
  BY SupuestoOsada DEF IInv, Tomado, EnSeccion, Reservando
<1>. QED BY <1>1 DEF IInv, Forma, SoloDe, Regreso, Tomado, Hallado, EnSeccion, Reservando

\* The search for a block, wherever it is made, and what follows it.
LEMMA PasoSeccion ==
  ASSUME IInv, NEW h \in Hilos,
         Create(h) \/ CreateMux(h) \/ CreateAlta(h) \/ CreateFin(h) \/ Copiar(h)
         \/ PedirBloque(h) \/ Marcar(h) \/ NuncaPedir(h) \/ NuncaMarcar(h)
  PROVE  IInv'
<1> USE DEF En, IInv, Forma
<1>1. CASE Create(h)
  <2>1. mux' = mux /\ bitmap' = bitmap /\ loc[h].pc = "create"
    BY <1>1 DEF Create, estructuras
  <2>2. CASE CreateResponde(h, "fallo")
    BY <2>1, <2>2, CreateRespondido, Afuera DEF Fuera, Pasos
  <2>3. CASE ~CreateResponde(h, "fallo")
    BY <1>1, <2>1, <2>3, Afuera DEF Create, SoloDe, Campos, Regreso, Fuera, Pasos
  <2>. QED BY <2>2, <2>3
<1>2. CASE CreateMux(h)
  <2>1. bitmap' = bitmap /\ loc[h].pc = "createMux" /\ mux = Nadie
    BY <1>2 DEF CreateMux, estructuras
  <2>2. CASE CreateResponde(h, "fallo") /\ mux' = mux
    BY <2>1, <2>2, CreateRespondido, Afuera DEF Fuera, Pasos
  <2>3. CASE ~(CreateResponde(h, "fallo") /\ mux' = mux)
    <3>1. /\ BitLibre # FIN /\ mux' = h
          /\ \E i : loc' = [loc EXCEPT ![h].pc = "createAlta", ![h].pos = i, ![h].blk = BitLibre]
      BY <1>2, <2>3 DEF CreateMux
    <3>2. SoloDe(h) /\ loc'[h].pc = "createAlta" /\ loc'[h].luego = loc[h].luego /\ loc'[h].blk = BitLibre
      BY <3>1 DEF SoloDe, Campos
    <3>. QED BY <2>1, <3>1, <3>2, BloqueLibre, Adentro DEF Regreso
  <2>. QED BY <2>2, <2>3
<1>3. CASE CreateAlta(h)
  <2>1. EnSeccion(h) /\ mux' = mux
    BY <1>3 DEF CreateAlta, EnSeccion
  <2>2. SoloDe(h) /\ Regreso(h)' /\ ~Reservando(h)'
    BY <1>3 DEF CreateAlta, Copiando, SoloDe, Campos, Regreso, Reservando
  <2>. QED BY <2>1, <2>2, Sigue
<1>4. CASE CreateFin(h)
  BY <1>4, CreateRespondido, Afuera DEF CreateFin, EnSeccion, Fuera, Pasos
<1>5. CASE Copiar(h)
  <2>1. mux' = mux /\ bitmap' = bitmap /\ loc[h].pc = "copiar"
    BY <1>5 DEF Copiar, estructuras
  <2>2. CASE Responder(h)
    BY <2>1, <2>2, Responde, Afuera DEF Fuera, Pasos
  <2>3. CASE ~Responder(h)
    <3>1. \/ loc' = [loc EXCEPT ![h].copias = Tail(@)]
          \/ loc' = [loc EXCEPT ![h].copias = <<>>, ![h].pc = loc[h].luego, ![h].luego = "libre"]
             /\ loc[h].luego # "libre"
      BY <1>5, <2>3 DEF Copiar
    <3>2. SoloDe(h) /\ Regreso(h)' /\ ~Reservando(h)'
      BY <2>1, <3>1 DEF SoloDe, Campos, Regreso, Reservando
    <3>3. CASE loc[h].luego = "createFin"
      BY <2>1, <3>2, <3>3, Sigue DEF EnSeccion
    <3>4. CASE loc[h].luego # "createFin"
      BY <2>1, <3>1, <3>2, <3>4, Afuera DEF SoloDe, Campos, Regreso, Fuera, Pasos
    <3>. QED BY <3>3, <3>4
  <2>. QED BY <2>2, <2>3
<1>6. CASE PedirBloque(h)
  <2>1. bitmap' = bitmap /\ loc[h].pc = "pedir" /\ mux = Nadie
    BY <1>6 DEF PedirBloque, estructuras
  <2>2. CASE Vuelve(h, FALSE) /\ mux' = mux
    BY <2>1, <2>2, Vuelto, Afuera, ZenonT(60) DEF Regreso, Fuera, Pasos
  <2>3. CASE ~(Vuelve(h, FALSE) /\ mux' = mux)
    <3>1. /\ BitLibre # FIN /\ mux' = h
          /\ loc' = [loc EXCEPT ![h].pc = "marcar", ![h].ant = loc[h].blk, ![h].blk = BitLibre]
      BY <1>6, <2>3 DEF PedirBloque
    <3>2. SoloDe(h) /\ loc'[h].pc = "marcar" /\ loc'[h].luego = loc[h].luego /\ loc'[h].blk = BitLibre
      BY <3>1 DEF SoloDe, Campos
    <3>. QED BY <2>1, <3>1, <3>2, BloqueLibre, Adentro DEF Regreso
  <2>. QED BY <2>2, <2>3
<1>7. CASE Marcar(h)
  BY <1>7, Afuera DEF Marcar, Ir, EnSeccion, SoloDe, Campos, Regreso, Fuera, Pasos
<1>8. CASE NuncaPedir(h)
  <2>1. bitmap' = bitmap /\ loc[h].pc = "nunca" /\ mux = Nadie /\ mux' = h
    BY <1>8 DEF NuncaPedir, estructuras
  <2>2. CASE Responder(h)
    BY <2>1, <2>2, Responde, Afuera DEF Fuera, Pasos
  <2>3. CASE ~Responder(h)
    <3>1. /\ BitLibre # FIN
          /\ loc' = [loc EXCEPT ![h].pc = "nuncaMarcar", ![h].ant = loc[h].blk, ![h].blk = BitLibre]
      BY <1>8, <2>3 DEF NuncaPedir
    <3>2. SoloDe(h) /\ loc'[h].pc = "nuncaMarcar" /\ loc'[h].luego = loc[h].luego /\ loc'[h].blk = BitLibre
      BY <3>1 DEF SoloDe, Campos
    <3>. QED BY <2>1, <3>1, <3>2, BloqueLibre, Adentro DEF Regreso
  <2>. QED BY <2>2, <2>3
<1>9. CASE NuncaMarcar(h)
  BY <1>9, Afuera DEF NuncaMarcar, Ir, EnSeccion, SoloDe, Campos, Regreso, Fuera, Pasos
<1>. QED BY <1>1, <1>2, <1>3, <1>4, <1>5, <1>6, <1>7, <1>8, <1>9

-----------------------------------------------------------------------------
\* Every step keeps the invariant.
LEMMA Conserva == IInv /\ [Next]_vars => IInv'
<1>1. CASE UNCHANGED vars
  BY <1>1 DEF vars, IInv, Forma, Regreso, Tomado, Hallado, EnSeccion, Reservando
<1>2. ASSUME IInv, NEW h \in Hilos, Pedir(h) \/ Hilo(h) \/ Morir(h) PROVE IInv'
  BY <1>2, PasoPedir, PasoMorir, PasoDirectorios, PasoUnlink, PasoArchivo, PasoTruncate, PasoSeccion DEF Hilo
<1>. QED BY <1>1, <1>2 DEF Next

\* In every behaviour of the server, whatever its clients ask for and in whatever
\* order its threads run, set_bitmap never meets a bit that is set: who finds a block
\* free in osada_create, osada_ftruncate or osada_write marks it before anybody else
\* finds it.
THEOREM ReservasSiempre == Spec => []Reservas
<1>1. Init => IInv
  BY Inicia
<1>2. IInv /\ [Next]_vars => IInv'
  BY Conserva
<1>3. IInv => Reservas
  BY Basta
<1>. QED BY <1>1, <1>2, <1>3, PTL DEF Spec

-----------------------------------------------------------------------------
(* The chains.  A step of the server changes one link of the FAT or none.  *)

\* What a thread may have left to copy.
Copias == {<<"bitmap", "tabla", "fat">>, <<"tabla", "fat">>, <<"bitmap", "fat">>, <<"fat">>,
           <<"bitmap", "tabla">>, <<"tabla">>}
CopiasBien(h) == loc[h].pc = "copiar" => loc[h].copias \in Copias
FormaFat == DOMAIN fat = Bloques /\ DOMAIN disco = {"tabla", "bitmap", "fat"}

CInv == Forma /\ FormaFat /\ (\A h \in Hilos : CopiasBien(h)) /\ SinCiclos

\* To end at more blocks is easier.
LEMMA Monotono ==
  ASSUME NEW f, NEW A, NEW B, A \subseteq B, Terminan(f, A)
  PROVE  Terminan(f, B)
BY DEF Terminan

\* A link to a block closes no cycle but through it.
LEMMA Liga ==
  ASSUME NEW f, NEW A, NEW a, NEW b, DOMAIN f = Bloques, Terminan(f, A)
  PROVE  Terminan([f EXCEPT ![a] = b], A \cup {b})
<1>. DEFINE g == [f EXCEPT ![a] = b]
<1>1. \A x \in Bloques : g[x] = IF x = a THEN b ELSE f[x]
  OBVIOUS
<1>. HIDE DEF g
<1>2. ASSUME NEW S \in SUBSET Bloques, S # {}
      PROVE  \E x \in S : g[x] \notin S \/ x \in A \cup {b}
  <2>1. CASE b \in S
    BY <2>1
  <2>2. CASE b \notin S
    <3>1. PICK x \in S : f[x] \notin S \/ x \in A
      BY <1>2 DEF Terminan
    <3>2. g[x] \notin S \/ x \in A \cup {b}
      BY <3>1, <2>2, <1>1
    <3>. QED BY <3>2
  <2>. QED BY <2>1, <2>2
<1>3. Terminan(g, A \cup {b})
  BY <1>2 DEF Terminan
<1>. QED BY <1>3 DEF g

\* A block where the chain ends needs no exception.
LEMMA Corta ==
  ASSUME NEW f, NEW A, NEW b, DOMAIN f = Bloques, Terminan(f, A \cup {b})
  PROVE  Terminan([f EXCEPT ![b] = FIN], A)
<1>. DEFINE g == [f EXCEPT ![b] = FIN]
<1>1. \A x \in Bloques : g[x] = IF x = b THEN FIN ELSE f[x]
  OBVIOUS
<1>2. FIN \notin Bloques
  BY SupuestoOsada DEF FIN, Bloques
<1>. HIDE DEF g
<1>3. ASSUME NEW S \in SUBSET Bloques, S # {}
      PROVE  \E x \in S : g[x] \notin S \/ x \in A
  <2>1. PICK x \in S : f[x] \notin S \/ x \in A \cup {b}
    BY <1>3 DEF Terminan
  <2>2. g[x] \notin S \/ x \in A
    BY <2>1, <1>1, <1>2
  <2>. QED BY <2>2
<1>4. Terminan(g, A)
  BY <1>3 DEF Terminan
<1>. QED BY <1>4 DEF g

\* Where a thread is not linking a block nor copying.
Tranquilo(h) == loc[h].pc \notin {"terminar", "copiar"}

\* The exceptions of the other threads stay.
LEMMA Excepciones ==
  ASSUME NEW h \in Hilos, SoloDe(h)
  PROVE  /\ EnObra \subseteq EnObra' \cup {loc[h].blk}
         /\ loc[h].pc # "terminar" => EnObra \subseteq EnObra'
         /\ loc'[h].pc = "terminar" => loc'[h].blk \in EnObra'
<1>1. \A g \in Hilos \ {h} : loc'[g] = loc[g]
  BY DEF SoloDe
<1>2. \A x \in EnObra : \E g \in Hilos : loc[g].pc = "terminar" /\ x = loc[g].blk
  BY DEF EnObra
<1>3. \A g \in Hilos : loc'[g].pc = "terminar" => loc'[g].blk \in EnObra'
  BY DEF EnObra
<1>4. \A x \in EnObra : x \in EnObra' \/ (x = loc[h].blk /\ loc[h].pc = "terminar")
  BY <1>1, <1>2, <1>3
<1>. QED BY <1>3, <1>4

\* A step that does not touch the FAT nor the image.
LEMMA Quieto ==
  ASSUME CInv, NEW h \in Hilos, SoloDe(h), Tranquilo(h), CopiasBien(h)',
         fat' = fat, disco' = disco
  PROVE  CInv'
<1>1. EnObra \subseteq EnObra'
  BY Excepciones DEF Tranquilo
<1>2. Terminan(fat, EnObra')
  BY <1>1, Monotono DEF CInv, SinCiclos
<1>3. SinCiclos'
  BY <1>2 DEF SinCiclos, Terminan
<1>4. \A g \in Hilos : CopiasBien(g)'
  BY DEF CInv, SoloDe, CopiasBien
<1>. QED BY <1>3, <1>4 DEF CInv, Forma, FormaFat, SoloDe

\* A step that ends a chain.
LEMMA Acorta ==
  ASSUME CInv, NEW h \in Hilos, SoloDe(h), Tranquilo(h), CopiasBien(h)', NEW b,
         fat' = [fat EXCEPT ![b] = FIN], disco' = disco
  PROVE  CInv'
<1>1. EnObra \subseteq EnObra'
  BY Excepciones DEF Tranquilo
<1>2. Terminan(fat, EnObra' \cup {b})
  BY <1>1, Monotono DEF CInv, SinCiclos
<1>3. Terminan([fat EXCEPT ![b] = FIN], EnObra')
  BY <1>2, Corta DEF CInv, FormaFat
<1>4. SinCiclos'
  BY <1>2, <1>3 DEF SinCiclos, Terminan
<1>5. \A g \in Hilos : CopiasBien(g)'
  BY DEF CInv, SoloDe, CopiasBien
<1>6. DOMAIN fat' = Bloques
  BY DEF CInv, FormaFat
<1>. QED BY <1>4, <1>5, <1>6 DEF CInv, Forma, FormaFat, SoloDe

\* The first write of a new link.
LEMMA Alarga ==
  ASSUME CInv, NEW h \in Hilos, SoloDe(h), Tranquilo(h), loc'[h].pc = "terminar", NEW a,
         fat' = [fat EXCEPT ![a] = loc'[h].blk], disco' = disco
  PROVE  CInv'
<1>. DEFINE b == loc'[h].blk
<1>1. EnObra \cup {b} \subseteq EnObra'
  BY Excepciones DEF Tranquilo
<1>2. Terminan([fat EXCEPT ![a] = b], EnObra \cup {b})
  BY Liga DEF CInv, FormaFat, SinCiclos
<1>3. Terminan(fat', EnObra')
  BY <1>1, <1>2, Monotono DEF CInv, SinCiclos
<1>4. SinCiclos'
  BY <1>3 DEF SinCiclos, Terminan
<1>5. \A g \in Hilos : CopiasBien(g)'
  BY DEF CInv, SoloDe, CopiasBien
<1>6. DOMAIN fat' = Bloques
  BY DEF CInv, FormaFat
<1>. QED BY <1>4, <1>5, <1>6 DEF CInv, Forma, FormaFat, SoloDe

\* The second write: the chain ends at the new block.
LEMMA PasoTerminar == ASSUME CInv, NEW h \in Hilos, Terminar(h) PROVE CInv'
<1>1. /\ SoloDe(h) /\ loc'[h].pc = "copiar" /\ loc'[h].copias = <<"bitmap", "fat">>
      /\ loc'[h].blk = loc[h].blk
      /\ fat' = [fat EXCEPT ![loc[h].blk] = FIN] /\ disco' = disco
  BY DEF Terminar, SoloDe, CInv, Forma, Campos
<1>3. EnObra \subseteq EnObra' \cup {loc[h].blk}
  BY <1>1, Excepciones
<1>4. Terminan(fat, EnObra' \cup {loc[h].blk})
  BY <1>3, Monotono DEF CInv, SinCiclos
<1>5. Terminan([fat EXCEPT ![loc[h].blk] = FIN], EnObra')
  BY <1>4, Corta DEF CInv, FormaFat
<1>6. SinCiclos'
  BY <1>1, <1>4, <1>5 DEF SinCiclos, Terminan
<1>7. \A g \in Hilos : CopiasBien(g)'
  BY <1>1 DEF CInv, SoloDe, CopiasBien, Copias
<1>8. DOMAIN fat' = Bloques
  BY <1>1 DEF CInv, FormaFat
<1>. QED BY <1>1, <1>6, <1>7, <1>8 DEF CInv, Forma, FormaFat, SoloDe

\* What is left after the first of the copies.
LEMMA CopiasSiguen ==
  ASSUME NEW c \in Copias
  PROVE  /\ Head(c) \in {"tabla", "bitmap", "fat"} /\ Len(c) > 0
         /\ Len(c) > 1 => Tail(c) \in Copias /\ Last(Tail(c)) = Last(c) /\ Head(c) # "fat"
         /\ ~(Len(c) > 1) => Last(c) = Head(c)
<1>1. CASE c = <<"bitmap", "tabla", "fat">>
  BY <1>1, Tail(c) = <<"tabla", "fat">> DEF Copias, Last
<1>2. CASE c = <<"tabla", "fat">>
  BY <1>2, Tail(c) = <<"fat">> DEF Copias, Last
<1>3. CASE c = <<"bitmap", "fat">>
  BY <1>3, Tail(c) = <<"fat">> DEF Copias, Last
<1>4. CASE c = <<"fat">> \/ c = <<"tabla">>
  BY <1>4 DEF Last
<1>5. CASE c = <<"bitmap", "tabla">>
  BY <1>5, Tail(c) = <<"tabla">> DEF Copias, Last
<1>. QED BY <1>1, <1>2, <1>3, <1>4, <1>5 DEF Copias

\* A copy to the image changes nothing of this.
LEMMA PasoCopiar == ASSUME CInv, IInv, NEW h \in Hilos, Copiar(h) PROVE CInv'
<1>. DEFINE c == loc[h].copias
<1>1. /\ loc[h].pc = "copiar" /\ c \in Copias /\ fat' = fat
      /\ disco' = [disco EXCEPT ![Head(c)] = [tabla |-> tabla, bitmap |-> bitmap, fat |-> fat][Head(c)]]
  BY DEF Copiar, En, estructuras, CInv, CopiasBien
<1>2. \/ Len(c) > 1 /\ loc' = [loc EXCEPT ![h].copias = Tail(@)]
      \/ ~(Len(c) > 1) /\ Responder(h)
      \/ ~(Len(c) > 1) /\ loc' = [loc EXCEPT ![h].copias = <<>>, ![h].pc = loc[h].luego, ![h].luego = "libre"]
  BY DEF Copiar
<1>3. SoloDe(h)
  BY <1>2, Responde DEF CInv, Forma, SoloDe, Campos
<1>4. CopiasBien(h)' /\ (Len(c) > 1 => loc'[h].blk = loc[h].blk /\ loc'[h].pc = "copiar" /\ loc'[h].copias = Tail(c))
  <2>1. CASE Len(c) > 1
    BY <1>1, <1>2, <2>1, CopiasSiguen, ZenonT(60) DEF CInv, Forma, CopiasBien, Campos
  <2>2. CASE ~(Len(c) > 1) /\ Responder(h)
    BY <2>2, Responde DEF CInv, CopiasBien
  <2>3. CASE ~(Len(c) > 1) /\ ~Responder(h)
    BY <1>2, <2>3 DEF CInv, IInv, Forma, Regreso, CopiasBien, Campos
  <2>. QED BY <1>2, <2>1, <2>2, <2>3
<1>5. \A g \in Hilos : CopiasBien(g)'
  BY <1>3, <1>4 DEF CInv, SoloDe, CopiasBien
<1>6. DOMAIN disco' = {"tabla", "bitmap", "fat"} /\ EnObra \subseteq EnObra'
  BY <1>1, <1>3, Excepciones DEF CInv, FormaFat
<1>7. SinCiclos'
  <2>1. Terminan(fat, EnObra')
    BY <1>6, Monotono DEF CInv, SinCiclos
  <2>. QED BY <1>1, <2>1 DEF SinCiclos, Terminan
<1>. QED BY <1>1, <1>3, <1>5, <1>6, <1>7 DEF CInv, Forma, FormaFat, SoloDe

-----------------------------------------------------------------------------
\* Every chain of a server that has just formatted its image is one block.
LEMMA IniciaSinCiclos == Init => CInv
<1>. SUFFICES ASSUME Init PROVE CInv
  OBVIOUS
<1>1. Forma /\ FormaFat /\ \A h \in Hilos : CopiasBien(h)
  BY OciosoForma DEF Init, Forma, FormaFat, CopiasBien
<1>2. disco.fat = fat /\ \A b \in Bloques : fat[b] = FIN
  BY DEF Init
<1>3. FIN \notin Bloques
  BY SupuestoOsada DEF FIN, Bloques
<1>4. \A salvo : Terminan(fat, salvo)
  BY <1>2, <1>3 DEF Terminan
<1>. QED BY <1>1, <1>2, <1>4 DEF CInv, SinCiclos

\* A client asks.
LEMMA PedirSinCiclos == ASSUME CInv, NEW h \in Hilos, Pedir(h) PROVE CInv'
<1>1. fat' = fat /\ disco' = disco /\ loc[h].pc = "libre"
  BY DEF Pedir, PedirNuevo, PedirRename, PedirRmdir, PedirUnlink, PedirUtimens, PedirTruncate,
         PedirOpen, PedirWrite, PedirRelease, Pide, estructuras, En
<1>2. PICK m, op : /\ DOMAIN m = Campos /\ op # "copiar"
                   /\ loc' = [loc EXCEPT ![h] = [m EXCEPT !.pc = op]]
  BY OciosoForma DEF Pedir, PedirNuevo, PedirRename, PedirRmdir, PedirUnlink, PedirUtimens, PedirTruncate,
         PedirOpen, PedirWrite, PedirRelease, Pide, Campos
<1>3. SoloDe(h) /\ CopiasBien(h)'
  BY <1>2 DEF CInv, Forma, SoloDe, Campos, CopiasBien
<1>. QED BY <1>1, <1>3, Quieto DEF Tranquilo

\* A client is killed.
LEMMA MorirSinCiclos == ASSUME CInv, NEW h \in Hilos, Morir(h) PROVE CInv'
<1>1. /\ loc' = [loc EXCEPT ![h] = [Ocioso EXCEPT !.pc = "muerto"]]
      /\ fat' = fat /\ disco' = disco /\ Tranquilo(h)
  BY DEF Morir, estructuras, En, Tranquilo
<1>2. SoloDe(h) /\ loc'[h].pc = "muerto"
  BY <1>1, OciosoForma DEF CInv, Forma, SoloDe, Campos
<1>. QED BY <1>1, <1>2, Quieto DEF CopiasBien

\* An answer touches nothing of this.
LEMMA RespondeSinCiclos ==
  ASSUME CInv, NEW h \in Hilos, Tranquilo(h), fat' = fat, disco' = disco,
         Responder(h) \/ (\E ok : CreateResponde(h, ok)) \/ (\E ok \in BOOLEAN : Vuelve(h, ok))
  PROVE  CInv'
<1>1. SoloDe(h) /\ loc'[h].pc # "copiar"
  BY Responde, CreateRespondido, Vuelto DEF CInv
<1>. QED BY <1>1, Quieto DEF CopiasBien

\* osada_mkdir, osada_create, osada_rmdir, osada_rename and osada_utimens.
LEMMA DirectoriosSinCiclos ==
  ASSUME CInv, NEW h \in Hilos,
         Mkdir(h) \/ MkdirMux(h) \/ Create(h) \/ CreateMux(h) \/ CreateFin(h)
         \/ Rmdir(h) \/ RmdirBaja(h) \/ Rename(h) \/ RenameAlta(h) \/ Utimens(h)
  PROVE  CInv'
<1>1. Tranquilo(h) /\ fat' = fat /\ disco' = disco
  BY DEF En, Mkdir, MkdirMux, Create, CreateMux, CreateFin, Rmdir, RmdirBaja, Rename,
         RenameAlta, Utimens, estructuras, Tranquilo
<1>0. CASE Responder(h) \/ \E ok : CreateResponde(h, ok)
  BY <1>0, <1>1, RespondeSinCiclos
<1> USE DEF CInv, Forma
<1>2. CASE Mkdir(h) \/ Create(h)
  BY <1>0, <1>1, <1>2, Quieto DEF Mkdir, Create, SoloDe, Campos, CopiasBien
<1>3. CASE MkdirMux(h)
  BY <1>0, <1>1, <1>3, Quieto DEF MkdirMux, Copiando, SoloDe, Campos, CopiasBien, Copias
<1>4. CASE CreateMux(h)
  <2>1. CASE ~CreateResponde(h, "fallo")
    <3>1. PICK i : loc' = [loc EXCEPT ![h].pc = "createAlta", ![h].pos = i, ![h].blk = BitLibre]
      BY <1>4, <2>1 DEF CreateMux
    <3>2. SoloDe(h) /\ loc'[h].pc = "createAlta"
      BY <3>1 DEF SoloDe, Campos
    <3>. QED BY <3>2, <1>1, Quieto DEF CopiasBien
  <2>. QED BY <2>1, <1>0
<1>5. CASE CreateFin(h)
  BY <1>0, <1>5 DEF CreateFin
<1>6. CASE Rmdir(h) \/ Rename(h)
  BY <1>0, <1>1, <1>6, Quieto DEF Rmdir, Rename, SoloDe, Campos, CopiasBien
<1>7. CASE RmdirBaja(h)
  BY <1>0, <1>1, <1>7, Quieto DEF RmdirBaja, Copiando, SoloDe, Campos, CopiasBien, Copias
<1>8. CASE RenameAlta(h)
  <2>1. Responder(h) \/ Copiando(h, <<"tabla">>, "libre")
    BY <1>8 DEF RenameAlta
  <2>. QED BY <2>1, <1>0, <1>1, Quieto DEF Copiando, SoloDe, Campos, CopiasBien, Copias
<1>9. CASE Utimens(h)
  BY <1>0, <1>1, <1>9, Quieto DEF Utimens, Copiando, SoloDe, Campos, CopiasBien, Copias
<1>. QED BY <1>2, <1>3, <1>4, <1>5, <1>6, <1>7, <1>8, <1>9

\* osada_unlink: it clears the bits and leaves the links.
LEMMA UnlinkSinCiclos ==
  ASSUME CInv, NEW h \in Hilos,
         Unlink(h) \/ UnlinkBaja(h) \/ UnlinkPrimero(h) \/ UnlinkLimpiar(h) \/ UnlinkSeguir(h)
  PROVE  CInv'
<1>1. Tranquilo(h) /\ fat' = fat /\ disco' = disco
  BY DEF En, Unlink, UnlinkBaja, UnlinkPrimero, UnlinkLimpiar, UnlinkSeguir, estructuras, Tranquilo
<1>0. CASE Responder(h)
  BY <1>0, <1>1, RespondeSinCiclos
<1> USE DEF CInv, Forma
<1>2. CASE Unlink(h)
  BY <1>0, <1>1, <1>2, Quieto DEF Unlink, SoloDe, Campos, CopiasBien
<1>3. CASE UnlinkBaja(h) \/ UnlinkLimpiar(h)
  BY <1>0, <1>1, <1>3, Quieto DEF UnlinkBaja, UnlinkLimpiar, Ir, SoloDe, Campos, CopiasBien
<1>4. CASE UnlinkPrimero(h) \/ UnlinkSeguir(h)
  <2>1. PICK b : UnlinkSigue(h, b)
    BY <1>4 DEF UnlinkPrimero, UnlinkSeguir
  <2>. DEFINE q == IF b = FIN THEN "copiar" ELSE "unlinkLimpiar"
              c == IF b = FIN THEN <<"bitmap", "tabla">> ELSE <<>>
  <2>2. /\ loc' = [loc EXCEPT ![h].blk = b, ![h].pc = q, ![h].copias = c]
        /\ q = "copiar" => c \in Copias
    BY <2>1 DEF UnlinkSigue, Copias
  <2>. HIDE DEF q, c
  <2>. QED BY <1>1, <2>2, Quieto DEF SoloDe, Campos, CopiasBien
<1>. QED BY <1>2, <1>3, <1>4

\* osada_open, osada_release and osada_write, but for the links.
LEMMA ArchivoSinCiclos ==
  ASSUME CInv, NEW h \in Hilos,
         Open(h) \/ OpenTomar(h) \/ Release(h) \/ ReleaseSoltar(h) \/ Write(h)
         \/ WriteIr(h) \/ Escribir(h) \/ NuncaPedir(h) \/ NuncaMarcar(h) \/ NuncaSeguir(h)
  PROVE  CInv'
<1>1. Tranquilo(h) /\ fat' = fat /\ disco' = disco
  BY DEF En, Open, OpenTomar, Release, ReleaseSoltar, Write, WriteIr, Escribir, NuncaPedir,
         NuncaMarcar, NuncaSeguir, estructuras, Tranquilo
<1>0. CASE Responder(h)
  BY <1>0, <1>1, RespondeSinCiclos
<1> USE DEF CInv, Forma
<1>2. CASE Open(h)
  BY <1>0, <1>1, <1>2, Quieto DEF Open, OpenResponde, SoloDe, Campos, CopiasBien
<1>3. CASE OpenTomar(h)
  BY <1>0, <1>1, <1>3, Quieto DEF OpenTomar, OpenResponde, SoloDe, Campos, CopiasBien
<1>4. CASE Release(h) \/ ReleaseSoltar(h)
  BY <1>0, <1>1, <1>4, Quieto DEF Release, ReleaseSoltar, SoloDe, Campos, CopiasBien
<1>5. CASE Write(h)
  BY <1>0, <1>1, <1>5, Quieto DEF Write, SoloDe, Campos, CopiasBien
<1>6. CASE WriteIr(h)
  BY <1>0, <1>1, <1>6, Quieto DEF WriteIr, En, SoloDe, Campos, CopiasBien
<1>7. CASE Escribir(h)
  BY <1>0, <1>1, <1>7, Quieto DEF Escribir, En, Ir, SoloDe, Campos, CopiasBien
<1>8. CASE NuncaPedir(h) \/ NuncaMarcar(h)
  BY <1>0, <1>1, <1>8, Quieto DEF NuncaPedir, NuncaMarcar, Ir, SoloDe, Campos, CopiasBien
<1>9. CASE NuncaSeguir(h)
  BY <1>1, <1>9, Quieto DEF NuncaSeguir, En, SoloDe, Campos, CopiasBien
<1>. QED BY <1>2, <1>3, <1>4, <1>5, <1>6, <1>7, <1>8, <1>9

\* osada_ftruncate, but for the links.
LEMMA TruncateSinCiclos ==
  ASSUME CInv, NEW h \in Hilos,
         Truncate(h) \/ Cola(h) \/ PedirBloque(h) \/ Marcar(h) \/ Limpiar(h) \/ Tamanio(h) \/ Truncado(h)
  PROVE  CInv'
<1>1. Tranquilo(h) /\ fat' = fat /\ disco' = disco
  BY DEF En, Truncate, Cola, PedirBloque, Marcar, Limpiar, Tamanio, Truncado, estructuras, Tranquilo
<1>0. CASE \E ok \in BOOLEAN : Vuelve(h, ok)
  BY <1>0, <1>1, RespondeSinCiclos
<1> USE DEF CInv, Forma
<1>2. CASE Truncate(h)
  <2>1. CASE ~\E ok \in BOOLEAN : Vuelve(h, ok)
    <3>1. \E i, abm : loc' = [loc EXCEPT ![h].pc = "cola", ![h].pos = i, ![h].abm = abm]
      BY <1>2, <2>1, ZenonT(60) DEF Truncate
    <3>. QED BY <3>1, <1>1, Quieto DEF SoloDe, Campos, CopiasBien
  <2>. QED BY <2>1, <1>0
<1>3. CASE Cola(h)
  <2>1. CASE loc' = loc
    BY <2>1, <1>1, Quieto DEF SoloDe, CopiasBien, Tranquilo
  <2>2. CASE loc' # loc
    <3>1. PICK k \in Ultimo(tabla[loc[h].pos].primero) :
            loc' = [loc EXCEPT
              ![h].blk = Bloque(tabla[loc[h].pos].primero, k),
              ![h].ant = IF k = 0 THEN FIN ELSE Bloque(tabla[loc[h].pos].primero, k - 1),
              ![h].abm = IF @ < 0 /\ k = 0 THEN @ + 1 ELSE @,
              ![h].pc = IF loc[h].abm > 0 THEN "pedir" ELSE IF k > 0 THEN "limpiar" ELSE "cola"]
      BY <1>3, <2>2 DEF Cola
    <3>2. SoloDe(h) /\ loc'[h].pc \in {"pedir", "limpiar", "cola"}
      BY <3>1 DEF SoloDe, Campos
    <3>. QED BY <3>2, <1>1, Quieto DEF CopiasBien
  <2>. QED BY <2>1, <2>2
<1>4. CASE PedirBloque(h)
  <2>1. CASE ~Vuelve(h, FALSE)
    <3>1. loc' = [loc EXCEPT ![h].pc = "marcar", ![h].ant = loc[h].blk, ![h].blk = BitLibre]
      BY <1>4, <2>1 DEF PedirBloque
    <3>2. SoloDe(h) /\ loc'[h].pc = "marcar"
      BY <3>1 DEF SoloDe, Campos
    <3>. QED BY <3>2, <1>1, Quieto DEF CopiasBien
  <2>. QED BY <2>1, <1>0
<1>5. CASE Marcar(h) \/ Limpiar(h)
  BY <1>1, <1>5, Quieto DEF Marcar, Limpiar, Ir, SoloDe, Campos, CopiasBien
<1>6. CASE Tamanio(h)
  BY <1>1, <1>6, Quieto DEF Tamanio, Copiando, SoloDe, Campos, CopiasBien, Copias
<1>7. CASE Truncado(h)
  BY <1>0, <1>7 DEF Truncado
<1>. QED BY <1>2, <1>3, <1>4, <1>5, <1>6, <1>7

\* The links of osada_create, osada_ftruncate and osada_write.
LEMMA EnlacesSinCiclos ==
  ASSUME CInv, NEW h \in Hilos,
         CreateAlta(h) \/ Cortar(h) \/ Enlazar(h) \/ NuncaEnlazar(h)
  PROVE  CInv'
<1>1. Tranquilo(h) /\ disco' = disco
  BY DEF En, CreateAlta, Cortar, Enlazar, NuncaEnlazar, Tranquilo
<1> USE DEF CInv, Forma
<1>2. CASE CreateAlta(h)
  <2>1. SoloDe(h) /\ CopiasBien(h)' /\ fat' = [fat EXCEPT ![loc[h].blk] = FIN]
    BY <1>2 DEF CreateAlta, Copiando, SoloDe, Campos, CopiasBien, Copias
  <2>. QED BY <1>1, <2>1, Acorta
<1>3. CASE Cortar(h)
  <2>1. SoloDe(h) /\ CopiasBien(h)' /\ fat' = [fat EXCEPT ![loc[h].ant] = FIN]
    BY <1>3 DEF Cortar, SoloDe, Campos, CopiasBien, Copias
  <2>. QED BY <1>1, <2>1, Acorta
<1>4. CASE Enlazar(h) \/ NuncaEnlazar(h)
  <2>1. /\ SoloDe(h) /\ CopiasBien(h)' /\ loc'[h].pc = "terminar" /\ loc'[h].blk = loc[h].blk
        /\ fat' = [fat EXCEPT ![loc[h].ant] = loc[h].blk]
    BY <1>4 DEF Enlazar, NuncaEnlazar, SoloDe, Campos, CopiasBien
  <2>. QED BY <1>1, <2>1, Alarga
<1>. QED BY <1>2, <1>3, <1>4

\* Every step keeps the chains without cycles.
LEMMA SigueSinCiclos == IInv /\ CInv /\ [Next]_vars => CInv'
<1>1. CASE UNCHANGED vars
  BY <1>1 DEF vars, CInv, Forma, FormaFat, CopiasBien, SinCiclos, Terminan, EnObra
<1>2. ASSUME IInv, CInv, NEW h \in Hilos, Pedir(h) \/ Hilo(h) \/ Morir(h) PROVE CInv'
  BY <1>2, PedirSinCiclos, MorirSinCiclos, DirectoriosSinCiclos, UnlinkSinCiclos, ArchivoSinCiclos,
     TruncateSinCiclos, EnlacesSinCiclos, PasoTerminar, PasoCopiar DEF Hilo
<1>. QED BY <1>1, <1>2 DEF Next

\* In every behaviour of the server, with any clients, files and blocks, each loop that
\* follows a chain of fat_osada comes to its end, but through a block that is being linked.
THEOREM SinCiclosSiempre == Spec => []SinCiclos
<1>1. Init => IInv /\ CInv
  BY Inicia, IniciaSinCiclos
<1>2. IInv /\ CInv /\ [Next]_vars => (IInv /\ CInv)'
  BY Conserva, SigueSinCiclos
<1>3. CInv => SinCiclos
  BY DEF CInv
<1>. QED BY <1>1, <1>2, <1>3, PTL DEF Spec
-----------------------------------------------------------------------------
(* What the walks over the table and over the FAT find. *)

\* is_parent in a table t, and block k of a chain in a FAT f.
PadreEn(t, ruta) ==
  LET f[k \in 0..Len(ruta)] ==
        IF k = 0 THEN Raiz
        ELSE IF f[k - 1] = NoEsta THEN NoEsta
        ELSE Primera({i \in Entradas : t[i].nombre = ruta[k] /\ t[i].padre = f[k - 1]})
  IN f[Len(ruta)]

BloqueEn(f, b, k) ==
  LET g[j \in Nat] ==
        IF j = 0 THEN b ELSE IF g[j - 1] = FIN THEN FIN ELSE f[g[j - 1]]
  IN g[k]

LEMMA Paseos ==
  /\ \A ruta : is_parent(ruta) = PadreEn(tabla, ruta)
  /\ \A b, k : Bloque(b, k) = BloqueEn(fat, b, k)
BY DEF is_parent, PadreEn, Bloque, BloqueEn

\* The first of the entries that a walk may take, if there is one.
LEMMA PrimeraDe ==
  ASSUME NEW S \in SUBSET Entradas
  PROVE  /\ Primera(S) \in Entradas \cup {NoEsta} /\ NoEsta \notin Entradas
         /\ Primera(S) = NoEsta <=> S = {}
         /\ S # {} => Primera(S) \in S /\ \A i \in S : Primera(S) <= i
<1>1. S \in SUBSET Nat /\ NoEsta \notin Entradas
  BY SupuestoOsada DEF Entradas, NoEsta
<1>2. CASE S = {}
  BY <1>1, <1>2 DEF Primera
<1>3. CASE S # {}
  <2>1. Min(S) \in S /\ \A i \in S : Min(S) <= i
    BY <1>1, <1>3, Minimo
  <2>2. Primera(S) = Min(S)
    BY <1>3 DEF Primera
  <2>. QED BY <1>1, <1>3, <2>1, <2>2
<1>. QED BY <1>2, <1>3

\* f is the walk of is_parent along a path.
Lugares == Entradas \cup {Raiz, NoEsta}
Hijas(t, n, p) == {i \in Entradas : t[i].nombre = n /\ t[i].padre = p}
Baja(t, ruta, f) ==
  /\ f[0] = Raiz
  /\ \A k \in 1..Len(ruta) : f[k - 1] \in Lugares
       /\ f[k] = IF f[k - 1] = NoEsta THEN NoEsta ELSE Primera(Hijas(t, ruta[k], f[k - 1]))

LEMMA PadreBaja ==
  ASSUME NEW t, NEW ruta, Len(ruta) \in Nat
  PROVE  \E f : Baja(t, ruta, f) /\ PadreEn(t, ruta) = f[Len(ruta)]
<1>. DEFINE n == Len(ruta)
            Paso(k, p) == IF p = NoEsta THEN NoEsta ELSE Primera(Hijas(t, ruta[k], p))
            F == [x \in Nat \X Lugares |-> Paso(x[1] + 1, x[2])]
            R(f) == f = [k \in 0..n |->
                          IF k = 0 THEN Raiz
                          ELSE IF f[k - 1] = NoEsta THEN NoEsta
                          ELSE Primera({i \in Entradas : t[i].nombre = ruta[k] /\ t[i].padre = f[k - 1]})]
            Q(f) == f = [k \in 0..n |-> IF k = 0 THEN Raiz ELSE Paso(k, f[k - 1])]
<1>1. \A k, p : Paso(k, p) \in Lugares
  <2>1. \A k, p : Hijas(t, ruta[k], p) \in SUBSET Entradas
    BY DEF Hijas
  <2>. QED BY <2>1, PrimeraDe DEF Lugares
<1>2. \A f : Q(f) <=> R(f)
  BY DEF Hijas
<1>. HIDE DEF Paso
<1>3. F \in [Nat \X Lugares -> Lugares] /\ Raiz \in Lugares
  BY <1>1 DEF Lugares
<1>4. \A k \in Nat, p \in Lugares : F[k, p] = Paso(k + 1, p)
  OBVIOUS
<1>. HIDE DEF F
<1>5. PICK g \in [Nat -> Lugares] : g[0] = Raiz /\ \A j \in Nat : g[j + 1] = F[j, g[j]]
  <2>1. \E g \in [Nat -> Lugares] : IteraSiempre(g, Raiz, F)
    BY <1>3, HayItera, Zenon
  <2>. QED BY <2>1 DEF IteraSiempre
<1>6. \A j \in Nat : g[j] \in Lugares /\ g[j + 1] = Paso(j + 1, g[j])
  BY <1>4, <1>5
<1>7. PICK h : h = [k \in 0..n |-> g[k]]
  OBVIOUS
<1>8. Q(h)
  <2>1. ASSUME NEW k \in 0..n, k # 0
        PROVE  h[k] = Paso(k, h[k - 1])
    <3>1. k - 1 \in Nat /\ k - 1 \in 0..n /\ (k - 1) + 1 = k
      BY <2>1
    <3>2. g[(k - 1) + 1] = Paso((k - 1) + 1, g[k - 1])
      BY <1>6, <3>1
    <3>. QED BY <1>7, <3>1, <3>2
  <2>2. n \in Nat /\ h[0] = Raiz
    <3>1. n \in Nat /\ 0 \in 0..n
      OBVIOUS
    <3>. QED BY <1>5, <1>7, <3>1
  <2>. HIDE DEF n
  <2>. QED BY <1>7, <2>1, <2>2
<1>. HIDE DEF Q
<1>9. R(h)
  BY <1>2, <1>8
<1>10. R(CHOOSE f : R(f)) /\ PadreEn(t, ruta) = (CHOOSE f : R(f))[n]
  BY <1>9, ZenonT(60) DEF PadreEn
<1>. HIDE DEF R
<1>11. PICK f : R(f) /\ PadreEn(t, ruta) = f[n]
  BY <1>10
<1>12. f = [k \in 0..n |-> IF k = 0 THEN Raiz ELSE Paso(k, f[k - 1])]
  BY <1>2, <1>11 DEF Q
<1>13. f[0] = Raiz /\ \A k \in 1..n : f[k] = Paso(k, f[k - 1])
  <2>1. 0 \in 0..n /\ \A k \in 1..n : k \in 0..n /\ k # 0
    OBVIOUS
  <2>. QED BY <1>12, <2>1
<1>14. \A k \in 1..n : f[k - 1] \in Lugares
  <2>1. ASSUME NEW k \in 1..n
        PROVE  f[k - 1] \in Lugares
    <3>1. CASE k - 1 = 0
      BY <1>3, <1>13, <3>1
    <3>2. CASE k - 1 # 0
      <4>1. k - 1 \in 1..n
        BY <3>2
      <4>. QED BY <1>1, <1>13, <4>1
    <3>. QED BY <3>1, <3>2
  <2>. QED BY <2>1
<1>15. Baja(t, ruta, f)
  BY <1>13, <1>14 DEF Baja, Paso
<1>. QED BY <1>11, <1>15

\* Two walks along the same names go the same way.
LEMMA BajaUna ==
  ASSUME NEW t, NEW r, NEW q, NEW f, NEW g, Baja(t, r, f), Baja(t, q, g),
         NEW n \in Nat, Len(r) \in Nat, Len(q) \in Nat, n <= Len(r), n <= Len(q),
         \A k \in 1..n : r[k] = q[k]
  PROVE  \A k \in 0..n : f[k] = g[k]
<1>. DEFINE T == {k \in Nat : k <= n => f[k] = g[k]}
<1>1. 0 \in T
  BY DEF Baja
<1>2. ASSUME NEW k \in T
      PROVE  k + 1 \in T
  <2>1. k \in Nat /\ k + 1 \in Nat /\ (k <= n => f[k] = g[k])
    OBVIOUS
  <2>2. ASSUME k + 1 <= n
        PROVE  f[k + 1] = g[k + 1]
    <3>1. /\ k <= n /\ k + 1 \in 1..n /\ k + 1 \in 1..Len(r) /\ k + 1 \in 1..Len(q)
          /\ (k + 1) - 1 = k
      BY <2>1, <2>2
    <3>2. r[k + 1] = q[k + 1] /\ f[k] = g[k]
      BY <2>1, <3>1
    <3>3. /\ f[k + 1] = IF f[k] = NoEsta THEN NoEsta ELSE Primera(Hijas(t, r[k + 1], f[k]))
          /\ g[k + 1] = IF g[k] = NoEsta THEN NoEsta ELSE Primera(Hijas(t, q[k + 1], g[k]))
      BY <3>1 DEF Baja
    <3>. QED BY <3>2, <3>3
  <2>. QED BY <2>1, <2>2
<1>3. T = Nat
  <2>. HIDE DEF T
  <2>1. T \in SUBSET Nat
    BY DEF T
  <2>. QED BY <1>1, <1>2, <2>1, Todos
<1>. QED BY <1>3

\* All of a path but its last name.
LEMMA FrenteDe ==
  ASSUME NEW V, NEW s \in Seq(V), s # <<>>
  PROVE  /\ Front(s) \in Seq(V) /\ Len(Front(s)) = Len(s) - 1 /\ Len(s) \in Nat \ {0}
         /\ \A k \in 1..Len(s) - 1 : Front(s)[k] = s[k]
         /\ Last(s) = s[Len(s)] /\ Last(s) \in V
<1>1. Len(s) \in Nat \ {0}
  OBVIOUS
<1>2. /\ Front(s) \in Seq(V)
      /\ Len(Front(s)) = IF 1 <= Len(s) - 1 THEN (Len(s) - 1) - 1 + 1 ELSE 0
      /\ \A k \in 1..(Len(s) - 1) - 1 + 1 : Front(s)[k] = s[1 + k - 1]
  <2>1. 1 \in 1..Len(s) + 1 /\ Len(s) - 1 \in 0..Len(s)
    BY <1>1
  <2>. QED BY <2>1, SubSeqProperties DEF Front
<1>3. Last(s) = s[Len(s)] /\ Last(s) \in V
  BY <1>1 DEF Last
<1>4. \A k \in 1..Len(s) - 1 : k \in 1..(Len(s) - 1) - 1 + 1 /\ 1 + k - 1 = k
  BY <1>1
<1>5. Len(Front(s)) = Len(s) - 1
  <2>1. PICK n \in Nat : n = Len(s) - 1
    BY <1>1
  <2>2. Len(Front(s)) = IF 1 <= n THEN n ELSE 0
    BY <1>2, <2>1
  <2>. QED BY <2>1, <2>2
<1>. QED BY <1>1, <1>2, <1>3, <1>4, <1>5

\* is_parent takes a path to an entry with its last name, in what it finds for the rest.
LEMMA PadrePaso ==
  ASSUME NEW t, NEW V, NEW ruta \in Seq(V), ruta # <<>>
  PROVE  PadreEn(t, ruta) = IF PadreEn(t, Front(ruta)) = NoEsta THEN NoEsta
                            ELSE Primera(Hijas(t, Last(ruta), PadreEn(t, Front(ruta))))
<1>. DEFINE n == Len(ruta)
            r == Front(ruta)
<1>1. /\ n \in Nat \ {0} /\ n - 1 \in Nat /\ Len(r) = n - 1 /\ Last(ruta) = ruta[n]
      /\ \A k \in 1..n - 1 : r[k] = ruta[k]
  BY FrenteDe
<1>. HIDE DEF r, n
<1>2. PICK f : Baja(t, ruta, f) /\ PadreEn(t, ruta) = f[n]
  BY <1>1, PadreBaja DEF n
<1>3. PICK g : Baja(t, r, g) /\ PadreEn(t, r) = g[n - 1]
  BY <1>1, PadreBaja
<1>4. f[n - 1] = g[n - 1]
  <2>1. n - 1 <= Len(ruta) /\ n - 1 <= Len(r) /\ Len(ruta) \in Nat /\ Len(r) \in Nat
    BY <1>1 DEF n
  <2>2. \A k \in 0..n - 1 : f[k] = g[k]
    BY <1>1, <1>2, <1>3, <2>1, BajaUna
  <2>. QED BY <1>1, <2>2
<1>5. f[n] = IF f[n - 1] = NoEsta THEN NoEsta ELSE Primera(Hijas(t, ruta[n], f[n - 1]))
  BY <1>1, <1>2 DEF Baja, n
<1>. QED BY <1>1, <1>2, <1>3, <1>4, <1>5 DEF r

\* What is_parent finds is an entry, the root if the path is the root's, or nothing.
LEMMA PadreTipo ==
  ASSUME NEW t, NEW V, NEW ruta \in Seq(V)
  PROVE  /\ PadreEn(t, ruta) \in Lugares
         /\ ruta = <<>> => PadreEn(t, ruta) = Raiz
         /\ ruta # <<>> => PadreEn(t, ruta) \in Entradas \cup {NoEsta}
<1>1. ASSUME ruta # <<>>
      PROVE  PadreEn(t, ruta) \in Entradas \cup {NoEsta}
  <2>1. \A p : Hijas(t, Last(ruta), p) \in SUBSET Entradas
    BY DEF Hijas
  <2>2. \A p : Primera(Hijas(t, Last(ruta), p)) \in Entradas \cup {NoEsta}
    BY <2>1, PrimeraDe
  <2>3. \/ PadreEn(t, ruta) = NoEsta
        \/ PadreEn(t, ruta) = Primera(Hijas(t, Last(ruta), PadreEn(t, Front(ruta))))
    BY <1>1, PadrePaso
  <2>. QED BY <2>2, <2>3
<1>2. ASSUME ruta = <<>>
      PROVE  PadreEn(t, ruta) = Raiz
  <2>1. Len(ruta) = 0
    BY <1>2
  <2>2. PICK f : Baja(t, ruta, f) /\ PadreEn(t, ruta) = f[Len(ruta)]
    BY <2>1, PadreBaja
  <2>. QED BY <2>1, <2>2 DEF Baja
<1>. QED BY <1>1, <1>2 DEF Lugares

\* A walk along a chain: each block is the link of the one before, until the chain ends.
LEMMA BloquePaso ==
  ASSUME NEW f \in Fats, NEW b \in Bloques \cup {FIN}
  PROVE  /\ BloqueEn(f, b, 0) = b
         /\ \A k \in Nat :
              /\ BloqueEn(f, b, k) \in Bloques \cup {FIN}
              /\ BloqueEn(f, b, k + 1) =
                   IF BloqueEn(f, b, k) = FIN THEN FIN ELSE f[BloqueEn(f, b, k)]
<1>. DEFINE X == Bloques \cup {FIN}
            Sig(x) == IF x = FIN THEN FIN ELSE f[x]
            F == [y \in Nat \X X |-> Sig(y[2])]
            R(g) == g = [j \in Nat |-> IF j = 0 THEN b ELSE IF g[j - 1] = FIN THEN FIN ELSE f[g[j - 1]]]
            Q(g) == g = [j \in Nat |-> IF j = 0 THEN b ELSE Sig(g[j - 1])]
<1>1. \A x \in X : Sig(x) \in X
  BY DEF Fats
<1>2. \A g : Q(g) <=> R(g)
  OBVIOUS
<1>. HIDE DEF Sig, X
<1>3. F \in [Nat \X X -> X] /\ \A k \in Nat, x \in X : F[k, x] = Sig(x)
  BY <1>1
<1>. HIDE DEF F
<1>4. PICK g \in [Nat -> X] : IteraSiempre(g, b, F)
  <2>1. b \in X
    BY DEF X
  <2>. QED BY <1>3, <2>1, HayItera, Zenon
<1>5. Q(g)
  <2>1. \A j \in Nat : g[j] \in X /\ g[j + 1] = Sig(g[j])
    BY <1>3, <1>4 DEF IteraSiempre
  <2>2. ASSUME NEW j \in Nat, j # 0
        PROVE  g[j] = Sig(g[j - 1])
    <3>1. j - 1 \in Nat /\ (j - 1) + 1 = j
      BY <2>2
    <3>2. g[(j - 1) + 1] = Sig(g[j - 1])
      BY <2>1, <3>1
    <3>. QED BY <3>1, <3>2
  <2>. QED BY <1>4, <2>2 DEF IteraSiempre
<1>. HIDE DEF Q
<1>6. R(g)
  BY <1>2, <1>5
<1>7. R(CHOOSE h : R(h)) /\ \A k : BloqueEn(f, b, k) = (CHOOSE h : R(h))[k]
  BY <1>6, ZenonT(60) DEF BloqueEn
<1>. HIDE DEF R
<1>8. PICK h : R(h) /\ \A k : BloqueEn(f, b, k) = h[k]
  BY <1>7
<1>9. h = [j \in Nat |-> IF j = 0 THEN b ELSE Sig(h[j - 1])]
  BY <1>2, <1>8 DEF Q
<1>10. h[0] = b /\ \A k \in Nat : h[k + 1] = Sig(h[k])
  <2>1. h[0] = b
    BY <1>9
  <2>2. ASSUME NEW k \in Nat
        PROVE  h[k + 1] = Sig(h[k])
    <3>1. k + 1 \in Nat /\ k + 1 # 0 /\ (k + 1) - 1 = k
      OBVIOUS
    <3>2. h[k + 1] = Sig(h[(k + 1) - 1])
      BY <1>9, <3>1
    <3>. QED BY <3>1, <3>2
  <2>. QED BY <2>1, <2>2
<1>11. \A k \in Nat : h[k] \in X
  <2>. DEFINE T == {k \in Nat : h[k] \in X}
  <2>1. 0 \in T
    BY <1>10 DEF X
  <2>2. \A k \in T : k + 1 \in T
    BY <1>1, <1>10
  <2>3. T = Nat
    <3>. HIDE DEF T
    <3>1. T \in SUBSET Nat
      BY DEF T
    <3>. QED BY <2>1, <2>2, <3>1, Todos
  <2>. QED BY <2>3
<1>. QED BY <1>8, <1>10, <1>11 DEF X, Sig

-----------------------------------------------------------------------------
(* The types.  A thread uses what it has found: an entry, a block, the     *)
(* directory of a path.                                                    *)

\* What a thread is about to write, unlock or follow, it has found.
HallaEntrada(l) ==
  /\ l.pc \in {"createAlta", "rmdirBaja", "renameAlta", "unlinkBaja", "unlinkPrimero", "openTomar",
               "releaseSoltar", "cola"} => l.pos \in Entradas
  /\ l.pc \in {"writeIr", "nunca"} => l.wpos \in Entradas
HallaBloque(l) ==
  /\ l.pc \in {"createAlta", "unlinkLimpiar", "unlinkSeguir", "marcar", "enlazar", "terminar", "limpiar",
               "escribir", "nuncaMarcar", "nuncaEnlazar"} => l.blk \in Bloques
  /\ l.pc \in {"enlazar", "cortar", "nuncaEnlazar", "nuncaSeguir"} => l.ant \in Bloques

LocalBien(l) ==
  /\ l \in Locales
  /\ l.pc \notin {"libre", "muerto"} => l.ruta # <<>>
  /\ l.pc \in {"rename", "renameAlta"} => l.dest # <<>>
  /\ l.pc \in {"mkdirMux", "createMux", "createAlta", "renameAlta"} => l.padre # NoEsta
  /\ \/ l.luego = "cola"
     \/ l.pc \in {"createAlta", "rmdirBaja", "renameAlta", "unlinkBaja", "unlinkPrimero",
                  "openTomar", "releaseSoltar", "cola", "pedir", "marcar", "enlazar",
                  "limpiar", "cortar"}
     => l.pos \in Entradas
  /\ \/ l.vuelve = "write" \/ l.luego = "nuncaSeguir"
     \/ l.pc \in {"writeIr", "escribir", "nunca", "nuncaMarcar", "nuncaEnlazar", "nuncaSeguir"}
     => l.wpos \in Entradas
  /\ l.pc \in {"createAlta", "unlinkLimpiar", "unlinkSeguir", "pedir", "marcar", "escribir",
               "nunca", "nuncaMarcar", "nuncaEnlazar", "enlazar", "terminar", "limpiar"}
     => l.blk \in Bloques
  /\ \/ l.luego = "nuncaSeguir"
     \/ l.pc \in {"nuncaMarcar", "nuncaEnlazar", "nuncaSeguir", "marcar", "enlazar", "limpiar", "cortar"}
     => l.ant \in Bloques
  /\ l.luego \in {"libre", "cola", "truncado", "nuncaSeguir", "createFin"}
  /\ l.luego # "libre" => l.pc \in {"copiar", "terminar"}
  /\ l.pc = "copiar" => l.copias \in Copias

Abierto == [ruta : Seq(Nombres), modo : 0..2]
AbiertoBien(a) == a \in Abierto /\ (a # Cerrado => a.ruta # <<>>)

TInv == TypeOK /\ \A h \in Hilos : LocalBien(loc[h]) /\ AbiertoBien(abierto[h])

\* m is l but for some of its fields.
Salvo(m, l, campos) == \A f \in Campos \ campos : m[f] = l[f]

\* What the invariant says of each thread, and of the rest.
LEMMA DeHilo ==
  ASSUME TInv, NEW h \in Hilos
  PROVE  /\ LocalBien(loc[h]) /\ loc[h] \in Locales /\ loc \in [Hilos -> Locales]
         /\ AbiertoBien(abierto[h]) /\ abierto \in [Hilos -> Abierto]
BY DEF TInv, TypeOK, Abierto

TMem == tabla \in Tablas /\ bitmap \subseteq Bloques /\ fat \in Fats
TDisco == disco \in [tabla : Tablas, bitmap : SUBSET Bloques, fat : Fats]
TMux == mux \in Hilos \cup {Nadie}
TCandados == mux_files \in [Entradas -> [escribe : Hilos \cup {Nadie}, leen : Nat]]
TResto == pedidos \in 0..MaxPedidos /\ servidor \in {"vivo", "fuera"}

\* A step of h keeps the types if what it leaves is of its type.
LEMMA Guarda ==
  ASSUME TInv, NEW h \in Hilos, NEW m, LocalBien(m), loc' = [loc EXCEPT ![h] = m],
         NEW a, AbiertoBien(a), abierto' = [abierto EXCEPT ![h] = a],
         TMem', TDisco', TMux', TCandados', TResto'
  PROVE  TInv'
<1>1. loc' \in [Hilos -> Locales] /\ \A g \in Hilos : LocalBien(loc'[g])
  BY DEF TInv, TypeOK, LocalBien
<1>2. abierto' \in [Hilos -> Abierto] /\ \A g \in Hilos : AbiertoBien(abierto'[g])
  BY DEF TInv, TypeOK, AbiertoBien, Abierto
<1>. QED BY <1>1, <1>2 DEF TInv, TypeOK, TMem, TDisco, TMux, TCandados, TResto, Abierto

\* The same, of a step that opens or closes nothing.
LEMMA GuardaLoc ==
  ASSUME TInv, NEW h \in Hilos, NEW m, LocalBien(m), loc' = [loc EXCEPT ![h] = m],
         abierto' = abierto, TMem', TDisco', TMux', TCandados', TResto'
  PROVE  TInv'
<1>1. AbiertoBien(abierto[h]) /\ abierto' = [abierto EXCEPT ![h] = abierto[h]]
  BY DEF TInv, TypeOK
<1>. QED BY <1>1, Guarda

\* What was of its type is, if it does not change.
LEMMA SigueIgual ==
  ASSUME TInv
  PROVE  /\ UNCHANGED estructuras => TMem'
         /\ UNCHANGED disco => TDisco'
         /\ UNCHANGED mux => TMux'
         /\ mux' = Nadie => TMux'
         /\ UNCHANGED mux_files => TCandados'
         /\ UNCHANGED <<pedidos, servidor>> => TResto'
BY DEF TInv, TypeOK, TMem, TDisco, TMux, TCandados, TResto, estructuras

\* A thread with nothing to do, one whose client has been killed, and one that opens
\* what it has created.
LEMMA OciosoBien ==
  /\ LocalBien(Ocioso) /\ LocalBien([Ocioso EXCEPT !.pc = "muerto"])
  /\ AbiertoBien(Cerrado)
<1>1. /\ 0 \in 0..2 /\ 0 \in 0..MaxTam /\ 0 \in Int /\ NoEsta \in 0..NoEsta
      /\ <<>> \in Seq(Nombres) /\ <<>> \in Seq({"bitmap", "tabla", "fat"})
      /\ NoEsta \in Entradas \cup {Raiz, NoEsta} /\ FIN \in Bloques \cup {FIN}
      /\ "libre" \in Pasos /\ "muerto" \in Pasos
  BY SupuestoOsada DEF NoEsta, Pasos
<1>2. Ocioso \in Locales
  BY <1>1, Zenon DEF Ocioso, Locales
<1>. DEFINE m == [Ocioso EXCEPT !.pc = "muerto"]
<1>3. m \in Locales
  BY <1>1, <1>2, Zenon DEF Locales
<1>4. /\ Ocioso.pc = "libre" /\ Ocioso.luego = "libre" /\ Ocioso.vuelve = "libre"
      /\ m.pc = "muerto" /\ m.luego = "libre" /\ m.vuelve = "libre"
  BY DEF Ocioso
<1>5. AbiertoBien(Cerrado)
  BY <1>1 DEF AbiertoBien, Abierto, Cerrado
<1>. HIDE DEF m
<1>6. LocalBien(Ocioso) /\ LocalBien(m)
  BY <1>2, <1>3, <1>4 DEF LocalBien
<1>. QED BY <1>5, <1>6 DEF m

\* The messages of the clients.
Pedidas == {"create", "mkdir", "rename", "rmdir", "unlink", "utimens", "truncate", "open", "write",
            "release"}

LEMMA PedidoBien ==
  ASSUME NEW m \in Locales, m.pc \in Pedidas, m.ruta # <<>>, m.pc = "rename" => m.dest # <<>>,
         m.luego = "libre", m.vuelve = "libre"
  PROVE  LocalBien(m)
<1>1. m.pc \in {"rename", "renameAlta"} => m.dest # <<>>
  BY DEF Pedidas
<1>2. m.pc \notin {"mkdirMux", "createMux", "createAlta", "renameAlta"}
  BY DEF Pedidas
<1>3. m.pc \notin {"createAlta", "rmdirBaja", "renameAlta", "unlinkBaja", "unlinkPrimero",
                   "openTomar", "releaseSoltar", "cola", "pedir", "marcar", "enlazar",
                   "limpiar", "cortar"}
  BY DEF Pedidas
<1>4. m.pc \notin {"writeIr", "escribir", "nunca", "nuncaMarcar", "nuncaEnlazar", "nuncaSeguir"}
  BY DEF Pedidas
<1>5. m.pc \notin {"createAlta", "unlinkLimpiar", "unlinkSeguir", "pedir", "marcar", "escribir",
                   "nunca", "nuncaMarcar", "nuncaEnlazar", "enlazar", "terminar", "limpiar"}
  BY DEF Pedidas
<1>6. m.pc # "copiar" /\ m.luego \in {"libre", "cola", "truncado", "nuncaSeguir", "createFin"}
      /\ m.luego # "nuncaSeguir" /\ m.luego # "cola" /\ m.vuelve # "write" /\ ~(m.luego # "libre")
  BY DEF Pedidas
<1>7. m.pc \notin {"nuncaMarcar", "nuncaEnlazar", "nuncaSeguir", "marcar", "enlazar", "limpiar", "cortar"}
  BY DEF Pedidas
<1>. QED BY <1>1, <1>2, <1>3, <1>4, <1>5, <1>6, <1>7, Zenon DEF LocalBien

\* The paths of the clients are sequences of names.
LEMMA RutasBien ==
  ASSUME NEW h \in Hilos, NEW ruta \in Rutas[h]
  PROVE  ruta \in Seq(Nombres) /\ ruta # <<>>
<1>1. ruta \in Seq(ToSet(ruta)) /\ ruta # <<>>
  BY SupuestoOsada
<1>2. ToSet(ruta) \subseteq Nombres
  BY DEF Nombres
<1>. QED BY <1>1, <1>2

\* A client asks.
LEMMA TipoPide ==
  ASSUME TInv, NEW h \in Hilos, NEW op, NEW m, Pide(h, op, m), LocalBien([m EXCEPT !.pc = op])
  PROVE  TInv'
<1>1. pedidos + 1 \in 0..MaxPedidos
  BY SupuestoOsada DEF Pide, TInv, TypeOK
<1>2. TResto'
  BY <1>1 DEF Pide, TResto, TInv, TypeOK
<1>. QED BY <1>2, GuardaLoc, SigueIgual DEF Pide

\* A request about one path, of any size and mode.
LEMMA MensajeBien ==
  ASSUME NEW ruta \in Seq(Nombres), ruta # <<>>, NEW op \in Pedidas \ {"rename"},
         NEW modo \in 0..2, NEW desde \in 0..MaxTam, NEW tam \in 0..MaxTam
  PROVE  /\ LocalBien([[Ocioso EXCEPT !.ruta = ruta] EXCEPT !.pc = op])
         /\ LocalBien([[Ocioso EXCEPT !.ruta = ruta, !.modo = modo] EXCEPT !.pc = op])
         /\ LocalBien([[Ocioso EXCEPT !.ruta = ruta, !.tam = tam] EXCEPT !.pc = op])
         /\ LocalBien([[Ocioso EXCEPT !.ruta = ruta, !.desde = desde, !.tam = tam] EXCEPT !.pc = op])
<1>. DEFINE a == [[Ocioso EXCEPT !.ruta = ruta] EXCEPT !.pc = op]
            b == [[Ocioso EXCEPT !.ruta = ruta, !.modo = modo] EXCEPT !.pc = op]
            c == [[Ocioso EXCEPT !.ruta = ruta, !.tam = tam] EXCEPT !.pc = op]
            d == [[Ocioso EXCEPT !.ruta = ruta, !.desde = desde, !.tam = tam] EXCEPT !.pc = op]
            Corto(m) == m.pc = op /\ m.ruta = ruta /\ m.luego = "libre" /\ m.vuelve = "libre"
<1>1. Ocioso \in Locales /\ op \in Pasos
  BY OciosoBien DEF LocalBien, Pedidas, Pasos
<1>2. a \in Locales
  BY <1>1, ZenonT(30) DEF Locales
<1>3. b \in Locales
  BY <1>1, ZenonT(30) DEF Locales
<1>4. c \in Locales
  BY <1>1, ZenonT(30) DEF Locales
<1>5. d \in Locales
  BY <1>1, ZenonT(30) DEF Locales
<1>6. Corto(a) /\ Corto(b) /\ Corto(c) /\ Corto(d)
  BY DEF Ocioso
<1>7. \A m \in Locales : Corto(m) => LocalBien(m)
  BY PedidoBien
<1>. QED BY <1>2, <1>3, <1>4, <1>5, <1>6, <1>7

LEMMA RenameBien ==
  ASSUME NEW ruta \in Seq(Nombres), ruta # <<>>, NEW dest \in Seq(Nombres), dest # <<>>
  PROVE  LocalBien([[Ocioso EXCEPT !.ruta = ruta, !.dest = dest] EXCEPT !.pc = "rename"])
<1>. DEFINE m == [[Ocioso EXCEPT !.ruta = ruta, !.dest = dest] EXCEPT !.pc = "rename"]
<1>1. Ocioso \in Locales /\ "rename" \in Pasos
  BY OciosoBien DEF LocalBien, Pasos
<1>2. m \in Locales
  BY <1>1, ZenonT(30) DEF Locales
<1>3. /\ m.pc = "rename" /\ m.ruta = ruta /\ m.dest = dest
        /\ m.luego = "libre" /\ m.vuelve = "libre"
  BY DEF Ocioso
<1>. HIDE DEF m
<1>4. LocalBien(m)
  BY <1>2, <1>3, PedidoBien DEF Pedidas
<1>. QED BY <1>4 DEF m

LEMMA TipoPedir == ASSUME TInv, NEW h \in Hilos, Pedir(h) PROVE TInv'
<1>0. /\ AbiertoBien(abierto[h]) /\ 0 \in 0..2 /\ 2 \in 0..2 /\ 0 \in 0..MaxTam
      /\ \A d \in 0..MaxTam - 1 : d \in 0..MaxTam /\ \A t \in d + 1..MaxTam : t \in 0..MaxTam
  BY SupuestoOsada DEF TInv
<1>1. {"create", "mkdir", "rmdir", "unlink", "utimens", "truncate", "open", "write", "release"} \subseteq
        Pedidas \ {"rename"}
  BY DEF Pedidas
<1>2. CASE PedirNuevo(h)
  <2>1. PICK ruta \in Rutas[h], op \in {"create", "mkdir"} : Pide(h, op, [Ocioso EXCEPT !.ruta = ruta, !.modo = 2])
    BY <1>2 DEF PedirNuevo
  <2>2. LocalBien([[Ocioso EXCEPT !.ruta = ruta, !.modo = 2] EXCEPT !.pc = op])
    BY <1>0, <1>1, RutasBien, MensajeBien
  <2>. QED BY <2>1, <2>2, TipoPide, Zenon
<1>3. CASE PedirRename(h)
  <2>1. PICK ruta \in Rutas[h], dest \in Rutas[h] :
          Pide(h, "rename", [Ocioso EXCEPT !.ruta = ruta, !.dest = dest])
    BY <1>3 DEF PedirRename
  <2>2. LocalBien([[Ocioso EXCEPT !.ruta = ruta, !.dest = dest] EXCEPT !.pc = "rename"])
    BY RutasBien, RenameBien
  <2>. QED BY <2>1, <2>2, TipoPide, Zenon
<1>4. CASE PedirRmdir(h) \/ PedirUnlink(h) \/ PedirUtimens(h)
  <2>1. PICK ruta \in Rutas[h], op \in {"rmdir", "unlink", "utimens"} :
          Pide(h, op, [Ocioso EXCEPT !.ruta = ruta])
    BY <1>4 DEF PedirRmdir, PedirUnlink, PedirUtimens
  <2>2. LocalBien([[Ocioso EXCEPT !.ruta = ruta] EXCEPT !.pc = op])
    BY <1>0, <1>1, RutasBien, MensajeBien
  <2>. QED BY <2>1, <2>2, TipoPide, Zenon
<1>5. CASE PedirTruncate(h)
  <2>1. PICK ruta \in Rutas[h], tam \in 0..MaxTam :
          Pide(h, "truncate", [Ocioso EXCEPT !.ruta = ruta, !.tam = tam])
    BY <1>5 DEF PedirTruncate
  <2>2. LocalBien([[Ocioso EXCEPT !.ruta = ruta, !.tam = tam] EXCEPT !.pc = "truncate"])
    BY <1>0, <1>1, RutasBien, MensajeBien
  <2>. QED BY <2>1, <2>2, TipoPide, Zenon
<1>6. CASE PedirOpen(h)
  <2>1. PICK ruta \in Rutas[h], modo \in 0..2 :
          Pide(h, "open", [Ocioso EXCEPT !.ruta = ruta, !.modo = modo])
    BY <1>6 DEF PedirOpen
  <2>2. LocalBien([[Ocioso EXCEPT !.ruta = ruta, !.modo = modo] EXCEPT !.pc = "open"])
    BY <1>0, <1>1, RutasBien, MensajeBien
  <2>. QED BY <2>1, <2>2, TipoPide, Zenon
<1>7. CASE PedirWrite(h)
  <2>1. PICK desde \in 0..MaxTam - 1, tam \in 0..MaxTam :
          /\ abierto[h].modo > 0
          /\ Pide(h, "write", [Ocioso EXCEPT !.ruta = abierto[h].ruta, !.desde = desde, !.tam = tam])
    BY <1>0, <1>7 DEF PedirWrite
  <2>2. abierto[h].ruta \in Seq(Nombres) /\ abierto[h].ruta # <<>>
    BY <1>0, <2>1 DEF AbiertoBien, Abierto, Cerrado
  <2>3. LocalBien([[Ocioso EXCEPT !.ruta = abierto[h].ruta, !.desde = desde, !.tam = tam] EXCEPT !.pc = "write"])
    BY <1>0, <1>1, <2>2, MensajeBien
  <2>. QED BY <2>1, <2>3, TipoPide, Zenon
<1>8. CASE PedirRelease(h)
  <2>1. /\ abierto[h] # Cerrado
        /\ Pide(h, "release", [Ocioso EXCEPT !.ruta = abierto[h].ruta])
    BY <1>8 DEF PedirRelease
  <2>2. abierto[h].ruta \in Seq(Nombres) /\ abierto[h].ruta # <<>>
    BY <1>0, <2>1 DEF AbiertoBien, Abierto
  <2>3. LocalBien([[Ocioso EXCEPT !.ruta = abierto[h].ruta] EXCEPT !.pc = "release"])
    BY <1>0, <1>1, <2>2, MensajeBien
  <2>. QED BY <2>1, <2>3, TipoPide, Zenon
<1>. QED BY <1>2, <1>3, <1>4, <1>5, <1>6, <1>7, <1>8 DEF Pedir

\* A client is killed.
LEMMA TipoMorir == ASSUME TInv, NEW h \in Hilos, Morir(h) PROVE TInv'
BY OciosoBien, GuardaLoc, SigueIgual DEF Morir

\* An answer.
LEMMA TipoResponde ==
  ASSUME TInv, NEW h \in Hilos, Responder(h), abierto' = abierto,
         TMem', TDisco', TMux', TCandados', TResto'
  PROVE  TInv'
BY OciosoBien, GuardaLoc DEF Responder

\* A thread goes on to its next step,
LEMMA IrBien ==
  ASSUME TInv, NEW h \in Hilos, NEW p, Ir(h, p),
         \/ loc[h].pc = "unlinkBaja" /\ p = "unlinkPrimero"
         \/ loc[h].pc = "unlinkLimpiar" /\ p = "unlinkSeguir"
         \/ loc[h].pc = "marcar" /\ p = "enlazar"
         \/ loc[h].pc = "limpiar" /\ p = "cortar"
         \/ loc[h].pc = "escribir" /\ p = "nunca"
         \/ loc[h].pc = "nuncaMarcar" /\ p = "nuncaEnlazar"
         \/ loc[h].pc \in {"truncate", "truncado"} /\ loc[h].vuelve = "write" /\ p = "writeIr",
         abierto' = abierto, TMem', TDisco', TMux', TCandados', TResto'
  PROVE  TInv'
<1>. DEFINE l == loc[h]
            m == [l EXCEPT !.pc = p]
<1>1. LocalBien(l) /\ l \in Locales /\ loc \in [Hilos -> Locales] /\ l.luego = "libre"
  BY DeHilo DEF LocalBien
<1>2. p \in {"unlinkPrimero", "unlinkSeguir", "enlazar", "cortar", "nunca", "nuncaEnlazar", "writeIr"}
  OBVIOUS
<1>3. m \in Locales
  <2>1. p \in Pasos
    BY <1>2 DEF Pasos
  <2>. QED BY <1>1, <2>1, ZenonT(30) DEF Locales
<1>4. loc' = [loc EXCEPT ![h] = m]
  BY <1>1 DEF Ir, Locales
<1>5. Salvo(m, l, {"pc"}) /\ m.pc = p
  BY <1>1 DEF Locales, Salvo, Campos
<1>. HIDE DEF m
<1>6. LocalBien(m)
  BY <1>1, <1>2, <1>3, <1>5 DEF LocalBien, Salvo, Campos
<1>. QED BY <1>4, <1>6, GuardaLoc

\* to the one for which it has found an entry,
LEMMA PosBien ==
  ASSUME TInv, NEW h \in Hilos, NEW p \in {"rmdirBaja", "unlinkBaja", "openTomar", "releaseSoltar"},
         NEW i \in Entradas, loc[h].pc \notin {"libre", "muerto", "copiar", "terminar"},
         loc' = [loc EXCEPT ![h].pc = p, ![h].pos = i],
         abierto' = abierto, TMem', TDisco', TMux', TCandados', TResto'
  PROVE  TInv'
<1>. DEFINE l == loc[h]
            m == [l EXCEPT !.pc = p, !.pos = i]
<1>1. LocalBien(l) /\ l \in Locales /\ loc \in [Hilos -> Locales] /\ l.luego = "libre"
  BY DeHilo DEF LocalBien
<1>2. p \in Pasos /\ i \in 0..NoEsta
  BY SupuestoOsada DEF Pasos, Entradas, NoEsta
<1>3. m \in Locales
  BY <1>1, <1>2, ZenonT(30) DEF Locales
<1>4. loc' = [loc EXCEPT ![h] = m]
  BY <1>1 DEF Locales
<1>5. Salvo(m, l, {"pc", "pos"}) /\ m.pc = p /\ m.pos = i
  BY <1>1 DEF Locales, Salvo, Campos
<1>. HIDE DEF m
<1>6. LocalBien(m)
  BY <1>1, <1>3, <1>5 DEF LocalBien, Salvo, Campos
<1>. QED BY <1>4, <1>6, GuardaLoc

\* or to copy structures to the image.
LEMMA CopiasSeq == Copias \subseteq Seq({"bitmap", "tabla", "fat"})
<1>. DEFINE R == {"bitmap", "tabla", "fat"}
<1>1. \A a, b, c \in R : <<a>> \in Seq(R) /\ <<a, b>> \in Seq(R) /\ <<a, b, c>> \in Seq(R)
  OBVIOUS
<1>2. "bitmap" \in R /\ "tabla" \in R /\ "fat" \in R
  OBVIOUS
<1>. HIDE DEF R
<1>3. Copias \subseteq Seq(R)
  BY <1>1, <1>2, Zenon DEF Copias
<1>. QED BY <1>3 DEF R

ConCopia(l, c, x) == [l EXCEPT !.pc = "copiar", !.copias = c, !.luego = x]

LEMMA CopiaLocal ==
  ASSUME NEW l, LocalBien(l), l.pc \notin {"libre", "muerto"}, NEW c \in Copias, NEW x \in {"libre", "createFin", "truncado"}
  PROVE  LocalBien(ConCopia(l, c, x))
<1>. DEFINE m == [l EXCEPT !.pc = "copiar", !.copias = c, !.luego = x]
<1>1. l \in Locales
  BY DEF LocalBien
<1>2. "copiar" \in Pasos /\ x \in Pasos /\ c \in Seq({"bitmap", "tabla", "fat"})
  BY CopiasSeq DEF Pasos
<1>3. m \in Locales
  BY <1>1, <1>2, ZenonT(30) DEF Locales
<1>4. Salvo(m, l, {"pc", "copias", "luego"}) /\ m.pc = "copiar" /\ m.copias = c /\ m.luego = x
  BY <1>1 DEF Locales, Salvo, Campos
<1>. HIDE DEF m
<1>5. LocalBien(m)
  BY <1>3, <1>4 DEF LocalBien, Salvo, Campos
<1>. QED BY <1>5 DEF m, ConCopia

LEMMA CopiaIgual ==
  ASSUME TInv, NEW h \in Hilos, NEW c, NEW x, Copiando(h, c, x)
  PROVE  loc' = [loc EXCEPT ![h] = ConCopia(loc[h], c, x)]
<1>1. loc[h] \in Locales /\ loc \in [Hilos -> Locales]
  BY DeHilo
<1>. QED BY <1>1 DEF Copiando, ConCopia, Locales

LEMMA CopiaBien ==
  ASSUME TInv, NEW h \in Hilos, NEW c \in Copias, NEW x \in {"libre", "createFin", "truncado"},
         Copiando(h, c, x), loc[h].pc \notin {"libre", "muerto"},
         abierto' = abierto, TMem', TDisco', TMux', TCandados', TResto'
  PROVE  TInv'
<1>1. LocalBien(loc[h])
  BY DeHilo
<1>2. LocalBien(ConCopia(loc[h], c, x))
  BY <1>1, CopiaLocal
<1>3. loc' = [loc EXCEPT ![h] = ConCopia(loc[h], c, x)]
  BY CopiaIgual
<1>. QED BY <1>2, <1>3, GuardaLoc

\* What the searches find.
LEMMA Hallazgos ==
  ASSUME NEW V, NEW ruta \in Seq(V), ruta # <<>>
  PROVE  /\ is_parent(ruta) \in Entradas \cup {NoEsta} /\ PadreDe(ruta) \in Lugares
         /\ \A n, p, e : Buscar(n, p, e) \in Entradas \cup {NoEsta}
         /\ RegularEn(ruta) \in Entradas \cup {NoEsta}
         /\ Last(ruta) \in V
<1>1. is_parent(ruta) \in Entradas \cup {NoEsta}
  BY Paseos, PadreTipo
<1>2. Front(ruta) \in Seq(V) /\ Last(ruta) \in V
  BY FrenteDe
<1>3. PadreDe(ruta) \in Lugares
  BY <1>2, Paseos, PadreTipo DEF PadreDe
<1>4. ASSUME NEW n, NEW p, NEW e
      PROVE  Buscar(n, p, e) \in Entradas \cup {NoEsta}
  BY PrimeraDe DEF Buscar
<1>. QED BY <1>1, <1>2, <1>3, <1>4 DEF RegularEn

LEMMA LibreBien == BitLibre \in Bloques \cup {FIN} /\ FIN \notin Bloques
<1>1. Bloques \ bitmap \in SUBSET Nat /\ FIN \notin Bloques
  BY SupuestoOsada DEF Bloques, FIN
<1>2. Bloques \ bitmap # {} => Min(Bloques \ bitmap) \in Bloques \ bitmap
  BY <1>1, Minimo
<1>. QED BY <1>1, <1>2 DEF BitLibre

\* create's answer.
LEMMA TipoCreado ==
  ASSUME TInv, NEW h \in Hilos, NEW c \in {"si", "fallo"}, CreateResponde(h, c),
         loc[h].pc \notin {"libre", "muerto"},
         abierto' = abierto, TMem', TDisco', TMux', TCandados', TResto'
  PROVE  TInv'
<1>. DEFINE m == [Ocioso EXCEPT !.pc = "open", !.ruta = loc[h].ruta, !.modo = loc[h].modo,
                                !.creado = c]
<1>1. LocalBien(loc[h]) /\ loc[h] \in Locales
  BY DeHilo
<1>2. Ocioso \in Locales /\ "open" \in Pasos
  BY OciosoBien DEF LocalBien, Pasos
<1>3. loc[h].ruta \in Seq(Nombres) /\ loc[h].modo \in 0..2 /\ loc[h].ruta # <<>>
  BY <1>1 DEF Locales, LocalBien
<1>4. m \in Locales
  BY <1>2, <1>3, ZenonT(30) DEF Locales
<1>5. m.pc = "open" /\ m.ruta = loc[h].ruta /\ m.luego = "libre" /\ m.vuelve = "libre"
  BY DEF Ocioso
<1>6. loc' = [loc EXCEPT ![h] = m]
  BY DEF CreateResponde
<1>. HIDE DEF m
<1>7. LocalBien(m)
  BY <1>3, <1>4, <1>5, PedidoBien DEF Pedidas
<1>. QED BY <1>6, <1>7, GuardaLoc

\* What mkdir and create write in the table.
LEMMA TablaAlta ==
  ASSUME TInv, NEW h \in Hilos, NEW i \in Entradas, NEW tipo \in {"REGULAR", "DIRECTORY"},
         NEW primero \in Bloques \cup {FIN}, Alta(h, i, tipo, primero),
         loc[h].ruta # <<>>, loc[h].padre # NoEsta
  PROVE  tabla' \in Tablas
<1>1. loc[h] \in Locales /\ tabla \in Tablas
  BY DeHilo DEF TInv, TypeOK
<1>2. Last(loc[h].ruta) \in Nombres
  BY <1>1, FrenteDe DEF Locales
<1>3. loc[h].padre \in Entradas \cup {Raiz} /\ 0 \in 0..MaxTam
  BY <1>1, SupuestoOsada DEF Locales
<1>. QED BY <1>1, <1>2, <1>3 DEF Alta, Tablas

\* An entry of the table, and one that changes.
Nombradas == Nombres \cup {""}
Entrada == [estado : {"DELETED", "REGULAR", "DIRECTORY"}, nombre : Nombradas,
         padre : Entradas \cup {Raiz}, tam : 0..MaxTam, primero : Bloques \cup {FIN}]

LEMMA Filas == Tablas = [Entradas -> Entrada] /\ Nombres \subseteq Nombradas
BY Zenon DEF Tablas, Entrada, Nombradas

LEMMA Fichas ==
  ASSUME TInv, NEW i \in Entradas
  PROVE  /\ tabla \in [Entradas -> Entrada] /\ tabla[i] \in Entrada
         /\ \A r \in Entrada : [tabla EXCEPT ![i] = r] \in Tablas
<1>1. tabla \in [Entradas -> Entrada]
  BY Filas DEF TInv, TypeOK
<1>. QED BY <1>1, Filas

LEMMA TablaBaja ==
  ASSUME TInv, NEW i \in Entradas, tabla' = [tabla EXCEPT ![i].estado = "DELETED"]
  PROVE  tabla' \in Tablas
<1>1. tabla[i] \in Entrada
  BY Fichas
<1>2. [tabla[i] EXCEPT !.estado = "DELETED"] \in Entrada
  BY <1>1, Zenon DEF Entrada
<1>3. tabla' = [tabla EXCEPT ![i] = [tabla[i] EXCEPT !.estado = "DELETED"]]
  OBVIOUS
<1>. QED BY <1>2, <1>3, Fichas

\* osada_mkdir and osada_create.
LEMMA TipoMkdir == ASSUME TInv, NEW h \in Hilos, Mkdir(h) \/ MkdirMux(h) PROVE TInv'
<1>1. LocalBien(loc[h]) /\ loc[h] \in Locales /\ loc \in [Hilos -> Locales]
  BY DeHilo
<1>2. CASE Mkdir(h) /\ ~Responder(h)
  <2>. DEFINE l == loc[h]
              p == PadreDe(l.ruta)
              m == [l EXCEPT !.pc = "mkdirMux", !.padre = p]
  <2>1. l.pc = "mkdir" /\ p # NoEsta /\ loc' = [loc EXCEPT ![h].pc = "mkdirMux", ![h].padre = p]
    BY <1>2 DEF Mkdir, En
  <2>2. l.ruta # <<>> /\ l.ruta \in Seq(Nombres) /\ l.luego = "libre"
    BY <1>1, <2>1 DEF LocalBien, Locales
  <2>3. p \in Lugares
    BY <2>2, Hallazgos
  <2>. HIDE DEF p
  <2>4. m \in Locales
    <3>1. "mkdirMux" \in Pasos /\ p \in Entradas \cup {Raiz, NoEsta}
      BY <2>3 DEF Pasos, Lugares
    <3>. QED BY <1>1, <3>1, ZenonT(30) DEF Locales
  <2>5. loc' = [loc EXCEPT ![h] = m]
    BY <1>1, <2>1 DEF Locales
  <2>6. Salvo(m, l, {"pc", "padre"}) /\ m.pc = "mkdirMux" /\ m.padre = p
    BY <1>1 DEF Locales, Salvo, Campos
  <2>. HIDE DEF m
  <2>7. LocalBien(m)
    BY <1>1, <2>1, <2>2, <2>4, <2>6 DEF LocalBien, Salvo, Campos
  <2>. QED BY <1>2, <2>5, <2>7, GuardaLoc, SigueIgual DEF Mkdir
<1>3. CASE Mkdir(h) /\ Responder(h)
  BY <1>3, TipoResponde, SigueIgual DEF Mkdir
<1>4. CASE MkdirMux(h)
  <2>. DEFINE libre == Primera({i \in Entradas : tabla[i].estado = "DELETED"})
  <2>1. CASE Responder(h) /\ UNCHANGED tabla
    BY <1>4, <2>1, TipoResponde, SigueIgual DEF MkdirMux, estructuras
  <2>2. CASE /\ libre # NoEsta /\ Alta(h, libre, "DIRECTORY", FIN)
             /\ Copiando(h, <<"tabla">>, "libre")
    <3>1. libre \in Entradas /\ loc[h].pc = "mkdirMux"
      BY <1>4, <2>2, PrimeraDe DEF MkdirMux, En
    <3>. HIDE DEF libre
    <3>2. loc[h].ruta # <<>> /\ loc[h].padre # NoEsta /\ loc[h].pc \notin {"libre", "muerto"}
      BY <1>1, <3>1 DEF LocalBien
    <3>3. tabla' \in Tablas
      BY <2>2, <3>1, <3>2, TablaAlta
    <3>4. TMem'
      BY <1>4, <3>3 DEF MkdirMux, TMem, TInv, TypeOK
    <3>5. <<"tabla">> \in Copias
      BY DEF Copias
    <3>. QED BY <1>4, <2>2, <3>2, <3>4, <3>5, CopiaBien, SigueIgual DEF MkdirMux
  <2>. QED BY <1>4, <2>1, <2>2 DEF MkdirMux
<1>. QED BY <1>2, <1>3, <1>4

LEMMA TipoCreate ==
  ASSUME TInv, NEW h \in Hilos, Create(h) \/ CreateMux(h) \/ CreateAlta(h) \/ CreateFin(h)
  PROVE  TInv'
<1>. DEFINE l == loc[h]
<1>1. LocalBien(l) /\ l \in Locales /\ loc \in [Hilos -> Locales]
  BY DeHilo
<1>2. CASE Create(h)
  <2>. DEFINE p == PadreDe(l.ruta)
              m == [l EXCEPT !.pc = "createMux", !.padre = p]
  <2>1. l.pc = "create"
    BY <1>2 DEF Create, En
  <2>2. l.ruta # <<>> /\ l.ruta \in Seq(Nombres) /\ l.luego = "libre"
    BY <1>1, <2>1 DEF LocalBien, Locales
  <2>3. CASE CreateResponde(h, "fallo")
    BY <1>2, <2>1, <2>3, TipoCreado, SigueIgual DEF Create
  <2>4. CASE p # NoEsta /\ loc' = [loc EXCEPT ![h].pc = "createMux", ![h].padre = p]
    <3>1. p \in Lugares
      BY <2>2, Hallazgos
    <3>. HIDE DEF p
    <3>2. m \in Locales
      <4>1. "createMux" \in Pasos /\ p \in Entradas \cup {Raiz, NoEsta}
        BY <3>1 DEF Pasos, Lugares
      <4>. QED BY <1>1, <4>1, ZenonT(30) DEF Locales
    <3>3. loc' = [loc EXCEPT ![h] = m]
      BY <1>1, <2>4 DEF Locales
    <3>4. Salvo(m, l, {"pc", "padre"}) /\ m.pc = "createMux" /\ m.padre = p
      BY <1>1 DEF Locales, Salvo, Campos
    <3>. HIDE DEF m
    <3>5. LocalBien(m)
      BY <1>1, <2>2, <2>4, <3>2, <3>4 DEF LocalBien, Salvo, Campos
    <3>. QED BY <1>2, <3>3, <3>5, GuardaLoc, SigueIgual DEF Create
  <2>. QED BY <1>2, <2>3, <2>4 DEF Create
<1>3. CASE CreateMux(h)
  <2>. DEFINE libre == Primera({i \in Entradas : tabla[i].estado = "DELETED"})
              m == [l EXCEPT !.pc = "createAlta", !.pos = libre, !.blk = BitLibre]
  <2>1. l.pc = "createMux"
    BY <1>3 DEF CreateMux, En
  <2>2. l.ruta # <<>> /\ l.padre # NoEsta /\ l.luego = "libre"
    BY <1>1, <2>1 DEF LocalBien
  <2>3. CASE CreateResponde(h, "fallo") /\ UNCHANGED mux
    BY <1>3, <2>1, <2>3, TipoCreado, SigueIgual DEF CreateMux
  <2>4. CASE /\ libre # NoEsta /\ BitLibre # FIN /\ mux' = h
             /\ loc' = [loc EXCEPT ![h].pc = "createAlta", ![h].pos = libre, ![h].blk = BitLibre]
    <3>1. libre \in Entradas /\ BitLibre \in Bloques
      BY <2>4, PrimeraDe, LibreBien
    <3>. HIDE DEF libre
    <3>2. PICK b \in Bloques : b = BitLibre
      BY <3>1
    <3>3. m \in Locales
      <4>1. "createAlta" \in Pasos /\ libre \in 0..NoEsta /\ BitLibre \in Bloques \cup {FIN}
        BY <3>1, SupuestoOsada DEF Pasos, Entradas, NoEsta
      <4>. QED BY <1>1, <4>1, ZenonT(30) DEF Locales
    <3>4. loc' = [loc EXCEPT ![h] = m]
      BY <1>1, <2>4 DEF Locales
    <3>5. /\ Salvo(m, l, {"pc", "pos", "blk"})
          /\ m.pc = "createAlta" /\ m.pos = libre /\ m.blk = b
      BY <1>1, <3>2 DEF Locales, Salvo, Campos
    <3>. HIDE DEF m
    <3>6. LocalBien(m)
      BY <1>1, <2>2, <3>1, <3>3, <3>5 DEF LocalBien, Salvo, Campos
    <3>7. TMux'
      BY <2>4 DEF TMux
    <3>. QED BY <1>3, <3>4, <3>6, <3>7, GuardaLoc, SigueIgual DEF CreateMux
  <2>. QED BY <1>3, <2>3, <2>4 DEF CreateMux
<1>4. CASE CreateAlta(h)
  <2>1. l.pc = "createAlta" /\ Alta(h, l.pos, "REGULAR", l.blk) /\ Copiando(h, <<"bitmap", "tabla", "fat">>, "createFin")
    BY <1>4 DEF CreateAlta, En
  <2>2. l.luego = "libre"
    BY <1>1, <2>1 DEF LocalBien
  <2>3. l.ruta # <<>> /\ l.padre # NoEsta /\ l.pos \in Entradas /\ l.blk \in Bloques
    BY <1>1, <2>1, <2>2 DEF LocalBien
  <2>4. tabla' \in Tablas
    BY <2>1, <2>3, TablaAlta
  <2>5. TMem'
    BY <1>4, <2>3, <2>4 DEF CreateAlta, TMem, TInv, TypeOK, Fats
  <2>6. <<"bitmap", "tabla", "fat">> \in Copias
    BY DEF Copias
  <2>. QED BY <1>4, <2>1, <2>5, <2>6, CopiaBien, SigueIgual DEF CreateAlta
<1>5. CASE CreateFin(h)
  BY <1>5, TipoCreado, SigueIgual DEF CreateFin, En
<1>. QED BY <1>2, <1>3, <1>4, <1>5

\* osada_rmdir and osada_utimens.
LEMMA TipoRmdir ==
  ASSUME TInv, NEW h \in Hilos, Rmdir(h) \/ RmdirBaja(h) \/ Utimens(h)
  PROVE  TInv'
<1>. DEFINE l == loc[h]
<1>1. LocalBien(l) /\ l \in Locales
  BY DeHilo
<1>2. CASE Responder(h) /\ ~RmdirBaja(h)
  BY <1>2, TipoResponde, SigueIgual DEF Rmdir, Utimens
<1>3. CASE Rmdir(h) /\ ~Responder(h)
  <2>. DEFINE i == Buscar(Last(l.ruta), PadreDe(l.ruta), {"DIRECTORY"})
  <2>1. l.pc = "rmdir" /\ i # NoEsta /\ loc' = [loc EXCEPT ![h].pc = "rmdirBaja", ![h].pos = i]
    BY <1>3 DEF Rmdir, En
  <2>2. l.ruta # <<>> /\ l.ruta \in Seq(Nombres)
    BY <1>1, <2>1 DEF LocalBien, Locales
  <2>3. i \in Entradas
    BY <2>1, <2>2, Hallazgos
  <2>. HIDE DEF i
  <2>. QED BY <1>3, <2>1, <2>3, PosBien, SigueIgual DEF Rmdir
<1>4. CASE RmdirBaja(h)
  <2>1. l.pc = "rmdirBaja" /\ Copiando(h, <<"tabla">>, "libre")
    BY <1>4 DEF RmdirBaja, En
  <2>2. l.pos \in Entradas
    BY <1>1, <2>1 DEF LocalBien
  <2>3. TMem'
    <3>1. tabla' \in Tablas
      BY <1>4, <2>2, TablaBaja DEF RmdirBaja
    <3>. QED BY <1>4, <3>1 DEF RmdirBaja, TMem, TInv, TypeOK
  <2>4. <<"tabla">> \in Copias
    BY DEF Copias
  <2>. QED BY <1>4, <2>1, <2>3, <2>4, CopiaBien, SigueIgual DEF RmdirBaja
<1>5. CASE Utimens(h) /\ ~Responder(h)
  <2>1. l.pc = "utimens" /\ Copiando(h, <<"tabla">>, "libre")
    BY <1>5 DEF Utimens, En
  <2>2. <<"tabla">> \in Copias
    BY DEF Copias
  <2>. QED BY <1>5, <2>1, <2>2, CopiaBien, SigueIgual DEF Utimens
<1>. QED BY <1>2, <1>3, <1>4, <1>5

\* osada_rename.
LEMMA TipoRename ==
  ASSUME TInv, NEW h \in Hilos, Rename(h)
  PROVE  TInv'
<1>. DEFINE l == loc[h]
            de == is_parent(l.ruta)
            a == PadreDe(l.dest)
            m == [l EXCEPT !.pc = "renameAlta", !.pos = de, !.padre = a]
<1>1. LocalBien(l) /\ l \in Locales /\ loc \in [Hilos -> Locales]
  BY DeHilo
<1>2. CASE Responder(h)
  BY <1>2, TipoResponde, SigueIgual DEF Rename
<1>3. CASE ~Responder(h)
  <2>1. /\ l.pc = "rename" /\ Vigente(de) /\ (a = Raiz \/ Vigente(a))
        /\ loc' = [loc EXCEPT ![h].pc = "renameAlta", ![h].pos = de, ![h].padre = a]
    BY <1>3 DEF Rename, En
  <2>2. /\ l.ruta # <<>> /\ l.ruta \in Seq(Nombres) /\ l.luego = "libre"
        /\ l.dest # <<>> /\ l.dest \in Seq(Nombres)
    BY <1>1, <2>1 DEF LocalBien, Locales
  <2>3. de \in Entradas /\ a \in Lugares \ {NoEsta}
    <3>1. de \in Entradas \cup {NoEsta} /\ a \in Lugares
      BY <2>2, Hallazgos
    <3>2. Raiz # NoEsta
      BY SupuestoOsada DEF Raiz, NoEsta
    <3>. QED BY <2>1, <3>1, <3>2 DEF Vigente
  <2>. HIDE DEF de, a
  <2>4. m \in Locales
    <3>1. "renameAlta" \in Pasos /\ de \in 0..NoEsta /\ a \in Entradas \cup {Raiz, NoEsta}
      BY <2>3, SupuestoOsada DEF Pasos, Entradas, NoEsta, Lugares
    <3>. QED BY <1>1, <3>1, ZenonT(30) DEF Locales
  <2>5. loc' = [loc EXCEPT ![h] = m]
    BY <1>1, <2>1 DEF Locales
  <2>6. Salvo(m, l, {"pc", "pos", "padre"}) /\ m.pc = "renameAlta" /\ m.pos = de /\ m.padre = a
    BY <1>1 DEF Locales, Salvo, Campos
  <2>. HIDE DEF m
  <2>7. LocalBien(m)
    BY <1>1, <2>2, <2>3, <2>4, <2>6 DEF LocalBien, Salvo, Campos
  <2>. QED BY <2>5, <2>7, GuardaLoc, SigueIgual DEF Rename
<1>. QED BY <1>2, <1>3

LEMMA TipoRenameAlta ==
  ASSUME TInv, NEW h \in Hilos, RenameAlta(h)
  PROVE  TInv'
<1>. DEFINE l == loc[h]
            i == l.pos
            r == [tabla[i] EXCEPT !.nombre = Last(l.dest), !.padre = l.padre]
            q == abierto[h].ruta
            nueva == IF abierto[h] # Cerrado /\ IsPrefix(l.ruta, q)
                       THEN l.dest \o SubSeq(q, Len(l.ruta) + 1, Len(q)) ELSE q
            a == [abierto[h] EXCEPT !.ruta = nueva]
<1>1. LocalBien(l) /\ l \in Locales /\ l.pc = "renameAlta" /\ l.luego = "libre"
  BY DeHilo DEF LocalBien, RenameAlta, En
<1>2. CASE Responder(h) /\ UNCHANGED <<tabla, abierto>>
  BY <1>2, TipoResponde, SigueIgual DEF RenameAlta, estructuras
<1>3. CASE /\ tabla' = [tabla EXCEPT ![i].nombre = Last(l.dest), ![i].padre = l.padre]
           /\ abierto' = [abierto EXCEPT ![h].ruta = nueva]
           /\ Copiando(h, <<"tabla">>, "libre")
  <2>1. /\ l.dest \in Seq(Nombres) /\ l.dest # <<>> /\ l.ruta \in Seq(Nombres) /\ i \in Entradas
        /\ l.padre \in Entradas \cup {Raiz}
    BY <1>1 DEF LocalBien, Locales
  <2>2. tabla' \in Tablas
    <3>1. tabla[i] \in Entrada /\ tabla \in [Entradas -> Entrada]
      BY <2>1, Fichas
    <3>2. Last(l.dest) \in Nombradas
      BY <2>1, FrenteDe, Filas
    <3>3. r \in Entrada
      BY <2>1, <3>1, <3>2, Zenon DEF Entrada
    <3>4. tabla' = [tabla EXCEPT ![i] = r]
      BY <1>3, <2>1, <3>1 DEF Entrada
    <3>. QED BY <2>1, <3>3, <3>4, Fichas
  <2>3. TMem'
    BY <2>2 DEF RenameAlta, TMem, TInv, TypeOK
  <2>4. AbiertoBien(a) /\ abierto' = [abierto EXCEPT ![h] = a]
    <3>1. AbiertoBien(abierto[h]) /\ abierto[h] \in Abierto /\ abierto \in [Hilos -> Abierto]
      BY DeHilo DEF AbiertoBien
    <3>2. q \in Seq(Nombres)
      BY <3>1 DEF Abierto
    <3>3. nueva \in Seq(Nombres) /\ (nueva = q \/ nueva # <<>>)
      <4>. DEFINE s == SubSeq(q, Len(l.ruta) + 1, Len(q))
      <4>1. CASE IsPrefix(l.ruta, q)
        <5>1. Len(l.ruta) \in Nat /\ Len(q) \in Nat
          BY <2>1, <3>2
        <5>2. Len(l.ruta) + 1 \in 1..Len(q) + 1
          BY <4>1, <5>1 DEF IsPrefix
        <5>3. s \in Seq(Nombres)
          <6>1. Len(q) \in Len(l.ruta) + 1 - 1..Len(q)
            BY <5>1, <5>2
          <6>. QED BY <3>2, <5>2, <6>1, SubSeqProperties
        <5>. HIDE DEF s
        <5>4. l.dest \o s \in Seq(Nombres) /\ l.dest \o s # <<>>
          BY <2>1, <5>3, ConcatProperties, ConcatEmptySeq
        <5>. QED BY <3>2, <5>4 DEF s
      <4>2. CASE ~IsPrefix(l.ruta, q)
        BY <3>2, <4>2
      <4>. QED BY <4>1, <4>2
    <3>. HIDE DEF nueva
    <3>4. a \in Abierto /\ a.ruta = nueva /\ a.modo = abierto[h].modo
      BY <3>1, <3>3 DEF Abierto
    <3>5. abierto' = [abierto EXCEPT ![h] = a]
      BY <1>3
    <3>6. abierto[h] = Cerrado => nueva = q
      BY DEF nueva
    <3>7. a # Cerrado => a.ruta # <<>>
      <4>1. CASE abierto[h] = Cerrado
        <5>1. a = abierto[h]
          BY <3>1, <3>6, <4>1 DEF Abierto
        <5>. QED BY <4>1, <5>1
      <4>2. CASE abierto[h] # Cerrado
        BY <3>1, <3>3, <3>4, <4>2 DEF AbiertoBien
      <4>. QED BY <4>1, <4>2
    <3>. QED BY <3>4, <3>5, <3>7 DEF AbiertoBien
  <2>5. LocalBien(ConCopia(l, <<"tabla">>, "libre"))
    <3>1. <<"tabla">> \in Copias
      BY DEF Copias
    <3>. QED BY <1>1, <3>1, CopiaLocal
  <2>6. loc' = [loc EXCEPT ![h] = ConCopia(l, <<"tabla">>, "libre")]
    BY <1>3, CopiaIgual
  <2>7. UNCHANGED <<disco, mux, mux_files, pedidos, servidor>>
    BY DEF RenameAlta
  <2>. HIDE DEF a, l
  <2>. QED BY <2>3, <2>4, <2>5, <2>6, <2>7, Guarda, SigueIgual
<1>. QED BY <1>2, <1>3 DEF RenameAlta

\* osada_unlink.
LEMMA TipoUnlink ==
  ASSUME TInv, NEW h \in Hilos, Unlink(h) \/ UnlinkBaja(h) \/ UnlinkLimpiar(h)
  PROVE  TInv'
<1>. DEFINE l == loc[h]
<1>1. LocalBien(l) /\ l \in Locales
  BY DeHilo
<1>2. CASE Unlink(h)
  <2>. DEFINE i == is_parent(l.ruta)
  <2>1. CASE Responder(h)
    BY <1>2, <2>1, TipoResponde, SigueIgual DEF Unlink
  <2>2. CASE Vigente(i) /\ loc' = [loc EXCEPT ![h].pc = "unlinkBaja", ![h].pos = i]
    <3>1. l.pc = "unlink"
      BY <1>2 DEF Unlink, En
    <3>2. l.ruta # <<>> /\ l.ruta \in Seq(Nombres)
      BY <1>1, <3>1 DEF LocalBien, Locales
    <3>3. i \in Entradas
      BY <2>2, <3>2, Hallazgos DEF Vigente
    <3>. HIDE DEF i
    <3>. QED BY <1>2, <2>2, <3>1, <3>3, PosBien, SigueIgual DEF Unlink
  <2>. QED BY <1>2, <2>1, <2>2 DEF Unlink
<1>3. CASE UnlinkBaja(h)
  <2>1. l.pc = "unlinkBaja"
    BY <1>3 DEF UnlinkBaja, En
  <2>2. CASE Responder(h) /\ UNCHANGED tabla
    BY <1>3, <2>2, TipoResponde, SigueIgual DEF UnlinkBaja, estructuras
  <2>3. CASE tabla' = [tabla EXCEPT ![l.pos].estado = "DELETED"] /\ Ir(h, "unlinkPrimero")
    <3>1. l.pos \in Entradas
      BY <1>1, <2>1 DEF LocalBien
    <3>2. tabla' \in Tablas
      BY <2>3, <3>1, TablaBaja
    <3>3. TMem'
      BY <1>3, <3>2 DEF UnlinkBaja, TMem, TInv, TypeOK
    <3>. QED BY <1>3, <2>1, <2>3, <3>3, IrBien, SigueIgual DEF UnlinkBaja
  <2>. QED BY <1>3, <2>2, <2>3 DEF UnlinkBaja
<1>4. CASE UnlinkLimpiar(h)
  <2>1. TMem'
    BY <1>4 DEF UnlinkLimpiar, TMem, TInv, TypeOK
  <2>. QED BY <1>4, <2>1, IrBien, SigueIgual DEF UnlinkLimpiar, En
<1>. QED BY <1>2, <1>3, <1>4

LEMMA TipoUnlinkSigue ==
  ASSUME TInv, NEW h \in Hilos, UnlinkPrimero(h) \/ UnlinkSeguir(h)
  PROVE  TInv'
<1>. DEFINE l == loc[h]
            Sale(b) == [l EXCEPT !.blk = b, !.pc = "copiar", !.copias = <<"bitmap", "tabla">>]
            Va(b) == [l EXCEPT !.blk = b, !.pc = "unlinkLimpiar", !.copias = <<>>]
<1>1. LocalBien(l) /\ l \in Locales /\ l.pc \in {"unlinkPrimero", "unlinkSeguir"} /\ l.luego = "libre"
  BY DeHilo DEF LocalBien, UnlinkPrimero, UnlinkSeguir, En
<1>2. l.ruta # <<>>
  BY <1>1 DEF LocalBien
<1>3. PICK b \in Bloques \cup {FIN} : UnlinkSigue(h, b)
  <2>1. CASE UnlinkPrimero(h)
    <3>1. l.pos \in Entradas
      BY <1>1, <2>1 DEF LocalBien, UnlinkPrimero, En
    <3>2. tabla[l.pos].primero \in Bloques \cup {FIN}
      BY <3>1, Fichas DEF Entrada
    <3>. QED BY <2>1, <3>2 DEF UnlinkPrimero
  <2>2. CASE UnlinkSeguir(h)
    <3>1. l.blk \in Bloques
      BY <1>1, <2>2 DEF LocalBien, UnlinkSeguir, En
    <3>2. fat[l.blk] \in Bloques \cup {FIN}
      BY <3>1 DEF TInv, TypeOK, Fats
    <3>. QED BY <2>2, <3>2 DEF UnlinkSeguir
  <2>. QED BY <2>1, <2>2
<1>4. UNCHANGED <<estructuras, disco, mux, mux_files, abierto, pedidos, servidor>>
  BY DEF UnlinkPrimero, UnlinkSeguir
<1>5. CASE b = FIN
  <2>1. "copiar" \in Pasos /\ <<"bitmap", "tabla">> \in Copias
    BY DEF Pasos, Copias
  <2>2. <<"bitmap", "tabla">> \in Seq({"bitmap", "tabla", "fat"})
    BY <2>1, CopiasSeq
  <2>3. Sale(b) \in Locales
    BY <1>1, <2>1, <2>2, ZenonT(30) DEF Locales
  <2>4. loc' = [loc EXCEPT ![h] = Sale(b)]
    BY <1>3, <1>5, DeHilo DEF UnlinkSigue, Locales
  <2>5. /\ Salvo(Sale(b), l, {"blk", "pc", "copias"}) /\ Sale(b).pc = "copiar"
        /\ Sale(b).copias = <<"bitmap", "tabla">>
    BY <1>1 DEF Locales, Salvo, Campos
  <2>. HIDE DEF Sale
  <2>6. LocalBien(Sale(b))
    BY <1>1, <1>2, <2>1, <2>3, <2>5 DEF LocalBien, Salvo, Campos
  <2>. QED BY <1>4, <2>4, <2>6, GuardaLoc, SigueIgual
<1>6. CASE b # FIN
  <2>1. "unlinkLimpiar" \in Pasos /\ <<>> \in Seq({"bitmap", "tabla", "fat"})
    BY DEF Pasos
  <2>2. Va(b) \in Locales
    BY <1>1, <2>1, ZenonT(30) DEF Locales
  <2>3. loc' = [loc EXCEPT ![h] = Va(b)]
    BY <1>3, <1>6, DeHilo DEF UnlinkSigue, Locales
  <2>4. /\ Salvo(Va(b), l, {"blk", "pc", "copias"}) /\ Va(b).pc = "unlinkLimpiar"
        /\ Va(b).blk = b
    BY <1>1 DEF Locales, Salvo, Campos
  <2>. HIDE DEF Va
  <2>5. LocalBien(Va(b))
    BY <1>1, <1>2, <1>6, <2>2, <2>4 DEF LocalBien, Salvo, Campos
  <2>. QED BY <1>4, <2>3, <2>5, GuardaLoc, SigueIgual
<1>. QED BY <1>5, <1>6

\* osada_open and osada_release.
LEMMA TipoAbierto ==
  ASSUME TInv, NEW h \in Hilos, NEW ok, OpenResponde(h, ok), loc[h].pc \notin {"libre", "muerto"},
         TMem', TDisco', TMux', TCandados', TResto'
  PROVE  TInv'
<1>. DEFINE a == [ruta |-> loc[h].ruta, modo |-> loc[h].modo]
<1>1. LocalBien(loc[h]) /\ loc[h] \in Locales
  BY DeHilo
<1>2. LocalBien(Ocioso) /\ loc' = [loc EXCEPT ![h] = Ocioso]
  BY OciosoBien DEF OpenResponde, Responder
<1>3. CASE abierto' = abierto
  BY <1>2, <1>3, GuardaLoc
<1>4. CASE abierto' = [abierto EXCEPT ![h] = a]
  <2>1. loc[h].ruta # <<>> /\ loc[h].ruta \in Seq(Nombres) /\ loc[h].modo \in 0..2
    BY <1>1 DEF LocalBien, Locales
  <2>2. AbiertoBien(a)
    BY <2>1 DEF AbiertoBien, Abierto
  <2>. HIDE DEF a
  <2>. QED BY <1>2, <1>4, <2>2, Guarda
<1>. QED BY <1>3, <1>4 DEF OpenResponde

LEMMA TipoSoltar ==
  ASSUME TInv, NEW h \in Hilos, NEW i \in Entradas, Soltar(h, i)
  PROVE  TCandados'
<1>. DEFINE Candado == [escribe : Hilos \cup {Nadie}, leen : Nat]
<1>1. mux_files \in [Entradas -> Candado] /\ mux_files[i] \in Candado
  BY DEF TInv, TypeOK
<1>2. \/ mux_files' = mux_files
      \/ mux_files' = [mux_files EXCEPT ![i].escribe = Nadie]
      \/ mux_files[i].leen > 0 /\ mux_files' = [mux_files EXCEPT ![i].leen = @ - 1]
  BY DEF Soltar
<1>. QED BY <1>1, <1>2 DEF TCandados

LEMMA TipoOpen == ASSUME TInv, NEW h \in Hilos, Open(h) \/ Release(h) PROVE TInv'
<1>. DEFINE l == loc[h]
            i == RegularEn(l.ruta)
<1>1. LocalBien(l) /\ l \in Locales /\ l.pc \in {"open", "release"} /\ l.ruta # <<>>
  BY DeHilo DEF LocalBien, Open, Release, En
<1>2. i # NoEsta => i \in Entradas
  <2>1. l.ruta \in Seq(Nombres)
    BY <1>1 DEF Locales
  <2>. QED BY <1>1, <2>1, Hallazgos
<1>. HIDE DEF i
<1>3. UNCHANGED <<estructuras, disco, mux, mux_files, pedidos, servidor>>
  BY DEF Open, Release
<1>4. CASE OpenResponde(h, FALSE)
  BY <1>1, <1>3, <1>4, TipoAbierto, SigueIgual
<1>5. CASE /\ i # NoEsta /\ abierto' = abierto
           /\ \E p \in {"openTomar", "releaseSoltar"} : loc' = [loc EXCEPT ![h].pc = p, ![h].pos = i]
  <2>1. PICK p \in {"openTomar", "releaseSoltar"} : loc' = [loc EXCEPT ![h].pc = p, ![h].pos = i]
    BY <1>5
  <2>. QED BY <1>1, <1>2, <1>3, <1>5, <2>1, PosBien, SigueIgual
<1>6. CASE Responder(h) /\ abierto' = [abierto EXCEPT ![h] = Cerrado]
  BY <1>3, <1>6, OciosoBien, Guarda, SigueIgual DEF Responder
<1>. QED BY <1>4, <1>5, <1>6 DEF Open, Release, i

LEMMA TipoReleaseSoltar == ASSUME TInv, NEW h \in Hilos, ReleaseSoltar(h) PROVE TInv'
<1>1. LocalBien(loc[h]) /\ loc[h].pc = "releaseSoltar"
  BY DeHilo DEF ReleaseSoltar, En
<1>2. loc[h].pos \in Entradas
  BY <1>1 DEF LocalBien
<1>3. TCandados'
  BY <1>2, TipoSoltar DEF ReleaseSoltar
<1>. QED BY <1>3, OciosoBien, Guarda, SigueIgual DEF ReleaseSoltar, Responder

\* ftruncate begins, for the open or the write that has found its file.
LEMMA TipoATruncar ==
  ASSUME TInv, NEW h \in Hilos, NEW v \in {"open", "write"}, NEW w \in Entradas \cup {NoEsta},
         loc[h].pc \in {"openTomar", "write"}, v = "write" => w \in Entradas,
         \/ v = "open" /\ loc' = [loc EXCEPT ![h].pc = "truncate", ![h].vuelve = v]
         \/ loc' = [loc EXCEPT ![h].pc = "truncate", ![h].wpos = w, ![h].vuelve = v],
         abierto' = abierto, TMem', TDisco', TMux', TCandados', TResto'
  PROVE  TInv'
<1>. DEFINE l == loc[h]
            m == [l EXCEPT !.pc = "truncate", !.vuelve = v]
            n == [l EXCEPT !.pc = "truncate", !.wpos = w, !.vuelve = v]
<1>1. LocalBien(l) /\ l \in Locales /\ l.luego = "libre" /\ l.ruta # <<>> /\ loc \in [Hilos -> Locales]
  BY DeHilo DEF LocalBien
<1>2. "truncate" \in Pasos /\ w \in 0..NoEsta /\ v \in {"libre", "open", "write"}
  BY SupuestoOsada DEF Pasos, Entradas, NoEsta
<1>3. CASE v = "open" /\ loc' = [loc EXCEPT ![h].pc = "truncate", ![h].vuelve = v]
  <2>1. m \in Locales
    BY <1>1, <1>2, ZenonT(30) DEF Locales
  <2>2. loc' = [loc EXCEPT ![h] = m]
    BY <1>1, <1>3 DEF Locales
  <2>3. Salvo(m, l, {"pc", "vuelve"}) /\ m.pc = "truncate" /\ m.vuelve = v
    BY <1>1 DEF Locales, Salvo, Campos
  <2>. HIDE DEF m
  <2>4. LocalBien(m)
    BY <1>1, <1>3, <2>1, <2>3 DEF LocalBien, Salvo, Campos
  <2>. QED BY <2>2, <2>4, GuardaLoc
<1>4. CASE loc' = [loc EXCEPT ![h].pc = "truncate", ![h].wpos = w, ![h].vuelve = v]
  <2>1. n \in Locales
    BY <1>1, <1>2, ZenonT(30) DEF Locales
  <2>2. loc' = [loc EXCEPT ![h] = n]
    BY <1>1, <1>4 DEF Locales
  <2>3. Salvo(n, l, {"pc", "wpos", "vuelve"}) /\ n.pc = "truncate" /\ n.vuelve = v /\ n.wpos = w
    BY <1>1 DEF Locales, Salvo, Campos
  <2>. HIDE DEF n
  <2>4. LocalBien(n)
    BY <1>1, <2>1, <2>3 DEF LocalBien, Salvo, Campos
  <2>. QED BY <2>2, <2>4, GuardaLoc
<1>. QED BY <1>3, <1>4

LEMMA TipoOpenTomar == ASSUME TInv, NEW h \in Hilos, OpenTomar(h) PROVE TInv'
<1>. DEFINE i == loc[h].pos
            Candado == [escribe : Hilos \cup {Nadie}, leen : Nat]
<1>1. LocalBien(loc[h]) /\ loc[h].pc = "openTomar"
  BY DeHilo DEF OpenTomar, En
<1>2. i \in Entradas
  BY <1>1 DEF LocalBien
<1>3. UNCHANGED <<estructuras, disco, mux, pedidos, servidor>>
  BY DEF OpenTomar
<1>4. TCandados'
  <2>1. mux_files \in [Entradas -> Candado] /\ mux_files[i] \in Candado
    BY <1>2 DEF TInv, TypeOK
  <2>2. \/ mux_files' = mux_files
        \/ mux_files' = [mux_files EXCEPT ![i].escribe = h]
        \/ mux_files' = [mux_files EXCEPT ![i].leen = @ + 1]
    BY DEF OpenTomar
  <2>. QED BY <1>2, <2>1, <2>2 DEF TCandados
<1>5. CASE \E ok \in BOOLEAN : OpenResponde(h, ok)
  BY <1>1, <1>3, <1>4, <1>5, TipoAbierto, SigueIgual
<1>6. CASE /\ loc' = [loc EXCEPT ![h].pc = "truncate", ![h].vuelve = "open"]
           /\ UNCHANGED abierto
  <2>1. \E w : w \in Entradas \cup {NoEsta}
    OBVIOUS
  <2>. QED BY <1>1, <1>3, <1>4, <1>6, <2>1, TipoATruncar, SigueIgual
<1>. QED BY <1>5, <1>6 DEF OpenTomar

\* ftruncate's return.
LEMMA TipoVuelve ==
  ASSUME TInv, NEW h \in Hilos, NEW ok \in BOOLEAN, Vuelve(h, ok),
         loc[h].pc \in {"truncate", "truncado", "pedir"}, loc[h].pc = "pedir" => ~ok,
         TMem', TDisco', TMux', TCandados', TResto'
  PROVE  TInv'
<1>1. CASE OpenResponde(h, ok)
  BY <1>1, TipoAbierto
<1>2. CASE loc[h].vuelve = "write" /\ ok /\ Ir(h, "writeIr") /\ UNCHANGED abierto
  BY <1>2, IrBien
<1>3. CASE Responder(h) /\ UNCHANGED abierto
  BY <1>3, TipoResponde
<1>. QED BY <1>1, <1>2, <1>3 DEF Vuelve

\* osada_ftruncate.
LEMMA TipoTruncate == ASSUME TInv, NEW h \in Hilos, Truncate(h) PROVE TInv'
<1>. DEFINE l == loc[h]
            i == is_parent(l.ruta)
            abm == BloquesDe(l.tam) - BloquesDe(tabla[i].tam)
            m == [l EXCEPT !.pc = "cola", !.pos = i, !.abm = abm]
<1>1. /\ LocalBien(l) /\ l \in Locales /\ l.pc = "truncate" /\ l.luego = "libre" /\ l.ruta # <<>>
      /\ loc \in [Hilos -> Locales]
  BY DeHilo DEF LocalBien, Truncate, En
<1>2. UNCHANGED <<estructuras, disco, mux, mux_files, pedidos, servidor>>
  BY DEF Truncate
<1>3. CASE \E ok \in BOOLEAN : Vuelve(h, ok)
  BY <1>1, <1>2, <1>3, TipoVuelve, SigueIgual
<1>4. CASE /\ Vigente(i) /\ UNCHANGED abierto
           /\ loc' = [loc EXCEPT ![h].pc = "cola", ![h].pos = i, ![h].abm = abm]
  <2>1. i \in Entradas
    <3>1. l.ruta \in Seq(Nombres)
      BY <1>1 DEF Locales
    <3>. QED BY <1>1, <1>4, <3>1, Hallazgos DEF Vigente
  <2>2. abm \in Int
    <3>1. l.tam \in Nat /\ tabla[i].tam \in Nat
      BY <1>1, <2>1, Fichas, SupuestoOsada DEF Locales, Entrada
    <3>. HIDE DEF l, i
    <3>2. \A x \in Nat : BloquesDe(x) \in Int
      BY SupuestoOsada DEF BloquesDe
    <3>. QED BY <3>1, <3>2
  <2>. HIDE DEF i, abm
  <2>3. m \in Locales
    <3>1. "cola" \in Pasos /\ i \in 0..NoEsta
      BY <2>1, SupuestoOsada DEF Pasos, Entradas, NoEsta
    <3>. QED BY <1>1, <2>2, <3>1, ZenonT(30) DEF Locales
  <2>4. loc' = [loc EXCEPT ![h] = m]
    BY <1>1, <1>4 DEF Locales
  <2>5. Salvo(m, l, {"pc", "pos", "abm"}) /\ m.pc = "cola" /\ m.pos = i
    BY <1>1 DEF Locales, Salvo, Campos
  <2>. HIDE DEF m
  <2>6. LocalBien(m)
    BY <1>1, <2>1, <2>3, <2>5 DEF LocalBien, Salvo, Campos
  <2>. QED BY <1>2, <1>4, <2>4, <2>6, GuardaLoc, SigueIgual
<1>. QED BY <1>3, <1>4 DEF Truncate

LEMMA BloqueTipo ==
  ASSUME TInv, NEW b \in Bloques \cup {FIN}, NEW k \in Nat
  PROVE  /\ Bloque(b, k) \in Bloques \cup {FIN}
         /\ Bloque(b, k + 1) # FIN => Bloque(b, k) # FIN
<1>1. fat \in Fats
  BY DEF TInv, TypeOK
<1>2. /\ BloqueEn(fat, b, k) \in Bloques \cup {FIN}
      /\ BloqueEn(fat, b, k + 1) # FIN => BloqueEn(fat, b, k) # FIN
  BY <1>1, BloquePaso
<1>. QED BY <1>2, Paseos, Zenon

LEMMA TipoCola == ASSUME TInv, NEW h \in Hilos, Cola(h) PROVE TInv'
<1>. DEFINE l == loc[h]
            b == tabla[l.pos].primero
<1>1. /\ LocalBien(l) /\ l \in Locales /\ l.pc = "cola" /\ l.luego = "libre" /\ l.ruta # <<>>
      /\ loc \in [Hilos -> Locales]
  BY DeHilo DEF LocalBien, Cola, En
<1>2. l.pos \in Entradas
  BY <1>1 DEF LocalBien
<1>3. b \in Bloques \cup {FIN}
  BY <1>2, Fichas DEF Entrada
<1>4. CASE UNCHANGED loc
  <2>1. LocalBien(l) /\ loc' = [loc EXCEPT ![h] = l]
    BY <1>1, <1>4
  <2>2. TResto'
    BY DEF Cola, TResto, TInv, TypeOK
  <2>. QED BY <2>1, <2>2, GuardaLoc, SigueIgual DEF Cola
<1>5. CASE loc' # loc
  <2>1. PICK k \in Ultimo(b) :
          loc' = [loc EXCEPT
                   ![h].blk = Bloque(b, k),
                   ![h].ant = IF k = 0 THEN FIN ELSE Bloque(b, k - 1),
                   ![h].abm = IF @ < 0 /\ k = 0 THEN @ + 1 ELSE @,
                   ![h].pc = IF loc[h].abm > 0 THEN "pedir"
                             ELSE IF k > 0 THEN "limpiar" ELSE "cola"]
    BY <1>5 DEF Cola
  <2>2. k \in Nat /\ Bloque(b, k) # FIN
    BY SupuestoOsada DEF Ultimo
  <2>3. Bloque(b, k) \in Bloques
    BY <1>3, <2>2, BloqueTipo
  <2>. DEFINE x == Bloque(b, k)
              y == IF k = 0 THEN FIN ELSE Bloque(b, k - 1)
              z == IF l.abm < 0 /\ k = 0 THEN l.abm + 1 ELSE l.abm
              p == IF l.abm > 0 THEN "pedir" ELSE IF k > 0 THEN "limpiar" ELSE "cola"
              m == [l EXCEPT !.blk = x, !.ant = y, !.abm = z, !.pc = p]
  <2>4. loc' = [loc EXCEPT ![h] = m]
    BY <1>1, <2>1 DEF Locales
  <2>5. y \in Bloques \cup {FIN} /\ (k # 0 => y \in Bloques)
    <3>1. CASE k # 0
      <4>1. k - 1 \in Nat /\ (k - 1) + 1 = k
        BY <2>2, <3>1
      <4>2. Bloque(b, k - 1) \in Bloques
        BY <1>3, <2>2, <4>1, BloqueTipo
      <4>. QED BY <3>1, <4>2
    <3>. QED BY <3>1
  <2>6. z \in Int /\ p \in {"pedir", "limpiar", "cola"} /\ (p = "limpiar" => k # 0)
    BY <1>1, <2>2 DEF Locales
  <2>. HIDE DEF b, x, y, z, p
  <2>7. m \in Locales
    <3>1. p \in Pasos /\ x \in Bloques \cup {FIN}
      BY <2>3, <2>6 DEF Pasos, x
    <3>. QED BY <1>1, <2>5, <2>6, <3>1, ZenonT(30) DEF Locales
  <2>8. Salvo(m, l, {"blk", "ant", "abm", "pc"}) /\ m.pc = p /\ m.blk = x /\ m.ant = y
    BY <1>1 DEF Locales, Salvo, Campos
  <2>. HIDE DEF m
  <2>9. LocalBien(m)
    BY <1>1, <1>2, <2>3, <2>5, <2>6, <2>7, <2>8 DEF LocalBien, Salvo, Campos, x
  <2>10. UNCHANGED <<estructuras, disco, mux, mux_files, abierto, pedidos>>
    BY DEF Cola
  <2>11. TResto'
    BY DEF Cola, TResto, TInv, TypeOK
  <2>. QED BY <2>4, <2>9, <2>10, <2>11, GuardaLoc, SigueIgual
<1>. QED BY <1>4, <1>5

LEMMA TipoPedirBloque == ASSUME TInv, NEW h \in Hilos, PedirBloque(h) PROVE TInv'
<1>. DEFINE l == loc[h]
            m == [l EXCEPT !.pc = "marcar", !.ant = l.blk, !.blk = BitLibre]
<1>1. /\ LocalBien(l) /\ l \in Locales /\ l.pc = "pedir" /\ l.luego = "libre" /\ l.ruta # <<>>
      /\ loc \in [Hilos -> Locales]
  BY DeHilo DEF LocalBien, PedirBloque, En
<1>2. CASE Vuelve(h, FALSE) /\ UNCHANGED mux
  BY <1>1, <1>2, TipoVuelve, SigueIgual DEF PedirBloque
<1>3. CASE /\ BitLibre # FIN /\ mux' = h /\ UNCHANGED abierto
           /\ loc' = [loc EXCEPT ![h].pc = "marcar", ![h].ant = loc[h].blk, ![h].blk = BitLibre]
  <2>1. PICK x \in Bloques : x = BitLibre
    BY <1>3, LibreBien
  <2>2. m \in Locales
    <3>1. "marcar" \in Pasos /\ BitLibre \in Bloques \cup {FIN} /\ l.blk \in Bloques \cup {FIN}
      BY <1>1, <2>1 DEF Pasos, Locales
    <3>. QED BY <1>1, <3>1, ZenonT(30) DEF Locales
  <2>3. loc' = [loc EXCEPT ![h] = m]
    BY <1>1, <1>3 DEF Locales
  <2>4. Salvo(m, l, {"pc", "ant", "blk"}) /\ m.pc = "marcar" /\ m.blk = x /\ m.ant = l.blk
    BY <1>1, <2>1 DEF Locales, Salvo, Campos
  <2>7. l.blk \in Bloques
    BY <1>1 DEF LocalBien
  <2>. HIDE DEF m
  <2>5. LocalBien(m)
    BY <1>1, <2>2, <2>4, <2>7 DEF LocalBien, Salvo, Campos
  <2>6. TMux'
    BY <1>3 DEF TMux
  <2>. QED BY <1>3, <2>3, <2>5, <2>6, GuardaLoc, SigueIgual DEF PedirBloque
<1>. QED BY <1>2, <1>3 DEF PedirBloque

\* The bits and the links that it changes.
LEMMA TipoMarcar ==
  ASSUME TInv, NEW h \in Hilos, Marcar(h) \/ Limpiar(h) \/ NuncaMarcar(h)
  PROVE  TInv'
<1>1. LocalBien(loc[h]) /\ loc[h] \in Locales
  BY DeHilo
<1>2. CASE Limpiar(h)
  <2>1. TMem'
    BY <1>2 DEF Limpiar, TMem, TInv, TypeOK
  <2>. QED BY <1>2, <2>1, IrBien, SigueIgual DEF Limpiar, En
<1>3. CASE Marcar(h) \/ NuncaMarcar(h)
  <2>1. loc[h].blk \in Bloques
    BY <1>1, <1>3 DEF Marcar, NuncaMarcar, En, LocalBien
  <2>2. TMem'
    BY <1>3, <2>1 DEF Marcar, NuncaMarcar, TMem, TInv, TypeOK
  <2>. QED BY <1>3, <2>2, IrBien, SigueIgual DEF Marcar, NuncaMarcar, En
<1>. QED BY <1>2, <1>3

LEMMA TipoEnlazar == ASSUME TInv, NEW h \in Hilos, Enlazar(h) \/ NuncaEnlazar(h) PROVE TInv'
<1>. DEFINE l == loc[h]
            m == [l EXCEPT !.pc = "terminar", !.luego = "cola", !.abm = l.abm - 1]
            n == [l EXCEPT !.pc = "terminar", !.luego = "nuncaSeguir"]
<1>1. LocalBien(l) /\ l \in Locales /\ loc \in [Hilos -> Locales]
  BY DeHilo
<1>2. /\ l.luego = "libre" /\ l.ruta # <<>> /\ l.blk \in Bloques \cup {FIN} /\ l.abm \in Int
      /\ {"terminar", "cola", "nuncaSeguir"} \subseteq Pasos
  BY <1>1 DEF LocalBien, Enlazar, NuncaEnlazar, En, Locales, Pasos
<1>3. TMem'
  BY <1>2 DEF Enlazar, NuncaEnlazar, TMem, TInv, TypeOK, Fats
<1>4. CASE Enlazar(h)
  <2>1. l.abm - 1 \in Int
    BY <1>2
  <2>2. m \in Locales
    BY <1>1, <1>2, <2>1, ZenonT(30) DEF Locales
  <2>3. loc' = [loc EXCEPT ![h] = m]
    BY <1>1, <1>4 DEF Locales, Enlazar
  <2>4. Salvo(m, l, {"pc", "luego", "abm"}) /\ m.pc = "terminar" /\ m.luego = "cola"
    BY <1>1 DEF Locales, Salvo, Campos
  <2>5. l.pc = "enlazar"
    BY <1>4 DEF Enlazar, En
  <2>. HIDE DEF m
  <2>6. LocalBien(m)
    BY <1>1, <1>2, <2>2, <2>4, <2>5 DEF LocalBien, Salvo, Campos
  <2>. QED BY <1>3, <1>4, <2>3, <2>6, GuardaLoc, SigueIgual DEF Enlazar
<1>5. CASE NuncaEnlazar(h)
  <2>1. n \in Locales
    BY <1>1, <1>2, ZenonT(30) DEF Locales
  <2>2. loc' = [loc EXCEPT ![h] = n]
    BY <1>1, <1>5 DEF Locales, NuncaEnlazar
  <2>3. Salvo(n, l, {"pc", "luego"}) /\ n.pc = "terminar" /\ n.luego = "nuncaSeguir"
    BY <1>1 DEF Locales, Salvo, Campos
  <2>4. l.pc = "nuncaEnlazar"
    BY <1>5 DEF NuncaEnlazar, En
  <2>. HIDE DEF n
  <2>5. LocalBien(n)
    BY <1>1, <1>2, <2>1, <2>3, <2>4 DEF LocalBien, Salvo, Campos
  <2>. QED BY <1>3, <1>5, <2>2, <2>5, GuardaLoc, SigueIgual DEF NuncaEnlazar
<1>. QED BY <1>4, <1>5

LEMMA TipoTerminar == ASSUME TInv, NEW h \in Hilos, Terminar(h) \/ Cortar(h) PROVE TInv'
<1>. DEFINE l == loc[h]
            m == [l EXCEPT !.pc = "copiar", !.copias = <<"bitmap", "fat">>]
            n == [l EXCEPT !.pc = "copiar", !.copias = <<"bitmap", "fat">>, !.luego = "cola",
                           !.abm = l.abm + 1]
<1>1. LocalBien(l) /\ l \in Locales /\ loc \in [Hilos -> Locales]
  BY DeHilo
<1>2. l.ruta # <<>> /\ l.abm \in Int /\ {"copiar", "cola"} \subseteq Pasos
  BY <1>1 DEF LocalBien, Terminar, Cortar, En, Locales, Pasos
<1>3. <<"bitmap", "fat">> \in Copias /\ <<"bitmap", "fat">> \in Seq({"bitmap", "tabla", "fat"})
  BY CopiasSeq DEF Copias
<1>4. TMem'
  BY DEF Terminar, Cortar, TMem, TInv, TypeOK, Fats
<1>5. CASE Terminar(h)
  <2>1. m \in Locales
    BY <1>1, <1>2, <1>3, ZenonT(30) DEF Locales
  <2>2. loc' = [loc EXCEPT ![h] = m]
    BY <1>1, <1>5 DEF Locales, Terminar
  <2>3. Salvo(m, l, {"pc", "copias"}) /\ m.pc = "copiar" /\ m.copias = <<"bitmap", "fat">>
    BY <1>1 DEF Locales, Salvo, Campos
  <2>4. l.pc = "terminar"
    BY <1>5 DEF Terminar, En
  <2>. HIDE DEF m
  <2>5. LocalBien(m)
    BY <1>1, <1>2, <1>3, <2>1, <2>3, <2>4 DEF LocalBien, Salvo, Campos
  <2>. QED BY <1>4, <1>5, <2>2, <2>5, GuardaLoc, SigueIgual DEF Terminar
<1>6. CASE Cortar(h)
  <2>1. l.abm + 1 \in Int
    BY <1>2
  <2>2. n \in Locales
    BY <1>1, <1>2, <1>3, <2>1, ZenonT(30) DEF Locales
  <2>3. loc' = [loc EXCEPT ![h] = n]
    BY <1>1, <1>6 DEF Locales, Cortar
  <2>4. /\ Salvo(n, l, {"pc", "copias", "luego", "abm"})
        /\ n.pc = "copiar" /\ n.copias = <<"bitmap", "fat">> /\ n.luego = "cola"
    BY <1>1 DEF Locales, Salvo, Campos
  <2>5. l.pc = "cortar"
    BY <1>6 DEF Cortar, En
  <2>. HIDE DEF n
  <2>6. LocalBien(n)
    BY <1>1, <1>2, <1>3, <2>2, <2>4, <2>5 DEF LocalBien, Salvo, Campos
  <2>. QED BY <1>4, <1>6, <2>3, <2>6, GuardaLoc, SigueIgual DEF Cortar
<1>. QED BY <1>5, <1>6

LEMMA TipoTamanio == ASSUME TInv, NEW h \in Hilos, Tamanio(h) \/ Truncado(h) PROVE TInv'
<1>. DEFINE l == loc[h]
            r == [tabla[l.pos] EXCEPT !.tam = l.tam]
<1>1. LocalBien(l) /\ l \in Locales
  BY DeHilo
<1>2. CASE Tamanio(h)
  <2>1. l.pc = "cola" /\ l.pos \in Entradas /\ l.tam \in 0..MaxTam
    BY <1>1, <1>2 DEF Tamanio, En, LocalBien, Locales
  <2>2. r \in Entrada
    <3>1. tabla[l.pos] \in Entrada
      BY <2>1, Fichas
    <3>. HIDE DEF l
    <3>. QED BY <2>1, <3>1, Zenon DEF Entrada
  <2>3. tabla' = [tabla EXCEPT ![l.pos] = r]
    BY <1>2 DEF Tamanio
  <2>. HIDE DEF r
  <2>4. tabla' \in Tablas
    BY <2>1, <2>2, <2>3, Fichas
  <2>5. TMem'
    BY <1>2, <2>4 DEF Tamanio, TMem, TInv, TypeOK
  <2>6. <<"tabla">> \in Copias
    BY DEF Copias
  <2>. QED BY <1>2, <2>1, <2>5, <2>6, CopiaBien, SigueIgual DEF Tamanio
<1>3. CASE Truncado(h)
  BY <1>3, TipoVuelve, SigueIgual DEF Truncado, En
<1>. QED BY <1>2, <1>3

\* The copies to the image.
LEMMA TipoCopiar == ASSUME TInv, NEW h \in Hilos, Copiar(h) PROVE TInv'
<1>. DEFINE l == loc[h]
            c == l.copias
            m == [l EXCEPT !.copias = Tail(c)]
            n == [l EXCEPT !.copias = <<>>, !.pc = l.luego, !.luego = "libre"]
<1>1. /\ LocalBien(l) /\ l \in Locales /\ l.pc = "copiar" /\ c \in Copias /\ l.ruta # <<>>
      /\ loc \in [Hilos -> Locales]
  BY DeHilo DEF LocalBien, Copiar, En
<1>2. Head(c) \in {"bitmap", "tabla", "fat"} /\ (Len(c) > 1 => Tail(c) \in Copias)
  BY <1>1, CopiasSiguen
<1>3. TDisco'
  <2>1. disco \in [tabla : Tablas, bitmap : SUBSET Bloques, fat : Fats] /\ tabla \in Tablas /\ bitmap \subseteq Bloques /\ fat \in Fats
    BY DEF TInv, TypeOK
  <2>2. \/ disco' = [disco EXCEPT !.bitmap = bitmap]
        \/ disco' = [disco EXCEPT !.tabla = tabla]
        \/ disco' = [disco EXCEPT !.fat = fat]
    <3>1. PICK x \in {"bitmap", "tabla", "fat"} : x = Head(c)
      BY <1>2
    <3>2. disco' = [disco EXCEPT ![x] = [tabla |-> tabla, bitmap |-> bitmap, fat |-> fat][x]]
      BY <3>1 DEF Copiar
    <3>3. CASE x = "bitmap"
      BY <3>2, <3>3
    <3>4. CASE x = "tabla"
      BY <3>2, <3>4
    <3>5. CASE x = "fat"
      BY <3>2, <3>5
    <3>. QED BY <3>3, <3>4, <3>5
  <2>3. \A d \in [tabla : Tablas, bitmap : SUBSET Bloques, fat : Fats] :
          /\ [d EXCEPT !.bitmap = bitmap] \in [tabla : Tablas, bitmap : SUBSET Bloques, fat : Fats]
          /\ [d EXCEPT !.tabla = tabla] \in [tabla : Tablas, bitmap : SUBSET Bloques, fat : Fats]
          /\ [d EXCEPT !.fat = fat] \in [tabla : Tablas, bitmap : SUBSET Bloques, fat : Fats]
    BY <2>1, Zenon
  <2>. QED BY <2>1, <2>2, <2>3 DEF TDisco
<1>4. CASE Len(c) > 1 /\ loc' = [loc EXCEPT ![h].copias = Tail(@)]
  <2>1. Tail(c) \in Copias
    BY <1>2, <1>4
  <2>2. m \in Locales
    <3>1. Tail(c) \in Seq({"bitmap", "tabla", "fat"})
      BY <2>1, CopiasSeq
    <3>. QED BY <1>1, <3>1, ZenonT(30) DEF Locales
  <2>3. loc' = [loc EXCEPT ![h] = m]
    BY <1>1, <1>4 DEF Locales
  <2>4. Salvo(m, l, {"copias"}) /\ m.copias = Tail(c)
    BY <1>1 DEF Locales, Salvo, Campos
  <2>. HIDE DEF m
  <2>5. LocalBien(m)
    BY <1>1, <2>1, <2>2, <2>4 DEF LocalBien, Salvo, Campos
  <2>. QED BY <1>3, <2>3, <2>5, GuardaLoc, SigueIgual DEF Copiar
<1>5. CASE Responder(h)
  BY <1>3, <1>5, TipoResponde, SigueIgual DEF Copiar
<1>6. CASE /\ l.luego # "libre"
           /\ loc' = [loc EXCEPT ![h].copias = <<>>, ![h].pc = l.luego, ![h].luego = "libre"]
  <2>1. l.luego \in Pasos /\ "libre" \in Pasos /\ <<>> \in Seq({"bitmap", "tabla", "fat"})
    BY <1>1 DEF Locales, Pasos
  <2>2. n \in Locales
    BY <1>1, <2>1, ZenonT(30) DEF Locales
  <2>3. loc' = [loc EXCEPT ![h] = n]
    BY <1>1, <1>6 DEF Locales
  <2>4. Salvo(n, l, {"copias", "pc", "luego"}) /\ n.pc = l.luego /\ n.luego = "libre"
    BY <1>1 DEF Locales, Salvo, Campos
  <2>. HIDE DEF n
  <2>5. LocalBien(n)
    BY <1>1, <1>6, <2>2, <2>4 DEF LocalBien, Salvo, Campos
  <2>. QED BY <1>3, <2>3, <2>5, GuardaLoc, SigueIgual DEF Copiar
<1>. QED BY <1>4, <1>5, <1>6 DEF Copiar

\* osada_write.
LEMMA TipoWrite == ASSUME TInv, NEW h \in Hilos, Write(h) PROVE TInv'
<1>. DEFINE l == loc[h]
            i == is_parent(l.ruta)
            m == [l EXCEPT !.pc = "writeIr", !.wpos = i]
<1>1. /\ LocalBien(l) /\ l \in Locales /\ l.pc = "write" /\ l.luego = "libre" /\ l.ruta # <<>>
      /\ loc \in [Hilos -> Locales]
  BY DeHilo DEF LocalBien, Write, En
<1>2. UNCHANGED <<estructuras, disco, mux, mux_files, abierto, pedidos, servidor>>
  BY DEF Write
<1>3. i \in Entradas \cup {NoEsta}
  <2>1. l.ruta \in Seq(Nombres)
    BY <1>1 DEF Locales
  <2>. QED BY <1>1, <2>1, Hallazgos
<1>. HIDE DEF i
<1>4. CASE Responder(h)
  BY <1>2, <1>4, TipoResponde, SigueIgual
<1>5. CASE /\ Vigente(i)
           /\ loc' = [loc EXCEPT ![h].pc = "truncate", ![h].wpos = i, ![h].vuelve = "write"]
  <2>1. i \in Entradas
    BY <1>3, <1>5 DEF Vigente
  <2>. QED BY <1>1, <1>2, <1>5, <2>1, TipoATruncar, SigueIgual
<1>6. CASE Vigente(i) /\ loc' = [loc EXCEPT ![h].pc = "writeIr", ![h].wpos = i]
  <2>1. i \in Entradas
    BY <1>3, <1>6 DEF Vigente
  <2>2. m \in Locales
    <3>1. "writeIr" \in Pasos /\ i \in 0..NoEsta
      BY <2>1, SupuestoOsada DEF Pasos, Entradas, NoEsta
    <3>. QED BY <1>1, <3>1, ZenonT(30) DEF Locales
  <2>3. loc' = [loc EXCEPT ![h] = m]
    BY <1>1, <1>6 DEF Locales
  <2>4. Salvo(m, l, {"pc", "wpos"}) /\ m.pc = "writeIr" /\ m.wpos = i
    BY <1>1 DEF Locales, Salvo, Campos
  <2>. HIDE DEF m
  <2>5. LocalBien(m)
    BY <1>1, <2>1, <2>2, <2>4 DEF LocalBien, Salvo, Campos
  <2>. QED BY <1>2, <2>3, <2>5, GuardaLoc, SigueIgual
<1>. QED BY <1>4, <1>5, <1>6 DEF Write, i

\* A thread that goes on from a block to write in it.
LEMMA EscribirBien ==
  ASSUME TInv, NEW h \in Hilos, loc[h].pc \in {"writeIr", "escribir", "nuncaSeguir"},
         NEW b \in Bloques, NEW k \in Int,
         \/ loc' = [loc EXCEPT ![h].pc = "escribir", ![h].blk = b, ![h].abm = k]
         \/ loc[h].pc = "escribir" /\ loc' = [loc EXCEPT ![h].blk = b, ![h].abm = k],
         abierto' = abierto, TMem', TDisco', TMux', TCandados', TResto'
  PROVE  TInv'
<1>. DEFINE l == loc[h]
            m == [l EXCEPT !.pc = "escribir", !.blk = b, !.abm = k]
            n == [l EXCEPT !.blk = b, !.abm = k]
<1>1. LocalBien(l) /\ l \in Locales /\ l.luego = "libre" /\ l.ruta # <<>> /\ loc \in [Hilos -> Locales]
  BY DeHilo DEF LocalBien
<1>2. "escribir" \in Pasos /\ b \in Bloques \cup {FIN}
  BY DEF Pasos
<1>3. CASE loc' = [loc EXCEPT ![h].pc = "escribir", ![h].blk = b, ![h].abm = k]
  <2>1. m \in Locales
    BY <1>1, <1>2, ZenonT(30) DEF Locales
  <2>2. loc' = [loc EXCEPT ![h] = m]
    BY <1>1, <1>3 DEF Locales
  <2>3. Salvo(m, l, {"pc", "blk", "abm"}) /\ m.pc = "escribir" /\ m.blk = b
    BY <1>1 DEF Locales, Salvo, Campos
  <2>. HIDE DEF m
  <2>4. LocalBien(m)
    BY <1>1, <2>1, <2>3 DEF LocalBien, Salvo, Campos
  <2>. QED BY <2>2, <2>4, GuardaLoc
<1>4. CASE l.pc = "escribir" /\ loc' = [loc EXCEPT ![h].blk = b, ![h].abm = k]
  <2>1. n \in Locales
    BY <1>1, <1>2, ZenonT(30) DEF Locales
  <2>2. loc' = [loc EXCEPT ![h] = n]
    BY <1>1, <1>4 DEF Locales
  <2>3. Salvo(n, l, {"blk", "abm"}) /\ n.blk = b
    BY <1>1 DEF Locales, Salvo, Campos
  <2>. HIDE DEF n
  <2>4. LocalBien(n)
    BY <1>1, <1>4, <2>1, <2>3 DEF LocalBien, Salvo, Campos
  <2>. QED BY <2>2, <2>4, GuardaLoc
<1>. QED BY <1>3, <1>4

LEMMA Quotientes ==
  /\ \A d \in Nat : d \div TamBloque \in Nat
  /\ \A t \in Nat : (t - 1) \div TamBloque \in Int
BY SupuestoOsada

LEMMA TipoWriteIr == ASSUME TInv, NEW h \in Hilos, WriteIr(h) \/ NuncaSeguir(h) PROVE TInv'
<1>. DEFINE l == loc[h]
<1>1. /\ LocalBien(l) /\ l \in Locales /\ l.pc \in {"writeIr", "nuncaSeguir"} /\ l.luego = "libre"
      /\ l.abm \in Int
  BY DeHilo DEF LocalBien, WriteIr, NuncaSeguir, En, Locales
<1>2. UNCHANGED <<estructuras, disco, mux, mux_files, abierto, pedidos>>
  BY DEF WriteIr, NuncaSeguir
<1>3. TResto'
  BY DEF WriteIr, NuncaSeguir, TResto, TInv, TypeOK
<1>4. CASE UNCHANGED loc
  <2>1. loc' = [loc EXCEPT ![h] = l]
    BY <1>4, DeHilo
  <2>. QED BY <1>1, <1>2, <1>3, <2>1, GuardaLoc, SigueIgual
<1>5. CASE loc' # loc
  <2>1. PICK b \in Bloques, k \in Int :
          loc' = [loc EXCEPT ![h].pc = "escribir", ![h].blk = b, ![h].abm = k]
    <3>1. CASE WriteIr(h)
      <4>. DEFINE primero == l.desde \div TamBloque
                  ultimo == (l.tam - 1) \div TamBloque
                  q == tabla[l.wpos].primero
                  b == Bloque(q, primero)
      <4>1. l.pc = "writeIr"
        BY <3>1 DEF WriteIr, En
      <4>2. l.wpos \in Entradas /\ l.desde \in Nat /\ l.tam \in Nat
        BY <1>1, <4>1, SupuestoOsada DEF LocalBien, Locales
      <4>3. primero \in Nat /\ ultimo \in Int
        BY <4>2, Quotientes
      <4>4. q \in Bloques \cup {FIN}
        BY <4>2, Fichas DEF Entrada
      <4>5. /\ b # FIN
            /\ loc' = [loc EXCEPT ![h].pc = "escribir", ![h].blk = b, ![h].abm = ultimo - primero]
        BY <1>5, <3>1 DEF WriteIr
      <4>. HIDE DEF primero, ultimo, q
      <4>6. b \in Bloques \cup {FIN}
        BY <4>3, <4>4, BloqueTipo
      <4>. HIDE DEF b
      <4>7. b \in Bloques /\ ultimo - primero \in Int
        BY <4>3, <4>5, <4>6
      <4>. QED BY <4>5, <4>7
    <3>2. CASE NuncaSeguir(h)
      <4>1. l.pc = "nuncaSeguir"
        BY <3>2 DEF NuncaSeguir, En
      <4>2. l.ant \in Bloques
        BY <1>1, <4>1 DEF LocalBien
      <4>3. /\ fat[l.ant] # FIN
            /\ loc' = [loc EXCEPT ![h].pc = "escribir", ![h].blk = fat[loc[h].ant], ![h].abm = @ - 1]
        BY <1>5, <3>2 DEF NuncaSeguir
      <4>4. fat[l.ant] \in Bloques /\ l.abm - 1 \in Int
        BY <1>1, <4>2, <4>3 DEF TInv, TypeOK, Fats
      <4>5. loc' = [loc EXCEPT ![h].pc = "escribir", ![h].blk = fat[l.ant], ![h].abm = l.abm - 1]
        BY <4>3
      <4>. QED BY <4>4, <4>5
    <3>. QED BY <3>1, <3>2
  <2>. QED BY <1>1, <1>2, <1>3, <2>1, EscribirBien, SigueIgual
<1>. QED BY <1>4, <1>5

LEMMA TipoEscribir == ASSUME TInv, NEW h \in Hilos, Escribir(h) PROVE TInv'
<1>. DEFINE l == loc[h]
<1>1. /\ LocalBien(l) /\ l \in Locales /\ l.pc = "escribir" /\ l.luego = "libre" /\ l.blk \in Bloques
      /\ l.abm \in Int
  BY DeHilo DEF LocalBien, Escribir, En, Locales
<1>2. CASE Responder(h)
  BY <1>2, TipoResponde, SigueIgual DEF Escribir
<1>3. CASE Ir(h, "nunca")
  BY <1>1, <1>3, IrBien, SigueIgual DEF Escribir
<1>4. CASE fat[l.blk] # FIN /\ loc' = [loc EXCEPT ![h].blk = fat[@], ![h].abm = @ - 1]
  <2>1. fat[l.blk] \in Bloques /\ l.abm - 1 \in Int
    BY <1>1, <1>4 DEF TInv, TypeOK, Fats
  <2>2. loc' = [loc EXCEPT ![h].blk = fat[l.blk], ![h].abm = l.abm - 1]
    BY <1>4
  <2>. QED BY <1>1, <2>1, <2>2, EscribirBien, SigueIgual DEF Escribir
<1>. QED BY <1>2, <1>3, <1>4 DEF Escribir

LEMMA TipoNuncaPedir == ASSUME TInv, NEW h \in Hilos, NuncaPedir(h) PROVE TInv'
<1>. DEFINE l == loc[h]
            m == [l EXCEPT !.pc = "nuncaMarcar", !.ant = l.blk, !.blk = BitLibre]
<1>1. /\ LocalBien(l) /\ l \in Locales /\ l.pc = "nunca" /\ l.luego = "libre" /\ l.ruta # <<>>
      /\ loc \in [Hilos -> Locales]
  BY DeHilo DEF LocalBien, NuncaPedir, En
<1>2. UNCHANGED <<estructuras, disco, abierto, pedidos, servidor>> /\ TMux'
  BY DEF NuncaPedir, TMux
<1>3. CASE Responder(h) /\ Soltar(h, l.wpos)
  <2>1. l.wpos \in Entradas
    BY <1>1 DEF LocalBien
  <2>2. TCandados'
    BY <1>3, <2>1, TipoSoltar
  <2>. QED BY <1>2, <1>3, <2>2, TipoResponde, SigueIgual
<1>4. CASE /\ BitLibre # FIN /\ UNCHANGED mux_files
           /\ loc' = [loc EXCEPT ![h].pc = "nuncaMarcar", ![h].ant = loc[h].blk, ![h].blk = BitLibre]
  <2>1. PICK x \in Bloques : x = BitLibre
    BY <1>4, LibreBien
  <2>2. l.blk \in Bloques
    BY <1>1 DEF LocalBien
  <2>3. m \in Locales
    <3>1. "nuncaMarcar" \in Pasos /\ BitLibre \in Bloques \cup {FIN} /\ l.blk \in Bloques \cup {FIN}
      BY <2>1, <2>2 DEF Pasos
    <3>. QED BY <1>1, <3>1, ZenonT(30) DEF Locales
  <2>4. loc' = [loc EXCEPT ![h] = m]
    BY <1>1, <1>4 DEF Locales
  <2>5. Salvo(m, l, {"pc", "ant", "blk"}) /\ m.pc = "nuncaMarcar" /\ m.blk = x /\ m.ant = l.blk
    BY <1>1, <2>1 DEF Locales, Salvo, Campos
  <2>. HIDE DEF m
  <2>6. LocalBien(m)
    BY <1>1, <2>2, <2>3, <2>5 DEF LocalBien, Salvo, Campos
  <2>. QED BY <1>2, <1>4, <2>4, <2>6, GuardaLoc, SigueIgual
<1>. QED BY <1>3, <1>4 DEF NuncaPedir

LEMMA IniciaTipo == Init => TInv
<1>. SUFFICES ASSUME Init PROVE TInv
  OBVIOUS
<1>1. tabla \in Tablas
  <2>. DEFINE r == [estado |-> "DELETED", nombre |-> "", padre |-> 0, tam |-> 0, primero |-> 0]
  <2>1. 0 \in Entradas /\ 0 \in Bloques /\ 0 \in 0..MaxTam
    BY SupuestoOsada DEF Entradas, Bloques
  <2>2. r \in Entrada
    BY <2>1, Zenon DEF Entrada, Nombradas
  <2>3. tabla = [i \in Entradas |-> r]
    BY Zenon DEF Init
  <2>. HIDE DEF r
  <2>. QED BY <2>2, <2>3, Filas
<1>2. TMem /\ TMux /\ TCandados
  BY <1>1, ZenonT(30) DEF Init, TMem, TMux, TCandados, Fats
<1>3. TDisco
  <2>1. disco = [tabla |-> tabla, bitmap |-> bitmap, fat |-> fat]
    BY DEF Init
  <2>. QED BY <1>2, <2>1, Zenon DEF TDisco, TMem
<1>4. TResto
  <2>1. pedidos = 0 /\ servidor = "vivo"
    BY Zenon DEF Init
  <2>. QED BY <2>1, SupuestoOsada DEF TResto
<1>5. loc = [h \in Hilos |-> Ocioso] /\ abierto = [h \in Hilos |-> Cerrado]
  BY DEF Init
<1>6. /\ loc \in [Hilos -> Locales] /\ abierto \in [Hilos -> Abierto]
      /\ \A h \in Hilos : LocalBien(loc[h]) /\ AbiertoBien(abierto[h])
  BY <1>5, OciosoBien DEF LocalBien, AbiertoBien
<1>. QED BY <1>2, <1>3, <1>4, <1>6 DEF TInv, TypeOK, TMem, TMux, TCandados, TDisco, TResto, Abierto

\* Every step keeps the types.
LEMMA SigueTipo == TInv /\ [Next]_vars => TInv'
<1>1. CASE UNCHANGED vars
  BY <1>1 DEF vars, estructuras, TInv, TypeOK
<1>2. ASSUME TInv, NEW h \in Hilos, Pedir(h) \/ Hilo(h) \/ Morir(h) PROVE TInv'
  BY <1>2, TipoPedir, TipoMorir, TipoMkdir, TipoCreate, TipoRmdir, TipoRename, TipoRenameAlta,
     TipoUnlink, TipoUnlinkSigue, TipoOpen, TipoOpenTomar, TipoReleaseSoltar, TipoTruncate, TipoCola,
     TipoPedirBloque, TipoMarcar, TipoEnlazar, TipoTerminar, TipoTamanio, TipoCopiar, TipoWrite,
     TipoWriteIr, TipoEscribir, TipoNuncaPedir, ZenonT(60) DEF Hilo
<1>. QED BY <1>1, <1>2 DEF Next

\* The structures and the locals keep their types, and what a thread writes in the table, in
\* the bitmap or in the FAT, or follows in it, is at an entry or a block that it has found,
\* never at the number that says that there is none.  (A walk that comes to the end of a
\* chain too soon and goes on is servidor = "fuera"; the theorem does not say that it does
\* not happen.)
THEOREM Tipos == Spec => [](TypeOK /\ \A h \in Hilos : HallaEntrada(loc[h]) /\ HallaBloque(loc[h]))
<1>1. TInv => TypeOK /\ \A h \in Hilos : HallaEntrada(loc[h]) /\ HallaBloque(loc[h])
  BY DEF TInv, LocalBien, HallaEntrada, HallaBloque
<1>. QED BY <1>1, IniciaTipo, SigueTipo, PTL DEF Spec

-----------------------------------------------------------------------------
(* The image.  A structure that differs from its copy is one that a thread *)
(* has yet to copy.                                                        *)

ConTabla == {<<"bitmap", "tabla", "fat">>, <<"tabla", "fat">>, <<"bitmap", "tabla">>, <<"tabla">>}
ConBitmap == {<<"bitmap", "tabla", "fat">>, <<"bitmap", "fat">>, <<"bitmap", "tabla">>}

DebeTabla(h) ==
  \/ loc[h].pc \in {"unlinkPrimero", "unlinkLimpiar", "unlinkSeguir"}
  \/ loc[h].pc = "copiar" /\ loc[h].copias \in ConTabla
DebeBitmap(h) ==
  \/ loc[h].pc \in {"enlazar", "terminar", "nuncaEnlazar", "cortar", "unlinkLimpiar", "unlinkSeguir"}
  \/ loc[h].pc = "copiar" /\ loc[h].copias \in ConBitmap

DebeFat(h) == loc[h].pc = "terminar" \/ (loc[h].pc = "copiar" /\ Last(loc[h].copias) = "fat")

MInv ==
  /\ disco.tabla = tabla \/ \E h \in Hilos : DebeTabla(h)
  /\ disco.bitmap = bitmap \/ \E h \in Hilos : DebeBitmap(h)
  /\ disco.fat = fat \/ \E h \in Hilos : DebeFat(h)

\* When nobody is being served nobody has anything left to copy.
LEMMA BastaImagen == MInv => ImagenAlDia
BY DEF MInv, ImagenAlDia, Reposo, EnPaz, DebeTabla, DebeBitmap, DebeFat

\* What h owes after its step, if the copy is not that of the structure.
PagaTabla(h) ==
  \/ disco'.tabla = tabla' \/ DebeTabla(h)'
  \/ tabla' = tabla /\ disco'.tabla = disco.tabla /\ ~DebeTabla(h)
PagaBitmap(h) ==
  \/ disco'.bitmap = bitmap' \/ DebeBitmap(h)'
  \/ bitmap' = bitmap /\ disco'.bitmap = disco.bitmap /\ ~DebeBitmap(h)
PagaFat(h) ==
  \/ disco'.fat = fat' \/ DebeFat(h)'
  \/ fat' = fat /\ disco'.fat = disco.fat /\ ~DebeFat(h)

Ajenos(h) == \A g \in Hilos \ {h} : loc'[g] = loc[g]

LEMMA Deudas ==
  ASSUME MInv, NEW h \in Hilos, Ajenos(h), PagaTabla(h), PagaBitmap(h), PagaFat(h)
  PROVE  MInv'
<1>1. \A g \in Hilos \ {h} : /\ DebeTabla(g)' <=> DebeTabla(g)
                             /\ DebeBitmap(g)' <=> DebeBitmap(g)
                             /\ DebeFat(g)' <=> DebeFat(g)
  BY DEF Ajenos, DebeTabla, DebeBitmap, DebeFat
<1>2. disco'.tabla = tabla' \/ \E g \in Hilos : DebeTabla(g)'
  BY <1>1 DEF MInv, PagaTabla
<1>3. disco'.bitmap = bitmap' \/ \E g \in Hilos : DebeBitmap(g)'
  BY <1>1 DEF MInv, PagaBitmap
<1>4. disco'.fat = fat' \/ \E g \in Hilos : DebeFat(g)'
  BY <1>1 DEF MInv, PagaFat
<1>. QED BY <1>2, <1>3, <1>4 DEF MInv

\* Where a thread owes nothing.
SinDeuda(h) ==
  loc[h].pc \notin {"copiar", "terminar", "enlazar", "nuncaEnlazar", "cortar", "unlinkPrimero",
                    "unlinkLimpiar", "unlinkSeguir"}

LEMMA NadaDebe ==
  ASSUME NEW h, SinDeuda(h)
  PROVE  ~DebeTabla(h) /\ ~DebeBitmap(h) /\ ~DebeFat(h)
BY DEF SinDeuda, DebeTabla, DebeBitmap, DebeFat

\* A step of a thread that owes nothing and changes nothing.
LEMMA NadaCambia ==
  ASSUME MInv, NEW h \in Hilos, Ajenos(h), SinDeuda(h), UNCHANGED estructuras, UNCHANGED disco
  PROVE  MInv'
BY NadaDebe, Deudas DEF PagaTabla, PagaBitmap, PagaFat, estructuras

\* A step changes the locals of its thread, and no other's.
LEMMA SoloSuyos ==
  ASSUME Forma, NEW h \in Hilos
  PROVE  Pedir(h) \/ Hilo(h) \/ Morir(h) => Ajenos(h)
<1>1. (\E m : loc' = [loc EXCEPT ![h] = m]) \/ loc' = loc => Ajenos(h)
  BY DEF Ajenos, Forma
<1>2. Pedir(h) \/ Morir(h) => Ajenos(h)
  BY <1>1, Zenon DEF Pedir, PedirNuevo, PedirRename, PedirRmdir, PedirUnlink, PedirUtimens,
     PedirTruncate, PedirOpen, PedirWrite, PedirRelease, Pide, Morir
<1>3. Responder(h) \/ (\E c : CreateResponde(h, c)) => Ajenos(h)
  BY <1>1, Zenon DEF Responder, CreateResponde
<1>4. \A p : Ir(h, p) => Ajenos(h)
  BY DEF Ir, Ajenos, Forma
<1>5. (\E ok \in BOOLEAN : Vuelve(h, ok) \/ OpenResponde(h, ok)) => Ajenos(h)
  BY <1>3, <1>4, Zenon DEF Vuelve, OpenResponde
<1>6. \A c, x : Copiando(h, c, x) => Ajenos(h)
  BY DEF Copiando, Ajenos, Forma
<1>7. \A b : UnlinkSigue(h, b) => Ajenos(h)
  BY DEF UnlinkSigue, Ajenos, Forma
<1>8. CreateAlta(h) \/ RmdirBaja(h) \/ RenameAlta(h) \/ Utimens(h) \/ Tamanio(h) => Ajenos(h)
  BY <1>3, <1>6, Zenon DEF CreateAlta, RmdirBaja, RenameAlta, Utimens, Tamanio
<1>9. UnlinkBaja(h) \/ UnlinkPrimero(h) \/ UnlinkLimpiar(h) \/ UnlinkSeguir(h) => Ajenos(h)
  BY <1>3, <1>4, <1>7, Zenon DEF UnlinkBaja, UnlinkPrimero, UnlinkLimpiar, UnlinkSeguir
<1>10. Marcar(h) \/ Limpiar(h) \/ NuncaMarcar(h) => Ajenos(h)
  BY <1>4, Zenon DEF Marcar, Limpiar, NuncaMarcar
<1>11. CreateFin(h) \/ ReleaseSoltar(h) \/ Truncado(h) => Ajenos(h)
  BY <1>3, <1>5, Zenon DEF CreateFin, ReleaseSoltar, Truncado
<1>12. Mkdir(h) => Ajenos(h)
  BY <1>1, <1>3, <1>4, <1>5 DEF Mkdir, Ajenos, Forma
<1>13. MkdirMux(h) => Ajenos(h)
  BY <1>1, <1>3, <1>4, <1>5, <1>6 DEF MkdirMux, Ajenos, Forma
<1>14. Create(h) => Ajenos(h)
  BY <1>1, <1>3, <1>4, <1>5 DEF Create, Ajenos, Forma
<1>15. CreateMux(h) => Ajenos(h)
  BY <1>1, <1>3, <1>4, <1>5 DEF CreateMux, Ajenos, Forma
<1>16. Rmdir(h) => Ajenos(h)
  BY <1>1, <1>3, <1>4, <1>5 DEF Rmdir, Ajenos, Forma
<1>17. Rename(h) => Ajenos(h)
  BY <1>1, <1>3, <1>4, <1>5 DEF Rename, Ajenos, Forma
<1>18. Unlink(h) => Ajenos(h)
  BY <1>1, <1>3, <1>4, <1>5 DEF Unlink, Ajenos, Forma
<1>19. Open(h) => Ajenos(h)
  BY <1>1, <1>3, <1>4, <1>5 DEF Open, Ajenos, Forma
<1>20. OpenTomar(h) => Ajenos(h)
  BY <1>1, <1>3, <1>4, <1>5 DEF OpenTomar, Ajenos, Forma
<1>21. Release(h) => Ajenos(h)
  BY <1>1, <1>3, <1>4, <1>5 DEF Release, Ajenos, Forma
<1>22. Truncate(h) => Ajenos(h)
  BY <1>1, <1>3, <1>4, <1>5 DEF Truncate, Ajenos, Forma
<1>23. Cola(h) => Ajenos(h)
  BY <1>1, <1>3, <1>4, <1>5, ZenonT(60) DEF Cola, Ajenos, Forma
<1>24. PedirBloque(h) => Ajenos(h)
  BY <1>1, <1>3, <1>4, <1>5 DEF PedirBloque, Ajenos, Forma
<1>25. Enlazar(h) => Ajenos(h)
  BY <1>1, <1>3, <1>4, <1>5 DEF Enlazar, Ajenos, Forma
<1>26. Terminar(h) => Ajenos(h)
  BY <1>1, <1>3, <1>4, <1>5 DEF Terminar, Ajenos, Forma
<1>27. Cortar(h) => Ajenos(h)
  BY <1>1, <1>3, <1>4, <1>5 DEF Cortar, Ajenos, Forma
<1>28. Write(h) => Ajenos(h)
  BY <1>1, <1>3, <1>4, <1>5 DEF Write, Ajenos, Forma
<1>29. WriteIr(h) => Ajenos(h)
  BY <1>1, <1>3, <1>4, <1>5 DEF WriteIr, Ajenos, Forma
<1>30. Escribir(h) => Ajenos(h)
  BY <1>1, <1>3, <1>4, <1>5 DEF Escribir, Ajenos, Forma
<1>31. NuncaPedir(h) => Ajenos(h)
  BY <1>1, <1>3, <1>4, <1>5 DEF NuncaPedir, Ajenos, Forma
<1>32. NuncaEnlazar(h) => Ajenos(h)
  BY <1>1, <1>3, <1>4, <1>5 DEF NuncaEnlazar, Ajenos, Forma
<1>33. NuncaSeguir(h) => Ajenos(h)
  BY <1>1, <1>3, <1>4, <1>5 DEF NuncaSeguir, Ajenos, Forma
<1>34. Copiar(h) => Ajenos(h)
  BY <1>1, <1>3, <1>4, <1>5 DEF Copiar, Ajenos, Forma
<1>. QED BY <1>2, <1>8, <1>9, <1>10, <1>11, <1>12, <1>13, <1>14, <1>15, <1>16, <1>17, <1>18, <1>19, <1>20, <1>21, <1>22, <1>23, <1>24, <1>25, <1>26, <1>27, <1>28, <1>29, <1>30, <1>31, <1>32, <1>33, <1>34, Zenon DEF Hilo

\* The steps that change nothing but the locals of their thread, the locks and what is open.
LEMMA PasosQuietos ==
  ASSUME Forma, MInv, NEW h \in Hilos,
         \/ Pedir(h) \/ Morir(h) \/ Mkdir(h) \/ Create(h) \/ CreateMux(h) \/ CreateFin(h)
         \/ Rmdir(h) \/ Rename(h) \/ Utimens(h) \/ Unlink(h)
         \/ Open(h) \/ OpenTomar(h) \/ Release(h) \/ ReleaseSoltar(h)
         \/ Truncate(h) \/ Cola(h) \/ PedirBloque(h) \/ Truncado(h)
         \/ Write(h) \/ WriteIr(h) \/ Escribir(h) \/ NuncaPedir(h) \/ NuncaSeguir(h)
  PROVE  MInv'
<1>1. UNCHANGED estructuras /\ UNCHANGED disco /\ SinDeuda(h)
  BY DEF Pedir, PedirNuevo, PedirRename, PedirRmdir, PedirUnlink, PedirUtimens, PedirTruncate,
         PedirOpen, PedirWrite, PedirRelease, Pide, Morir, Mkdir, Create, CreateMux, CreateFin,
         Rmdir, Rename, Utimens, Unlink, Open, OpenTomar, Release, ReleaseSoltar, Truncate, Cola,
         PedirBloque, Truncado, Write, WriteIr, Escribir, NuncaPedir, NuncaSeguir, En, SinDeuda
<1>2. Ajenos(h)
  BY SoloSuyos, Zenon DEF Hilo
<1>. QED BY <1>1, <1>2, NadaCambia

\* Those that change the table.
LEMMA PasosTabla ==
  ASSUME Forma, MInv, NEW h \in Hilos,
         MkdirMux(h) \/ RmdirBaja(h) \/ RenameAlta(h) \/ Tamanio(h) \/ UnlinkBaja(h)
  PROVE  MInv'
<1>1. Ajenos(h)
  BY SoloSuyos, Zenon DEF Hilo
<1>2. bitmap' = bitmap /\ fat' = fat /\ disco' = disco /\ SinDeuda(h)
  BY DEF MkdirMux, RmdirBaja, RenameAlta, Tamanio, UnlinkBaja, En, SinDeuda
<1>3. tabla' = tabla \/ Copiando(h, <<"tabla">>, "libre") \/ Copiando(h, <<"tabla">>, "truncado")
      \/ Ir(h, "unlinkPrimero")
  BY ZenonT(60) DEF MkdirMux, RmdirBaja, RenameAlta, Tamanio, UnlinkBaja
<1>4. tabla' = tabla \/ DebeTabla(h)'
  BY <1>3 DEF Copiando, Ir, Forma, Campos, DebeTabla, ConTabla
<1>. QED BY <1>1, <1>2, <1>4, NadaDebe, Deudas DEF PagaTabla, PagaBitmap, PagaFat

\* The bitmap.
LEMMA PasosBitmap ==
  ASSUME Forma, MInv, NEW h \in Hilos, Marcar(h) \/ Limpiar(h) \/ NuncaMarcar(h)
  PROVE  MInv'
<1>1. Ajenos(h)
  BY SoloSuyos, Zenon DEF Hilo
<1>2. tabla' = tabla /\ fat' = fat /\ disco' = disco /\ SinDeuda(h)
  BY DEF Marcar, Limpiar, NuncaMarcar, En, SinDeuda
<1>3. DebeBitmap(h)'
  BY DEF Marcar, Limpiar, NuncaMarcar, Ir, Forma, Campos, DebeBitmap
<1>. QED BY <1>1, <1>2, <1>3, NadaDebe, Deudas DEF PagaTabla, PagaBitmap, PagaFat

\* The links.
LEMMA PasosEnlace ==
  ASSUME Forma, MInv, NEW h \in Hilos, Enlazar(h) \/ NuncaEnlazar(h) \/ Terminar(h) \/ Cortar(h)
  PROVE  MInv'
<1>1. Ajenos(h)
  BY SoloSuyos, Zenon DEF Hilo
<1>2. tabla' = tabla /\ disco' = disco /\ ~DebeTabla(h)
  BY DEF Enlazar, NuncaEnlazar, Terminar, Cortar, En, DebeTabla
<1>3. DebeBitmap(h)' /\ DebeFat(h)'
  <2>1. CASE Enlazar(h) \/ NuncaEnlazar(h)
    BY <2>1 DEF Enlazar, NuncaEnlazar, Forma, Campos, DebeBitmap, DebeFat
  <2>2. CASE Terminar(h) \/ Cortar(h)
    <3>1. loc'[h].pc = "copiar" /\ loc'[h].copias = <<"bitmap", "fat">>
      BY <2>2 DEF Terminar, Cortar, Forma, Campos
    <3>. QED BY <3>1 DEF DebeBitmap, ConBitmap, DebeFat, Last
  <2>. QED BY <2>1, <2>2
<1>. QED BY <1>1, <1>2, <1>3, Deudas DEF PagaTabla, PagaBitmap, PagaFat

\* All of them.
LEMMA PasoAlta == ASSUME Forma, MInv, NEW h \in Hilos, CreateAlta(h) PROVE MInv'
<1>1. Ajenos(h)
  BY SoloSuyos, Zenon DEF Hilo
<1>2. loc'[h].pc = "copiar" /\ loc'[h].copias = <<"bitmap", "tabla", "fat">>
  BY DEF CreateAlta, Copiando, Forma, Campos
<1>3. DebeTabla(h)' /\ DebeBitmap(h)' /\ DebeFat(h)'
  BY <1>2 DEF DebeTabla, DebeBitmap, ConTabla, ConBitmap, DebeFat, Last
<1>. QED BY <1>1, <1>3, Deudas DEF PagaTabla, PagaBitmap, PagaFat

\* osada_unlink goes on owing the table it has changed first.
LEMMA PasosUnlink ==
  ASSUME Forma, MInv, NEW h \in Hilos, UnlinkPrimero(h) \/ UnlinkLimpiar(h) \/ UnlinkSeguir(h)
  PROVE  MInv'
<1>1. Ajenos(h)
  BY SoloSuyos, Zenon DEF Hilo
<1>2. tabla' = tabla /\ fat' = fat /\ disco' = disco /\ ~DebeFat(h)
  BY DEF UnlinkPrimero, UnlinkLimpiar, UnlinkSeguir, estructuras, En, DebeFat
<1>3. CASE UnlinkLimpiar(h)
  <2>1. DebeTabla(h)' /\ DebeBitmap(h)'
    BY <1>3 DEF UnlinkLimpiar, Ir, Forma, Campos, DebeTabla, DebeBitmap
  <2>. QED BY <1>1, <1>2, <2>1, Deudas DEF PagaTabla, PagaBitmap, PagaFat
<1>4. CASE UnlinkPrimero(h) \/ UnlinkSeguir(h)
  <2>1. PICK b : UnlinkSigue(h, b)
    BY <1>4 DEF UnlinkPrimero, UnlinkSeguir
  <2>2. \/ loc'[h].pc = "copiar" /\ loc'[h].copias = <<"bitmap", "tabla">>
        \/ loc'[h].pc = "unlinkLimpiar"
    BY <2>1 DEF UnlinkSigue, Forma, Campos
  <2>3. DebeTabla(h)' /\ DebeBitmap(h)'
    BY <2>2 DEF DebeTabla, DebeBitmap, ConTabla, ConBitmap
  <2>. QED BY <1>1, <1>2, <2>3, Deudas DEF PagaTabla, PagaBitmap, PagaFat
<1>. QED BY <1>3, <1>4

\* What the first of the copies pays, and what is left.
LEMMA CopiasDeben ==
  ASSUME NEW c \in Copias
  PROVE  /\ c \in ConTabla => Head(c) = "tabla" \/ (Len(c) > 1 /\ Tail(c) \in ConTabla)
         /\ c \in ConBitmap => Head(c) = "bitmap"
         /\ Last(c) = "fat" => Head(c) = "fat" \/ (Len(c) > 1 /\ Last(Tail(c)) = "fat")
<1>1. CASE c = <<"bitmap", "tabla", "fat">>
  BY <1>1, Tail(c) = <<"tabla", "fat">> DEF ConTabla, ConBitmap, Last
<1>2. CASE c = <<"tabla", "fat">>
  BY <1>2, Tail(c) = <<"fat">> DEF ConTabla, ConBitmap, Last
<1>3. CASE c = <<"bitmap", "fat">>
  BY <1>3, Tail(c) = <<"fat">> DEF ConTabla, ConBitmap, Last
<1>4. CASE c = <<"fat">> \/ c = <<"tabla">>
  BY <1>4 DEF ConTabla, ConBitmap, Last
<1>5. CASE c = <<"bitmap", "tabla">>
  BY <1>5, Tail(c) = <<"tabla">> DEF ConTabla, ConBitmap, Last
<1>. QED BY <1>1, <1>2, <1>3, <1>4, <1>5 DEF Copias

\* A copy.
LEMMA PasoCopia == ASSUME CInv, MInv, NEW h \in Hilos, Copiar(h) PROVE MInv'
<1>. DEFINE c == loc[h].copias
<1>1. /\ loc[h].pc = "copiar" /\ c \in Copias /\ UNCHANGED estructuras
      /\ disco' = [disco EXCEPT ![Head(c)] = [tabla |-> tabla, bitmap |-> bitmap, fat |-> fat][Head(c)]]
  BY DEF Copiar, En, CInv, CopiasBien
<1>2. Ajenos(h)
  BY SoloSuyos, Zenon DEF Hilo, CInv
<1>3. Len(c) > 1 => loc'[h].pc = "copiar" /\ loc'[h].copias = Tail(c)
  <2>1. Len(c) > 1 => loc' = [loc EXCEPT ![h].copias = Tail(c)]
    BY DEF Copiar
  <2>. HIDE DEF c
  <2>. QED BY <1>1, <2>1 DEF CInv, Forma, Campos
<1>. HIDE DEF c
<1>4. DOMAIN disco = {"tabla", "bitmap", "fat"}
  BY DEF CInv, FormaFat
<1>5. /\ Head(c) = "tabla" => disco'.tabla = tabla
      /\ Head(c) = "bitmap" => disco'.bitmap = bitmap
      /\ Head(c) = "fat" => disco'.fat = fat
      /\ Head(c) # "tabla" => disco'.tabla = disco.tabla
      /\ Head(c) # "bitmap" => disco'.bitmap = disco.bitmap
      /\ Head(c) # "fat" => disco'.fat = disco.fat
  BY <1>1, <1>4
<1>6. PagaTabla(h)
  <2>1. Head(c) # "tabla" /\ DebeTabla(h) => DebeTabla(h)'
    BY <1>1, <1>3, CopiasDeben DEF DebeTabla, c
  <2>. QED BY <1>1, <1>5, <2>1 DEF PagaTabla, estructuras
<1>7. PagaBitmap(h)
  <2>1. DebeBitmap(h) => Head(c) = "bitmap"
    BY <1>1, CopiasDeben DEF DebeBitmap, c
  <2>. QED BY <1>1, <1>5, <2>1 DEF PagaBitmap, estructuras
<1>8. PagaFat(h)
  <2>1. Head(c) # "fat" /\ DebeFat(h) => DebeFat(h)'
    BY <1>1, <1>3, CopiasDeben DEF DebeFat, c
  <2>. QED BY <1>1, <1>5, <2>1 DEF PagaFat, estructuras
<1>. QED BY <1>2, <1>6, <1>7, <1>8, Deudas

LEMMA SigueImagen == CInv /\ MInv /\ [Next]_vars => MInv'
<1>1. CASE UNCHANGED vars
  BY <1>1 DEF vars, estructuras, MInv, DebeTabla, DebeBitmap, DebeFat
<1>2. ASSUME CInv, MInv, NEW h \in Hilos, Pedir(h) \/ Hilo(h) \/ Morir(h) PROVE MInv'
  BY <1>2, PasosQuietos, PasosTabla, PasosBitmap, PasosEnlace, PasoAlta, PasosUnlink, PasoCopia,
     ZenonT(30) DEF Hilo, CInv
<1>. QED BY <1>1, <1>2 DEF Next

\* There is one client.
Solo == \A g \in Hilos : \A h \in Hilos : g = h

\* The one thread does not copy while it is linking a block.
LEMMA SigueDisco ==
  ASSUME Solo, CInv, ImagenSinCiclos, [Next]_vars
  PROVE  ImagenSinCiclos'
<1>1. CASE disco' = disco
  BY <1>1 DEF ImagenSinCiclos, Terminan
<1>2. ASSUME NEW h \in Hilos, Copiar(h) PROVE ImagenSinCiclos'
  <2>. DEFINE c == loc[h].copias
  <2>1. /\ loc[h].pc = "copiar" /\ c \in Copias
        /\ disco' = [disco EXCEPT ![Head(c)] = [tabla |-> tabla, bitmap |-> bitmap, fat |-> fat][Head(c)]]
    BY <1>2 DEF Copiar, En, CInv, CopiasBien
  <2>. HIDE DEF c
  <2>2. disco'.fat = fat \/ disco'.fat = disco.fat
    BY <2>1, CopiasSiguen DEF CInv, FormaFat
  <2>3. EnObra = {}
    BY <2>1 DEF EnObra, Solo
  <2>. QED BY <2>2, <2>3 DEF CInv, SinCiclos, ImagenSinCiclos, Terminan
<1>3. ASSUME NEW h \in Hilos, Pedir(h) \/ Hilo(h) \/ Morir(h), ~Copiar(h) PROVE disco' = disco
  <2>1. CASE Pedir(h) \/ Morir(h)
    BY <2>1 DEF Pedir, PedirNuevo, PedirRename, PedirRmdir, PedirUnlink, PedirUtimens, PedirTruncate,
           PedirOpen, PedirWrite, PedirRelease, Pide, Morir
  <2>2. CASE Hilo(h)
    BY <1>3, <2>2 DEF Hilo, Mkdir, MkdirMux, Create, CreateMux, CreateAlta, CreateFin, Rmdir, RmdirBaja,
           Rename, RenameAlta, Utimens, Unlink, UnlinkBaja, UnlinkPrimero, UnlinkLimpiar, UnlinkSeguir,
           Open, OpenTomar, Release, ReleaseSoltar, Truncate, Cola, PedirBloque, Marcar, Enlazar, Terminar,
           Limpiar, Cortar, Tamanio, Truncado, Write, WriteIr, Escribir, NuncaPedir, NuncaMarcar,
           NuncaEnlazar, NuncaSeguir
  <2>. QED BY <1>3, <2>1, <2>2
<1>4. CASE UNCHANGED vars
  BY <1>1, <1>4 DEF vars
<1>. QED BY <1>1, <1>2, <1>3, <1>4 DEF Next

\* Whatever the one client of a server asks for, when it is not being served the image has
\* the table, the bitmap and the FAT of the memory, and at every moment, in the middle of a
\* request too, no chain of the image has a cycle.
THEOREM ImagenSiempre == ASSUME Solo PROVE Spec => []Imagen
<1>1. Init => IInv /\ CInv /\ MInv /\ ImagenSinCiclos
  <2>1. Init => disco = [tabla |-> tabla, bitmap |-> bitmap, fat |-> fat]
    BY Zenon DEF Init
  <2>2. Init => disco.tabla = tabla /\ disco.bitmap = bitmap /\ disco.fat = fat
    BY <2>1
  <2>3. Init => EnObra = {}
    BY OciosoForma DEF Init, EnObra
  <2>4. Init => ImagenSinCiclos
    BY <2>2, <2>3, IniciaSinCiclos DEF CInv, SinCiclos, ImagenSinCiclos, Terminan
  <2>. QED BY <2>2, <2>4, Inicia, IniciaSinCiclos, Zenon DEF MInv
<1>2. IInv /\ CInv /\ MInv /\ ImagenSinCiclos /\ [Next]_vars
        => (IInv /\ CInv /\ MInv /\ ImagenSinCiclos)'
  BY Conserva, SigueSinCiclos, SigueImagen, SigueDisco
<1>3. MInv /\ ImagenSinCiclos => Imagen
  BY BastaImagen DEF Imagen
<1>. QED BY <1>1, <1>2, <1>3, PTL DEF Spec

-----------------------------------------------------------------------------
(* The names.  Between looking for a name and writing it in the table a    *)
(* thread depends on nobody else writing it.                               *)

NoHay(t, n, p) ==
  \A i \in Entradas : t[i].nombre = n /\ t[i].padre = p => t[i].estado = "DELETED"

\* There is one client, or each has files of its own in the root.
Propios ==
  \A g \in Hilos, h \in Hilos : g # h =>
    \A r \in Rutas[g] : Len(r) = 1 /\ \A q \in Rutas[h] : Last(r) # Last(q)

Altas == {"create", "mkdir", "createMux", "mkdirMux", "createAlta", "rename", "renameAlta"}
Aparte(h) == loc[h].pc \notin Altas

\* What h, at l, is about to write in the table t is in no other entry.
NuevoBien(h, l, t) ==
  /\ l.pc \in Altas \ {"rename", "renameAlta"} => l.ruta \in Rutas[h]
  /\ l.pc \in {"rename", "renameAlta"} => l.dest \in Rutas[h]
  /\ l.pc \in {"create", "mkdir"} /\ PadreEn(t, Front(l.ruta)) # NoEsta =>
       NoHay(t, Last(l.ruta), PadreEn(t, Front(l.ruta)))
  /\ l.pc \in {"createMux", "mkdirMux", "createAlta"} => NoHay(t, Last(l.ruta), l.padre)
  /\ l.pc = "renameAlta" => NoHay(t, Last(l.dest), l.padre)

Unicos(t) ==
  \A i, j \in Entradas :
    /\ t[i].estado # "DELETED" /\ t[j].estado # "DELETED"
    /\ t[i].nombre = t[j].nombre /\ t[i].padre = t[j].padre
    => i = j

NInv == Unicos(tabla) /\ \A h \in Hilos : NuevoBien(h, loc[h], tabla)

\* The table u has no name that t has not; it has one more, n in p.
SinAltas(t, u) ==
  \A i \in Entradas : u[i].estado # "DELETED" =>
    t[i].estado # "DELETED" /\ u[i].nombre = t[i].nombre /\ u[i].padre = t[i].padre
ConAlta(t, u, n, p) ==
  \E i \in Entradas : /\ u[i].nombre = n /\ u[i].padre = p
                      /\ \A j \in Entradas \ {i} : u[j] = t[j]

LEMMA SinAltasSigue ==
  ASSUME NEW t, NEW u, SinAltas(t, u)
  PROVE  /\ Unicos(t) => Unicos(u)
         /\ \A n, p : NoHay(t, n, p) => NoHay(u, n, p)
BY DEF SinAltas, Unicos, NoHay

LEMMA ConAltaSigue ==
  ASSUME NEW t, NEW u, NEW n, NEW p, ConAlta(t, u, n, p)
  PROVE  /\ Unicos(t) /\ NoHay(t, n, p) => Unicos(u)
         /\ \A m, q : m # n /\ NoHay(t, m, q) => NoHay(u, m, q)
<1>1. PICK i \in Entradas : u[i].nombre = n /\ u[i].padre = p /\ \A j \in Entradas \ {i} : u[j] = t[j]
  BY DEF ConAlta
<1>2. ASSUME Unicos(t), NoHay(t, n, p) PROVE Unicos(u)
  <2>1. \A j \in Entradas \ {i} : u[j].nombre = n /\ u[j].padre = p => u[j].estado = "DELETED"
    BY <1>1, <1>2 DEF NoHay
  <2>. QED BY <1>1, <1>2, <2>1 DEF Unicos
<1>3. ASSUME NEW m, NEW q, m # n, NoHay(t, m, q) PROVE NoHay(u, m, q)
  BY <1>1, <1>3 DEF NoHay
<1>. QED BY <1>2, <1>3

\* The path of a file in the root.
LEMMA EnRaiz ==
  ASSUME NEW g \in Hilos, NEW r \in Rutas[g], Len(r) = 1
  PROVE  \A t : PadreEn(t, Front(r)) = Raiz
<1>1. r \in Seq(Nombres) /\ r # <<>>
  BY RutasBien
<1>2. Front(r) \in Seq(Nombres) /\ Len(Front(r)) = 0
  BY <1>1, FrenteDe
<1>3. Front(r) = <<>>
  BY <1>2
<1>. QED BY <1>2, <1>3, PadreTipo

\* A step of h takes nothing from what another client is about to write.
LEMMA NuevoAjeno ==
  ASSUME Propios, NEW h \in Hilos, NEW g \in Hilos \ {h}, NEW l, NEW t, NEW u,
         NuevoBien(g, l, t),
         SinAltas(t, u) \/ \E q \in Rutas[h] : \E p : ConAlta(t, u, Last(q), p)
  PROVE  NuevoBien(g, l, u)
<1>1. \A r \in Rutas[g] : \A p : NoHay(t, Last(r), p) => NoHay(u, Last(r), p)
  <2>1. CASE SinAltas(t, u)
    BY <2>1, SinAltasSigue
  <2>2. ASSUME NEW q \in Rutas[h], NEW p, ConAlta(t, u, Last(q), p)
        PROVE  \A r \in Rutas[g] : \A x : NoHay(t, Last(r), x) => NoHay(u, Last(r), x)
    <3>1. \A r \in Rutas[g] : Last(r) # Last(q)
      BY DEF Propios
    <3>. QED BY <2>2, <3>1, ConAltaSigue
  <2>. QED BY <2>1, <2>2
<1>2. \A r \in Rutas[g] : PadreEn(t, Front(r)) = Raiz /\ PadreEn(u, Front(r)) = Raiz
  <2>1. \A r \in Rutas[g] : Len(r) = 1
    BY DEF Propios
  <2>. QED BY <2>1, EnRaiz
<1>. QED BY <1>1, <1>2 DEF NuevoBien, Altas

\* A step of h keeps the names apart, if it writes none or one that nobody has, and if
\* what it goes on to write is new.
LEMMA PasoNombres ==
  ASSUME Propios, NInv, NEW h \in Hilos, Ajenos(h), NuevoBien(h, loc'[h], tabla'),
         \/ SinAltas(tabla, tabla')
         \/ \E q \in Rutas[h] : \E p : NoHay(tabla, Last(q), p) /\ ConAlta(tabla, tabla', Last(q), p)
  PROVE  NInv'
<1>1. Unicos(tabla')
  BY SinAltasSigue, ConAltaSigue DEF NInv
<1>2. ASSUME NEW g \in Hilos \ {h} PROVE NuevoBien(g, loc'[g], tabla')
  <2>1. NuevoBien(g, loc[g], tabla) /\ loc'[g] = loc[g]
    BY DEF NInv, Ajenos
  <2>2. SinAltas(tabla, tabla') \/ \E q \in Rutas[h] : \E p : ConAlta(tabla, tabla', Last(q), p)
    OBVIOUS
  <2>. QED BY <2>1, <2>2, NuevoAjeno
<1>. QED BY <1>1, <1>2 DEF NInv

\* What the search of a name says when it does not find it.
LEMMA BuscarNoHay ==
  ASSUME TInv, NEW n, NEW p
  PROVE  Buscar(n, p, {"REGULAR", "DIRECTORY"}) = NoEsta => NoHay(tabla, n, p)
<1>. DEFINE S == {i \in Entradas : tabla[i].nombre = n /\ tabla[i].padre = p
                                   /\ tabla[i].estado \in {"REGULAR", "DIRECTORY"}}
<1>1. Buscar(n, p, {"REGULAR", "DIRECTORY"}) = Primera(S)
  BY DEF Buscar
<1>2. S \in SUBSET Entradas
  OBVIOUS
<1>3. Primera(S) = NoEsta => S = {}
  BY <1>2, PrimeraDe
<1>4. \A i \in Entradas : tabla[i].estado \in {"DELETED", "REGULAR", "DIRECTORY"}
  BY Fichas, Zenon DEF Entrada
<1>. QED BY <1>1, <1>3, <1>4 DEF NoHay

\* Of all the steps, these leave the thread away from any new name.
LEMMA QuedaAparte ==
  ASSUME TInv, Forma, NEW h \in Hilos
  PROVE  CreateAlta(h) \/ CreateFin(h) \/ RmdirBaja(h) \/ RenameAlta(h) \/ Utimens(h) \/
         UnlinkBaja(h) \/ UnlinkPrimero(h) \/ UnlinkLimpiar(h) \/ UnlinkSeguir(h) \/
         Tamanio(h) \/ Marcar(h) \/ Limpiar(h) \/ NuncaMarcar(h) \/ ReleaseSoltar(h) \/
         Truncado(h) \/ MkdirMux(h) \/ Rmdir(h) \/ Unlink(h) \/ Open(h) \/ OpenTomar(h)
         \/ Release(h) \/ Truncate(h) \/ Cola(h) \/ PedirBloque(h) \/ Enlazar(h) \/
         Terminar(h) \/ Cortar(h) \/ Write(h) \/ WriteIr(h) \/ Escribir(h) \/
         NuncaPedir(h) \/ NuncaEnlazar(h) \/ NuncaSeguir(h) \/ Copiar(h)
         => Aparte(h)'
<1>1. (Responder(h) => Aparte(h)') /\ (\A c : CreateResponde(h, c) => Aparte(h)')
  BY OciosoForma, ZenonT(60) DEF Responder, CreateResponde, Aparte, Altas, Forma, Campos
<1>2. \A p : Ir(h, p) => loc'[h].pc = p
  BY DEF Ir, Forma, Campos
<1>3. \A ok : (Vuelve(h, ok) => Aparte(h)') /\ (OpenResponde(h, ok) => Aparte(h)')
  BY <1>1, <1>2 DEF Vuelve, OpenResponde, Aparte, Altas
<1>4. \A c, x : Copiando(h, c, x) => Aparte(h)'
  BY DEF Copiando, Aparte, Altas, Forma, Campos
<1>5. \A b : UnlinkSigue(h, b) => Aparte(h)'
  BY DEF UnlinkSigue, Aparte, Altas, Forma, Campos
<1>6. CreateAlta(h) => Aparte(h)'
  BY <1>1, <1>4 DEF CreateAlta, Aparte, Altas, Forma, Campos
<1>7. CreateFin(h) => Aparte(h)'
  BY <1>1, <1>3 DEF CreateFin, Aparte, Altas, Forma, Campos
<1>8. RmdirBaja(h) => Aparte(h)'
  BY <1>1, <1>4 DEF RmdirBaja, Aparte, Altas, Forma, Campos
<1>9. RenameAlta(h) => Aparte(h)'
  BY <1>1, <1>4 DEF RenameAlta, Aparte, Altas, Forma, Campos
<1>10. Utimens(h) => Aparte(h)'
  BY <1>1, <1>4 DEF Utimens, Aparte, Altas, Forma, Campos
<1>11. UnlinkBaja(h) => Aparte(h)'
  BY <1>1, <1>2 DEF UnlinkBaja, Aparte, Altas, Forma, Campos
<1>12. UnlinkPrimero(h) => Aparte(h)'
  BY <1>5 DEF UnlinkPrimero, Aparte, Altas, Forma, Campos
<1>13. UnlinkLimpiar(h) => Aparte(h)'
  BY <1>1, <1>2 DEF UnlinkLimpiar, Aparte, Altas, Forma, Campos
<1>14. UnlinkSeguir(h) => Aparte(h)'
  BY <1>5 DEF UnlinkSeguir, Aparte, Altas, Forma, Campos
<1>15. Tamanio(h) => Aparte(h)'
  BY <1>1, <1>4 DEF Tamanio, Aparte, Altas, Forma, Campos
<1>16. Marcar(h) => Aparte(h)'
  BY <1>1, <1>2 DEF Marcar, Aparte, Altas, Forma, Campos
<1>17. Limpiar(h) => Aparte(h)'
  BY <1>1, <1>2 DEF Limpiar, Aparte, Altas, Forma, Campos
<1>18. NuncaMarcar(h) => Aparte(h)'
  BY <1>1, <1>2 DEF NuncaMarcar, Aparte, Altas, Forma, Campos
<1>19. ReleaseSoltar(h) => Aparte(h)'
  BY <1>1, <1>3 DEF ReleaseSoltar, Aparte, Altas, Forma, Campos
<1>20. Truncado(h) => Aparte(h)'
  BY <1>1, <1>3 DEF Truncado, Aparte, Altas, Forma, Campos
<1>21. MkdirMux(h) => Aparte(h)'
  BY <1>1, <1>4 DEF MkdirMux, Aparte, Altas, Forma, Campos
<1>22. Rmdir(h) => Aparte(h)'
  BY <1>1, <1>3 DEF Rmdir, Aparte, Altas, Forma, Campos
<1>23. Unlink(h) => Aparte(h)'
  BY <1>1, <1>3 DEF Unlink, Aparte, Altas, Forma, Campos
<1>24. Open(h) => Aparte(h)'
  BY <1>1, <1>3, ZenonT(60) DEF Open, Aparte, Altas, Forma, Campos
<1>25. OpenTomar(h) => Aparte(h)'
  <2>1. OpenTomar(h) => \/ loc' = [loc EXCEPT ![h].pc = "truncate", ![h].vuelve = "open"]
                        \/ \E ok \in BOOLEAN : OpenResponde(h, ok)
    BY Zenon DEF OpenTomar
  <2>2. loc' = [loc EXCEPT ![h].pc = "truncate", ![h].vuelve = "open"] => Aparte(h)'
    BY DEF Aparte, Altas, Forma, Campos
  <2>. QED BY <1>3, <2>1, <2>2, Zenon
<1>26. Release(h) => Aparte(h)'
  BY <1>1, <1>3 DEF Release, Aparte, Altas, Forma, Campos
<1>27. Truncate(h) => Aparte(h)'
  <2>1. Truncate(h) => \/ \E i, n : loc' = [loc EXCEPT ![h].pc = "cola", ![h].pos = i, ![h].abm = n]
                       \/ \E ok \in BOOLEAN : Vuelve(h, ok)
    BY Zenon DEF Truncate
  <2>2. \A i, n : loc' = [loc EXCEPT ![h].pc = "cola", ![h].pos = i, ![h].abm = n] => Aparte(h)'
    BY DEF Aparte, Altas, Forma, Campos
  <2>. QED BY <1>3, <2>1, <2>2, Zenon
<1>28. Cola(h) => Aparte(h)'
  <2>. DEFINE De(b, a, n, p) ==
         loc' = [loc EXCEPT ![h].blk = b, ![h].ant = a, ![h].abm = n, ![h].pc = p]
  <2>1. Cola(h) => \/ UNCHANGED loc /\ loc[h].pc = "cola"
                   \/ \E b, a, n : De(b, a, n, "pedir") \/ De(b, a, n, "limpiar") \/ De(b, a, n, "cola")
    <3>1. SUFFICES ASSUME Cola(h), ~(UNCHANGED loc /\ loc[h].pc = "cola")
                   PROVE  \E b, a, n : De(b, a, n, "pedir") \/ De(b, a, n, "limpiar") \/ De(b, a, n, "cola")
      BY Zenon
    <3>2. PICK k \in Ultimo(tabla[loc[h].pos].primero) :
            De(Bloque(tabla[loc[h].pos].primero, k),
               IF k = 0 THEN FIN ELSE Bloque(tabla[loc[h].pos].primero, k - 1),
               IF loc[h].abm < 0 /\ k = 0 THEN loc[h].abm + 1 ELSE loc[h].abm,
               IF loc[h].abm > 0 THEN "pedir" ELSE IF k > 0 THEN "limpiar" ELSE "cola")
      BY <3>1 DEF Cola, En, Forma, Campos
    <3>. HIDE DEF De
    <3>. QED BY <3>2, Zenon
  <2>2. \A b, a, n, p : De(b, a, n, p) => loc'[h].pc = p
    BY DEF Forma, Campos
  <2>. HIDE DEF De
  <2>. QED BY <2>1, <2>2 DEF Aparte, Altas
<1>29. PedirBloque(h) => Aparte(h)'
  <2>1. PedirBloque(h) => \/ \E a, b : loc' = [loc EXCEPT ![h].pc = "marcar", ![h].ant = a, ![h].blk = b]
                          \/ \E ok \in BOOLEAN : Vuelve(h, ok)
    BY Zenon DEF PedirBloque
  <2>2. \A a, b : loc' = [loc EXCEPT ![h].pc = "marcar", ![h].ant = a, ![h].blk = b] => Aparte(h)'
    BY DEF Aparte, Altas, Forma, Campos
  <2>. QED BY <1>3, <2>1, <2>2, Zenon
<1>30. Enlazar(h) => Aparte(h)'
  BY <1>1, <1>3 DEF Enlazar, Aparte, Altas, Forma, Campos
<1>31. Terminar(h) => Aparte(h)'
  BY <1>1, <1>3 DEF Terminar, Aparte, Altas, Forma, Campos
<1>32. Cortar(h) => Aparte(h)'
  BY <1>1, <1>3 DEF Cortar, Aparte, Altas, Forma, Campos
<1>33. Write(h) => Aparte(h)'
  BY <1>1, <1>3 DEF Write, Aparte, Altas, Forma, Campos
<1>34. WriteIr(h) => Aparte(h)'
  BY <1>1, <1>3 DEF WriteIr, Aparte, Altas, Forma, Campos, En
<1>35. Escribir(h) => Aparte(h)'
  BY <1>1, <1>2 DEF Escribir, Aparte, Altas, Forma, Campos, En
<1>36. NuncaPedir(h) => Aparte(h)'
  BY <1>1, <1>3 DEF NuncaPedir, Aparte, Altas, Forma, Campos
<1>37. NuncaEnlazar(h) => Aparte(h)'
  BY <1>1, <1>3 DEF NuncaEnlazar, Aparte, Altas, Forma, Campos
<1>38. NuncaSeguir(h) => Aparte(h)'
  BY <1>1, <1>3 DEF NuncaSeguir, Aparte, Altas, Forma, Campos, En
<1>39. Copiar(h) => Aparte(h)'
  <2>1. loc[h].luego \notin Altas
    BY DeHilo DEF LocalBien, Altas
  <2>2. \A c : loc[h].pc = "copiar" /\ loc' = [loc EXCEPT ![h].copias = c] => Aparte(h)'
    BY DEF Aparte, Altas, Forma, Campos
  <2>3. \A x : x \notin Altas /\ loc' = [loc EXCEPT ![h].copias = <<>>, ![h].pc = x, ![h].luego = "libre"]
          => Aparte(h)'
    BY DEF Aparte, Forma, Campos
  <2>. QED BY <1>1, <2>1, <2>2, <2>3, Zenon DEF Copiar, En
<1>. QED BY <1>6, <1>7, <1>8, <1>9, <1>10, <1>11, <1>12, <1>13, <1>14, <1>15, <1>16, <1>17, <1>18, <1>19, <1>20, <1>21, <1>22, <1>23, <1>24, <1>25, <1>26, <1>27, <1>28, <1>29, <1>30, <1>31, <1>32, <1>33, <1>34, <1>35, <1>36, <1>37, <1>38, <1>39, Zenon

\* A thread that is about to write nothing new.
LEMMA Apartado == ASSUME NEW h, Aparte(h)' PROVE NuevoBien(h, loc'[h], tabla')
BY DEF Aparte, Altas, NuevoBien

\* The steps that put no name in the table.
LEMMA PasosSinAltas ==
  ASSUME TInv, NEW h \in Hilos
  PROVE  /\ UNCHANGED tabla => SinAltas(tabla, tabla')
         /\ RmdirBaja(h) \/ UnlinkBaja(h) \/ Tamanio(h) => SinAltas(tabla, tabla')
<1>1. UNCHANGED tabla => SinAltas(tabla, tabla')
  BY DEF SinAltas
<1>2. \A i \in Entradas : tabla' = [tabla EXCEPT ![i].estado = "DELETED"] => SinAltas(tabla, tabla')
  <2>. SUFFICES ASSUME NEW i \in Entradas, tabla' = [tabla EXCEPT ![i].estado = "DELETED"]
                PROVE  SinAltas(tabla, tabla')
    OBVIOUS
  <2>1. tabla \in [Entradas -> Entrada]
    BY Fichas
  <2>2. \A j \in Entradas \ {i} : tabla'[j] = tabla[j]
    BY <2>1
  <2>3. tabla'[i].estado = "DELETED"
    BY <2>1 DEF Entrada
  <2>. QED BY <2>2, <2>3 DEF SinAltas
<1>3. \A i \in Entradas : \A n : tabla' = [tabla EXCEPT ![i].tam = n] => SinAltas(tabla, tabla')
  <2>. SUFFICES ASSUME NEW i \in Entradas, NEW n, tabla' = [tabla EXCEPT ![i].tam = n]
                PROVE  SinAltas(tabla, tabla')
    OBVIOUS
  <2>1. tabla \in [Entradas -> Entrada]
    BY Fichas
  <2>2. \A j \in Entradas \ {i} : tabla'[j] = tabla[j]
    BY <2>1
  <2>3. /\ tabla'[i].estado = tabla[i].estado /\ tabla'[i].nombre = tabla[i].nombre
        /\ tabla'[i].padre = tabla[i].padre
    BY <2>1 DEF Entrada
  <2>. QED BY <2>2, <2>3 DEF SinAltas
<1>4. RmdirBaja(h) \/ UnlinkBaja(h) \/ Tamanio(h) => loc[h].pos \in Entradas
  BY DeHilo DEF RmdirBaja, UnlinkBaja, Tamanio, En, LocalBien
<1>5. RmdirBaja(h) => SinAltas(tabla, tabla')
  BY <1>2, <1>4, Zenon DEF RmdirBaja
<1>6. UnlinkBaja(h) => SinAltas(tabla, tabla')
  BY <1>1, <1>2, <1>4, Zenon DEF UnlinkBaja
<1>7. Tamanio(h) => SinAltas(tabla, tabla')
  BY <1>3, <1>4, Zenon DEF Tamanio
<1>. QED BY <1>1, <1>5, <1>6, <1>7

\* The steps that leave the table as it is and their thread away from any name.
LEMMA PasosSinNombre ==
  ASSUME Propios, NInv, TInv, Forma, NEW h \in Hilos,
         \/ Copiar(h) \/ CreateFin(h) \/ Rmdir(h) \/ RmdirBaja(h) \/ Utimens(h)
         \/ Unlink(h) \/ UnlinkBaja(h) \/ UnlinkPrimero(h) \/ UnlinkLimpiar(h) \/ UnlinkSeguir(h)
         \/ Open(h) \/ OpenTomar(h) \/ Release(h) \/ ReleaseSoltar(h)
         \/ Truncate(h) \/ Cola(h) \/ PedirBloque(h) \/ Marcar(h) \/ Enlazar(h) \/ Terminar(h)
         \/ Limpiar(h) \/ Cortar(h) \/ Tamanio(h) \/ Truncado(h)
         \/ Write(h) \/ WriteIr(h) \/ Escribir(h) \/ NuncaPedir(h) \/ NuncaMarcar(h)
         \/ NuncaEnlazar(h) \/ NuncaSeguir(h)
  PROVE  NInv'
<1>1. Ajenos(h)
  BY SoloSuyos, Zenon DEF Hilo
<1>2. NuevoBien(h, loc'[h], tabla')
  BY QuedaAparte, Apartado, Zenon
<1>3. UNCHANGED tabla \/ RmdirBaja(h) \/ UnlinkBaja(h) \/ Tamanio(h)
  BY ZenonT(30) DEF Copiar, CreateFin, Rmdir, Utimens, Unlink, UnlinkPrimero, UnlinkLimpiar,
     UnlinkSeguir, Open, OpenTomar, Release, ReleaseSoltar, Truncate, Cola, PedirBloque, Marcar,
     Enlazar, Terminar, Limpiar, Cortar, Truncado, Write, WriteIr, Escribir, NuncaPedir,
     NuncaMarcar, NuncaEnlazar, NuncaSeguir, estructuras
<1>4. SinAltas(tabla, tabla')
  BY <1>3, PasosSinAltas
<1>. QED BY <1>1, <1>2, <1>4, PasoNombres

\* The three that write a name.
LEMMA PasosConNombre ==
  ASSUME Propios, NInv, TInv, Forma, NEW h \in Hilos,
         MkdirMux(h) \/ CreateAlta(h) \/ RenameAlta(h)
  PROVE  NInv'
<1>1. Ajenos(h)
  BY SoloSuyos, Zenon DEF Hilo
<1>2. NuevoBien(h, loc'[h], tabla')
  BY QuedaAparte, Apartado, Zenon
<1>3. NuevoBien(h, loc[h], tabla)
  BY DEF NInv
<1>4. tabla \in [Entradas -> Entrada]
  <2>1. TypeOK
    BY DEF TInv
  <2>. QED BY <2>1, Filas DEF TypeOK
<1>5. \A i \in Entradas : \A tipo, primero : Alta(h, i, tipo, primero) =>
        ConAlta(tabla, tabla', Last(loc[h].ruta), loc[h].padre)
  BY <1>4 DEF Alta, ConAlta
<1>6. CASE MkdirMux(h)
  <2>1. loc[h].ruta \in Rutas[h] /\ NoHay(tabla, Last(loc[h].ruta), loc[h].padre)
    BY <1>3, <1>6 DEF MkdirMux, En, NuevoBien, Altas
  <2>2. \/ UNCHANGED tabla
        \/ \E i \in Entradas : Alta(h, i, "DIRECTORY", FIN)
    <3>. DEFINE L == {i \in Entradas : tabla[i].estado = "DELETED"}
    <3>1. Primera(L) = NoEsta \/ Primera(L) \in Entradas
      BY PrimeraDe
    <3>. QED BY <1>6, <3>1, Zenon DEF MkdirMux
  <2>. QED BY <1>1, <1>2, <1>5, <2>1, <2>2, PasosSinAltas, PasoNombres
<1>7. CASE CreateAlta(h)
  <2>1. loc[h].ruta \in Rutas[h] /\ NoHay(tabla, Last(loc[h].ruta), loc[h].padre)
    BY <1>3, <1>7 DEF CreateAlta, En, NuevoBien, Altas
  <2>2. loc[h].pos \in Entradas
    BY <1>7, DeHilo DEF CreateAlta, En, LocalBien
  <2>3. ConAlta(tabla, tabla', Last(loc[h].ruta), loc[h].padre)
    BY <1>5, <1>7, <2>2 DEF CreateAlta
  <2>. QED BY <1>1, <1>2, <2>1, <2>3, PasoNombres
<1>8. CASE RenameAlta(h)
  <2>1. loc[h].dest \in Rutas[h] /\ NoHay(tabla, Last(loc[h].dest), loc[h].padre)
    BY <1>3, <1>8 DEF RenameAlta, En, NuevoBien, Altas
  <2>2. loc[h].pos \in Entradas
    BY <1>8, DeHilo DEF RenameAlta, En, LocalBien
  <2>3. \/ UNCHANGED tabla
        \/ tabla' = [tabla EXCEPT ![loc[h].pos].nombre = Last(loc[h].dest),
                                  ![loc[h].pos].padre = loc[h].padre]
    BY <1>8, Zenon DEF RenameAlta
  <2>4. \A i \in Entradas : \A n, p :
          tabla' = [tabla EXCEPT ![i].nombre = n, ![i].padre = p] => ConAlta(tabla, tabla', n, p)
    <3>. SUFFICES ASSUME NEW i \in Entradas, NEW n, NEW p,
                         tabla' = [tabla EXCEPT ![i].nombre = n, ![i].padre = p]
                  PROVE  ConAlta(tabla, tabla', n, p)
      BY Zenon
    <3>1. \A j \in Entradas \ {i} : tabla'[j] = tabla[j]
      BY <1>4
    <3>2. tabla'[i].nombre = n /\ tabla'[i].padre = p
      BY <1>4 DEF Entrada
    <3>. QED BY <3>1, <3>2 DEF ConAlta
  <2>. QED BY <1>1, <1>2, <2>1, <2>2, <2>3, <2>4, PasosSinAltas, PasoNombres
<1>. QED BY <1>6, <1>7, <1>8

\* The steps that look for a name.
LEMMA PasoBusca ==
  ASSUME Propios, NInv, TInv, Forma, NEW h \in Hilos, UNCHANGED tabla, NuevoBien(h, loc'[h], tabla),
         Pedir(h) \/ Hilo(h) \/ Morir(h)
  PROVE  NInv'
BY SoloSuyos, PasosSinAltas, PasoNombres

\* A client asks to create what its kernel does not find.
LEMMA PideNuevo ==
  ASSUME TInv, NEW h \in Hilos, NEW ruta \in Rutas[h], Estado(ruta) = "ENOENT"
  PROVE  PadreEn(tabla, Front(ruta)) # NoEsta =>
           NoHay(tabla, Last(ruta), PadreEn(tabla, Front(ruta)))
<1>1. PadreDe(ruta) = PadreEn(tabla, Front(ruta))
  BY Paseos DEF PadreDe
<1>. DEFINE p == PadreDe(ruta)
            i == Buscar(Last(ruta), p, {"REGULAR", "DIRECTORY"})
<1>2. ASSUME p # NoEsta, i # NoEsta PROVE FALSE
  <2>1. tabla[i].estado = "ENOENT"
    BY <1>2 DEF Estado
  <2>2. i \in Entradas
    BY <1>2, RutasBien, Hallazgos
  <2>3. tabla[i].estado \in {"DELETED", "REGULAR", "DIRECTORY"}
    BY <2>2, Fichas, Zenon DEF Entrada
  <2>. QED BY <2>1, <2>3
<1>. QED BY <1>1, <1>2, BuscarNoHay

LEMMA PasoPedirNombre ==
  ASSUME Propios, NInv, TInv, Forma, NEW h \in Hilos, Pedir(h) \/ Morir(h)
  PROVE  NInv'
<1>1. UNCHANGED tabla
  BY DEF Pedir, PedirNuevo, PedirRename, PedirRmdir, PedirUnlink, PedirUtimens, PedirTruncate,
         PedirOpen, PedirWrite, PedirRelease, Pide, Morir, estructuras
<1>2. \A op, m : DOMAIN m = Campos /\ Pide(h, op, m) =>
        loc'[h] = [m EXCEPT !.pc = op] /\ loc'[h].pc = op /\ loc'[h].ruta = m.ruta
        /\ loc'[h].dest = m.dest
  BY DEF Pide, Forma, Campos
<1>3. DOMAIN Ocioso = Campos
  BY OciosoForma
<1>4. \A op, m : DOMAIN m = Campos /\ Pide(h, op, m) /\ op \notin Altas
        => NuevoBien(h, loc'[h], tabla)
  BY <1>2 DEF NuevoBien, Altas
<1>5. CASE PedirNuevo(h)
  <2>1. PICK ruta \in Rutas[h], op \in {"create", "mkdir"} :
          Estado(ruta) = "ENOENT" /\ Pide(h, op, [Ocioso EXCEPT !.ruta = ruta, !.modo = 2])
    BY <1>5 DEF PedirNuevo
  <2>. DEFINE m == [Ocioso EXCEPT !.ruta = ruta, !.modo = 2]
  <2>2. DOMAIN m = Campos /\ m.ruta = ruta
    BY <1>3 DEF Campos
  <2>. HIDE DEF m
  <2>3. loc'[h].pc = op /\ loc'[h].ruta = ruta
    BY <1>2, <2>1, <2>2 DEF m
  <2>. QED BY <1>1, <2>1, <2>3, PideNuevo, PasoBusca DEF NuevoBien, Altas
<1>6. CASE PedirRename(h)
  <2>1. PICK ruta \in Rutas[h], dest \in Rutas[h] :
          Pide(h, "rename", [Ocioso EXCEPT !.ruta = ruta, !.dest = dest])
    BY <1>6 DEF PedirRename
  <2>. DEFINE m == [Ocioso EXCEPT !.ruta = ruta, !.dest = dest]
  <2>2. DOMAIN m = Campos /\ m.dest = dest
    BY <1>3 DEF Campos
  <2>. HIDE DEF m
  <2>3. loc'[h].pc = "rename" /\ loc'[h].dest = dest
    BY <1>2, <2>1, <2>2 DEF m
  <2>. QED BY <1>1, <1>6, <2>3, PasoBusca DEF NuevoBien, Altas, Pedir
<1>7. CASE PedirRmdir(h) \/ PedirUnlink(h) \/ PedirUtimens(h) \/ PedirTruncate(h) \/ PedirOpen(h)
           \/ PedirWrite(h) \/ PedirRelease(h)
  <2>1. /\ \A r : DOMAIN [Ocioso EXCEPT !.ruta = r] = Campos
        /\ \A r, a : DOMAIN [Ocioso EXCEPT !.ruta = r, !.tam = a] = Campos
        /\ \A r, a : DOMAIN [Ocioso EXCEPT !.ruta = r, !.modo = a] = Campos
        /\ \A r, a, b : DOMAIN [Ocioso EXCEPT !.ruta = r, !.desde = a, !.tam = b] = Campos
    BY <1>3
  <2>2. \E op \in {"rmdir", "unlink", "utimens", "truncate", "open", "write", "release"} : \E m :
          DOMAIN m = Campos /\ Pide(h, op, m)
    BY <1>7, <2>1, Zenon DEF PedirRmdir, PedirUnlink, PedirUtimens, PedirTruncate, PedirOpen,
       PedirWrite, PedirRelease
  <2>3. NuevoBien(h, loc'[h], tabla)
    BY <1>4, <2>2 DEF Altas
  <2>. QED BY <1>1, <2>3, PasoBusca
<1>8. CASE Morir(h)
  <2>1. loc'[h].pc = "muerto"
    BY <1>3, <1>8 DEF Morir, Forma, Campos
  <2>2. NuevoBien(h, loc'[h], tabla)
    BY <2>1 DEF NuevoBien, Altas
  <2>. QED BY <1>1, <1>8, <2>2, PasoBusca
<1>. QED BY <1>5, <1>6, <1>7, <1>8 DEF Pedir

\* osada_mkdir and osada_create take what their client has found not to be there.
LEMMA PasoBuscaAlta ==
  ASSUME Propios, NInv, TInv, Forma, NEW h \in Hilos, Mkdir(h) \/ Create(h) \/ CreateMux(h)
  PROVE  NInv'
<1>1. UNCHANGED tabla
  BY DEF Mkdir, Create, CreateMux, estructuras
<1>2. NuevoBien(h, loc[h], tabla)
  BY DEF NInv
<1>3. (Responder(h) => Aparte(h)') /\ \A c : CreateResponde(h, c) => Aparte(h)'
  BY OciosoForma, ZenonT(60) DEF Responder, CreateResponde, Aparte, Altas, Forma, Campos
<1>4. (Responder(h) \/ \E c : CreateResponde(h, c)) => NuevoBien(h, loc'[h], tabla)
  BY <1>1, <1>3, Apartado
<1>5. ASSUME NEW x \in {"mkdirMux", "createMux"}, loc[h].pc \in {"mkdir", "create"},
             PadreDe(loc[h].ruta) # NoEsta,
             loc' = [loc EXCEPT ![h].pc = x, ![h].padre = PadreDe(loc[h].ruta)]
      PROVE  NuevoBien(h, loc'[h], tabla)
  <2>1. loc'[h].pc = x /\ loc'[h].padre = PadreDe(loc[h].ruta) /\ loc'[h].ruta = loc[h].ruta
    BY <1>5 DEF Forma, Campos
  <2>2. PadreDe(loc[h].ruta) = PadreEn(tabla, Front(loc[h].ruta))
    BY Paseos DEF PadreDe
  <2>3. NoHay(tabla, Last(loc[h].ruta), PadreDe(loc[h].ruta)) /\ loc[h].ruta \in Rutas[h]
    BY <1>2, <1>5, <2>2 DEF NuevoBien, Altas
  <2>. QED BY <2>1, <2>3 DEF NuevoBien, Altas
<1>6. CASE Mkdir(h)
  <2>1. NuevoBien(h, loc'[h], tabla)
    BY <1>4, <1>5, <1>6, Zenon DEF Mkdir, En
  <2>. QED BY <1>1, <1>6, <2>1, PasoBusca DEF Hilo
<1>7. CASE Create(h)
  <2>1. NuevoBien(h, loc'[h], tabla)
    BY <1>4, <1>5, <1>7, Zenon DEF Create, En
  <2>. QED BY <1>1, <1>7, <2>1, PasoBusca DEF Hilo
<1>8. CASE CreateMux(h)
  <2>1. \A i, b : loc[h].pc = "createMux"
                  /\ loc' = [loc EXCEPT ![h].pc = "createAlta", ![h].pos = i, ![h].blk = b]
                  => NuevoBien(h, loc'[h], tabla)
    <3>. SUFFICES ASSUME NEW i, NEW b, loc[h].pc = "createMux",
                         loc' = [loc EXCEPT ![h].pc = "createAlta", ![h].pos = i, ![h].blk = b]
                  PROVE  NuevoBien(h, loc'[h], tabla)
      BY Zenon
    <3>1. /\ loc'[h].pc = "createAlta" /\ loc'[h].padre = loc[h].padre
          /\ loc'[h].ruta = loc[h].ruta
      BY DEF Forma, Campos
    <3>. QED BY <1>2, <3>1 DEF NuevoBien, Altas
  <2>2. NuevoBien(h, loc'[h], tabla)
    BY <1>4, <1>8, <2>1, Zenon DEF CreateMux, En
  <2>. QED BY <1>1, <1>8, <2>2, PasoBusca DEF Hilo
<1>. QED BY <1>6, <1>7, <1>8

\* osada_rename looks for the new name itself.
LEMMA PasoRename ==
  ASSUME Propios, NInv, TInv, Forma, NEW h \in Hilos, Rename(h)
  PROVE  NInv'
<1>. DEFINE de == is_parent(loc[h].ruta)
            a == PadreDe(loc[h].dest)
<1>1. UNCHANGED tabla
  BY DEF Rename, estructuras
<1>2. loc[h].pc = "rename" /\ loc[h].dest \in Rutas[h]
  BY DEF Rename, En, NInv, NuevoBien
<1>3. CASE Responder(h)
  <2>1. Aparte(h)'
    BY <1>3, OciosoForma DEF Responder, Aparte, Altas, Forma, Campos
  <2>2. NuevoBien(h, loc'[h], tabla)
    BY <1>1, <2>1, Apartado
  <2>. QED BY <1>1, <2>2, PasoBusca DEF Hilo
<1>4. CASE /\ Buscar(Last(loc[h].dest), a, {"REGULAR", "DIRECTORY"}) = NoEsta
           /\ loc' = [loc EXCEPT ![h].pc = "renameAlta", ![h].pos = de, ![h].padre = a]
  <2>1. loc'[h].pc = "renameAlta" /\ loc'[h].padre = a /\ loc'[h].dest = loc[h].dest
    BY <1>4 DEF Forma, Campos
  <2>2. NoHay(tabla, Last(loc[h].dest), a)
    BY <1>4, BuscarNoHay
  <2>3. NuevoBien(h, loc'[h], tabla)
    BY <1>2, <2>1, <2>2 DEF NuevoBien, Altas
  <2>. QED BY <1>1, <2>3, PasoBusca DEF Hilo
<1>. QED BY <1>3, <1>4, Zenon DEF Rename

LEMMA SigueNombres == Propios /\ TInv /\ Forma /\ NInv /\ [Next]_vars => NInv'
<1>1. CASE UNCHANGED vars
  BY <1>1 DEF vars, estructuras, NInv
<1>2. ASSUME Propios, TInv, Forma, NInv, NEW h \in Hilos, Pedir(h) \/ Hilo(h) \/ Morir(h)
      PROVE  NInv'
  BY <1>2, PasosSinNombre, PasosConNombre, PasoPedirNombre, PasoBuscaAlta, PasoRename,
     ZenonT(30) DEF Hilo
<1>. QED BY <1>1, <1>2 DEF Next

LEMMA IniciaNombres == Init => NInv
<1>. SUFFICES ASSUME Init PROVE NInv
  OBVIOUS
<1>1. \A i \in Entradas : tabla[i].estado = "DELETED"
  <2>. DEFINE r == [estado |-> "DELETED", nombre |-> "", padre |-> 0, tam |-> 0, primero |-> 0]
  <2>1. tabla = [i \in Entradas |-> r]
    BY Zenon DEF Init
  <2>2. r.estado = "DELETED"
    BY Zenon
  <2>. HIDE DEF r
  <2>. QED BY <2>1, <2>2
<1>2. \A h \in Hilos : loc[h].pc = "libre"
  <2>1. loc = [h \in Hilos |-> Ocioso]
    BY Zenon DEF Init
  <2>. QED BY <2>1, OciosoForma
<1>. QED BY <1>1, <1>2 DEF NInv, Unicos, NuevoBien, Altas

\* No directory has two entries of the same name, at any moment, if there is one client,
\* whatever it asks for, or each has files of its own in the root.
THEOREM NombresSiempre == ASSUME Propios PROVE Spec => []NombresUnicos
<1>1. Init => IInv /\ TInv /\ NInv
  BY Inicia, IniciaTipo, IniciaNombres
<1>2. IInv /\ TInv /\ NInv /\ [Next]_vars => (IInv /\ TInv /\ NInv)'
  <2>1. IInv => Forma
    BY DEF IInv
  <2>. QED BY <2>1, Conserva, SigueTipo, SigueNombres
<1>3. NInv => NombresUnicos
  BY DEF NInv, Unicos, NombresUnicos
<1>. QED BY <1>1, <1>2, <1>3, PTL DEF Spec
=============================================================================
