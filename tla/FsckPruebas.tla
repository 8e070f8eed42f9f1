---------------------------- MODULE FsckPruebas ----------------------------
(***************************************************************************)
(* Proofs that the structures of Osada agree: when nobody is served the    *)
(* bitmap marks the blocks of the chains of the files and no other, each   *)
(* chain ends and no two share a block; and osada_write never meets a      *)
(* chain that ends too soon.  For any number of clients, files and blocks, *)
(* if clients keep to their own files and nobody deletes one while another *)
(* client is there (with one client there is no condition).                *)
(* With one client each file has, too, exactly the blocks that its size    *)
(* takes.  And if nobody renames a file either, the rwlocks are those of   *)
(* the files that are open.                                                *)
(***************************************************************************)
EXTENDS OsadaPruebas

\* There is one client, or each has files of its own in the root and none deletes one.
Apartados == Propios /\ (Solo \/ "unlink" \notin Operaciones)

\* What each client asks for, and has open, is its own; a file is only deleted when
\* there is nobody else.
Borra == {"unlink", "unlinkBaja", "unlinkPrimero", "unlinkLimpiar", "unlinkSeguir"}
Mia(h, r) == Solo \/ r \in Rutas[h]
Pedido(h, l) ==
  /\ l.pc \notin {"libre", "muerto"} => Mia(h, l.ruta)
  /\ l.pc \in {"rename", "renameAlta"} => Mia(h, l.dest)
  /\ l.pc \in Borra => Solo
RInv == \A h \in Hilos : Pedido(h, loc[h]) /\ (abierto[h] # Cerrado => Mia(h, abierto[h].ruta))

-----------------------------------------------------------------------------
\* Where a thread changes the chain of an entry, has cut it or lengthened it without
\* its end, has a block marked that is in no chain, and is deleting a chain.
Estira(l) ==
  \/ l.pc \in {"cola", "pedir", "marcar", "enlazar", "terminar", "limpiar", "cortar"}
  \/ l.pc = "copiar" /\ l.luego = "cola"
Corto(l) == l.pc \in {"terminar", "cortar"}
Aparta(l) == l.pc \in {"enlazar", "terminar"}
Deja(l) == l.pc \in {"unlinkPrimero", "unlinkLimpiar", "unlinkSeguir"}
Trunco(l) == l.pc = "truncado" \/ (l.pc = "copiar" /\ l.luego = "truncado")
Escribe(l) ==
  \/ l.pc \in {"write", "writeIr", "escribir"}
  \/ l.vuelve = "write" /\ (Estira(l) \/ Trunco(l) \/ l.pc = "truncate")

\* The entry a thread has found and goes on using, which is its client's.
EnWpos(l) == l.pc \in {"writeIr", "escribir"} \/ (l.pc = "truncate" /\ l.vuelve = "write")
Usa(l) == Estira(l) \/ Trunco(l) \/ EnWpos(l) \/ l.pc \in {"rmdirBaja", "renameAlta", "unlinkBaja"}
Arch(l) == IF EnWpos(l) THEN l.wpos ELSE l.pos
Suya(h, t, i) == t[i].estado # "DELETED" /\ (Solo \/ \E q \in Rutas[h] : t[i].nombre = Last(q))

Usado(h, l, t) ==
  /\ Usa(l) => Arch(l) \in Entradas /\ Suya(h, t, Arch(l))
  /\ l.pc = "rmdirBaja" => t[l.pos].estado = "DIRECTORY"
  /\ l.pc = "createAlta" => t[l.pos].estado = "DELETED"
  /\ l.pc = "truncate" /\ l.vuelve = "write" => PadreEn(t, l.ruta) = l.wpos
  /\ (Estira(l) \/ Trunco(l)) /\ l.vuelve = "write" => l.wpos = l.pos
  /\ Escribe(l) => l.desde < l.tam

\* Where the blocks of a thread are in the chain c, of n blocks, of its entry.
Puesto(l, f, c, n) ==
  /\ l.pc \notin {"nunca", "nuncaMarcar", "nuncaEnlazar", "nuncaSeguir"} /\ l.luego # "nuncaSeguir"
  /\ l.pc = "terminar" => l.luego = "cola" /\ l.abm >= 0 /\ f[l.ant] = l.blk
  /\ l.pc \in {"pedir", "marcar", "enlazar"} => l.abm > 0
  /\ l.pc \in {"limpiar", "cortar"} => l.abm < 0
  /\ l.pc = "pedir" => n[l.pos] > 0 /\ l.blk = c[l.pos][n[l.pos] - 1]
  /\ l.pc \in {"marcar", "enlazar", "terminar", "cortar"} =>
       n[l.pos] > 0 /\ l.ant = c[l.pos][n[l.pos] - 1]
  /\ l.pc = "limpiar" =>
       n[l.pos] > 1 /\ l.blk = c[l.pos][n[l.pos] - 1] /\ l.ant = c[l.pos][n[l.pos] - 2]

\* The blocks still to come, as the chains of the FAT will show, and those there are.
Faltan(l) == IF Corto(l) THEN l.abm + 1 ELSE l.abm
Largo(l, t, c, n) ==
  /\ Estira(l) /\ t[l.pos].estado = "REGULAR" =>
       /\ n[l.pos] + Faltan(l) >= BloquesDe(l.tam)
       /\ Faltan(l) > 0 => n[l.pos] >= BloquesDe(t[l.pos].tam)
  /\ Trunco(l) /\ t[l.pos].estado = "REGULAR" => n[l.pos] >= BloquesDe(l.tam)
  /\ l.pc = "writeIr" /\ t[l.wpos].estado = "REGULAR" => n[l.wpos] >= BloquesDe(l.tam)
  /\ l.pc = "escribir" =>
       \E k \in Nat : c[l.wpos][k] = l.blk /\ l.abm >= 0 /\ k + l.abm < n[l.wpos]

\* What is left of a chain that is being deleted.
Dejada(l, t, f, c, n) ==
  Deja(l) =>
    /\ l.pos \in Entradas /\ t[l.pos].estado = "DELETED"
    /\ IF l.pc = "unlinkLimpiar" THEN n[l.pos] > 0 /\ l.blk = c[l.pos][0]
       ELSE (IF l.pc = "unlinkPrimero" THEN t[l.pos].primero ELSE f[l.blk])
              = IF n[l.pos] > 0 THEN c[l.pos][0] ELSE FIN

Hebra(h, l, t, f, c, n) ==
  Usado(h, l, t) /\ Puesto(l, f, c, n) /\ Largo(l, t, c, n) /\ Dejada(l, t, f, c, n)

\* The chain of an entry.  m are the locals of the threads.
Ninguno(m, i) == \A h \in Hilos : ~(Estira(m[h]) /\ m[h].pos = i)
FilaBien(i, t, f, c, n, m) ==
  /\ n[i] \in Nat
  /\ \A k \in Nat : k < n[i] => c[i][k] \in Bloques
  /\ \A k \in Nat : k + 1 < n[i] => f[c[i][k]] = c[i][k + 1]
  /\ n[i] > 0 /\ (\A h \in Hilos : ~(Corto(m[h]) /\ m[h].pos = i)) => f[c[i][n[i] - 1]] = FIN
  /\ t[i].estado = "REGULAR" => n[i] > 0 /\ c[i][0] = t[i].primero
  /\ t[i].estado = "DIRECTORY" => n[i] = 0 /\ t[i].primero = FIN
  /\ t[i].estado = "DELETED" /\ (\A h \in Hilos : ~(Deja(m[h]) /\ m[h].pos = i)) => n[i] = 0
  /\ t[i].estado = "REGULAR" /\ Ninguno(m, i) => n[i] >= BloquesDe(t[i].tam)

\* No block is in two places, and those marked are those of the chains and those about
\* to be.
Separadas(c, n) ==
  \A i \in Entradas : \A j \in Entradas : \A k \in Nat : \A o \in Nat :
    k < n[i] /\ o < n[j] /\ c[i][k] = c[j][o] => i = j /\ k = o
EnCadena(b, c, n) == \E i \in Entradas : \E k \in Nat : k < n[i] /\ c[i][k] = b
Marcas(b, c, n, m) ==
  /\ b \subseteq Bloques
  /\ \A x \in Bloques : x \in b <=> EnCadena(x, c, n) \/ \E h \in Hilos : Aparta(m[h]) /\ m[h].blk = x
  /\ \A h \in Hilos : Aparta(m[h]) =>
       /\ m[h].blk \in Bloques /\ ~EnCadena(m[h].blk, c, n)
       /\ \A g \in Hilos \ {h} : ~(Aparta(m[g]) /\ m[g].blk = m[h].blk)

Cuadra(t, f, b, m, c, n) ==
  /\ \A h \in Hilos : Hebra(h, m[h], t, f, c, n)
  /\ \A i \in Entradas : FilaBien(i, t, f, c, n, m)
  /\ Separadas(c, n) /\ Marcas(b, c, n, m)
FInv == \E c, n : Cuadra(tabla, fat, bitmap, loc, c, n)

\* A step of a request goes on with its path, or has served it.
Encamina(h) ==
  /\ loc'[h].pc = "libre" \/ loc'[h].ruta = loc[h].ruta
  /\ loc'[h].pc \notin Borra \cup {"rename", "renameAlta"}

\* A thread that goes on with the same request keeps the path it has.
LEMMA QuedaRuta ==
  ASSUME TInv, Forma, NEW h \in Hilos
  PROVE  Copiar(h) \/ Mkdir(h) \/ MkdirMux(h) \/ Create(h) \/ CreateMux(h) \/ CreateAlta(h) \/ CreateFin(h) \/ Rmdir(h) \/ RmdirBaja(h) \/ RenameAlta(h) \/ Utimens(h) \/ Open(h) \/ OpenTomar(h) \/ Release(h) \/ ReleaseSoltar(h) \/ Truncate(h) \/ Cola(h) \/ PedirBloque(h) \/ Marcar(h) \/ Enlazar(h) \/ Terminar(h) \/ Limpiar(h) \/ Cortar(h) \/ Tamanio(h) \/ Truncado(h) \/ Write(h) \/ WriteIr(h) \/ Escribir(h) \/ NuncaPedir(h) \/ NuncaMarcar(h) \/ NuncaEnlazar(h) \/ NuncaSeguir(h)
         => Encamina(h)
<1>1. (Responder(h) => Encamina(h)) /\ (\A c : CreateResponde(h, c) => Encamina(h))
  BY OciosoForma, ZenonT(60) DEF Responder, CreateResponde, Encamina, Borra, Forma, Campos
<1>2. \A p : p \notin Borra \cup {"rename", "renameAlta"} /\ Ir(h, p) => Encamina(h)
  BY DEF Ir, Encamina, Forma, Campos
<1>3. \A ok : (Vuelve(h, ok) => Encamina(h)) /\ (OpenResponde(h, ok) => Encamina(h))
  BY <1>1, <1>2 DEF Vuelve, OpenResponde, Borra
<1>4. \A c, x : Copiando(h, c, x) => Encamina(h)
  BY DEF Copiando, Encamina, Borra, Forma, Campos
<1>5. Copiar(h) => Encamina(h)
  <2>1. loc[h].luego \notin Borra \cup {"rename", "renameAlta"}
    BY DeHilo DEF LocalBien, Borra
  <2>2. \A c : loc[h].pc = "copiar" /\ loc' = [loc EXCEPT ![h].copias = c] => Encamina(h)
    BY DEF Encamina, Borra, Forma, Campos
  <2>3. \A x : x \notin Borra \cup {"rename", "renameAlta"}
               /\ loc' = [loc EXCEPT ![h].copias = <<>>, ![h].pc = x, ![h].luego = "libre"]
          => Encamina(h)
    BY DEF Encamina, Forma, Campos
  <2>. QED BY <1>1, <2>1, <2>2, <2>3, Zenon DEF Copiar, En
<1>6. Mkdir(h) => Encamina(h)
  BY <1>1, <1>3, <1>4 DEF Mkdir, Encamina, Borra, Forma, Campos
<1>7. MkdirMux(h) => Encamina(h)
  BY <1>1, <1>3, <1>4 DEF MkdirMux, Encamina, Borra, Forma, Campos
<1>8. Create(h) => Encamina(h)
  BY <1>1, <1>3, <1>4 DEF Create, Encamina, Borra, Forma, Campos
<1>9. CreateMux(h) => Encamina(h)
  <2>1. CreateMux(h) => \/ \E i, b : loc' = [loc EXCEPT ![h].pc = "createAlta", ![h].pos = i, ![h].blk = b]
                        \/ \E c : CreateResponde(h, c)
    BY Zenon DEF CreateMux
  <2>2. \A i, b : loc' = [loc EXCEPT ![h].pc = "createAlta", ![h].pos = i, ![h].blk = b] => Encamina(h)
    BY DEF Encamina, Borra, Forma, Campos
  <2>. QED BY <1>1, <2>1, <2>2, Zenon
<1>10. CreateAlta(h) => Encamina(h)
  BY <1>1, <1>3, <1>4 DEF CreateAlta, Encamina, Borra, Forma, Campos
<1>11. CreateFin(h) => Encamina(h)
  BY <1>1, <1>3, <1>4 DEF CreateFin, Encamina, Borra, Forma, Campos
<1>12. Rmdir(h) => Encamina(h)
  BY <1>1, <1>3, <1>4 DEF Rmdir, Encamina, Borra, Forma, Campos
<1>13. RmdirBaja(h) => Encamina(h)
  BY <1>1, <1>3, <1>4 DEF RmdirBaja, Encamina, Borra, Forma, Campos
<1>14. RenameAlta(h) => Encamina(h)
  BY <1>1, <1>3, <1>4 DEF RenameAlta, Encamina, Borra, Forma, Campos
<1>15. Utimens(h) => Encamina(h)
  BY <1>1, <1>3, <1>4 DEF Utimens, Encamina, Borra, Forma, Campos
<1>16. Open(h) => Encamina(h)
  BY <1>1, <1>3, <1>4, ZenonT(60) DEF Open, Encamina, Borra, Forma, Campos
<1>17. OpenTomar(h) => Encamina(h)
  <2>1. OpenTomar(h) => \/ loc' = [loc EXCEPT ![h].pc = "truncate", ![h].vuelve = "open"]
                        \/ \E ok \in BOOLEAN : OpenResponde(h, ok)
    BY Zenon DEF OpenTomar
  <2>2. loc' = [loc EXCEPT ![h].pc = "truncate", ![h].vuelve = "open"] => Encamina(h)
    BY DEF Encamina, Borra, Forma, Campos
  <2>. QED BY <1>3, <2>1, <2>2, Zenon
<1>18. Release(h) => Encamina(h)
  BY <1>1, <1>3, <1>4 DEF Release, Encamina, Borra, Forma, Campos
<1>19. ReleaseSoltar(h) => Encamina(h)
  BY <1>1, <1>3, <1>4 DEF ReleaseSoltar, Encamina, Borra, Forma, Campos
<1>20. Truncate(h) => Encamina(h)
  <2>1. Truncate(h) => \/ \E i, n : loc' = [loc EXCEPT ![h].pc = "cola", ![h].pos = i, ![h].abm = n]
                       \/ \E ok \in BOOLEAN : Vuelve(h, ok)
    BY Zenon DEF Truncate
  <2>2. \A i, n : loc' = [loc EXCEPT ![h].pc = "cola", ![h].pos = i, ![h].abm = n] => Encamina(h)
    BY DEF Encamina, Borra, Forma, Campos
  <2>. QED BY <1>3, <2>1, <2>2, Zenon
<1>21. Cola(h) => Encamina(h)
  <2>. DEFINE De(b, a, n, p) ==
         loc' = [loc EXCEPT ![h].blk = b, ![h].ant = a, ![h].abm = n, ![h].pc = p]
  <2>1. Cola(h) => \/ UNCHANGED loc /\ loc[h].pc = "cola"
                   \/ \E b, a, n : De(b, a, n, "pedir") \/ De(b, a, n, "limpiar") \/ De(b, a, n, "cola")
    <3>1. SUFFICES ASSUME Cola(h), ~(UNCHANGED loc /\ loc[h].pc = "cola")
                   PROVE  \E b, a, n : De(b, a, n, "pedir") \/ De(b, a, n, "limpiar") \/ De(b, a, n, "cola")
      BY Zenon
    <3>2. PICK k \in Ultimo(tabla[loc[h].pos].primero) :
            De(Bloque(tabla[loc[h].pos].primero, k),
               IF k = 0 THEN FIN ELSE Bloque(tabla[loc[h].pos].primero, k - 1),
               IF loc[h].abm < 0 /\ k = 0 THEN loc[h].abm + 1 ELSE loc[h].abm,
               IF loc[h].abm > 0 THEN "pedir" ELSE IF k > 0 THEN "limpiar" ELSE "cola")
      BY <3>1 DEF Cola, En, Forma, Campos
    <3>. HIDE DEF De
    <3>. QED BY <3>2, Zenon
  <2>2. \A b, a, n, p : De(b, a, n, p) => loc'[h].pc = p /\ loc'[h].ruta = loc[h].ruta
    BY DEF Forma, Campos
  <2>. HIDE DEF De
  <2>. QED BY <2>1, <2>2 DEF Encamina, Borra
<1>22. PedirBloque(h) => Encamina(h)
  <2>1. PedirBloque(h) => \/ \E a, b : loc' = [loc EXCEPT ![h].pc = "marcar", ![h].ant = a, ![h].blk = b]
                          \/ \E ok \in BOOLEAN : Vuelve(h, ok)
    BY Zenon DEF PedirBloque
  <2>2. \A a, b : loc' = [loc EXCEPT ![h].pc = "marcar", ![h].ant = a, ![h].blk = b] => Encamina(h)
    BY DEF Encamina, Borra, Forma, Campos
  <2>. QED BY <1>3, <2>1, <2>2, Zenon
<1>23. Marcar(h) => Encamina(h)
  BY <1>1, <1>2, <1>3, <1>4 DEF Marcar, Encamina, Borra, Forma, Campos
<1>24. Enlazar(h) => Encamina(h)
  BY <1>1, <1>3, <1>4 DEF Enlazar, Encamina, Borra, Forma, Campos
<1>25. Terminar(h) => Encamina(h)
  BY <1>1, <1>3, <1>4 DEF Terminar, Encamina, Borra, Forma, Campos
<1>26. Limpiar(h) => Encamina(h)
  BY <1>1, <1>2, <1>3, <1>4 DEF Limpiar, Encamina, Borra, Forma, Campos
<1>27. Cortar(h) => Encamina(h)
  BY <1>1, <1>3, <1>4 DEF Cortar, Encamina, Borra, Forma, Campos
<1>28. Tamanio(h) => Encamina(h)
  BY <1>1, <1>3, <1>4 DEF Tamanio, Encamina, Borra, Forma, Campos
<1>29. Truncado(h) => Encamina(h)
  BY <1>1, <1>3, <1>4 DEF Truncado, Encamina, Borra, Forma, Campos
<1>30. Write(h) => Encamina(h)
  BY <1>1, <1>3, <1>4 DEF Write, Encamina, Borra, Forma, Campos
<1>31. WriteIr(h) => Encamina(h)
  BY <1>1, <1>3, <1>4 DEF WriteIr, Encamina, Borra, Forma, Campos, En
<1>32. Escribir(h) => Encamina(h)
  BY <1>1, <1>2, <1>3, <1>4 DEF Escribir, Encamina, Borra, Forma, Campos, En
<1>33. NuncaPedir(h) => Encamina(h)
  BY <1>1, <1>3, <1>4 DEF NuncaPedir, Encamina, Borra, Forma, Campos
<1>34. NuncaMarcar(h) => Encamina(h)
  BY <1>1, <1>2, <1>3, <1>4 DEF NuncaMarcar, Encamina, Borra, Forma, Campos
<1>35. NuncaEnlazar(h) => Encamina(h)
  BY <1>1, <1>3, <1>4 DEF NuncaEnlazar, Encamina, Borra, Forma, Campos
<1>36. NuncaSeguir(h) => Encamina(h)
  BY <1>1, <1>3, <1>4 DEF NuncaSeguir, Encamina, Borra, Forma, Campos, En
<1>. QED BY <1>5, <1>6, <1>7, <1>8, <1>9, <1>10, <1>11, <1>12, <1>13, <1>14, <1>15, <1>16, <1>17, <1>18, <1>19, <1>20, <1>21, <1>22, <1>23, <1>24, <1>25, <1>26, <1>27, <1>28, <1>29, <1>30, <1>31, <1>32, <1>33, <1>34, <1>35, <1>36, Zenon

\* The steps that look for what they delete or rename.
LEMMA QuedaBorra ==
  ASSUME TInv, Forma, NEW h \in Hilos,
         Rename(h) \/ Unlink(h) \/ UnlinkBaja(h) \/ UnlinkPrimero(h) \/ UnlinkLimpiar(h) \/ UnlinkSeguir(h)
  PROVE  /\ loc'[h].pc = "libre" \/ loc'[h].ruta = loc[h].ruta
         /\ loc'[h].pc \in Borra => loc[h].pc \in Borra
         /\ loc'[h].pc \in {"rename", "renameAlta"} => loc[h].pc = "rename" /\ loc'[h].dest = loc[h].dest
<1>1. Responder(h) => loc'[h].pc = "libre"
  BY OciosoForma DEF Responder, Forma
<1>2. CASE Rename(h)
  <2>1. \A i, p : loc' = [loc EXCEPT ![h].pc = "renameAlta", ![h].pos = i, ![h].padre = p] =>
          loc'[h].pc = "renameAlta" /\ loc'[h].ruta = loc[h].ruta /\ loc'[h].dest = loc[h].dest
    BY DEF Forma, Campos
  <2>2. \/ Responder(h)
        \/ \E i, p : loc' = [loc EXCEPT ![h].pc = "renameAlta", ![h].pos = i, ![h].padre = p]
    BY <1>2, Zenon DEF Rename
  <2>3. \/ loc'[h].pc = "libre"
        \/ loc'[h].pc = "renameAlta" /\ loc'[h].ruta = loc[h].ruta /\ loc'[h].dest = loc[h].dest
    BY <1>1, <2>1, <2>2, Zenon
  <2>4. loc[h].pc = "rename"
    BY <1>2 DEF Rename, En
  <2>. QED BY <2>3, <2>4 DEF Borra
<1>3. CASE Unlink(h) \/ UnlinkBaja(h)
  <2>1. \A i : loc' = [loc EXCEPT ![h].pc = "unlinkBaja", ![h].pos = i] =>
          loc'[h].pc = "unlinkBaja" /\ loc'[h].ruta = loc[h].ruta
    BY DEF Forma, Campos
  <2>2. Ir(h, "unlinkPrimero") => loc'[h].pc = "unlinkPrimero" /\ loc'[h].ruta = loc[h].ruta
    BY DEF Ir, Forma, Campos
  <2>3. loc[h].pc \in Borra
    BY <1>3 DEF Unlink, UnlinkBaja, En, Borra
  <2>4. \/ Responder(h) \/ Ir(h, "unlinkPrimero")
        \/ \E i : loc' = [loc EXCEPT ![h].pc = "unlinkBaja", ![h].pos = i]
    BY <1>3, Zenon DEF Unlink, UnlinkBaja
  <2>. QED BY <1>1, <2>1, <2>2, <2>3, <2>4
<1>4. CASE UnlinkPrimero(h) \/ UnlinkLimpiar(h) \/ UnlinkSeguir(h)
  <2>1. \A b : UnlinkSigue(h, b) => loc'[h].pc \in {"copiar", "unlinkLimpiar"} /\ loc'[h].ruta = loc[h].ruta
    BY DEF UnlinkSigue, Forma, Campos
  <2>2. Ir(h, "unlinkSeguir") => loc'[h].pc = "unlinkSeguir" /\ loc'[h].ruta = loc[h].ruta
    BY DEF Ir, Forma, Campos
  <2>3. loc[h].pc \in Borra
    BY <1>4 DEF UnlinkPrimero, UnlinkLimpiar, UnlinkSeguir, En, Borra
  <2>4. Ir(h, "unlinkSeguir") \/ \E b : UnlinkSigue(h, b)
    BY <1>4, Zenon DEF UnlinkPrimero, UnlinkLimpiar, UnlinkSeguir
  <2>. QED BY <2>1, <2>2, <2>3, <2>4
<1>. QED BY <1>2, <1>3, <1>4

\* What a client has open changes when its request is served.
LEMMA AbiertoCambia ==
  ASSUME NEW h \in Hilos, Pedir(h) \/ Hilo(h) \/ Morir(h), ~RenameAlta(h)
  PROVE  \/ UNCHANGED abierto \/ abierto' = [abierto EXCEPT ![h] = Cerrado]
         \/ /\ abierto' = [abierto EXCEPT ![h] = [ruta |-> loc[h].ruta, modo |-> loc[h].modo]]
            /\ loc[h].pc \notin {"libre", "muerto"}
<1>1. CASE Pedir(h) \/ Morir(h)
  BY <1>1 DEF Pedir, PedirNuevo, PedirRename, PedirRmdir, PedirUnlink, PedirUtimens,
     PedirTruncate, PedirOpen, PedirWrite, PedirRelease, Pide, Morir
<1>2. CASE Open(h) \/ OpenTomar(h) \/ Release(h) \/ ReleaseSoltar(h) \/ Truncate(h)
           \/ PedirBloque(h) \/ Truncado(h)
  <2>1. \A ok : OpenResponde(h, ok) => UNCHANGED abierto
          \/ abierto' = [abierto EXCEPT ![h] = [ruta |-> loc[h].ruta, modo |-> loc[h].modo]]
    BY DEF OpenResponde
  <2>2. \A ok : Vuelve(h, ok) => UNCHANGED abierto \/ OpenResponde(h, ok)
    BY DEF Vuelve
  <2>. HIDE DEF OpenResponde, Vuelve
  <2>3. \/ UNCHANGED abierto \/ abierto' = [abierto EXCEPT ![h] = Cerrado]
        \/ abierto' = [abierto EXCEPT ![h] = [ruta |-> loc[h].ruta, modo |-> loc[h].modo]]
    BY <1>2, <2>1, <2>2, Zenon DEF Open, OpenTomar, Release, ReleaseSoltar, Truncate,
       PedirBloque, Truncado
  <2>4. loc[h].pc \notin {"libre", "muerto"}
    BY <1>2 DEF Open, OpenTomar, Release, ReleaseSoltar, Truncate, PedirBloque, Truncado, En
  <2>. QED BY <2>3, <2>4
<1>3. CASE Hilo(h) /\ ~(Open(h) \/ OpenTomar(h) \/ Release(h) \/ ReleaseSoltar(h) \/ Truncate(h)
           \/ PedirBloque(h) \/ Truncado(h))
  BY <1>3, Zenon DEF Hilo, Copiar, Mkdir, MkdirMux, Create, CreateMux, CreateAlta, CreateFin,
     Rmdir, RmdirBaja, Rename, Utimens, Unlink, UnlinkBaja, UnlinkPrimero, UnlinkLimpiar,
     UnlinkSeguir, Cola, Marcar, Enlazar, Terminar, Limpiar, Cortar, Tamanio, Write, WriteIr,
     Escribir, NuncaPedir, NuncaMarcar, NuncaEnlazar, NuncaSeguir
<1>. QED BY <1>1, <1>2, <1>3

\* What a client has open.
LEMMA QuedaAbierto ==
  ASSUME TInv, RInv, Apartados, NEW h \in Hilos, Pedir(h) \/ Hilo(h) \/ Morir(h)
  PROVE  /\ \A g \in Hilos \ {h} : abierto'[g] = abierto[g]
         /\ abierto'[h] # Cerrado => Mia(h, abierto'[h].ruta)
<1>1. abierto \in [Hilos -> Abierto] /\ (abierto[h] # Cerrado => Mia(h, abierto[h].ruta))
  BY DeHilo DEF RInv
<1>2. UNCHANGED abierto \/ abierto' = [abierto EXCEPT ![h] = Cerrado]
      \/ /\ abierto' = [abierto EXCEPT ![h] = [ruta |-> loc[h].ruta, modo |-> loc[h].modo]]
         /\ loc[h].pc \notin {"libre", "muerto"}
      \/ RenameAlta(h)
  BY AbiertoCambia
<1>3. CASE UNCHANGED abierto \/ abierto' = [abierto EXCEPT ![h] = Cerrado]
  BY <1>1, <1>3
<1>4. CASE /\ abierto' = [abierto EXCEPT ![h] = [ruta |-> loc[h].ruta, modo |-> loc[h].modo]]
           /\ loc[h].pc \notin {"libre", "muerto"}
  <2>1. Mia(h, loc[h].ruta)
    BY <1>4 DEF RInv, Pedido
  <2>. QED BY <1>1, <1>4, <2>1
<1>5. CASE RenameAlta(h)
  <2>. DEFINE l == loc[h]
              q == abierto[h].ruta
              nueva == IF abierto[h] # Cerrado /\ IsPrefix(l.ruta, q)
                         THEN l.dest \o SubSeq(q, Len(l.ruta) + 1, Len(q)) ELSE q
  <2>1. UNCHANGED abierto \/ abierto' = [abierto EXCEPT ![h].ruta = nueva]
    BY <1>5 DEF RenameAlta
  <2>2. Mia(h, l.ruta) /\ Mia(h, l.dest)
    BY <1>5 DEF RenameAlta, En, RInv, Pedido
  <2>3. ASSUME ~Solo, abierto[h] # Cerrado PROVE nueva \in Rutas[h]
    <3>1. \A r \in Rutas[h] : Len(r) = 1
      BY <2>3 DEF Apartados, Propios, Solo
    <3>2. q \in Rutas[h] /\ l.ruta \in Rutas[h] /\ l.dest \in Rutas[h]
      BY <1>1, <2>2, <2>3 DEF Mia
    <3>3. SubSeq(q, Len(l.ruta) + 1, Len(q)) = <<>>
      <4>1. SubSeq(q, 2, 1) = <<>>
        BY SubSeqEmpty
      <4>2. Len(l.ruta) + 1 = 2 /\ Len(q) = 1
        <5>1. Len(l.ruta) = 1 /\ Len(q) = 1
          BY <3>1, <3>2, Zenon
        <5>. QED BY <5>1
      <4>. QED BY <4>1, <4>2, Zenon
    <3>4. l.dest \o <<>> = l.dest
      BY <3>2, RutasBien, ConcatEmptySeq
    <3>. QED BY <3>2, <3>3, <3>4
  <2>4. abierto[h] = Cerrado => nueva = q
    OBVIOUS
  <2>. HIDE DEF nueva, l
  <2>5. CASE abierto' = [abierto EXCEPT ![h].ruta = nueva]
    <3>1. \A g \in Hilos \ {h} : abierto'[g] = abierto[g]
      BY <1>1, <2>5
    <3>2. abierto'[h].ruta = nueva /\ (nueva = q => abierto'[h] = abierto[h])
      BY <1>1, <2>5 DEF Abierto
    <3>. QED BY <2>3, <2>4, <3>1, <3>2 DEF Mia
  <2>. QED BY <1>1, <2>1, <2>5
<1>. QED BY <1>2, <1>3, <1>4, <1>5

\* Where a thread that takes a step is.
LEMMA HiloEn == ASSUME NEW h \in Hilos, Hilo(h) PROVE loc[h].pc \notin {"libre", "muerto"}
<1>. DEFINE X == Pasos \ {"libre", "muerto"}
<1>1. PICK p \in X : En(h, p)
  <2>1. /\ "copiar" \in X /\ "mkdir" \in X /\ "mkdirMux" \in X /\ "create" \in X /\ "createMux" \in X
        /\ "createAlta" \in X /\ "createFin" \in X /\ "rmdir" \in X /\ "rmdirBaja" \in X
        /\ "rename" \in X /\ "renameAlta" \in X /\ "utimens" \in X /\ "unlink" \in X
        /\ "unlinkBaja" \in X /\ "unlinkPrimero" \in X /\ "unlinkLimpiar" \in X
        /\ "unlinkSeguir" \in X /\ "open" \in X /\ "openTomar" \in X /\ "release" \in X
        /\ "releaseSoltar" \in X /\ "truncate" \in X /\ "cola" \in X /\ "pedir" \in X
        /\ "marcar" \in X /\ "enlazar" \in X /\ "terminar" \in X /\ "limpiar" \in X
        /\ "cortar" \in X /\ "truncado" \in X /\ "write" \in X /\ "writeIr" \in X
        /\ "escribir" \in X /\ "nunca" \in X /\ "nuncaMarcar" \in X /\ "nuncaEnlazar" \in X
        /\ "nuncaSeguir" \in X
    BY DEF Pasos
  <2>. HIDE DEF X
  <2>. QED BY <2>1, ZenonT(60) DEF Hilo,
     Copiar, Mkdir, MkdirMux, Create, CreateMux, CreateAlta, CreateFin, Rmdir,
     RmdirBaja, Rename, RenameAlta, Utimens, Unlink, UnlinkBaja, UnlinkPrimero,
     UnlinkLimpiar, UnlinkSeguir, Open, OpenTomar, Release, ReleaseSoltar, Truncate,
     Cola, PedirBloque, Marcar, Enlazar, Terminar, Limpiar, Cortar, Tamanio, Truncado,
     Write, WriteIr, Escribir, NuncaPedir, NuncaMarcar, NuncaEnlazar, NuncaSeguir
<1>. QED BY <1>1 DEF En

\* What a client asks for is its own, or what it has open.
LEMMA PideLoSuyo ==
  ASSUME Apartados, TInv, Forma, RInv, NEW h \in Hilos, Pedir(h)
  PROVE  Pedido(h, loc'[h])
<1>1. ASSUME NEW op, NEW m, DOMAIN m = Campos, Pide(h, op, m), op \notin {"unlink", "rename"},
             op \in Pedidas, Mia(h, m.ruta)
      PROVE  Pedido(h, loc'[h])
  <2>1. loc'[h].pc = op /\ loc'[h].ruta = m.ruta
    BY <1>1 DEF Pide, Forma, Campos
  <2>. QED BY <1>1, <2>1 DEF Pedido, Borra, Pedidas
<1>2. DOMAIN Ocioso = Campos
  BY OciosoForma
<1>3. abierto[h] # Cerrado => Mia(h, abierto[h].ruta)
  BY DEF RInv
<1>4. \A r : /\ DOMAIN [Ocioso EXCEPT !.ruta = r] = Campos /\ [Ocioso EXCEPT !.ruta = r].ruta = r
             /\ \A x : /\ DOMAIN [Ocioso EXCEPT !.ruta = r, !.modo = x] = Campos
                       /\ [Ocioso EXCEPT !.ruta = r, !.modo = x].ruta = r
                       /\ DOMAIN [Ocioso EXCEPT !.ruta = r, !.tam = x] = Campos
                       /\ [Ocioso EXCEPT !.ruta = r, !.tam = x].ruta = r
                       /\ \A y : /\ DOMAIN [Ocioso EXCEPT !.ruta = r, !.desde = x, !.tam = y] = Campos
                                 /\ [Ocioso EXCEPT !.ruta = r, !.desde = x, !.tam = y].ruta = r
  BY <1>2 DEF Campos
<1>5. CASE PedirNuevo(h) \/ PedirRmdir(h) \/ PedirUtimens(h) \/ PedirTruncate(h) \/ PedirOpen(h)
           \/ PedirWrite(h) \/ PedirRelease(h)
  <2>1. abierto[h].modo > 0 => abierto[h] # Cerrado
    BY DEF Cerrado
  <2>2. \A r \in Rutas[h] : Mia(h, r)
    BY DEF Mia
  <2>3. \E op \in {"create", "mkdir", "rmdir", "utimens", "truncate", "open", "write", "release"} :
          \E m, r : DOMAIN m = Campos /\ Pide(h, op, m) /\ m.ruta = r /\ Mia(h, r)
    <3>. DEFINE Ops == {"create", "mkdir", "rmdir", "utimens", "truncate", "open", "write", "release"}
                Bien(op) == \E m, r : DOMAIN m = Campos /\ Pide(h, op, m) /\ m.ruta = r /\ Mia(h, r)
    <3>. SUFFICES \E op \in Ops : Bien(op)
      OBVIOUS
    <3>1. PedirNuevo(h) => Bien("create") \/ Bien("mkdir")
      <4>1. PedirNuevo(h) => \E r \in Rutas[h] : \E op \in {"create", "mkdir"} :
              Pide(h, op, [Ocioso EXCEPT !.ruta = r, !.modo = 2])
        BY Zenon DEF PedirNuevo
      <4>2. ASSUME NEW r \in Rutas[h], NEW op, Pide(h, op, [Ocioso EXCEPT !.ruta = r, !.modo = 2])
            PROVE  Bien(op)
        BY <1>4, <2>2, <4>2, Zenon
      <4>. HIDE DEF Bien
      <4>. QED BY <4>1, <4>2
    <3>2. PedirRmdir(h) => Bien("rmdir")
      BY <1>4, <2>2, Zenon DEF PedirRmdir
    <3>3. PedirUtimens(h) => Bien("utimens")
      BY <1>4, <2>2, Zenon DEF PedirUtimens
    <3>4. PedirTruncate(h) => Bien("truncate")
      <4>1. PedirTruncate(h) => \E r \in Rutas[h] : \E x : Pide(h, "truncate", [Ocioso EXCEPT !.ruta = r, !.tam = x])
        BY Zenon DEF PedirTruncate
      <4>2. ASSUME NEW r \in Rutas[h], NEW x, Pide(h, "truncate", [Ocioso EXCEPT !.ruta = r, !.tam = x])
            PROVE  Bien("truncate")
        <5>1. PICK m : m = [Ocioso EXCEPT !.ruta = r, !.tam = x]
          OBVIOUS
        <5>2. DOMAIN m = Campos /\ m.ruta = r
          BY <1>2, <5>1 DEF Campos
        <5>. QED BY <2>2, <4>2, <5>1, <5>2, Zenon
      <4>. HIDE DEF Bien
      <4>. QED BY <4>1, <4>2
    <3>5. PedirOpen(h) => Bien("open")
      <4>1. PedirOpen(h) => \E r \in Rutas[h] : \E x : Pide(h, "open", [Ocioso EXCEPT !.ruta = r, !.modo = x])
        BY Zenon DEF PedirOpen
      <4>2. ASSUME NEW r \in Rutas[h], NEW x, Pide(h, "open", [Ocioso EXCEPT !.ruta = r, !.modo = x])
            PROVE  Bien("open")
        <5>1. PICK m : m = [Ocioso EXCEPT !.ruta = r, !.modo = x]
          OBVIOUS
        <5>2. DOMAIN m = Campos /\ m.ruta = r
          BY <1>2, <5>1 DEF Campos
        <5>. QED BY <2>2, <4>2, <5>1, <5>2, Zenon
      <4>. HIDE DEF Bien
      <4>. QED BY <4>1, <4>2
    <3>6. PedirWrite(h) => Bien("write")
      <4>. DEFINE r == abierto[h].ruta
      <4>1. PedirWrite(h) => /\ abierto[h].modo > 0
                             /\ \E x, y : Pide(h, "write", [Ocioso EXCEPT !.ruta = r, !.desde = x, !.tam = y])
        BY Zenon DEF PedirWrite
      <4>2. ASSUME NEW x, NEW y, Pide(h, "write", [Ocioso EXCEPT !.ruta = r, !.desde = x, !.tam = y]),
                   Mia(h, r)
            PROVE  Bien("write")
        <5>1. PICK m : m = [Ocioso EXCEPT !.ruta = r, !.desde = x, !.tam = y]
          OBVIOUS
        <5>2. DOMAIN m = Campos /\ m.ruta = r
          BY <1>2, <5>1 DEF Campos
        <5>. QED BY <2>2, <4>2, <5>1, <5>2, Zenon
      <4>. HIDE DEF Bien
      <4>. QED BY <1>3, <2>1, <4>1, <4>2
    <3>7. PedirRelease(h) => Bien("release")
      BY <1>3, <1>4, ZenonT(60) DEF PedirRelease
    <3>. HIDE DEF Bien
    <3>. QED BY <1>5, <3>1, <3>2, <3>3, <3>4, <3>5, <3>6, <3>7
  <2>. QED BY <1>1, <2>3 DEF Pedidas
<1>6. CASE PedirUnlink(h)
  <2>1. PICK r \in Rutas[h] : Pide(h, "unlink", [Ocioso EXCEPT !.ruta = r])
    BY <1>6 DEF PedirUnlink
  <2>2. "unlink" \in Operaciones
    BY <2>1 DEF Pide
  <2>3. loc'[h].pc = "unlink" /\ loc'[h].ruta = r
    BY <1>2, <2>1 DEF Pide, Forma, Campos
  <2>. QED BY <2>2, <2>3 DEF Apartados, Pedido, Mia
<1>7. CASE PedirRename(h)
  <2>1. PICK r \in Rutas[h], d \in Rutas[h] : Pide(h, "rename", [Ocioso EXCEPT !.ruta = r, !.dest = d])
    BY <1>7 DEF PedirRename
  <2>2. loc'[h].pc = "rename" /\ loc'[h].ruta = r /\ loc'[h].dest = d
    BY <1>2, <2>1 DEF Pide, Forma, Campos
  <2>. QED BY <2>2 DEF Pedido, Mia, Borra
<1>. QED BY <1>5, <1>6, <1>7 DEF Pedir

\* Every step keeps what each client asks for, and has open, its own.
LEMMA SigueRutas == Apartados /\ TInv /\ Forma /\ RInv /\ [Next]_vars => RInv'
<1>1. CASE UNCHANGED vars
  BY <1>1 DEF vars, RInv
<1>2. ASSUME Apartados, TInv, Forma, RInv, NEW h \in Hilos, Pedir(h) \/ Hilo(h) \/ Morir(h)
      PROVE  RInv'
  <2>1. Ajenos(h)
    BY <1>2, SoloSuyos
  <2>2. Pedido(h, loc[h])
    BY <1>2 DEF RInv
  <2>3. Hilo(h) => loc[h].pc \notin {"libre", "muerto"}
    BY <1>2, HiloEn
  <2>4. Pedido(h, loc'[h])
    <3>1. CASE Pedir(h)
      BY <1>2, <3>1, PideLoSuyo
    <3>2. CASE Morir(h)
      <4>1. loc'[h].pc = "muerto"
        BY <1>2, <3>2, OciosoForma DEF Morir, Forma, Campos
      <4>. QED BY <4>1 DEF Pedido, Borra
    <3>3. CASE Rename(h) \/ Unlink(h) \/ UnlinkBaja(h) \/ UnlinkPrimero(h) \/ UnlinkLimpiar(h)
               \/ UnlinkSeguir(h)
      <4>1. Hilo(h)
        BY <3>3 DEF Hilo
      <4>2. /\ loc'[h].pc = "libre" \/ loc'[h].ruta = loc[h].ruta
            /\ loc'[h].pc \in Borra => loc[h].pc \in Borra
            /\ loc'[h].pc \in {"rename", "renameAlta"} => loc[h].pc = "rename" /\ loc'[h].dest = loc[h].dest
        BY <1>2, <3>3, QuedaBorra
      <4>. QED BY <2>2, <2>3, <4>1, <4>2 DEF Pedido, Borra
    <3>4. CASE Encamina(h) /\ Hilo(h)
      BY <2>2, <2>3, <3>4 DEF Pedido, Encamina, Borra
    <3>. QED BY <1>2, <3>1, <3>2, <3>3, <3>4, QuedaRuta, ZenonT(60) DEF Hilo
  <2>5. /\ \A g \in Hilos \ {h} : abierto'[g] = abierto[g]
        /\ abierto'[h] # Cerrado => Mia(h, abierto'[h].ruta)
    BY <1>2, QuedaAbierto
  <2>. QED BY <1>2, <2>1, <2>4, <2>5 DEF RInv, Ajenos
<1>. QED BY <1>1, <1>2 DEF Next

\* At the start nobody has asked for anything.
LEMMA IniciaRutas == Init => RInv
<1>. SUFFICES ASSUME Init PROVE RInv
  OBVIOUS
<1>1. loc = [h \in Hilos |-> Ocioso] /\ abierto = [h \in Hilos |-> Cerrado]
  BY Zenon DEF Init
<1>. QED BY <1>1, OciosoForma DEF RInv, Pedido, Borra

-----------------------------------------------------------------------------
(* What a step of one thread leaves as it is. *)

\* An entry of one client is not an entry of another.
LEMMA NadieMas ==
  ASSUME Apartados, NEW h \in Hilos, NEW g \in Hilos \ {h}, NEW t, NEW i
  PROVE  ~(Suya(g, t, i) /\ Suya(h, t, i)) /\ ~Solo
BY DEF Apartados, Propios, Suya, Solo

\* The table u is t but for the entry e, which has kept its name or taken one of h.
Renombra(h, e, t, u) ==
  /\ \A i \in Entradas \ {e} : u[i] = t[i]
  /\ e \in Entradas => \/ u[e].nombre = t[e].nombre /\ u[e].padre = t[e].padre
                       \/ \E q \in Rutas[h] : u[e].nombre = Last(q)

\* What is_parent finds for a file in the root goes on being found, if the entry e is
\* written with another's name.
LEMMA PadreQueda ==
  ASSUME Apartados, NEW h \in Hilos, NEW g \in Hilos \ {h}, NEW r \in Rutas[g],
         NEW t, NEW u, NEW e, Renombra(h, e, t, u), PadreEn(t, r) \in Entradas \ {e}
  PROVE  PadreEn(u, r) = PadreEn(t, r)
<1>. DEFINE w == PadreEn(t, r)
            A == Hijas(t, Last(r), Raiz)
            B == Hijas(u, Last(r), Raiz)
<1>1. r \in Seq(Nombres) /\ r # <<>> /\ Len(r) = 1 /\ \A q \in Rutas[h] : Last(r) # Last(q)
  BY RutasBien DEF Apartados, Propios
<1>2. PadreEn(t, Front(r)) = Raiz /\ PadreEn(u, Front(r)) = Raiz /\ Raiz # NoEsta
  BY <1>1, EnRaiz, SupuestoOsada DEF Raiz, NoEsta
<1>3. w = Primera(A) /\ PadreEn(u, r) = Primera(B)
  BY <1>1, <1>2, PadrePaso
<1>4. A \in SUBSET Entradas /\ B \in SUBSET Entradas
  BY DEF Hijas
<1>5. B \subseteq A
  BY <1>1 DEF Hijas, Renombra
<1>6. w \in A /\ \A i \in A : w <= i
  <2>1. w # NoEsta
    BY <1>4, PrimeraDe
  <2>. QED BY <1>3, <1>4, <2>1, PrimeraDe
<1>7. w \in B
  BY <1>6 DEF Hijas, Renombra
<1>8. Primera(B) \in B /\ Primera(B) <= w
  BY <1>4, <1>7, PrimeraDe
<1>9. Primera(B) \in Int /\ w \in Int /\ w <= Primera(B)
  BY <1>4, <1>5, <1>6, <1>8, SupuestoOsada DEF Entradas
<1>. QED BY <1>3, <1>8, <1>9

\* The entries that a step does not touch, all but e.
Quedan(e, t, f, c, n, u, f2, c2, n2) ==
  \A i \in Entradas \ {e} :
    /\ u[i] = t[i] /\ c2[i] = c[i] /\ n2[i] = n[i]
    /\ \A k \in Nat : k < n[i] => f2[c[i][k]] = f[c[i][k]]

\* A row is as good as before when the step of a thread is about another entry.
LEMMA FilaQueda ==
  ASSUME NEW h \in Hilos, NEW t, NEW f, NEW c, NEW n, NEW m, NEW u, NEW f2, NEW c2, NEW n2, NEW m2,
         NEW e, NEW i \in Entradas \ {e}, FilaBien(i, t, f, c, n, m),
         Quedan(e, t, f, c, n, u, f2, c2, n2),
         \A g \in Hilos \ {h} : m2[g] = m[g],
         Corto(m[h]) \/ Estira(m[h]) \/ Deja(m[h]) => m[h].pos = e
  PROVE  FilaBien(i, u, f2, c2, n2, m2)
<1>1. u[i] = t[i] /\ c2[i] = c[i] /\ n2[i] = n[i] /\ n[i] \in Nat
      /\ \A k \in Nat : k < n[i] => f2[c[i][k]] = f[c[i][k]]
  BY DEF Quedan, FilaBien
<1>2. /\ (\A g \in Hilos : ~(Corto(m2[g]) /\ m2[g].pos = i)) => \A g \in Hilos : ~(Corto(m[g]) /\ m[g].pos = i)
      /\ (\A g \in Hilos : ~(Deja(m2[g]) /\ m2[g].pos = i)) => \A g \in Hilos : ~(Deja(m[g]) /\ m[g].pos = i)
      /\ Ninguno(m2, i) => Ninguno(m, i)
  BY DEF Ninguno
<1>3. n[i] > 0 => n[i] - 1 \in Nat /\ n[i] - 1 < n[i]
  BY <1>1
<1>4. \A k \in Nat : k + 1 < n[i] => k < n[i]
  BY <1>1
<1>. QED BY <1>1, <1>2, <1>3, <1>4 DEF FilaBien

\* So is a thread that is not the one that took the step.
LEMMA HebraQueda ==
  ASSUME NEW g, NEW l, NEW t, NEW f, NEW c, NEW n, NEW u, NEW f2, NEW c2, NEW n2, NEW e,
         Hebra(g, l, t, f, c, n), LocalBien(l), ~Deja(l), \A i \in Entradas : n[i] \in Nat,
         Quedan(e, t, f, c, n, u, f2, c2, n2),
         Usa(l) => Arch(l) # e, l.pc = "createAlta" => l.pos # e,
         l.pc = "truncate" /\ l.vuelve = "write" => PadreEn(u, l.ruta) = PadreEn(t, l.ruta)
  PROVE  Hebra(g, l, u, f2, c2, n2)
<1>1. Usa(l) => Arch(l) \in Entradas \ {e}
  BY DEF Hebra, Usado
<1>2. Usa(l) => /\ u[Arch(l)] = t[Arch(l)] /\ c2[Arch(l)] = c[Arch(l)] /\ n2[Arch(l)] = n[Arch(l)]
                /\ n[Arch(l)] \in Nat
                /\ \A k \in Nat : k < n[Arch(l)] => f2[c[Arch(l)][k]] = f[c[Arch(l)][k]]
  BY <1>1 DEF Quedan
<1>3. Usado(g, l, u)
  <2>1. l.pc = "createAlta" => u[l.pos] = t[l.pos]
    BY DEF LocalBien, Quedan
  <2>2. l.pc = "rmdirBaja" => Usa(l) /\ Arch(l) = l.pos
    BY DEF Usa, Arch, EnWpos
  <2>3. Suya(g, t, Arch(l)) /\ u[Arch(l)] = t[Arch(l)] => Suya(g, u, Arch(l))
    BY DEF Suya
  <2>. QED BY <1>1, <1>2, <2>1, <2>2, <2>3 DEF Hebra, Usado
<1>4. Puesto(l, f2, c2, n2)
  <2>1. l.pc \in {"pedir", "marcar", "enlazar", "terminar", "limpiar", "cortar"} =>
          Usa(l) /\ Arch(l) = l.pos
    BY DEF Usa, Arch, EnWpos, Estira
  <2>2. l.pc = "terminar" => f2[l.ant] = f[l.ant]
    <3>1. l.pc = "terminar" => n[l.pos] > 0 /\ l.ant = c[l.pos][n[l.pos] - 1]
      BY DEF Hebra, Puesto
    <3>2. l.pc = "terminar" => n[l.pos] - 1 \in Nat /\ n[l.pos] - 1 < n[l.pos]
      BY <1>2, <2>1, <3>1
    <3>. QED BY <1>2, <2>1, <3>1, <3>2
  <2>. QED BY <1>2, <2>1, <2>2 DEF Hebra, Puesto
<1>5. Largo(l, u, c2, n2)
  <2>1. /\ Estira(l) => Usa(l) /\ Arch(l) = l.pos
        /\ Trunco(l) => Usa(l) /\ Arch(l) = l.pos
        /\ l.pc \in {"writeIr", "escribir"} => Usa(l) /\ Arch(l) = l.wpos
    BY DEF Usa, Arch, EnWpos, Estira, Trunco
  <2>. QED BY <1>2, <2>1 DEF Hebra, Largo
<1>6. Dejada(l, u, f2, c2, n2)
  BY DEF Dejada
<1>. QED BY <1>3, <1>4, <1>5, <1>6 DEF Hebra

\* The entry e is of nobody but h.
De(h, e) ==
  \/ e \notin Entradas
  \/ Suya(h, tabla, e)
  \/ tabla[e].estado = "DELETED" /\ \A g \in Hilos \ {h} : loc[g].pc # "createAlta"

\* A step of h that touches the entry e at most.
LEMMA Paso ==
  ASSUME Apartados, TInv, RInv, NEW h \in Hilos, Ajenos(h),
         NEW c, NEW n, NEW c2, NEW n2, NEW e, Cuadra(tabla, fat, bitmap, loc, c, n),
         De(h, e), Quedan(e, tabla, fat, c, n, tabla', fat', c2, n2),
         e \in Entradas =>
           \/ Solo
           \/ tabla'[e].nombre = tabla[e].nombre /\ tabla'[e].padre = tabla[e].padre
           \/ \E q \in Rutas[h] : tabla'[e].nombre = Last(q),
         Corto(loc[h]) \/ Estira(loc[h]) \/ Deja(loc[h]) => loc[h].pos = e,
         Hebra(h, loc'[h], tabla', fat', c2, n2),
         e \in Entradas => FilaBien(e, tabla', fat', c2, n2, loc'),
         Separadas(c2, n2), Marcas(bitmap', c2, n2, loc')
  PROVE  Cuadra(tabla', fat', bitmap', loc', c2, n2)
<1>1. \A i \in Entradas : FilaBien(i, tabla, fat, c, n, loc)
  BY DEF Cuadra
<1>2. \A g \in Hilos \ {h} : loc'[g] = loc[g]
  BY DEF Ajenos
<1>3. ASSUME NEW i \in Entradas PROVE FilaBien(i, tabla', fat', c2, n2, loc')
  <2>1. CASE i = e
    BY <2>1
  <2>2. CASE i # e
    <3>1. i \in Entradas \ {e} /\ FilaBien(i, tabla, fat, c, n, loc)
      BY <1>1, <2>2
    <3>. QED BY <1>2, <3>1, FilaQueda
  <2>. QED BY <2>1, <2>2
<1>4. ASSUME NEW g \in Hilos \ {h} PROVE Hebra(g, loc'[g], tabla', fat', c2, n2)
  <2>. DEFINE l == loc[g]
  <2>1. Hebra(g, l, tabla, fat, c, n) /\ LocalBien(l) /\ Pedido(g, l) /\ l.ruta \in Seq(Nombres)
    BY DeHilo DEF Cuadra, RInv, Locales
  <2>2. \A i \in Entradas : n[i] \in Nat
    BY <1>1 DEF FilaBien
  <2>3. ~Solo /\ \A i : ~(Suya(g, tabla, i) /\ Suya(h, tabla, i))
    BY NadieMas
  <2>4. ~Deja(l)
    BY <2>1, <2>3 DEF Pedido, Borra, Deja
  <2>5. Usa(l) => Suya(g, tabla, Arch(l)) /\ Arch(l) \in Entradas
    BY <2>1 DEF Hebra, Usado
  <2>6. Usa(l) => Arch(l) # e
    BY <2>3, <2>5 DEF De, Suya
  <2>7. l.pc = "createAlta" => l.pos # e
    BY <2>1 DEF Hebra, Usado, De, Suya, LocalBien
  <2>8. ASSUME l.pc = "truncate", l.vuelve = "write"
        PROVE  PadreEn(tabla', l.ruta) = PadreEn(tabla, l.ruta)
    <3>1. Usa(l) /\ Arch(l) = l.wpos /\ PadreEn(tabla, l.ruta) = l.wpos
      BY <2>1, <2>8 DEF Usa, Arch, EnWpos, Hebra, Usado
    <3>2. l.ruta \in Rutas[g]
      BY <2>1, <2>3, <2>8 DEF Pedido, Mia
    <3>3. Renombra(h, e, tabla, tabla')
      BY <2>3 DEF Quedan, Renombra
    <3>4. PadreEn(tabla, l.ruta) \in Entradas \ {e}
      BY <2>5, <2>6, <3>1
    <3>. HIDE DEF l
    <3>. QED BY <3>2, <3>3, <3>4, PadreQueda
  <2>. HIDE DEF l
  <2>9. Hebra(g, l, tabla', fat', c2, n2)
    BY <2>1, <2>2, <2>4, <2>6, <2>7, <2>8, HebraQueda
  <2>. QED BY <1>2, <2>9 DEF l
<1>. QED BY <1>3, <1>4 DEF Cuadra

\* A step of h that changes neither the table nor the bitmap nor the FAT, and neither
\* begins nor ends anything in a chain.
LEMMA PasoQuieto ==
  ASSUME NEW h \in Hilos, Ajenos(h), UNCHANGED estructuras,
         NEW c, NEW n, Cuadra(tabla, fat, bitmap, loc, c, n),
         ~Corto(loc[h]), ~Aparta(loc[h]), ~Aparta(loc'[h]),
         Deja(loc[h]) => (Deja(loc'[h]) /\ loc'[h].pos = loc[h].pos) \/ n[loc[h].pos] = 0,
         Estira(loc[h]) => \/ Estira(loc'[h]) /\ loc'[h].pos = loc[h].pos
                           \/ tabla[loc[h].pos].estado = "REGULAR" =>
                                n[loc[h].pos] >= BloquesDe(tabla[loc[h].pos].tam),
         Hebra(h, loc'[h], tabla, fat, c, n)
  PROVE  Cuadra(tabla', fat', bitmap', loc', c, n)
<1>1. \A g \in Hilos \ {h} : loc'[g] = loc[g]
  BY DEF Ajenos
<1>2. \A g \in Hilos : Hebra(g, loc'[g], tabla, fat, c, n)
  BY <1>1 DEF Cuadra
<1>3. ASSUME NEW i \in Entradas PROVE FilaBien(i, tabla, fat, c, n, loc')
  <2>1. FilaBien(i, tabla, fat, c, n, loc)
    BY DEF Cuadra
  <2>2. (\A g \in Hilos : ~(Corto(loc'[g]) /\ loc'[g].pos = i)) => \A g \in Hilos : ~(Corto(loc[g]) /\ loc[g].pos = i)
    BY <1>1
  <2>3. (\A g \in Hilos : ~(Deja(loc'[g]) /\ loc'[g].pos = i)) =>
          n[i] = 0 \/ \A g \in Hilos : ~(Deja(loc[g]) /\ loc[g].pos = i)
    BY <1>1
  <2>4. Ninguno(loc', i) =>
          (tabla[i].estado = "REGULAR" => n[i] >= BloquesDe(tabla[i].tam)) \/ Ninguno(loc, i)
    BY <1>1 DEF Ninguno
  <2>. QED BY <2>1, <2>2, <2>3, <2>4 DEF FilaBien
<1>4. Marcas(bitmap, c, n, loc')
  <2>1. Marcas(bitmap, c, n, loc)
    BY DEF Cuadra
  <2>2. \A x : (\E g \in Hilos : Aparta(loc'[g]) /\ loc'[g].blk = x) <=> \E g \in Hilos : Aparta(loc[g]) /\ loc[g].blk = x
    BY <1>1
  <2>. QED BY <1>1, <2>1, <2>2 DEF Marcas
<1>5. Cuadra(tabla, fat, bitmap, loc', c, n)
  BY <1>2, <1>3, <1>4 DEF Cuadra
<1>. QED BY <1>5 DEF estructuras

-----------------------------------------------------------------------------
(* The steps that have no part in the chains. *)

\* A thread that uses no entry and no block.
Inerte(l) ==
  /\ l.pc \in Pasos \ {"rmdirBaja", "renameAlta", "createAlta", "unlinkBaja", "unlinkPrimero",
                       "unlinkLimpiar", "unlinkSeguir", "cola", "pedir", "marcar", "enlazar",
                       "terminar", "limpiar", "cortar", "truncado", "write", "writeIr", "escribir",
                       "nunca", "nuncaMarcar", "nuncaEnlazar", "nuncaSeguir"}
  /\ l.luego \in {"libre", "createFin"}
  /\ l.pc = "truncate" => l.vuelve # "write"

\* A thread that is using no entry has nothing to keep.
LEMMA InerteHebra ==
  ASSUME NEW h, NEW l, Inerte(l), NEW t, NEW f, NEW c, NEW n
  PROVE  /\ Hebra(h, l, t, f, c, n)
         /\ ~Corto(l) /\ ~Aparta(l) /\ ~Estira(l) /\ ~Deja(l)
<1>1. ~Corto(l) /\ ~Aparta(l) /\ ~Estira(l) /\ ~Deja(l) /\ ~Trunco(l) /\ ~Escribe(l) /\ ~EnWpos(l)
  BY DEF Inerte, Corto, Aparta, Estira, Deja, Trunco, Escribe, EnWpos
<1>2. ~Usa(l)
  BY <1>1 DEF Inerte, Usa
<1>3. Usado(h, l, t) /\ Puesto(l, f, c, n) /\ Largo(l, t, c, n) /\ Dejada(l, t, f, c, n)
  BY <1>1, <1>2 DEF Inerte, Usado, Puesto, Largo, Dejada
<1>. QED BY <1>1, <1>3 DEF Hebra

\* A step after which its thread uses no entry, and which writes nothing.
LEMMA PasoInerte ==
  ASSUME NEW h \in Hilos, Ajenos(h), UNCHANGED estructuras,
         NEW c, NEW n, Cuadra(tabla, fat, bitmap, loc, c, n), Inerte(loc'[h]),
         ~Corto(loc[h]), ~Aparta(loc[h]), ~Deja(loc[h]), ~Estira(loc[h])
  PROVE  Cuadra(tabla', fat', bitmap', loc', c, n)
<1>1. Hebra(h, loc'[h], tabla, fat, c, n) /\ ~Aparta(loc'[h])
  BY InerteHebra
<1>. QED BY <1>1, PasoQuieto

\* The answers, and the copies that lead to one.
LEMMA RespondeInerte ==
  ASSUME TInv, Forma, NEW h \in Hilos
  PROVE  /\ Responder(h) => Inerte(loc'[h])
         /\ \A x : CreateResponde(h, x) => Inerte(loc'[h])
         /\ \A ok : OpenResponde(h, ok) => Inerte(loc'[h])
         /\ Vuelve(h, FALSE) => Inerte(loc'[h])
         /\ \A x, z : z \in {"libre", "createFin"} /\ Copiando(h, x, z) => Inerte(loc'[h])
<1>1. Ocioso.vuelve = "libre" /\ Ocioso.luego = "libre" /\ Ocioso.pc = "libre" /\ DOMAIN Ocioso = Campos
  BY OciosoForma DEF Ocioso
<1>2. Responder(h) => Inerte(loc'[h])
  BY <1>1 DEF Responder, Inerte, Forma, Pasos
<1>3. ASSUME NEW x, CreateResponde(h, x) PROVE Inerte(loc'[h])
  <2>1. loc'[h].pc = "open" /\ loc'[h].luego = "libre"
    BY <1>1, <1>3 DEF CreateResponde, Forma, Campos
  <2>. QED BY <2>1 DEF Inerte, Pasos
<1>4. ASSUME NEW x, NEW z \in {"libre", "createFin"}, Copiando(h, x, z) PROVE Inerte(loc'[h])
  <2>1. loc'[h].pc = "copiar" /\ loc'[h].luego = z
    BY <1>4 DEF Copiando, Forma, Campos
  <2>. QED BY <2>1 DEF Inerte, Pasos
<1>. QED BY <1>2, <1>3, <1>4 DEF OpenResponde, Vuelve

\* The searches of mkdir and create, open, release and utimens.
LEMMA PasosInertes ==
  ASSUME TInv, Forma, NEW h \in Hilos,
         Mkdir(h) \/ Create(h) \/ CreateFin(h) \/ Utimens(h) \/ Open(h) \/ OpenTomar(h)
         \/ Release(h) \/ ReleaseSoltar(h)
  PROVE  Inerte(loc'[h]) /\ Inerte(loc[h]) /\ UNCHANGED estructuras
<1>1. UNCHANGED estructuras
  BY Zenon DEF Mkdir, Create, CreateFin, Utimens, Open, OpenTomar, Release, ReleaseSoltar
<1>2. LocalBien(loc[h])
  BY DeHilo
<1>3. /\ Mkdir(h) => loc[h].pc = "mkdir"
      /\ Create(h) => loc[h].pc = "create"
      /\ CreateFin(h) => loc[h].pc = "createFin"
      /\ Utimens(h) => loc[h].pc = "utimens"
      /\ Open(h) => loc[h].pc = "open"
      /\ OpenTomar(h) => loc[h].pc = "openTomar"
      /\ Release(h) => loc[h].pc = "release"
      /\ ReleaseSoltar(h) => loc[h].pc = "releaseSoltar"
  BY Zenon DEF Mkdir, Create, CreateFin, Utimens, Open, OpenTomar, Release, ReleaseSoltar, En
<1>4. Inerte(loc[h])
  BY <1>2, <1>3 DEF Inerte, LocalBien, Pasos
<1>5. ASSUME NEW x \in {"mkdirMux", "createMux", "openTomar", "releaseSoltar", "truncate"}, loc'[h].pc = x,
             loc'[h].luego = loc[h].luego, x = "truncate" => loc'[h].vuelve = "open"
      PROVE  Inerte(loc'[h])
  BY <1>4, <1>5 DEF Inerte, Pasos
<1>6. ASSUME Mkdir(h) \/ Create(h) PROVE Inerte(loc'[h])
  <2>1. \A x, p : loc' = [loc EXCEPT ![h].pc = x, ![h].padre = p] =>
          loc'[h].pc = x /\ loc'[h].luego = loc[h].luego
    BY DEF Forma, Campos
  <2>2. \/ Responder(h) \/ CreateResponde(h, "fallo")
        \/ \E p : loc' = [loc EXCEPT ![h].pc = "mkdirMux", ![h].padre = p]
        \/ \E p : loc' = [loc EXCEPT ![h].pc = "createMux", ![h].padre = p]
    BY <1>6, Zenon DEF Mkdir, Create
  <2>3. \/ Responder(h) \/ CreateResponde(h, "fallo")
        \/ loc'[h].pc \in {"mkdirMux", "createMux"} /\ loc'[h].luego = loc[h].luego
    BY <2>1, <2>2
  <2>. QED BY <1>5, <2>3, RespondeInerte
<1>7. ASSUME Open(h) \/ Release(h) PROVE Inerte(loc'[h])
  <2>1. \A x, p : loc' = [loc EXCEPT ![h].pc = x, ![h].pos = p] =>
          loc'[h].pc = x /\ loc'[h].luego = loc[h].luego
    BY DEF Forma, Campos
  <2>2. \/ Responder(h) \/ OpenResponde(h, FALSE)
        \/ \E p : loc' = [loc EXCEPT ![h].pc = "openTomar", ![h].pos = p]
        \/ \E p : loc' = [loc EXCEPT ![h].pc = "releaseSoltar", ![h].pos = p]
    BY <1>7, Zenon DEF Open, Release
  <2>3. \/ Responder(h) \/ OpenResponde(h, FALSE)
        \/ loc'[h].pc \in {"openTomar", "releaseSoltar"} /\ loc'[h].luego = loc[h].luego
    BY <2>1, <2>2
  <2>. QED BY <1>5, <2>3, RespondeInerte
<1>8. ASSUME OpenTomar(h) PROVE Inerte(loc'[h])
  <2>1. \/ loc' = [loc EXCEPT ![h].pc = "truncate", ![h].vuelve = "open"]
        \/ \E ok \in BOOLEAN : OpenResponde(h, ok)
    BY <1>8, Zenon DEF OpenTomar
  <2>2. loc' = [loc EXCEPT ![h].pc = "truncate", ![h].vuelve = "open"] =>
          loc'[h].pc = "truncate" /\ loc'[h].luego = loc[h].luego /\ loc'[h].vuelve = "open"
    BY DEF Forma, Campos
  <2>. QED BY <1>5, <2>1, <2>2, RespondeInerte
<1>9. ASSUME CreateFin(h) \/ Utimens(h) \/ ReleaseSoltar(h) PROVE Inerte(loc'[h])
  BY <1>9, RespondeInerte DEF CreateFin, Utimens, ReleaseSoltar
<1>. QED BY <1>1, <1>4, <1>6, <1>7, <1>8, <1>9

\* What a client asks for.
LEMMA PideHebra ==
  ASSUME TInv, Forma, NEW h \in Hilos, Pedir(h)
  PROVE  \/ Inerte(loc'[h])
         \/ loc'[h].pc = "write" /\ loc'[h].luego = "libre" /\ loc'[h].vuelve = "libre"
            /\ loc'[h].desde < loc'[h].tam
<1>. DEFINE Limpio(m) == DOMAIN m = Campos /\ m.luego = "libre" /\ m.vuelve = "libre"
<1>1. Ocioso.vuelve = "libre" /\ Ocioso.luego = "libre" /\ DOMAIN Ocioso = Campos
  BY OciosoForma DEF Ocioso
<1>2. ASSUME NEW op \in Pedidas \ {"write"}, NEW m, Limpio(m), Pide(h, op, m)
      PROVE  Inerte(loc'[h])
  <2>1. loc'[h].pc = op /\ loc'[h].luego = "libre" /\ loc'[h].vuelve = "libre"
    BY <1>2 DEF Pide, Forma, Campos
  <2>. QED BY <2>1 DEF Inerte, Pedidas, Pasos
<1>3. CASE PedirWrite(h)
  <2>1. PICK r, x, y : x \in 0..MaxTam - 1 /\ y \in x + 1..MaxTam
                       /\ Pide(h, "write", [Ocioso EXCEPT !.ruta = r, !.desde = x, !.tam = y])
    BY <1>3, Zenon DEF PedirWrite
  <2>2. PICK m : m = [Ocioso EXCEPT !.ruta = r, !.desde = x, !.tam = y]
    OBVIOUS
  <2>3. Limpio(m) /\ m.desde = x /\ m.tam = y
    BY <1>1, <2>2 DEF Campos
  <2>4. Pide(h, "write", m)
    BY <2>1, <2>2, Zenon
  <2>5. /\ loc'[h].pc = "write" /\ loc'[h].luego = "libre" /\ loc'[h].vuelve = "libre"
        /\ loc'[h].desde = x /\ loc'[h].tam = y
    BY <2>3, <2>4 DEF Pide, Forma, Campos
  <2>6. x < y
    BY <2>1, SupuestoOsada
  <2>. QED BY <2>5, <2>6
<1>4. ASSUME NEW m, NEW r, NEW x, m = [Ocioso EXCEPT !.ruta = r] \/ m = [Ocioso EXCEPT !.ruta = r, !.modo = x]
               \/ m = [Ocioso EXCEPT !.ruta = r, !.tam = x] \/ m = [Ocioso EXCEPT !.ruta = r, !.dest = x]
      PROVE  Limpio(m)
  BY <1>1, <1>4 DEF Campos
<1>. HIDE DEF Limpio
<1>5. ASSUME PedirNuevo(h) \/ PedirRename(h) \/ PedirRmdir(h) \/ PedirUnlink(h) \/ PedirUtimens(h)
             \/ PedirTruncate(h) \/ PedirOpen(h) \/ PedirRelease(h)
      PROVE  \E op \in Pedidas \ {"write"} : \E m : Limpio(m) /\ Pide(h, op, m)
  <2>. DEFINE Una(op) == \E m, r, x :
                 /\ \/ m = [Ocioso EXCEPT !.ruta = r] \/ m = [Ocioso EXCEPT !.ruta = r, !.modo = x]
                    \/ m = [Ocioso EXCEPT !.ruta = r, !.tam = x] \/ m = [Ocioso EXCEPT !.ruta = r, !.dest = x]
                 /\ Pide(h, op, m)
  <2>1. PedirNuevo(h) => Una("create") \/ Una("mkdir")
    <3>1. PedirNuevo(h) => \E op \in {"create", "mkdir"} : Una(op)
      BY Zenon DEF PedirNuevo
    <3>. HIDE DEF Una
    <3>. QED BY <3>1
  <2>2. PedirRename(h) => Una("rename")
    BY Zenon DEF PedirRename
  <2>3. PedirRmdir(h) => Una("rmdir")
    BY Zenon DEF PedirRmdir
  <2>4. PedirUnlink(h) => Una("unlink")
    BY Zenon DEF PedirUnlink
  <2>5. PedirUtimens(h) => Una("utimens")
    BY Zenon DEF PedirUtimens
  <2>6. PedirTruncate(h) => Una("truncate")
    BY Zenon DEF PedirTruncate
  <2>7. PedirOpen(h) => Una("open")
    BY Zenon DEF PedirOpen
  <2>8. PedirRelease(h) => Una("release")
    BY Zenon DEF PedirRelease
  <2>9. \A op : Una(op) => \E m : Limpio(m) /\ Pide(h, op, m)
    BY <1>4, Zenon
  <2>. HIDE DEF Una
  <2>. QED BY <1>5, <2>1, <2>2, <2>3, <2>4, <2>5, <2>6, <2>7, <2>8, <2>9 DEF Pedidas
<1>. QED BY <1>2, <1>3, <1>5 DEF Pedir

\* A client asks, or goes away: the structures do not change.
LEMMA CuadraPedir ==
  ASSUME TInv, Forma, NEW h \in Hilos, Ajenos(h), Pedir(h) \/ Morir(h),
         NEW c, NEW n, Cuadra(tabla, fat, bitmap, loc, c, n)
  PROVE  Cuadra(tabla', fat', bitmap', loc', c, n)
<1>1. UNCHANGED estructuras
  BY DEF Pedir, PedirNuevo, PedirRename, PedirRmdir, PedirUnlink, PedirUtimens, PedirTruncate,
         PedirOpen, PedirWrite, PedirRelease, Pide, Morir
<1>2. Inerte(loc[h])
  <2>1. LocalBien(loc[h])
    BY DeHilo
  <2>. QED BY <2>1 DEF Pedir, Morir, En, Inerte, LocalBien, Pasos
<1>3. CASE Inerte(loc'[h])
  BY <1>1, <1>2, <1>3, InerteHebra, PasoInerte
<1>4. CASE loc'[h].pc = "write" /\ loc'[h].luego = "libre" /\ loc'[h].vuelve = "libre"
           /\ loc'[h].desde < loc'[h].tam
  <2>1. Hebra(h, loc'[h], tabla, fat, c, n) /\ ~Aparta(loc'[h])
    BY <1>4 DEF Hebra, Usado, Puesto, Largo, Dejada, Usa, Estira, Trunco, EnWpos, Deja, Aparta, Arch
  <2>. QED BY <1>1, <1>2, <2>1, InerteHebra, PasoQuieto
<1>5. ASSUME Morir(h) PROVE Inerte(loc'[h])
  <2>1. loc'[h].pc = "muerto" /\ loc'[h].luego = "libre"
    BY <1>5, OciosoForma DEF Morir, Forma, Campos
  <2>. QED BY <2>1 DEF Inerte, Pasos
<1>. QED BY <1>3, <1>4, <1>5, PideHebra

-----------------------------------------------------------------------------
(* The steps that find an entry. *)

\* What a search for a name of the client finds is an entry of the client.
LEMMA Encontrada ==
  ASSUME NEW h \in Hilos, NEW r \in Seq(Nombres), r # <<>>, Mia(h, r)
  PROVE  /\ Vigente(is_parent(r)) => is_parent(r) \in Entradas /\ Suya(h, tabla, is_parent(r))
         /\ \A p, e : "DELETED" \notin e /\ Buscar(Last(r), p, e) # NoEsta =>
              LET i == Buscar(Last(r), p, e) IN
              i \in Entradas /\ Suya(h, tabla, i) /\ tabla[i].estado \in e
<1>1. ASSUME NEW i \in Entradas, tabla[i].nombre = Last(r), tabla[i].estado # "DELETED"
      PROVE  Suya(h, tabla, i)
  BY <1>1 DEF Suya, Mia
<1>2. ASSUME Vigente(is_parent(r))
      PROVE  is_parent(r) \in Entradas /\ Suya(h, tabla, is_parent(r))
  <2>. DEFINE i == is_parent(r)
              S == Hijas(tabla, Last(r), PadreEn(tabla, Front(r)))
  <2>1. i # NoEsta /\ tabla[i].estado # "DELETED"
    BY <1>2 DEF Vigente
  <2>2. i = PadreEn(tabla, r)
    BY Paseos
  <2>3. i = Primera(S)
    BY <2>1, <2>2, PadrePaso
  <2>4. S \in SUBSET Entradas
    BY DEF Hijas
  <2>5. i \in S
    BY <2>1, <2>3, <2>4, PrimeraDe
  <2>. HIDE DEF i
  <2>6. i \in Entradas /\ tabla[i].nombre = Last(r)
    BY <2>5 DEF Hijas
  <2>. QED BY <1>1, <2>1, <2>6 DEF i
<1>3. ASSUME NEW p, NEW e, "DELETED" \notin e, Buscar(Last(r), p, e) # NoEsta
      PROVE  LET i == Buscar(Last(r), p, e) IN
             i \in Entradas /\ Suya(h, tabla, i) /\ tabla[i].estado \in e
  <2>. DEFINE S == {i \in Entradas : tabla[i].nombre = Last(r) /\ tabla[i].padre = p /\ tabla[i].estado \in e}
  <2>1. Buscar(Last(r), p, e) = Primera(S) /\ S \in SUBSET Entradas
    BY DEF Buscar
  <2>2. Primera(S) \in S
    <3>. HIDE DEF S
    <3>. QED BY <1>3, <2>1, PrimeraDe
  <2>. QED BY <1>1, <1>3, <2>1, <2>2
<1>. QED BY <1>2, <1>3

\* A thread that is about to write an entry it has found.
LEMMA HalladaHebra ==
  ASSUME NEW h, NEW l, NEW t, NEW f, NEW c, NEW n, l.luego = "libre",
         \/ l.pc = "createAlta" /\ t[l.pos].estado = "DELETED"
         \/ l.pc \in {"renameAlta", "unlinkBaja"} /\ l.pos \in Entradas /\ Suya(h, t, l.pos)
         \/ l.pc = "rmdirBaja" /\ l.pos \in Entradas /\ Suya(h, t, l.pos) /\ t[l.pos].estado = "DIRECTORY"
  PROVE  /\ Hebra(h, l, t, f, c, n)
         /\ ~Corto(l) /\ ~Aparta(l) /\ ~Estira(l) /\ ~Deja(l)
BY DEF Hebra, Usado, Puesto, Largo, Dejada, Usa, Estira, Trunco, EnWpos, Deja, Aparta, Arch, Corto,
   Escribe

\* The handlers that look for an entry and keep its number.
LEMMA CuadraHalla ==
  ASSUME TInv, Forma, RInv, NEW h \in Hilos, Ajenos(h),
         CreateMux(h) \/ Rmdir(h) \/ Rename(h) \/ Unlink(h),
         NEW c, NEW n, Cuadra(tabla, fat, bitmap, loc, c, n)
  PROVE  Cuadra(tabla', fat', bitmap', loc', c, n)
<1>. DEFINE l == loc[h]
            m == loc'[h]
<1>1. UNCHANGED estructuras
  BY Zenon DEF CreateMux, Rmdir, Rename, Unlink
<1>2. l.pc \in {"createMux", "rmdir", "rename", "unlink"}
  BY DEF CreateMux, Rmdir, Rename, Unlink, En
<1>3. LocalBien(l) /\ l.ruta \in Seq(Nombres) /\ l.ruta # <<>> /\ Mia(h, l.ruta) /\ l.luego = "libre"
  BY <1>2, DeHilo DEF LocalBien, Locales, RInv, Pedido
<1>4. Inerte(l)
  BY <1>2, <1>3 DEF Inerte, Pasos
<1>5. ASSUME m.luego = "libre",
             \/ m.pc = "createAlta" /\ tabla[m.pos].estado = "DELETED"
             \/ m.pc \in {"renameAlta", "unlinkBaja"} /\ m.pos \in Entradas /\ Suya(h, tabla, m.pos)
             \/ m.pc = "rmdirBaja" /\ m.pos \in Entradas /\ Suya(h, tabla, m.pos)
                /\ tabla[m.pos].estado = "DIRECTORY"
      PROVE  Cuadra(tabla', fat', bitmap', loc', c, n)
  <2>1. Hebra(h, m, tabla, fat, c, n) /\ ~Aparta(m)
    BY <1>5, HalladaHebra
  <2>. QED BY <1>1, <1>4, <2>1, InerteHebra, PasoQuieto
<1>6. ASSUME Inerte(m) PROVE Cuadra(tabla', fat', bitmap', loc', c, n)
  BY <1>1, <1>4, <1>6, InerteHebra, PasoInerte
<1>7. CASE CreateMux(h)
  <2>. DEFINE S == {i \in Entradas : tabla[i].estado = "DELETED"}
              De2(i, b) == loc' = [loc EXCEPT ![h].pc = "createAlta", ![h].pos = i, ![h].blk = b]
  <2>1. CreateResponde(h, "fallo") \/ (Primera(S) # NoEsta /\ \E b : De2(Primera(S), b))
    BY <1>7, Zenon DEF CreateMux
  <2>2. \A i, b : De2(i, b) => m.pc = "createAlta" /\ m.pos = i /\ m.luego = l.luego
    BY DEF Forma, Campos
  <2>3. Primera(S) # NoEsta => tabla[Primera(S)].estado = "DELETED"
    BY PrimeraDe
  <2>. HIDE DEF De2, m, l
  <2>. QED BY <1>3, <1>5, <1>6, <2>1, <2>2, <2>3, RespondeInerte DEF m
<1>8. CASE Rmdir(h)
  <2>. DEFINE i == Buscar(Last(l.ruta), PadreDe(l.ruta), {"DIRECTORY"})
  <2>1. Responder(h) \/ (i # NoEsta /\ loc' = [loc EXCEPT ![h].pc = "rmdirBaja", ![h].pos = i])
    BY <1>8, Zenon DEF Rmdir
  <2>2. i # NoEsta => i \in Entradas /\ Suya(h, tabla, i) /\ tabla[i].estado = "DIRECTORY"
    BY <1>3, Encontrada
  <2>. HIDE DEF i
  <2>3. loc' = [loc EXCEPT ![h].pc = "rmdirBaja", ![h].pos = i] =>
          m.pc = "rmdirBaja" /\ m.pos = i /\ m.luego = l.luego
    BY DEF Forma, Campos
  <2>. QED BY <1>3, <1>5, <1>6, <2>1, <2>2, <2>3, RespondeInerte
<1>9. CASE Rename(h)
  <2>. DEFINE i == is_parent(l.ruta)
  <2>1. \/ Responder(h)
        \/ Vigente(i) /\ \E p : loc' = [loc EXCEPT ![h].pc = "renameAlta", ![h].pos = i, ![h].padre = p]
    BY <1>9, Zenon DEF Rename
  <2>2. Vigente(i) => i \in Entradas /\ Suya(h, tabla, i)
    BY <1>3, Encontrada
  <2>. HIDE DEF i
  <2>3. \A p : loc' = [loc EXCEPT ![h].pc = "renameAlta", ![h].pos = i, ![h].padre = p] =>
          m.pc = "renameAlta" /\ m.pos = i /\ m.luego = l.luego
    BY DEF Forma, Campos
  <2>4. Responder(h) \/ (Vigente(i) /\ m.pc = "renameAlta" /\ m.pos = i /\ m.luego = l.luego)
    BY <2>1, <2>3, Zenon
  <2>. QED BY <1>3, <1>5, <1>6, <2>2, <2>4, RespondeInerte
<1>10. CASE Unlink(h)
  <2>. DEFINE i == is_parent(l.ruta)
  <2>1. Responder(h) \/ (Vigente(i) /\ loc' = [loc EXCEPT ![h].pc = "unlinkBaja", ![h].pos = i])
    BY <1>10, Zenon DEF Unlink
  <2>2. Vigente(i) => i \in Entradas /\ Suya(h, tabla, i)
    BY <1>3, Encontrada
  <2>. HIDE DEF i
  <2>3. loc' = [loc EXCEPT ![h].pc = "unlinkBaja", ![h].pos = i] =>
          m.pc = "unlinkBaja" /\ m.pos = i /\ m.luego = l.luego
    BY DEF Forma, Campos
  <2>. QED BY <1>3, <1>5, <1>6, <2>1, <2>2, <2>3, RespondeInerte
<1>. QED BY <1>7, <1>8, <1>9, <1>10

-----------------------------------------------------------------------------
(* The blocks of a file. *)

\* The quotient of a by b is the only q with q * b <= a < (q + 1) * b.
LEMMA Division ==
  ASSUME NEW a \in Nat, NEW b \in Nat \ {0}
  PROVE  /\ a \div b \in Nat /\ (a \div b) * b <= a /\ a < (a \div b + 1) * b
         /\ \A q \in Int : q * b <= a /\ a < (q + 1) * b => q = a \div b
<1>1. a = b * (a \div b) + (a % b) /\ a \div b \in Int /\ a % b \in Int /\ 0 <= a % b /\ a % b < b
  OBVIOUS
<1>. DEFINE d == a \div b
            m == a % b
<1>. HIDE DEF d, m
<1>2. a = b * d + m /\ d \in Int /\ m \in Int /\ 0 <= m /\ m < b
  BY <1>1 DEF d, m
<1>3. d * b = b * d /\ (d + 1) * b = b * d + b
  BY <1>2
<1>4. d >= 0
  BY <1>2, <1>3
<1>5. ASSUME NEW q \in Int, q * b <= a, a < (q + 1) * b PROVE q = d
  BY <1>2, <1>3, <1>5
<1>. QED BY <1>2, <1>3, <1>4, <1>5 DEF d

\* A quotient is as its dividend.
LEMMA DivisionCrece ==
  ASSUME NEW a \in Nat, NEW c \in Nat, a <= c, NEW b \in Nat \ {0}
  PROVE  a \div b <= c \div b
<1>. DEFINE x == a \div b
            y == c \div b
<1>1. x \in Nat /\ y \in Nat /\ x * b <= a /\ c < (y + 1) * b
  BY Division
<1>. HIDE DEF x, y
<1>2. x < y + 1
  <2>1. x * b < (y + 1) * b
    BY <1>1
  <2>. QED BY <1>1, <2>1
<1>3. x <= y
  BY <1>1, <1>2
<1>. QED BY <1>3 DEF x, y

\* A file has a block at least, and those its bytes need.
LEMMA Bastantes ==
  /\ \A t \in Nat : BloquesDe(t) \in Nat /\ BloquesDe(t) >= 1
  /\ \A s, t \in Nat : s <= t => BloquesDe(s) <= BloquesDe(t)
  /\ \A d, t \in Nat : d < t =>
       /\ d \div TamBloque \in Nat /\ (t - 1) \div TamBloque \in Nat
       /\ d \div TamBloque <= (t - 1) \div TamBloque
       /\ (t - 1) \div TamBloque < BloquesDe(t)
<1>1. TamBloque \in Nat \ {0}
  BY SupuestoOsada
<1>2. ASSUME NEW t \in Nat, t # 0 PROVE BloquesDe(t) = (t - 1) \div TamBloque + 1
  <2>. DEFINE q == (t - 1) \div TamBloque
  <2>1. t - 1 \in Nat /\ t + TamBloque - 1 \in Nat
    BY <1>1, <1>2
  <2>2. q \in Nat /\ q * TamBloque <= t - 1 /\ t - 1 < (q + 1) * TamBloque
    BY <1>1, <2>1, Division
  <2>. HIDE DEF q
  <2>3. (q + 1) * TamBloque = q * TamBloque + TamBloque /\ (q + 2) * TamBloque = q * TamBloque + TamBloque + TamBloque
    BY <1>1, <2>2
  <2>4. PICK r \in Int : r = q + 1
    BY <2>2
  <2>5. r * TamBloque <= t + TamBloque - 1 /\ t + TamBloque - 1 < (r + 1) * TamBloque
    <3>1. (q + 1) + 1 = q + 2
      BY <2>2
    <3>2. r * TamBloque = q * TamBloque + TamBloque /\ (r + 1) * TamBloque = q * TamBloque + TamBloque + TamBloque
      BY <2>3, <2>4, <3>1
    <3>3. PICK p \in Int : p = q * TamBloque
      BY <1>1, <2>2
    <3>. QED BY <1>1, <2>2, <2>3, <3>2, <3>3
  <2>6. r = (t + TamBloque - 1) \div TamBloque
    BY <1>1, <2>1, <2>5, Division
  <2>. QED BY <1>2, <2>4, <2>6 DEF BloquesDe, q
<1>3. \A t \in Nat : t # 0 => t - 1 \in Nat /\ (t - 1) \div TamBloque \in Nat
  BY <1>1, Division
<1>4. BloquesDe(0) = 1
  BY DEF BloquesDe
<1>5. ASSUME NEW t \in Nat PROVE BloquesDe(t) \in Nat /\ BloquesDe(t) >= 1
  <2>. DEFINE q == (t - 1) \div TamBloque
  <2>1. t # 0 => q \in Nat /\ BloquesDe(t) = q + 1
    BY <1>2, <1>3
  <2>. HIDE DEF q
  <2>. QED BY <1>4, <2>1
<1>6. ASSUME NEW s \in Nat, NEW t \in Nat, s <= t PROVE BloquesDe(s) <= BloquesDe(t)
  <2>1. CASE s = 0
    BY <1>4, <1>5, <2>1
  <2>2. CASE s # 0
    <3>1. s - 1 \in Nat /\ t - 1 \in Nat /\ s - 1 <= t - 1 /\ t # 0
      BY <1>6, <2>2
    <3>2. (s - 1) \div TamBloque <= (t - 1) \div TamBloque
      BY <1>1, <3>1, DivisionCrece
    <3>. DEFINE p == (s - 1) \div TamBloque
                q == (t - 1) \div TamBloque
    <3>3. p \in Nat /\ q \in Nat /\ BloquesDe(s) = p + 1 /\ BloquesDe(t) = q + 1
      BY <1>2, <1>3, <2>2, <3>1
    <3>. HIDE DEF p, q
    <3>4. p <= q
      BY <3>2 DEF p, q
    <3>. QED BY <3>3, <3>4
  <2>. QED BY <2>1, <2>2
<1>7. ASSUME NEW d \in Nat, NEW t \in Nat, d < t
      PROVE  /\ d \div TamBloque \in Nat /\ (t - 1) \div TamBloque \in Nat
             /\ d \div TamBloque <= (t - 1) \div TamBloque
             /\ (t - 1) \div TamBloque < BloquesDe(t)
  <2>1. t # 0 /\ t - 1 \in Nat /\ d <= t - 1
    BY <1>7
  <2>2. d \div TamBloque \in Nat /\ d \div TamBloque <= (t - 1) \div TamBloque
    BY <1>1, <2>1, Division, DivisionCrece
  <2>. DEFINE q == (t - 1) \div TamBloque
  <2>3. q \in Nat /\ BloquesDe(t) = q + 1
    BY <1>2, <1>3, <2>1
  <2>4. q < BloquesDe(t)
    <3>. HIDE DEF q
    <3>. QED BY <2>3
  <2>. QED BY <2>2, <2>3, <2>4
<1>. QED BY <1>5, <1>6, <1>7

-----------------------------------------------------------------------------
(* The walks along a chain. *)

\* A thread that changes a chain is using its entry.
LEMMA EstiraUsa ==
  ASSUME NEW l, Estira(l) \/ Trunco(l)
  PROVE  Usa(l) /\ Arch(l) = l.pos /\ ~EnWpos(l) /\ ~Deja(l)
BY DEF Usa, Arch, EnWpos, Estira, Trunco, Deja

\* Nobody else changes the chain of an entry that is of h.
LEMMA NadieEstira ==
  ASSUME Apartados, NEW c, NEW n, Cuadra(tabla, fat, bitmap, loc, c, n),
         NEW h \in Hilos, NEW i, Suya(h, tabla, i), NEW g \in Hilos \ {h}
  PROVE  ~((Estira(loc[g]) \/ Corto(loc[g])) /\ loc[g].pos = i)
<1>1. Corto(loc[g]) => Estira(loc[g])
  BY DEF Corto, Estira
<1>2. Usa(loc[g]) => Suya(g, tabla, Arch(loc[g]))
  BY DEF Cuadra, Hebra, Usado
<1>3. ~(Suya(g, tabla, i) /\ Suya(h, tabla, i))
  BY NadieMas
<1>. QED BY <1>1, <1>2, <1>3, EstiraUsa

\* Nobody else is deleting a chain.
LEMMA NadieDeja ==
  ASSUME RInv, NEW h \in Hilos, NEW g \in Hilos \ {h}
  PROVE  ~Deja(loc[g])
BY DEF RInv, Pedido, Borra, Deja, Solo

\* The blocks that a walk along a chain finds are its blocks.
LEMMA PorLaCadena ==
  ASSUME TInv, NEW i \in Entradas, NEW c, NEW n, FilaBien(i, tabla, fat, c, n, loc),
         n[i] > 0, tabla[i].primero = c[i][0]
  PROVE  /\ \A k \in Nat : k < n[i] => Bloque(tabla[i].primero, k) = c[i][k] /\ c[i][k] # FIN
         /\ (\A h \in Hilos : ~(Corto(loc[h]) /\ loc[h].pos = i)) =>
              \A k \in Nat : k >= n[i] => Bloque(tabla[i].primero, k) = FIN
<1>. DEFINE b == tabla[i].primero
            g == [k \in Nat |-> Bloque(b, k)]
            N == n[i]
            d == c[i]
<1>1. b \in Bloques \cup {FIN} /\ FIN \notin Bloques /\ fat \in Fats
  BY Fichas, LibreBien DEF Entrada, TInv, TypeOK
<1>2. /\ g[0] = b
      /\ \A k \in Nat : g[k] = Bloque(b, k) /\ g[k + 1] = IF g[k] = FIN THEN FIN ELSE fat[g[k]]
  BY <1>1, Paseos, BloquePaso
<1>3. /\ N \in Nat /\ N > 0 /\ b = d[0]
      /\ \A k \in Nat : k < N => d[k] \in Bloques
      /\ \A k \in Nat : k + 1 < N => fat[d[k]] = d[k + 1]
      /\ (\A h \in Hilos : ~(Corto(loc[h]) /\ loc[h].pos = i)) => fat[d[N - 1]] = FIN
  BY DEF FilaBien
<1>. HIDE DEF b, g, N, d
<1>4. \A k \in Nat : k < N => g[k] = d[k]
  <2>. DEFINE T == {k \in Nat : k < N => g[k] = d[k]}
  <2>1. 0 \in T
    BY <1>2, <1>3
  <2>2. ASSUME NEW k \in T PROVE k + 1 \in T
    <3>1. CASE k + 1 < N
      <4>1. k < N /\ g[k] = d[k] /\ d[k] \in Bloques
        BY <1>3, <2>2, <3>1
      <4>. QED BY <1>1, <1>2, <1>3, <3>1, <4>1
    <3>2. CASE ~(k + 1 < N)
      BY <3>2
    <3>. QED BY <3>1, <3>2
  <2>3. T = Nat
    <3>. HIDE DEF T
    <3>1. T \in SUBSET Nat
      BY DEF T
    <3>. QED BY <2>1, <2>2, <3>1, Todos
  <2>. QED BY <2>3
<1>5. ASSUME \A h \in Hilos : ~(Corto(loc[h]) /\ loc[h].pos = i)
      PROVE  \A k \in Nat : k >= N => g[k] = FIN
  <2>1. g[N] = FIN
    <3>1. N - 1 \in Nat /\ N - 1 < N /\ (N - 1) + 1 = N
      BY <1>3
    <3>2. g[N - 1] = d[N - 1] /\ d[N - 1] \in Bloques /\ fat[d[N - 1]] = FIN
      BY <1>3, <1>4, <1>5, <3>1
    <3>3. g[(N - 1) + 1] = FIN
      BY <1>1, <1>2, <3>1, <3>2
    <3>. QED BY <3>1, <3>3
  <2>. DEFINE T == {k \in Nat : k >= N => g[k] = FIN}
  <2>2. 0 \in T
    BY <1>3
  <2>3. ASSUME NEW k \in T PROVE k + 1 \in T
    <3>1. CASE k + 1 = N
      BY <2>1, <3>1
    <3>2. CASE k + 1 # N
      BY <1>2, <1>3, <2>3, <3>2
    <3>. QED BY <3>1, <3>2
  <2>4. T = Nat
    <3>. HIDE DEF T
    <3>1. T \in SUBSET Nat
      BY DEF T
    <3>. QED BY <2>2, <2>3, <3>1, Todos
  <2>. QED BY <2>4
<1>6. \A k \in Nat : k < N => g[k] = d[k] /\ d[k] # FIN
  BY <1>1, <1>3, <1>4
<1>7. \A k \in Nat : g[k] = Bloque(tabla[i].primero, k)
  BY <1>2 DEF b
<1>8. (\A h \in Hilos : ~(Corto(loc[h]) /\ loc[h].pos = i)) => \A k \in Nat : k >= N => g[k] = FIN
  BY <1>5
<1>. QED BY <1>6, <1>7, <1>8 DEF N, d

\* A walk finds the last block of a chain.
LEMMA AlUltimo ==
  ASSUME TInv, NEW i \in Entradas, NEW c, NEW n, FilaBien(i, tabla, fat, c, n, loc),
         n[i] > 0, tabla[i].primero = c[i][0],
         \A h \in Hilos : ~(Corto(loc[h]) /\ loc[h].pos = i), NEW k \in Ultimo(tabla[i].primero)
  PROVE  k = n[i] - 1 /\ k \in Nat /\ n[i] \in Nat
<1>1. k \in Nat /\ Bloque(tabla[i].primero, k) # FIN /\ Bloque(tabla[i].primero, k + 1) = FIN
  BY SupuestoOsada DEF Ultimo
<1>2. n[i] \in Nat
  BY DEF FilaBien
<1>3. ~(k >= n[i])
  BY <1>1, PorLaCadena
<1>4. ~(k + 1 < n[i])
  <2>1. k + 1 \in Nat
    BY <1>1
  <2>. QED BY <1>1, <2>1, PorLaCadena
<1>. QED BY <1>1, <1>2, <1>3, <1>4

-----------------------------------------------------------------------------
(* The steps that read the chains. *)

\* m goes on with what l is doing.
Prosigue(m, l) ==
  m.pos = l.pos /\ m.wpos = l.wpos /\ m.tam = l.tam /\ m.desde = l.desde /\ m.vuelve = l.vuelve

\* A thread that goes on changing the chain of its entry goes on using that entry.
LEMMA EstiraUsado ==
  ASSUME NEW h, NEW l, NEW m, NEW t, NEW u, Usado(h, l, t), Prosigue(m, l), Suya(h, u, l.pos),
         Estira(l) \/ Trunco(l), Estira(m) \/ Trunco(m), Estira(m) \/ ~Estira(l)
  PROVE  Usado(h, m, u)
<1>1. Usa(l) /\ Arch(l) = l.pos /\ Usa(m) /\ Arch(m) = m.pos
  BY EstiraUsa
<1>2. m.pc \notin {"rmdirBaja", "createAlta", "truncate"}
  BY DEF Estira, Trunco
<1>3. Escribe(m) => Escribe(l)
  BY DEF Escribe, Estira, Trunco, Prosigue
<1>. QED BY <1>1, <1>2, <1>3 DEF Usado, Prosigue

\* What follows an answer or a change of place.
LEMMA IrCambia ==
  ASSUME Forma, NEW h \in Hilos, NEW p, Ir(h, p)
  PROVE  /\ loc'[h].pc = p /\ Prosigue(loc'[h], loc[h]) /\ loc'[h].luego = loc[h].luego
         /\ loc'[h].blk = loc[h].blk /\ loc'[h].ant = loc[h].ant /\ loc'[h].abm = loc[h].abm
         /\ loc'[h].ruta = loc[h].ruta
BY DEF Ir, Forma, Campos, Prosigue

\* What a thread that starts its copies has afterwards.
LEMMA CopiandoCambia ==
  ASSUME Forma, NEW h \in Hilos, NEW x, NEW p, Copiando(h, x, p)
  PROVE  /\ loc'[h].pc = "copiar" /\ loc'[h].luego = p /\ Prosigue(loc'[h], loc[h])
         /\ loc'[h].blk = loc[h].blk /\ loc'[h].ant = loc[h].ant /\ loc'[h].abm = loc[h].abm
BY DEF Copiando, Forma, Campos, Prosigue

\* What a thread that goes on with a walk of unlink has afterwards.
LEMMA SigueCambia ==
  ASSUME Forma, NEW h \in Hilos, NEW b, UnlinkSigue(h, b)
  PROVE  /\ loc'[h].pc = IF b = FIN THEN "copiar" ELSE "unlinkLimpiar"
         /\ loc'[h].luego = loc[h].luego /\ Prosigue(loc'[h], loc[h]) /\ loc'[h].blk = b
BY DEF UnlinkSigue, Forma, Campos, Prosigue

\* A thread that deletes a chain.
LEMMA DejaHebra ==
  ASSUME NEW h, NEW l, NEW t, NEW f, NEW c, NEW n, Deja(l), l.luego = "libre", Dejada(l, t, f, c, n)
  PROVE  Hebra(h, l, t, f, c, n) /\ ~Corto(l) /\ ~Aparta(l) /\ ~Estira(l)
<1>1. ~Corto(l) /\ ~Aparta(l) /\ ~Estira(l) /\ ~Trunco(l) /\ ~Escribe(l) /\ ~Usa(l)
  BY DEF Deja, Corto, Aparta, Estira, Trunco, Escribe, Usa, EnWpos
<1>2. Usado(h, l, t) /\ Puesto(l, f, c, n) /\ Largo(l, t, c, n)
  BY <1>1 DEF Deja, Usado, Puesto, Largo
<1>. QED BY <1>1, <1>2 DEF Hebra

\* The walk of osada_unlink.
LEMMA CuadraSigue ==
  ASSUME TInv, Forma, NEW h \in Hilos, Ajenos(h), UnlinkPrimero(h) \/ UnlinkSeguir(h),
         NEW c, NEW n, Cuadra(tabla, fat, bitmap, loc, c, n)
  PROVE  Cuadra(tabla', fat', bitmap', loc', c, n)
<1>. DEFINE l == loc[h]
            m == loc'[h]
<1>1. UNCHANGED estructuras
  BY DEF UnlinkPrimero, UnlinkSeguir
<1>2. l.pc \in {"unlinkPrimero", "unlinkSeguir"} /\ LocalBien(l)
  BY DeHilo DEF UnlinkPrimero, UnlinkSeguir, En
<1>3. l.luego = "libre" /\ Deja(l) /\ ~Corto(l) /\ ~Aparta(l) /\ ~Estira(l)
  BY <1>2 DEF LocalBien, Deja, Corto, Aparta, Estira
<1>4. /\ Dejada(l, tabla, fat, c, n) /\ l.pos \in Entradas /\ FilaBien(l.pos, tabla, fat, c, n, loc)
      /\ tabla[l.pos].estado = "DELETED"
  BY <1>3 DEF Cuadra, Hebra, Dejada
<1>. DEFINE b == IF l.pc = "unlinkPrimero" THEN tabla[l.pos].primero ELSE fat[l.blk]
<1>5. b = IF n[l.pos] > 0 THEN c[l.pos][0] ELSE FIN
  BY <1>2, <1>3, <1>4 DEF Dejada
<1>6. UnlinkSigue(h, b)
  BY <1>2 DEF UnlinkPrimero, UnlinkSeguir, En
<1>. HIDE DEF b
<1>7. /\ m.pc = IF b = FIN THEN "copiar" ELSE "unlinkLimpiar"
      /\ m.luego = "libre" /\ m.pos = l.pos /\ m.blk = b
  BY <1>3, <1>6, SigueCambia DEF Prosigue
<1>8. n[l.pos] \in Nat /\ (n[l.pos] > 0 => c[l.pos][0] # FIN)
  <2>1. FIN \notin Bloques
    BY LibreBien
  <2>. QED BY <1>4, <2>1 DEF FilaBien
<1>9. CASE b = FIN
  <2>1. Inerte(m)
    BY <1>7, <1>9 DEF Inerte, Pasos
  <2>2. n[l.pos] = 0
    BY <1>5, <1>8, <1>9
  <2>. QED BY <1>1, <1>3, <2>1, <2>2, InerteHebra, PasoQuieto
<1>10. CASE b # FIN
  <2>1. n[l.pos] > 0 /\ b = c[l.pos][0] /\ m.pc = "unlinkLimpiar"
    BY <1>5, <1>7, <1>10
  <2>2. Deja(m) /\ Dejada(m, tabla, fat, c, n)
    BY <1>4, <1>7, <2>1 DEF Deja, Dejada
  <2>3. Hebra(h, m, tabla, fat, c, n) /\ ~Aparta(m)
    BY <1>7, <2>2, DejaHebra
  <2>. QED BY <1>1, <1>3, <1>7, <2>2, <2>3, PasoQuieto
<1>. QED BY <1>9, <1>10

\* A file that nobody is changing has the blocks of its size.
LEMMA Completo ==
  ASSUME Apartados, NEW c, NEW n, Cuadra(tabla, fat, bitmap, loc, c, n),
         NEW h \in Hilos, ~Estira(loc[h]), NEW i \in Entradas, Suya(h, tabla, i),
         tabla[i].estado = "REGULAR"
  PROVE  n[i] \in Nat /\ n[i] >= BloquesDe(tabla[i].tam)
<1>1. FilaBien(i, tabla, fat, c, n, loc)
  BY DEF Cuadra
<1>2. Ninguno(loc, i)
  BY NadieEstira DEF Ninguno
<1>. QED BY <1>1, <1>2 DEF FilaBien

\* The sizes are numbers.
LEMMA Tamanios ==
  ASSUME TInv
  PROVE  /\ \A i \in Entradas : tabla[i].tam \in Nat /\ BloquesDe(tabla[i].tam) \in Nat
         /\ \A h \in Hilos : /\ loc[h].tam \in Nat /\ BloquesDe(loc[h].tam) \in Nat
                             /\ loc[h].desde \in Nat /\ loc[h].abm \in Int
                             /\ BloquesDe(loc[h].tam) >= 1
<1>1. \A i \in Entradas : tabla[i].tam \in Nat
  BY Fichas, SupuestoOsada DEF Entrada
<1>2. \A h \in Hilos : loc[h].tam \in Nat /\ loc[h].desde \in Nat /\ loc[h].abm \in Int
  <2>1. \A h \in Hilos : loc[h] \in Locales
    BY DeHilo
  <2>. QED BY <2>1, SupuestoOsada DEF Locales
<1>. QED BY <1>1, <1>2, Bastantes

\* osada_write finds its file.
LEMMA CuadraWrite ==
  ASSUME Apartados, TInv, Forma, RInv, NEW h \in Hilos, Ajenos(h), Write(h),
         NEW c, NEW n, Cuadra(tabla, fat, bitmap, loc, c, n)
  PROVE  Cuadra(tabla', fat', bitmap', loc', c, n)
<1>. DEFINE l == loc[h]
            m == loc'[h]
            i == is_parent(l.ruta)
<1>1. UNCHANGED estructuras /\ l.pc = "write"
  BY DEF Write, En
<1>2. LocalBien(l) /\ l.ruta \in Seq(Nombres) /\ l.ruta # <<>> /\ Mia(h, l.ruta) /\ l.luego = "libre"
  BY <1>1, DeHilo DEF LocalBien, Locales, RInv, Pedido
<1>3. ~Corto(l) /\ ~Aparta(l) /\ ~Estira(l) /\ ~Deja(l)
  BY <1>1 DEF Corto, Aparta, Estira, Deja
<1>4. Vigente(i) => i \in Entradas /\ Suya(h, tabla, i)
  BY <1>2, Encontrada
<1>5. i = PadreEn(tabla, l.ruta)
  BY Paseos
<1>6. Hebra(h, l, tabla, fat, c, n) /\ l.desde < l.tam
  BY <1>1 DEF Cuadra, Hebra, Usado, Escribe
<1>7. CASE Responder(h)
  BY <1>1, <1>3, <1>7, RespondeInerte, PasoInerte
<1>. HIDE DEF i
<1>8. CASE Vigente(i) /\ loc' = [loc EXCEPT ![h].pc = "truncate", ![h].wpos = i, ![h].vuelve = "write"]
  <2>1. /\ m.pc = "truncate" /\ m.wpos = i /\ m.vuelve = "write" /\ m.luego = "libre"
        /\ m.ruta = l.ruta /\ m.desde = l.desde /\ m.tam = l.tam
    BY <1>2, <1>8 DEF Forma, Campos
  <2>2. ~Estira(m) /\ ~Trunco(m) /\ ~Aparta(m) /\ ~Deja(m) /\ EnWpos(m)
    BY <2>1 DEF Estira, Trunco, Aparta, Deja, EnWpos
  <2>3. Usado(h, m, tabla)
    BY <1>4, <1>5, <1>6, <1>8, <2>1, <2>2 DEF Usado, Arch
  <2>4. Puesto(m, fat, c, n) /\ Largo(m, tabla, c, n) /\ Dejada(m, tabla, fat, c, n)
    BY <2>1, <2>2 DEF Puesto, Largo, Dejada
  <2>5. Hebra(h, m, tabla, fat, c, n)
    BY <2>3, <2>4 DEF Hebra
  <2>. QED BY <1>1, <1>3, <2>2, <2>5, PasoQuieto
<1>9. CASE /\ Vigente(i) /\ ~(tabla[i].tam < l.tam)
           /\ loc' = [loc EXCEPT ![h].pc = "writeIr", ![h].wpos = i]
  <2>1. /\ m.pc = "writeIr" /\ m.wpos = i /\ m.luego = "libre" /\ m.desde = l.desde /\ m.tam = l.tam
    BY <1>2, <1>9 DEF Forma, Campos
  <2>2. ~Estira(m) /\ ~Trunco(m) /\ ~Aparta(m) /\ ~Deja(m) /\ EnWpos(m)
    BY <2>1 DEF Estira, Trunco, Aparta, Deja, EnWpos
  <2>3. Usado(h, m, tabla)
    BY <1>4, <1>6, <1>9, <2>1, <2>2 DEF Usado, Arch
  <2>4. tabla[i].estado = "REGULAR" => n[i] >= BloquesDe(l.tam)
    <3>1. ASSUME tabla[i].estado = "REGULAR" PROVE n[i] >= BloquesDe(l.tam)
      <4>1. i \in Entradas /\ n[i] \in Nat /\ n[i] >= BloquesDe(tabla[i].tam)
        BY <1>3, <1>4, <1>9, <3>1, Completo
      <4>2. l.tam <= tabla[i].tam /\ l.tam \in Nat /\ tabla[i].tam \in Nat
        BY <1>9, <4>1, Tamanios
      <4>3. BloquesDe(l.tam) <= BloquesDe(tabla[i].tam) /\ BloquesDe(l.tam) \in Nat
            /\ BloquesDe(tabla[i].tam) \in Nat
        BY <4>2, Bastantes
      <4>. QED BY <4>1, <4>3
    <3>. QED BY <3>1
  <2>5. Puesto(m, fat, c, n) /\ Largo(m, tabla, c, n) /\ Dejada(m, tabla, fat, c, n)
    BY <2>1, <2>2, <2>4 DEF Puesto, Largo, Dejada
  <2>6. Hebra(h, m, tabla, fat, c, n)
    BY <2>3, <2>5 DEF Hebra
  <2>. QED BY <1>1, <1>3, <2>2, <2>6, PasoQuieto
<1>10. \/ Responder(h)
       \/ Vigente(i) /\ loc' = [loc EXCEPT ![h].pc = "truncate", ![h].wpos = i, ![h].vuelve = "write"]
       \/ /\ Vigente(i) /\ ~(tabla[i].tam < l.tam)
          /\ loc' = [loc EXCEPT ![h].pc = "writeIr", ![h].wpos = i]
  BY Zenon DEF Write, i
<1>. QED BY <1>7, <1>8, <1>9, <1>10

\* A walk that begins past the end stays there.
LEMMA SinCadena == ASSUME TInv PROVE \A k \in Nat : Bloque(FIN, k) = FIN
<1>. DEFINE T == {k \in Nat : Bloque(FIN, k) = FIN}
<1>1. fat \in Fats
  BY DEF TInv, TypeOK
<1>2. Bloque(FIN, 0) = FIN /\ \A k \in Nat : Bloque(FIN, k) = FIN => Bloque(FIN, k + 1) = FIN
  BY <1>1, Paseos, BloquePaso
<1>3. 0 \in T /\ \A k \in T : k + 1 \in T
  BY <1>2
<1>4. T = Nat
  <2>. HIDE DEF T
  <2>1. T \in SUBSET Nat
    BY DEF T
  <2>. QED BY <1>3, <2>1, Todos
<1>. QED BY <1>4

\* A step that changes nothing but the server.
LEMMA CuadraNada ==
  ASSUME UNCHANGED estructuras, UNCHANGED loc, NEW c, NEW n, Cuadra(tabla, fat, bitmap, loc, c, n)
  PROVE  Cuadra(tabla', fat', bitmap', loc', c, n)
<1>1. tabla' = tabla /\ fat' = fat /\ bitmap' = bitmap /\ loc' = loc
  BY DEF estructuras
<1>. QED BY <1>1, Zenon

\* The walk to the first block to be written.
LEMMA CuadraWriteIr ==
  ASSUME Apartados, TInv, Forma, NEW h \in Hilos, Ajenos(h), WriteIr(h),
         NEW c, NEW n, Cuadra(tabla, fat, bitmap, loc, c, n)
  PROVE  Cuadra(tabla', fat', bitmap', loc', c, n)
<1>. DEFINE l == loc[h]
            m == loc'[h]
            i == l.wpos
            p == l.desde \div TamBloque
            u == (l.tam - 1) \div TamBloque
            b == Bloque(tabla[i].primero, p)
<1>1. UNCHANGED estructuras /\ l.pc = "writeIr"
  BY DEF WriteIr, En
<1>2. LocalBien(l) /\ l.luego = "libre" /\ i \in Entradas
  BY <1>1, DeHilo DEF LocalBien
<1>3. ~Corto(l) /\ ~Aparta(l) /\ ~Estira(l) /\ ~Deja(l) /\ Usa(l) /\ Arch(l) = i
  BY <1>1 DEF Corto, Aparta, Estira, Deja, Usa, EnWpos, Arch
<1>4. /\ Hebra(h, l, tabla, fat, c, n) /\ l.desde < l.tam /\ Suya(h, tabla, i)
      /\ tabla[i].estado = "REGULAR" => n[i] >= BloquesDe(l.tam)
  BY <1>1, <1>3 DEF Cuadra, Hebra, Usado, Largo, Escribe
<1>5. CASE UNCHANGED loc
  BY <1>1, <1>5, CuadraNada
<1>6. CASE loc' # loc
  <2>1. b # FIN /\ loc' = [loc EXCEPT ![h].pc = "escribir", ![h].blk = b, ![h].abm = u - p]
    BY <1>6 DEF WriteIr
  <2>2. /\ l.desde \in Nat /\ l.tam \in Nat /\ p \in Nat /\ u \in Nat /\ p <= u
        /\ u < BloquesDe(l.tam) /\ BloquesDe(l.tam) \in Nat
    BY <1>4, Tamanios, Bastantes
  <2>. HIDE DEF p, u
  <2>3. FilaBien(i, tabla, fat, c, n, loc)
    BY <1>2 DEF Cuadra
  <2>4. tabla[i].estado = "REGULAR"
    <3>1. tabla[i].primero # FIN
      BY <2>1, <2>2, SinCadena
    <3>2. tabla[i].estado \in {"DELETED", "REGULAR", "DIRECTORY"} /\ tabla[i].estado # "DELETED"
      BY <1>2, <1>4, Fichas DEF Entrada, Suya
    <3>. QED BY <2>3, <3>1, <3>2 DEF FilaBien
  <2>5. n[i] \in Nat /\ n[i] > 0 /\ c[i][0] = tabla[i].primero /\ u < n[i]
    <3>1. n[i] \in Nat /\ n[i] > 0 /\ c[i][0] = tabla[i].primero
      BY <2>3, <2>4 DEF FilaBien
    <3>2. n[i] >= BloquesDe(l.tam)
      BY <1>4, <2>4
    <3>. HIDE DEF l, i
    <3>. QED BY <2>2, <3>1, <3>2
  <2>6. b = c[i][p]
    <3>1. p < n[i]
      <4>. HIDE DEF l, i
      <4>. QED BY <2>2, <2>5
    <3>. QED BY <1>2, <2>2, <2>3, <2>5, <3>1, PorLaCadena
  <2>. HIDE DEF b
  <2>7. /\ m.pc = "escribir" /\ m.blk = b /\ m.abm = u - p /\ m.wpos = i /\ m.luego = "libre"
        /\ m.desde = l.desde /\ m.tam = l.tam
    BY <1>2, <2>1 DEF Forma, Campos
  <2>8. ~Estira(m) /\ ~Trunco(m) /\ ~Aparta(m) /\ ~Deja(m) /\ EnWpos(m)
    BY <2>7 DEF Estira, Trunco, Aparta, Deja, EnWpos
  <2>9. Usado(h, m, tabla)
    BY <1>2, <1>4, <2>7, <2>8 DEF Usado, Arch
  <2>10. Puesto(m, fat, c, n) /\ Dejada(m, tabla, fat, c, n)
    BY <2>7, <2>8 DEF Puesto, Dejada
  <2>11. Largo(m, tabla, c, n)
    <3>1. \E k \in Nat : c[m.wpos][k] = m.blk /\ m.abm >= 0 /\ k + m.abm < n[m.wpos]
      <4>1. c[m.wpos][p] = m.blk /\ m.abm >= 0 /\ p + m.abm < n[m.wpos]
        <5>1. PICK x : x = n[i]
          OBVIOUS
        <5>2. u - p >= 0 /\ p + (u - p) < x
          BY <2>2, <2>5, <5>1
        <5>. QED BY <2>6, <2>7, <5>1, <5>2
      <4>. QED BY <2>2, <4>1
    <3>2. ~Estira(m) /\ ~Trunco(m) /\ m.pc # "writeIr"
      BY <2>7, <2>8
    <3>. QED BY <3>1, <3>2 DEF Largo
  <2>. HIDE DEF m, l
  <2>12. Hebra(h, m, tabla, fat, c, n)
    BY <2>9, <2>10, <2>11 DEF Hebra
  <2>. QED BY <1>1, <1>3, <2>8, <2>12, PasoQuieto DEF m, l
<1>. QED BY <1>5, <1>6

\* The blocks that are written.
LEMMA CuadraEscribir ==
  ASSUME Apartados, TInv, Forma, NEW h \in Hilos, Ajenos(h), Escribir(h),
         NEW c, NEW n, Cuadra(tabla, fat, bitmap, loc, c, n)
  PROVE  Cuadra(tabla', fat', bitmap', loc', c, n)
<1>. DEFINE l == loc[h]
            m == loc'[h]
            i == l.wpos
<1>1. UNCHANGED estructuras /\ l.pc = "escribir"
  BY DEF Escribir, En
<1>2. LocalBien(l) /\ l.luego = "libre" /\ i \in Entradas /\ l.abm \in Int
  BY <1>1, DeHilo, Tamanios DEF LocalBien
<1>3. ~Corto(l) /\ ~Aparta(l) /\ ~Estira(l) /\ ~Deja(l) /\ Usa(l) /\ Arch(l) = i
  BY <1>1 DEF Corto, Aparta, Estira, Deja, Usa, EnWpos, Arch
<1>4. Hebra(h, l, tabla, fat, c, n) /\ l.desde < l.tam /\ Suya(h, tabla, i)
  BY <1>1, <1>3 DEF Cuadra, Hebra, Usado, Escribe
<1>5. PICK k \in Nat : c[i][k] = l.blk /\ l.abm >= 0 /\ k + l.abm < n[i]
  BY <1>1, <1>4 DEF Hebra, Largo
<1>6. FilaBien(i, tabla, fat, c, n, loc) /\ n[i] \in Nat
  BY <1>2 DEF Cuadra, FilaBien
<1>7. CASE Responder(h)
  BY <1>1, <1>3, <1>7, RespondeInerte, PasoInerte
<1>8. CASE ~Responder(h)
  <2>1. l.abm # 0
    BY <1>8 DEF Escribir
  <2>2. k + 1 < n[i] /\ k + 1 \in Nat /\ l.abm - 1 >= 0 /\ (k + 1) + (l.abm - 1) < n[i]
    <3>. HIDE DEF l, i
    <3>. QED BY <1>2, <1>5, <1>6, <2>1
  <2>3. fat[l.blk] = c[i][k + 1] /\ fat[l.blk] \in Bloques /\ fat[l.blk] # FIN
    BY <1>5, <1>6, <2>2, LibreBien DEF FilaBien
  <2>4. loc' = [loc EXCEPT ![h].blk = fat[l.blk], ![h].abm = l.abm - 1]
    BY <2>1, <2>3 DEF Escribir
  <2>5. /\ m.pc = "escribir" /\ m.blk = c[i][k + 1] /\ m.abm = l.abm - 1 /\ m.wpos = i
        /\ m.luego = "libre" /\ m.desde = l.desde /\ m.tam = l.tam
    BY <1>1, <1>2, <2>3, <2>4 DEF Forma, Campos
  <2>6. ~Estira(m) /\ ~Trunco(m) /\ ~Aparta(m) /\ ~Deja(m) /\ EnWpos(m)
    BY <2>5 DEF Estira, Trunco, Aparta, Deja, EnWpos
  <2>7. Usado(h, m, tabla)
    BY <1>2, <1>4, <2>5, <2>6 DEF Usado, Arch
  <2>8. Puesto(m, fat, c, n) /\ Dejada(m, tabla, fat, c, n)
    BY <2>5, <2>6 DEF Puesto, Dejada
  <2>9. Largo(m, tabla, c, n)
    <3>1. \E x \in Nat : c[m.wpos][x] = m.blk /\ m.abm >= 0 /\ x + m.abm < n[m.wpos]
      BY <2>2, <2>5
    <3>2. ~Estira(m) /\ ~Trunco(m) /\ m.pc # "writeIr"
      BY <2>5, <2>6
    <3>. QED BY <3>1, <3>2 DEF Largo
  <2>. HIDE DEF m, l
  <2>10. Hebra(h, m, tabla, fat, c, n)
    BY <2>7, <2>8, <2>9 DEF Hebra
  <2>. QED BY <1>1, <1>3, <2>6, <2>10, PasoQuieto DEF m, l
<1>. QED BY <1>7, <1>8

\* The steps with no part in the chains.
LEMMA CuadraInerte ==
  ASSUME TInv, Forma, NEW h \in Hilos, Ajenos(h),
         Mkdir(h) \/ Create(h) \/ CreateFin(h) \/ Utimens(h) \/ Open(h) \/ OpenTomar(h)
         \/ Release(h) \/ ReleaseSoltar(h),
         NEW c, NEW n, Cuadra(tabla, fat, bitmap, loc, c, n)
  PROVE  Cuadra(tabla', fat', bitmap', loc', c, n)
<1>1. Inerte(loc'[h]) /\ Inerte(loc[h]) /\ UNCHANGED estructuras
  BY PasosInertes
<1>. QED BY <1>1, InerteHebra, PasoInerte

\* ftruncate's search for a block.
LEMMA CuadraPedirBloque ==
  ASSUME Apartados, TInv, Forma, NEW h \in Hilos, Ajenos(h), PedirBloque(h),
         NEW c, NEW n, Cuadra(tabla, fat, bitmap, loc, c, n)
  PROVE  Cuadra(tabla', fat', bitmap', loc', c, n)
<1>. DEFINE l == loc[h]
            m == loc'[h]
            i == l.pos
<1>1. UNCHANGED estructuras /\ l.pc = "pedir"
  BY DEF PedirBloque, En
<1>2. LocalBien(l) /\ l.luego = "libre" /\ i \in Entradas
  BY <1>1, DeHilo DEF LocalBien
<1>3. ~Corto(l) /\ ~Aparta(l) /\ Estira(l) /\ ~Deja(l) /\ Usa(l) /\ Arch(l) = i
  BY <1>1, EstiraUsa DEF Corto, Aparta, Estira
<1>4. /\ Hebra(h, l, tabla, fat, c, n) /\ Usado(h, l, tabla) /\ Suya(h, tabla, i)
      /\ Puesto(l, fat, c, n) /\ Largo(l, tabla, c, n)
  BY <1>3 DEF Cuadra, Hebra, Usado
<1>5. CASE Vuelve(h, FALSE)
  <2>1. Inerte(m)
    BY <1>5, RespondeInerte
  <2>2. tabla[i].estado = "REGULAR" => n[i] >= BloquesDe(tabla[i].tam)
    BY <1>1, <1>3, <1>4 DEF Largo, Faltan, Puesto
  <2>. QED BY <1>1, <1>3, <2>1, <2>2, InerteHebra, PasoQuieto
<1>6. CASE loc' = [loc EXCEPT ![h].pc = "marcar", ![h].ant = loc[h].blk, ![h].blk = BitLibre]
  <2>1. m.pc = "marcar" /\ m.luego = "libre" /\ m.ant = l.blk /\ m.abm = l.abm /\ Prosigue(m, l)
    BY <1>2, <1>6 DEF Forma, Campos, Prosigue
  <2>2. Estira(m) /\ ~Aparta(m) /\ ~Corto(m) /\ ~Deja(m) /\ ~Trunco(m)
    BY <2>1 DEF Estira, Aparta, Corto, Deja, Trunco
  <2>3. Usado(h, m, tabla)
    BY <1>3, <1>4, <2>1, <2>2, EstiraUsado
  <2>4. Puesto(m, fat, c, n)
    BY <1>1, <1>4, <2>1 DEF Puesto, Prosigue
  <2>5. Largo(m, tabla, c, n)
    BY <1>3, <1>4, <2>1, <2>2 DEF Largo, Faltan, Prosigue
  <2>6. Hebra(h, m, tabla, fat, c, n) /\ m.pos = i
    BY <2>1, <2>2, <2>3, <2>4, <2>5 DEF Hebra, Dejada, Prosigue
  <2>. HIDE DEF m, l
  <2>. QED BY <1>1, <1>3, <2>2, <2>6, PasoQuieto DEF m, l
<1>7. \/ Vuelve(h, FALSE)
      \/ loc' = [loc EXCEPT ![h].pc = "marcar", ![h].ant = loc[h].blk, ![h].blk = BitLibre]
  BY Zenon DEF PedirBloque
<1>. QED BY <1>5, <1>6, <1>7

\* What ftruncate's return leads to.
LEMMA VuelveBien ==
  ASSUME Forma, TInv, NEW h \in Hilos, Vuelve(h, TRUE), loc[h].luego = "libre"
  PROVE  \/ Inerte(loc'[h])
         \/ loc[h].vuelve = "write" /\ loc'[h].pc = "writeIr" /\ loc'[h].luego = "libre"
            /\ Prosigue(loc'[h], loc[h])
<1>1. CASE Responder(h) \/ OpenResponde(h, TRUE)
  BY <1>1, RespondeInerte
<1>2. CASE Ir(h, "writeIr") /\ loc[h].vuelve = "write"
  BY <1>2, IrCambia
<1>. QED BY <1>1, <1>2 DEF Vuelve

\* A thread that has what it needs to write.
LEMMA EscribeHebra ==
  ASSUME NEW h, NEW m, NEW t, NEW f, NEW c, NEW n, m.pc = "writeIr", m.luego = "libre",
         m.wpos \in Entradas, Suya(h, t, m.wpos), m.desde < m.tam,
         t[m.wpos].estado = "REGULAR" => n[m.wpos] >= BloquesDe(m.tam)
  PROVE  Hebra(h, m, t, f, c, n) /\ ~Aparta(m)
<1>1. ~Estira(m) /\ ~Trunco(m) /\ ~Aparta(m) /\ ~Deja(m) /\ EnWpos(m)
  BY DEF Estira, Trunco, Aparta, Deja, EnWpos
<1>2. Usado(h, m, t)
  BY <1>1 DEF Usado, Arch
<1>3. Puesto(m, f, c, n) /\ Largo(m, t, c, n) /\ Dejada(m, t, f, c, n)
  BY <1>1 DEF Puesto, Largo, Dejada
<1>. QED BY <1>1, <1>2, <1>3 DEF Hebra

\* The size is in the image: the handler goes back to osada_write or answers.
LEMMA CuadraTruncado ==
  ASSUME Apartados, TInv, Forma, NEW h \in Hilos, Ajenos(h), Truncado(h),
         NEW c, NEW n, Cuadra(tabla, fat, bitmap, loc, c, n)
  PROVE  Cuadra(tabla', fat', bitmap', loc', c, n)
<1>. DEFINE l == loc[h]
            m == loc'[h]
            i == l.pos
<1>1. UNCHANGED estructuras /\ l.pc = "truncado" /\ Vuelve(h, TRUE)
  BY DEF Truncado, En
<1>2. LocalBien(l) /\ l.luego = "libre"
  BY <1>1, DeHilo DEF LocalBien
<1>3. ~Corto(l) /\ ~Aparta(l) /\ ~Estira(l) /\ ~Deja(l) /\ Usa(l) /\ Arch(l) = i /\ Trunco(l)
  BY <1>1, EstiraUsa DEF Corto, Aparta, Estira, Trunco
<1>4. /\ i \in Entradas /\ Suya(h, tabla, i) /\ Usado(h, l, tabla)
      /\ tabla[i].estado = "REGULAR" => n[i] >= BloquesDe(l.tam)
  BY <1>3 DEF Cuadra, Hebra, Usado, Largo
<1>5. CASE Inerte(m)
  BY <1>1, <1>3, <1>5, PasoInerte
<1>6. CASE l.vuelve = "write" /\ m.pc = "writeIr" /\ m.luego = "libre" /\ Prosigue(m, l)
  <2>1. l.wpos = i /\ l.desde < l.tam
    BY <1>3, <1>4, <1>6 DEF Usado, Escribe
  <2>2. m.wpos = i /\ m.desde < m.tam /\ m.tam = l.tam
    BY <1>6, <2>1 DEF Prosigue
  <2>. HIDE DEF m, l, i
  <2>3. Hebra(h, m, tabla, fat, c, n) /\ ~Aparta(m)
    BY <1>4, <1>6, <2>2, EscribeHebra
  <2>. QED BY <1>1, <1>3, <2>3, PasoQuieto DEF m, l, i
<1>. QED BY <1>1, <1>2, <1>5, <1>6, VuelveBien

\* ftruncate finds its file.
LEMMA CuadraTruncate ==
  ASSUME Apartados, TInv, Forma, RInv, NEW h \in Hilos, Ajenos(h), Truncate(h),
         NEW c, NEW n, Cuadra(tabla, fat, bitmap, loc, c, n)
  PROVE  Cuadra(tabla', fat', bitmap', loc', c, n)
<1>. DEFINE l == loc[h]
            m == loc'[h]
            i == is_parent(l.ruta)
            d == BloquesDe(l.tam) - BloquesDe(tabla[i].tam)
<1>1. UNCHANGED estructuras /\ l.pc = "truncate"
  BY DEF Truncate, En
<1>2. LocalBien(l) /\ l.ruta \in Seq(Nombres) /\ l.ruta # <<>> /\ Mia(h, l.ruta) /\ l.luego = "libre"
  BY <1>1, DeHilo DEF LocalBien, Locales, RInv, Pedido
<1>3. ~Corto(l) /\ ~Aparta(l) /\ ~Estira(l) /\ ~Deja(l)
  BY <1>1 DEF Corto, Aparta, Estira, Deja
<1>4. Vigente(i) => i \in Entradas /\ Suya(h, tabla, i)
  BY <1>2, Encontrada
<1>5. l.vuelve = "write" => l.wpos = i /\ l.desde < l.tam
  <2>1. Usado(h, l, tabla)
    BY DEF Cuadra, Hebra
  <2>2. i = PadreEn(tabla, l.ruta)
    BY Paseos
  <2>. QED BY <1>1, <2>1, <2>2 DEF Usado, Escribe
<1>6. \/ Vuelve(h, FALSE)
      \/ Vigente(i) /\ l.tam = tabla[i].tam /\ Vuelve(h, TRUE)
      \/ Vigente(i) /\ loc' = [loc EXCEPT ![h].pc = "cola", ![h].pos = i, ![h].abm = d]
  BY Zenon DEF Truncate
<1>7. ASSUME Vigente(i), tabla[i].estado = "REGULAR"
      PROVE  n[i] \in Nat /\ n[i] >= BloquesDe(tabla[i].tam)
  BY <1>3, <1>4, <1>7, Completo
<1>8. Vigente(i) => BloquesDe(tabla[i].tam) \in Nat /\ BloquesDe(l.tam) \in Nat
  BY <1>4, Tamanios
<1>. HIDE DEF i
<1>9. CASE Inerte(m)
  BY <1>1, <1>3, <1>9, PasoInerte
<1>10. CASE Vuelve(h, FALSE)
  BY <1>9, <1>10, RespondeInerte
<1>11. CASE Vigente(i) /\ l.tam = tabla[i].tam /\ Vuelve(h, TRUE)
  <2>1. CASE l.vuelve = "write" /\ m.pc = "writeIr" /\ m.luego = "libre" /\ Prosigue(m, l)
    <3>1. m.wpos = i /\ m.desde < m.tam /\ m.tam = l.tam
      BY <1>5, <2>1 DEF Prosigue
    <3>2. tabla[i].estado = "REGULAR" => n[i] >= BloquesDe(m.tam)
      BY <1>7, <1>11, <3>1
    <3>. HIDE DEF m, l
    <3>3. Hebra(h, m, tabla, fat, c, n) /\ ~Aparta(m)
      BY <1>4, <1>11, <2>1, <3>1, <3>2, EscribeHebra
    <3>. QED BY <1>1, <1>3, <3>3, PasoQuieto DEF m, l
  <2>. QED BY <1>2, <1>9, <1>11, <2>1, VuelveBien
<1>12. CASE Vigente(i) /\ loc' = [loc EXCEPT ![h].pc = "cola", ![h].pos = i, ![h].abm = d]
  <2>. HIDE DEF d
  <2>1. /\ m.pc = "cola" /\ m.luego = "libre" /\ m.pos = i /\ m.abm = d /\ m.wpos = l.wpos
        /\ m.desde = l.desde /\ m.tam = l.tam /\ m.vuelve = l.vuelve
    BY <1>2, <1>12 DEF Forma, Campos
  <2>2. Estira(m) /\ ~Aparta(m) /\ ~Corto(m) /\ ~Deja(m) /\ ~Trunco(m) /\ Usa(m) /\ Arch(m) = i
    BY <2>1, EstiraUsa DEF Estira, Aparta, Corto, Deja, Trunco
  <2>3. Usado(h, m, tabla)
    BY <1>4, <1>5, <1>12, <2>1, <2>2 DEF Usado, Escribe
  <2>4. Puesto(m, fat, c, n) /\ Dejada(m, tabla, fat, c, n)
    BY <2>1, <2>2 DEF Puesto, Dejada
  <2>5. Largo(m, tabla, c, n)
    <3>1. ASSUME tabla[i].estado = "REGULAR"
          PROVE  n[i] + d >= BloquesDe(l.tam) /\ n[i] >= BloquesDe(tabla[i].tam)
      <4>1. PICK x, y : x = BloquesDe(tabla[i].tam) /\ y = BloquesDe(l.tam)
        OBVIOUS
      <4>2. d = y - x /\ x \in Nat /\ y \in Nat /\ n[i] \in Nat /\ n[i] >= x
        BY <1>7, <1>8, <1>12, <3>1, <4>1 DEF d
      <4>3. n[i] + d >= y
        BY <4>2
      <4>. QED BY <4>1, <4>2, <4>3
    <3>. QED BY <2>1, <2>2, <3>1 DEF Largo, Faltan
  <2>6. Hebra(h, m, tabla, fat, c, n)
    BY <2>3, <2>4, <2>5 DEF Hebra
  <2>. HIDE DEF m, l
  <2>. QED BY <1>1, <1>3, <2>2, <2>6, PasoQuieto DEF m, l
<1>. QED BY <1>6, <1>10, <1>11, <1>12

\* A turn of the loops of ftruncate.
LEMMA CuadraCola ==
  ASSUME Apartados, TInv, Forma, NEW h \in Hilos, Ajenos(h), Cola(h),
         NEW c, NEW n, Cuadra(tabla, fat, bitmap, loc, c, n)
  PROVE  /\ Cuadra(tabla', fat', bitmap', loc', c, n)
         /\ \/ UNCHANGED loc
            \/ /\ Estira(loc'[h]) /\ ~Corto(loc'[h]) /\ loc'[h].pc # "enlazar"
               /\ Prosigue(loc'[h], loc[h]) /\ loc'[h].abm = loc[h].abm
<1>. DEFINE l == loc[h]
            m == loc'[h]
            i == l.pos
            b == tabla[i].primero
<1>1. UNCHANGED estructuras /\ l.pc = "cola" /\ l.abm # 0
  BY DEF Cola, En
<1>2. LocalBien(l) /\ l.luego = "libre" /\ i \in Entradas /\ l.abm \in Int
      /\ BloquesDe(l.tam) \in Nat /\ BloquesDe(l.tam) >= 1
  BY <1>1, DeHilo, Tamanios DEF LocalBien
<1>3. ~Corto(l) /\ ~Aparta(l) /\ Estira(l) /\ ~Deja(l) /\ Usa(l) /\ Arch(l) = i
  BY <1>1, EstiraUsa DEF Corto, Aparta, Estira
<1>4. /\ Hebra(h, l, tabla, fat, c, n) /\ Usado(h, l, tabla) /\ Suya(h, tabla, i)
      /\ Puesto(l, fat, c, n) /\ Largo(l, tabla, c, n) /\ FilaBien(i, tabla, fat, c, n, loc)
  BY <1>2, <1>3 DEF Cuadra, Hebra, Usado
<1>5. CASE UNCHANGED loc
  BY <1>1, <1>5, CuadraNada
<1>6. CASE loc' # loc
  <2>1. PICK k \in Ultimo(b) :
          loc' = [loc EXCEPT
                   ![h].blk = Bloque(b, k),
                   ![h].ant = IF k = 0 THEN FIN ELSE Bloque(b, k - 1),
                   ![h].abm = IF @ < 0 /\ k = 0 THEN @ + 1 ELSE @,
                   ![h].pc = IF loc[h].abm > 0 THEN "pedir"
                             ELSE IF k > 0 THEN "limpiar" ELSE "cola"]
    BY <1>6 DEF Cola
  <2>2. b # FIN
    <3>1. k \in Nat /\ Bloque(b, k) # FIN
      BY SupuestoOsada DEF Ultimo
    <3>. QED BY <3>1, SinCadena
  <2>3. tabla[i].estado = "REGULAR"
    <3>1. tabla[i].estado \in {"DELETED", "REGULAR", "DIRECTORY"} /\ tabla[i].estado # "DELETED"
      BY <1>2, <1>4, Fichas DEF Entrada, Suya
    <3>. QED BY <1>4, <2>2, <3>1 DEF FilaBien
  <2>4. n[i] > 0 /\ c[i][0] = b /\ n[i] \in Nat
    BY <1>4, <2>3 DEF FilaBien
  <2>5. \A g \in Hilos : ~(Corto(loc[g]) /\ loc[g].pos = i)
    BY <1>3, <1>4, NadieEstira
  <2>6. k = n[i] - 1 /\ k \in Nat
    BY <1>2, <1>4, <2>4, <2>5, AlUltimo
  <2>7. Bloque(b, k) = c[i][k] /\ (k > 0 => Bloque(b, k - 1) = c[i][k - 1])
    <3>1. \A j \in Nat : j < n[i] => Bloque(b, j) = c[i][j]
      BY <1>2, <1>4, <2>4, PorLaCadena
    <3>2. k < n[i] /\ (k > 0 => k - 1 \in Nat /\ k - 1 < n[i])
      <4>. HIDE DEF i
      <4>. QED BY <2>4, <2>6
    <3>. QED BY <2>6, <3>1, <3>2
  <2>8. n[i] + l.abm >= BloquesDe(l.tam) /\ (l.abm > 0 => n[i] >= BloquesDe(tabla[i].tam))
    BY <1>3, <1>4, <2>3 DEF Largo, Faltan
  <2>9. k = 0 => l.abm > 0
    <3>1. PICK x, y : x = BloquesDe(l.tam) /\ y = l.abm
      OBVIOUS
    <3>2. k = 0 => n[i] = 1
      <4>. HIDE DEF i
      <4>. QED BY <2>4, <2>6
    <3>3. x \in Nat /\ x >= 1 /\ y \in Int /\ y # 0 /\ (k = 0 => 1 + y >= x)
      BY <1>1, <1>2, <2>8, <3>1, <3>2
    <3>4. k = 0 => y > 0
      BY <3>3
    <3>. QED BY <3>1, <3>4
  <2>. DEFINE a == IF k = 0 THEN FIN ELSE Bloque(b, k - 1)
              p == IF l.abm > 0 THEN "pedir" ELSE IF k > 0 THEN "limpiar" ELSE "cola"
              z == IF l.abm < 0 /\ k = 0 THEN l.abm + 1 ELSE l.abm
  <2>10. /\ m.pc = p /\ m.luego = "libre" /\ m.blk = Bloque(b, k) /\ m.ant = a
         /\ m.abm = z /\ Prosigue(m, l)
    <3>1. DOMAIN loc = Hilos /\ DOMAIN l = Campos
      BY DEF Forma
    <3>2. m = [l EXCEPT !.blk = Bloque(b, k), !.ant = a, !.abm = z, !.pc = p]
      BY <2>1, <3>1
    <3>. HIDE DEF l, m, a, p, z
    <3>. QED BY <1>2, <3>1, <3>2 DEF Campos, Prosigue
  <2>11. z = l.abm /\ (l.abm > 0 => p = "pedir") /\ (~(l.abm > 0) => p = "limpiar" /\ k > 0 /\ l.abm < 0)
    <3>1. PICK y : y = l.abm
      OBVIOUS
    <3>2. y \in Int /\ y # 0 /\ (k = 0 => y > 0)
      BY <1>1, <1>2, <2>9, <3>1
    <3>3. (k > 0 \/ k = 0) /\ (y > 0 => ~(y < 0)) /\ (~(y > 0) => y < 0)
      <4>1. k \in Nat
        BY <2>6
      <4>2. k > 0 \/ k = 0
        BY <4>1
      <4>. QED BY <3>2, <4>2
    <3>. QED BY <3>1, <3>2, <3>3
  <2>12. p \in {"pedir", "limpiar"}
    BY <2>11
  <2>13. Puesto(m, fat, c, n)
    <3>1. m.pc = "pedir" => m.abm > 0 /\ m.blk = c[m.pos][n[m.pos] - 1] /\ n[m.pos] > 0
      BY <2>4, <2>6, <2>7, <2>10, <2>11 DEF Prosigue
    <3>2. ASSUME m.pc = "limpiar"
          PROVE  /\ m.abm < 0 /\ m.blk = c[m.pos][n[m.pos] - 1] /\ n[m.pos] > 1
                 /\ m.ant = c[m.pos][n[m.pos] - 2]
      <4>1. ~(l.abm > 0)
        BY <2>10, <2>11, <3>2
      <4>2. k > 0 /\ l.abm < 0 /\ m.abm = l.abm /\ m.pos = i /\ k # 0
        BY <2>6, <2>10, <2>11, <4>1 DEF Prosigue
      <4>3. m.ant = c[i][k - 1] /\ m.blk = c[i][k]
        BY <2>7, <2>10, <4>2
      <4>4. n[i] > 1 /\ n[i] - 2 = k - 1
        <5>. HIDE DEF i
        <5>. QED BY <2>4, <2>6, <4>2
      <4>. QED BY <2>6, <4>2, <4>3, <4>4
    <3>3. m.pc \in {"pedir", "limpiar"} /\ m.luego = "libre"
      BY <2>10, <2>12
    <3>. QED BY <3>1, <3>2, <3>3 DEF Puesto
  <2>14. Estira(m) /\ ~Aparta(m) /\ ~Corto(m) /\ ~Deja(m) /\ ~Trunco(m) /\ m.pos = i /\ m.abm = l.abm
         /\ m.tam = l.tam /\ m.pc \notin {"writeIr", "escribir"}
    BY <2>10, <2>11, <2>12 DEF Estira, Aparta, Corto, Deja, Trunco, Prosigue
  <2>15. Prosigue(m, l)
    BY <2>10
  <2>. HIDE DEF m, l, i
  <2>16. Usado(h, m, tabla)
    BY <1>3, <1>4, <2>14, <2>15, EstiraUsado DEF i
  <2>17. Largo(m, tabla, c, n) /\ Dejada(m, tabla, fat, c, n)
    BY <2>8, <2>14 DEF Largo, Faltan, Dejada
  <2>18. Hebra(h, m, tabla, fat, c, n)
    BY <2>13, <2>16, <2>17 DEF Hebra
  <2>19. m.pc # "enlazar"
    BY <2>14 DEF Aparta
  <2>. QED BY <1>1, <1>3, <2>14, <2>15, <2>18, <2>19, PasoQuieto DEF m, l, i
<1>. QED BY <1>5, <1>6

\* The copies to the image.
LEMMA CuadraCopiar ==
  ASSUME Apartados, TInv, Forma, NEW h \in Hilos, Ajenos(h), Copiar(h),
         NEW c, NEW n, Cuadra(tabla, fat, bitmap, loc, c, n)
  PROVE  Cuadra(tabla', fat', bitmap', loc', c, n)
<1>. DEFINE l == loc[h]
            m == loc'[h]
            i == l.pos
<1>1. UNCHANGED estructuras /\ l.pc = "copiar"
  BY DEF Copiar, En
<1>2. Hebra(h, l, tabla, fat, c, n)
  BY DEF Cuadra
<1>3. l.luego \in {"libre", "cola", "truncado", "createFin"}
  <2>1. LocalBien(l)
    BY DeHilo
  <2>. QED BY <1>2, <2>1 DEF LocalBien, Hebra, Puesto
<1>4. \/ Responder(h) /\ l.luego = "libre"
      \/ /\ Prosigue(m, l) /\ m.abm = l.abm
         /\ (m.pc = "copiar" /\ m.luego = l.luego) \/ (l.luego # "libre" /\ m.pc = l.luego /\ m.luego = "libre")
  <2>1. CASE loc' = [loc EXCEPT ![h].copias = Tail(@)]
    BY <1>1, <2>1 DEF Forma, Campos, Prosigue
  <2>2. CASE l.luego # "libre" /\ loc' = [loc EXCEPT ![h].copias = <<>>, ![h].pc = l.luego, ![h].luego = "libre"]
    BY <2>2 DEF Forma, Campos, Prosigue
  <2>3. \/ loc' = [loc EXCEPT ![h].copias = Tail(@)] \/ (Responder(h) /\ l.luego = "libre")
        \/ l.luego # "libre" /\ loc' = [loc EXCEPT ![h].copias = <<>>, ![h].pc = l.luego, ![h].luego = "libre"]
    BY Zenon DEF Copiar
  <2>. QED BY <2>1, <2>2, <2>3
<1>5. ~Corto(l) /\ ~Aparta(l) /\ ~Deja(l) /\ (Estira(l) <=> l.luego = "cola")
      /\ (Trunco(l) <=> l.luego = "truncado")
  BY <1>1 DEF Corto, Aparta, Estira, Deja, Trunco
<1>6. CASE Inerte(m)
  <2>1. CASE ~Estira(l)
    BY <1>1, <1>5, <1>6, <2>1, PasoInerte
  <2>2. CASE Estira(l)
    <3>1. l.luego = "cola" /\ m.pc \in {"cola", "copiar"} /\ m.luego \in {"libre", "cola"}
          /\ (m.pc = "copiar" => m.luego = "cola")
      BY <1>4, <1>5, <2>2
    <3>. QED BY <1>6, <3>1 DEF Inerte
  <2>. QED BY <2>1, <2>2
<1>7. CASE Responder(h) \/ l.luego \in {"libre", "createFin"}
  <2>1. Responder(h) => Inerte(m)
    BY RespondeInerte
  <2>2. ~Responder(h) => Inerte(m)
    BY <1>4, <1>7 DEF Inerte, Pasos
  <2>. QED BY <1>6, <2>1, <2>2
<1>8. CASE ~Responder(h) /\ l.luego \in {"cola", "truncado"}
  <2>1. /\ Prosigue(m, l) /\ m.abm = l.abm
        /\ (m.pc = "copiar" /\ m.luego = l.luego) \/ (m.pc = l.luego /\ m.luego = "libre")
    BY <1>4, <1>8
  <2>2. /\ ~Aparta(m) /\ ~Corto(m) /\ ~Deja(m) /\ (Estira(m) <=> Estira(l)) /\ (Trunco(m) <=> Trunco(l))
        /\ Estira(l) \/ Trunco(l)
        /\ m.pc \in {"copiar", "cola", "truncado"} /\ m.luego # "nuncaSeguir"
    BY <1>5, <1>8, <2>1 DEF Aparta, Corto, Deja, Estira, Trunco
  <2>3. Usa(l) /\ Arch(l) = i
    BY <2>2, EstiraUsa
  <2>. HIDE DEF m, l, i
  <2>4. Usado(h, m, tabla)
    <3>1. Usado(h, l, tabla) /\ Suya(h, tabla, l.pos)
      BY <1>2, <2>3 DEF Hebra, Usado, i
    <3>. QED BY <2>1, <2>2, <3>1, EstiraUsado
  <2>5. Puesto(m, fat, c, n) /\ Dejada(m, tabla, fat, c, n)
    BY <2>2 DEF Puesto, Dejada
  <2>6. Largo(m, tabla, c, n)
    <3>1. Largo(l, tabla, c, n)
      BY <1>2 DEF Hebra
    <3>2. Faltan(m) = Faltan(l) /\ m.pos = l.pos /\ m.tam = l.tam
      BY <1>5, <2>1, <2>2 DEF Faltan, Prosigue
    <3>. QED BY <2>2, <3>1, <3>2 DEF Largo
  <2>7. Hebra(h, m, tabla, fat, c, n)
    BY <2>4, <2>5, <2>6 DEF Hebra
  <2>8. m.pos = l.pos
    BY <2>1 DEF Prosigue
  <2>. QED BY <1>1, <1>5, <2>2, <2>7, <2>8, PasoQuieto DEF m, l
<1>. QED BY <1>3, <1>7, <1>8

-----------------------------------------------------------------------------
(* The steps that write an entry and leave the chains. *)

\* The marked blocks that are in no chain yet are the same when the thread has none.
LEMMA MarcasIguales ==
  ASSUME NEW h \in Hilos, Ajenos(h), ~Aparta(loc[h]), ~Aparta(loc'[h]),
         NEW b, NEW c, NEW n, Marcas(b, c, n, loc)
  PROVE  Marcas(b, c, n, loc')
<1>1. \A g \in Hilos \ {h} : loc'[g] = loc[g]
  BY DEF Ajenos
<1>2. \A x : (\E g \in Hilos : Aparta(loc'[g]) /\ loc'[g].blk = x) <=> \E g \in Hilos : Aparta(loc[g]) /\ loc[g].blk = x
  BY <1>1
<1>. QED BY <1>1, <1>2 DEF Marcas

\* The entry e, written by h.
LEMMA PasoTabla ==
  ASSUME Apartados, TInv, RInv, NEW h \in Hilos, Ajenos(h),
         NEW c, NEW n, NEW e \in Entradas, Cuadra(tabla, fat, bitmap, loc, c, n),
         De(h, e), fat' = fat, bitmap' = bitmap, \A i \in Entradas \ {e} : tabla'[i] = tabla[i],
         \/ Solo
         \/ tabla'[e].nombre = tabla[e].nombre /\ tabla'[e].padre = tabla[e].padre
         \/ \E q \in Rutas[h] : tabla'[e].nombre = Last(q),
         Corto(loc[h]) \/ Estira(loc[h]) \/ Deja(loc[h]) => loc[h].pos = e,
         ~Aparta(loc[h]), ~Aparta(loc'[h]),
         Hebra(h, loc'[h], tabla', fat, c, n), FilaBien(e, tabla', fat, c, n, loc')
  PROVE  Cuadra(tabla', fat', bitmap', loc', c, n)
<1>1. Quedan(e, tabla, fat, c, n, tabla', fat', c, n)
  BY DEF Quedan
<1>2. Separadas(c, n) /\ Marcas(bitmap', c, n, loc')
  BY MarcasIguales DEF Cuadra
<1>. QED BY <1>1, <1>2, Paso

\* An entry without blocks.
LEMMA FilaVacia ==
  ASSUME NEW i, NEW t, NEW f, NEW c, NEW n, NEW m, n[i] = 0,
         t[i].estado = "DELETED" \/ (t[i].estado = "DIRECTORY" /\ t[i].primero = FIN)
  PROVE  FilaBien(i, t, f, c, n, m)
<1>1. \A k \in Nat : ~(k < n[i]) /\ ~(k + 1 < n[i])
  OBVIOUS
<1>2. n[i] \in Nat /\ ~(n[i] > 0)
  OBVIOUS
<1>. QED BY <1>1, <1>2 DEF FilaBien

\* rmdir deletes its directory.
LEMMA CuadraRmdir ==
  ASSUME Apartados, TInv, Forma, RInv, NEW h \in Hilos, Ajenos(h), RmdirBaja(h),
         NEW c, NEW n, Cuadra(tabla, fat, bitmap, loc, c, n)
  PROVE  Cuadra(tabla', fat', bitmap', loc', c, n)
<1>. DEFINE l == loc[h]
            m == loc'[h]
            e == l.pos
<1>1. /\ l.pc = "rmdirBaja" /\ fat' = fat /\ bitmap' = bitmap /\ Copiando(h, <<"tabla">>, "libre")
      /\ tabla' = [tabla EXCEPT ![e].estado = "DELETED"]
  BY DEF RmdirBaja, En
<1>2. ~Corto(l) /\ ~Aparta(l) /\ ~Estira(l) /\ ~Deja(l) /\ Usa(l) /\ Arch(l) = e
  BY <1>1 DEF Corto, Aparta, Estira, Deja, Usa, Arch, EnWpos
<1>3. Usado(h, l, tabla)
  BY DEF Cuadra, Hebra
<1>4. e \in Entradas /\ Suya(h, tabla, e) /\ tabla[e].estado = "DIRECTORY"
  BY <1>1, <1>2, <1>3 DEF Usado
<1>5. n[e] = 0
  BY <1>4 DEF Cuadra, FilaBien
<1>6. tabla \in [Entradas -> Entrada]
  BY <1>4, Fichas
<1>7. /\ \A i \in Entradas \ {e} : tabla'[i] = tabla[i]
      /\ tabla'[e].estado = "DELETED" /\ tabla'[e].nombre = tabla[e].nombre
      /\ tabla'[e].padre = tabla[e].padre
  BY <1>1, <1>4, <1>6 DEF Entrada
<1>8. Inerte(m)
  BY <1>1, RespondeInerte
<1>. HIDE DEF m, l, e
<1>9. FilaBien(e, tabla', fat, c, n, loc')
  BY <1>5, <1>7, FilaVacia
<1>10. De(h, e)
  BY <1>4 DEF De
<1>11. Hebra(h, m, tabla', fat, c, n) /\ ~Aparta(m)
  BY <1>8, InerteHebra
<1>. QED BY <1>1, <1>2, <1>4, <1>7, <1>9, <1>10, <1>11, PasoTabla DEF m, l

\* The chain of an entry that h does not change.
LEMMA FilaSigue ==
  ASSUME NEW h \in Hilos, Ajenos(h), ~Corto(loc[h]), ~Estira(loc[h]), ~Deja(loc[h]),
         NEW i, NEW t, NEW u, NEW f, NEW c, NEW n, FilaBien(i, t, f, c, n, loc),
         u[i].estado = t[i].estado, u[i].tam = t[i].tam, u[i].primero = t[i].primero
  PROVE  FilaBien(i, u, f, c, n, loc')
<1>1. \A g \in Hilos \ {h} : loc'[g] = loc[g]
  BY DEF Ajenos
<1>2. (\A g \in Hilos : ~(Corto(loc'[g]) /\ loc'[g].pos = i)) => \A g \in Hilos : ~(Corto(loc[g]) /\ loc[g].pos = i)
  BY <1>1
<1>3. (\A g \in Hilos : ~(Deja(loc'[g]) /\ loc'[g].pos = i)) => \A g \in Hilos : ~(Deja(loc[g]) /\ loc[g].pos = i)
  BY <1>1
<1>4. Ninguno(loc', i) => Ninguno(loc, i)
  BY <1>1 DEF Ninguno
<1>. QED BY <1>2, <1>3, <1>4 DEF FilaBien

\* rename changes the name and the directory.
LEMMA CuadraRename ==
  ASSUME Apartados, TInv, Forma, RInv, NEW h \in Hilos, Ajenos(h), RenameAlta(h),
         NEW c, NEW n, Cuadra(tabla, fat, bitmap, loc, c, n)
  PROVE  Cuadra(tabla', fat', bitmap', loc', c, n)
<1>. DEFINE l == loc[h]
            m == loc'[h]
            e == l.pos
<1>1. l.pc = "renameAlta" /\ fat' = fat /\ bitmap' = bitmap
  BY DEF RenameAlta, En
<1>2. ~Corto(l) /\ ~Aparta(l) /\ ~Estira(l) /\ ~Deja(l) /\ Usa(l) /\ Arch(l) = e
  BY <1>1 DEF Corto, Aparta, Estira, Deja, Usa, Arch, EnWpos
<1>3. Usado(h, l, tabla) /\ Mia(h, l.dest)
  BY <1>1 DEF Cuadra, Hebra, RInv, Pedido
<1>4. e \in Entradas /\ Suya(h, tabla, e)
  BY <1>1, <1>2, <1>3 DEF Usado
<1>5. tabla \in [Entradas -> Entrada] /\ FilaBien(e, tabla, fat, c, n, loc)
  BY <1>4, Fichas DEF Cuadra
<1>6. \/ Responder(h) /\ UNCHANGED tabla
      \/ /\ tabla' = [tabla EXCEPT ![e].nombre = Last(l.dest), ![e].padre = l.padre]
         /\ Copiando(h, <<"tabla">>, "libre")
  BY DEF RenameAlta
<1>7. Inerte(m)
  BY <1>6, RespondeInerte
<1>8. CASE UNCHANGED tabla
  BY <1>1, <1>2, <1>7, <1>8, PasoInerte DEF estructuras
<1>9. CASE tabla' = [tabla EXCEPT ![e].nombre = Last(l.dest), ![e].padre = l.padre]
  <2>1. /\ \A i \in Entradas \ {e} : tabla'[i] = tabla[i]
        /\ tabla'[e].nombre = Last(l.dest) /\ tabla'[e].estado = tabla[e].estado
        /\ tabla'[e].tam = tabla[e].tam /\ tabla'[e].primero = tabla[e].primero
    BY <1>4, <1>5, <1>9 DEF Entrada
  <2>2. Solo \/ \E q \in Rutas[h] : tabla'[e].nombre = Last(q)
    BY <1>3, <2>1 DEF Mia
  <2>. HIDE DEF m, l, e
  <2>3. FilaBien(e, tabla', fat, c, n, loc')
    BY <1>2, <1>5, <2>1, FilaSigue DEF l
  <2>4. De(h, e)
    BY <1>4 DEF De
  <2>5. Hebra(h, m, tabla', fat, c, n) /\ ~Aparta(m)
    BY <1>7, InerteHebra
  <2>. QED BY <1>1, <1>2, <1>4, <2>1, <2>2, <2>3, <2>4, <2>5, PasoTabla DEF m, l
<1>. QED BY <1>6, <1>8, <1>9

\* A free entry has no blocks, and h may take it.
LEMMA SinBloques ==
  ASSUME RInv, NEW c, NEW n, Cuadra(tabla, fat, bitmap, loc, c, n), NEW h \in Hilos, ~Deja(loc[h]),
         NEW i \in Entradas, tabla[i].estado = "DELETED"
  PROVE  n[i] = 0
<1>1. \A g \in Hilos : ~Deja(loc[g])
  BY NadieDeja
<1>2. FilaBien(i, tabla, fat, c, n, loc)
  BY DEF Cuadra
<1>. QED BY <1>1, <1>2 DEF FilaBien

\* mkdir takes a free entry.
LEMMA CuadraMkdir ==
  ASSUME Apartados, TInv, IInv, RInv, NEW h \in Hilos, Ajenos(h), MkdirMux(h),
         NEW c, NEW n, Cuadra(tabla, fat, bitmap, loc, c, n)
  PROVE  Cuadra(tabla', fat', bitmap', loc', c, n)
<1>. DEFINE l == loc[h]
            m == loc'[h]
            e == Primera({i \in Entradas : tabla[i].estado = "DELETED"})
<1>1. l.pc = "mkdirMux" /\ fat' = fat /\ bitmap' = bitmap /\ mux = Nadie
  BY DEF MkdirMux, En
<1>2. ~Corto(l) /\ ~Aparta(l) /\ ~Estira(l) /\ ~Deja(l)
  BY <1>1 DEF Corto, Aparta, Estira, Deja
<1>3. Mia(h, l.ruta) /\ Forma
  BY <1>1 DEF RInv, Pedido, IInv
<1>4. \/ Responder(h) /\ UNCHANGED tabla
      \/ /\ e # NoEsta /\ Alta(h, e, "DIRECTORY", FIN)
         /\ Copiando(h, <<"tabla">>, "libre")
  BY DEF MkdirMux
<1>5. Inerte(m)
  BY <1>3, <1>4, RespondeInerte
<1>6. e # NoEsta => e \in Entradas /\ tabla[e].estado = "DELETED"
  BY PrimeraDe
<1>. HIDE DEF e
<1>7. CASE UNCHANGED tabla
  BY <1>1, <1>2, <1>5, <1>7, PasoInerte DEF estructuras
<1>8. CASE e # NoEsta /\ Alta(h, e, "DIRECTORY", FIN)
  <2>1. tabla \in [Entradas -> Entrada]
    BY <1>6, <1>8, Fichas
  <2>2. /\ \A i \in Entradas \ {e} : tabla'[i] = tabla[i]
        /\ tabla'[e].estado = "DIRECTORY" /\ tabla'[e].primero = FIN
        /\ tabla'[e].nombre = Last(l.ruta)
    BY <1>6, <1>8, <2>1 DEF Alta
  <2>3. Solo \/ \E q \in Rutas[h] : tabla'[e].nombre = Last(q)
    BY <1>3, <2>2 DEF Mia
  <2>4. n[e] = 0
    BY <1>2, <1>6, <1>8, SinBloques
  <2>5. De(h, e)
    <3>1. \A g \in Hilos : loc[g].pc # "createAlta"
      BY <1>1, SupuestoOsada DEF IInv, Tomado, EnSeccion
    <3>. QED BY <1>6, <1>8, <3>1 DEF De
  <2>. HIDE DEF m, l
  <2>6. FilaBien(e, tabla', fat, c, n, loc')
    BY <2>2, <2>4, FilaVacia
  <2>7. Hebra(h, m, tabla', fat, c, n) /\ ~Aparta(m)
    BY <1>5, InerteHebra
  <2>. QED BY <1>1, <1>2, <1>6, <1>8, <2>2, <2>3, <2>5, <2>6, <2>7, PasoTabla DEF m, l
<1>. QED BY <1>4, <1>7, <1>8

\* unlink deletes the entry, and goes on to the blocks.
LEMMA CuadraBaja ==
  ASSUME Apartados, TInv, Forma, RInv, NEW h \in Hilos, Ajenos(h), UnlinkBaja(h),
         NEW c, NEW n, Cuadra(tabla, fat, bitmap, loc, c, n)
  PROVE  Cuadra(tabla', fat', bitmap', loc', c, n)
<1>. DEFINE l == loc[h]
            m == loc'[h]
            e == l.pos
<1>1. l.pc = "unlinkBaja" /\ fat' = fat /\ bitmap' = bitmap
  BY DEF UnlinkBaja, En
<1>2. ~Corto(l) /\ ~Aparta(l) /\ ~Estira(l) /\ ~Deja(l) /\ Usa(l) /\ Arch(l) = e
  BY <1>1 DEF Corto, Aparta, Estira, Deja, Usa, Arch, EnWpos
<1>3. Usado(h, l, tabla) /\ LocalBien(l)
  BY DeHilo DEF Cuadra, Hebra
<1>4. e \in Entradas /\ Suya(h, tabla, e) /\ l.luego = "libre"
  BY <1>1, <1>2, <1>3 DEF Usado, LocalBien
<1>5. tabla \in [Entradas -> Entrada] /\ FilaBien(e, tabla, fat, c, n, loc)
  BY <1>4, Fichas DEF Cuadra
<1>6. \/ Responder(h) /\ UNCHANGED tabla
      \/ tabla' = [tabla EXCEPT ![e].estado = "DELETED"] /\ Ir(h, "unlinkPrimero")
  BY DEF UnlinkBaja
<1>7. CASE Responder(h) /\ UNCHANGED tabla
  BY <1>1, <1>2, <1>7, RespondeInerte, PasoInerte DEF estructuras
<1>8. CASE tabla' = [tabla EXCEPT ![e].estado = "DELETED"] /\ Ir(h, "unlinkPrimero")
  <2>1. /\ \A i \in Entradas \ {e} : tabla'[i] = tabla[i]
        /\ tabla'[e].nombre = tabla[e].nombre /\ tabla'[e].estado = "DELETED"
        /\ tabla'[e].padre = tabla[e].padre /\ tabla'[e].primero = tabla[e].primero
    BY <1>4, <1>5, <1>8 DEF Entrada
  <2>2. m.pc = "unlinkPrimero" /\ m.luego = "libre" /\ m.pos = e
    BY <1>4, <1>8, IrCambia DEF Prosigue
  <2>3. m = loc'[h]
    OBVIOUS
  <2>. HIDE DEF m, l, e
  <2>4. Deja(m)
    BY <2>2 DEF Deja
  <2>5. tabla[e].primero = IF n[e] > 0 THEN c[e][0] ELSE FIN
    <3>1. tabla[e].estado \in {"REGULAR", "DIRECTORY"}
      <4>1. tabla[e] \in Entrada /\ tabla[e].estado # "DELETED"
        BY <1>4, <1>5 DEF Suya
      <4>. QED BY <4>1 DEF Entrada
    <3>2. tabla[e].estado = "REGULAR" => n[e] > 0 /\ c[e][0] = tabla[e].primero
      BY <1>5 DEF FilaBien
    <3>3. tabla[e].estado = "DIRECTORY" => ~(n[e] > 0) /\ tabla[e].primero = FIN
      <4>1. tabla[e].estado = "DIRECTORY" => n[e] = 0 /\ tabla[e].primero = FIN
        BY <1>5 DEF FilaBien
      <4>. QED BY <4>1
    <3>. QED BY <3>1, <3>2, <3>3
  <2>6. Dejada(m, tabla', fat, c, n)
    BY <1>4, <2>1, <2>2, <2>5 DEF Dejada
  <2>7. Hebra(h, m, tabla', fat, c, n) /\ ~Aparta(m) /\ ~Corto(m)
    BY <2>2, <2>4, <2>6, DejaHebra
  <2>8. FilaBien(e, tabla', fat, c, n, loc')
    <3>1. (\A g \in Hilos : ~(Corto(loc'[g]) /\ loc'[g].pos = e)) => \A g \in Hilos : ~(Corto(loc[g]) /\ loc[g].pos = e)
      BY <1>2 DEF Ajenos, l
    <3>2. ~(\A g \in Hilos : ~(Deja(loc'[g]) /\ loc'[g].pos = e))
      BY <2>2, <2>3, <2>4
    <3>. QED BY <1>5, <2>1, <3>1, <3>2 DEF FilaBien
  <2>9. De(h, e)
    BY <1>4 DEF De
  <2>. QED BY <1>1, <1>2, <1>4, <2>1, <2>7, <2>8, <2>9, PasoTabla DEF m, l
<1>. QED BY <1>6, <1>7, <1>8

\* ftruncate writes the size.
LEMMA CuadraTamanio ==
  ASSUME Apartados, TInv, Forma, RInv, NEW h \in Hilos, Ajenos(h), Tamanio(h),
         NEW c, NEW n, Cuadra(tabla, fat, bitmap, loc, c, n)
  PROVE  Cuadra(tabla', fat', bitmap', loc', c, n)
<1>. DEFINE l == loc[h]
            m == loc'[h]
            e == l.pos
<1>1. /\ l.pc = "cola" /\ l.abm = 0 /\ fat' = fat /\ bitmap' = bitmap
      /\ tabla' = [tabla EXCEPT ![e].tam = l.tam] /\ Copiando(h, <<"tabla">>, "truncado")
  BY DEF Tamanio, En
<1>2. ~Corto(l) /\ ~Aparta(l) /\ Estira(l) /\ ~Deja(l) /\ Usa(l) /\ Arch(l) = e
  BY <1>1, EstiraUsa DEF Corto, Aparta, Estira
<1>3. Usado(h, l, tabla) /\ Largo(l, tabla, c, n)
  BY DEF Cuadra, Hebra
<1>4. e \in Entradas /\ Suya(h, tabla, e)
  BY <1>2, <1>3 DEF Usado
<1>5. tabla \in [Entradas -> Entrada] /\ FilaBien(e, tabla, fat, c, n, loc)
  BY <1>4, Fichas DEF Cuadra
<1>6. /\ \A i \in Entradas \ {e} : tabla'[i] = tabla[i]
      /\ tabla'[e].nombre = tabla[e].nombre /\ tabla'[e].padre = tabla[e].padre
      /\ tabla'[e].estado = tabla[e].estado /\ tabla'[e].primero = tabla[e].primero
      /\ tabla'[e].tam = l.tam
  BY <1>1, <1>4, <1>5 DEF Entrada
<1>7. m.pc = "copiar" /\ m.luego = "truncado" /\ Prosigue(m, l)
  BY <1>1, CopiandoCambia
<1>8. tabla[e].estado = "REGULAR" => n[e] >= BloquesDe(l.tam)
  <2>1. tabla[e].estado = "REGULAR" => n[e] + Faltan(l) >= BloquesDe(l.tam)
    BY <1>2, <1>3 DEF Largo
  <2>2. Faltan(l) = 0
    BY <1>1, <1>2 DEF Faltan
  <2>3. n[e] + 0 = n[e]
    <3>1. n[e] \in Nat
      BY <1>5 DEF FilaBien
    <3>. QED BY <3>1
  <2>. QED BY <2>1, <2>2, <2>3
<1>9. m = loc'[h]
  OBVIOUS
<1>10. Trunco(m) /\ ~Estira(m) /\ ~Aparta(m) /\ ~Corto(m) /\ ~Deja(m)
  BY <1>7 DEF Trunco, Estira, Aparta, Corto, Deja
<1>. HIDE DEF m, l, e
<1>11. Hebra(h, m, tabla', fat, c, n)
  <2>1. Usado(h, m, tabla')
    <3>1. Suya(h, tabla', l.pos)
      BY <1>4, <1>6 DEF Suya, e
    <3>2. ~Estira(m) /\ Trunco(m)
      BY <1>10
    <3>3. Usa(m) /\ Arch(m) = m.pos /\ ~EnWpos(m)
      BY <3>2, EstiraUsa
    <3>4. m.pos = e /\ m.wpos = l.wpos /\ m.tam = l.tam /\ m.desde = l.desde /\ m.vuelve = l.vuelve
      BY <1>7 DEF Prosigue, e
    <3>5. l.vuelve = "write" => l.wpos = e /\ l.desde < l.tam
      BY <1>2, <1>3 DEF Usado, Escribe, e
    <3>6. Escribe(m) => m.vuelve = "write"
      BY <1>7 DEF Escribe
    <3>. QED BY <1>4, <1>7, <3>1, <3>3, <3>4, <3>5, <3>6 DEF Usado, e
  <2>2. Puesto(m, fat, c, n) /\ Dejada(m, tabla', fat, c, n)
    BY <1>7, <1>10 DEF Puesto, Dejada
  <2>3. Largo(m, tabla', c, n)
    BY <1>6, <1>7, <1>8, <1>10 DEF Largo, Prosigue, e
  <2>. QED BY <2>1, <2>2, <2>3 DEF Hebra
<1>12. FilaBien(e, tabla', fat, c, n, loc')
  <2>1. (\A g \in Hilos : ~(Corto(loc'[g]) /\ loc'[g].pos = e)) => \A g \in Hilos : ~(Corto(loc[g]) /\ loc[g].pos = e)
    BY <1>2 DEF Ajenos, l
  <2>2. (\A g \in Hilos : ~(Deja(loc'[g]) /\ loc'[g].pos = e)) => \A g \in Hilos : ~(Deja(loc[g]) /\ loc[g].pos = e)
    BY <1>2 DEF Ajenos, l
  <2>. QED BY <1>5, <1>6, <1>8, <2>1, <2>2 DEF FilaBien
<1>13. De(h, e)
  BY <1>4 DEF De
<1>. QED BY <1>1, <1>2, <1>4, <1>6, <1>10, <1>11, <1>12, <1>13, PasoTabla DEF m, l, e

-----------------------------------------------------------------------------
(* Blocks that come to a chain, or leave it. *)

\* The chain of e gets x at its end, loses its last block, or its first.
Agrega(e, x, c, n, c2, n2) ==
  /\ \A i \in Entradas \ {e} : c2[i] = c[i] /\ n2[i] = n[i]
  /\ n2[e] = n[e] + 1 /\ c2[e][n[e]] = x /\ \A k \in Nat : k < n[e] => c2[e][k] = c[e][k]
QuitaFin(e, c, n, c2, n2) ==
  /\ \A i \in Entradas \ {e} : c2[i] = c[i] /\ n2[i] = n[i]
  /\ n2[e] = n[e] - 1 /\ c2[e] = c[e]
QuitaCabeza(e, c, n, c2, n2) ==
  /\ \A i \in Entradas \ {e} : c2[i] = c[i] /\ n2[i] = n[i]
  /\ n2[e] = n[e] - 1 /\ \A k \in Nat : c2[e][k] = c[e][k + 1]

\* The chains with a block more at the end, a block less there, or a block less at the start.
LEMMA HayCadenas ==
  ASSUME NEW e \in Entradas, NEW x, NEW c, NEW n, \A i \in Entradas : n[i] \in Nat
  PROVE  /\ \E c2, n2 : Agrega(e, x, c, n, c2, n2)
         /\ \E n2 : QuitaFin(e, c, n, c, n2)
         /\ \E c2, n2 : QuitaCabeza(e, c, n, c2, n2)
<1>1. \E c2, n2 : Agrega(e, x, c, n, c2, n2)
  <2>. DEFINE d == [k \in Nat |-> IF k = n[e] THEN x ELSE c[e][k]]
              c2 == [i \in Entradas |-> IF i = e THEN d ELSE c[i]]
              n2 == [i \in Entradas |-> IF i = e THEN n[e] + 1 ELSE n[i]]
  <2>1. n[e] \in Nat /\ \A k \in Nat : k < n[e] => k # n[e]
    OBVIOUS
  <2>2. d[n[e]] = x /\ \A k \in Nat : k < n[e] => d[k] = c[e][k]
    BY <2>1
  <2>. HIDE DEF d
  <2>3. /\ \A i \in Entradas \ {e} : c2[i] = c[i] /\ n2[i] = n[i]
        /\ c2[e] = d /\ n2[e] = n[e] + 1
    OBVIOUS
  <2>4. Agrega(e, x, c, n, c2, n2)
    <3>. HIDE DEF c2, n2
    <3>. QED BY <2>2, <2>3 DEF Agrega
  <2>. QED BY <2>4
<1>2. \E n2 : QuitaFin(e, c, n, c, n2)
  <2>. DEFINE n2 == [i \in Entradas |-> IF i = e THEN n[e] - 1 ELSE n[i]]
  <2>1. (\A i \in Entradas \ {e} : n2[i] = n[i]) /\ n2[e] = n[e] - 1
    OBVIOUS
  <2>2. QuitaFin(e, c, n, c, n2)
    <3>. HIDE DEF n2
    <3>. QED BY <2>1 DEF QuitaFin
  <2>. QED BY <2>2
<1>3. \E c2, n2 : QuitaCabeza(e, c, n, c2, n2)
  <2>. DEFINE d == [k \in Nat |-> c[e][k + 1]]
              c2 == [i \in Entradas |-> IF i = e THEN d ELSE c[i]]
              n2 == [i \in Entradas |-> IF i = e THEN n[e] - 1 ELSE n[i]]
  <2>1. \A k \in Nat : d[k] = c[e][k + 1]
    OBVIOUS
  <2>. HIDE DEF d
  <2>2. /\ \A i \in Entradas \ {e} : c2[i] = c[i] /\ n2[i] = n[i]
        /\ c2[e] = d /\ n2[e] = n[e] - 1
    OBVIOUS
  <2>3. QuitaCabeza(e, c, n, c2, n2)
    <3>. HIDE DEF c2, n2
    <3>. QED BY <2>1, <2>2 DEF QuitaCabeza
  <2>. QED BY <2>3
<1>. QED BY <1>1, <1>2, <1>3

\* A block in no chain comes to one.
LEMMA AgregaBien ==
  ASSUME NEW e \in Entradas, NEW x, NEW c, NEW n, NEW c2, NEW n2, \A i \in Entradas : n[i] \in Nat,
         Separadas(c, n), ~EnCadena(x, c, n), Agrega(e, x, c, n, c2, n2)
  PROVE  /\ Separadas(c2, n2)
         /\ \A y : EnCadena(y, c2, n2) <=> EnCadena(y, c, n) \/ y = x
<1>1. ASSUME NEW i \in Entradas, NEW k \in Nat
      PROVE  k < n2[i] <=> k < n[i] \/ (i = e /\ k = n[e])
  <2>1. CASE i = e
    <3>1. n2[e] = n[e] + 1 /\ n[e] \in Nat
      BY DEF Agrega
    <3>. QED BY <2>1, <3>1
  <2>2. CASE i # e
    BY <2>2 DEF Agrega
  <2>. QED BY <2>1, <2>2
<1>2. ASSUME NEW i \in Entradas, NEW k \in Nat, k < n[i]
      PROVE  c2[i][k] = c[i][k] /\ c2[i][k] # x /\ ~(i = e /\ k = n[e])
  <2>1. c2[i][k] = c[i][k]
    BY <1>2 DEF Agrega
  <2>2. c[i][k] # x
    BY <1>2 DEF EnCadena
  <2>3. ~(k < k)
    OBVIOUS
  <2>. QED BY <1>2, <2>1, <2>2, <2>3
<1>3. c2[e][n[e]] = x /\ n[e] \in Nat
  BY DEF Agrega
<1>4. ASSUME NEW i \in Entradas, NEW j \in Entradas, NEW k \in Nat, NEW o \in Nat,
             k < n2[i], o < n2[j], c2[i][k] = c2[j][o]
      PROVE  i = j /\ k = o
  <2>1. CASE k < n[i] /\ o < n[j]
    BY <1>2, <1>4, <2>1 DEF Separadas
  <2>2. CASE ~(k < n[i]) \/ ~(o < n[j])
    <3>1. (k < n[i] \/ (i = e /\ k = n[e])) /\ (o < n[j] \/ (j = e /\ o = n[e]))
      BY <1>1, <1>4
    <3>. QED BY <1>2, <1>3, <1>4, <2>2, <3>1
  <2>. QED BY <2>1, <2>2
<1>5. ASSUME NEW y PROVE EnCadena(y, c2, n2) <=> EnCadena(y, c, n) \/ y = x
  <2>1. EnCadena(y, c2, n2) => EnCadena(y, c, n) \/ y = x
    BY <1>1, <1>2, <1>3 DEF EnCadena
  <2>2. EnCadena(y, c, n) => EnCadena(y, c2, n2)
    BY <1>1, <1>2 DEF EnCadena
  <2>3. EnCadena(x, c2, n2)
    BY <1>1, <1>3 DEF EnCadena
  <2>. QED BY <2>1, <2>2, <2>3
<1>. QED BY <1>4, <1>5 DEF Separadas

\* The last block of a chain leaves it.
LEMMA QuitaFinBien ==
  ASSUME NEW e \in Entradas, NEW c, NEW n, NEW n2, \A i \in Entradas : n[i] \in Nat, n[e] > 0,
         Separadas(c, n), QuitaFin(e, c, n, c, n2)
  PROVE  /\ Separadas(c, n2) /\ EnCadena(c[e][n[e] - 1], c, n) /\ n[e] - 1 \in Nat
         /\ \A y : EnCadena(y, c, n2) <=> EnCadena(y, c, n) /\ y # c[e][n[e] - 1]
<1>1. n[e] - 1 \in Nat /\ n[e] - 1 < n[e]
  <2>1. n[e] \in Nat
    OBVIOUS
  <2>. QED BY <2>1
<1>2. ASSUME NEW i \in Entradas, NEW k \in Nat
      PROVE  k < n2[i] <=> k < n[i] /\ ~(i = e /\ k = n[e] - 1)
  <2>1. CASE i = e
    <3>1. n2[e] = n[e] - 1 /\ n[e] \in Nat
      BY DEF QuitaFin
    <3>. QED BY <2>1, <3>1
  <2>2. CASE i # e
    BY <2>2 DEF QuitaFin
  <2>. QED BY <2>1, <2>2
<1>3. Separadas(c, n2)
  BY <1>2 DEF Separadas
<1>4. EnCadena(c[e][n[e] - 1], c, n)
  BY <1>1 DEF EnCadena
<1>5. ASSUME NEW y PROVE EnCadena(y, c, n2) <=> EnCadena(y, c, n) /\ y # c[e][n[e] - 1]
  <2>1. EnCadena(y, c, n2) => EnCadena(y, c, n)
    BY <1>2 DEF EnCadena
  <2>2. ~EnCadena(c[e][n[e] - 1], c, n2)
    BY <1>1, <1>2 DEF EnCadena, Separadas
  <2>3. EnCadena(y, c, n) /\ y # c[e][n[e] - 1] => EnCadena(y, c, n2)
    BY <1>2 DEF EnCadena
  <2>. QED BY <2>1, <2>2, <2>3
<1>. QED BY <1>1, <1>3, <1>4, <1>5

\* The first block of a chain leaves it.
LEMMA QuitaCabezaBien ==
  ASSUME NEW e \in Entradas, NEW c, NEW n, NEW c2, NEW n2, \A i \in Entradas : n[i] \in Nat, n[e] > 0,
         Separadas(c, n), QuitaCabeza(e, c, n, c2, n2)
  PROVE  /\ Separadas(c2, n2) /\ EnCadena(c[e][0], c, n)
         /\ \A y : EnCadena(y, c2, n2) <=> EnCadena(y, c, n) /\ y # c[e][0]
<1>. DEFINE P(i, k) == IF i = e THEN k + 1 ELSE k
<1>1. ASSUME NEW i \in Entradas, NEW k \in Nat
      PROVE  /\ k < n2[i] <=> P(i, k) < n[i]
             /\ c2[i][k] = c[i][P(i, k)] /\ P(i, k) \in Nat
  <2>1. CASE i = e
    <3>1. n2[e] = n[e] - 1 /\ n[e] \in Nat /\ c2[e][k] = c[e][k + 1]
      BY DEF QuitaCabeza
    <3>. QED BY <2>1, <3>1
  <2>2. CASE i # e
    BY <2>2 DEF QuitaCabeza
  <2>. QED BY <2>1, <2>2
<1>2. \A i \in Entradas : \A k, o \in Nat : P(i, k) = P(i, o) => k = o
  OBVIOUS
<1>3. \A i \in Entradas : \A k \in Nat : ~(i = e /\ P(i, k) = 0)
  OBVIOUS
<1>4. \A i \in Entradas : \A o \in Nat : ~(i = e /\ o = 0) => \E k \in Nat : P(i, k) = o
  <2>1. ASSUME NEW i \in Entradas, NEW o \in Nat, ~(i = e /\ o = 0)
        PROVE  \E k \in Nat : P(i, k) = o
    <3>1. CASE i = e
      <4>1. o - 1 \in Nat /\ P(i, o - 1) = o
        BY <2>1, <3>1
      <4>. QED BY <4>1
    <3>2. CASE i # e
      BY <3>2
    <3>. QED BY <3>1, <3>2
  <2>. QED BY <2>1
<1>. HIDE DEF P
<1>5. Separadas(c2, n2)
  <2>1. SUFFICES ASSUME NEW i \in Entradas, NEW j \in Entradas, NEW k \in Nat, NEW o \in Nat,
                        k < n2[i], o < n2[j], c2[i][k] = c2[j][o]
                 PROVE  i = j /\ k = o
    BY DEF Separadas
  <2>2. i = j /\ P(i, k) = P(j, o)
    <3>1. PICK x \in Nat, y \in Nat : x = P(i, k) /\ y = P(j, o)
      BY <1>1
    <3>2. x < n[i] /\ y < n[j] /\ c[i][x] = c[j][y]
      BY <1>1, <2>1, <3>1
    <3>. QED BY <3>1, <3>2 DEF Separadas
  <2>. QED BY <1>2, <2>2
<1>6. 0 < n[e] /\ EnCadena(c[e][0], c, n)
  <2>1. 0 < n[e]
    OBVIOUS
  <2>. QED BY <2>1 DEF EnCadena
<1>7. ASSUME NEW y PROVE EnCadena(y, c2, n2) <=> EnCadena(y, c, n) /\ y # c[e][0]
  <2>1. EnCadena(y, c2, n2) => EnCadena(y, c, n)
    BY <1>1 DEF EnCadena
  <2>2. ~EnCadena(c[e][0], c2, n2)
    <3>1. SUFFICES ASSUME NEW i \in Entradas, NEW k \in Nat, k < n2[i], c2[i][k] = c[e][0] PROVE FALSE
      BY DEF EnCadena
    <3>2. i = e /\ P(i, k) = 0
      BY <1>1, <1>6, <3>1 DEF Separadas
    <3>. QED BY <1>3, <3>2
  <2>3. EnCadena(y, c, n) /\ y # c[e][0] => EnCadena(y, c2, n2)
    <3>1. SUFFICES ASSUME NEW i \in Entradas, NEW o \in Nat, o < n[i], c[i][o] = y, y # c[e][0]
                   PROVE  EnCadena(y, c2, n2)
      BY DEF EnCadena
    <3>2. PICK k \in Nat : P(i, k) = o
      BY <1>4, <3>1
    <3>. QED BY <1>1, <3>1, <3>2 DEF EnCadena
  <2>. QED BY <2>1, <2>2, <2>3
<1>. QED BY <1>5, <1>6, <1>7

-----------------------------------------------------------------------------
(* The steps that mark or free a block. *)

\* h marks x, which was of no chain.
LEMMA MarcaNueva ==
  ASSUME NEW h \in Hilos, Ajenos(h), NEW b, NEW c, NEW n, Marcas(b, c, n, loc), NEW x \in Bloques \ b,
         ~Aparta(loc[h]), Aparta(loc'[h]), loc'[h].blk = x
  PROVE  Marcas(b \cup {x}, c, n, loc')
<1>1. \A g \in Hilos \ {h} : loc'[g] = loc[g]
  BY DEF Ajenos
<1>2. ~EnCadena(x, c, n) /\ \A g \in Hilos : ~(Aparta(loc[g]) /\ loc[g].blk = x)
  BY DEF Marcas
<1>3. \A y : (\E g \in Hilos : Aparta(loc'[g]) /\ loc'[g].blk = y)
               <=> y = x \/ \E g \in Hilos : Aparta(loc[g]) /\ loc[g].blk = y
  BY <1>1
<1>4. \A y \in Bloques : y \in b \cup {x} <=>
        EnCadena(y, c, n) \/ \E g \in Hilos : Aparta(loc'[g]) /\ loc'[g].blk = y
  BY <1>3 DEF Marcas
<1>. QED BY <1>1, <1>2, <1>4 DEF Marcas

\* h goes on with the block it has marked.
LEMMA MarcaQueda ==
  ASSUME NEW h \in Hilos, Ajenos(h), NEW b, NEW c, NEW n, Marcas(b, c, n, loc),
         Aparta(loc[h]), Aparta(loc'[h]), loc'[h].blk = loc[h].blk
  PROVE  Marcas(b, c, n, loc')
<1>1. \A g \in Hilos : (Aparta(loc'[g]) <=> Aparta(loc[g])) /\ (Aparta(loc[g]) => loc'[g].blk = loc[g].blk)
  BY DEF Ajenos
<1>. QED BY <1>1 DEF Marcas

\* The block x comes to a chain: h had marked it, or marks it now.
LEMMA MarcaEntra ==
  ASSUME NEW h \in Hilos, Ajenos(h), NEW b, NEW c, NEW n, NEW c2, NEW n2, Marcas(b, c, n, loc),
         NEW x \in Bloques, \A y : EnCadena(y, c2, n2) <=> EnCadena(y, c, n) \/ y = x,
         ~Aparta(loc'[h]), IF Aparta(loc[h]) THEN loc[h].blk = x ELSE x \notin b
  PROVE  Marcas(b \cup {x}, c2, n2, loc') /\ (Aparta(loc[h]) => x \in b)
<1>1. \A g \in Hilos \ {h} : loc'[g] = loc[g]
  BY DEF Ajenos
<1>2. \A g \in Hilos \ {h} : ~(Aparta(loc[g]) /\ loc[g].blk = x)
  BY DEF Marcas
<1>3. \A y : (\E g \in Hilos : Aparta(loc[g]) /\ loc[g].blk = y)
               => y = x \/ \E g \in Hilos : Aparta(loc'[g]) /\ loc'[g].blk = y
  BY <1>1
<1>4. \A y : (\E g \in Hilos : Aparta(loc'[g]) /\ loc'[g].blk = y)
               => \E g \in Hilos : Aparta(loc[g]) /\ loc[g].blk = y
  BY <1>1
<1>5. \A y \in Bloques : y \in b \cup {x} <=>
        EnCadena(y, c2, n2) \/ \E g \in Hilos : Aparta(loc'[g]) /\ loc'[g].blk = y
  BY <1>3, <1>4 DEF Marcas
<1>6. \A g \in Hilos : Aparta(loc'[g]) => g # h /\ loc'[g] = loc[g] /\ loc[g].blk # x
  BY <1>1, <1>2
<1>7. b \cup {x} \subseteq Bloques
  BY DEF Marcas
<1>8. \A g \in Hilos : Aparta(loc'[g]) =>
        /\ loc'[g].blk \in Bloques /\ ~EnCadena(loc'[g].blk, c2, n2)
        /\ \A j \in Hilos \ {g} : ~(Aparta(loc'[j]) /\ loc'[j].blk = loc'[g].blk)
  BY <1>6 DEF Marcas
<1>9. Aparta(loc[h]) => x \in b
  BY DEF Marcas
<1>. QED BY <1>5, <1>7, <1>8, <1>9 DEF Marcas

\* The block x leaves its chain.
LEMMA MarcaSale ==
  ASSUME NEW h \in Hilos, Ajenos(h), NEW b, NEW c, NEW n, NEW c2, NEW n2, Marcas(b, c, n, loc),
         NEW x, EnCadena(x, c, n), \A y : EnCadena(y, c2, n2) <=> EnCadena(y, c, n) /\ y # x,
         ~Aparta(loc[h]), ~Aparta(loc'[h])
  PROVE  Marcas(b \ {x}, c2, n2, loc')
<1>1. \A g \in Hilos : (Aparta(loc'[g]) <=> Aparta(loc[g])) /\ (Aparta(loc[g]) => loc'[g] = loc[g])
  BY DEF Ajenos
<1>2. \A g \in Hilos : Aparta(loc[g]) => loc[g].blk # x
  BY DEF Marcas
<1>3. \A y \in Bloques : y \in b \ {x} <=>
        EnCadena(y, c2, n2) \/ \E g \in Hilos : Aparta(loc'[g]) /\ loc'[g].blk = y
  BY <1>1, <1>2 DEF Marcas
<1>. QED BY <1>1, <1>2, <1>3 DEF Marcas

\* A thread that goes on changing the chain of its file.
LEMMA EstiraPuesta ==
  ASSUME Apartados, TInv, NEW h \in Hilos, NEW c, NEW n, Cuadra(tabla, fat, bitmap, loc, c, n), Estira(loc[h])
  PROVE  /\ Usado(h, loc[h], tabla) /\ Puesto(loc[h], fat, c, n) /\ Largo(loc[h], tabla, c, n)
         /\ LocalBien(loc[h]) /\ loc[h].pos \in Entradas /\ Suya(h, tabla, loc[h].pos) /\ De(h, loc[h].pos)
         /\ FilaBien(loc[h].pos, tabla, fat, c, n, loc) /\ n[loc[h].pos] \in Nat
         /\ Separadas(c, n) /\ Marcas(bitmap, c, n, loc)
         /\ \A g \in Hilos \ {h} : ~((Estira(loc[g]) \/ Corto(loc[g]) \/ Deja(loc[g])) /\ loc[g].pos = loc[h].pos)
         /\ tabla[loc[h].pos].estado \in {"REGULAR", "DIRECTORY"}
         /\ (n[loc[h].pos] > 0 => tabla[loc[h].pos].estado = "REGULAR" /\ c[loc[h].pos][0] = tabla[loc[h].pos].primero)
         /\ (\A k \in Nat : k < n[loc[h].pos] => c[loc[h].pos][k] \in Bloques)
         /\ (\A k \in Nat : k + 1 < n[loc[h].pos] => fat[c[loc[h].pos][k]] = c[loc[h].pos][k + 1])
         /\ (~Corto(loc[h]) /\ n[loc[h].pos] > 0 => fat[c[loc[h].pos][n[loc[h].pos] - 1]] = FIN)
<1>. DEFINE l == loc[h]
            e == l.pos
<1>1. Usa(l) /\ Arch(l) = e
  BY EstiraUsa
<1>2. Usado(h, l, tabla) /\ Puesto(l, fat, c, n) /\ Largo(l, tabla, c, n) /\ LocalBien(l)
  BY DeHilo DEF Cuadra, Hebra
<1>3. e \in Entradas /\ Suya(h, tabla, e)
  BY <1>1, <1>2 DEF Usado
<1>4. FilaBien(e, tabla, fat, c, n, loc) /\ n[e] \in Nat /\ Separadas(c, n) /\ Marcas(bitmap, c, n, loc)
  BY <1>3 DEF Cuadra, FilaBien
<1>5. \A g \in Hilos \ {h} : ~((Estira(loc[g]) \/ Corto(loc[g])) /\ loc[g].pos = e)
  BY <1>3, NadieEstira
<1>6. \A g \in Hilos : Deja(loc[g]) => tabla[loc[g].pos].estado = "DELETED"
  BY DEF Cuadra, Hebra, Dejada
<1>7. tabla[e].estado # "DELETED"
  BY <1>3 DEF Suya
<1>8. tabla[e].estado \in {"REGULAR", "DIRECTORY"}
  BY <1>3, <1>7, Fichas DEF Entrada
<1>9. n[e] > 0 => tabla[e].estado = "REGULAR" /\ c[e][0] = tabla[e].primero
  <2>1. n[e] = 0 => ~(n[e] > 0)
    OBVIOUS
  <2>. QED BY <1>4, <1>8, <2>1 DEF FilaBien
<1>10. ~Corto(l) /\ n[e] > 0 => fat[c[e][n[e] - 1]] = FIN
  BY <1>4, <1>5 DEF FilaBien
<1>11. (\A k \in Nat : k < n[e] => c[e][k] \in Bloques) /\ \A k \in Nat : k + 1 < n[e] => fat[c[e][k]] = c[e][k + 1]
  BY <1>4 DEF FilaBien
<1>. QED BY <1>2, <1>3, <1>4, <1>5, <1>6, <1>7, <1>8, <1>9, <1>10, <1>11 DEF De

\* The row of a file that h goes on changing.
LEMMA FilaMia ==
  ASSUME NEW h \in Hilos, NEW e, NEW t, NEW f, NEW c, NEW n, Estira(loc'[h]), loc'[h].pos = e,
         t[e].estado = "REGULAR", n[e] \in Nat, n[e] > 0, c[e][0] = t[e].primero,
         \A k \in Nat : k < n[e] => c[e][k] \in Bloques,
         \A k \in Nat : k + 1 < n[e] => f[c[e][k]] = c[e][k + 1],
         Corto(loc'[h]) \/ f[c[e][n[e] - 1]] = FIN
  PROVE  FilaBien(e, t, f, c, n, loc')
<1>1. ~Ninguno(loc', e)
  BY DEF Ninguno
<1>. QED BY <1>1 DEF FilaBien

\* The block found is marked.
LEMMA CuadraMarcar ==
  ASSUME Apartados, TInv, IInv, RInv, NEW h \in Hilos, Ajenos(h), Marcar(h),
         NEW c, NEW n, Cuadra(tabla, fat, bitmap, loc, c, n)
  PROVE  Cuadra(tabla', fat', bitmap', loc', c, n)
<1>. DEFINE l == loc[h]
            m == loc'[h]
            e == l.pos
<1>1. /\ l.pc = "marcar" /\ fat' = fat /\ tabla' = tabla /\ bitmap' = bitmap \cup {l.blk}
      /\ Ir(h, "enlazar") /\ Forma
  BY DEF Marcar, En, IInv
<1>2. ~Corto(l) /\ ~Aparta(l) /\ Estira(l) /\ ~Deja(l)
  BY <1>1, EstiraUsa DEF Corto, Aparta, Estira
<1>3. /\ Usado(h, l, tabla) /\ Puesto(l, fat, c, n) /\ Largo(l, tabla, c, n)
      /\ LocalBien(l) /\ e \in Entradas /\ Suya(h, tabla, e) /\ De(h, e)
      /\ Separadas(c, n) /\ Marcas(bitmap, c, n, loc)
      /\ n[e] \in Nat /\ (n[e] > 0 => tabla[e].estado = "REGULAR" /\ c[e][0] = tabla[e].primero)
      /\ (\A k \in Nat : k < n[e] => c[e][k] \in Bloques)
      /\ (\A k \in Nat : k + 1 < n[e] => fat[c[e][k]] = c[e][k + 1])
      /\ (~Corto(l) /\ n[e] > 0 => fat[c[e][n[e] - 1]] = FIN)
  BY <1>2, EstiraPuesta, SMTT(40)
<1>4. l.blk \in Bloques \ bitmap /\ l.luego = "libre"
  <2>1. Reservando(h)
    BY <1>1 DEF Reservando
  <2>. QED BY <1>1, <1>3, <2>1 DEF IInv, Hallado, LocalBien
<1>5. m.pc = "enlazar" /\ Prosigue(m, l) /\ m.luego = "libre" /\ m.blk = l.blk /\ m.ant = l.ant
      /\ m.abm = l.abm
  BY <1>1, <1>4, IrCambia
<1>6. Estira(m) /\ Aparta(m) /\ ~Corto(m) /\ ~Deja(m) /\ ~Trunco(m)
  BY <1>5 DEF Estira, Aparta, Corto, Deja, Trunco
<1>7. m = loc'[h]
  OBVIOUS
<1>. HIDE DEF m, l, e
<1>8. Hebra(h, m, tabla, fat, c, n)
  <2>1. Usado(h, m, tabla)
    BY <1>2, <1>3, <1>5, <1>6, EstiraUsado DEF e
  <2>2. Puesto(m, fat, c, n) /\ Dejada(m, tabla, fat, c, n)
    BY <1>1, <1>3, <1>5, <1>6 DEF Puesto, Dejada, Prosigue
  <2>3. Largo(m, tabla, c, n)
    BY <1>2, <1>3, <1>5, <1>6 DEF Largo, Faltan, Prosigue
  <2>. QED BY <2>1, <2>2, <2>3 DEF Hebra
<1>9. FilaBien(e, tabla, fat, c, n, loc')
  <2>1. n[e] > 0 /\ m.pos = e
    BY <1>1, <1>3, <1>5 DEF Puesto, Prosigue, e
  <2>2. /\ tabla[e].estado = "REGULAR" /\ n[e] \in Nat /\ c[e][0] = tabla[e].primero
        /\ (\A k \in Nat : k < n[e] => c[e][k] \in Bloques)
        /\ (\A k \in Nat : k + 1 < n[e] => fat[c[e][k]] = c[e][k + 1])
        /\ fat[c[e][n[e] - 1]] = FIN
    BY <1>2, <1>3, <2>1
  <2>. QED BY <1>6, <1>7, <2>1, <2>2, FilaMia
<1>10. Marcas(bitmap', c, n, loc')
  BY <1>1, <1>2, <1>3, <1>4, <1>5, <1>6, <1>7, MarcaNueva DEF l
<1>11. Quedan(e, tabla, fat, c, n, tabla', fat', c, n)
  BY <1>1 DEF Quedan
<1>12. Corto(loc[h]) \/ Estira(loc[h]) \/ Deja(loc[h]) => loc[h].pos = e
  BY DEF e, l
<1>. QED BY <1>1, <1>3, <1>7, <1>8, <1>9, <1>10, <1>11, <1>12, Paso

\* Only the last block of a chain gets another link.
LEMMA SoloElFin ==
  ASSUME NEW e \in Entradas, NEW f, NEW f2, NEW c, NEW n, Separadas(c, n), n[e] \in Nat, n[e] > 0,
         \A i \in Entradas : \A k \in Nat : k < n[i] => c[i][k] \in Bloques,
         \A x \in Bloques : x # c[e][n[e] - 1] => f2[x] = f[x]
  PROVE  /\ \A i \in Entradas \ {e} : \A k \in Nat : k < n[i] => f2[c[i][k]] = f[c[i][k]]
         /\ \A k \in Nat : k + 1 < n[e] => f2[c[e][k]] = f[c[e][k]]
<1>. DEFINE a == n[e] - 1
<1>1. a \in Nat /\ a < n[e]
  OBVIOUS
<1>2. \A k \in Nat : k + 1 < n[e] => k < n[e] /\ k # a
  OBVIOUS
<1>. HIDE DEF a
<1>3. ASSUME NEW i \in Entradas, NEW k \in Nat, k < n[i], i # e \/ k # a
      PROVE  f2[c[i][k]] = f[c[i][k]]
  <2>1. c[i][k] # c[e][a]
    BY <1>1, <1>3 DEF Separadas
  <2>2. c[i][k] \in Bloques
    BY <1>3
  <2>. QED BY <2>1, <2>2 DEF a
<1>. QED BY <1>2, <1>3

\* The blocks of all the chains are blocks.
LEMMA DeBloques ==
  ASSUME NEW t, NEW f, NEW b, NEW m, NEW c, NEW n, Cuadra(t, f, b, m, c, n)
  PROVE  /\ \A i \in Entradas : \A k \in Nat : k < n[i] => c[i][k] \in Bloques
         /\ \A i \in Entradas : n[i] \in Nat
BY DEF Cuadra, FilaBien

\* The end of the chain is linked to the block marked.
LEMMA CuadraEnlazar ==
  ASSUME Apartados, TInv, Forma, RInv, NEW h \in Hilos, Ajenos(h), Enlazar(h),
         NEW c, NEW n, Cuadra(tabla, fat, bitmap, loc, c, n)
  PROVE  Cuadra(tabla', fat', bitmap', loc', c, n)
<1>. DEFINE l == loc[h]
            m == loc'[h]
            e == l.pos
<1>1. /\ l.pc = "enlazar" /\ tabla' = tabla /\ bitmap' = bitmap
      /\ fat' = [fat EXCEPT ![l.ant] = l.blk]
      /\ loc' = [loc EXCEPT ![h].pc = "terminar", ![h].luego = "cola", ![h].abm = @ - 1]
  BY DEF Enlazar, En
<1>2. ~Corto(l) /\ Aparta(l) /\ Estira(l) /\ ~Deja(l)
  BY <1>1, EstiraUsa DEF Corto, Aparta, Estira
<1>3. /\ Usado(h, l, tabla) /\ Puesto(l, fat, c, n) /\ Largo(l, tabla, c, n)
      /\ LocalBien(l) /\ e \in Entradas /\ Suya(h, tabla, e) /\ De(h, e)
      /\ Separadas(c, n) /\ Marcas(bitmap, c, n, loc)
      /\ n[e] \in Nat /\ (n[e] > 0 => tabla[e].estado = "REGULAR" /\ c[e][0] = tabla[e].primero)
      /\ (\A k \in Nat : k < n[e] => c[e][k] \in Bloques)
      /\ (\A k \in Nat : k + 1 < n[e] => fat[c[e][k]] = c[e][k + 1])
  BY <1>2, EstiraPuesta, SMTT(40)
<1>4. /\ m.pc = "terminar" /\ m.luego = "cola" /\ Prosigue(m, l) /\ m.blk = l.blk /\ m.ant = l.ant
      /\ m.abm = l.abm - 1
  BY <1>1 DEF Forma, Campos, Prosigue
<1>5. Estira(m) /\ Aparta(m) /\ Corto(m) /\ ~Deja(m) /\ ~Trunco(m)
  BY <1>4 DEF Estira, Aparta, Corto, Deja, Trunco
<1>6. m = loc'[h] /\ l = loc[h] /\ e = l.pos
  OBVIOUS
<1>. HIDE DEF m, l, e
<1>7. n[e] > 0 /\ l.ant = c[e][n[e] - 1] /\ l.abm > 0
  BY <1>1, <1>3, <1>6 DEF Puesto
<1>8. /\ tabla[e].estado = "REGULAR" /\ n[e] \in Nat /\ c[e][0] = tabla[e].primero
      /\ (\A k \in Nat : k < n[e] => c[e][k] \in Bloques)
      /\ (\A k \in Nat : k + 1 < n[e] => fat[c[e][k]] = c[e][k + 1])
  BY <1>3, <1>7
<1>9. n[e] - 1 \in Nat /\ n[e] - 1 < n[e]
  BY <1>7, <1>8
<1>10. fat'[l.ant] = l.blk /\ \A x \in Bloques : x # l.ant => fat'[x] = fat[x]
  <2>1. l.ant \in Bloques /\ fat \in [Bloques -> Bloques \cup {FIN}]
    BY <1>7, <1>8, <1>9 DEF TInv, TypeOK, Fats
  <2>. QED BY <1>1, <2>1
<1>11. /\ Quedan(e, tabla, fat, c, n, tabla, fat', c, n)
       /\ \A k \in Nat : k + 1 < n[e] => fat'[c[e][k]] = fat[c[e][k]]
  <2>1. \A i \in Entradas : \A k \in Nat : k < n[i] => c[i][k] \in Bloques
    BY DeBloques
  <2>2. \A x \in Bloques : x # c[e][n[e] - 1] => fat'[x] = fat[x]
    BY <1>7, <1>10
  <2>3. Separadas(c, n) /\ n[e] \in Nat /\ n[e] > 0 /\ e \in Entradas
    BY <1>3, <1>7, <1>8
  <2>4. /\ \A i \in Entradas \ {e} : \A k \in Nat : k < n[i] => fat'[c[i][k]] = fat[c[i][k]]
        /\ \A k \in Nat : k + 1 < n[e] => fat'[c[e][k]] = fat[c[e][k]]
    BY <2>1, <2>2, <2>3, SoloElFin
  <2>. QED BY <2>4 DEF Quedan
<1>12. l.abm \in Int /\ l.abm - 1 >= 0 /\ (l.abm - 1) + 1 = l.abm
  <2>1. l.abm \in Int
    BY <1>3 DEF LocalBien, Locales
  <2>. QED BY <1>7, <2>1
<1>13. Hebra(h, m, tabla, fat', c, n)
  <2>1. Usado(h, m, tabla)
    BY <1>2, <1>3, <1>4, <1>5, <1>6, EstiraUsado
  <2>2. Puesto(m, fat', c, n) /\ Dejada(m, tabla, fat', c, n)
    BY <1>4, <1>5, <1>6, <1>7, <1>10, <1>12 DEF Puesto, Dejada, Prosigue
  <2>3. Faltan(m) = Faltan(l)
    BY <1>2, <1>4, <1>5, <1>12 DEF Faltan
  <2>4. Largo(m, tabla, c, n)
    BY <1>2, <1>3, <1>4, <1>5, <2>3 DEF Largo, Prosigue
  <2>. QED BY <2>1, <2>2, <2>4 DEF Hebra
<1>14. FilaBien(e, tabla, fat', c, n, loc')
  <2>0. m.pos = e
    BY <1>4, <1>6 DEF Prosigue
  <2>1. m.pos = e /\ \A k \in Nat : k + 1 < n[e] => fat'[c[e][k]] = c[e][k + 1]
    BY <1>8, <1>11, <2>0
  <2>. QED BY <1>5, <1>6, <1>7, <1>8, <2>1, FilaMia
<1>15. Marcas(bitmap', c, n, loc')
  BY <1>1, <1>2, <1>3, <1>4, <1>5, <1>6, MarcaQueda
<1>. QED BY <1>1, <1>3, <1>6, <1>11, <1>13, <1>14, <1>15, Paso, ZenonT(60)

\* The chain ends after the end has been taken off it.
LEMMA CuadraCortar ==
  ASSUME Apartados, TInv, Forma, RInv, NEW h \in Hilos, Ajenos(h), Cortar(h),
         NEW c, NEW n, Cuadra(tabla, fat, bitmap, loc, c, n)
  PROVE  Cuadra(tabla', fat', bitmap', loc', c, n)
<1>. DEFINE l == loc[h]
            m == loc'[h]
            e == l.pos
<1>1. /\ l.pc = "cortar" /\ tabla' = tabla /\ bitmap' = bitmap
      /\ fat' = [fat EXCEPT ![l.ant] = FIN]
      /\ loc' = [loc EXCEPT ![h].pc = "copiar", ![h].copias = <<"bitmap", "fat">>,
                            ![h].luego = "cola", ![h].abm = @ + 1]
  BY DEF Cortar, En
<1>2. Corto(l) /\ ~Aparta(l) /\ Estira(l) /\ ~Deja(l)
  BY <1>1, EstiraUsa DEF Corto, Aparta, Estira
<1>3. /\ Usado(h, l, tabla) /\ Puesto(l, fat, c, n) /\ Largo(l, tabla, c, n)
      /\ LocalBien(l) /\ e \in Entradas /\ Suya(h, tabla, e) /\ De(h, e)
      /\ Separadas(c, n) /\ Marcas(bitmap, c, n, loc)
      /\ n[e] \in Nat /\ (n[e] > 0 => tabla[e].estado = "REGULAR" /\ c[e][0] = tabla[e].primero)
      /\ (\A k \in Nat : k < n[e] => c[e][k] \in Bloques)
      /\ (\A k \in Nat : k + 1 < n[e] => fat[c[e][k]] = c[e][k + 1])
  BY <1>2, EstiraPuesta, SMTT(40)
<1>4. m.pc = "copiar" /\ m.luego = "cola" /\ Prosigue(m, l) /\ m.abm = l.abm + 1
  BY <1>1 DEF Forma, Campos, Prosigue
<1>5. Estira(m) /\ ~Aparta(m) /\ ~Corto(m) /\ ~Deja(m) /\ ~Trunco(m)
  BY <1>4 DEF Estira, Aparta, Corto, Deja, Trunco
<1>6. m = loc'[h] /\ l = loc[h] /\ e = l.pos
  OBVIOUS
<1>. HIDE DEF m, l, e
<1>7. n[e] > 0 /\ l.ant = c[e][n[e] - 1]
  BY <1>1, <1>3, <1>6 DEF Puesto
<1>8. /\ tabla[e].estado = "REGULAR" /\ n[e] \in Nat /\ c[e][0] = tabla[e].primero
      /\ (\A k \in Nat : k < n[e] => c[e][k] \in Bloques)
      /\ (\A k \in Nat : k + 1 < n[e] => fat[c[e][k]] = c[e][k + 1])
  BY <1>3, <1>7
<1>9. n[e] - 1 \in Nat /\ n[e] - 1 < n[e]
  BY <1>7, <1>8
<1>10. fat'[l.ant] = FIN /\ \A x \in Bloques : x # l.ant => fat'[x] = fat[x]
  <2>1. l.ant \in Bloques /\ fat \in [Bloques -> Bloques \cup {FIN}]
    BY <1>7, <1>8, <1>9 DEF TInv, TypeOK, Fats
  <2>. QED BY <1>1, <2>1
<1>11. /\ Quedan(e, tabla, fat, c, n, tabla, fat', c, n)
       /\ \A k \in Nat : k + 1 < n[e] => fat'[c[e][k]] = fat[c[e][k]]
  <2>1. \A i \in Entradas : \A k \in Nat : k < n[i] => c[i][k] \in Bloques
    BY DeBloques
  <2>2. \A x \in Bloques : x # c[e][n[e] - 1] => fat'[x] = fat[x]
    BY <1>7, <1>10
  <2>3. Separadas(c, n) /\ n[e] \in Nat /\ n[e] > 0 /\ e \in Entradas
    BY <1>3, <1>7, <1>8
  <2>4. /\ \A i \in Entradas \ {e} : \A k \in Nat : k < n[i] => fat'[c[i][k]] = fat[c[i][k]]
        /\ \A k \in Nat : k + 1 < n[e] => fat'[c[e][k]] = fat[c[e][k]]
    BY <2>1, <2>2, <2>3, SoloElFin
  <2>. QED BY <2>4 DEF Quedan
<1>12. Hebra(h, m, tabla, fat', c, n)
  <2>1. Usado(h, m, tabla)
    BY <1>2, <1>3, <1>4, <1>5, <1>6, EstiraUsado
  <2>2. Puesto(m, fat', c, n) /\ Dejada(m, tabla, fat', c, n)
    BY <1>4, <1>5 DEF Puesto, Dejada
  <2>3. Faltan(m) = Faltan(l)
    BY <1>2, <1>4, <1>5 DEF Faltan
  <2>4. Largo(m, tabla, c, n)
    BY <1>2, <1>3, <1>4, <1>5, <2>3 DEF Largo, Prosigue
  <2>. QED BY <2>1, <2>2, <2>4 DEF Hebra
<1>13. FilaBien(e, tabla, fat', c, n, loc')
  <2>0. m.pos = e
    BY <1>4, <1>6 DEF Prosigue
  <2>1. m.pos = e /\ \A k \in Nat : k + 1 < n[e] => fat'[c[e][k]] = c[e][k + 1]
    BY <1>8, <1>11, <2>0
  <2>. QED BY <1>5, <1>6, <1>7, <1>8, <1>10, <2>1, FilaMia
<1>14. Marcas(bitmap', c, n, loc')
  BY <1>1, <1>2, <1>3, <1>5, <1>6, MarcasIguales
<1>. QED BY <1>1, <1>3, <1>6, <1>11, <1>12, <1>13, <1>14, Paso, ZenonT(60)

\* The block marked becomes the end of the chain.
LEMMA CuadraTerminar ==
  ASSUME Apartados, TInv, Forma, RInv, NEW h \in Hilos, Ajenos(h), Terminar(h),
         NEW c, NEW n, Cuadra(tabla, fat, bitmap, loc, c, n)
  PROVE  \E c2, n2 : Agrega(loc[h].pos, loc[h].blk, c, n, c2, n2) /\ Cuadra(tabla', fat', bitmap', loc', c2, n2)
<1>. DEFINE l == loc[h]
            m == loc'[h]
            e == l.pos
            x == l.blk
<1>1. /\ l.pc = "terminar" /\ tabla' = tabla /\ bitmap' = bitmap
      /\ fat' = [fat EXCEPT ![x] = FIN]
      /\ loc' = [loc EXCEPT ![h].pc = "copiar", ![h].copias = <<"bitmap", "fat">>]
  BY DEF Terminar, En
<1>2. Corto(l) /\ Aparta(l) /\ Estira(l) /\ ~Deja(l)
  BY <1>1, EstiraUsa DEF Corto, Aparta, Estira
<1>3. /\ Usado(h, l, tabla) /\ Puesto(l, fat, c, n) /\ Largo(l, tabla, c, n)
      /\ LocalBien(l) /\ e \in Entradas /\ Suya(h, tabla, e) /\ De(h, e)
      /\ Separadas(c, n) /\ Marcas(bitmap, c, n, loc)
  BY <1>2, EstiraPuesta, SMTT(40)
<1>4. l.luego = "cola" /\ l.abm >= 0 /\ l.abm \in Int /\ fat[l.ant] = x /\ n[e] > 0 /\ l.ant = c[e][n[e] - 1]
  BY <1>1, <1>3 DEF Puesto, LocalBien, Locales
<1>5. m.pc = "copiar" /\ m.luego = "cola" /\ Prosigue(m, l) /\ m.abm = l.abm
  BY <1>1, <1>4 DEF Forma, Campos, Prosigue
<1>6. Estira(m) /\ ~Aparta(m) /\ ~Corto(m) /\ ~Deja(m) /\ ~Trunco(m)
  BY <1>5 DEF Estira, Aparta, Corto, Deja, Trunco
<1>7. x \in Bloques /\ ~EnCadena(x, c, n)
  BY <1>2, <1>3 DEF Marcas
<1>8. m = loc'[h] /\ l = loc[h] /\ e = l.pos /\ x = l.blk
  OBVIOUS
<1>. HIDE DEF m, l, e, x
<1>9. /\ tabla[e].estado = "REGULAR" /\ n[e] \in Nat /\ c[e][0] = tabla[e].primero
      /\ (\A k \in Nat : k < n[e] => c[e][k] \in Bloques)
      /\ (\A k \in Nat : k + 1 < n[e] => fat[c[e][k]] = c[e][k + 1])
  <2>1. Estira(loc[h]) /\ loc[h].pos = e /\ n[e] > 0
    BY <1>2, <1>4, <1>8
  <2>. QED BY <2>1, EstiraPuesta
<1>10. fat'[x] = FIN /\ \A y \in Bloques : y # x => fat'[y] = fat[y]
  <2>1. fat \in [Bloques -> Bloques \cup {FIN}]
    BY DEF TInv, TypeOK, Fats
  <2>. QED BY <1>1, <1>7, <2>1
<1>11. /\ \A i \in Entradas : n[i] \in Nat
       /\ \A i \in Entradas : \A k \in Nat : k < n[i] => c[i][k] \in Bloques /\ c[i][k] # x
  BY <1>7, DeBloques DEF EnCadena
<1>12. PICK c2, n2 : Agrega(e, x, c, n, c2, n2)
  BY <1>3, <1>11, HayCadenas
<1>13. /\ Separadas(c2, n2)
       /\ \A y : EnCadena(y, c2, n2) <=> EnCadena(y, c, n) \/ y = x
  BY <1>3, <1>7, <1>11, <1>12, AgregaBien
<1>14. /\ n2[e] = n[e] + 1 /\ c2[e][n[e]] = x /\ (\A k \in Nat : k < n[e] => c2[e][k] = c[e][k])
       /\ \A i \in Entradas \ {e} : c2[i] = c[i] /\ n2[i] = n[i]
  BY <1>12 DEF Agrega
<1>15. Quedan(e, tabla, fat, c, n, tabla', fat', c2, n2)
  BY <1>1, <1>10, <1>11, <1>14 DEF Quedan
<1>16. n2[e] \in Nat /\ n2[e] > 0 /\ n2[e] - 1 = n[e] /\ n[e] - 1 \in Nat /\ n[e] - 1 < n[e] /\ 0 < n[e]
       /\ (n[e] - 1) + 1 = n[e] /\ \A k \in Nat : k < n2[e] => k < n[e] \/ k = n[e]
  BY <1>4, <1>9, <1>14
<1>17. Hebra(h, m, tabla, fat', c2, n2)
  <2>1. Usado(h, m, tabla)
    BY <1>2, <1>3, <1>5, <1>6, <1>8, EstiraUsado
  <2>2. Puesto(m, fat', c2, n2) /\ Dejada(m, tabla, fat', c2, n2)
    BY <1>5, <1>6 DEF Puesto, Dejada
  <2>3. Faltan(m) = l.abm /\ Faltan(l) = l.abm + 1
    BY <1>2, <1>5, <1>6 DEF Faltan
  <2>4. n[e] + (l.abm + 1) >= BloquesDe(l.tam) /\ n[e] >= BloquesDe(tabla[e].tam)
    <3>1. l.abm + 1 > 0
      BY <1>4
    <3>. QED BY <1>2, <1>3, <1>8, <1>9, <2>3, <3>1 DEF Largo
  <2>5. n2[e] + l.abm >= BloquesDe(l.tam) /\ n2[e] >= BloquesDe(tabla[e].tam)
    <3>1. PICK y, z : y = BloquesDe(l.tam) /\ z = BloquesDe(tabla[e].tam)
      OBVIOUS
    <3>2. y \in Nat /\ z \in Nat
      BY <1>3, <1>8, <3>1, Tamanios
    <3>3. n[e] + (l.abm + 1) >= y /\ n[e] >= z /\ n[e] \in Nat /\ l.abm \in Int /\ n2[e] = n[e] + 1
      BY <1>4, <1>9, <1>14, <2>4, <3>1
    <3>4. n2[e] + l.abm >= y /\ n2[e] >= z
      BY <3>2, <3>3
    <3>. QED BY <3>1, <3>4
  <2>6. m.pos = e /\ m.tam = l.tam
    BY <1>5, <1>8 DEF Prosigue
  <2>7. Largo(m, tabla, c2, n2)
    BY <1>5, <1>6, <2>3, <2>5, <2>6 DEF Largo
  <2>. QED BY <2>1, <2>2, <2>7 DEF Hebra
<1>18. FilaBien(e, tabla, fat', c2, n2, loc')
  <2>1. m.pos = e /\ c2[e][0] = tabla[e].primero
    BY <1>5, <1>8, <1>9, <1>14, <1>16 DEF Prosigue
  <2>2. \A k \in Nat : k < n2[e] => c2[e][k] \in Bloques
    BY <1>7, <1>9, <1>14, <1>16
  <2>3. ASSUME NEW k \in Nat, k + 1 < n2[e] PROVE fat'[c2[e][k]] = c2[e][k + 1]
    <3>1. CASE k + 1 < n[e]
      <4>1. k < n[e] /\ k + 1 \in Nat
        BY <1>9, <3>1
      <4>2. c2[e][k] = c[e][k] /\ c2[e][k + 1] = c[e][k + 1] /\ c[e][k] \in Bloques /\ c[e][k] # x
        BY <1>3, <1>11, <1>14, <3>1, <4>1
      <4>. QED BY <1>9, <1>10, <3>1, <4>2
    <3>2. CASE ~(k + 1 < n[e])
      <4>1. k = n[e] - 1 /\ k + 1 = n[e] /\ k < n[e]
        BY <1>9, <1>14, <2>3, <3>2
      <4>2. c2[e][k] = l.ant /\ c2[e][k + 1] = x /\ l.ant \in Bloques /\ l.ant # x
        BY <1>3, <1>4, <1>11, <1>14, <4>1
      <4>. QED BY <1>4, <1>10, <4>2
    <3>. QED BY <3>1, <3>2
  <2>4. fat'[c2[e][n2[e] - 1]] = FIN
    BY <1>10, <1>14, <1>16
  <2>. QED BY <1>6, <1>8, <1>9, <1>16, <2>1, <2>2, <2>3, <2>4, FilaMia
<1>19. Marcas(bitmap', c2, n2, loc')
  <2>1. Marcas(bitmap \cup {x}, c2, n2, loc') /\ x \in bitmap
    BY <1>2, <1>3, <1>6, <1>7, <1>8, <1>13, MarcaEntra
  <2>2. bitmap \cup {x} = bitmap'
    BY <1>1, <2>1
  <2>. QED BY <2>1, <2>2
<1>20. Cuadra(tabla', fat', bitmap', loc', c2, n2)
  BY <1>1, <1>3, <1>8, <1>13, <1>15, <1>17, <1>18, <1>19, Paso
<1>. QED BY <1>8, <1>12, <1>20

\* The last block of the chain is freed.
LEMMA CuadraLimpiar ==
  ASSUME Apartados, TInv, Forma, RInv, NEW h \in Hilos, Ajenos(h), Limpiar(h),
         NEW c, NEW n, Cuadra(tabla, fat, bitmap, loc, c, n)
  PROVE  \E c2, n2 : QuitaFin(loc[h].pos, c, n, c2, n2) /\ Cuadra(tabla', fat', bitmap', loc', c2, n2)
<1>. DEFINE l == loc[h]
            m == loc'[h]
            e == l.pos
            x == l.blk
<1>1. l.pc = "limpiar" /\ tabla' = tabla /\ bitmap' = bitmap \ {x} /\ fat' = fat /\ Ir(h, "cortar")
  BY DEF Limpiar, En
<1>2. ~Corto(l) /\ ~Aparta(l) /\ Estira(l) /\ ~Deja(l)
  BY <1>1, EstiraUsa DEF Corto, Aparta, Estira
<1>3. /\ Usado(h, l, tabla) /\ Puesto(l, fat, c, n) /\ Largo(l, tabla, c, n)
      /\ LocalBien(l) /\ e \in Entradas /\ Suya(h, tabla, e) /\ De(h, e)
      /\ Separadas(c, n) /\ Marcas(bitmap, c, n, loc)
  BY <1>2, EstiraPuesta, SMTT(40)
<1>4. /\ l.abm < 0 /\ n[e] > 1 /\ x = c[e][n[e] - 1] /\ l.ant = c[e][n[e] - 2]
      /\ l.abm \in Int /\ l.luego = "libre"
  BY <1>1, <1>3 DEF Puesto, LocalBien, Locales
<1>5. m.pc = "cortar" /\ m.luego = "libre" /\ Prosigue(m, l) /\ m.abm = l.abm /\ m.ant = l.ant
  BY <1>1, <1>4, IrCambia
<1>6. Estira(m) /\ ~Aparta(m) /\ Corto(m) /\ ~Deja(m) /\ ~Trunco(m)
  BY <1>5 DEF Estira, Aparta, Corto, Deja, Trunco
<1>7. m = loc'[h] /\ l = loc[h] /\ e = l.pos /\ x = l.blk
  OBVIOUS
<1>. HIDE DEF m, l, e, x
<1>8. n[e] \in Nat /\ n[e] > 0
  <2>1. n[e] \in Nat
    BY <1>2, <1>7, EstiraPuesta
  <2>. QED BY <1>4, <2>1
<1>9. /\ tabla[e].estado = "REGULAR" /\ c[e][0] = tabla[e].primero
      /\ (\A k \in Nat : k < n[e] => c[e][k] \in Bloques)
      /\ (\A k \in Nat : k + 1 < n[e] => fat[c[e][k]] = c[e][k + 1])
  BY <1>2, <1>7, <1>8, EstiraPuesta
<1>10. \A i \in Entradas : n[i] \in Nat
  BY DeBloques
<1>11. PICK n2 : QuitaFin(e, c, n, c, n2)
  BY <1>3, <1>10, HayCadenas
<1>12. /\ Separadas(c, n2) /\ EnCadena(x, c, n)
       /\ \A y : EnCadena(y, c, n2) <=> EnCadena(y, c, n) /\ y # x
  <2>1. /\ Separadas(c, n2) /\ EnCadena(c[e][n[e] - 1], c, n)
        /\ \A y : EnCadena(y, c, n2) <=> EnCadena(y, c, n) /\ y # c[e][n[e] - 1]
    BY <1>3, <1>8, <1>10, <1>11, QuitaFinBien
  <2>. QED BY <1>4, <2>1
<1>13. n2[e] = n[e] - 1 /\ \A i \in Entradas \ {e} : n2[i] = n[i]
  BY <1>11 DEF QuitaFin
<1>14. /\ n2[e] \in Nat /\ n2[e] > 0 /\ n2[e] - 1 = n[e] - 2
       /\ \A k \in Nat : (k < n2[e] => k < n[e]) /\ (k + 1 < n2[e] => k + 1 < n[e])
  BY <1>4, <1>8, <1>13
<1>15. Quedan(e, tabla, fat, c, n, tabla', fat', c, n2)
  BY <1>1, <1>13 DEF Quedan
<1>16. Hebra(h, m, tabla, fat, c, n2)
  <2>1. Usado(h, m, tabla)
    BY <1>2, <1>3, <1>5, <1>6, <1>7, EstiraUsado
  <2>2. Puesto(m, fat, c, n2) /\ Dejada(m, tabla, fat, c, n2)
    <3>1. m.pos = e /\ m.abm < 0 /\ n2[e] > 0 /\ m.ant = c[e][n2[e] - 1]
      BY <1>4, <1>5, <1>7, <1>14 DEF Prosigue
    <3>. QED BY <1>5, <1>6, <3>1 DEF Puesto, Dejada
  <2>3. Faltan(m) = l.abm + 1 /\ Faltan(l) = l.abm /\ ~(l.abm + 1 > 0)
    <3>1. ~(l.abm + 1 > 0)
      BY <1>4
    <3>. QED BY <1>2, <1>5, <1>6, <3>1 DEF Faltan
  <2>4. n[e] + l.abm >= BloquesDe(l.tam)
    BY <1>2, <1>3, <1>7, <1>9, <2>3 DEF Largo
  <2>5. n2[e] + (l.abm + 1) >= BloquesDe(l.tam)
    <3>1. n2[e] + (l.abm + 1) = n[e] + l.abm
      BY <1>4, <1>8, <1>13
    <3>. QED BY <2>4, <3>1
  <2>6. m.pos = e /\ m.tam = l.tam
    BY <1>5, <1>7 DEF Prosigue
  <2>7. Largo(m, tabla, c, n2)
    BY <1>5, <1>6, <2>3, <2>5, <2>6 DEF Largo
  <2>. QED BY <2>1, <2>2, <2>7 DEF Hebra
<1>17. FilaBien(e, tabla, fat, c, n2, loc')
  <2>1. m.pos = e
    BY <1>5, <1>7 DEF Prosigue
  <2>2. \A k \in Nat : k < n2[e] => c[e][k] \in Bloques
    BY <1>9, <1>14
  <2>3. \A k \in Nat : k + 1 < n2[e] => fat[c[e][k]] = c[e][k + 1]
    BY <1>9, <1>14
  <2>. QED BY <1>6, <1>7, <1>9, <1>14, <2>1, <2>2, <2>3, FilaMia
<1>18. Marcas(bitmap', c, n2, loc')
  BY <1>1, <1>2, <1>3, <1>6, <1>7, <1>12, MarcaSale
<1>19. Cuadra(tabla', fat', bitmap', loc', c, n2)
  BY <1>1, <1>3, <1>7, <1>12, <1>15, <1>16, <1>17, <1>18, Paso
<1>. QED BY <1>7, <1>11, <1>19

\* create takes a free entry and a free block.
LEMMA CuadraCreateAlta ==
  ASSUME Apartados, TInv, IInv, RInv, NEW h \in Hilos, Ajenos(h), CreateAlta(h),
         NEW c, NEW n, Cuadra(tabla, fat, bitmap, loc, c, n)
  PROVE  \E c2, n2 : Agrega(loc[h].pos, loc[h].blk, c, n, c2, n2) /\ n[loc[h].pos] = 0 /\ Cuadra(tabla', fat', bitmap', loc', c2, n2)
<1>. DEFINE l == loc[h]
            m == loc'[h]
            e == l.pos
            x == l.blk
<1>1. /\ l.pc = "createAlta" /\ Alta(h, e, "REGULAR", x) /\ bitmap' = bitmap \cup {x}
      /\ fat' = [fat EXCEPT ![x] = FIN] /\ Copiando(h, <<"bitmap", "tabla", "fat">>, "createFin")
  BY DEF CreateAlta, En
<1>2. ~Corto(l) /\ ~Aparta(l) /\ ~Estira(l) /\ ~Deja(l)
  BY <1>1 DEF Corto, Aparta, Estira, Deja
<1>3. Mia(h, l.ruta) /\ Forma
  BY <1>1 DEF RInv, Pedido, IInv
<1>4. LocalBien(l) /\ Usado(h, l, tabla) /\ Separadas(c, n) /\ Marcas(bitmap, c, n, loc)
  BY DeHilo DEF Cuadra, Hebra
<1>5. e \in Entradas /\ tabla[e].estado = "DELETED" /\ x \in Bloques
  BY <1>1, <1>4 DEF LocalBien, Usado
<1>6. x \notin bitmap /\ \A g \in Hilos \ {h} : loc[g].pc # "createAlta"
  BY <1>1 DEF IInv, Hallado, Tomado, EnSeccion, Reservando
<1>7. ~EnCadena(x, c, n)
  BY <1>4, <1>5, <1>6 DEF Marcas
<1>8. n[e] = 0
  BY <1>2, <1>5, SinBloques
<1>9. Inerte(m)
  BY <1>1, <1>3, RespondeInerte
<1>10. /\ \A i \in Entradas \ {e} : tabla'[i] = tabla[i]
       /\ tabla'[e].estado = "REGULAR" /\ tabla'[e].primero = x /\ tabla'[e].tam = 0
       /\ tabla'[e].nombre = Last(l.ruta)
  <2>1. tabla \in [Entradas -> Entrada]
    BY <1>5, Fichas
  <2>. QED BY <1>1, <1>5, <2>1 DEF Alta
<1>11. Solo \/ \E q \in Rutas[h] : tabla'[e].nombre = Last(q)
  BY <1>3, <1>10 DEF Mia
<1>12. m = loc'[h] /\ l = loc[h] /\ e = l.pos /\ x = l.blk
  OBVIOUS
<1>. HIDE DEF m, l, e, x
<1>13. fat'[x] = FIN /\ \A y \in Bloques : y # x => fat'[y] = fat[y]
  <2>1. fat \in [Bloques -> Bloques \cup {FIN}]
    BY DEF TInv, TypeOK, Fats
  <2>. QED BY <1>1, <1>5, <2>1
<1>14. /\ \A i \in Entradas : n[i] \in Nat
       /\ \A i \in Entradas : \A k \in Nat : k < n[i] => c[i][k] \in Bloques /\ c[i][k] # x
  BY <1>7, DeBloques DEF EnCadena
<1>15. PICK c2, n2 : Agrega(e, x, c, n, c2, n2)
  BY <1>5, <1>14, HayCadenas
<1>16. /\ Separadas(c2, n2)
       /\ \A y : EnCadena(y, c2, n2) <=> EnCadena(y, c, n) \/ y = x
  BY <1>4, <1>5, <1>7, <1>14, <1>15, AgregaBien
<1>17. /\ n2[e] = 1 /\ c2[e][0] = x
       /\ \A i \in Entradas \ {e} : c2[i] = c[i] /\ n2[i] = n[i]
  BY <1>8, <1>15 DEF Agrega
<1>18. Quedan(e, tabla, fat, c, n, tabla', fat', c2, n2)
  BY <1>10, <1>13, <1>14, <1>17 DEF Quedan
<1>19. Hebra(h, m, tabla', fat', c2, n2) /\ ~Aparta(m)
  BY <1>9, InerteHebra
<1>20. FilaBien(e, tabla', fat', c2, n2, loc')
  <2>1. /\ n2[e] \in Nat /\ n2[e] > 0 /\ n2[e] - 1 = 0
        /\ (\A k \in Nat : k < n2[e] => k = 0) /\ \A k \in Nat : ~(k + 1 < n2[e])
    BY <1>17
  <2>2. BloquesDe(tabla'[e].tam) = 1
    BY <1>10 DEF BloquesDe
  <2>3. \A k \in Nat : k < n2[e] => c2[e][k] \in Bloques
    BY <1>5, <1>17, <2>1
  <2>4. fat'[c2[e][n2[e] - 1]] = FIN
    BY <1>13, <1>17, <2>1
  <2>5. n2[e] >= BloquesDe(tabla'[e].tam)
    BY <1>17, <2>2
  <2>. QED BY <1>10, <1>17, <2>1, <2>3, <2>4, <2>5 DEF FilaBien
<1>21. Marcas(bitmap', c2, n2, loc')
  BY <1>1, <1>2, <1>4, <1>5, <1>6, <1>12, <1>16, <1>19, MarcaEntra
<1>22. De(h, e)
  BY <1>5, <1>6 DEF De
<1>23. Corto(loc[h]) \/ Estira(loc[h]) \/ Deja(loc[h]) => loc[h].pos = e
  BY <1>12
<1>24. Cuadra(tabla', fat', bitmap', loc', c2, n2)
  BY <1>5, <1>11, <1>12, <1>16, <1>18, <1>19, <1>20, <1>21, <1>22, <1>23, Paso
<1>. QED BY <1>8, <1>12, <1>15, <1>24

\* unlink frees the first block of what is left of the chain.
LEMMA CuadraLibera ==
  ASSUME Apartados, TInv, Forma, RInv, NEW h \in Hilos, Ajenos(h), UnlinkLimpiar(h),
         NEW c, NEW n, Cuadra(tabla, fat, bitmap, loc, c, n)
  PROVE  \E c2, n2 : QuitaCabeza(loc[h].pos, c, n, c2, n2) /\ Cuadra(tabla', fat', bitmap', loc', c2, n2)
<1>. DEFINE l == loc[h]
            m == loc'[h]
            e == l.pos
            x == l.blk
<1>1. l.pc = "unlinkLimpiar" /\ tabla' = tabla /\ bitmap' = bitmap \ {x} /\ fat' = fat /\ Ir(h, "unlinkSeguir")
  BY DEF UnlinkLimpiar, En
<1>2. ~Corto(l) /\ ~Aparta(l) /\ ~Estira(l) /\ Deja(l)
  BY <1>1 DEF Corto, Aparta, Estira, Deja
<1>3. /\ LocalBien(l) /\ Separadas(c, n) /\ Marcas(bitmap, c, n, loc)
      /\ Dejada(l, tabla, fat, c, n) /\ Solo
  BY <1>1, DeHilo DEF Cuadra, Hebra, RInv, Pedido, Borra
<1>4. e \in Entradas /\ tabla[e].estado = "DELETED" /\ n[e] > 0 /\ x = c[e][0] /\ l.luego = "libre"
  BY <1>1, <1>2, <1>3 DEF Dejada, LocalBien
<1>5. m.pc = "unlinkSeguir" /\ m.luego = "libre" /\ m.pos = e /\ m.blk = x
  BY <1>1, <1>3, <1>4, IrCambia DEF Prosigue
<1>6. m = loc'[h] /\ l = loc[h] /\ e = l.pos /\ x = l.blk
  OBVIOUS
<1>. HIDE DEF m, l, e, x
<1>7. \A g \in Hilos : g = h
  BY <1>3 DEF Solo
<1>8. FilaBien(e, tabla, fat, c, n, loc) /\ n[e] \in Nat
  BY <1>4 DEF Cuadra, FilaBien
<1>9. /\ \A k \in Nat : k < n[e] => c[e][k] \in Bloques
      /\ \A k \in Nat : k + 1 < n[e] => fat[c[e][k]] = c[e][k + 1]
      /\ fat[c[e][n[e] - 1]] = FIN
  BY <1>2, <1>4, <1>6, <1>7, <1>8 DEF FilaBien
<1>10. \A i \in Entradas : n[i] \in Nat
  BY DeBloques
<1>11. PICK c2, n2 : QuitaCabeza(e, c, n, c2, n2)
  BY <1>4, <1>10, HayCadenas
<1>12. /\ Separadas(c2, n2) /\ EnCadena(x, c, n)
       /\ \A y : EnCadena(y, c2, n2) <=> EnCadena(y, c, n) /\ y # x
  <2>1. /\ Separadas(c2, n2) /\ EnCadena(c[e][0], c, n)
        /\ \A y : EnCadena(y, c2, n2) <=> EnCadena(y, c, n) /\ y # c[e][0]
    BY <1>3, <1>4, <1>10, <1>11, QuitaCabezaBien
  <2>. QED BY <1>4, <2>1
<1>13. /\ n2[e] = n[e] - 1 /\ (\A k \in Nat : c2[e][k] = c[e][k + 1])
       /\ \A i \in Entradas \ {e} : n2[i] = n[i] /\ c2[i] = c[i]
  BY <1>11 DEF QuitaCabeza
<1>14. /\ n2[e] \in Nat /\ \A k \in Nat : k < n2[e] <=> k + 1 < n[e]
       /\ n2[e] > 0 => n2[e] - 1 \in Nat /\ (n2[e] - 1) + 1 = n[e] - 1
       /\ ~(n2[e] > 0) => n[e] - 1 = 0
       /\ n2[e] > 0 => 0 + 1 < n[e]
  BY <1>4, <1>8, <1>13
<1>15. Quedan(e, tabla, fat, c, n, tabla', fat', c2, n2)
  BY <1>1, <1>13 DEF Quedan
<1>16. fat[x] = IF n2[e] > 0 THEN c2[e][0] ELSE FIN
  <2>1. CASE n2[e] > 0
    BY <1>4, <1>9, <1>13, <1>14, <2>1
  <2>2. CASE ~(n2[e] > 0)
    BY <1>4, <1>9, <1>14, <2>2
  <2>. QED BY <2>1, <2>2
<1>17. Deja(m) /\ Dejada(m, tabla, fat, c2, n2)
  BY <1>4, <1>5, <1>16 DEF Deja, Dejada
<1>18. Hebra(h, m, tabla, fat, c2, n2) /\ ~Aparta(m)
  BY <1>5, <1>17, DejaHebra
<1>19. FilaBien(e, tabla, fat, c2, n2, loc')
  <2>1. \A k \in Nat : k < n2[e] => c2[e][k] \in Bloques
    BY <1>9, <1>13, <1>14
  <2>2. ASSUME NEW k \in Nat, k + 1 < n2[e] PROVE fat[c2[e][k]] = c2[e][k + 1]
    <3>1. k + 1 \in Nat /\ (k + 1) + 1 < n[e]
      BY <1>14, <2>2
    <3>. QED BY <1>9, <1>13, <3>1
  <2>3. n2[e] > 0 => fat[c2[e][n2[e] - 1]] = FIN
    <3>1. n2[e] > 0 => c2[e][n2[e] - 1] = c[e][n[e] - 1]
      BY <1>13, <1>14
    <3>. QED BY <1>9, <3>1
  <2>4. ~(\A g \in Hilos : ~(Deja(loc'[g]) /\ loc'[g].pos = e))
    BY <1>5, <1>6, <1>17
  <2>. QED BY <1>4, <1>14, <2>1, <2>2, <2>3, <2>4 DEF FilaBien
<1>20. Marcas(bitmap', c2, n2, loc')
  BY <1>1, <1>2, <1>3, <1>6, <1>12, <1>18, MarcaSale
<1>21. De(h, e)
  BY <1>4, <1>7 DEF De
<1>22. Cuadra(tabla', fat', bitmap', loc', c2, n2)
  BY <1>1, <1>3, <1>4, <1>6, <1>12, <1>15, <1>18, <1>19, <1>20, <1>21, Paso
<1>. QED BY <1>6, <1>11, <1>22

\* No thread is where a chain has ended too soon.
LEMMA CuadraNunca ==
  ASSUME NEW h \in Hilos, NEW c, NEW n, Cuadra(tabla, fat, bitmap, loc, c, n)
  PROVE  ~(NuncaPedir(h) \/ NuncaMarcar(h) \/ NuncaEnlazar(h) \/ NuncaSeguir(h)) /\ loc[h].pc # "nunca"
<1>1. loc[h].pc \notin {"nunca", "nuncaMarcar", "nuncaEnlazar", "nuncaSeguir"}
  BY DEF Cuadra, Hebra, Puesto
<1>. QED BY <1>1 DEF NuncaPedir, NuncaMarcar, NuncaEnlazar, NuncaSeguir, En

\* A step of h keeps the chains.
LEMMA CuadraHilo ==
  ASSUME Apartados, TInv, IInv, RInv, NEW h \in Hilos, Pedir(h) \/ Hilo(h) \/ Morir(h),
         NEW c, NEW n, Cuadra(tabla, fat, bitmap, loc, c, n)
  PROVE  \E c2, n2 : Cuadra(tabla', fat', bitmap', loc', c2, n2)
<1>1. Forma
  BY DEF IInv
<1>2. Ajenos(h)
  BY <1>1, SoloSuyos
<1>3. CASE Pedir(h) \/ Morir(h)
  BY <1>1, <1>2, <1>3, CuadraPedir
<1>4. CASE CreateMux(h) \/ Rmdir(h) \/ Rename(h) \/ Unlink(h)
  BY <1>1, <1>2, <1>4, CuadraHalla
<1>5. CASE UnlinkPrimero(h) \/ UnlinkSeguir(h)
  BY <1>1, <1>2, <1>5, CuadraSigue
<1>6. CASE \/ Mkdir(h) \/ Create(h) \/ CreateFin(h) \/ Utimens(h) \/ Open(h) \/ OpenTomar(h)
           \/ Release(h) \/ ReleaseSoltar(h)
  BY <1>1, <1>2, <1>6, CuadraInerte
<1>7. CASE Write(h)
  BY <1>1, <1>2, <1>7, CuadraWrite
<1>8. CASE WriteIr(h)
  BY <1>1, <1>2, <1>8, CuadraWriteIr
<1>9. CASE Escribir(h)
  BY <1>1, <1>2, <1>9, CuadraEscribir
<1>10. CASE PedirBloque(h)
  BY <1>1, <1>2, <1>10, CuadraPedirBloque
<1>11. CASE Truncado(h)
  BY <1>1, <1>2, <1>11, CuadraTruncado
<1>12. CASE Truncate(h)
  BY <1>1, <1>2, <1>12, CuadraTruncate
<1>13. CASE Cola(h)
  BY <1>1, <1>2, <1>13, CuadraCola
<1>14. CASE Copiar(h)
  BY <1>1, <1>2, <1>14, CuadraCopiar
<1>15. CASE RmdirBaja(h)
  BY <1>1, <1>2, <1>15, CuadraRmdir
<1>16. CASE RenameAlta(h)
  BY <1>1, <1>2, <1>16, CuadraRename
<1>17. CASE MkdirMux(h)
  BY <1>2, <1>17, CuadraMkdir
<1>18. CASE UnlinkBaja(h)
  BY <1>1, <1>2, <1>18, CuadraBaja
<1>19. CASE Tamanio(h)
  BY <1>1, <1>2, <1>19, CuadraTamanio
<1>20. CASE Marcar(h)
  BY <1>2, <1>20, CuadraMarcar
<1>21. CASE Enlazar(h)
  BY <1>1, <1>2, <1>21, CuadraEnlazar
<1>22. CASE Terminar(h)
  BY <1>1, <1>2, <1>22, CuadraTerminar
<1>23. CASE Limpiar(h)
  BY <1>1, <1>2, <1>23, CuadraLimpiar
<1>24. CASE Cortar(h)
  BY <1>1, <1>2, <1>24, CuadraCortar
<1>25. CASE CreateAlta(h)
  BY <1>2, <1>25, CuadraCreateAlta
<1>26. CASE UnlinkLimpiar(h)
  BY <1>1, <1>2, <1>26, CuadraLibera
<1>27. ~(NuncaPedir(h) \/ NuncaMarcar(h) \/ NuncaEnlazar(h) \/ NuncaSeguir(h))
  BY CuadraNunca
<1>. QED BY <1>3, <1>4, <1>5, <1>6, <1>7, <1>8, <1>9, <1>10, <1>11, <1>12, <1>13, <1>14, <1>15, <1>16,
     <1>17, <1>18, <1>19, <1>20, <1>21, <1>22, <1>23, <1>24, <1>25, <1>26, <1>27, Zenon DEF Hilo

\* Every step keeps the structures in agreement with some chains.
LEMMA SigueFsck == Apartados /\ TInv /\ IInv /\ RInv /\ FInv /\ [Next]_vars => FInv'
<1>. SUFFICES ASSUME Apartados, TInv, IInv, RInv, FInv, [Next]_vars PROVE FInv'
  OBVIOUS
<1>1. PICK c, n : Cuadra(tabla, fat, bitmap, loc, c, n)
  BY DEF FInv
<1>2. CASE UNCHANGED vars
  BY <1>1, <1>2, CuadraNada DEF FInv, vars
<1>3. ASSUME NEW h \in Hilos, Pedir(h) \/ Hilo(h) \/ Morir(h) PROVE FInv'
  BY <1>1, <1>3, CuadraHilo DEF FInv
<1>. QED BY <1>2, <1>3 DEF Next

\* At the start nothing is in a chain.
LEMMA IniciaFsck == Init => FInv
<1>. SUFFICES ASSUME Init PROVE FInv
  OBVIOUS
<1>1. tabla = [i \in Entradas |-> [estado |-> "DELETED", nombre |-> "", padre |-> 0, tam |-> 0, primero |-> 0]]
      /\ loc = [h \in Hilos |-> Ocioso] /\ bitmap = {}
  BY Zenon DEF Init
<1>2. \A i \in Entradas : tabla[i].estado = "DELETED"
  BY <1>1
<1>3. \A h \in Hilos : Inerte(loc[h])
  BY <1>1 DEF Ocioso, Inerte, Pasos
<1>. DEFINE n == [i \in Entradas |-> 0]
            c == 0
<1>4. \A i \in Entradas : n[i] = 0
  OBVIOUS
<1>. HIDE DEF n, c
<1>5. \A h \in Hilos : Hebra(h, loc[h], tabla, fat, c, n) /\ ~Aparta(loc[h])
  BY <1>3, InerteHebra
<1>6. \A i \in Entradas : FilaBien(i, tabla, fat, c, n, loc)
  BY <1>2, <1>4, FilaVacia
<1>7. \A i \in Entradas : \A k \in Nat : ~(k < n[i])
  BY <1>4
<1>8. Separadas(c, n) /\ \A x : ~EnCadena(x, c, n)
  BY <1>7 DEF Separadas, EnCadena
<1>9. Marcas(bitmap, c, n, loc)
  BY <1>1, <1>5, <1>8 DEF Marcas
<1>10. Cuadra(tabla, fat, bitmap, loc, c, n)
  BY <1>5, <1>6, <1>8, <1>9 DEF Cuadra
<1>. QED BY <1>10 DEF FInv

-----------------------------------------------------------------------------
(* What the chains say of the FAT and the bitmap. *)

\* A chain has no more blocks than there are.
LEMMA CadenaCorta ==
  ASSUME NEW c, NEW n, Separadas(c, n), NEW i \in Entradas, n[i] \in Nat,
         \A k \in Nat : k < n[i] => c[i][k] \in Bloques
  PROVE  n[i] <= NumBloques
<1>. DEFINE N == n[i]
            f == [k \in 0..N - 1 |-> c[i][k]]
<1>1. NumBloques \in Nat /\ IsFiniteSet(Bloques) /\ Cardinality(Bloques) = NumBloques
  <2>1. NumBloques \in Nat /\ NumBloques - 1 \in Int /\ 0 \in Int /\ ~(0 > NumBloques - 1)
        /\ NumBloques - 1 - 0 + 1 = NumBloques
    BY SupuestoOsada
  <2>. QED BY <2>1, FS_Interval DEF Bloques
<1>2. CASE N = 0
  BY <1>1, <1>2
<1>3. CASE N > 0
  <2>1. IsFiniteSet(0..N - 1) /\ Cardinality(0..N - 1) = N
    <3>1. N - 1 \in Int /\ 0 \in Int /\ ~(0 > N - 1) /\ N - 1 - 0 + 1 = N
      BY <1>3
    <3>. QED BY <3>1, FS_Interval
  <2>2. \A k \in 0..N - 1 : k \in Nat /\ k < N
    OBVIOUS
  <2>3. f \in [0..N - 1 -> Bloques]
    BY <2>2
  <2>4. \A k \in 0..N - 1 : \A o \in 0..N - 1 : f[k] = f[o] => k = o
    BY <2>2 DEF Separadas
  <2>. HIDE DEF f, N
  <2>5. ~(NumBloques < N)
    <3>. DEFINE S == 0..N - 1
    <3>1. IsFiniteSet(S) /\ Cardinality(S) = N /\ f \in [S -> Bloques]
          /\ ~(\E k, o \in S : k # o /\ f[k] = f[o])
      BY <2>1, <2>3, <2>4
    <3>. HIDE DEF S
    <3>. SUFFICES ASSUME NumBloques < N PROVE FALSE
      OBVIOUS
    <3>2. IsFiniteSet(Bloques) /\ Cardinality(Bloques) < Cardinality(S)
      BY <1>1, <3>1
    <3>. QED BY <3>1, <3>2, FS_PigeonHole
  <2>6. N \in Nat
    BY DEF N
  <2>7. N <= NumBloques
    BY <1>1, <2>5, <2>6
  <2>. QED BY <2>7 DEF N
<1>. QED BY <1>2, <1>3

\* The chains of the FAT, when nobody is served.
LEMMA CadenaDe ==
  ASSUME TInv, NEW c, NEW n, Cuadra(tabla, fat, bitmap, loc, c, n), Reposo, NEW i \in Archivos
  PROVE  /\ \A x : x \in Cadena(i) <=> \E k \in Nat : k < n[i] /\ c[i][k] = x
         /\ Ultimo(tabla[i].primero) # {}
<1>. DEFINE b == tabla[i].primero
<1>1. i \in Entradas /\ tabla[i].estado = "REGULAR"
  BY DEF Archivos
<1>2. \A h \in Hilos : ~(Corto(loc[h]) /\ loc[h].pos = i)
  BY DEF Reposo, EnPaz, Corto
<1>3. FilaBien(i, tabla, fat, c, n, loc) /\ Separadas(c, n)
  BY <1>1 DEF Cuadra
<1>4. n[i] \in Nat /\ n[i] > 0 /\ b = c[i][0] /\ \A k \in Nat : k < n[i] => c[i][k] \in Bloques
  BY <1>1, <1>3 DEF FilaBien
<1>5. n[i] <= NumBloques
  BY <1>1, <1>3, <1>4, CadenaCorta
<1>6. \A k \in Nat : k < n[i] => Bloque(b, k) = c[i][k] /\ c[i][k] # FIN
  BY <1>1, <1>3, <1>4, PorLaCadena
<1>7. \A k \in Nat : k >= n[i] => Bloque(b, k) = FIN
  BY <1>1, <1>2, <1>3, <1>4, PorLaCadena
<1>8. NumBloques \in Nat /\ \A k \in Nat : k < n[i] => k \in 0..NumBloques
  <2>1. NumBloques \in Nat
    BY SupuestoOsada
  <2>. QED BY <1>4, <1>5, <2>1
<1>. HIDE DEF b
<1>9. ASSUME NEW x PROVE x \in Cadena(i) <=> \E k \in Nat : k < n[i] /\ c[i][k] = x
  <2>1. x \in Cadena(i) <=> \E k \in 0..NumBloques : Bloque(b, k) = x /\ x # FIN
    BY Zenon DEF Cadena, b
  <2>2. ASSUME NEW k \in 0..NumBloques, Bloque(b, k) = x, x # FIN
        PROVE  \E o \in Nat : o < n[i] /\ c[i][o] = x
    <3>1. k \in Nat
      BY <1>8
    <3>2. k < n[i]
      <4>1. ~(k >= n[i])
        BY <1>7, <2>2, <3>1
      <4>. QED BY <1>4, <3>1, <4>1
    <3>. QED BY <1>6, <2>2, <3>1, <3>2
  <2>3. ASSUME NEW k \in Nat, k < n[i], c[i][k] = x
        PROVE  \E o \in 0..NumBloques : Bloque(b, o) = x /\ x # FIN
    BY <1>6, <1>8, <2>3
  <2>. QED BY <2>1, <2>2, <2>3
<1>10. Ultimo(b) # {}
  <2>1. n[i] - 1 \in 0..NumBloques - 1 /\ n[i] - 1 \in Nat /\ n[i] - 1 < n[i] /\ (n[i] - 1) + 1 = n[i]
        /\ n[i] >= n[i]
    BY <1>4, <1>5, <1>8
  <2>2. Bloque(b, n[i] - 1) # FIN
    BY <1>6, <2>1
  <2>3. Bloque(b, (n[i] - 1) + 1) = FIN
    BY <1>4, <1>7, <2>1
  <2>. QED BY <2>1, <2>2, <2>3 DEF Ultimo
<1>. QED BY <1>9, <1>10 DEF b

\* The invariant implies what fsck looks for, and that osada_write finds its blocks.
LEMMA BastaFsck == TInv /\ FInv => Fsck /\ NuncaSinBloque
<1>. SUFFICES ASSUME TInv, FInv PROVE Fsck /\ NuncaSinBloque
  OBVIOUS
<1>1. PICK c, n : Cuadra(tabla, fat, bitmap, loc, c, n)
  BY DEF FInv
<1>2. NuncaSinBloque
  BY <1>1, CuadraNunca DEF NuncaSinBloque
<1>3. ASSUME Reposo
      PROVE  /\ bitmap = UNION {Cadena(i) : i \in Archivos}
             /\ \A i, j \in Archivos : i # j => Cadena(i) \cap Cadena(j) = {}
             /\ \A i \in Archivos : Ultimo(tabla[i].primero) # {}
  <2>1. \A i \in Archivos : /\ \A x : x \in Cadena(i) <=> \E k \in Nat : k < n[i] /\ c[i][k] = x
                            /\ Ultimo(tabla[i].primero) # {}
    BY <1>1, <1>3, CadenaDe
  <2>2. \A h \in Hilos : ~Aparta(loc[h]) /\ ~Deja(loc[h])
    BY <1>3 DEF Reposo, EnPaz, Aparta, Deja
  <2>3. \A x : x \in bitmap <=> EnCadena(x, c, n)
    <3>1. Marcas(bitmap, c, n, loc)
      BY <1>1 DEF Cuadra
    <3>2. \A x : EnCadena(x, c, n) => x \in Bloques
      BY <1>1, DeBloques DEF EnCadena
    <3>. QED BY <2>2, <3>1, <3>2 DEF Marcas
  <2>4. ASSUME NEW i \in Entradas, NEW k \in Nat, k < n[i] PROVE i \in Archivos
    <3>1. FilaBien(i, tabla, fat, c, n, loc)
      BY <1>1 DEF Cuadra
    <3>2. n[i] # 0
      BY <2>4
    <3>3. tabla[i].estado \in {"DELETED", "REGULAR", "DIRECTORY"}
      BY Fichas DEF Entrada
    <3>. QED BY <2>2, <3>1, <3>2, <3>3 DEF FilaBien, Archivos
  <2>5. \A x : EnCadena(x, c, n) <=> \E i \in Archivos : x \in Cadena(i)
    <3>1. Archivos \subseteq Entradas
      BY DEF Archivos
    <3>. QED BY <2>1, <2>4, <3>1 DEF EnCadena
  <2>6. bitmap = UNION {Cadena(i) : i \in Archivos}
    <3>1. \A x : x \in UNION {Cadena(i) : i \in Archivos} <=> \E i \in Archivos : x \in Cadena(i)
      BY Zenon
    <3>. QED BY <2>3, <2>5, <3>1, Zenon
  <2>7. ASSUME NEW i \in Archivos, NEW j \in Archivos, i # j PROVE Cadena(i) \cap Cadena(j) = {}
    <3>1. Separadas(c, n) /\ Archivos \subseteq Entradas
      BY <1>1 DEF Cuadra, Archivos
    <3>2. SUFFICES ASSUME NEW x, x \in Cadena(i), x \in Cadena(j) PROVE FALSE
      BY Zenon
    <3>. QED BY <2>1, <2>7, <3>1, <3>2 DEF Separadas
  <2>. QED BY <2>1, <2>6, <2>7
<1>. QED BY <1>2, <1>3 DEF Fsck

\* The bitmap, the table and the FAT agree whenever nobody is being served, for any number
\* of clients, files and blocks, if there is one client, whatever it asks for, or each has
\* files of its own in the root and none is deleted.
THEOREM FsckSiempre == ASSUME Apartados PROVE Spec => []Fsck
<1>1. Init => IInv /\ TInv /\ RInv /\ FInv
  BY Inicia, IniciaTipo, IniciaRutas, IniciaFsck
<1>2. IInv /\ TInv /\ RInv /\ FInv /\ [Next]_vars => (IInv /\ TInv /\ RInv /\ FInv)'
  <2>1. IInv => Forma
    BY DEF IInv
  <2>. QED BY <2>1, Conserva, SigueTipo, SigueRutas, SigueFsck
<1>. QED BY <1>1, <1>2, BastaFsck, PTL DEF Spec

\* Nor does osada_write find a chain that ends too soon, though others change theirs while
\* it walks along it.
THEOREM NuncaSinBloqueSiempre == ASSUME Apartados PROVE Spec => []NuncaSinBloque
<1>1. Init => IInv /\ TInv /\ RInv /\ FInv
  BY Inicia, IniciaTipo, IniciaRutas, IniciaFsck
<1>2. IInv /\ TInv /\ RInv /\ FInv /\ [Next]_vars => (IInv /\ TInv /\ RInv /\ FInv)'
  <2>1. IInv => Forma
    BY DEF IInv
  <2>. QED BY <2>1, Conserva, SigueTipo, SigueRutas, SigueFsck
<1>. QED BY <1>1, <1>2, BastaFsck, PTL DEF Spec

-----------------------------------------------------------------------------
(* No file has more blocks than its size asks for, if there is one client. *)

\* The blocks that are free, and those a thread has yet to mark.
Libres(b) == Cardinality(Bloques \ b)
PorMarcar(l) == IF l.pc = "enlazar" THEN l.abm - 1 ELSE l.abm

\* A chain that is being changed will not be too long, and the blocks it lacks are free.
\* The others are not too long.
Mesura(t, b, l, n) ==
  Estira(l) => /\ t[l.pos].estado = "REGULAR" => n[l.pos] + Faltan(l) <= BloquesDe(l.tam)
               /\ PorMarcar(l) <= Libres(b)
Justa(t, b, m, n) ==
  /\ \A h \in Hilos : Mesura(t, b, m[h], n)
  /\ \A i \in Entradas : t[i].estado = "REGULAR" /\ Ninguno(m, i) => n[i] <= BloquesDe(t[i].tam)
EInv == \E c, n : Cuadra(tabla, fat, bitmap, loc, c, n) /\ Justa(tabla, bitmap, loc, n)

\* A block that is marked is one free block less at most.
LEMMA LibresMenos ==
  ASSUME NEW b, NEW x
  PROVE  /\ Libres(b) \in Nat /\ Libres(b \cup {x}) \in Nat /\ Libres(b) - 1 <= Libres(b \cup {x})
         /\ Bloques \ b = {} => Libres(b) = 0
<1>1. IsFiniteSet(Bloques)
  BY SupuestoOsada, FS_Interval DEF Bloques
<1>2. IsFiniteSet(Bloques \ b) /\ Bloques \ b \in SUBSET Bloques
  BY <1>1, FS_Subset
<1>3. Bloques \ (b \cup {x}) = (Bloques \ b) \ {x}
  OBVIOUS
<1>. DEFINE S == Bloques \ b
<1>4. /\ Cardinality(S) \in Nat /\ Cardinality(S \ {x}) \in Nat
      /\ Cardinality(S \ {x}) = IF x \in S THEN Cardinality(S) - 1 ELSE Cardinality(S)
      /\ S = {} => Cardinality(S) = 0
  <2>1. IsFiniteSet(S)
    BY <1>2
  <2>. HIDE DEF S
  <2>2. IsFiniteSet(S \ {x}) /\ Cardinality(S \ {x}) = IF x \in S THEN Cardinality(S) - 1 ELSE Cardinality(S)
    BY <2>1, FS_RemoveElement
  <2>. QED BY <2>1, <2>2, FS_CardinalityType, FS_EmptySet
<1>5. Libres(b) = Cardinality(S) /\ Libres(b \cup {x}) = Cardinality(S \ {x})
  BY <1>3 DEF Libres
<1>. HIDE DEF S
<1>6. Cardinality(S) - 1 <= Cardinality(S \ {x})
  BY <1>4
<1>. QED BY <1>4, <1>5, <1>6 DEF S

\* There is a number of free blocks.
LEMMA LibresNat == ASSUME NEW b PROVE Libres(b) \in Nat
BY LibresMenos

\* A step of the client outside the chains.
LEMMA JustaFuera ==
  ASSUME Solo, NEW h \in Hilos, NEW n, NEW n2, Justa(tabla, bitmap, loc, n),
         ~Estira(loc[h]), ~Estira(loc'[h]),
         \A i \in Entradas : tabla'[i].estado = "REGULAR" =>
           \/ n2[i] <= BloquesDe(tabla'[i].tam)
           \/ tabla[i].estado = "REGULAR" /\ tabla'[i].tam = tabla[i].tam /\ n2[i] = n[i]
  PROVE  Justa(tabla', bitmap', loc', n2)
<1>1. \A g \in Hilos : g = h
  BY DEF Solo
<1>2. \A g \in Hilos : Mesura(tabla', bitmap', loc'[g], n2)
  BY <1>1 DEF Mesura
<1>3. ASSUME NEW i \in Entradas, tabla'[i].estado = "REGULAR" PROVE n2[i] <= BloquesDe(tabla'[i].tam)
  <2>1. Ninguno(loc, i)
    BY <1>1 DEF Ninguno
  <2>. QED BY <1>3, <2>1 DEF Justa
<1>. QED BY <1>2, <1>3 DEF Justa

\* A step of the client that goes on with the chain of its entry.
LEMMA JustaMisma ==
  ASSUME Solo, NEW h \in Hilos, NEW n, NEW n2, Justa(tabla, bitmap, loc, n), tabla' = tabla,
         Estira(loc[h]), Estira(loc'[h]), Prosigue(loc'[h], loc[h]),
         PorMarcar(loc'[h]) <= Libres(bitmap'), \A i \in Entradas \ {loc[h].pos} : n2[i] = n[i],
         n2[loc[h].pos] + Faltan(loc'[h]) = n[loc[h].pos] + Faltan(loc[h])
  PROVE  Justa(tabla', bitmap', loc', n2)
<1>1. \A g \in Hilos : g = h
  BY DEF Solo
<1>2. Mesura(tabla', bitmap', loc'[h], n2)
  BY DEF Justa, Mesura, Prosigue
<1>3. ASSUME NEW i \in Entradas, tabla'[i].estado = "REGULAR", Ninguno(loc', i)
      PROVE  n2[i] <= BloquesDe(tabla'[i].tam)
  <2>1. i # loc[h].pos
    BY <1>3 DEF Ninguno, Prosigue
  <2>2. Ninguno(loc, i)
    BY <1>1, <2>1 DEF Ninguno
  <2>. QED BY <1>3, <2>1, <2>2 DEF Justa
<1>. QED BY <1>1, <1>2, <1>3 DEF Justa

\* The steps before and after which no chain is being changed.
Intacta(h) ==
  \/ Pedir(h) \/ Morir(h) \/ Mkdir(h) \/ Create(h) \/ CreateFin(h) \/ Utimens(h) \/ Open(h)
  \/ OpenTomar(h) \/ Release(h) \/ ReleaseSoltar(h) \/ CreateMux(h) \/ Rmdir(h) \/ Rename(h)
  \/ Unlink(h) \/ UnlinkPrimero(h) \/ UnlinkSeguir(h) \/ Write(h) \/ WriteIr(h) \/ Escribir(h)
  \/ Truncado(h)
LEMMA PorFuera ==
  ASSUME TInv, Forma, NEW h \in Hilos,
         Intacta(h) \/ MkdirMux(h) \/ CreateAlta(h) \/ RmdirBaja(h) \/ RenameAlta(h) \/ UnlinkBaja(h) \/ UnlinkLimpiar(h)
  PROVE  ~Estira(loc[h]) /\ ~Estira(loc'[h])
<1>. DEFINE l == loc[h]
            m == loc'[h]
<1>1. LocalBien(l) /\ DOMAIN loc = Hilos /\ DOMAIN l = Campos
  BY DeHilo DEF Forma
<1>2. Inerte(m) => ~Estira(m)
  BY InerteHebra
<1>3. CASE Pedir(h) \/ Morir(h)
  <2>1. l.pc = "libre" \/ l.pc = "open"
    BY <1>3 DEF Pedir, Morir, En
  <2>2. Pedir(h) => ~Estira(m)
    BY <1>2, PideHebra DEF Estira
  <2>3. Morir(h) => ~Estira(m)
    BY OciosoForma DEF Morir, Forma, Campos, Estira
  <2>. QED BY <1>3, <2>1, <2>2, <2>3 DEF Estira
<1>4. CASE \/ Mkdir(h) \/ Create(h) \/ CreateFin(h) \/ Utimens(h) \/ Open(h) \/ OpenTomar(h)
           \/ Release(h) \/ ReleaseSoltar(h)
  <2>1. Inerte(l) /\ Inerte(m)
    BY <1>4, PasosInertes
  <2>. QED BY <1>2, <2>1, InerteHebra
<1>5. CASE CreateMux(h)
  <2>. DEFINE De2(i, b) == loc' = [loc EXCEPT ![h].pc = "createAlta", ![h].pos = i, ![h].blk = b]
  <2>1. CreateResponde(h, "fallo") \/ \E i, b : De2(i, b)
    BY <1>5, Zenon DEF CreateMux
  <2>2. \A i, b : De2(i, b) => m.pc = "createAlta"
    BY DEF Forma, Campos
  <2>. HIDE DEF De2
  <2>3. l.pc = "createMux"
    BY <1>5 DEF CreateMux, En
  <2>. QED BY <1>2, <2>1, <2>2, <2>3, RespondeInerte DEF Estira
<1>6. CASE Rmdir(h) \/ Rename(h) \/ Unlink(h)
  <2>. DEFINE Pone(x, i) == loc' = [loc EXCEPT ![h].pc = x, ![h].pos = i]
              Pone2(i, p) == loc' = [loc EXCEPT ![h].pc = "renameAlta", ![h].pos = i, ![h].padre = p]
  <2>1. Responder(h) \/ (\E i : Pone("rmdirBaja", i) \/ Pone("unlinkBaja", i)) \/ \E i, p : Pone2(i, p)
    BY <1>6, Zenon DEF Rmdir, Rename, Unlink
  <2>2. \A x, i : Pone(x, i) => m.pc = x
    BY DEF Forma, Campos
  <2>3. \A i, p : Pone2(i, p) => m.pc = "renameAlta"
    BY DEF Forma, Campos
  <2>4. l.pc \in {"rmdir", "rename", "unlink"}
    BY <1>6 DEF Rmdir, Rename, Unlink, En
  <2>. HIDE DEF Pone, Pone2
  <2>5. Inerte(m) \/ m.pc \in {"rmdirBaja", "renameAlta", "unlinkBaja"}
    BY <2>1, <2>2, <2>3, RespondeInerte
  <2>. QED BY <1>2, <2>4, <2>5 DEF Estira
<1>7. CASE UnlinkPrimero(h) \/ UnlinkSeguir(h)
  <2>1. l.pc \in {"unlinkPrimero", "unlinkSeguir"} /\ \E b : UnlinkSigue(h, b)
    BY <1>7 DEF UnlinkPrimero, UnlinkSeguir, En
  <2>2. l.luego = "libre"
    BY <1>1, <2>1 DEF LocalBien
  <2>3. m.pc \in {"copiar", "unlinkLimpiar"} /\ m.luego = "libre"
    BY <2>1, <2>2, SigueCambia
  <2>. QED BY <2>1, <2>3 DEF Estira
<1>8. CASE Write(h) \/ WriteIr(h) \/ Escribir(h)
  <2>1. l.pc \in {"write", "writeIr", "escribir"}
    BY <1>8 DEF Write, WriteIr, Escribir, En
  <2>2. m.pc \in {"libre", "truncate", "writeIr", "escribir", "nunca"}
    <3>0. Responder(h) => m.pc = "libre"
      BY OciosoForma DEF Responder, Forma, Ocioso
    <3>1. CASE Write(h)
      <4>. DEFINE Trunca(p, x) == loc' = [loc EXCEPT ![h].pc = "truncate", ![h].wpos = p, ![h].vuelve = x]
                  Va(p) == loc' = [loc EXCEPT ![h].pc = "writeIr", ![h].wpos = p]
      <4>1. Responder(h) \/ (\E p, x : Trunca(p, x)) \/ \E p : Va(p)
        BY <3>1, Zenon DEF Write
      <4>2. \A p, x : Trunca(p, x) => m.pc = "truncate"
        BY DEF Forma, Campos
      <4>3. \A p : Va(p) => m.pc = "writeIr"
        BY DEF Forma, Campos
      <4>. HIDE DEF Trunca, Va, m
      <4>. QED BY <3>0, <4>1, <4>2, <4>3
    <3>2. CASE WriteIr(h)
      <4>. DEFINE Halla(p, x) == loc' = [loc EXCEPT ![h].pc = "escribir", ![h].blk = p, ![h].abm = x]
      <4>1. UNCHANGED loc \/ \E p, x : Halla(p, x)
        BY <3>2, Zenon DEF WriteIr
      <4>2. UNCHANGED loc => m.pc = "writeIr"
        BY <3>2 DEF WriteIr, En
      <4>3. \A p, x : Halla(p, x) => m.pc = "escribir"
        BY DEF Forma, Campos
      <4>. HIDE DEF Halla, m
      <4>. QED BY <4>1, <4>2, <4>3
    <3>3. CASE Escribir(h)
      <4>1. \/ Responder(h) \/ Ir(h, "nunca")
            \/ \E p, x : loc' = [loc EXCEPT ![h].blk = p, ![h].abm = x]
        BY <3>3 DEF Escribir
      <4>2. l.pc = "escribir"
        BY <3>3 DEF Escribir, En
      <4>. QED BY <1>1, <3>0, <4>1, <4>2 DEF Ir, Campos
    <3>. QED BY <1>8, <3>1, <3>2, <3>3
  <2>. QED BY <2>1, <2>2 DEF Estira
<1>9. CASE Truncado(h)
  <2>1. l.pc = "truncado" /\ Vuelve(h, TRUE)
    BY <1>9 DEF Truncado, En
  <2>2. l.luego = "libre"
    BY <1>1, <2>1 DEF LocalBien
  <2>. QED BY <1>2, <2>1, <2>2, VuelveBien DEF Estira
<1>10. CASE MkdirMux(h) \/ CreateAlta(h) \/ RmdirBaja(h) \/ RenameAlta(h)
  <2>1. l.pc \in {"mkdirMux", "createAlta", "rmdirBaja", "renameAlta"}
    BY <1>10, Zenon DEF MkdirMux, CreateAlta, RmdirBaja, RenameAlta, En
  <2>2. Responder(h) \/ \E x : Copiando(h, x, "libre") \/ Copiando(h, x, "createFin")
    BY <1>10, Zenon DEF MkdirMux, CreateAlta, RmdirBaja, RenameAlta
  <2>3. Inerte(m)
    BY <2>2, RespondeInerte
  <2>. QED BY <1>2, <2>1, <2>3 DEF Estira
<1>11. CASE UnlinkBaja(h) \/ UnlinkLimpiar(h)
  <2>1. l.pc \in {"unlinkBaja", "unlinkLimpiar"}
    BY <1>11 DEF UnlinkBaja, UnlinkLimpiar, En
  <2>2. Responder(h) \/ Ir(h, "unlinkPrimero") \/ Ir(h, "unlinkSeguir")
    BY <1>11 DEF UnlinkBaja, UnlinkLimpiar
  <2>3. Inerte(m) \/ m.pc \in {"unlinkPrimero", "unlinkSeguir"}
    BY <2>2, RespondeInerte, IrCambia
  <2>. QED BY <1>2, <2>1, <2>3 DEF Estira
<1>. QED BY <1>3, <1>4, <1>5, <1>6, <1>7, <1>8, <1>9, <1>10, <1>11, Zenon DEF Intacta

\* The steps outside the chains that write nothing.
LEMMA JustoQuieto ==
  ASSUME Solo, TInv, Forma, NEW h \in Hilos, NEW n, Justa(tabla, bitmap, loc, n), Intacta(h)
  PROVE  Justa(tabla', bitmap', loc', n)
<1>1. tabla' = tabla
  <2>1. Pedir(h) \/ Morir(h) => tabla' = tabla
    BY DEF Pedir, PedirNuevo, PedirRename, PedirRmdir, PedirUnlink, PedirUtimens, PedirTruncate,
           PedirOpen, PedirWrite, PedirRelease, Pide, Morir, estructuras
  <2>2. ASSUME \/ Mkdir(h) \/ Create(h) \/ CreateFin(h) \/ Utimens(h) \/ Open(h) \/ OpenTomar(h)
               \/ Release(h) \/ ReleaseSoltar(h)
        PROVE  tabla' = tabla
    BY <2>2, PasosInertes DEF estructuras
  <2>3. ASSUME \/ CreateMux(h) \/ Rmdir(h) \/ Rename(h) \/ Unlink(h) \/ UnlinkPrimero(h) \/ UnlinkSeguir(h)
               \/ Write(h) \/ WriteIr(h) \/ Escribir(h) \/ Truncado(h)
        PROVE  UNCHANGED estructuras
    BY <2>3, Zenon DEF CreateMux, Rmdir, Rename, Unlink, UnlinkPrimero, UnlinkSeguir, Write, WriteIr,
                       Escribir, Truncado
  <2>. QED BY <2>1, <2>2, <2>3, Zenon DEF Intacta, estructuras
<1>. QED BY <1>1, PorFuera, JustaFuera

\* The steps outside the chains that write an entry.
LEMMA JustoTabla ==
  ASSUME Solo, TInv, Forma, NEW h \in Hilos, NEW c, NEW n, Cuadra(tabla, fat, bitmap, loc, c, n),
         Justa(tabla, bitmap, loc, n), MkdirMux(h) \/ RmdirBaja(h) \/ RenameAlta(h) \/ UnlinkBaja(h)
  PROVE  Justa(tabla', bitmap', loc', n)
<1>1. \A i \in Entradas : tabla[i] \in Entrada /\ tabla \in [Entradas -> Entrada]
  BY Fichas
<1>2. ASSUME NEW i \in Entradas, tabla'[i].estado = "REGULAR"
      PROVE  tabla[i].estado = "REGULAR" /\ tabla'[i].tam = tabla[i].tam
  <2>1. CASE tabla' = tabla
    BY <1>2, <2>1
  <2>2. ASSUME NEW e, NEW x, tabla' = [tabla EXCEPT ![e].estado = x], x # "REGULAR"
        PROVE  tabla[i].estado = "REGULAR" /\ tabla'[i].tam = tabla[i].tam
    BY <1>1, <1>2, <2>2 DEF Entrada
  <2>3. CASE MkdirMux(h)
    <3>1. tabla' = tabla \/ \E e : Alta(h, e, "DIRECTORY", FIN)
      BY <2>3, Zenon DEF MkdirMux
    <3>2. ASSUME NEW e, Alta(h, e, "DIRECTORY", FIN) PROVE tabla'[i] = tabla[i]
      BY <1>1, <1>2, <3>2 DEF Alta
    <3>. QED BY <1>2, <3>1, <3>2
  <2>4. CASE RmdirBaja(h)
    BY <2>2, <2>4 DEF RmdirBaja
  <2>5. CASE UnlinkBaja(h)
    BY <2>1, <2>2, <2>5 DEF UnlinkBaja
  <2>6. CASE RenameAlta(h)
    <3>1. tabla' = tabla \/ \E e, x, p : tabla' = [tabla EXCEPT ![e].nombre = x, ![e].padre = p]
      BY <2>6, Zenon DEF RenameAlta
    <3>2. ASSUME NEW e, NEW x, NEW p, tabla' = [tabla EXCEPT ![e].nombre = x, ![e].padre = p]
          PROVE  tabla'[i].estado = tabla[i].estado /\ tabla'[i].tam = tabla[i].tam
      BY <1>1, <3>2 DEF Entrada
    <3>. QED BY <1>2, <3>1, <3>2
  <2>. QED BY <2>3, <2>4, <2>5, <2>6
<1>. QED BY <1>2, PorFuera, JustaFuera

\* create takes a free entry: the file has one block.
LEMMA JustoAlta ==
  ASSUME Solo, TInv, Forma, NEW h \in Hilos, NEW c, NEW n, NEW c2, NEW n2,
         Cuadra(tabla, fat, bitmap, loc, c, n), Justa(tabla, bitmap, loc, n), CreateAlta(h),
         Agrega(loc[h].pos, loc[h].blk, c, n, c2, n2), n[loc[h].pos] = 0
  PROVE  Justa(tabla', bitmap', loc', n2)
<1>. DEFINE e == loc[h].pos
<1>1. n2[e] = 1 /\ \A i \in Entradas \ {e} : n2[i] = n[i]
  BY DEF Agrega
<1>2. e \in Entradas /\ Alta(h, e, "REGULAR", loc[h].blk)
  BY DeHilo DEF LocalBien, CreateAlta, En
<1>3. tabla'[e].tam = 0 /\ \A i \in Entradas \ {e} : tabla'[i] = tabla[i]
  <2>1. tabla \in [Entradas -> Entrada]
    BY <1>2, Fichas
  <2>. QED BY <1>2, <2>1 DEF Alta
<1>4. n2[e] <= BloquesDe(tabla'[e].tam)
  BY <1>1, <1>3 DEF BloquesDe
<1>. HIDE DEF e
<1>. QED BY <1>1, <1>3, <1>4, PorFuera, JustaFuera

\* unlink frees a block of an entry that is deleted.
LEMMA JustoLibera ==
  ASSUME Solo, TInv, Forma, NEW h \in Hilos, NEW c, NEW n, NEW c2, NEW n2,
         Cuadra(tabla, fat, bitmap, loc, c, n), Justa(tabla, bitmap, loc, n), UnlinkLimpiar(h),
         QuitaCabeza(loc[h].pos, c, n, c2, n2)
  PROVE  Justa(tabla', bitmap', loc', n2)
<1>. DEFINE e == loc[h].pos
<1>1. tabla' = tabla /\ Deja(loc[h])
  BY DEF UnlinkLimpiar, En, Deja
<1>2. tabla[e].estado = "DELETED"
  BY <1>1 DEF Cuadra, Hebra, Dejada
<1>3. \A i \in Entradas \ {e} : n2[i] = n[i]
  BY DEF QuitaCabeza
<1>. HIDE DEF e
<1>. QED BY <1>1, <1>2, <1>3, PorFuera, JustaFuera

\* ftruncate finds its file: there are blocks enough.
LEMMA JustoTruncate ==
  ASSUME Solo, TInv, Forma, RInv, NEW h \in Hilos, NEW c, NEW n, Cuadra(tabla, fat, bitmap, loc, c, n),
         Justa(tabla, bitmap, loc, n), Truncate(h)
  PROVE  Justa(tabla', bitmap', loc', n)
<1>. DEFINE l == loc[h]
            m == loc'[h]
            i == is_parent(l.ruta)
            d == BloquesDe(l.tam) - BloquesDe(tabla[i].tam)
<1>1. tabla' = tabla /\ bitmap' = bitmap /\ l.pc = "truncate"
  BY DEF Truncate, En, estructuras
<1>2. l.ruta \in Seq(Nombres) /\ l.ruta # <<>> /\ Mia(h, l.ruta) /\ l.luego = "libre"
  BY <1>1, DeHilo DEF LocalBien, Locales, RInv, Pedido
<1>3. ~Estira(l) /\ \A g \in Hilos : g = h
  BY <1>1 DEF Estira, Solo
<1>4. Vigente(i) => i \in Entradas
  BY <1>2, Encontrada
<1>5. \/ Vuelve(h, FALSE)
      \/ Vuelve(h, TRUE)
      \/ /\ Vigente(i) /\ ~(d > Libres(bitmap))
         /\ loc' = [loc EXCEPT ![h].pc = "cola", ![h].pos = i, ![h].abm = d]
  BY Zenon DEF Truncate, Libres
<1>6. CASE ~Estira(m)
  BY <1>1, <1>3, <1>6, JustaFuera
<1>7. CASE Vuelve(h, FALSE) \/ Vuelve(h, TRUE)
  <2>1. Inerte(m) \/ m.pc = "writeIr"
    BY <1>2, <1>7, RespondeInerte, VuelveBien
  <2>2. ~Estira(m)
    BY <2>1, InerteHebra DEF Estira
  <2>. QED BY <1>6, <2>2
<1>8. CASE Vigente(i) /\ ~(d > Libres(bitmap)) /\ loc' = [loc EXCEPT ![h].pc = "cola", ![h].pos = i, ![h].abm = d]
  <2>0. BloquesDe(l.tam) \in Nat /\ BloquesDe(tabla[i].tam) \in Nat /\ Libres(bitmap) \in Nat
    BY <1>4, <1>8, Tamanios, LibresMenos
  <2>1. tabla[i].estado = "REGULAR" => n[i] \in Nat /\ n[i] <= BloquesDe(tabla[i].tam)
    <3>1. Ninguno(loc, i)
      BY <1>3 DEF Ninguno
    <3>2. n[i] \in Nat
      BY <1>4, <1>8 DEF Cuadra, FilaBien
    <3>. QED BY <1>4, <1>8, <3>1, <3>2 DEF Justa
  <2>2. d <= Libres(bitmap) /\ (tabla[i].estado = "REGULAR" => n[i] + d <= BloquesDe(l.tam))
    <3>1. PICK x, y, z : x = BloquesDe(l.tam) /\ y = BloquesDe(tabla[i].tam) /\ z = Libres(bitmap)
      OBVIOUS
    <3>2. d = x - y /\ x \in Nat /\ y \in Nat /\ z \in Nat /\ ~(d > z)
      BY <1>8, <2>0, <3>1
    <3>3. tabla[i].estado = "REGULAR" => n[i] \in Nat /\ n[i] <= y
      BY <2>1, <3>1
    <3>. HIDE DEF d, i
    <3>4. d <= z /\ (tabla[i].estado = "REGULAR" => n[i] + d <= x)
      BY <3>2, <3>3
    <3>. QED BY <3>1, <3>4
  <2>. HIDE DEF d, i
  <2>3. m.pc = "cola" /\ m.pos = i /\ m.abm = d /\ m.tam = l.tam
    BY <1>8 DEF Forma, Campos
  <2>4. PorMarcar(m) = d /\ Faltan(m) = d
    BY <2>3 DEF PorMarcar, Faltan, Corto
  <2>. HIDE DEF m, l
  <2>5. Mesura(tabla, bitmap, m, n)
    BY <2>2, <2>3, <2>4 DEF Mesura
  <2>6. \A j \in Entradas : Ninguno(loc, j)
    BY <1>3 DEF Ninguno, l
  <2>. QED BY <1>1, <1>3, <2>5, <2>6 DEF Justa, m
<1>. QED BY <1>5, <1>7, <1>8

\* The new size is in the table.
LEMMA JustoTamanio ==
  ASSUME Solo, TInv, Forma, NEW h \in Hilos, NEW c, NEW n, Cuadra(tabla, fat, bitmap, loc, c, n),
         Justa(tabla, bitmap, loc, n), Tamanio(h)
  PROVE  Justa(tabla', bitmap', loc', n)
<1>. DEFINE l == loc[h]
            m == loc'[h]
            e == l.pos
<1>1. l.pc = "cola" /\ l.abm = 0 /\ tabla' = [tabla EXCEPT ![e].tam = l.tam]
      /\ Copiando(h, <<"tabla">>, "truncado")
  BY DEF Tamanio, En
<1>2. e \in Entradas /\ Estira(l) /\ ~Corto(l)
  BY <1>1, DeHilo DEF LocalBien, Estira, Corto
<1>3. tabla[e].estado = "REGULAR" => n[e] \in Nat /\ n[e] <= BloquesDe(l.tam)
  <2>1. n[e] \in Nat
    BY <1>2 DEF Cuadra, FilaBien
  <2>2. tabla[e].estado = "REGULAR" => n[e] + 0 <= BloquesDe(l.tam)
    BY <1>1, <1>2 DEF Justa, Mesura, Faltan
  <2>. QED BY <2>1, <2>2
<1>4. ~Estira(m)
  BY <1>1, CopiandoCambia DEF Estira
<1>5. /\ tabla'[e].estado = tabla[e].estado /\ tabla'[e].tam = l.tam
      /\ \A i \in Entradas \ {e} : tabla'[i] = tabla[i]
  <2>1. tabla \in [Entradas -> Entrada]
    BY <1>2, Fichas
  <2>. QED BY <1>1, <1>2, <2>1 DEF Entrada
<1>6. \A g \in Hilos : g = h
  BY DEF Solo
<1>7. m = loc'[h] /\ l = loc[h] /\ e = loc[h].pos
  OBVIOUS
<1>. HIDE DEF m, l, e
<1>8. \A g \in Hilos : Mesura(tabla', bitmap', loc'[g], n)
  BY <1>4, <1>6, <1>7 DEF Mesura
<1>9. ASSUME NEW i \in Entradas, tabla'[i].estado = "REGULAR" PROVE n[i] <= BloquesDe(tabla'[i].tam)
  <2>1. CASE i = e
    BY <1>3, <1>5, <1>9, <2>1
  <2>2. CASE i # e
    <3>1. Ninguno(loc, i)
      BY <1>6, <1>7, <2>2 DEF Ninguno
    <3>. QED BY <1>5, <1>9, <2>2, <3>1 DEF Justa
  <2>. QED BY <2>1, <2>2
<1>. QED BY <1>8, <1>9 DEF Justa

\* The copies to the image.
LEMMA JustoCopiar ==
  ASSUME Solo, TInv, Forma, NEW h \in Hilos, NEW c, NEW n, Cuadra(tabla, fat, bitmap, loc, c, n),
         Justa(tabla, bitmap, loc, n), Copiar(h)
  PROVE  Justa(tabla', bitmap', loc', n)
<1>. DEFINE l == loc[h]
            m == loc'[h]
<1>1. tabla' = tabla /\ bitmap' = bitmap /\ l.pc = "copiar"
  BY DEF Copiar, En, estructuras
<1>2. l.luego \in {"libre", "cola", "truncado", "createFin"}
  <2>1. LocalBien(l) /\ Hebra(h, l, tabla, fat, c, n)
    BY DeHilo DEF Cuadra
  <2>. QED BY <1>1, <2>1 DEF LocalBien, Hebra, Puesto
<1>3. CASE Responder(h)
  <2>1. m.pc = "libre"
    BY <1>3, OciosoForma DEF Responder, Forma, Ocioso
  <2>2. CASE ~Estira(l)
    BY <1>1, <2>1, <2>2, JustaFuera DEF Estira
  <2>3. CASE Estira(l)
    <3>1. Len(l.copias) > 1 \/ l.luego = "libre" \/ ~Responder(h)
      <4>1. l.luego = "cola"
        BY <1>1, <2>3 DEF Estira
      <4>2. CASE loc' = [loc EXCEPT ![h].copias = Tail(@)]
        BY <1>1, <2>1, <4>2 DEF Forma, Campos
      <4>3. CASE loc' = [loc EXCEPT ![h].copias = <<>>, ![h].pc = l.luego, ![h].luego = "libre"]
        BY <2>1, <4>1, <4>3 DEF Forma, Campos
      <4>. QED BY <4>1, <4>2, <4>3 DEF Copiar
    <3>2. CASE loc' = [loc EXCEPT ![h].copias = Tail(@)]
      BY <1>1, <2>1, <3>2 DEF Forma, Campos
    <3>. QED BY <1>1, <2>3, <3>1, <3>2, <1>3 DEF Copiar, Estira
  <2>. QED BY <2>2, <2>3
<1>4. CASE ~Responder(h)
  <2>1. /\ Prosigue(m, l) /\ m.abm = l.abm
        /\ (m.pc = "copiar" /\ m.luego = l.luego) \/ (l.luego # "libre" /\ m.pc = l.luego /\ m.luego = "libre")
    <3>1. CASE loc' = [loc EXCEPT ![h].copias = Tail(@)]
      BY <1>1, <3>1 DEF Forma, Campos, Prosigue
    <3>2. CASE l.luego # "libre" /\ loc' = [loc EXCEPT ![h].copias = <<>>, ![h].pc = l.luego, ![h].luego = "libre"]
      BY <3>2 DEF Forma, Campos, Prosigue
    <3>3. \/ loc' = [loc EXCEPT ![h].copias = Tail(@)]
          \/ l.luego # "libre" /\ loc' = [loc EXCEPT ![h].copias = <<>>, ![h].pc = l.luego, ![h].luego = "libre"]
      BY <1>4, Zenon DEF Copiar
    <3>. QED BY <3>1, <3>2, <3>3
  <2>. HIDE DEF m, l
  <2>2. CASE l.luego = "cola"
    <3>1. Estira(l) /\ Estira(m) /\ Faltan(l) = l.abm /\ Faltan(m) = l.abm /\ PorMarcar(m) = l.abm
          /\ PorMarcar(l) = l.abm
      BY <1>1, <2>1, <2>2 DEF Estira, Faltan, Corto, PorMarcar
    <3>2. l.abm <= Libres(bitmap)
      BY <3>1 DEF Justa, Mesura, l
    <3>. QED BY <1>1, <2>1, <3>1, <3>2, JustaMisma DEF l, m
  <2>3. CASE l.luego # "cola"
    <3>1. ~Estira(l) /\ ~Estira(m)
      BY <1>1, <1>2, <2>1, <2>3 DEF Estira
    <3>. QED BY <1>1, <3>1, JustaFuera DEF l, m
  <2>. QED BY <2>2, <2>3
<1>. QED BY <1>3, <1>4

\* ftruncate always finds the block it looks for.
LEMMA JustoPedirBloque ==
  ASSUME Solo, TInv, Forma, NEW h \in Hilos, NEW c, NEW n, Cuadra(tabla, fat, bitmap, loc, c, n),
         Justa(tabla, bitmap, loc, n), PedirBloque(h)
  PROVE  Justa(tabla', bitmap', loc', n)
<1>. DEFINE l == loc[h]
            m == loc'[h]
<1>1. tabla' = tabla /\ bitmap' = bitmap /\ l.pc = "pedir"
  BY DEF PedirBloque, En, estructuras
<1>2. Estira(l) /\ PorMarcar(l) = l.abm /\ l.abm > 0 /\ l.abm \in Int
  <2>1. Puesto(l, fat, c, n) /\ l.abm \in Int
    BY Tamanios DEF Cuadra, Hebra
  <2>. QED BY <1>1, <2>1 DEF Estira, PorMarcar, Puesto
<1>3. l.abm <= Libres(bitmap)
  BY <1>2 DEF Justa, Mesura
<1>4. BitLibre # FIN
  <2>1. Libres(bitmap) # 0
    BY <1>2, <1>3
  <2>2. Bloques \ bitmap # {}
    BY <2>1, LibresMenos
  <2>3. Bloques \ bitmap \in SUBSET Nat /\ FIN \notin Bloques
    BY SupuestoOsada DEF Bloques, FIN
  <2>4. Min(Bloques \ bitmap) \in Bloques \ bitmap
    BY <2>2, <2>3, Minimo
  <2>. QED BY <2>2, <2>3, <2>4 DEF BitLibre
<1>5. loc' = [loc EXCEPT ![h].pc = "marcar", ![h].ant = loc[h].blk, ![h].blk = BitLibre]
  BY <1>4, Zenon DEF PedirBloque
<1>6. m.pc = "marcar" /\ m.abm = l.abm /\ Prosigue(m, l)
  BY <1>5 DEF Forma, Campos, Prosigue
<1>. HIDE DEF m, l
<1>7. Estira(m) /\ PorMarcar(m) = l.abm /\ Faltan(m) = Faltan(l)
  BY <1>1, <1>6 DEF Estira, PorMarcar, Faltan, Corto
<1>. QED BY <1>1, <1>2, <1>3, <1>6, <1>7, JustaMisma DEF l, m

\* The block is marked, and linked.
LEMMA JustoMarcar ==
  ASSUME Solo, TInv, Forma, NEW h \in Hilos, NEW c, NEW n, Cuadra(tabla, fat, bitmap, loc, c, n),
         Justa(tabla, bitmap, loc, n), Marcar(h) \/ Enlazar(h)
  PROVE  Justa(tabla', bitmap', loc', n)
<1>. DEFINE l == loc[h]
            m == loc'[h]
<1>0. l.abm \in Int
  BY Tamanios
<1>1. CASE Marcar(h)
  <2>1. tabla' = tabla /\ bitmap' = bitmap \cup {l.blk} /\ l.pc = "marcar" /\ Ir(h, "enlazar")
    BY <1>1 DEF Marcar, En
  <2>2. m.pc = "enlazar" /\ m.abm = l.abm /\ Prosigue(m, l)
    BY <2>1, IrCambia
  <2>. HIDE DEF m, l
  <2>3. Estira(l) /\ Estira(m) /\ Faltan(m) = Faltan(l) /\ PorMarcar(l) = l.abm /\ PorMarcar(m) = l.abm - 1
    BY <2>1, <2>2 DEF Estira, PorMarcar, Faltan, Corto
  <2>4. PorMarcar(m) <= Libres(bitmap')
    <3>1. l.abm <= Libres(bitmap)
      BY <2>3 DEF Justa, Mesura, l
    <3>2. Libres(bitmap) \in Nat /\ Libres(bitmap') \in Nat /\ Libres(bitmap) - 1 <= Libres(bitmap')
      BY <2>1, LibresMenos
    <3>3. l.abm - 1 <= Libres(bitmap')
      BY <1>0, <3>1, <3>2 DEF l
    <3>. QED BY <2>3, <3>3
  <2>. QED BY <2>1, <2>2, <2>3, <2>4, JustaMisma DEF l, m
<1>2. CASE Enlazar(h)
  <2>1. tabla' = tabla /\ bitmap' = bitmap /\ l.pc = "enlazar"
        /\ loc' = [loc EXCEPT ![h].pc = "terminar", ![h].luego = "cola", ![h].abm = @ - 1]
    BY <1>2 DEF Enlazar, En
  <2>2. m.pc = "terminar" /\ m.abm = l.abm - 1 /\ Prosigue(m, l)
    BY <2>1 DEF Forma, Campos, Prosigue
  <2>. HIDE DEF m, l
  <2>3. Estira(l) /\ Estira(m) /\ Faltan(m) = (l.abm - 1) + 1 /\ Faltan(l) = l.abm
        /\ PorMarcar(l) = l.abm - 1 /\ PorMarcar(m) = l.abm - 1
    BY <2>1, <2>2 DEF Estira, PorMarcar, Faltan, Corto
  <2>4. (l.abm - 1) + 1 = l.abm
    BY <1>0 DEF l
  <2>5. PorMarcar(m) <= Libres(bitmap')
    BY <2>1, <2>3 DEF Justa, Mesura, l
  <2>. QED BY <2>1, <2>2, <2>3, <2>4, <2>5, JustaMisma DEF l, m
<1>. QED BY <1>1, <1>2

\* The walk to the end of the chain.
LEMMA JustoCola ==
  ASSUME Solo, Apartados, TInv, Forma, NEW h \in Hilos, Ajenos(h), NEW c, NEW n,
         Cuadra(tabla, fat, bitmap, loc, c, n), Justa(tabla, bitmap, loc, n), Cola(h)
  PROVE  Justa(tabla', bitmap', loc', n)
<1>. DEFINE l == loc[h]
            m == loc'[h]
<1>1. tabla' = tabla /\ bitmap' = bitmap /\ l.pc = "cola"
  BY DEF Cola, En, estructuras
<1>2. Estira(l) /\ PorMarcar(l) = l.abm /\ Faltan(l) = l.abm
  BY <1>1 DEF Estira, PorMarcar, Faltan, Corto
<1>3. \/ UNCHANGED loc
      \/ Estira(m) /\ ~Corto(m) /\ m.pc # "enlazar" /\ Prosigue(m, l) /\ m.abm = l.abm
  BY CuadraCola
<1>. HIDE DEF m, l
<1>4. CASE UNCHANGED loc
  BY <1>1, <1>4 DEF Justa
<1>5. CASE Estira(m) /\ ~Corto(m) /\ m.pc # "enlazar" /\ Prosigue(m, l) /\ m.abm = l.abm
  <2>1. PorMarcar(m) = l.abm /\ Faltan(m) = l.abm
    BY <1>5 DEF PorMarcar, Faltan
  <2>2. PorMarcar(m) <= Libres(bitmap')
    BY <1>1, <1>2, <2>1 DEF Justa, Mesura, l
  <2>. QED BY <1>1, <1>2, <1>5, <2>1, <2>2, JustaMisma DEF l, m
<1>. QED BY <1>3, <1>4, <1>5

\* The block marked becomes the end of the chain.
LEMMA JustoTerminar ==
  ASSUME Solo, TInv, Forma, NEW h \in Hilos, NEW c, NEW n, NEW c2, NEW n2,
         Cuadra(tabla, fat, bitmap, loc, c, n), Justa(tabla, bitmap, loc, n), Terminar(h),
         Agrega(loc[h].pos, loc[h].blk, c, n, c2, n2)
  PROVE  Justa(tabla', bitmap', loc', n2)
<1>. DEFINE l == loc[h]
            m == loc'[h]
            e == l.pos
<1>1. /\ l.pc = "terminar" /\ tabla' = tabla /\ bitmap' = bitmap
      /\ loc' = [loc EXCEPT ![h].pc = "copiar", ![h].copias = <<"bitmap", "fat">>]
  BY DEF Terminar, En
<1>2. l.luego = "cola" /\ l.abm \in Int /\ e \in Entradas
  BY <1>1, Tamanios, DeHilo DEF Cuadra, Hebra, Puesto, LocalBien
<1>3. m.pc = "copiar" /\ m.luego = "cola" /\ Prosigue(m, l) /\ m.abm = l.abm
  BY <1>1, <1>2 DEF Forma, Campos, Prosigue
<1>4. n[e] \in Nat /\ n2[e] = n[e] + 1 /\ \A i \in Entradas \ {e} : n2[i] = n[i]
  BY <1>2 DEF Agrega, Cuadra, FilaBien
<1>. HIDE DEF m, l, e
<1>5. /\ Estira(l) /\ Estira(m) /\ Faltan(m) = l.abm /\ Faltan(l) = l.abm + 1
      /\ PorMarcar(m) = l.abm /\ PorMarcar(l) = l.abm
  BY <1>1, <1>3 DEF Estira, Faltan, Corto, PorMarcar
<1>6. (n[e] + 1) + l.abm = n[e] + (l.abm + 1)
  BY <1>2, <1>4
<1>7. PorMarcar(m) <= Libres(bitmap')
  BY <1>1, <1>5 DEF Justa, Mesura, l
<1>. QED BY <1>1, <1>3, <1>4, <1>5, <1>6, <1>7, JustaMisma DEF l, m, e

\* The last block of the chain is freed.
LEMMA JustoLimpiar ==
  ASSUME Solo, TInv, Forma, NEW h \in Hilos, NEW c, NEW n, NEW c2, NEW n2,
         Cuadra(tabla, fat, bitmap, loc, c, n), Justa(tabla, bitmap, loc, n), Limpiar(h),
         QuitaFin(loc[h].pos, c, n, c2, n2)
  PROVE  Justa(tabla', bitmap', loc', n2)
<1>. DEFINE l == loc[h]
            m == loc'[h]
            e == l.pos
<1>1. l.pc = "limpiar" /\ tabla' = tabla /\ Ir(h, "cortar")
  BY DEF Limpiar, En
<1>2. l.abm < 0 /\ l.abm \in Int /\ e \in Entradas
  BY <1>1, Tamanios, DeHilo DEF Cuadra, Hebra, Puesto, LocalBien
<1>3. m.pc = "cortar" /\ Prosigue(m, l) /\ m.abm = l.abm
  BY <1>1, IrCambia
<1>4. n[e] \in Nat /\ n2[e] = n[e] - 1 /\ \A i \in Entradas \ {e} : n2[i] = n[i]
  BY <1>2 DEF QuitaFin, Cuadra, FilaBien
<1>. HIDE DEF m, l, e
<1>5. /\ Estira(l) /\ Estira(m) /\ Faltan(m) = l.abm + 1 /\ Faltan(l) = l.abm
      /\ PorMarcar(m) = l.abm
  BY <1>1, <1>3 DEF Estira, Faltan, Corto, PorMarcar
<1>6. (n[e] - 1) + (l.abm + 1) = n[e] + l.abm
  BY <1>2, <1>4
<1>7. PorMarcar(m) <= Libres(bitmap')
  <2>1. Libres(bitmap') \in Nat
    BY LibresNat
  <2>. QED BY <1>2, <1>5, <2>1
<1>. QED BY <1>1, <1>3, <1>4, <1>5, <1>6, <1>7, JustaMisma DEF l, m, e

\* The chain gets its new end.
LEMMA JustoCortar ==
  ASSUME Solo, TInv, Forma, NEW h \in Hilos, NEW c, NEW n,
         Cuadra(tabla, fat, bitmap, loc, c, n), Justa(tabla, bitmap, loc, n), Cortar(h)
  PROVE  Justa(tabla', bitmap', loc', n)
<1>. DEFINE l == loc[h]
            m == loc'[h]
<1>1. /\ l.pc = "cortar" /\ tabla' = tabla
      /\ loc' = [loc EXCEPT ![h].pc = "copiar", ![h].copias = <<"bitmap", "fat">>,
                            ![h].luego = "cola", ![h].abm = @ + 1]
  BY DEF Cortar, En
<1>2. l.abm < 0 /\ l.abm \in Int
  BY <1>1, Tamanios DEF Cuadra, Hebra, Puesto
<1>3. m.pc = "copiar" /\ m.luego = "cola" /\ Prosigue(m, l) /\ m.abm = l.abm + 1
  BY <1>1 DEF Forma, Campos, Prosigue
<1>. HIDE DEF m, l
<1>4. Estira(l) /\ Estira(m) /\ Faltan(m) = l.abm + 1 /\ Faltan(l) = l.abm + 1 /\ PorMarcar(m) = l.abm + 1
  BY <1>1, <1>3 DEF Estira, Faltan, Corto, PorMarcar
<1>5. PorMarcar(m) <= Libres(bitmap')
  <2>1. Libres(bitmap') \in Nat
    BY LibresNat
  <2>. QED BY <1>2, <1>4, <2>1
<1>. QED BY <1>1, <1>3, <1>4, <1>5, JustaMisma DEF l, m

\* Every step of the client keeps the chains as long as they should be.
LEMMA JustoHilo ==
  ASSUME Solo, TInv, IInv, RInv, NEW h \in Hilos, Pedir(h) \/ Hilo(h) \/ Morir(h),
         NEW c, NEW n, Cuadra(tabla, fat, bitmap, loc, c, n), Justa(tabla, bitmap, loc, n)
  PROVE  \E c2, n2 : Cuadra(tabla', fat', bitmap', loc', c2, n2) /\ Justa(tabla', bitmap', loc', n2)
<1>1. Forma /\ Apartados
  BY DEF IInv, Apartados, Propios, Solo
<1>2. Ajenos(h)
  BY <1>1, SoloSuyos
<1>. DEFINE Bien == Cuadra(tabla', fat', bitmap', loc', c, n)
<1>3. CASE Intacta(h)
  <2>1. Justa(tabla', bitmap', loc', n)
    BY <1>1, <1>3, JustoQuieto
  <2>2. Pedir(h) \/ Morir(h) => Bien
    BY <1>1, <1>2, CuadraPedir
  <2>3. CreateMux(h) \/ Rmdir(h) \/ Rename(h) \/ Unlink(h) => Bien
    BY <1>1, <1>2, CuadraHalla
  <2>4. UnlinkPrimero(h) \/ UnlinkSeguir(h) => Bien
    BY <1>1, <1>2, CuadraSigue
  <2>5. ASSUME \/ Mkdir(h) \/ Create(h) \/ CreateFin(h) \/ Utimens(h) \/ Open(h) \/ OpenTomar(h)
               \/ Release(h) \/ ReleaseSoltar(h)
        PROVE  Bien
    BY <1>1, <1>2, <2>5, CuadraInerte
  <2>6. Write(h) => Bien
    BY <1>1, <1>2, CuadraWrite
  <2>7. WriteIr(h) => Bien
    BY <1>1, <1>2, CuadraWriteIr
  <2>8. Escribir(h) => Bien
    BY <1>1, <1>2, CuadraEscribir
  <2>9. Truncado(h) => Bien
    BY <1>1, <1>2, CuadraTruncado
  <2>. HIDE DEF Bien
  <2>10. Bien
    BY <1>3, <2>2, <2>3, <2>4, <2>5, <2>6, <2>7, <2>8, <2>9, Zenon DEF Intacta
  <2>. QED BY <2>1, <2>10 DEF Bien
<1>4. CASE MkdirMux(h)
  <2>1. Bien
    BY <1>2, <1>1, <1>4, CuadraMkdir
  <2>. QED BY <1>1, <1>4, <2>1, JustoTabla
<1>5. CASE RmdirBaja(h)
  <2>1. Bien
    BY <1>1, <1>2, <1>5, CuadraRmdir
  <2>. QED BY <1>1, <1>5, <2>1, JustoTabla
<1>6. CASE RenameAlta(h)
  <2>1. Bien
    BY <1>1, <1>2, <1>6, CuadraRename
  <2>. QED BY <1>1, <1>6, <2>1, JustoTabla
<1>7. CASE UnlinkBaja(h)
  <2>1. Bien
    BY <1>1, <1>2, <1>7, CuadraBaja
  <2>. QED BY <1>1, <1>7, <2>1, JustoTabla
<1>8. CASE CreateAlta(h)
  BY <1>1, <1>2, <1>8, CuadraCreateAlta, JustoAlta
<1>9. CASE UnlinkLimpiar(h)
  BY <1>1, <1>2, <1>9, CuadraLibera, JustoLibera
<1>10. CASE Truncate(h)
  <2>1. Bien
    BY <1>1, <1>2, <1>10, CuadraTruncate
  <2>. QED BY <1>1, <1>10, <2>1, JustoTruncate
<1>11. CASE Tamanio(h)
  <2>1. Bien
    BY <1>1, <1>2, <1>11, CuadraTamanio
  <2>. QED BY <1>1, <1>11, <2>1, JustoTamanio
<1>12. CASE Copiar(h)
  <2>1. Bien
    BY <1>1, <1>2, <1>12, CuadraCopiar
  <2>. QED BY <1>1, <1>12, <2>1, JustoCopiar
<1>13. CASE PedirBloque(h)
  <2>1. Bien
    BY <1>1, <1>2, <1>13, CuadraPedirBloque
  <2>. QED BY <1>1, <1>13, <2>1, JustoPedirBloque
<1>14. CASE Marcar(h)
  <2>1. Bien
    BY <1>2, <1>1, <1>14, CuadraMarcar
  <2>. QED BY <1>1, <1>14, <2>1, JustoMarcar
<1>15. CASE Enlazar(h)
  <2>1. Bien
    BY <1>1, <1>2, <1>15, CuadraEnlazar
  <2>. QED BY <1>1, <1>15, <2>1, JustoMarcar
<1>16. CASE Cola(h)
  <2>1. Bien
    BY <1>1, <1>2, <1>16, CuadraCola
  <2>. QED BY <1>1, <1>2, <1>16, <2>1, JustoCola
<1>17. CASE Terminar(h)
  BY <1>1, <1>2, <1>17, CuadraTerminar, JustoTerminar
<1>18. CASE Limpiar(h)
  <2>1. PICK c2, n2 : QuitaFin(loc[h].pos, c, n, c2, n2) /\ Cuadra(tabla', fat', bitmap', loc', c2, n2)
    BY <1>1, <1>2, <1>18, CuadraLimpiar
  <2>. QED BY <1>1, <1>18, <2>1, JustoLimpiar
<1>19. CASE Cortar(h)
  <2>1. Bien
    BY <1>1, <1>2, <1>19, CuadraCortar
  <2>. QED BY <1>1, <1>19, <2>1, JustoCortar
<1>20. ~(NuncaPedir(h) \/ NuncaMarcar(h) \/ NuncaEnlazar(h) \/ NuncaSeguir(h))
  BY CuadraNunca
<1>21. Intacta(h) \/ (Hilo(h) /\ ~Intacta(h))
  BY Zenon DEF Intacta
<1>. QED BY <1>3, <1>4, <1>5, <1>6, <1>7, <1>8, <1>9, <1>10, <1>11, <1>12, <1>13, <1>14, <1>15, <1>16,
     <1>17, <1>18, <1>19, <1>20, <1>21, Zenon DEF Hilo, Intacta

\* Every step, and the start.
LEMMA SigueJusto == Solo /\ TInv /\ IInv /\ RInv /\ EInv /\ [Next]_vars => EInv'
<1>. SUFFICES ASSUME Solo, TInv, IInv, RInv, EInv, [Next]_vars PROVE EInv'
  OBVIOUS
<1>1. PICK c, n : Cuadra(tabla, fat, bitmap, loc, c, n) /\ Justa(tabla, bitmap, loc, n)
  BY DEF EInv
<1>2. CASE UNCHANGED vars
  <2>1. tabla' = tabla /\ fat' = fat /\ bitmap' = bitmap /\ loc' = loc
    BY <1>2 DEF vars
  <2>. QED BY <1>1, <2>1 DEF EInv
<1>3. ASSUME NEW h \in Hilos, Pedir(h) \/ Hilo(h) \/ Morir(h) PROVE EInv'
  BY <1>1, <1>3, JustoHilo DEF EInv
<1>. QED BY <1>2, <1>3 DEF Next

LEMMA IniciaJusto == Init => EInv
<1>. SUFFICES ASSUME Init PROVE EInv
  OBVIOUS
<1>1. PICK c, n : Cuadra(tabla, fat, bitmap, loc, c, n)
  BY IniciaFsck DEF FInv
<1>2. tabla = [i \in Entradas |-> [estado |-> "DELETED", nombre |-> "", padre |-> 0, tam |-> 0, primero |-> 0]]
      /\ loc = [h \in Hilos |-> Ocioso]
  BY Zenon DEF Init
<1>3. \A i \in Entradas : tabla[i].estado = "DELETED"
  BY <1>2
<1>4. \A h \in Hilos : ~Estira(loc[h])
  BY <1>2 DEF Ocioso, Estira
<1>5. Justa(tabla, bitmap, loc, n)
  BY <1>3, <1>4 DEF Justa, Mesura
<1>. QED BY <1>1, <1>5 DEF EInv

\* A chain has as many blocks as positions.
LEMMA CuantosBloques ==
  ASSUME TInv, NEW c, NEW n, Cuadra(tabla, fat, bitmap, loc, c, n), Reposo, NEW i \in Archivos
  PROVE  n[i] \in Nat /\ Cardinality(Cadena(i)) = n[i]
<1>. DEFINE N == n[i]
            S == Cadena(i)
            f == [k \in 0..N - 1 |-> c[i][k]]
<1>1. i \in Entradas /\ N \in Nat /\ N > 0 /\ Separadas(c, n)
  BY DEF Archivos, Cuadra, FilaBien
<1>2. \A x : x \in S <=> \E k \in Nat : k < N /\ c[i][k] = x
  BY CadenaDe
<1>3. IsFiniteSet(0..N - 1) /\ Cardinality(0..N - 1) = N
  <2>1. N - 1 \in Int /\ 0 \in Int /\ ~(0 > N - 1) /\ N - 1 - 0 + 1 = N
    BY <1>1
  <2>. QED BY <2>1, FS_Interval
<1>4. \A k : k \in 0..N - 1 <=> k \in Nat /\ k < N
  BY <1>1
<1>5. \A k \in 0..N - 1 : \A o \in 0..N - 1 : c[i][k] = c[i][o] => k = o
  BY <1>1, <1>4 DEF Separadas
<1>. HIDE DEF S, N
<1>6. f \in [0..N - 1 -> S] /\ (\A k, o \in 0..N - 1 : f[k] = f[o] => k = o)
      /\ \A x \in S : \E k \in 0..N - 1 : f[k] = x
  BY <1>2, <1>4, <1>5
<1>7. ExistsBijection(0..N - 1, S)
  <2>. DEFINE D == 0..N - 1
  <2>. HIDE DEF f, D
  <2>1. f \in Bijection(D, S)
    <3>1. DOMAIN f = D
      BY <1>6 DEF D
    <3>2. f \in Injection(D, S)
      BY <1>6, <3>1 DEF Injection, IsInjective, D
    <3>3. f \in Surjection(D, S)
      BY <1>6 DEF Surjection, D
    <3>. QED BY <3>2, <3>3 DEF Bijection
  <2>. QED BY <2>1 DEF ExistsBijection, D
<1>8. Cardinality(S) = N
  BY <1>3, <1>7, FS_Bijection
<1>. QED BY <1>1, <1>8 DEF S, N

\* At rest the chain of a file has the blocks of its size.
LEMMA BastaJusto == TInv /\ EInv => CheckState
<1>. SUFFICES ASSUME TInv, EInv, Reposo, NEW i \in Archivos
              PROVE  Cardinality(Cadena(i)) = BloquesDe(tabla[i].tam)
  BY DEF CheckState
<1>1. PICK c, n : Cuadra(tabla, fat, bitmap, loc, c, n) /\ Justa(tabla, bitmap, loc, n)
  BY DEF EInv
<1>2. i \in Entradas /\ tabla[i].estado = "REGULAR"
  BY DEF Archivos
<1>3. Ninguno(loc, i)
  BY DEF Reposo, EnPaz, Ninguno, Estira
<1>4. n[i] <= BloquesDe(tabla[i].tam) /\ n[i] >= BloquesDe(tabla[i].tam)
  BY <1>1, <1>2, <1>3 DEF Justa, Cuadra, FilaBien
<1>5. n[i] \in Nat /\ Cardinality(Cadena(i)) = n[i]
  BY <1>1, CuantosBloques
<1>6. BloquesDe(tabla[i].tam) \in Nat
  BY <1>2, Tamanios
<1>. QED BY <1>4, <1>5, <1>6

\* A file has the blocks its size asks for, no more and no less, whenever the client is not
\* being served: if it is the only one, whatever it asks for and whatever fails.
THEOREM CheckStateSiempre == ASSUME Solo PROVE Spec => []CheckState
<1>1. Init => IInv /\ TInv /\ RInv /\ EInv
  BY Inicia, IniciaTipo, IniciaRutas, IniciaJusto
<1>2. IInv /\ TInv /\ RInv /\ EInv /\ [Next]_vars => (IInv /\ TInv /\ RInv /\ EInv)'
  <2>1. IInv => Forma
    BY DEF IInv
  <2>2. Apartados
    BY DEF Apartados, Propios, Solo
  <2>. QED BY <2>1, <2>2, Conserva, SigueTipo, SigueRutas, SigueJusto
<1>. QED BY <1>1, <1>2, BastaJusto, PTL DEF Spec

-----------------------------------------------------------------------------
(* The rwlocks, if the files are in the root and nobody renames one.       *)

Llanos == /\ Apartados /\ "rename" \notin Operaciones
          /\ \A h \in Hilos : \A r \in Rutas[h] : Len(r) = 1

\* The entry of a file, and whether there is one.
Archivo(t, r, i) ==
  i \in Entradas /\ t[i].nombre = Last(r) /\ t[i].padre = Raiz /\ t[i].estado = "REGULAR"
Hay(t, r) == \E i \in Entradas : Archivo(t, r, i)

\* What a client has open or its thread is opening with the lock taken, and that lock.
EnMano(l, a) == IF l.vuelve = "open" THEN [ruta |-> l.ruta, modo |-> l.modo] ELSE a
SinNadie == [escribe |-> Nadie, leen |-> 0]
Candado(h, o) == IF o.modo = 0 THEN [escribe |-> Nadie, leen |-> 1] ELSE [escribe |-> h, leen |-> 0]
Tenido(h, o, t, q) == o # Cerrado => \E i \in Entradas : Archivo(t, o.ruta, i) /\ q[i] = Candado(h, o)

\* What a thread that creates, opens or releases a file knows of it.
Creando(l) == l.pc \in {"create", "createMux", "createAlta", "createFin"} \/ l.luego = "createFin"
Abriendo(l) == Creando(l) \/ l.pc \in {"open", "openTomar"} \/ l.vuelve = "open"
Creado(l, t) ==
  /\ Creando(l) => l.modo = 2 /\ l.tam = 0 /\ l.vuelve = "libre"
  /\ l.pc \in {"createMux", "createAlta"} => l.padre = Raiz
  /\ l.pc = "createAlta" =>
       \A j \in Entradas : j < l.pos => ~(t[j].nombre = Last(l.ruta) /\ t[j].padre = Raiz)
  /\ l.pc = "createFin" \/ l.luego = "createFin" => Hay(t, l.ruta)
Abierta(l, t) ==
  /\ l.pc \in {"open", "openTomar"} =>
       /\ l.vuelve = "libre" /\ l.tam = 0
       /\ l.creado = "si" => l.modo = 2 /\ Hay(t, l.ruta)
       /\ l.creado = "fallo" => ~Hay(t, l.ruta)
  /\ l.pc \in {"openTomar", "releaseSoltar"} => Archivo(t, l.ruta, l.pos)
  /\ l.vuelve = "open" =>
       /\ l.pc \in {"truncate", "cola", "limpiar", "cortar", "truncado", "copiar"}
       /\ l.pc = "copiar" => l.luego \in {"cola", "truncado"}
       /\ l.modo = 2 /\ l.tam = 0 /\ l.creado # "fallo"
       /\ l.pc # "truncate" => l.abm <= 0
Tramo(l, a, t) ==
  /\ Abriendo(l) => a = Cerrado
  /\ l.pc \in {"release", "releaseSoltar"} => a # Cerrado /\ l.ruta = a.ruta
  /\ Creado(l, t) /\ Abierta(l, t)

\* A file comes before the entries of its name that were deleted.
Primeros(t) ==
  \A i, j \in Entradas :
    t[i].estado = "REGULAR" /\ t[i].padre = Raiz /\ j < i => ~(t[j].nombre = t[i].nombre /\ t[j].padre = Raiz)

\* A client asks for its files, and has open files of its own; none is renamed.
DeRuta(h, l, a) ==
  /\ l.pc \notin {"libre", "muerto"} => l.ruta \in Rutas[h]
  /\ l.pc \notin {"rename", "renameAlta"}
  /\ a # Cerrado => a.ruta \in Rutas[h]
DInv == \A h \in Hilos : DeRuta(h, loc[h], abierto[h])

KInv ==
  /\ \A h \in Hilos : Tramo(loc[h], abierto[h], tabla)
  /\ \A h \in Hilos : Tenido(h, EnMano(loc[h], abierto[h]), tabla, mux_files)
  /\ \A i \in Entradas : \/ mux_files[i] = SinNadie
                         \/ \E h \in Hilos : /\ EnMano(loc[h], abierto[h]) # Cerrado
                                             /\ Archivo(tabla, EnMano(loc[h], abierto[h]).ruta, i)
  /\ Primeros(tabla)

\* One file has one entry.
LEMMA ArchivoUno ==
  ASSUME NEW t, Unicos(t), NEW r, NEW i \in Entradas, NEW j \in Entradas, Archivo(t, r, i), Archivo(t, r, j)
  PROVE  i = j
BY DEF Unicos, Archivo

\* An entry is not of the files of two clients.
LEMMA ArchivoAjeno ==
  ASSUME Llanos, NEW h \in Hilos, NEW g \in Hilos \ {h}, NEW r \in Rutas[h], NEW q \in Rutas[g], NEW t, NEW i
  PROVE  ~(Archivo(t, r, i) /\ Archivo(t, q, i))
BY DEF Llanos, Apartados, Propios, Archivo

\* What the search of open and release finds, and that of ftruncate.
LEMMA RegularDe ==
  ASSUME Llanos, NEW h \in Hilos, NEW r \in Rutas[h]
  PROVE  /\ RegularEn(r) \in Entradas \cup {NoEsta} /\ NoEsta \notin Entradas
         /\ RegularEn(r) # NoEsta => Archivo(tabla, r, RegularEn(r))
         /\ RegularEn(r) = NoEsta => ~Hay(tabla, r)
         /\ Unicos(tabla) => \A i \in Entradas : Archivo(tabla, r, i) => RegularEn(r) = i
<1>. DEFINE S == {i \in Entradas : tabla[i].nombre = Last(r) /\ tabla[i].padre = Raiz /\ tabla[i].estado \in {"REGULAR"}}
<1>1. PadreDe(r) = Raiz /\ Raiz # NoEsta
  BY Paseos, EnRaiz, SupuestoOsada DEF PadreDe, Llanos, Raiz, NoEsta
<1>2. RegularEn(r) = Primera(S)
  BY <1>1 DEF RegularEn, Buscar
<1>3. \A i : i \in S <=> Archivo(tabla, r, i)
  BY DEF Archivo
<1>4. S \in SUBSET Entradas
  OBVIOUS
<1>. HIDE DEF S
<1>5. RegularEn(r) # NoEsta => RegularEn(r) \in S
  BY <1>2, <1>4, PrimeraDe
<1>6. RegularEn(r) = NoEsta => S = {}
  BY <1>2, <1>4, PrimeraDe
<1>7. RegularEn(r) \in Entradas \cup {NoEsta} /\ NoEsta \notin Entradas
  BY <1>2, <1>4, PrimeraDe
<1>8. ASSUME Unicos(tabla), NEW i \in Entradas, Archivo(tabla, r, i) PROVE RegularEn(r) = i
  <2>1. i \in S /\ RegularEn(r) \in S
    BY <1>3, <1>5, <1>6, <1>8
  <2>. QED BY <1>3, <1>4, <1>8, <2>1, ArchivoUno
<1>. QED BY <1>3, <1>5, <1>6, <1>7, <1>8 DEF Hay

\* Nor does the search that looks at deleted entries find another.
LEMMA PadreDeArchivo ==
  ASSUME Llanos, Primeros(tabla), NEW h \in Hilos, NEW r \in Rutas[h], NEW i \in Entradas, Archivo(tabla, r, i)
  PROVE  is_parent(r) = i
<1>. DEFINE S == Hijas(tabla, Last(r), Raiz)
<1>1. r \in Seq(Nombres) /\ r # <<>> /\ Len(r) = 1
  BY RutasBien DEF Llanos
<1>2. PadreEn(tabla, Front(r)) = Raiz /\ Raiz # NoEsta
  BY <1>1, EnRaiz, SupuestoOsada DEF Raiz, NoEsta
<1>3. is_parent(r) = Primera(S)
  BY <1>1, <1>2, Paseos, PadrePaso
<1>4. S \in SUBSET Entradas /\ i \in S
  BY DEF Hijas, Archivo
<1>5. Primera(S) \in S /\ Primera(S) <= i
  BY <1>4, PrimeraDe
<1>6. ~(Primera(S) < i)
  <2>1. \A j \in S : j \in Entradas /\ tabla[j].nombre = Last(r) /\ tabla[j].padre = Raiz
    BY DEF Hijas
  <2>. QED BY <1>5, <2>1 DEF Primeros, Archivo
<1>7. Primera(S) \in Int /\ i \in Int
  BY <1>4, <1>5, SupuestoOsada DEF Entradas
<1>. QED BY <1>3, <1>5, <1>6, <1>7

\* What a step of h leaves of the files of the others.
Respeta(h, t, u) ==
  \A g \in Hilos \ {h} : \A r \in Rutas[g] : \A i \in Entradas :
    /\ Archivo(t, r, i) <=> Archivo(u, r, i)
    /\ u[i].nombre = Last(r) /\ u[i].padre = Raiz => t[i].nombre = Last(r) /\ t[i].padre = Raiz

\* A step of h keeps the invariant if it leaves the files of the others and their locks as
\* they are, and the locks are right for h.
LEMMA KPaso ==
  ASSUME Llanos, TInv, DInv, KInv, NEW h \in Hilos, Ajenos(h), \A g \in Hilos \ {h} : abierto'[g] = abierto[g],
         Respeta(h, tabla, tabla'), Primeros(tabla'), Tramo(loc'[h], abierto'[h], tabla'),
         NEW o, NEW p, o = EnMano(loc[h], abierto[h]), p = EnMano(loc'[h], abierto'[h]),
         Tenido(h, p, tabla', mux_files'),
         \A g \in Hilos \ {h} : \A r \in Rutas[g] : \A i \in Entradas :
           Archivo(tabla, r, i) => mux_files'[i] = mux_files[i],
         \A i \in Entradas : \/ mux_files'[i] = SinNadie
                             \/ mux_files'[i] = mux_files[i] /\ ~(o # Cerrado /\ Archivo(tabla, o.ruta, i))
                             \/ p # Cerrado /\ Archivo(tabla', p.ruta, i)
  PROVE  KInv'
<1>. DEFINE Mano(g) == EnMano(loc[g], abierto[g])
            Mano2(g) == EnMano(loc'[g], abierto'[g])
<1>1. \A g \in Hilos \ {h} : loc'[g] = loc[g] /\ abierto'[g] = abierto[g] /\ Mano2(g) = Mano(g)
  BY DEF Ajenos
<1>2. \A g \in Hilos \ {h} : Mano(g) # Cerrado => Mano(g).ruta \in Rutas[g]
  BY DEF DInv, DeRuta, EnMano, KInv, Tramo, Abierta
<1>3. ASSUME NEW g \in Hilos \ {h} PROVE Tramo(loc'[g], abierto'[g], tabla')
  <2>1. Tramo(loc[g], abierto[g], tabla) /\ DeRuta(g, loc[g], abierto[g])
    BY DEF KInv, DInv
  <2>2. loc[g].pc \notin {"libre", "muerto"} =>
          /\ loc[g].ruta \in Rutas[g]
          /\ Hay(tabla, loc[g].ruta) <=> Hay(tabla', loc[g].ruta)
          /\ \A i : Archivo(tabla, loc[g].ruta, i) => Archivo(tabla', loc[g].ruta, i)
          /\ \A i \in Entradas : tabla'[i].nombre = Last(loc[g].ruta) /\ tabla'[i].padre = Raiz
               => tabla[i].nombre = Last(loc[g].ruta) /\ tabla[i].padre = Raiz
    BY <2>1 DEF DeRuta, Respeta, Hay, Archivo
  <2>3. Creado(loc[g], tabla')
    <3>1. loc[g].luego = "createFin" => loc[g].pc \notin {"libre", "muerto"}
      BY DeHilo DEF LocalBien
    <3>. QED BY <2>1, <2>2, <3>1 DEF Tramo, Creado
  <2>4. Abierta(loc[g], tabla')
    BY <2>1, <2>2 DEF Tramo, Abierta
  <2>. QED BY <1>1, <2>1, <2>3, <2>4 DEF Tramo
<1>4. ASSUME NEW g \in Hilos \ {h} PROVE Tenido(g, Mano(g), tabla', mux_files')
  <2>. SUFFICES ASSUME Mano(g) # Cerrado
                PROVE  \E i \in Entradas : Archivo(tabla', Mano(g).ruta, i) /\ mux_files'[i] = Candado(g, Mano(g))
    BY DEF Tenido
  <2>1. Mano(g).ruta \in Rutas[g] /\ Tenido(g, Mano(g), tabla, mux_files)
    BY <1>2 DEF KInv
  <2>. HIDE DEF Mano
  <2>2. PICK i \in Entradas : Archivo(tabla, Mano(g).ruta, i) /\ mux_files[i] = Candado(g, Mano(g))
    BY <2>1 DEF Tenido
  <2>3. Archivo(tabla', Mano(g).ruta, i) /\ mux_files'[i] = mux_files[i]
    BY <2>1, <2>2 DEF Respeta
  <2>. QED BY <2>2, <2>3
<1>5. ASSUME NEW i \in Entradas
      PROVE  mux_files'[i] = SinNadie \/ \E g \in Hilos : Mano2(g) # Cerrado /\ Archivo(tabla', Mano2(g).ruta, i)
  <2>1. CASE mux_files'[i] = mux_files[i] /\ ~(o # Cerrado /\ Archivo(tabla, o.ruta, i))
    <3>1. mux_files[i] = SinNadie \/ \E g \in Hilos : Mano(g) # Cerrado /\ Archivo(tabla, Mano(g).ruta, i)
      BY DEF KInv
    <3>2. o = Mano(h)
      OBVIOUS
    <3>. HIDE DEF Mano, Mano2
    <3>3. mux_files[i] = SinNadie \/ \E g \in Hilos \ {h} : Mano(g) # Cerrado /\ Archivo(tabla, Mano(g).ruta, i)
      BY <2>1, <3>1, <3>2
    <3>. QED BY <1>1, <1>2, <2>1, <3>3 DEF Respeta
  <2>. QED BY <2>1
<1>6. Tenido(h, Mano2(h), tabla', mux_files')
  OBVIOUS
<1>7. \A g \in Hilos : Tramo(loc'[g], abierto'[g], tabla')
  BY <1>3
<1>8. \A g \in Hilos : Tenido(g, Mano2(g), tabla', mux_files')
  <2>. HIDE DEF Mano, Mano2
  <2>. QED BY <1>1, <1>4, <1>6
<1>. QED BY <1>5, <1>7, <1>8 DEF KInv

\* The same, of a step that touches no lock.
LEMMA KQuieto ==
  ASSUME Llanos, TInv, DInv, KInv, NEW h \in Hilos, Ajenos(h), \A g \in Hilos \ {h} : abierto'[g] = abierto[g],
         Respeta(h, tabla, tabla'), Primeros(tabla'), Tramo(loc'[h], abierto'[h], tabla'),
         NEW o, o = EnMano(loc[h], abierto[h]), o = EnMano(loc'[h], abierto'[h]), mux_files' = mux_files,
         o # Cerrado => \A i \in Entradas : Archivo(tabla, o.ruta, i) => Archivo(tabla', o.ruta, i)
  PROVE  KInv'
<1>1. Tenido(h, o, tabla, mux_files)
  BY DEF KInv
<1>2. Tenido(h, o, tabla', mux_files')
  BY <1>1 DEF Tenido
<1>3. \A i \in Entradas : \/ mux_files'[i] = mux_files[i] /\ ~(o # Cerrado /\ Archivo(tabla, o.ruta, i))
                          \/ o # Cerrado /\ Archivo(tabla', o.ruta, i)
  OBVIOUS
<1>. QED BY <1>2, <1>3, KPaso

\* A step that leaves the table as it is.
LEMMA KSinTabla ==
  ASSUME Llanos, TInv, DInv, KInv, NEW h \in Hilos, Ajenos(h), \A g \in Hilos \ {h} : abierto'[g] = abierto[g],
         tabla' = tabla, mux_files' = mux_files, Tramo(loc'[h], abierto'[h], tabla),
         EnMano(loc'[h], abierto'[h]) = EnMano(loc[h], abierto[h])
  PROVE  KInv'
<1>1. Respeta(h, tabla, tabla') /\ Primeros(tabla')
  BY DEF Respeta, KInv
<1>. QED BY <1>1, KQuieto

\* A thread that neither creates, opens nor releases a file.
Lejos(l) ==
  /\ l.pc \notin {"create", "createMux", "createAlta", "createFin", "open", "openTomar", "release", "releaseSoltar"}
  /\ l.luego # "createFin" /\ l.vuelve # "open"

\* It knows nothing, and has in hand what it has open.
LEMMA TramoLejos == ASSUME NEW l, Lejos(l), NEW a, NEW t PROVE Tramo(l, a, t) /\ EnMano(l, a) = a
BY DEF Lejos, Tramo, Creado, Abierta, Abriendo, Creando, EnMano

\* What a client asks for, one of its files or the one it has open.
Recien(h, op, m) ==
  /\ op \in Pedidas \ {"rename"} /\ m.ruta \in Rutas[h] /\ m.luego = "libre" /\ m.vuelve = "libre"
  /\ op \in {"create", "open"} => abierto[h] = Cerrado /\ m.tam = 0 /\ m.creado = "no"
  /\ op = "create" => m.modo = 2
  /\ op = "release" => abierto[h] # Cerrado /\ m.ruta = abierto[h].ruta

\* Pedir asks for that.
LEMMA PideArchivo ==
  ASSUME Llanos, TInv, Forma, DInv, NEW h \in Hilos, Pedir(h)
  PROVE  /\ Recien(h, loc'[h].pc, loc'[h]) /\ loc[h].pc = "libre"
         /\ tabla' = tabla /\ mux_files' = mux_files /\ abierto' = abierto
<1>1. tabla' = tabla /\ mux_files' = mux_files /\ abierto' = abierto /\ loc[h].pc = "libre"
  BY DEF Pedir, PedirNuevo, PedirRename, PedirRmdir, PedirUnlink, PedirUtimens, PedirTruncate,
         PedirOpen, PedirWrite, PedirRelease, Pide, estructuras, En
<1>2. ASSUME NEW op, NEW m, DOMAIN m = Campos, Recien(h, op, m), Pide(h, op, m)
      PROVE  Recien(h, loc'[h].pc, loc'[h])
  <2>1. loc'[h] = [m EXCEPT !.pc = op]
    BY <1>2 DEF Pide, Forma
  <2>2. /\ loc'[h].pc = op /\ loc'[h].ruta = m.ruta /\ loc'[h].luego = m.luego /\ loc'[h].vuelve = m.vuelve
        /\ loc'[h].tam = m.tam /\ loc'[h].creado = m.creado /\ loc'[h].modo = m.modo
    BY <1>2, <2>1 DEF Campos
  <2>. QED BY <1>2, <2>2 DEF Recien
<1>3. DOMAIN Ocioso = Campos /\ Ocioso.luego = "libre" /\ Ocioso.vuelve = "libre" /\ Ocioso.tam = 0
      /\ Ocioso.creado = "no"
  BY OciosoForma DEF Ocioso
<1>4. ASSUME NEW op \in Pedidas, NEW m, NEW r \in Rutas[h], NEW x, NEW y,
             \/ op \in {"rmdir", "unlink", "utimens"} /\ m = [Ocioso EXCEPT !.ruta = r]
             \/ op \in {"create", "mkdir"} /\ x = 2 /\ m = [Ocioso EXCEPT !.ruta = r, !.modo = x]
                /\ (op = "create" => abierto[h] = Cerrado)
             \/ op = "truncate" /\ m = [Ocioso EXCEPT !.ruta = r, !.tam = x]
             \/ op = "open" /\ m = [Ocioso EXCEPT !.ruta = r, !.modo = x] /\ abierto[h] = Cerrado
             \/ op = "write" /\ m = [Ocioso EXCEPT !.ruta = r, !.desde = x, !.tam = y]
             \/ op = "release" /\ m = [Ocioso EXCEPT !.ruta = r] /\ abierto[h] # Cerrado /\ r = abierto[h].ruta,
             Pide(h, op, m)
      PROVE  Recien(h, loc'[h].pc, loc'[h])
  <2>1. DOMAIN m = Campos /\ m.ruta = r /\ m.luego = "libre" /\ m.vuelve = "libre" /\ m.creado = "no"
    BY <1>3, <1>4 DEF Campos
  <2>2. (op \in {"create", "open"} => m.tam = 0) /\ (op = "create" => m.modo = 2)
    BY <1>3, <1>4 DEF Campos
  <2>. QED BY <1>2, <1>4, <2>1, <2>2 DEF Recien
<1>5. abierto[h] # Cerrado => abierto[h].ruta \in Rutas[h]
  BY DEF DInv, DeRuta
<1>6. abierto[h].modo > 0 => abierto[h] # Cerrado
  BY DEF Cerrado
<1>7. /\ "create" \in Pedidas /\ "mkdir" \in Pedidas /\ "rmdir" \in Pedidas /\ "unlink" \in Pedidas
      /\ "utimens" \in Pedidas /\ "truncate" \in Pedidas /\ "open" \in Pedidas /\ "write" \in Pedidas
      /\ "release" \in Pedidas
  BY DEF Pedidas
<1>. DEFINE Bien == Recien(h, loc'[h].pc, loc'[h])
<1>8. PedirNuevo(h) => Bien
  <2>. SUFFICES ASSUME PedirNuevo(h) PROVE Bien
    OBVIOUS
  <2>1. PICK r \in Rutas[h], op \in {"create", "mkdir"} :
          /\ op = "create" => abierto[h] = Cerrado
          /\ Pide(h, op, [Ocioso EXCEPT !.ruta = r, !.modo = 2])
    BY Zenon DEF PedirNuevo
  <2>2. PICK m : m = [Ocioso EXCEPT !.ruta = r, !.modo = 2]
    OBVIOUS
  <2>3. Pide(h, op, m)
    BY <2>1, <2>2, Zenon
  <2>. QED BY <1>4, <1>7, <2>1, <2>2, <2>3
<1>9. PedirRmdir(h) \/ PedirUnlink(h) \/ PedirUtimens(h) => Bien
  <2>. SUFFICES ASSUME PedirRmdir(h) \/ PedirUnlink(h) \/ PedirUtimens(h) PROVE Bien
    OBVIOUS
  <2>1. PICK r \in Rutas[h], op \in {"rmdir", "unlink", "utimens"} : Pide(h, op, [Ocioso EXCEPT !.ruta = r])
    BY Zenon DEF PedirRmdir, PedirUnlink, PedirUtimens
  <2>2. PICK m : m = [Ocioso EXCEPT !.ruta = r]
    OBVIOUS
  <2>3. Pide(h, op, m)
    BY <2>1, <2>2, Zenon
  <2>. QED BY <1>4, <1>7, <2>1, <2>2, <2>3
<1>10. PedirTruncate(h) => Bien
  <2>. SUFFICES ASSUME PedirTruncate(h) PROVE Bien
    OBVIOUS
  <2>1. PICK r \in Rutas[h] : \E x : Pide(h, "truncate", [Ocioso EXCEPT !.ruta = r, !.tam = x])
    BY Zenon DEF PedirTruncate
  <2>2. PICK x, m : m = [Ocioso EXCEPT !.ruta = r, !.tam = x] /\ Pide(h, "truncate", m)
    BY <2>1, Zenon
  <2>. QED BY <1>4, <1>7, <2>2
<1>11. PedirOpen(h) => Bien
  <2>. SUFFICES ASSUME PedirOpen(h) PROVE Bien
    OBVIOUS
  <2>1. PICK r \in Rutas[h] : abierto[h] = Cerrado /\ \E x : Pide(h, "open", [Ocioso EXCEPT !.ruta = r, !.modo = x])
    BY Zenon DEF PedirOpen
  <2>2. PICK x, m : m = [Ocioso EXCEPT !.ruta = r, !.modo = x] /\ Pide(h, "open", m)
    BY <2>1, Zenon
  <2>. QED BY <1>4, <1>7, <2>1, <2>2
<1>12. PedirWrite(h) => Bien
  <2>. SUFFICES ASSUME PedirWrite(h) PROVE Bien
    OBVIOUS
  <2>1. PICK r : r = abierto[h].ruta
    OBVIOUS
  <2>2. abierto[h].modo > 0 /\ \E x, y : Pide(h, "write", [Ocioso EXCEPT !.ruta = r, !.desde = x, !.tam = y])
    BY <2>1, Zenon DEF PedirWrite
  <2>3. PICK x, y, m : m = [Ocioso EXCEPT !.ruta = r, !.desde = x, !.tam = y] /\ Pide(h, "write", m)
    BY <2>2, Zenon
  <2>4. r \in Rutas[h]
    BY <1>5, <1>6, <2>1, <2>2
  <2>. QED BY <1>4, <1>7, <2>3, <2>4
<1>13. PedirRelease(h) => Bien
  <2>. SUFFICES ASSUME PedirRelease(h) PROVE Bien
    OBVIOUS
  <2>1. PICK r : r = abierto[h].ruta
    OBVIOUS
  <2>2. PICK m : m = [Ocioso EXCEPT !.ruta = r]
    OBVIOUS
  <2>3. abierto[h] # Cerrado /\ Pide(h, "release", m)
    BY <2>1, <2>2, Zenon DEF PedirRelease
  <2>. QED BY <1>4, <1>5, <1>7, <2>1, <2>2, <2>3
<1>14. ~PedirRename(h)
  BY DEF PedirRename, Pide, Llanos
<1>. QED BY <1>1, <1>8, <1>9, <1>10, <1>11, <1>12, <1>13, <1>14 DEF Pedir

\* Every step keeps what each client asks for, and has open, its own, and renames nothing.
LEMMA SigueDeRuta == Llanos /\ TInv /\ Forma /\ DInv /\ [Next]_vars => DInv'
<1>1. CASE UNCHANGED vars
  BY <1>1 DEF vars, DInv
<1>2. ASSUME Llanos, TInv, Forma, DInv, NEW h \in Hilos, Pedir(h) \/ Hilo(h) \/ Morir(h)
      PROVE  DInv'
  <2>1. Ajenos(h)
    BY <1>2, SoloSuyos
  <2>2. DeRuta(h, loc[h], abierto[h])
    BY <1>2 DEF DInv
  <2>3. ~Rename(h) /\ ~RenameAlta(h)
    BY <2>2 DEF DeRuta, Rename, RenameAlta, En
  <2>4. \A g \in Hilos \ {h} : abierto'[g] = abierto[g]
    BY <1>2, <2>3, AbiertoCambia, DeHilo
  <2>5. abierto'[h] # Cerrado => abierto'[h].ruta \in Rutas[h]
    BY <1>2, <2>2, <2>3, AbiertoCambia, DeHilo DEF DeRuta
  <2>6. /\ loc'[h].pc \notin {"libre", "muerto"} => loc'[h].ruta \in Rutas[h]
        /\ loc'[h].pc \notin {"rename", "renameAlta"}
    <3>1. CASE Pedir(h)
      <4>1. Recien(h, loc'[h].pc, loc'[h])
        BY <1>2, <3>1, PideArchivo
      <4>. QED BY <4>1 DEF Recien, Pedidas
    <3>2. CASE Morir(h)
      BY <1>2, <3>2, OciosoForma DEF Morir, Forma, Campos
    <3>3. CASE Hilo(h)
      <4>1. loc[h].ruta \in Rutas[h] /\ loc[h].pc # "rename"
        BY <2>2, <3>3, HiloEn DEF DeRuta
      <4>2. CASE Unlink(h) \/ UnlinkBaja(h) \/ UnlinkPrimero(h) \/ UnlinkLimpiar(h) \/ UnlinkSeguir(h)
        BY <1>2, <4>1, <4>2, QuedaBorra
      <4>3. CASE Encamina(h)
        BY <4>1, <4>3 DEF Encamina
      <4>. QED BY <1>2, <2>3, <3>3, <4>2, <4>3, QuedaRuta, ZenonT(60) DEF Hilo
    <3>. QED BY <1>2, <3>1, <3>2, <3>3
  <2>7. DeRuta(h, loc'[h], abierto'[h])
    BY <2>5, <2>6 DEF DeRuta
  <2>. QED BY <1>2, <2>1, <2>4, <2>7 DEF DInv, Ajenos
<1>. QED BY <1>1, <1>2 DEF Next

\* At the start nobody has asked for anything.
LEMMA IniciaDeRuta == Init => DInv
<1>. SUFFICES ASSUME Init PROVE DInv
  OBVIOUS
<1>1. loc = [h \in Hilos |-> Ocioso] /\ abierto = [h \in Hilos |-> Cerrado]
  BY Zenon DEF Init
<1>. QED BY <1>1, OciosoForma DEF DInv, DeRuta

\* What the invariant says of one thread.
LEMMA KDe ==
  ASSUME TInv, IInv, DInv, KInv, NEW h \in Hilos
  PROVE  /\ Tramo(loc[h], abierto[h], tabla) /\ DeRuta(h, loc[h], abierto[h])
         /\ Tenido(h, EnMano(loc[h], abierto[h]), tabla, mux_files)
         /\ LocalBien(loc[h]) /\ (loc[h].luego = "createFin" => loc[h].pc = "copiar")
         /\ loc[h].vuelve = "open" =>
              loc[h].pc \in {"truncate", "cola", "limpiar", "cortar", "truncado", "copiar"}
BY DeHilo DEF KInv, DInv, IInv, Regreso, Tramo, Abierta

\* A step of a thread away from open and release, that goes on away from them.
LEMMA KLejos ==
  ASSUME Llanos, TInv, DInv, KInv, NEW h \in Hilos, Ajenos(h),
         tabla' = tabla, mux_files' = mux_files, abierto' = abierto,
         Lejos(loc'[h]), loc[h].vuelve # "open"
  PROVE  KInv'
<1>1. EnMano(loc[h], abierto[h]) = abierto[h]
  BY DEF EnMano
<1>. QED BY <1>1, TramoLejos, KSinTabla

\* What the table says of names and of the files does not change.
Mismos(t, u) ==
  \A i \in Entradas : /\ u[i].nombre = t[i].nombre /\ u[i].padre = t[i].padre
                      /\ u[i].estado = "REGULAR" <=> t[i].estado = "REGULAR"

\* A step that changes neither.
LEMMA KMismos ==
  ASSUME Llanos, TInv, DInv, KInv, NEW h \in Hilos, Ajenos(h), Mismos(tabla, tabla'),
         mux_files' = mux_files, abierto' = abierto, Tramo(loc'[h], abierto'[h], tabla'),
         EnMano(loc'[h], abierto'[h]) = EnMano(loc[h], abierto[h])
  PROVE  KInv'
<1>1. \A r : \A i \in Entradas : Archivo(tabla, r, i) <=> Archivo(tabla', r, i)
  BY DEF Mismos, Archivo
<1>2. Respeta(h, tabla, tabla')
  BY <1>1 DEF Respeta, Mismos
<1>3. Primeros(tabla')
  BY DEF KInv, Primeros, Mismos
<1>. QED BY <1>1, <1>2, <1>3, KQuieto

\* The steps of mkdir, rmdir, utimens, unlink and write, and the death of a client.
LEMMA PasosLejos ==
  ASSUME TInv, IInv, NEW h \in Hilos, loc[h].vuelve # "open",
         \/ Mkdir(h) \/ MkdirMux(h) \/ Rmdir(h) \/ RmdirBaja(h) \/ Utimens(h) \/ Unlink(h) \/ UnlinkBaja(h)
         \/ UnlinkPrimero(h) \/ UnlinkLimpiar(h) \/ UnlinkSeguir(h) \/ Write(h) \/ WriteIr(h) \/ Escribir(h)
         \/ Morir(h)
  PROVE  Lejos(loc'[h])
<1>. DEFINE l == loc[h]
            m == loc'[h]
            Va(x, y) == m.pc = x /\ m.luego = y /\ m.vuelve \in {l.vuelve, "write"}
<1>1. DOMAIN loc = Hilos /\ DOMAIN l = Campos /\ LocalBien(l) /\ (l.luego = "createFin" => l.pc = "copiar")
  BY DeHilo DEF IInv, Forma, Regreso
<1>2. l.luego # "createFin"
  <2>1. l.pc # "copiar"
    BY Zenon DEF Mkdir, MkdirMux, Rmdir, RmdirBaja, Utimens, Unlink, UnlinkBaja, UnlinkPrimero,
       UnlinkLimpiar, UnlinkSeguir, Write, WriteIr, Escribir, Morir, En
  <2>. QED BY <1>1, <2>1
<1>. DEFINE Sitios == {"mkdirMux", "rmdirBaja", "unlinkBaja", "copiar", "unlinkPrimero", "unlinkLimpiar",
                       "unlinkSeguir", "truncate", "writeIr", "escribir", "nunca"}
<1>3. ASSUME NEW x \in Sitios, NEW y \in {l.luego, "libre"}, Va(x, y) PROVE Lejos(m)
  BY <1>2, <1>3 DEF Lejos
<1>4. Responder(h) => Lejos(m)
  <2>1. Ocioso.pc = "libre" /\ Ocioso.luego = "libre" /\ Ocioso.vuelve = "libre"
    BY DEF Ocioso
  <2>. QED BY <1>1, <2>1 DEF Responder, Lejos
<1>5. \A p : loc' = [loc EXCEPT ![h].pc = "mkdirMux", ![h].padre = p] => Va("mkdirMux", l.luego)
  BY <1>1 DEF Campos
<1>6. \A x, i : loc' = [loc EXCEPT ![h].pc = x, ![h].pos = i] => Va(x, l.luego)
  BY <1>1 DEF Campos
<1>7. \A c : Copiando(h, c, "libre") => Va("copiar", "libre")
  BY <1>1 DEF Copiando, Campos
<1>8. \A b : UnlinkSigue(h, b) => Va("copiar", l.luego) \/ Va("unlinkLimpiar", l.luego)
  BY <1>1 DEF UnlinkSigue, Campos
<1>9. \A x : Ir(h, x) => Va(x, l.luego)
  BY <1>1 DEF Ir, Campos
<1>10. \A i : loc' = [loc EXCEPT ![h].pc = "truncate", ![h].wpos = i, ![h].vuelve = "write"] => Va("truncate", l.luego)
  BY <1>1 DEF Campos
<1>11. \A i : loc' = [loc EXCEPT ![h].pc = "writeIr", ![h].wpos = i] => Va("writeIr", l.luego)
  BY <1>1 DEF Campos
<1>12. \A b, n : loc' = [loc EXCEPT ![h].pc = "escribir", ![h].blk = b, ![h].abm = n] => Va("escribir", l.luego)
  BY <1>1 DEF Campos
<1>13. UNCHANGED loc => Va(l.pc, l.luego)
  OBVIOUS
<1>14. CASE Mkdir(h)
  <2>1. Responder(h) \/ \E p : loc' = [loc EXCEPT ![h].pc = "mkdirMux", ![h].padre = p]
    BY <1>14, Zenon DEF Mkdir
  <2>2. Responder(h) \/ Va("mkdirMux", l.luego)
    BY <1>5, <2>1, Zenon
  <2>. QED BY <1>3, <1>4, <2>2
<1>15. CASE MkdirMux(h) \/ RmdirBaja(h) \/ Utimens(h)
  <2>1. Responder(h) \/ \E c : Copiando(h, c, "libre")
    BY <1>15, Zenon DEF MkdirMux, RmdirBaja, Utimens
  <2>2. Responder(h) \/ Va("copiar", "libre")
    BY <1>7, <2>1, Zenon
  <2>. QED BY <1>3, <1>4, <2>2
<1>16. CASE Rmdir(h) \/ Unlink(h)
  <2>1. \/ Responder(h) \/ \E i : loc' = [loc EXCEPT ![h].pc = "rmdirBaja", ![h].pos = i]
        \/ \E i : loc' = [loc EXCEPT ![h].pc = "unlinkBaja", ![h].pos = i]
    BY <1>16, Zenon DEF Rmdir, Unlink
  <2>2. Responder(h) \/ Va("rmdirBaja", l.luego) \/ Va("unlinkBaja", l.luego)
    BY <1>6, <2>1, Zenon
  <2>. QED BY <1>3, <1>4, <2>2
<1>17. CASE UnlinkBaja(h) \/ UnlinkLimpiar(h)
  <2>1. Responder(h) \/ Ir(h, "unlinkPrimero") \/ Ir(h, "unlinkSeguir")
    BY <1>17 DEF UnlinkBaja, UnlinkLimpiar
  <2>2. Responder(h) \/ Va("unlinkPrimero", l.luego) \/ Va("unlinkSeguir", l.luego)
    BY <1>9, <2>1, Zenon
  <2>. QED BY <1>3, <1>4, <2>2
<1>18. CASE UnlinkPrimero(h) \/ UnlinkSeguir(h)
  <2>1. \E b : UnlinkSigue(h, b)
    BY <1>18 DEF UnlinkPrimero, UnlinkSeguir
  <2>2. Va("copiar", l.luego) \/ Va("unlinkLimpiar", l.luego)
    BY <1>8, <2>1, Zenon
  <2>. QED BY <1>3, <2>2
<1>19. CASE Write(h)
  <2>1. \/ Responder(h) \/ \E i : loc' = [loc EXCEPT ![h].pc = "truncate", ![h].wpos = i, ![h].vuelve = "write"]
        \/ \E i : loc' = [loc EXCEPT ![h].pc = "writeIr", ![h].wpos = i]
    BY <1>19, Zenon DEF Write
  <2>2. Responder(h) \/ Va("truncate", l.luego) \/ Va("writeIr", l.luego)
    BY <1>10, <1>11, <2>1, Zenon
  <2>. QED BY <1>3, <1>4, <2>2
<1>20. CASE WriteIr(h)
  <2>1. \/ UNCHANGED loc \/ \E b, n : loc' = [loc EXCEPT ![h].pc = "escribir", ![h].blk = b, ![h].abm = n]
    BY <1>20, Zenon DEF WriteIr
  <2>2. l.pc = "writeIr"
    BY <1>20 DEF WriteIr, En
  <2>3. Va("writeIr", l.luego) \/ Va("escribir", l.luego)
    BY <1>12, <1>13, <2>1, <2>2, Zenon
  <2>. QED BY <1>3, <2>3
<1>21. CASE Escribir(h)
  <2>1. Responder(h) \/ Ir(h, "nunca") \/ loc' = [loc EXCEPT ![h].blk = fat[@], ![h].abm = @ - 1]
    BY <1>21, Zenon DEF Escribir
  <2>2. l.pc = "escribir"
    BY <1>21 DEF Escribir, En
  <2>3. loc' = [loc EXCEPT ![h].blk = fat[@], ![h].abm = @ - 1] => Va(l.pc, l.luego)
    BY <1>1 DEF Campos
  <2>4. Responder(h) \/ Va("nunca", l.luego) \/ Va("escribir", l.luego)
    BY <1>9, <2>1, <2>2, <2>3, Zenon
  <2>. QED BY <1>3, <1>4, <2>4
<1>22. CASE Morir(h)
  <2>1. Ocioso.luego = "libre" /\ Ocioso.vuelve = "libre" /\ DOMAIN Ocioso = Campos
    BY OciosoForma DEF Ocioso
  <2>2. m.pc = "muerto" /\ m.luego = "libre" /\ m.vuelve = "libre"
    BY <1>1, <1>22, <2>1 DEF Morir, Campos
  <2>. QED BY <2>2 DEF Lejos
<1>. QED BY <1>14, <1>15, <1>16, <1>17, <1>18, <1>19, <1>20, <1>21, <1>22, Zenon

\* A step of mkdir, rmdir, utimens, unlink or write that leaves the table, and the death of a client.
LEMMA KPasosLejos ==
  ASSUME Llanos, TInv, IInv, DInv, KInv, NEW h \in Hilos, Ajenos(h),
         \/ Mkdir(h) \/ MkdirMux(h) \/ Rmdir(h) \/ Utimens(h) \/ Unlink(h) \/ UnlinkBaja(h)
         \/ UnlinkPrimero(h) \/ UnlinkLimpiar(h) \/ UnlinkSeguir(h) \/ Write(h) \/ WriteIr(h) \/ Escribir(h)
         \/ Morir(h),
         tabla' = tabla
  PROVE  KInv'
<1>1. loc[h].pc \notin {"truncate", "cola", "limpiar", "cortar", "truncado", "copiar"}
  BY Zenon DEF Mkdir, MkdirMux, Rmdir, Utimens, Unlink, UnlinkBaja, UnlinkPrimero,
     UnlinkLimpiar, UnlinkSeguir, Write, WriteIr, Escribir, Morir, En
<1>2. loc[h].vuelve # "open"
  BY <1>1, KDe
<1>3. Lejos(loc'[h])
  BY <1>2, PasosLejos
<1>4. mux_files' = mux_files /\ abierto' = abierto
  BY Zenon DEF Mkdir, MkdirMux, Rmdir, Utimens, Unlink, UnlinkBaja, UnlinkPrimero,
     UnlinkLimpiar, UnlinkSeguir, Write, WriteIr, Escribir, Morir
<1>. QED BY <1>2, <1>3, <1>4, KLejos

\* rmdir takes a directory away.
LEMMA KRmdirBaja ==
  ASSUME Llanos, TInv, IInv, DInv, KInv, FInv, NEW h \in Hilos, Ajenos(h), RmdirBaja(h)
  PROVE  KInv'
<1>. DEFINE e == loc[h].pos
<1>1. loc[h].pc = "rmdirBaja" /\ mux_files' = mux_files /\ abierto' = abierto
  BY DEF RmdirBaja, En
<1>2. loc[h].vuelve # "open"
  BY <1>1, KDe
<1>3. e \in Entradas /\ tabla[e].estado = "DIRECTORY"
  BY <1>1, DeHilo DEF FInv, Cuadra, Hebra, Usado, LocalBien
<1>4. tabla \in [Entradas -> Entrada] /\ tabla' = [tabla EXCEPT ![e].estado = "DELETED"]
  BY <1>3, Fichas DEF RmdirBaja
<1>. HIDE DEF e
<1>5. Mismos(tabla, tabla')
  BY <1>3, <1>4 DEF Mismos, Entrada
<1>6. Lejos(loc'[h])
  BY <1>2, PasosLejos
<1>7. EnMano(loc[h], abierto[h]) = abierto[h]
  BY <1>2 DEF EnMano
<1>. QED BY <1>1, <1>5, <1>6, <1>7, TramoLejos, KMismos

\* unlink takes a file away, of which nobody has the lock.
LEMMA KUnlinkBaja ==
  ASSUME Llanos, TInv, IInv, RInv, NInv, DInv, KInv, FInv, NEW h \in Hilos, Ajenos(h), UnlinkBaja(h)
  PROVE  KInv'
<1>. DEFINE e == loc[h].pos
            o == EnMano(loc[h], abierto[h])
<1>1. loc[h].pc = "unlinkBaja" /\ mux_files' = mux_files /\ abierto' = abierto
  BY DEF UnlinkBaja, En
<1>2. loc[h].vuelve # "open"
  BY <1>1, KDe
<1>3. e \in Entradas
  BY <1>1, DeHilo DEF LocalBien
<1>4. CASE UNCHANGED tabla
  BY <1>4, KPasosLejos
<1>5. CASE SinCandado(e) /\ tabla' = [tabla EXCEPT ![e].estado = "DELETED"]
  <2>1. tabla \in [Entradas -> Entrada]
    BY <1>3, Fichas
  <2>2. /\ \A i \in Entradas : tabla'[i].nombre = tabla[i].nombre /\ tabla'[i].padre = tabla[i].padre
        /\ \A i \in Entradas \ {e} : tabla'[i] = tabla[i]
        /\ tabla'[e].estado = "DELETED"
    BY <1>3, <1>5, <2>1 DEF Entrada
  <2>3. Solo
    BY <1>1 DEF RInv, Pedido, Borra
  <2>4. Respeta(h, tabla, tabla')
    BY <2>3 DEF Solo, Respeta
  <2>5. Primeros(tabla')
    BY <2>2 DEF KInv, Primeros
  <2>6. Tramo(loc'[h], abierto'[h], tabla') /\ EnMano(loc'[h], abierto'[h]) = abierto[h] /\ o = abierto[h]
    BY <1>1, <1>2, PasosLejos, TramoLejos DEF EnMano
  <2>7. ASSUME o # Cerrado, NEW i \in Entradas, Archivo(tabla, o.ruta, i) PROVE Archivo(tabla', o.ruta, i)
    <3>1. PICK j \in Entradas : Archivo(tabla, o.ruta, j) /\ mux_files[j] = Candado(h, o)
      BY <2>7, KDe DEF Tenido
    <3>2. i = j
      BY <2>7, <3>1, ArchivoUno DEF NInv
    <3>3. mux_files[i] # SinNadie
      BY <3>1, <3>2, SupuestoOsada DEF Candado, SinNadie
    <3>4. i # e
      BY <1>5, <3>3 DEF SinCandado, SinNadie
    <3>. QED BY <2>2, <2>7, <3>4 DEF Archivo
  <2>. QED BY <1>1, <2>4, <2>5, <2>6, <2>7, KQuieto
<1>. QED BY <1>4, <1>5 DEF UnlinkBaja

\* What a new entry, of a name of h that no entry has, leaves as it is.
LEMMA AltaRespeta ==
  ASSUME Llanos, TInv, NEW h \in Hilos, NEW r \in Rutas[h], NEW e \in Entradas, tabla[e].estado = "DELETED",
         NEW p, NoHay(tabla, Last(r), p), Primeros(tabla),
         \A i \in Entradas \ {e} : tabla'[i] = tabla[i],
         tabla'[e].nombre = Last(r), tabla'[e].padre = p,
         tabla'[e].estado = "REGULAR" => \A j \in Entradas : j < e => ~(tabla[j].nombre = Last(r) /\ tabla[j].padre = p)
  PROVE  /\ Respeta(h, tabla, tabla') /\ Primeros(tabla')
         /\ \A q : \A i \in Entradas : Archivo(tabla, q, i) => Archivo(tabla', q, i)
<1>1. \A g \in Hilos \ {h} : \A q \in Rutas[g] : Last(q) # Last(r)
  BY DEF Llanos, Apartados, Propios
<1>2. Respeta(h, tabla, tabla')
  BY <1>1 DEF Respeta, Archivo
<1>3. ASSUME NEW i \in Entradas, NEW j \in Entradas, tabla'[i].estado = "REGULAR", tabla'[i].padre = Raiz, j < i,
             tabla'[j].nombre = tabla'[i].nombre, tabla'[j].padre = Raiz
      PROVE  FALSE
  <2>1. i # j
    BY <1>3, SupuestoOsada DEF Entradas
  <2>2. CASE i = e
    BY <1>3, <2>1, <2>2
  <2>3. CASE i # e /\ j = e
    BY <1>3, <2>3 DEF NoHay
  <2>4. CASE i # e /\ j # e
    BY <1>3, <2>4 DEF Primeros
  <2>. QED BY <2>2, <2>3, <2>4
<1>4. Primeros(tabla')
  BY <1>3 DEF Primeros
<1>. QED BY <1>2, <1>4 DEF Archivo

\* mkdir writes a directory.
LEMMA KMkdirMux ==
  ASSUME Llanos, TInv, IInv, NInv, DInv, KInv, NEW h \in Hilos, Ajenos(h), MkdirMux(h)
  PROVE  KInv'
<1>. DEFINE l == loc[h]
            e == Primera({i \in Entradas : tabla[i].estado = "DELETED"})
<1>1. l.pc = "mkdirMux" /\ mux_files' = mux_files /\ abierto' = abierto
  BY DEF MkdirMux, En
<1>2. l.vuelve # "open"
  BY <1>1, KDe
<1>3. UNCHANGED tabla \/ (e # NoEsta /\ Alta(h, e, "DIRECTORY", FIN))
  BY DEF MkdirMux
<1>4. e # NoEsta => e \in Entradas /\ tabla[e].estado = "DELETED"
  BY PrimeraDe
<1>. HIDE DEF e
<1>5. CASE UNCHANGED tabla
  BY <1>5, KPasosLejos
<1>6. CASE e # NoEsta /\ Alta(h, e, "DIRECTORY", FIN)
  <2>1. tabla \in [Entradas -> Entrada]
    BY <1>4, <1>6, Fichas
  <2>2. /\ \A i \in Entradas \ {e} : tabla'[i] = tabla[i]
        /\ tabla'[e].estado = "DIRECTORY" /\ tabla'[e].nombre = Last(l.ruta) /\ tabla'[e].padre = l.padre
    BY <1>4, <1>6, <2>1 DEF Alta
  <2>3. l.ruta \in Rutas[h] /\ NoHay(tabla, Last(l.ruta), l.padre)
    BY <1>1 DEF NInv, NuevoBien, Altas
  <2>4. /\ Respeta(h, tabla, tabla') /\ Primeros(tabla')
        /\ \A q : \A i \in Entradas : Archivo(tabla, q, i) => Archivo(tabla', q, i)
    BY <1>4, <1>6, <2>2, <2>3, AltaRespeta DEF KInv
  <2>5. Tramo(loc'[h], abierto'[h], tabla') /\ EnMano(loc'[h], abierto'[h]) = abierto[h]
        /\ EnMano(loc[h], abierto[h]) = abierto[h]
    BY <1>1, <1>2, PasosLejos, TramoLejos DEF EnMano
  <2>. QED BY <1>1, <2>4, <2>5, KQuieto
<1>. QED BY <1>3, <1>5, <1>6

\* A client asks.
LEMMA KPedir ==
  ASSUME Llanos, TInv, IInv, DInv, KInv, NEW h \in Hilos, Ajenos(h), Pedir(h)
  PROVE  KInv'
<1>. DEFINE l == loc[h]
            m == loc'[h]
<1>1. /\ Recien(h, m.pc, m) /\ l.pc = "libre"
      /\ tabla' = tabla /\ mux_files' = mux_files /\ abierto' = abierto
  BY PideArchivo DEF IInv
<1>2. l.vuelve # "open"
  BY <1>1, KDe
<1>. HIDE DEF m
<1>3. EnMano(m, abierto[h]) = abierto[h] /\ EnMano(l, abierto[h]) = abierto[h]
  BY <1>1, <1>2 DEF EnMano, Recien
<1>4. Tramo(m, abierto[h], tabla)
  BY <1>1 DEF Recien, Pedidas, Tramo, Abriendo, Creando, Creado, Abierta
<1>. QED BY <1>1, <1>3, <1>4, KSinTabla DEF m

\* What create answers, to which open follows.
LEMMA KCreado ==
  ASSUME Llanos, TInv, IInv, DInv, KInv, NEW h \in Hilos, Ajenos(h), loc[h].pc \in {"create", "createMux", "createFin"},
         tabla' = tabla, mux_files' = mux_files, abierto' = abierto,
         NEW c \in {"si", "fallo"}, CreateResponde(h, c),
         IF c = "si" THEN Hay(tabla, loc[h].ruta) ELSE ~Hay(tabla, loc[h].ruta)
  PROVE  KInv'
<1>. DEFINE l == loc[h]
            m == loc'[h]
<1>1. l.modo = 2 /\ l.vuelve = "libre" /\ abierto[h] = Cerrado
  BY KDe DEF Tramo, Creado, Creando, Abriendo
<1>2. /\ m.pc = "open" /\ m.ruta = l.ruta /\ m.modo = l.modo /\ m.creado = c
      /\ m.luego = "libre" /\ m.vuelve = "libre" /\ m.tam = 0
  <2>1. Ocioso.luego = "libre" /\ Ocioso.vuelve = "libre" /\ Ocioso.tam = 0 /\ DOMAIN Ocioso = Campos
    BY OciosoForma DEF Ocioso
  <2>. QED BY <2>1 DEF CreateResponde, IInv, Forma, Campos
<1>. HIDE DEF m, l
<1>3. EnMano(m, abierto[h]) = abierto[h] /\ EnMano(l, abierto[h]) = abierto[h]
  BY <1>1, <1>2 DEF EnMano
<1>4. Tramo(m, abierto[h], tabla)
  BY <1>1, <1>2 DEF Tramo, Abriendo, Creando, Creado, Abierta, l
<1>. QED BY <1>3, <1>4, KSinTabla DEF m, l

\* create looks for the directory and then for the name, an entry and a block.
LEMMA KCreate ==
  ASSUME Llanos, TInv, IInv, NInv, DInv, KInv, NEW h \in Hilos, Ajenos(h), Create(h) \/ CreateMux(h) \/ CreateFin(h)
  PROVE  KInv'
<1>. DEFINE l == loc[h]
            m == loc'[h]
<1>1. tabla' = tabla /\ mux_files' = mux_files /\ abierto' = abierto /\ l.pc \in {"create", "createMux", "createFin"}
  BY Zenon DEF Create, CreateMux, CreateFin, estructuras, En
<1>2. /\ l.modo = 2 /\ l.tam = 0 /\ l.vuelve = "libre" /\ abierto[h] = Cerrado /\ l.ruta \in Rutas[h]
      /\ l.luego # "createFin" /\ Tramo(l, abierto[h], tabla) /\ LocalBien(l)
  BY <1>1, KDe DEF Tramo, Creado, Creando, Abriendo, DeRuta
<1>3. DOMAIN loc = Hilos /\ DOMAIN l = Campos
  BY DEF IInv, Forma
<1>4. ASSUME m.pc \in {"createMux", "createAlta"}, m.ruta = l.ruta, m.modo = l.modo, m.tam = l.tam,
             m.vuelve = l.vuelve, m.luego = l.luego, m.padre = Raiz,
             m.pc = "createAlta" => \A j \in Entradas : j < m.pos => ~(tabla[j].nombre = Last(l.ruta) /\ tabla[j].padre = Raiz)
      PROVE  KInv'
  <2>. HIDE DEF m, l
  <2>1. EnMano(m, abierto[h]) = abierto[h] /\ EnMano(l, abierto[h]) = abierto[h]
    BY <1>2, <1>4 DEF EnMano
  <2>2. Tramo(m, abierto[h], tabla)
    BY <1>2, <1>4 DEF Tramo, Abriendo, Creando, Creado, Abierta
  <2>. QED BY <1>1, <2>1, <2>2, KSinTabla DEF m, l
<1>5. CASE Create(h)
  <2>1. PadreDe(l.ruta) = Raiz /\ Raiz # NoEsta
    BY <1>2, Paseos, EnRaiz, SupuestoOsada DEF PadreDe, Llanos, Raiz, NoEsta
  <2>2. loc' = [loc EXCEPT ![h].pc = "createMux", ![h].padre = Raiz]
    BY <1>5, <2>1 DEF Create
  <2>. QED BY <1>3, <1>4, <2>2 DEF Campos
<1>6. CASE CreateMux(h)
  <2>. DEFINE S == {i \in Entradas : tabla[i].estado = "DELETED"}
              De2(i, b) == loc' = [loc EXCEPT ![h].pc = "createAlta", ![h].pos = i, ![h].blk = b]
  <2>1. l.pc = "createMux" /\ l.padre = Raiz /\ NoHay(tabla, Last(l.ruta), Raiz)
    BY <1>2, <1>6 DEF CreateMux, En, NInv, NuevoBien, Altas, Tramo, Creado
  <2>2. ~Hay(tabla, l.ruta)
    BY <2>1 DEF Hay, Archivo, NoHay
  <2>3. CreateResponde(h, "fallo") \/ (Primera(S) # NoEsta /\ \E b : De2(Primera(S), b))
    BY <1>6, Zenon DEF CreateMux
  <2>4. \A i, b : De2(i, b) => /\ m.pc = "createAlta" /\ m.pos = i /\ m.ruta = l.ruta /\ m.modo = l.modo /\ m.tam = l.tam
                               /\ m.vuelve = l.vuelve /\ m.luego = l.luego /\ m.padre = l.padre
    BY <1>3 DEF Campos
  <2>5. Primera(S) # NoEsta => \A j \in Entradas : j < Primera(S) => tabla[j].estado # "DELETED"
    <3>1. Primera(S) # NoEsta => Primera(S) \in Entradas /\ \A j \in S : Primera(S) <= j
      BY PrimeraDe
    <3>2. \A j \in Entradas : j \in Int
      BY SupuestoOsada DEF Entradas
    <3>. QED BY <3>1, <3>2
  <2>6. Primera(S) # NoEsta =>
          \A j \in Entradas : j < Primera(S) => ~(tabla[j].nombre = Last(l.ruta) /\ tabla[j].padre = Raiz)
    BY <2>1, <2>5 DEF NoHay
  <2>. HIDE DEF De2, S, m, l
  <2>7. CASE CreateResponde(h, "fallo")
    BY <1>1, <2>2, <2>7, KCreado DEF l
  <2>8. CASE Primera(S) # NoEsta /\ \E b : De2(Primera(S), b)
    BY <1>4, <2>1, <2>4, <2>6, <2>8
  <2>. QED BY <2>3, <2>7, <2>8
<1>7. CASE CreateFin(h)
  <2>1. CreateResponde(h, "si") /\ Hay(tabla, l.ruta)
    BY <1>2, <1>7 DEF CreateFin, En, Tramo, Creado
  <2>. QED BY <1>1, <2>1, KCreado
<1>. QED BY <1>5, <1>6, <1>7

\* create writes the entry.
LEMMA KCreateAlta ==
  ASSUME Llanos, TInv, IInv, NInv, DInv, KInv, FInv, NEW h \in Hilos, Ajenos(h), CreateAlta(h)
  PROVE  KInv'
<1>. DEFINE l == loc[h]
            m == loc'[h]
            e == l.pos
<1>1. /\ l.pc = "createAlta" /\ mux_files' = mux_files /\ abierto' = abierto
      /\ Alta(h, e, "REGULAR", l.blk) /\ \E c : Copiando(h, c, "createFin")
  BY DEF CreateAlta, En
<1>2. /\ l.modo = 2 /\ l.tam = 0 /\ l.vuelve = "libre" /\ abierto[h] = Cerrado /\ l.padre = Raiz /\ l.ruta \in Rutas[h]
      /\ \A j \in Entradas : j < e => ~(tabla[j].nombre = Last(l.ruta) /\ tabla[j].padre = Raiz)
      /\ e \in Entradas
  BY <1>1, KDe DEF Tramo, Creado, Creando, Abriendo, DeRuta, LocalBien
<1>3. NoHay(tabla, Last(l.ruta), Raiz)
  BY <1>1, <1>2 DEF NInv, NuevoBien, Altas
<1>4. tabla[e].estado = "DELETED"
  BY <1>1 DEF FInv, Cuadra, Hebra, Usado
<1>5. /\ \A i \in Entradas \ {e} : tabla'[i] = tabla[i]
      /\ tabla'[e].estado = "REGULAR" /\ tabla'[e].nombre = Last(l.ruta) /\ tabla'[e].padre = Raiz
  <2>1. tabla \in [Entradas -> Entrada]
    BY <1>2, Fichas
  <2>. QED BY <1>1, <1>2, <2>1 DEF Alta
<1>6. /\ Respeta(h, tabla, tabla') /\ Primeros(tabla')
      /\ \A q : \A i \in Entradas : Archivo(tabla, q, i) => Archivo(tabla', q, i)
  BY <1>2, <1>3, <1>4, <1>5, AltaRespeta DEF KInv
<1>7. /\ m.pc = "copiar" /\ m.luego = "createFin" /\ m.modo = l.modo /\ m.tam = l.tam /\ m.vuelve = l.vuelve
      /\ m.ruta = l.ruta
  <2>1. \A c : Copiando(h, c, "createFin") =>
          /\ m.pc = "copiar" /\ m.luego = "createFin" /\ m.modo = l.modo /\ m.tam = l.tam /\ m.vuelve = l.vuelve
          /\ m.ruta = l.ruta
    BY DEF Copiando, IInv, Forma, Campos
  <2>. QED BY <1>1, <2>1
<1>8. Hay(tabla', l.ruta)
  BY <1>2, <1>5 DEF Hay, Archivo
<1>. HIDE DEF m, l
<1>9. EnMano(m, abierto[h]) = abierto[h] /\ EnMano(l, abierto[h]) = abierto[h]
  BY <1>2, <1>7 DEF EnMano
<1>10. Tramo(m, abierto[h], tabla')
  BY <1>2, <1>7, <1>8 DEF Tramo, Abriendo, Creando, Creado, Abierta
<1>. QED BY <1>1, <1>6, <1>9, <1>10, KQuieto DEF m, l

\* open looks for the file, if there is one.
LEMMA KOpen ==
  ASSUME Llanos, TInv, IInv, DInv, KInv, NEW h \in Hilos, Ajenos(h), Open(h)
  PROVE  KInv'
<1>. DEFINE l == loc[h]
            m == loc'[h]
            i == RegularEn(l.ruta)
<1>1. tabla' = tabla /\ mux_files' = mux_files /\ l.pc = "open"
  BY DEF Open, estructuras, En
<1>2. /\ l.vuelve = "libre" /\ l.tam = 0 /\ abierto[h] = Cerrado /\ l.ruta \in Rutas[h] /\ l.luego # "createFin"
      /\ l.creado = "si" => l.modo = 2 /\ Hay(tabla, l.ruta)
  BY <1>1, KDe DEF Tramo, Abierta, Abriendo, DeRuta
<1>3. EnMano(l, abierto[h]) = abierto[h]
  BY <1>2 DEF EnMano
<1>4. CASE i = NoEsta
  <2>1. OpenResponde(h, FALSE) /\ ~Hay(tabla, l.ruta)
    BY <1>2, <1>4, RegularDe DEF Open
  <2>2. abierto' = abierto /\ Responder(h)
    BY <1>2, <2>1 DEF OpenResponde
  <2>3. Lejos(m)
    <3>1. m = Ocioso
      BY <2>2 DEF Responder, IInv, Forma
    <3>. QED BY <3>1 DEF Ocioso, Lejos
  <2>. QED BY <1>1, <1>2, <2>2, <2>3, KLejos
<1>5. CASE i # NoEsta
  <2>1. loc' = [loc EXCEPT ![h].pc = "openTomar", ![h].pos = i] /\ abierto' = abierto
    BY <1>5 DEF Open
  <2>2. Archivo(tabla, l.ruta, i)
    BY <1>2, <1>5, RegularDe
  <2>. HIDE DEF i
  <2>3. /\ m.pc = "openTomar" /\ m.pos = i /\ m.ruta = l.ruta /\ m.modo = l.modo /\ m.tam = l.tam /\ m.vuelve = l.vuelve
        /\ m.luego = l.luego /\ m.creado = l.creado
    BY <2>1 DEF IInv, Forma, Campos
  <2>. HIDE DEF m, l
  <2>4. Tramo(l, abierto[h], tabla)
    BY KDe DEF l
  <2>5. Tramo(m, abierto[h], tabla)
    BY <1>1, <1>2, <2>2, <2>3, <2>4 DEF Tramo, Abriendo, Creando, Creado, Abierta
  <2>6. EnMano(m, abierto[h]) = abierto[h]
    BY <1>2, <2>3 DEF EnMano
  <2>. QED BY <1>1, <1>3, <2>1, <2>5, <2>6, KSinTabla DEF m, l
<1>. QED BY <1>4, <1>5

\* open takes the lock of its file, which nobody has.
LEMMA KOpenTomar ==
  ASSUME Llanos, TInv, IInv, DInv, KInv, NEW h \in Hilos, Ajenos(h), OpenTomar(h)
  PROVE  KInv'
<1>. DEFINE l == loc[h]
            m == loc'[h]
            i == l.pos
            p == [ruta |-> l.ruta, modo |-> l.modo]
            q == Candado(h, p)
<1>1. tabla' = tabla /\ l.pc = "openTomar"
  BY DEF OpenTomar, estructuras, En
<1>2. /\ l.vuelve = "libre" /\ l.tam = 0 /\ abierto[h] = Cerrado /\ l.ruta \in Rutas[h] /\ l.luego # "createFin"
      /\ l.creado = "si" => l.modo = 2
      /\ l.creado = "fallo" => ~Hay(tabla, l.ruta)
      /\ Archivo(tabla, l.ruta, i) /\ l.creado \in {"no", "si", "fallo"} /\ l.modo \in 0..2
  BY <1>1, KDe, DeHilo DEF Tramo, Abierta, Abriendo, DeRuta, Locales
<1>3. i \in Entradas /\ l.creado # "fallo"
  BY <1>2 DEF Archivo, Hay
<1>4. mux_files[i] = SinNadie
  <2>1. \A g \in Hilos \ {h} : EnMano(loc[g], abierto[g]) # Cerrado => EnMano(loc[g], abierto[g]).ruta \in Rutas[g]
    BY KDe DEF DeRuta, EnMano
  <2>2. EnMano(l, abierto[h]) = Cerrado
    BY <1>2 DEF EnMano
  <2>3. ASSUME NEW g \in Hilos, EnMano(loc[g], abierto[g]) # Cerrado, Archivo(tabla, EnMano(loc[g], abierto[g]).ruta, i)
        PROVE  FALSE
    BY <1>2, <2>1, <2>2, <2>3, ArchivoAjeno
  <2>. QED BY <1>3, <2>3 DEF KInv
<1>5. mux_files \in [Entradas -> [escribe : Hilos \cup {Nadie}, leen : Nat]]
  BY DEF TInv, TypeOK
<1>6. DOMAIN loc = Hilos /\ DOMAIN l = Campos /\ abierto \in [Hilos -> Abierto]
  BY DeHilo DEF IInv, Forma
<1>7. /\ mux_files' = [mux_files EXCEPT ![i] = q]
      /\ \/ loc' = [loc EXCEPT ![h].pc = "truncate", ![h].vuelve = "open"] /\ UNCHANGED abierto /\ l.modo = 2
         \/ Responder(h) /\ abierto' = [abierto EXCEPT ![h] = p]
  <2>1. OpenResponde(h, TRUE) => Responder(h) /\ abierto' = [abierto EXCEPT ![h] = p]
    BY <1>2, <1>3 DEF OpenResponde
  <2>2. SinCandado(i) /\ mux_files[i].escribe = Nadie /\ mux_files[i].leen = 0
    BY <1>4 DEF SinCandado, SinNadie
  <2>3. l.modo = 0 => [mux_files EXCEPT ![i].leen = @ + 1] = [mux_files EXCEPT ![i] = q]
    <3>. SUFFICES ASSUME l.modo = 0 PROVE [mux_files[i] EXCEPT !.leen = @ + 1] = q
      OBVIOUS
    <3>. QED BY <1>4 DEF SinNadie, Candado
  <2>4. l.modo > 0 => [mux_files EXCEPT ![i].escribe = h] = [mux_files EXCEPT ![i] = q]
    <3>. SUFFICES ASSUME l.modo > 0 PROVE [mux_files[i] EXCEPT !.escribe = h] = q
      OBVIOUS
    <3>. QED BY <1>4 DEF SinNadie, Candado
  <2>5. \/ /\ l.modo = 0 /\ mux_files' = [mux_files EXCEPT ![i].leen = @ + 1] /\ OpenResponde(h, TRUE)
        \/ /\ l.modo > 0 /\ mux_files' = [mux_files EXCEPT ![i].escribe = h]
           /\ \/ loc' = [loc EXCEPT ![h].pc = "truncate", ![h].vuelve = "open"] /\ UNCHANGED abierto /\ l.modo = 2
              \/ OpenResponde(h, TRUE)
    BY <2>2, Zenon DEF OpenTomar
  <2>. HIDE DEF p, q, l
  <2>. QED BY <2>1, <2>3, <2>4, <2>5, Zenon
<1>8. p # Cerrado
  BY <1>2, RutasBien DEF Cerrado
<1>9. /\ \A g \in Hilos \ {h} : abierto'[g] = abierto[g]
      /\ EnMano(m, abierto'[h]) = p /\ Tramo(m, abierto'[h], tabla)
  <2>1. CASE loc' = [loc EXCEPT ![h].pc = "truncate", ![h].vuelve = "open"] /\ UNCHANGED abierto /\ l.modo = 2
    <3>1. /\ m.pc = "truncate" /\ m.vuelve = "open" /\ m.ruta = l.ruta /\ m.modo = l.modo /\ m.tam = l.tam
          /\ m.luego = l.luego /\ m.creado = l.creado
      BY <1>6, <2>1 DEF Campos
    <3>. HIDE DEF m, l
    <3>2. EnMano(m, abierto'[h]) = p
      BY <3>1 DEF EnMano
    <3>3. Tramo(m, abierto[h], tabla)
      BY <1>2, <1>3, <2>1, <3>1 DEF Tramo, Abriendo, Creando, Creado, Abierta
    <3>. QED BY <2>1, <3>2, <3>3
  <2>2. CASE Responder(h) /\ abierto' = [abierto EXCEPT ![h] = p]
    <3>1. abierto'[h] = p /\ \A g \in Hilos \ {h} : abierto'[g] = abierto[g]
      BY <1>6, <2>2
    <3>2. Lejos(m)
      <4>1. m = Ocioso
        BY <1>6, <2>2 DEF Responder
      <4>. QED BY <4>1 DEF Ocioso, Lejos
    <3>. QED BY <3>1, <3>2, TramoLejos
  <2>. QED BY <1>7, <2>1, <2>2
<1>10. mux_files'[i] = q /\ \A j \in Entradas \ {i} : mux_files'[j] = mux_files[j]
  BY <1>3, <1>5, <1>7
<1>11. Archivo(tabla', p.ruta, i)
  BY <1>1, <1>2
<1>12. EnMano(l, abierto[h]) = Cerrado
  BY <1>2 DEF EnMano
<1>13. \A g \in Hilos \ {h} : \A r \in Rutas[g] : \A j \in Entradas :
         Archivo(tabla, r, j) => mux_files'[j] = mux_files[j]
  BY <1>2, <1>10, ArchivoAjeno
<1>. HIDE DEF m, l, i, p, q
<1>14. Tenido(h, p, tabla', mux_files')
  BY <1>3, <1>10, <1>11 DEF Tenido, q
<1>15. \A j \in Entradas : \/ mux_files'[j] = mux_files[j] /\ ~(Cerrado # Cerrado /\ Archivo(tabla, Cerrado.ruta, j))
                           \/ p # Cerrado /\ Archivo(tabla', p.ruta, j)
  BY <1>8, <1>10, <1>11
<1>16. Respeta(h, tabla, tabla') /\ Primeros(tabla')
  BY <1>1 DEF Respeta, KInv
<1>. QED BY <1>1, <1>9, <1>12, <1>13, <1>14, <1>15, <1>16, KPaso DEF m, l

\* release looks for the file, which is there.
LEMMA KRelease ==
  ASSUME Llanos, TInv, IInv, DInv, KInv, NEW h \in Hilos, Ajenos(h), Release(h)
  PROVE  KInv'
<1>. DEFINE l == loc[h]
            m == loc'[h]
            i == RegularEn(l.ruta)
<1>1. tabla' = tabla /\ mux_files' = mux_files /\ l.pc = "release"
  BY DEF Release, estructuras, En
<1>2. l.vuelve # "open" /\ abierto[h] # Cerrado /\ l.ruta = abierto[h].ruta /\ l.ruta \in Rutas[h] /\ l.luego # "createFin"
  BY <1>1, KDe DEF Tramo, DeRuta
<1>3. EnMano(l, abierto[h]) = abierto[h]
  BY <1>2 DEF EnMano
<1>4. Hay(tabla, l.ruta)
  BY <1>2, <1>3, KDe DEF Tenido, Hay
<1>5. Archivo(tabla, l.ruta, i) /\ i # NoEsta
  BY <1>2, <1>4, RegularDe
<1>6. loc' = [loc EXCEPT ![h].pc = "releaseSoltar", ![h].pos = i] /\ abierto' = abierto
  BY <1>5 DEF Release
<1>. HIDE DEF i
<1>7. m.pc = "releaseSoltar" /\ m.pos = i /\ m.ruta = l.ruta /\ m.vuelve = l.vuelve /\ m.luego = l.luego
  BY <1>6 DEF IInv, Forma, Campos
<1>. HIDE DEF m, l
<1>8. Tramo(m, abierto[h], tabla)
  BY <1>1, <1>2, <1>5, <1>7 DEF Tramo, Abriendo, Creando, Creado, Abierta
<1>9. EnMano(m, abierto[h]) = abierto[h]
  BY <1>2, <1>7 DEF EnMano
<1>. QED BY <1>1, <1>3, <1>6, <1>8, <1>9, KSinTabla DEF m, l

\* release gives up the lock its client has.
LEMMA KReleaseSoltar ==
  ASSUME Llanos, TInv, IInv, NInv, DInv, KInv, NEW h \in Hilos, Ajenos(h), ReleaseSoltar(h)
  PROVE  KInv'
<1>. DEFINE l == loc[h]
            m == loc'[h]
            i == l.pos
            o == abierto[h]
<1>1. tabla' = tabla /\ l.pc = "releaseSoltar" /\ Responder(h) /\ abierto' = [abierto EXCEPT ![h] = Cerrado]
      /\ Soltar(h, i)
  BY DEF ReleaseSoltar, estructuras, En
<1>2. /\ l.vuelve # "open" /\ o # Cerrado /\ l.ruta = o.ruta /\ l.ruta \in Rutas[h]
      /\ Archivo(tabla, o.ruta, i) /\ o \in Abierto
  BY <1>1, KDe, DeHilo DEF Tramo, DeRuta, Abierta, AbiertoBien
<1>3. EnMano(l, o) = o /\ i \in Entradas
  BY <1>2 DEF EnMano, Archivo
<1>4. mux_files[i] = Candado(h, o)
  <2>1. PICK j \in Entradas : Archivo(tabla, o.ruta, j) /\ mux_files[j] = Candado(h, o)
    BY <1>2, <1>3, KDe DEF Tenido
  <2>2. i = j
    BY <1>2, <1>3, <2>1, ArchivoUno DEF NInv
  <2>. QED BY <2>1, <2>2
<1>5. mux_files \in [Entradas -> [escribe : Hilos \cup {Nadie}, leen : Nat]] /\ abierto \in [Hilos -> Abierto]
  BY DeHilo DEF TInv, TypeOK
<1>6. mux_files' = [mux_files EXCEPT ![i] = SinNadie]
  <2>1. CASE o.modo = 0
    <3>1. mux_files[i].escribe = Nadie /\ mux_files[i].leen = 1
      BY <1>4, <2>1 DEF Candado
    <3>2. mux_files' = [mux_files EXCEPT ![i].leen = @ - 1]
      BY <1>1, <3>1, SupuestoOsada DEF Soltar
    <3>3. [mux_files[i] EXCEPT !.leen = @ - 1] = SinNadie
      BY <1>4, <2>1 DEF Candado, SinNadie
    <3>. QED BY <3>2, <3>3
  <2>2. CASE o.modo # 0
    <3>1. mux_files[i].escribe = h
      BY <1>4, <2>2 DEF Candado
    <3>2. mux_files' = [mux_files EXCEPT ![i].escribe = Nadie]
      BY <1>1, <3>1 DEF Soltar
    <3>3. [mux_files[i] EXCEPT !.escribe = Nadie] = SinNadie
      BY <1>4, <2>2 DEF Candado, SinNadie
    <3>. QED BY <3>2, <3>3
  <2>. QED BY <2>1, <2>2
<1>7. mux_files'[i] = SinNadie /\ \A j \in Entradas \ {i} : mux_files'[j] = mux_files[j]
  BY <1>3, <1>5, <1>6
<1>8. abierto'[h] = Cerrado /\ \A g \in Hilos \ {h} : abierto'[g] = abierto[g]
  BY <1>1, <1>5, OciosoBien DEF AbiertoBien
<1>9. Lejos(m)
  <2>1. m = Ocioso
    BY <1>1 DEF Responder, IInv, Forma
  <2>. QED BY <2>1 DEF Ocioso, Lejos
<1>10. EnMano(m, abierto'[h]) = Cerrado /\ Tramo(m, abierto'[h], tabla)
  BY <1>8, <1>9, TramoLejos
<1>11. \A g \in Hilos \ {h} : \A r \in Rutas[g] : \A j \in Entradas :
         Archivo(tabla, r, j) => mux_files'[j] = mux_files[j]
  BY <1>2, <1>7, ArchivoAjeno
<1>12. \A j \in Entradas : \/ mux_files'[j] = SinNadie
                           \/ mux_files'[j] = mux_files[j] /\ ~(o # Cerrado /\ Archivo(tabla, o.ruta, j))
  BY <1>2, <1>3, <1>7, ArchivoUno DEF NInv
<1>13. Respeta(h, tabla, tabla') /\ Primeros(tabla') /\ Tenido(h, Cerrado, tabla', mux_files')
  BY <1>1 DEF Respeta, KInv, Tenido
<1>. HIDE DEF m, l, i, o
<1>. QED BY <1>1, <1>3, <1>8, <1>10, <1>11, <1>12, <1>13, KPaso DEF m, l, o

\* What a thread in ftruncate has to keep on the way to its answer.
Lleva(m, l) ==
  m.ruta = l.ruta /\ m.modo = l.modo /\ m.creado = l.creado /\ m.vuelve = l.vuelve /\ m.tam = l.tam

\* It knows as much, and has in hand the same.
LEMMA TramoSigue ==
  ASSUME NEW l, NEW m, NEW a, NEW t, Tramo(l, a, t), Lleva(m, l), m.luego # "createFin",
         m.pc \in {"truncate", "cola", "pedir", "marcar", "enlazar", "terminar", "limpiar", "cortar", "truncado", "copiar"},
         m.vuelve = "open" =>
           /\ m.pc \in {"truncate", "cola", "limpiar", "cortar", "truncado", "copiar"}
           /\ m.pc = "copiar" => m.luego \in {"cola", "truncado"}
           /\ m.pc # "truncate" => m.abm <= 0
  PROVE  Tramo(m, a, t) /\ EnMano(m, a) = EnMano(l, a)
<1>1. EnMano(m, a) = EnMano(l, a)
  BY DEF EnMano, Lleva
<1>2. l.vuelve = "open" => l.modo = 2 /\ l.tam = 0 /\ l.creado # "fallo" /\ a = Cerrado
  BY DEF Tramo, Abierta, Abriendo
<1>3. Abriendo(m) => m.vuelve = "open"
  BY DEF Abriendo, Creando
<1>. QED BY <1>1, <1>2, <1>3 DEF Tramo, Creado, Abierta, Creando, Lleva

\* A step of a thread that stays in ftruncate.
LEMMA KSigue ==
  ASSUME Llanos, TInv, IInv, DInv, KInv, NEW h \in Hilos, Ajenos(h),
         tabla' = tabla, mux_files' = mux_files, abierto' = abierto, Lleva(loc'[h], loc[h]),
         loc'[h].luego # "createFin",
         loc'[h].pc \in {"truncate", "cola", "pedir", "marcar", "enlazar", "terminar", "limpiar", "cortar", "truncado", "copiar"},
         loc[h].vuelve = "open" =>
           /\ loc'[h].pc \in {"truncate", "cola", "limpiar", "cortar", "truncado", "copiar"}
           /\ loc'[h].pc = "copiar" => loc'[h].luego \in {"cola", "truncado"}
           /\ loc'[h].pc # "truncate" => loc'[h].abm <= 0
  PROVE  KInv'
<1>1. loc'[h].vuelve = loc[h].vuelve /\ Tramo(loc[h], abierto[h], tabla)
  BY KDe DEF Lleva
<1>2. Tramo(loc'[h], abierto[h], tabla) /\ EnMano(loc'[h], abierto[h]) = EnMano(loc[h], abierto[h])
  BY <1>1, TramoSigue
<1>. QED BY <1>2, KSinTabla

\* ftruncate's return: who opens a file has it open.
LEMMA KVuelve ==
  ASSUME Llanos, TInv, IInv, DInv, KInv, NEW h \in Hilos, Ajenos(h), loc[h].pc \in {"truncate", "pedir", "truncado"},
         tabla' = tabla, mux_files' = mux_files, NEW ok \in BOOLEAN, Vuelve(h, ok), loc[h].vuelve = "open" => ok
  PROVE  KInv'
<1>. DEFINE l == loc[h]
            m == loc'[h]
            p == [ruta |-> l.ruta, modo |-> l.modo]
<1>1. Responder(h) => Lejos(m)
  <2>1. Responder(h) => m = Ocioso
    BY DEF Responder, IInv, Forma
  <2>. QED BY <2>1 DEF Ocioso, Lejos
<1>2. CASE l.vuelve # "open"
  <2>1. abierto' = abierto /\ (Responder(h) \/ Ir(h, "writeIr"))
    BY <1>2 DEF Vuelve
  <2>2. Ir(h, "writeIr") => Lejos(m)
    <3>1. Ir(h, "writeIr") => m.pc = "writeIr" /\ m.luego = l.luego /\ m.vuelve = l.vuelve
      BY DEF Ir, IInv, Forma, Campos
    <3>2. l.luego # "createFin"
      BY KDe
    <3>. QED BY <1>2, <3>1, <3>2 DEF Lejos
  <2>. QED BY <1>1, <1>2, <2>1, <2>2, KLejos
<1>3. CASE l.vuelve = "open"
  <2>1. l.creado \in {"no", "si"}
    BY <1>3, KDe DEF Tramo, Abierta, LocalBien, Locales
  <2>2. Responder(h) /\ abierto' = [abierto EXCEPT ![h] = p]
    BY <1>3, <2>1 DEF Vuelve, OpenResponde
  <2>3. abierto'[h] = p /\ \A g \in Hilos \ {h} : abierto'[g] = abierto[g]
    BY <2>2, DeHilo
  <2>4. EnMano(l, abierto[h]) = p
    BY <1>3 DEF EnMano
  <2>5. Tramo(m, abierto'[h], tabla) /\ EnMano(m, abierto'[h]) = p
    BY <1>1, <2>2, <2>3, TramoLejos
  <2>. QED BY <2>3, <2>4, <2>5, KSinTabla
<1>. QED BY <1>2, <1>3

\* ftruncate starts, which for open finds the file and needs no block.
LEMMA KTruncate ==
  ASSUME Llanos, TInv, IInv, DInv, KInv, NEW h \in Hilos, Ajenos(h), Truncate(h)
  PROVE  KInv'
<1>. DEFINE l == loc[h]
            m == loc'[h]
            i == is_parent(l.ruta)
            d == BloquesDe(l.tam) - BloquesDe(tabla[i].tam)
<1>1. tabla' = tabla /\ mux_files' = mux_files /\ l.pc = "truncate" /\ l.luego # "createFin"
  <2>1. tabla' = tabla /\ mux_files' = mux_files /\ l.pc = "truncate"
    BY DEF Truncate, estructuras, En
  <2>. QED BY <2>1, KDe
<1>2. ASSUME l.vuelve = "open" PROVE Vigente(i) /\ d <= 0
  <2>1. l.tam = 0 /\ l.ruta \in Rutas[h] /\ EnMano(l, abierto[h]).ruta = l.ruta /\ EnMano(l, abierto[h]) # Cerrado
    <3>1. l.ruta \in Rutas[h] /\ l.tam = 0
      BY <1>1, <1>2, KDe DEF Tramo, Abierta, DeRuta
    <3>. QED BY <1>2, <3>1, RutasBien DEF EnMano, Cerrado
  <2>2. PICK j \in Entradas : Archivo(tabla, l.ruta, j)
    BY <2>1, KDe DEF Tenido
  <2>3. i = j
    BY <2>1, <2>2, PadreDeArchivo DEF KInv
  <2>4. Vigente(i) /\ i \in Entradas
    BY <2>2, <2>3, SupuestoOsada DEF Archivo, Vigente, Entradas, NoEsta
  <2>5. tabla[i].tam \in 0..MaxTam /\ MaxTam \in Nat
    BY <2>4, Fichas, SupuestoOsada DEF Entrada
  <2>6. BloquesDe(0) = 1 /\ BloquesDe(tabla[i].tam) >= 1 /\ BloquesDe(tabla[i].tam) \in Int
    <3>1. tabla[i].tam \in Nat
      BY <2>4, Tamanios
    <3>2. BloquesDe(tabla[i].tam) \in Nat /\ BloquesDe(tabla[i].tam) >= 1
      BY <3>1, Bastantes
    <3>. QED BY <3>2 DEF BloquesDe
  <2>. QED BY <2>1, <2>4, <2>6
<1>3. \/ Vuelve(h, FALSE) /\ ~Vigente(i)
      \/ Vuelve(h, TRUE)
      \/ Vuelve(h, FALSE) /\ d > Cardinality(Bloques \ bitmap)
      \/ loc' = [loc EXCEPT ![h].pc = "cola", ![h].pos = i, ![h].abm = d] /\ UNCHANGED abierto
  BY Zenon DEF Truncate
<1>4. Cardinality(Bloques \ bitmap) \in Nat
  BY LibresNat DEF Libres
<1>5. l.vuelve = "open" => ~(d > Cardinality(Bloques \ bitmap))
  <2>1. l.vuelve = "open" => d \in Int
    <3>1. ASSUME l.vuelve = "open" PROVE l.tam \in 0..MaxTam /\ i \in Entradas
      BY <1>2, <3>1, KDe, Hallazgos DEF LocalBien, Locales, Vigente
    <3>2. ASSUME l.vuelve = "open" PROVE tabla[i].tam \in 0..MaxTam /\ MaxTam \in Nat
      BY <3>1, <3>2, Fichas, SupuestoOsada DEF Entrada
    <3>. QED BY <3>1, <3>2, Tamanios
  <2>. HIDE DEF d
  <2>. QED BY <1>2, <1>4, <2>1
<1>. HIDE DEF i, d
<1>6. CASE loc' = [loc EXCEPT ![h].pc = "cola", ![h].pos = i, ![h].abm = d] /\ UNCHANGED abierto
  <2>1. m.pc = "cola" /\ m.abm = d /\ m.luego = l.luego /\ Lleva(m, l)
    BY <1>6 DEF IInv, Forma, Campos, Lleva
  <2>. QED BY <1>1, <1>2, <1>6, <2>1, KSigue
<1>. QED BY <1>1, <1>2, <1>3, <1>5, <1>6, KVuelve

\* The walk to the end of the chain, which open does to cut it.
LEMMA KCola ==
  ASSUME Llanos, TInv, IInv, DInv, KInv, NEW h \in Hilos, Ajenos(h), Cola(h)
  PROVE  KInv'
<1>. DEFINE l == loc[h]
            m == loc'[h]
            Pone(b, a, n, p) == loc' = [loc EXCEPT ![h].blk = b, ![h].ant = a, ![h].abm = n, ![h].pc = p]
<1>1. /\ tabla' = tabla /\ mux_files' = mux_files /\ abierto' = abierto
      /\ l.pc = "cola" /\ l.abm # 0 /\ l.abm \in Int /\ l.luego # "createFin"
  <2>1. tabla' = tabla /\ mux_files' = mux_files /\ abierto' = abierto /\ l.pc = "cola" /\ l.abm # 0
    BY DEF Cola, estructuras, En
  <2>. QED BY <2>1, KDe, Tamanios
<1>2. l.vuelve = "open" => l.abm <= 0
  BY <1>1, KDe DEF Tramo, Abierta
<1>3. CASE UNCHANGED loc
  BY <1>1, <1>2, <1>3, KSigue DEF Lleva
<1>4. CASE loc' # loc
  <2>. DEFINE p(k) == IF l.abm > 0 THEN "pedir" ELSE IF k > 0 THEN "limpiar" ELSE "cola"
              z(k) == IF l.abm < 0 /\ k = 0 THEN l.abm + 1 ELSE l.abm
  <2>1. PICK k : \E b, a : Pone(b, a, z(k), p(k))
    <3>1. PICK k \in Ultimo(tabla[l.pos].primero) :
            loc' = [loc EXCEPT
                     ![h].blk = Bloque(tabla[l.pos].primero, k),
                     ![h].ant = IF k = 0 THEN FIN ELSE Bloque(tabla[l.pos].primero, k - 1),
                     ![h].abm = IF @ < 0 /\ k = 0 THEN @ + 1 ELSE @,
                     ![h].pc = IF loc[h].abm > 0 THEN "pedir"
                               ELSE IF k > 0 THEN "limpiar" ELSE "cola"]
      BY <1>4 DEF Cola
    <3>2. Pone(Bloque(tabla[l.pos].primero, k),
             IF k = 0 THEN FIN ELSE Bloque(tabla[l.pos].primero, k - 1), z(k), p(k))
      BY <3>1, Zenon
    <3>. HIDE DEF Pone, z, p
    <3>. QED BY <3>2
  <2>2. \A b, a, n, q : Pone(b, a, n, q) => m.pc = q /\ m.abm = n /\ m.luego = l.luego /\ Lleva(m, l)
    BY DEF IInv, Forma, Campos, Lleva
  <2>. HIDE DEF Pone
  <2>3. m.pc = p(k) /\ m.abm = z(k) /\ m.luego = l.luego /\ Lleva(m, l)
    BY <2>1, <2>2
  <2>4. l.vuelve = "open" => p(k) \in {"limpiar", "cola"} /\ z(k) <= 0
    <3>1. PICK y : y = l.abm
      OBVIOUS
    <3>. QED BY <1>1, <1>2, <3>1
  <2>5. p(k) \in {"pedir", "limpiar", "cola"}
    OBVIOUS
  <2>. HIDE DEF p, z
  <2>. QED BY <1>1, <2>3, <2>4, <2>5, KSigue
<1>. QED BY <1>3, <1>4

\* The blocks that ftruncate adds, which open never does.
LEMMA KEstira ==
  ASSUME Llanos, TInv, IInv, DInv, KInv, NEW h \in Hilos, Ajenos(h),
         PedirBloque(h) \/ Marcar(h) \/ Enlazar(h) \/ Terminar(h)
  PROVE  KInv'
<1>. DEFINE l == loc[h]
            m == loc'[h]
            Va(x, y) == m.pc = x /\ m.luego = y /\ m.vuelve = l.vuelve
<1>1. tabla' = tabla /\ mux_files' = mux_files /\ l.pc \in {"pedir", "marcar", "enlazar", "terminar"}
  BY Zenon DEF PedirBloque, Marcar, Enlazar, Terminar, estructuras, En
<1>2. l.vuelve # "open" /\ l.luego # "createFin"
  BY <1>1, KDe
<1>3. ASSUME NEW x \in {"marcar", "enlazar", "terminar", "copiar"}, NEW y \in {l.luego, "cola"}, Va(x, y)
      PROVE  Lejos(m)
  BY <1>2, <1>3 DEF Lejos
<1>4. CASE PedirBloque(h)
  <2>. DEFINE Pone(a, b) == loc' = [loc EXCEPT ![h].pc = "marcar", ![h].ant = a, ![h].blk = b]
  <2>1. \/ Vuelve(h, FALSE) /\ l.pc = "pedir"
        \/ abierto' = abierto /\ \E a, b : Pone(a, b)
    BY <1>4, Zenon DEF PedirBloque, En
  <2>2. \A a, b : Pone(a, b) => Va("marcar", l.luego)
    BY DEF IInv, Forma, Campos
  <2>. HIDE DEF Pone
  <2>3. CASE Vuelve(h, FALSE) /\ l.pc = "pedir"
    BY <1>1, <1>2, <2>3, KVuelve
  <2>4. CASE abierto' = abierto /\ \E a, b : Pone(a, b)
    BY <1>1, <1>2, <1>3, <2>2, <2>4, KLejos
  <2>. QED BY <2>1, <2>3, <2>4
<1>5. CASE Marcar(h)
  <2>1. abierto' = abierto /\ Va("enlazar", l.luego)
    BY <1>5 DEF Marcar, Ir, IInv, Forma, Campos
  <2>. QED BY <1>1, <1>2, <1>3, <2>1, KLejos
<1>6. CASE Enlazar(h)
  <2>1. abierto' = abierto /\ Va("terminar", "cola")
    BY <1>6 DEF Enlazar, IInv, Forma, Campos
  <2>. QED BY <1>1, <1>2, <1>3, <2>1, KLejos
<1>7. CASE Terminar(h)
  <2>1. abierto' = abierto /\ Va("copiar", l.luego)
    BY <1>7 DEF Terminar, IInv, Forma, Campos
  <2>. QED BY <1>1, <1>2, <1>3, <2>1, KLejos
<1>. QED BY <1>4, <1>5, <1>6, <1>7

\* The blocks it takes away.
LEMMA KCorta ==
  ASSUME Llanos, TInv, IInv, DInv, KInv, FInv, NEW h \in Hilos, Ajenos(h), Limpiar(h) \/ Cortar(h)
  PROVE  KInv'
<1>. DEFINE l == loc[h]
            m == loc'[h]
<1>1. tabla' = tabla /\ mux_files' = mux_files /\ abierto' = abierto /\ l.pc \in {"limpiar", "cortar"}
  BY Zenon DEF Limpiar, Cortar, En
<1>2. l.luego # "createFin" /\ l.abm \in Int /\ l.abm < 0
  <2>1. \E c, n : Puesto(l, fat, c, n)
    BY DEF FInv, Cuadra, Hebra
  <2>. QED BY <1>1, <2>1, KDe, Tamanios DEF Puesto
<1>3. CASE Limpiar(h)
  <2>1. m.pc = "cortar" /\ m.luego = l.luego /\ m.abm = l.abm /\ Lleva(m, l)
    BY <1>3 DEF Limpiar, Ir, IInv, Forma, Campos, Lleva
  <2>2. l.abm <= 0
    <3>1. PICK y : y = l.abm
      OBVIOUS
    <3>. QED BY <1>2, <3>1
  <2>. QED BY <1>1, <1>2, <2>1, <2>2, KSigue
<1>4. CASE Cortar(h)
  <2>1. m.pc = "copiar" /\ m.luego = "cola" /\ m.abm = l.abm + 1 /\ Lleva(m, l)
    BY <1>4 DEF Cortar, IInv, Forma, Campos, Lleva
  <2>2. m.abm <= 0
    <3>1. PICK y : y = l.abm
      OBVIOUS
    <3>2. y + 1 <= 0
      BY <1>2, <3>1
    <3>. QED BY <2>1, <3>1, <3>2
  <2>. QED BY <1>1, <1>2, <2>1, <2>2, KSigue
<1>. QED BY <1>3, <1>4

\* The new size: names and kinds are the same.
LEMMA KTamanio ==
  ASSUME Llanos, TInv, IInv, DInv, KInv, FInv, NEW h \in Hilos, Ajenos(h), Tamanio(h)
  PROVE  KInv'
<1>. DEFINE l == loc[h]
            m == loc'[h]
            e == l.pos
<1>1. /\ mux_files' = mux_files /\ abierto' = abierto /\ l.pc = "cola" /\ l.abm = 0
      /\ tabla' = [tabla EXCEPT ![e].tam = l.tam]
  BY DEF Tamanio, En
<1>2. Mismos(tabla, tabla')
  <2>1. tabla \in [Entradas -> Entrada]
    <3>1. LocalBien(l)
      BY DeHilo
    <3>2. e \in Entradas
      BY <1>1, <3>1 DEF LocalBien
    <3>. QED BY <3>2, Fichas
  <2>. HIDE DEF l, e
  <2>. QED BY <1>1, <2>1 DEF Mismos, Entrada
<1>3. m.pc = "copiar" /\ m.luego = "truncado" /\ m.abm = l.abm /\ Lleva(m, l)
  BY DEF Tamanio, Copiando, IInv, Forma, Campos, Lleva
<1>4. Tramo(l, abierto[h], tabla') /\ EnMano(l, abierto[h]) = EnMano(l, abierto[h])
  <2>1. Tramo(l, abierto[h], tabla) /\ l.luego # "createFin"
    BY <1>1, KDe
  <2>. QED BY <1>1, <2>1 DEF Tramo, Creado, Abierta, Creando
<1>5. Tramo(m, abierto[h], tabla') /\ EnMano(m, abierto[h]) = EnMano(l, abierto[h])
  BY <1>1, <1>3, <1>4, TramoSigue
<1>. QED BY <1>1, <1>2, <1>5, KMismos

\* The copies to the image.
LEMMA KCopiar ==
  ASSUME Llanos, TInv, IInv, DInv, KInv, FInv, NEW h \in Hilos, Ajenos(h), Copiar(h)
  PROVE  KInv'
<1>. DEFINE l == loc[h]
            m == loc'[h]
<1>1. tabla' = tabla /\ mux_files' = mux_files /\ abierto' = abierto /\ l.pc = "copiar"
  BY DEF Copiar, estructuras, En
<1>2. l.luego \in {"libre", "cola", "truncado", "createFin"}
  <2>1. \E c, n : Puesto(l, fat, c, n)
    BY DEF FInv, Cuadra, Hebra
  <2>. QED BY <2>1 DEF IInv, Regreso, Puesto
<1>3. \/ Responder(h) /\ l.luego = "libre"
      \/ /\ Lleva(m, l) /\ m.abm = l.abm
         /\ \/ m.pc = "copiar" /\ m.luego = l.luego
            \/ l.luego # "libre" /\ m.pc = l.luego /\ m.luego = "libre"
  <2>1. CASE loc' = [loc EXCEPT ![h].copias = Tail(@)]
    BY <1>1, <2>1 DEF IInv, Forma, Campos, Lleva
  <2>2. CASE l.luego # "libre" /\ loc' = [loc EXCEPT ![h].copias = <<>>, ![h].pc = l.luego, ![h].luego = "libre"]
    BY <2>2 DEF IInv, Forma, Campos, Lleva
  <2>3. \/ loc' = [loc EXCEPT ![h].copias = Tail(@)] \/ (Responder(h) /\ l.luego = "libre")
        \/ l.luego # "libre" /\ loc' = [loc EXCEPT ![h].copias = <<>>, ![h].pc = l.luego, ![h].luego = "libre"]
    BY Zenon DEF Copiar
  <2>. QED BY <2>1, <2>2, <2>3
<1>4. l.vuelve = "open" => l.luego \in {"cola", "truncado"} /\ l.abm <= 0
  BY <1>1, KDe DEF Tramo, Abierta
<1>5. CASE l.luego \in {"cola", "truncado"}
  <2>1. Lleva(m, l) /\ m.abm = l.abm /\ m.luego # "createFin" /\ m.pc \in {"copiar", "cola", "truncado"}
        /\ (m.pc = "copiar" => m.luego = l.luego)
    BY <1>3, <1>5
  <2>. QED BY <1>1, <1>4, <1>5, <2>1, KSigue
<1>6. CASE l.luego = "libre"
  <2>1. Lejos(m)
    <3>1. Responder(h) => m = Ocioso
      BY DEF Responder, IInv, Forma
    <3>2. Lleva(m, l) => m.vuelve # "open"
      BY <1>4, <1>6 DEF Lleva
    <3>. QED BY <1>3, <1>6, <3>1, <3>2 DEF Lejos, Ocioso
  <2>. QED BY <1>1, <1>4, <1>6, <2>1, KLejos
<1>7. CASE l.luego = "createFin"
  <2>1. Tramo(l, abierto[h], tabla) /\ Lleva(m, l)
    BY <1>3, <1>7, KDe
  <2>2. (m.pc = "copiar" /\ m.luego = "createFin") \/ (m.pc = "createFin" /\ m.luego = "libre")
    BY <1>3, <1>7
  <2>3. abierto[h] = Cerrado /\ l.vuelve = "libre" /\ l.modo = 2 /\ l.tam = 0 /\ Hay(tabla, l.ruta)
    BY <1>7, <2>1 DEF Tramo, Creado, Abriendo, Creando
  <2>4. EnMano(m, abierto[h]) = EnMano(l, abierto[h])
    BY <2>1 DEF EnMano, Lleva
  <2>5. m.vuelve = "libre" /\ m.modo = 2 /\ m.tam = 0 /\ Hay(tabla, m.ruta)
    BY <2>1, <2>3 DEF Lleva
  <2>. HIDE DEF m, l
  <2>6. Tramo(m, abierto[h], tabla)
    BY <2>2, <2>3, <2>5 DEF Tramo, Creado, Abierta
  <2>. QED BY <1>1, <2>4, <2>6, KSinTabla DEF m, l
<1>. QED BY <1>2, <1>5, <1>6, <1>7

\* Every step keeps the locks right.
LEMMA KHilo ==
  ASSUME Llanos, TInv, IInv, RInv, NInv, DInv, FInv, KInv, NEW h \in Hilos, Pedir(h) \/ Hilo(h) \/ Morir(h)
  PROVE  KInv'
<1>1. Ajenos(h)
  BY SoloSuyos DEF IInv
<1>2. CASE \/ Mkdir(h) \/ Rmdir(h) \/ Utimens(h) \/ Unlink(h) \/ UnlinkPrimero(h) \/ UnlinkLimpiar(h)
           \/ UnlinkSeguir(h) \/ Write(h) \/ WriteIr(h) \/ Escribir(h) \/ Morir(h)
  <2>1. tabla' = tabla
    BY <1>2, Zenon DEF Mkdir, Rmdir, Utimens, Unlink, UnlinkPrimero, UnlinkLimpiar, UnlinkSeguir,
       Write, WriteIr, Escribir, Morir, estructuras
  <2>. QED BY <1>1, <1>2, <2>1, KPasosLejos
<1>3. CASE MkdirMux(h) \/ RmdirBaja(h) \/ UnlinkBaja(h)
  BY <1>1, <1>3, KMkdirMux, KRmdirBaja, KUnlinkBaja
<1>4. CASE Pedir(h) \/ Create(h) \/ CreateMux(h) \/ CreateFin(h) \/ CreateAlta(h)
  BY <1>1, <1>4, KPedir, KCreate, KCreateAlta
<1>5. CASE Open(h) \/ OpenTomar(h) \/ Release(h) \/ ReleaseSoltar(h)
  BY <1>1, <1>5, KOpen, KOpenTomar, KRelease, KReleaseSoltar
<1>6. CASE Truncate(h) \/ Cola(h) \/ Tamanio(h) \/ Copiar(h)
  BY <1>1, <1>6, KTruncate, KCola, KTamanio, KCopiar
<1>7. CASE PedirBloque(h) \/ Marcar(h) \/ Enlazar(h) \/ Terminar(h) \/ Limpiar(h) \/ Cortar(h)
  BY <1>1, <1>7, KEstira, KCorta
<1>8. CASE Truncado(h)
  <2>1. loc[h].pc = "truncado" /\ Vuelve(h, TRUE) /\ tabla' = tabla /\ mux_files' = mux_files
    BY <1>8 DEF Truncado, estructuras, En
  <2>. QED BY <1>1, <2>1, KVuelve
<1>9. ~(NuncaPedir(h) \/ NuncaMarcar(h) \/ NuncaEnlazar(h) \/ NuncaSeguir(h))
  BY CuadraNunca DEF FInv
<1>10. ~(Rename(h) \/ RenameAlta(h))
  BY DEF DInv, DeRuta, Rename, RenameAlta, En
<1>. QED BY <1>2, <1>3, <1>4, <1>5, <1>6, <1>7, <1>8, <1>9, <1>10, Zenon DEF Hilo

\* So does a step in which nothing happens.
LEMMA SigueCandados ==
  Llanos /\ TInv /\ IInv /\ RInv /\ NInv /\ DInv /\ FInv /\ KInv /\ [Next]_vars => KInv'
<1>. SUFFICES ASSUME Llanos, TInv, IInv, RInv, NInv, DInv, FInv, KInv, [Next]_vars PROVE KInv'
  OBVIOUS
<1>1. CASE UNCHANGED vars
  <2>1. tabla' = tabla /\ loc' = loc /\ abierto' = abierto /\ mux_files' = mux_files
    BY <1>1 DEF vars
  <2>. QED BY <2>1 DEF KInv
<1>2. ASSUME NEW h \in Hilos, Pedir(h) \/ Hilo(h) \/ Morir(h) PROVE KInv'
  BY <1>2, KHilo
<1>. QED BY <1>1, <1>2 DEF Next

\* At the start nothing is open, and there is no file.
LEMMA IniciaCandados == Init => KInv
<1>. SUFFICES ASSUME Init PROVE KInv
  OBVIOUS
<1>1. /\ tabla = [i \in Entradas |-> [estado |-> "DELETED", nombre |-> "", padre |-> 0, tam |-> 0, primero |-> 0]]
      /\ loc = [h \in Hilos |-> Ocioso] /\ abierto = [h \in Hilos |-> Cerrado]
      /\ mux_files = [i \in Entradas |-> [escribe |-> Nadie, leen |-> 0]]
  BY Zenon DEF Init
<1>2. ASSUME NEW h \in Hilos
      PROVE  Tramo(loc[h], abierto[h], tabla) /\ EnMano(loc[h], abierto[h]) = Cerrado
  <2>1. Lejos(loc[h]) /\ abierto[h] = Cerrado
    BY <1>1 DEF Ocioso, Lejos
  <2>. QED BY <2>1, TramoLejos
<1>3. \A h \in Hilos : Tenido(h, EnMano(loc[h], abierto[h]), tabla, mux_files)
  BY <1>2 DEF Tenido
<1>4. \A i \in Entradas : mux_files[i] = SinNadie /\ tabla[i].estado = "DELETED"
  BY <1>1 DEF SinNadie
<1>. QED BY <1>2, <1>3, <1>4 DEF KInv, Primeros

\* At rest the lock of a file is that of the client that has it open, if there is one.
LEMMA BastaCandados == Llanos /\ TInv /\ IInv /\ NInv /\ DInv /\ KInv => CandadosJustos
<1>. DEFINE con(i) == {h \in Hilos : abierto[h] # Cerrado /\ RegularEn(abierto[h].ruta) = i}
<1>. SUFFICES ASSUME Llanos, TInv, IInv, NInv, DInv, KInv, Reposo, NEW i \in Entradas
              PROVE  /\ mux_files[i].leen = Cardinality({h \in con(i) : abierto[h].modo = 0})
                     /\ {h \in Hilos : mux_files[i].escribe = h} = {h \in con(i) : abierto[h].modo > 0}
  BY DEF CandadosJustos
<1>1. \A h \in Hilos : EnMano(loc[h], abierto[h]) = abierto[h]
  BY KDe DEF Reposo, EnPaz, EnMano
<1>2. \A h \in Hilos : abierto[h] # Cerrado => abierto[h].ruta \in Rutas[h]
  BY DEF DInv, DeRuta
<1>3. ASSUME NEW h \in Hilos, abierto[h] # Cerrado
      PROVE  RegularEn(abierto[h].ruta) = i <=> Archivo(tabla, abierto[h].ruta, i)
  <2>1. abierto[h].ruta \in Rutas[h] /\ Unicos(tabla)
    BY <1>2, <1>3 DEF NInv
  <2>2. RegularEn(abierto[h].ruta) = i => Archivo(tabla, abierto[h].ruta, i)
    BY <2>1, RegularDe
  <2>3. Archivo(tabla, abierto[h].ruta, i) => RegularEn(abierto[h].ruta) = i
    BY <2>1, RegularDe
  <2>. QED BY <2>2, <2>3
<1>4. \A h : h \in con(i) <=> h \in Hilos /\ abierto[h] # Cerrado /\ Archivo(tabla, abierto[h].ruta, i)
  BY <1>3
<1>. HIDE DEF con
<1>5. CASE con(i) = {}
  <2>1. mux_files[i] = SinNadie
    BY <1>1, <1>4, <1>5 DEF KInv
  <2>2. mux_files[i].leen = 0 /\ mux_files[i].escribe = Nadie
    BY <2>1 DEF SinNadie
  <2>3. {h \in con(i) : abierto[h].modo = 0} = {} /\ {h \in con(i) : abierto[h].modo > 0} = {}
    BY <1>5
  <2>4. {h \in Hilos : mux_files[i].escribe = h} = {}
    BY <2>2, SupuestoOsada
  <2>. QED BY <2>2, <2>3, <2>4, FS_EmptySet
<1>6. CASE con(i) # {}
  <2>1. PICK g : g \in con(i)
    BY <1>6
  <2>2. g \in Hilos /\ abierto[g] # Cerrado /\ Archivo(tabla, abierto[g].ruta, i) /\ abierto[g].ruta \in Rutas[g]
    BY <1>2, <1>4, <2>1
  <2>3. con(i) = {g}
    <3>1. ASSUME NEW h \in con(i), h # g PROVE FALSE
      <4>1. h \in Hilos /\ Archivo(tabla, abierto[h].ruta, i) /\ abierto[h].ruta \in Rutas[h]
        BY <1>2, <1>4, <3>1
      <4>. QED BY <2>2, <3>1, <4>1, ArchivoAjeno
    <3>. QED BY <2>1, <3>1
  <2>4. mux_files[i] = Candado(g, abierto[g])
    <3>1. Tenido(g, abierto[g], tabla, mux_files)
      BY <1>1, <2>2 DEF KInv
    <3>2. PICK j \in Entradas : Archivo(tabla, abierto[g].ruta, j) /\ mux_files[j] = Candado(g, abierto[g])
      BY <2>2, <3>1 DEF Tenido
    <3>3. i = j
      BY <2>2, <3>2, ArchivoUno DEF NInv
    <3>. QED BY <3>2, <3>3
  <2>5. abierto[g].modo \in 0..2
    BY <2>2, DeHilo DEF AbiertoBien, Abierto
  <2>6. g # Nadie /\ Nadie \notin Hilos
    BY <2>2, SupuestoOsada
  <2>7. CASE abierto[g].modo = 0
    <3>1. mux_files[i].leen = 1 /\ mux_files[i].escribe = Nadie
      BY <2>4, <2>7 DEF Candado
    <3>2. {h \in con(i) : abierto[h].modo = 0} = {g} /\ {h \in con(i) : abierto[h].modo > 0} = {}
      BY <2>3, <2>7
    <3>3. {h \in Hilos : mux_files[i].escribe = h} = {}
      BY <2>6, <3>1
    <3>. QED BY <3>1, <3>2, <3>3, FS_Singleton
  <2>8. CASE abierto[g].modo # 0
    <3>1. mux_files[i].leen = 0 /\ mux_files[i].escribe = g
      BY <2>4, <2>8 DEF Candado
    <3>2. {h \in con(i) : abierto[h].modo = 0} = {} /\ {h \in con(i) : abierto[h].modo > 0} = {g}
      BY <2>3, <2>5, <2>8
    <3>3. {h \in Hilos : mux_files[i].escribe = h} = {g}
      BY <2>2, <3>1
    <3>. QED BY <3>1, <3>2, <3>3, FS_EmptySet
  <2>. QED BY <2>7, <2>8
<1>. QED BY <1>5, <1>6

\* When nobody is being served the rwlock of a file is that of the client that has it open,
\* or had when it was killed, reader or writer as it opened it, and the other rwlocks are
\* free: for any number of clients, files and blocks, if the clients have files of their own
\* in the root, nobody renames one, and none is deleted unless there is one client.
THEOREM CandadosJustosSiempre == ASSUME Llanos PROVE Spec => []CandadosJustos
<1>. DEFINE J == IInv /\ TInv /\ RInv /\ FInv /\ NInv /\ DInv /\ KInv
<1>1. Init => J
  BY Inicia, IniciaTipo, IniciaRutas, IniciaFsck, IniciaNombres, IniciaDeRuta, IniciaCandados
<1>2. J /\ [Next]_vars => J'
  <2>1. IInv => Forma
    BY DEF IInv
  <2>2. Apartados /\ Propios
    BY DEF Llanos, Apartados
  <2>. QED BY <2>1, <2>2, Conserva, SigueTipo, SigueRutas, SigueFsck, SigueNombres, SigueDeRuta,
            SigueCandados
<1>3. J => CandadosJustos
  BY BastaCandados
<1>. QED BY <1>1, <1>2, <1>3, PTL DEF Spec
=============================================================================
