-------------------------- MODULE DeteccionPruebas --------------------------
(***************************************************************************)
(* Proofs about DeteccionDeadlock for tables of any size: the types, the   *)
(* two halves of the verdict (Completitud, Absueltos) and the closed form  *)
(* Resultado that module Mapa uses in place of the loops.                  *)
(***************************************************************************)
EXTENDS DeteccionDeadlock, TLAPS

\* Row k stopped the loop: it is unsatisfied, and of the rows that hold
\* something exactly the earlier ones are finished.
Corte(k) ==
  /\ Insatisfecho(k, pedidos, asignados, disponibles)
  /\ \A j \in Tenedores(asignados) : finish[j] <=> j < k

\* A nest has something to give exactly when it had from the start or when a
\* finished row gave some back.
Cuentas ==
  \A n \in PokeNests :
    work[n] > 0 <=> \/ disponibles[n] > 0
                    \/ \E j \in Poseedores(asignados, n) : finish[j]

\* Rows that hold nothing are finished from the start.
SinNada == \A r \in Filas : r \notin Tenedores(asignados) => finish[r]

\* While no row has failed, the rows already visited are finished; either all
\* are (a second pass) or no holder from i on is (the first pass).
SinBandera ==
  /\ \A r \in Filas : r < i => finish[r]
  /\ \/ \A r \in Filas : finish[r]
     \/ \A r \in Tenedores(asignados) : r >= i => ~finish[r]

Recorrido ==
  /\ pc = "recorrer" /\ ~flag => SinBandera
  /\ pc = "recorrer" /\ flag => \E k \in Filas : Corte(k)
  /\ pc # "recorrer" => (\A r \in Filas : finish[r]) \/ (\E k \in Filas : Corte(k))

\* The members of a set of trainers that wait for one another stay unfinished.
Atrapados ==
  \A D \in SUBSET Filas :
    BloqueoMutuo(D, pedidos, asignados, disponibles) =>
      \A r \in D \cap Tenedores(asignados) : ~finish[r]

\* The marking loop so far.
Marcado ==
  /\ pc = "recorrer" => eDeadlock = <<>>
  /\ pc # "recorrer" => (flag <=> \E r \in Filas : r < i /\ ~finish[r])
  /\ pc = "fin" => i > eMax
  /\ ~batalla => eDeadlock = <<>>
  /\ \A p \in DOMAIN eDeadlock : eDeadlock[p] < i /\ ~finish[eDeadlock[p]]
  /\ pc # "recorrer" /\ batalla =>
       \A r \in Filas : r < i /\ ~finish[r] => \E p \in DOMAIN eDeadlock : eDeadlock[p] = r
  /\ \A p, q \in DOMAIN eDeadlock : p < q => eDeadlock[p] < eDeadlock[q]

IInv ==
  TypeOK /\ Cuentas /\ SinNada /\ Recorrido /\ Atrapados /\ Absueltos /\ Marcado

-----------------------------------------------------------------------------
\* The sets of holders are sets of rows.
LEMMA Conjuntos ==
  ASSUME TypeOK
  PROVE  /\ Filas = 1..eMax /\ eMax \in Nat
         /\ Tenedores(asignados) \subseteq Filas
         /\ \A n \in PokeNests : Poseedores(asignados, n) \subseteq Tenedores(asignados)
         /\ \A r \in Filas : pedidos[r] \in PokeNests
         /\ \A n \in PokeNests : work[n] \in Nat /\ disponibles[n] \in Nat
<1>1. Filas = 1..eMax /\ eMax \in Nat /\ \A r \in Filas : pedidos[r] \in PokeNests
  BY DEF TypeOK, Filas, eMax
<1>2. \A n \in PokeNests : work[n] \in Nat /\ disponibles[n] \in Nat
  BY DEF TypeOK
<1>3. DOMAIN asignados = Filas /\ \A r \in Filas : DOMAIN asignados[r] = PokeNests
  BY DEF TypeOK
<1> QED
  BY <1>1, <1>2, <1>3 DEF Tenedores, Poseedores

LEMMA TipoInicial == Init => TypeOK
<1> SUFFICES ASSUME Init PROVE TypeOK
  OBVIOUS
<1>1. PICK e \in 2..MaxEntrenadores : Tablas(e)
  BY DEF Init
<1>2. pedidos \in Seq(PokeNests) /\ eMax = e /\ Filas = 1..e
  BY <1>1, SupuestoCotas DEF Tablas, eMax, Filas
<1>3. asignados \in [Filas -> [PokeNests -> Nat]]
  BY <1>1, <1>2, SupuestoCotas DEF Tablas
<1>4. disponibles \in [PokeNests -> Nat]
  BY SupuestoCotas DEF Init
<1>5. finish \in [Filas -> BOOLEAN]
  BY DEF Init
<1>6. i \in 1 .. eMax + 1 /\ eMax >= 2 /\ eDeadlock \in Seq(Filas)
  BY <1>1, <1>2, SupuestoCotas DEF Init
<1> QED
  BY <1>2, <1>3, <1>4, <1>5, <1>6, Zenon DEF Init, TypeOK

LEMMA TipoPaso == TypeOK /\ [Next]_vars => TypeOK'
<1> SUFFICES ASSUME TypeOK, [Next]_vars PROVE TypeOK'
  OBVIOUS
<1>0. CASE UNCHANGED vars
  BY <1>0 DEF vars, TypeOK, Filas, eMax
<1> SUFFICES ASSUME Next PROVE TypeOK'
  BY <1>0
<1>1. UNCHANGED entradas
  BY DEF Next, Saltear, Trabar, Finalizar, FinVuelta, Marcar, Retornar
<1>2. Filas' = Filas /\ eMax' = eMax /\ eMax \in Nat /\ Filas = 1..eMax
  BY <1>1 DEF entradas, Filas, eMax, TypeOK
<1>3. work' \in [PokeNests -> Nat]
  <2>1. CASE Finalizar
    BY <2>1, <1>2 DEF Finalizar, TypeOK
  <2> QED
    BY <2>1 DEF Next, Saltear, Trabar, FinVuelta, Marcar, Retornar, TypeOK
<1>4. finish' \in [Filas -> BOOLEAN]
  BY DEF Next, Saltear, Trabar, Finalizar, FinVuelta, Marcar, Retornar, TypeOK
<1>5. flag' \in BOOLEAN /\ again' \in BOOLEAN
  BY Zenon DEF Next, Saltear, Trabar, Finalizar, FinVuelta, Marcar, Retornar, TypeOK
<1>6. i' \in 1 .. eMax + 1
  BY <1>2 DEF Next, Saltear, Trabar, Finalizar, FinVuelta, Marcar, Retornar, TypeOK
<1>7. eDeadlock' \in Seq(Filas)
  <2>1. CASE Marcar
    <3>1. i \in Filas
      BY <2>1, <1>2 DEF Marcar, TypeOK
    <3>2. eDeadlock \in Seq(Filas) /\ Append(eDeadlock, i) \in Seq(Filas)
      BY <3>1 DEF TypeOK
    <3> QED
      BY <2>1, <3>2, Zenon DEF Marcar
  <2> QED
    BY <2>1 DEF Next, Saltear, Trabar, Finalizar, FinVuelta, Retornar, TypeOK
<1>8. pc' \in {"recorrer", "marcar", "fin"}
  BY DEF Next, Saltear, Trabar, Finalizar, FinVuelta, Marcar, Retornar, TypeOK
<1>9. /\ pedidos' = pedidos /\ asignados' = asignados
      /\ disponibles' = disponibles /\ batalla' = batalla
  BY <1>1 DEF entradas
<1> QED
  BY <1>2, <1>3, <1>4, <1>5, <1>6, <1>7, <1>8, <1>9, Zenon DEF TypeOK

\* Every behaviour of deadlockDetect keeps its locals well typed.
THEOREM TipoCorrecto == Spec => []TypeOK
<1>1. Init => TypeOK
  BY TipoInicial
<1> QED
  BY <1>1, TipoPaso, PTL DEF Spec

-----------------------------------------------------------------------------
\* What a step never changes: the tables and all that is computed from them.
LEMMA EntradasFijas ==
  ASSUME TypeOK, [Next]_vars
  PROVE  /\ pedidos' = pedidos /\ asignados' = asignados
         /\ disponibles' = disponibles /\ batalla' = batalla
         /\ Filas' = Filas /\ eMax' = eMax
<1>1. UNCHANGED entradas
  BY DEF Next, Saltear, Trabar, Finalizar, FinVuelta, Marcar, Retornar, vars, entradas
<1> QED
  BY <1>1 DEF entradas, Filas, eMax

LEMMA InvInicial == Init => Cuentas /\ SinNada /\ Recorrido /\ Atrapados /\ Absueltos /\ Marcado
<1> SUFFICES ASSUME Init, TypeOK
             PROVE  Cuentas /\ SinNada /\ Recorrido /\ Atrapados /\ Absueltos /\ Marcado
  BY TipoInicial
<1>1. \A r \in Filas : finish[r] <=> r \notin Tenedores(asignados)
  BY DEF Init
<1>2. Tenedores(asignados) \subseteq Filas
  BY Conjuntos
<1>3. Cuentas
  <2> SUFFICES ASSUME NEW n \in PokeNests
               PROVE  ~ \E j \in Poseedores(asignados, n) : finish[j]
    BY DEF Cuentas, Init
  <2> QED
    BY <1>1, <1>2, Conjuntos
<1>4. SinNada
  BY <1>1 DEF SinNada
<1>5. Recorrido
  <2>1. \A r \in Filas : ~(r < i)
    BY Conjuntos DEF Init
  <2>2. \A r \in Tenedores(asignados) : ~finish[r]
    BY <1>1, <1>2
  <2>3. pc = "recorrer" /\ flag = FALSE
    BY DEF Init
  <2> QED
    BY <2>1, <2>2, <2>3 DEF Recorrido, SinBandera
<1>6. Atrapados
  BY <1>1 DEF Atrapados
<1>7. Absueltos
  BY <1>1, <1>2 DEF Absueltos
<1>8. Marcado
  BY DEF Init, Marcado
<1> QED
  BY <1>3, <1>4, <1>5, <1>6, <1>7, <1>8

\* A step of the first loop that fails: row i is where the marking will start.
LEMMA PasoTrabar ==
  ASSUME IInv, Trabar PROVE Recorrido'
<1>0. TypeOK /\ Filas = 1..eMax /\ Tenedores(asignados) \subseteq Filas
  BY Conjuntos DEF IInv
<1>1. i \in Filas /\ i \in Tenedores(asignados) /\ pedidos[i] \in PokeNests
  BY <1>0, Conjuntos DEF IInv, Trabar, SinNada, TypeOK
<1>2. UNCHANGED <<pedidos, asignados, disponibles, finish>>
  BY DEF Trabar, entradas
<1>3. \E k \in Filas : Corte(k)
  <2>1. CASE flag
    BY <2>1 DEF IInv, Recorrido, Trabar
  <2>2. CASE ~flag
    <3>1. SinBandera
      BY <2>2 DEF IInv, Recorrido, Trabar
    <3>2. \A j \in Tenedores(asignados) : finish[j] <=> j < i
      BY <3>1, <1>0, <1>1 DEF SinBandera, Trabar, TypeOK
    <3>3. pedidos[i] \in PokeNests /\ work[pedidos[i]] = 0
      BY <2>2, <1>0, <1>1, Conjuntos DEF Trabar, Falta
    <3>4. disponibles[pedidos[i]] = 0
      BY <3>3, <1>0, Conjuntos DEF IInv, Cuentas
    <3>5. \A j \in Poseedores(asignados, pedidos[i]) : ~finish[j]
      BY <3>3, <1>0, Conjuntos DEF IInv, Cuentas
    <3>6. \A j \in Poseedores(asignados, pedidos[i]) : j >= i
      <4> TAKE j \in Poseedores(asignados, pedidos[i])
      <4>1. j \in Tenedores(asignados) /\ j \in Int /\ i \in Int
        BY <3>3, <1>0, <1>1, Conjuntos
      <4> QED
        BY <4>1, <3>2, <3>5
    <3> QED
      BY <1>1, <3>2, <3>4, <3>6 DEF Corte, Insatisfecho
  <2> QED
    BY <2>1, <2>2
<1>4. pc' = "recorrer" /\ flag'
  BY DEF Trabar
<1>5. (\E k \in Filas : Corte(k))'
  BY <1>2, <1>3 DEF Corte, Filas
<1> QED
  BY <1>4, <1>5 DEF Recorrido

\* A step that finishes row i: what it gives back, and whom it cannot free.
LEMMA PasoFinalizar ==
  ASSUME IInv, Finalizar
  PROVE  Cuentas' /\ SinNada' /\ Recorrido' /\ Atrapados' /\ Absueltos'
<1>0. TypeOK /\ Filas = 1..eMax /\ Tenedores(asignados) \subseteq Filas
  BY Conjuntos DEF IInv
<1>1. i \in Filas /\ i \in Tenedores(asignados) /\ pedidos[i] \in PokeNests
  BY <1>0, Conjuntos DEF IInv, Finalizar, SinNada, TypeOK
<1>2. UNCHANGED <<pedidos, asignados, disponibles, batalla, flag, pc>> /\ ~flag /\ pc = "recorrer"
  BY DEF Finalizar, entradas
<1>3. finish' = [finish EXCEPT ![i] = TRUE] /\ finish \in [Filas -> BOOLEAN]
  BY <1>0 DEF Finalizar, TypeOK
<1>4. \A r \in Filas : finish'[r] <=> finish[r] \/ r = i
  BY <1>1, <1>3
<1>5. SinBandera /\ ~finish[i] /\ \A r \in Tenedores(asignados) : r >= i => ~finish[r]
  BY <1>1, <1>2 DEF IInv, Recorrido, SinBandera, Finalizar
<1>6. \/ disponibles[pedidos[i]] > 0
      \/ \E j \in Poseedores(asignados, pedidos[i]) : finish[j]
  <2>1. work[pedidos[i]] > 0
    BY <1>0, <1>1 DEF Finalizar, Falta, TypeOK
  <2> QED
    BY <2>1, <1>1 DEF IInv, Cuentas
<1>7. Cuentas'
  <2> SUFFICES ASSUME NEW n \in PokeNests
               PROVE  work'[n] > 0 <=> \/ disponibles[n] > 0
                                       \/ \E j \in Poseedores(asignados, n) : finish'[j]
    BY <1>2 DEF Cuentas
  <2>1. work'[n] = work[n] + asignados[i][n] /\ work[n] \in Nat /\ asignados[i][n] \in Nat
    BY <1>0, <1>1 DEF Finalizar, TypeOK
  <2>2. asignados[i][n] > 0 <=> i \in Poseedores(asignados, n)
    BY <1>0, <1>1 DEF Poseedores, TypeOK
  <2>3. work[n] > 0 <=> disponibles[n] > 0 \/ \E j \in Poseedores(asignados, n) : finish[j]
    BY DEF IInv, Cuentas
  <2>4. (\E j \in Poseedores(asignados, n) : finish'[j])
          <=> (\E j \in Poseedores(asignados, n) : finish[j]) \/ i \in Poseedores(asignados, n)
    BY <1>0, <1>4, Conjuntos
  <2> QED
    BY <2>1, <2>2, <2>3, <2>4
<1>8. SinNada'
  BY <1>2, <1>4 DEF IInv, SinNada, Filas
<1>9. Recorrido'
  <2>1. \A r \in Filas : r < i' => finish'[r]
    BY <1>0, <1>1, <1>4, <1>5 DEF SinBandera, Finalizar, TypeOK
  <2>2. \A r \in Tenedores(asignados) : r >= i' => ~finish'[r]
    BY <1>0, <1>1, <1>4, <1>5 DEF Finalizar, TypeOK
  <2> QED
    BY <1>2, <2>1, <2>2 DEF Recorrido, SinBandera, Filas
<1>10. Atrapados'
  <2> SUFFICES ASSUME NEW D \in SUBSET Filas,
                      BloqueoMutuo(D, pedidos, asignados, disponibles),
                      NEW r \in D \cap Tenedores(asignados)
               PROVE  ~finish'[r]
    BY <1>2 DEF Atrapados, Filas
  <2>1. ~finish[r]
    BY DEF IInv, Atrapados
  <2>2. r # i
    <3> SUFFICES ASSUME r = i PROVE FALSE
      OBVIOUS
    <3>1. disponibles[pedidos[i]] = 0 /\ Poseedores(asignados, pedidos[i]) \subseteq D
      BY DEF BloqueoMutuo
    <3>2. PICK j \in Poseedores(asignados, pedidos[i]) : finish[j]
      BY <1>0, <1>1, <1>6, <3>1 DEF TypeOK
    <3>3. j \in D \cap Tenedores(asignados)
      BY <1>0, <1>1, <3>1, Conjuntos
    <3> QED
      BY <3>2, <3>3 DEF IInv, Atrapados
  <2> QED
    BY <1>0, <1>4, <2>1, <2>2
<1>11. Absueltos'
  <2> SUFFICES ASSUME NEW r \in Tenedores(asignados), finish'[r]
               PROVE  \/ disponibles[pedidos[r]] > 0
                      \/ \E j \in Poseedores(asignados, pedidos[r]) : j < r /\ finish'[j]
    BY <1>2 DEF Absueltos
  <2>0. pedidos[r] \in PokeNests
    BY <1>0, Conjuntos
  <2>1. CASE r = i
    BY <2>0, <2>1, <1>0, <1>1, <1>4, <1>5, <1>6, Conjuntos
  <2>2. CASE r # i
    <3>1. finish[r]
      BY <2>2, <1>0, <1>4
    <3> QED
      BY <2>0, <3>1, <1>0, <1>4, Conjuntos DEF IInv, Absueltos
  <2> QED
    BY <2>1, <2>2
<1> QED
  BY <1>7, <1>8, <1>9, <1>10, <1>11

\* A step of the marking loop, and the steps that only touch i, flag and pc.
LEMMA PasoMarcado ==
  ASSUME IInv, Next PROVE Marcado'
<1>0. TypeOK /\ Filas = 1..eMax /\ eMax \in Nat /\ Filas' = Filas /\ eMax' = eMax /\ batalla' = batalla
  BY Conjuntos, EntradasFijas DEF IInv
<1>1. ASSUME pc = "recorrer", pc' = "recorrer", UNCHANGED eDeadlock PROVE Marcado'
  BY <1>1 DEF IInv, Marcado
<1>2. CASE FinVuelta /\ pc' = "marcar"
  <2>1. eDeadlock' = <<>> /\ i' = 1 /\ ~flag' /\ pc' # "fin"
    BY <1>2 DEF FinVuelta, IInv, Marcado
  <2>2. \A r \in Filas : ~(r < i')
    BY <1>0, <2>1
  <2> QED
    BY <2>1, <2>2, <1>0, <1>2 DEF Marcado
<1>3. CASE Retornar
  <2>1. UNCHANGED <<finish, flag, i, eDeadlock>> /\ pc # "recorrer" /\ pc' # "recorrer" /\ i > eMax
    BY <1>3 DEF Retornar
  <2> QED
    BY <2>1, <1>0 DEF IInv, Marcado
<1>4. CASE Marcar
  <2>1. /\ i \in Filas /\ i' = i + 1 /\ finish' = finish
        /\ pc = "marcar" /\ pc' = "marcar" /\ flag' = (flag \/ ~finish[i])
    BY <1>0, <1>4 DEF Marcar, TypeOK
  <2>2. flag' <=> \E r \in Filas : r < i' /\ ~finish[r]
    <3>1. flag <=> \E r \in Filas : r < i /\ ~finish[r]
      BY <2>1 DEF IInv, Marcado
    <3>2. \A r \in Filas : r < i' <=> r < i \/ r = i
      BY <1>0, <2>1
    <3> QED
      BY <2>1, <3>1, <3>2, Zenon
  <2>3. eDeadlock \in Seq(Filas) /\ \A p \in DOMAIN eDeadlock : eDeadlock[p] \in Filas
    BY <1>0 DEF TypeOK
  <2>4. CASE ~finish[i] /\ batalla
    <3>1. eDeadlock' = Append(eDeadlock, i)
      BY <1>4, <2>4 DEF Marcar
    <3>2. /\ Len(eDeadlock) \in Nat /\ DOMAIN eDeadlock = 1..Len(eDeadlock)
          /\ DOMAIN eDeadlock' = 1..(Len(eDeadlock) + 1)
          /\ \A p \in DOMAIN eDeadlock : eDeadlock'[p] = eDeadlock[p]
          /\ eDeadlock'[Len(eDeadlock) + 1] = i
      BY <2>1, <2>3, <3>1
    <3>3. \A p \in DOMAIN eDeadlock : eDeadlock[p] < i /\ ~finish[eDeadlock[p]]
      BY DEF IInv, Marcado
    <3>4. \A p \in DOMAIN eDeadlock' : eDeadlock'[p] < i' /\ ~finish'[eDeadlock'[p]]
      BY <1>0, <2>1, <2>3, <2>4, <3>2, <3>3
    <3>5. \A r \in Filas : r < i' /\ ~finish'[r] => \E p \in DOMAIN eDeadlock' : eDeadlock'[p] = r
      <4> SUFFICES ASSUME NEW r \in Filas, r < i', ~finish'[r]
                   PROVE  \E p \in DOMAIN eDeadlock' : eDeadlock'[p] = r
        OBVIOUS
      <4>1. CASE r = i
        BY <4>1, <3>2
      <4>2. CASE r < i
        <5>1. PICK p \in DOMAIN eDeadlock : eDeadlock[p] = r
          BY <4>2, <2>1, <2>4 DEF IInv, Marcado
        <5> QED
          BY <5>1, <3>2
      <4> QED
        BY <4>1, <4>2, <1>0, <2>1
    <3>6. \A p, q \in DOMAIN eDeadlock' : p < q => eDeadlock'[p] < eDeadlock'[q]
      <4> SUFFICES ASSUME NEW p \in DOMAIN eDeadlock', NEW q \in DOMAIN eDeadlock', p < q
                   PROVE  eDeadlock'[p] < eDeadlock'[q]
        OBVIOUS
      <4>1. CASE q = Len(eDeadlock) + 1
        BY <4>1, <3>2, <3>3
      <4>2. CASE q # Len(eDeadlock) + 1
        <5>1. p \in DOMAIN eDeadlock /\ q \in DOMAIN eDeadlock
          BY <4>2, <3>2
        <5>2. eDeadlock[p] < eDeadlock[q]
          BY <5>1 DEF IInv, Marcado
        <5> QED
          BY <5>1, <5>2, <3>2
      <4> QED
        BY <4>1, <4>2
    <3> QED
      BY <1>0, <2>1, <2>2, <2>4, <3>4, <3>5, <3>6 DEF Marcado
  <2>5. CASE ~(~finish[i] /\ batalla)
    <3>1. eDeadlock' = eDeadlock
      BY <1>4, <2>5 DEF Marcar
    <3>2. \A p \in DOMAIN eDeadlock : eDeadlock[p] < i' /\ ~finish[eDeadlock[p]]
      BY <1>0, <2>1, <2>3 DEF IInv, Marcado
    <3>3. batalla => \A r \in Filas : r < i' /\ ~finish[r] => \E p \in DOMAIN eDeadlock : eDeadlock[p] = r
      BY <1>0, <2>1, <2>5 DEF IInv, Marcado
    <3>4. /\ ~batalla => eDeadlock = <<>>
          /\ \A p, q \in DOMAIN eDeadlock : p < q => eDeadlock[p] < eDeadlock[q]
      BY DEF IInv, Marcado
    <3> QED
      BY <1>0, <2>1, <2>2, <3>1, <3>2, <3>3, <3>4 DEF Marcado
  <2> QED
    BY <2>4, <2>5
<1>5. CASE Saltear \/ Trabar \/ Finalizar \/ (FinVuelta /\ pc' = "recorrer")
  BY <1>1, <1>5 DEF Saltear, Trabar, Finalizar, FinVuelta
<1>6. FinVuelta => pc' = "recorrer" \/ pc' = "marcar"
  BY DEF FinVuelta
<1> QED
  BY <1>2, <1>3, <1>4, <1>5, <1>6 DEF Next

LEMMA InvPaso == IInv /\ [Next]_vars => IInv'
<1> SUFFICES ASSUME IInv, [Next]_vars PROVE IInv'
  OBVIOUS
<1>0. TypeOK /\ TypeOK' /\ Filas = 1..eMax /\ Tenedores(asignados) \subseteq Filas
  BY Conjuntos, TipoPaso DEF IInv
<1>1. UNCHANGED <<pedidos, asignados, disponibles, batalla, Filas, eMax>>
  BY <1>0, EntradasFijas
<1>2. ASSUME UNCHANGED <<work, finish>>
      PROVE  Cuentas' /\ SinNada' /\ Atrapados' /\ Absueltos'
  BY <1>1, <1>2 DEF IInv, Cuentas, SinNada, Atrapados, Absueltos
<1>3. CASE UNCHANGED vars
  <2>1. UNCHANGED <<work, finish, flag, i, eDeadlock, pc>>
    BY <1>3 DEF vars
  <2> QED
    BY <1>0, <1>1, <1>2, <2>1 DEF IInv, Recorrido, SinBandera, Corte, Marcado
<1>4. CASE Finalizar
  BY <1>0, <1>4, PasoFinalizar, PasoMarcado DEF IInv, Next
<1>5. CASE Trabar
  <2>1. UNCHANGED <<work, finish>>
    BY <1>5 DEF Trabar
  <2> QED
    BY <1>0, <1>2, <1>5, <2>1, PasoTrabar, PasoMarcado DEF IInv, Next
<1>6. CASE Saltear
  <2>1. UNCHANGED <<work, finish, flag, pc>> /\ i' = i + 1 /\ finish[i] /\ pc = "recorrer" /\ i \in Filas
    BY <1>0, <1>6 DEF Saltear, TypeOK
  <2>2. ~flag => SinBandera'
    <3> SUFFICES ASSUME ~flag PROVE SinBandera'
      OBVIOUS
    <3>1. SinBandera
      BY <2>1 DEF IInv, Recorrido
    <3>2. \A r \in Filas : r < i + 1 => finish[r]
      BY <1>0, <2>1, <3>1, Conjuntos DEF SinBandera
    <3>3. \/ \A r \in Filas : finish[r]
          \/ \A r \in Tenedores(asignados) : r >= i + 1 => ~finish[r]
      BY <1>0, <2>1, <3>1, Conjuntos DEF SinBandera
    <3> QED
      BY <1>1, <2>1, <3>2, <3>3 DEF SinBandera
  <2>3. Recorrido'
    BY <1>1, <2>1, <2>2 DEF IInv, Recorrido, Corte
  <2> QED
    BY <1>0, <1>2, <1>6, <2>1, <2>3, PasoMarcado DEF IInv, Next
<1>7. CASE FinVuelta
  <2>1. UNCHANGED <<work, finish>> /\ i' = 1 /\ i > eMax /\ pc = "recorrer"
    BY <1>7 DEF FinVuelta
  <2>2. ~flag => \A r \in Filas : finish[r]
    BY <1>0, <2>1, Conjuntos DEF IInv, Recorrido, SinBandera, TypeOK
  <2>3. pc' = "recorrer" => flag' = flag
    BY <1>7 DEF FinVuelta
  <2>4. \A r \in Filas : ~(r < 1)
    BY <1>0, Conjuntos
  <2>5. Recorrido'
    BY <1>1, <2>1, <2>2, <2>3, <2>4 DEF IInv, Recorrido, SinBandera, Corte
  <2> QED
    BY <1>0, <1>2, <1>7, <2>1, <2>5, PasoMarcado DEF IInv, Next
<1>8. CASE Marcar \/ Retornar
  <2>1. UNCHANGED <<work, finish>> /\ pc # "recorrer" /\ pc' # "recorrer"
    BY <1>8 DEF Marcar, Retornar
  <2>2. Recorrido'
    BY <1>1, <2>1 DEF IInv, Recorrido, Corte
  <2> QED
    BY <1>0, <1>2, <1>8, <2>1, <2>2, PasoMarcado DEF IInv, Next
<1> QED
  BY <1>3, <1>4, <1>5, <1>6, <1>7, <1>8 DEF Next

\* The inductive invariant of the passes of deadlockDetect (lines 441-473).
THEOREM Invariante == Spec => []IInv
<1>1. Init => IInv
  BY InvInicial, TipoInicial DEF IInv
<1> QED
  BY <1>1, InvPaso, PTL DEF Spec

-----------------------------------------------------------------------------
\* deadlockDetect misses no deadlock, with any number of trainers and nests.
THEOREM NingunoOmitido == Spec => []Completitud
<1>1. IInv => Completitud
  <2> SUFFICES ASSUME IInv PROVE Completitud
    OBVIOUS
  <2>1. DOMAIN pedidos = Filas /\ Filas = 1..eMax /\ eMax \in Nat
    BY Conjuntos DEF IInv, Filas
  <2>2. \A r \in SinSalida(pedidos, asignados, disponibles) \cap Tenedores(asignados) :
          r \in Filas /\ ~finish[r]
    BY <2>1 DEF IInv, Atrapados, SinSalida
  <2>3. pc = "fin" => (flag <=> \E r \in Filas : ~finish[r])
    <3> SUFFICES ASSUME pc = "fin" PROVE flag <=> \E r \in Filas : ~finish[r]
      OBVIOUS
    <3>1. i > eMax /\ i \in Int /\ (flag <=> \E r \in Filas : r < i /\ ~finish[r])
      BY <2>1 DEF IInv, Marcado, TypeOK
    <3>2. \A r \in Filas : r < i
      BY <2>1, <3>1
    <3> QED
      BY <3>1, <3>2, Zenon
  <2> QED
    BY <2>2, <2>3 DEF Completitud
<1> QED
  BY <1>1, Invariante, PTL

\* Whoever is let off can finish, with any number of trainers and nests.
THEOREM AbsueltosTerminan == Spec => []Absueltos
<1>1. IInv => Absueltos
  BY DEF IInv
<1> QED
  BY <1>1, Invariante, PTL

\* The closed form that module Mapa uses for the whole function.
THEOREM FormaCerrada == Spec => []Resultado
<1>1. IInv => Resultado
  <2> SUFFICES ASSUME IInv, pc = "fin" PROVE Resultado
    BY DEF Resultado
  <2> DEFINE M == Marcados(pedidos, asignados, disponibles)
  <2>1. TypeOK /\ Filas = 1..eMax /\ eMax \in Nat /\ Tenedores(asignados) \subseteq Filas
    BY Conjuntos DEF IInv
  <2>2. ASSUME NEW k \in Filas, Insatisfecho(k, pedidos, asignados, disponibles)
        PROVE  k \in Tenedores(asignados) /\ ~finish[k]
    <3>1. k \in Tenedores(asignados) /\ disponibles[pedidos[k]] = 0
      BY <2>2 DEF Insatisfecho
    <3>2. \A j \in Poseedores(asignados, pedidos[k]) : j \in Int /\ k \in Int /\ ~(j < k)
      BY <2>1, <2>2, Conjuntos DEF Insatisfecho
    <3> QED
      BY <3>1, <3>2 DEF IInv, Absueltos
  <2>3. \A r \in Filas : ~finish[r] <=> r \in M
    <3>1. CASE \A r \in Filas : finish[r]
      BY <2>1, <2>2, <3>1 DEF Marcados, Filas
    <3>2. CASE \E k \in Filas : Corte(k)
      <4>1. PICK k \in Filas : Corte(k)
        BY <3>2
      <4>2. \A r \in Tenedores(asignados) : finish[r] <=> r < k
        BY <4>1 DEF Corte
      <4>3. ASSUME NEW r \in Filas, ~finish[r] PROVE r \in M
        <5>1. r \in Tenedores(asignados)
          BY <4>3 DEF IInv, SinNada
        <5>2. k <= r
          BY <2>1, <4>2, <4>3, <5>1
        <5> QED
          BY <4>1, <5>1, <5>2 DEF Marcados, Corte, Filas
      <4>4. ASSUME NEW r \in Filas, r \in M PROVE ~finish[r]
        <5>1. r \in Tenedores(asignados)
          BY <4>4 DEF Marcados
        <5>2. PICK h \in Filas : h <= r /\ Insatisfecho(h, pedidos, asignados, disponibles)
          BY <4>4 DEF Marcados, Filas
        <5>3. h \in Tenedores(asignados) /\ ~finish[h]
          BY <2>2, <5>2
        <5> QED
          BY <2>1, <4>2, <5>1, <5>2, <5>3
      <4> QED
        BY <4>3, <4>4
    <3> QED
      BY <3>1, <3>2 DEF IInv, Recorrido
  <2>4. M \subseteq Filas
    BY <2>1 DEF Marcados
  <2>5. i > eMax /\ i \in Int
    BY <2>1 DEF IInv, Marcado, TypeOK
  <2>6. \A r \in Filas : r < i
    BY <2>1, <2>5
  <2>7. flag = (M # {})
    <3>1. flag <=> M # {}
      BY <2>3, <2>4, <2>6 DEF IInv, Marcado
    <3>2. flag \in BOOLEAN
      BY <2>1 DEF TypeOK
    <3> QED
      BY <3>1, <3>2
  <2>8. {eDeadlock[p] : p \in DOMAIN eDeadlock} = (IF batalla THEN M ELSE {})
    <3>1. \A p \in DOMAIN eDeadlock : eDeadlock[p] \in Filas
      BY <2>1 DEF TypeOK
    <3>2. CASE batalla
      BY <2>3, <2>4, <2>6, <3>1, <3>2 DEF IInv, Marcado
    <3>3. CASE ~batalla
      <4>1. DOMAIN eDeadlock = {}
        BY <3>3 DEF IInv, Marcado
      <4> QED
        BY <3>3, <4>1
    <3> QED
      BY <3>2, <3>3
  <2>9. \A p, q \in DOMAIN eDeadlock : p < q => eDeadlock[p] < eDeadlock[q]
    BY DEF IInv, Marcado
  <2> QED
    BY <2>7, <2>8, <2>9 DEF Resultado
<1> QED
  BY <1>1, Invariante, PTL
=============================================================================
