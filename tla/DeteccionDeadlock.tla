------------------------- MODULE DeteccionDeadlock -------------------------
(***************************************************************************)
(* deadlockDetect (mapa.c:438-497), one action per iteration of its loops. *)
(* The thread deadlock calls it with mutexBlocked held, after              *)
(* llenarEstructuras has filled the three tables, and only with two or     *)
(* more blocked trainers (mapa.c:569); the tables do not change meanwhile, *)
(* so the behaviours start from every table within the bounds.             *)
(* Rows are counted from 1 (from 0 in the code).                           *)
(***************************************************************************)
EXTENDS Interbloqueo, Sequences

CONSTANTS
  PokeNests,         \* the nests of the map (pokeNestArray)
  MaxEntrenadores,   \* bound: rows of the tables (100 in the code)
  MaxPokemons        \* bound: pokemon of one nest (a char cell: 127)

ASSUME SupuestoCotas ==
  /\ MaxEntrenadores \in Nat /\ MaxEntrenadores >= 2
  /\ MaxPokemons \in 0..127

VARIABLES
  pedidos,     \* matPedidos: the nest each row asks for
  asignados,   \* matAsignados
  disponibles, \* vecDisponibles
  batalla,     \* mapaMetadata->batalla
  work, finish, flag, again, i,   \* the locals of deadlockDetect
  eDeadlock,   \* the rows appended to eDeadlock, each of them sent a "D"
  pc

entradas == <<pedidos, asignados, disponibles, batalla>>
vars == <<pedidos, asignados, disponibles, batalla,
          work, finish, flag, again, i, eDeadlock, pc>>

Filas == DOMAIN pedidos
eMax  == Len(pedidos)

Tablas(e) ==
  /\ pedidos \in [1..e -> PokeNests]
  /\ asignados \in [1..e -> [PokeNests -> 0..MaxPokemons]]

Init ==
  /\ \E e \in 2..MaxEntrenadores : Tablas(e)
  /\ disponibles \in [PokeNests -> 0..MaxPokemons]
  /\ batalla \in BOOLEAN
  /\ work = disponibles
  /\ finish = [r \in Filas |-> r \notin Tenedores(asignados)]
  /\ flag = FALSE
  /\ again = FALSE
  /\ i = 1
  /\ eDeadlock = <<>>
  /\ pc = "recorrer"

-----------------------------------------------------------------------------
\* Wrong on purpose: off by one, a nest with nothing left is enough.
FaltaNunca(r) == work[pedidos[r]] < 0

\* matPedidos[i][j] > work[j] for some j
Falta(r) == work[pedidos[r]] < 1

\* lines 459-471: the row is already finished
Saltear ==
  /\ pc = "recorrer" /\ i <= eMax
  /\ finish[i]
  /\ i' = i + 1
  /\ UNCHANGED <<entradas, work, finish, flag, again, eDeadlock, pc>>

\* Wrong on purpose: the failure of the row is forgotten.
TrabarSinBandera ==
  /\ pc = "recorrer" /\ i <= eMax
  /\ ~finish[i]
  /\ flag \/ Falta(i)
  /\ flag' = FALSE
  /\ i' = i + 1
  /\ UNCHANGED <<entradas, work, finish, again, eDeadlock, pc>>

\* the row cannot be served, or an earlier one could not: flag stays raised
Trabar ==
  /\ pc = "recorrer" /\ i <= eMax
  /\ ~finish[i]
  /\ flag \/ Falta(i)
  /\ flag' = TRUE
  /\ i' = i + 1
  /\ UNCHANGED <<entradas, work, finish, again, eDeadlock, pc>>

\* Wrong on purpose: the row is finished without looking at its request.
FinalizarSinMirar ==
  /\ pc = "recorrer" /\ i <= eMax
  /\ ~finish[i]
  /\ ~flag
  /\ work' = [n \in PokeNests |-> work[n] + asignados[i][n]]
  /\ finish' = [finish EXCEPT ![i] = TRUE]
  /\ again' = TRUE
  /\ i' = i + 1
  /\ UNCHANGED <<entradas, flag, eDeadlock, pc>>

\* the row can be served: it gives back all it holds
Finalizar ==
  /\ pc = "recorrer" /\ i <= eMax
  /\ ~finish[i]
  /\ ~flag /\ ~Falta(i)
  /\ work' = [n \in PokeNests |-> work[n] + asignados[i][n]]
  /\ finish' = [finish EXCEPT ![i] = TRUE]
  /\ again' = TRUE
  /\ i' = i + 1
  /\ UNCHANGED <<entradas, flag, eDeadlock, pc>>

\* Wrong on purpose: again is not cleared.
FinVueltaSinReset ==
  /\ pc = "recorrer" /\ i > eMax
  /\ i' = 1
  /\ again' = again
  /\ IF again THEN UNCHANGED <<flag, pc>>
              ELSE flag' = FALSE /\ pc' = "marcar"
  /\ UNCHANGED <<entradas, work, finish, eDeadlock>>

\* while (again): another pass, or on to the marking loop, which reuses flag
FinVuelta ==
  /\ pc = "recorrer" /\ i > eMax
  /\ i' = 1
  /\ again' = FALSE
  /\ IF again THEN UNCHANGED <<flag, pc>>
              ELSE flag' = FALSE /\ pc' = "marcar"
  /\ UNCHANGED <<entradas, work, finish, eDeadlock>>

Marcar ==
  /\ pc = "marcar" /\ i <= eMax
  /\ i' = i + 1
  /\ flag' = (flag \/ ~finish[i])
  /\ eDeadlock' = IF ~finish[i] /\ batalla THEN Append(eDeadlock, i) ELSE eDeadlock
  /\ UNCHANGED <<entradas, work, finish, again, pc>>

\* return flag
Retornar ==
  /\ pc = "marcar" /\ i > eMax
  /\ pc' = "fin"
  /\ UNCHANGED <<entradas, work, finish, flag, again, i, eDeadlock>>

Next == Saltear \/ Trabar \/ Finalizar \/ FinVuelta \/ Marcar \/ Retornar

Spec == Init /\ [][Next]_vars
FairSpec == Spec /\ WF_vars(Next)

-----------------------------------------------------------------------------
\* The variables range over the values the C locals can take.
TypeOK ==
  /\ pedidos \in Seq(PokeNests) /\ eMax >= 2
  /\ asignados \in [Filas -> [PokeNests -> Nat]]
  /\ disponibles \in [PokeNests -> Nat]
  /\ batalla \in BOOLEAN
  /\ work \in [PokeNests -> Nat]
  /\ finish \in [Filas -> BOOLEAN]
  /\ flag \in BOOLEAN /\ again \in BOOLEAN
  /\ i \in 1 .. eMax + 1
  /\ eDeadlock \in Seq(Filas)
  /\ pc \in {"recorrer", "marcar", "fin"}

\* No deadlock is missed: a set of trainers that wait for one another never
\* gets one of its holders finished, whatever the order of the rows, so the
\* marking loop reaches all of them (mapa.c:454-473, 477-490).
Completitud ==
  /\ \A r \in SinSalida(pedidos, asignados, disponibles) \cap Tenedores(asignados) :
       ~finish[r]
  /\ pc = "fin" /\ SinSalida(pedidos, asignados, disponibles) \cap Tenedores(asignados) # {}
       => flag

\* Who is let off can really leave: every holder that ends unmarked finds its
\* pokemon in the nest or gets it from an unmarked trainer of an earlier row
\* (mapa.c:461-470), so the unmarked trainers can finish in the order of eBlocked.
Absueltos ==
  \A r \in Tenedores(asignados) :
    finish[r] =>
      \/ disponibles[pedidos[r]] > 0
      \/ \E j \in Poseedores(asignados, pedidos[r]) : j < r /\ finish[j]

\* The whole function in one line: it returns 1 exactly when some row is
\* unsatisfied, and with the battle mode on it has then put in eDeadlock the rows
\* of Marcados, in the order of eBlocked and once each (mapa.c:475-496).
Resultado ==
  pc = "fin" =>
    LET M == Marcados(pedidos, asignados, disponibles) IN
    /\ flag = (M # {})
    /\ {eDeadlock[p] : p \in DOMAIN eDeadlock} = (IF batalla THEN M ELSE {})
    /\ \A p, q \in DOMAIN eDeadlock : p < q => eDeadlock[p] < eDeadlock[q]

\* The do-while of lines 456-473 ends and the function returns, so the thread
\* gives mutexBlocked back.
Termina == <>(pc = "fin")
=============================================================================
