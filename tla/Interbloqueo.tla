---------------------------- MODULE Interbloqueo ----------------------------
(***************************************************************************)
(* The data of the deadlock check of mapa.c and what it computes, as plain *)
(* operators.  A table is given by                                         *)
(*   ped  : the nest each blocked trainer asks for, by row of eBlocked     *)
(*   asig : asig[i][n], the pokemon of nest n that the trainer of row i    *)
(*          holds (matAsignados)                                           *)
(*   disp : disp[n], the pokemon waiting in nest n (vecDisponibles)        *)
(* Every blocked trainer asks for exactly one nest (its obj), so the       *)
(* matrix matPedidos is the function ped.                                  *)
(***************************************************************************)
EXTENDS Integers

\* The rows that hold something: deadlockDetect gives the others up at once.
Tenedores(asig) ==
  {i \in DOMAIN asig : \E n \in DOMAIN asig[i] : asig[i][n] > 0}

\* The rows that hold a pokemon of nest n.
Poseedores(asig, n) == {i \in DOMAIN asig : asig[i][n] > 0}

(***************************************************************************)
(* The reference notion, independent of the code: the trainers of D wait   *)
(* for one another for ever when each asks for an empty nest all of whose  *)
(* holders are in D.  SinSalida is the largest such set of rows.           *)
(***************************************************************************)
BloqueoMutuo(D, ped, asig, disp) ==
  \A i \in D : disp[ped[i]] = 0 /\ Poseedores(asig, ped[i]) \subseteq D

SinSalida(ped, asig, disp) ==
  UNION {D \in SUBSET DOMAIN ped : BloqueoMutuo(D, ped, asig, disp)}

(***************************************************************************)
(* What deadlockDetect marks.  A row is unsatisfied when its nest is empty *)
(* and no earlier row can give one back; the flag of line 441 is never     *)
(* reset, so from the first unsatisfied row on every row that holds        *)
(* something is marked.                                                    *)
(***************************************************************************)
Insatisfecho(k, ped, asig, disp) ==
  /\ k \in Tenedores(asig)
  /\ disp[ped[k]] = 0
  /\ \A j \in Poseedores(asig, ped[k]) : j >= k

Marcados(ped, asig, disp) ==
  {i \in Tenedores(asig) :
     \E k \in DOMAIN ped : k <= i /\ Insatisfecho(k, ped, asig, disp)}
=============================================================================
