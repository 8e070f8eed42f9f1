------------------------------ MODULE Recursos ------------------------------
(***************************************************************************)
(* What the map promises about its pokemon, whatever its threads do: a     *)
(* trainer asks for one pokemon at a time, gets it only from a nest that   *)
(* has one and only while it waits for it, keeps all it got until it       *)
(* leaves, and when it leaves everything goes back to the nests.  Mapa     *)
(* implements this specification.                                          *)
(***************************************************************************)
EXTENDS Integers

CONSTANTS Entrenadores, PokeNests, Cantidad, Ninguno

VARIABLES
  libres,   \* pokemon in each nest
  tiene,    \* pokemon of each nest in the hands of each trainer
  pide,     \* the nest a waiting trainer asks for
  juega     \* the trainers that are playing

vars == <<libres, tiene, pide, juega>>

Init ==
  /\ libres = Cantidad
  /\ tiene = [t \in Entrenadores |-> [n \in PokeNests |-> 0]]
  /\ pide = [t \in Entrenadores |-> Ninguno]
  /\ juega = {}

Entrar(t) ==
  /\ t \notin juega
  /\ tiene[t] = [n \in PokeNests |-> 0]
  /\ juega' = juega \cup {t}
  /\ UNCHANGED <<libres, tiene, pide>>

Pedir(t, n) ==
  /\ t \in juega /\ pide[t] = Ninguno
  /\ pide' = [pide EXCEPT ![t] = n]
  /\ UNCHANGED <<libres, tiene, juega>>

Otorgar(t) ==
  /\ t \in juega /\ pide[t] # Ninguno
  /\ libres[pide[t]] > 0
  /\ libres' = [libres EXCEPT ![pide[t]] = @ - 1]
  /\ tiene' = [tiene EXCEPT ![t][pide[t]] = @ + 1]
  /\ pide' = [pide EXCEPT ![t] = Ninguno]
  /\ UNCHANGED juega

\* A trainer stops playing and gives everything back at once; one that leaves
\* while it does not wait may also do it little by little.
Salir(t) ==
  /\ t \in juega
  /\ juega' = juega \ {t}
  /\ pide' = [pide EXCEPT ![t] = Ninguno]
  /\ tiene' = [tiene EXCEPT ![t] = [n \in PokeNests |-> 0]]
  /\ libres' = [n \in PokeNests |-> libres[n] + tiene[t][n]]

DejarDeJugar(t) ==
  /\ t \in juega /\ pide[t] = Ninguno
  /\ juega' = juega \ {t}
  /\ UNCHANGED <<libres, tiene, pide>>

Devolver(t, n) ==
  /\ t \notin juega
  /\ tiene[t][n] > 0
  /\ tiene' = [tiene EXCEPT ![t][n] = @ - 1]
  /\ libres' = [libres EXCEPT ![n] = @ + 1]
  /\ UNCHANGED <<pide, juega>>

Next ==
  \E t \in Entrenadores :
    \/ Entrar(t) \/ Otorgar(t) \/ Salir(t) \/ DejarDeJugar(t)
    \/ \E n \in PokeNests : Pedir(t, n) \/ Devolver(t, n)

Spec == Init /\ [][Next]_vars
=============================================================================
