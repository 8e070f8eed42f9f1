---- MODULE MCMapa ----
(* Mapa on small maps.  The trainers of each run and their objectives: *)
EXTENDS Mapa
CONSTANTS t1, t2, t3, t4, n1, n2

\* two nests of one pokemon, one step apart
DosNidos == n1 :> 1 @@ n2 :> 1
DosLugares == n1 :> 1 @@ n2 :> 2

\* two trainers that want the same pokemon in opposite order
Cruzados == t1 :> <<n1, n2>> @@ t2 :> <<n2, n1>>
\* and a third one in their way
Tres == t1 :> <<n1, n2>> @@ t2 :> <<n2, n1>> @@ t3 :> <<n1>>
\* two that collect, and two more that come for the pokemon they fight over
DosYUno == n1 :> 2 @@ n2 :> 1
Cuatro == t1 :> <<n1, n2, n1>> @@ t2 :> <<n1, n2, n1>> @@ t3 :> <<n2>> @@ t4 :> <<n2>>
\* which of them are alike
Iguales == {f \in Permutations(Entrenadores) : \A t \in Entrenadores : Cuatro[f[t]] = Cuatro[t]}
\* the first two, one of which also asks for a nest the map lacks
Extraviado == t1 :> <<n1, n2, Desconocido>> @@ t2 :> <<n2, n1>>

ConBatalla == {[algoritmo |-> "RR", batalla |-> TRUE]}
CambiaTodo == [algoritmo : {"RR", "SRDF"}, batalla : BOOLEAN]
SinBatalla == {[algoritmo |-> a, batalla |-> FALSE] : a \in {"RR", "SRDF"}}
====
