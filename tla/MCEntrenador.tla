---- MODULE MCEntrenador ----
(* Entrenador on a short travel sheet: the second map has one objective, the *)
(* first has two.                                                            *)
EXTENDS Entrenador, TLC

DosMapas == 1 :> 2 @@ 2 :> 1
====
