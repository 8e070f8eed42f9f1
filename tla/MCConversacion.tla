---- MODULE MCConversacion ----
(* Conversacion with two mounts: one with two threads that ask for anything but *)
(* truncate, and that may be killed, and one that truncates the file the other   *)
(* reads and writes up to its third block.  The file begins with two or three.   *)
EXTENDS Conversacion, TLC
CONSTANTS m1, m2, h1, h2, h3

DeCada == h1 :> m1 @@ h2 :> m1 @@ h3 :> m2
Primero == m1 :> h1 @@ m2 :> h3
Pedidas == m1 :> {"simple", "statfs", "crear", "lista", "leer", "escribir"} @@ m2 :> {"truncar"}
Pedazos == {tr \in [desde : 0..2, cant : 1..3] : tr.desde + tr.cant = 3}
====
