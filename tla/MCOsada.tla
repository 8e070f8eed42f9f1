---- MODULE MCOsada ----
\* Osada on small images.
EXTENDS Osada
CONSTANTS h1, h2

\* one client: two names in the root and the same two in the directory a
UnCliente == h1 :> {<<"a">>, <<"b">>, <<"a", "b">>}
\* two clients, each with its own file
Separados == h1 :> {<<"a">>} @@ h2 :> {<<"b">>}
\* two clients that share a file
Compartido == h1 :> {<<"a">>} @@ h2 :> {<<"a">>}
====
