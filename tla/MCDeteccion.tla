---- MODULE MCDeteccion ----
\* DeteccionDeadlock on small tables; every table within the bounds is an
\* initial state.
EXTENDS DeteccionDeadlock
====
