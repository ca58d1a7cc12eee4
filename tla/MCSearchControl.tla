-------------------------- MODULE MCSearchControl --------------------------
(* SearchControl on small instances. *)
EXTENDS SearchControl

CONSTANTS w1, w2

TwoWorkers == {w1, w2}

\* A fresh root, and one with visits from earlier searches.
FreshOrReused == {0, 2}
=============================================================================
