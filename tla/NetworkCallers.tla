--------------------------- MODULE NetworkCallers ---------------------------
(* The callers of a network and what they add to their computations. *)
EXTENDS Integers, Sequences

CONSTANTS
    Callers,    \* threads that own one computation each at a time
    MaxBatch    \* most inputs of a computation

ASSUME CallersAssumption == MaxBatch \in Nat

\* The inputs that c has added to its computation when it holds n of them.
Inputs(c, n) == [i \in 1..n |-> <<c, i>>]
=============================================================================
