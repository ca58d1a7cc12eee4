----------------------------- MODULE MCLruCache -----------------------------
(* Small instances of LruCache. *)
EXTENDS LruCache, TLC

\* Capacity 0 gives one bucket, 1 two, 2 three and 3 four.  Keys 1 and 4 share a
\* bucket of three, keys 1 and 5 one of four.
MCHash == [k \in Keys |-> k]

MCSymmetry == Permutations(Threads) \cup Permutations(Locks) \cup Permutations(Items)
=============================================================================
