------------------------------ MODULE MCKernels -------------------------------
(* Cases for the kernels. *)
EXTENDS Kernels

SeCase(C, K) == [kind |-> "se", C |-> C, K |-> K]

\* Unit boards and filters; tensors in both orders; squeeze-and-excitation whose first
\* layer has as many outputs as one warp has threads, or fewer.
MCKernels ==
  {[kind |-> "winograd", y |-> y, x |-> x, i |-> i, j |-> j] :
     y \in 1..8, x \in 1..8, i \in 1..3, j \in 1..3}
  \cup {[kind |-> "block", N |-> n, C |-> 2, se |-> b, last |-> b] : n \in 1..2, b \in BOOLEAN}
  \cup {[kind |-> "layout", N |-> n, C |-> c, pad |-> p] : n \in {1, 3}, c \in {4, 8}, p \in {0, 2}}
  \cup {SeCase(c, k) : c \in {4, 6}, k \in {1, 2}}

\* K = C = 64 and K = 64, C = 128 with warps of 32, scaled down.
WideSe == {SeCase(c, 4) : c \in {4, 8}}

\* The case has been computed.
KnComputed ==
  CASE knCase.kind = "none" -> FALSE
    [] knCase.kind = "winograd" -> "out4" \in DOMAIN knShared
    [] knCase.kind = "block" -> knShared # <<>> /\ knShared.stage = "done"
    [] knCase.kind = "layout" -> TRUE
    [] knCase.kind = "se" -> \A w \in DOMAIN knWarps : knWarps[w].pc = "done"

KnSpec == KnInit /\ [][KnNext]_knVars
================================================================================
