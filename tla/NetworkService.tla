--------------------------- MODULE NetworkService ---------------------------
(* What neural/network.h promises to the callers of a NetworkComputation: a caller
   fills a batch, calls ComputeBlocking and, once that returns, reads for every
   sample the evaluation of the input it added at that index.  Only the destructor
   of the network lets a call return without results.  The multiplexing and the
   demultiplexing network are shown to implement this module. *)
EXTENDS NetworkCallers

\* No evaluation can be read.
Nothing == <<>>

-----------------------------------------------------------------------------
VARIABLES
    phase,      \* where the computation of each caller is
    size,       \* GetBatchSize of it
    answer,     \* the inputs whose evaluations its samples show
    open        \* the destructor of the network has not begun

serviceVars == <<phase, size, answer, open>>

ServiceInit ==
    /\ phase = [c \in Callers |-> "idle"]
    /\ size = [c \in Callers |-> 0]
    /\ answer = [c \in Callers |-> Nothing]
    /\ open = TRUE

\* NewComputation, n times AddInput and the call of ComputeBlocking.
Submit(c, n) ==
    /\ open
    /\ phase[c] = "idle"
    /\ phase' = [phase EXCEPT ![c] = "waiting"]
    /\ size' = [size EXCEPT ![c] = n]
    /\ UNCHANGED <<answer, open>>

\* All inputs of c are evaluated.
Serve(c) ==
    /\ phase[c] = "waiting"
    /\ phase' = [phase EXCEPT ![c] = "served"]
    /\ answer' = [answer EXCEPT ![c] = Inputs(c, size[c])]
    /\ UNCHANGED <<size, open>>

\* The destructor lets the call return with nothing to read.
Cancel(c) ==
    /\ ~open
    /\ phase[c] = "waiting"
    /\ phase' = [phase EXCEPT ![c] = "cancelled"]
    /\ UNCHANGED <<size, answer, open>>

\* ComputeBlocking returns; the caller reads and destroys the computation.
Return(c) ==
    /\ phase[c] \in {"served", "cancelled"}
    /\ phase' = [phase EXCEPT ![c] = "idle"]
    /\ size' = [size EXCEPT ![c] = 0]
    /\ answer' = [answer EXCEPT ![c] = Nothing]
    /\ UNCHANGED open

Close ==
    /\ open
    /\ open' = FALSE
    /\ UNCHANGED <<phase, size, answer>>

ServiceNext ==
    \/ \E c \in Callers :
          \/ \E n \in 0..MaxBatch : Submit(c, n)
          \/ Serve(c) \/ Cancel(c) \/ Return(c)
    \/ Close

ServiceSpec == ServiceInit /\ [][ServiceNext]_serviceVars
=============================================================================
