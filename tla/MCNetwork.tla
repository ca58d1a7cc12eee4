----------------------------- MODULE MCNetwork ------------------------------
(* The ways in which search workers get evaluations, side by side: a behaviour is
   one of the multiplexing network, of the demultiplexing network or of the
   computation that goes through the cache; the others are not there. *)
EXTENDS NetworkMux, NetworkDemux, CachingComputation

VARIABLE system

MCVars == <<system, muxVars, dmxVars, ccVars>>

\* A network that nobody uses and whose threads do not run.
MuxOff ==
    /\ muxQueue = <<>> /\ muxAbort = FALSE /\ muxAsleep = {} /\ muxDestructor = "gone"
    /\ muxCaller = [c \in Callers |-> "idle"]
    /\ muxSize = [c \in Callers |-> 0]
    /\ muxReady = [c \in Callers |-> FALSE]
    /\ muxIdx = [c \in Callers |-> 0]
    /\ muxOutputs = [c \in Callers |-> <<>>]
    /\ muxWorker = [w \in MuxWorkers |-> "done"]
    /\ muxChildren = [w \in MuxWorkers |-> <<>>]
    /\ muxParent = [w \in MuxWorkers |-> <<>>]

DmxOff ==
    /\ dmxQueue = <<>> /\ dmxAbort = FALSE /\ dmxAsleep = {} /\ dmxDestructor = "gone"
    /\ dmxCaller = [c \in Callers |-> "idle"]
    /\ dmxSize = [c \in Callers |-> 0]
    /\ dmxPartial = [c \in Callers |-> 0]
    /\ dmxLeft = [c \in Callers |-> 0]
    /\ dmxToQueue = [c \in Callers |-> 0]
    /\ dmxParts = [c \in Callers |-> <<>>]
    /\ dmxWorker = [w \in DmxWorkers |-> "done"]
    /\ dmxItem = [w \in DmxWorkers |-> <<>>]
    /\ dmxMinSplit = 0

MCInit ==
    \/ system = "mux" /\ MuxInit /\ DmxOff /\ CCInit /\ OutOfOrderEval
    \/ system = "demux" /\ MuxOff /\ DmxInit /\ CCInit /\ OutOfOrderEval
    \/ system = "cache" /\ MuxOff /\ DmxOff /\ CCInit

MCNext ==
    /\ UNCHANGED system
    /\ \/ system = "mux" /\ MuxNext /\ UNCHANGED <<dmxVars, ccVars>>
       \/ system = "demux" /\ DmxNext /\ UNCHANGED <<muxVars, ccVars>>
       \/ system = "cache" /\ CCNext /\ UNCHANGED <<muxVars, dmxVars>>

MCSpec == MCInit /\ [][MCNext]_MCVars /\ MuxFairness /\ DmxFairness

\* Every ComputeBlocking of either network returns, also when the network is destroyed
\* meanwhile, and so does the join of ~MuxingNetwork.
NetworkCallsReturn == MuxComputeReturns /\ MuxDestructorReturns /\ DmxComputeReturns
=============================================================================
