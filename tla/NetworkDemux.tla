---------------------------- MODULE NetworkDemux ----------------------------
(* DemuxingNetwork and DemuxingComputation (neural/network_demux.cc): a batch is
   cut into parts, and every part is computed by a worker on a network of its
   choice.  Waiting is modelled as in NetworkMux.  The caller holds the mutex of
   its computation from the countdown's start until it waits ("enqueue").
   Which network counter_ picks does not matter for the results: they hold the
   same weights, and the index is in range for every (also uninitialized) value
   of counter_. *)
EXTENDS SequencesExt, NetworkCallers

CONSTANTS
    DmxWorkers,     \* threads of all backends
    DmxMinSplits    \* values of the option minimum-split-size

ASSUME DmxAssumption ==
    DmxMinSplits \subseteq Nat /\ IsFiniteSet(DmxWorkers) /\ DmxWorkers # {}

VARIABLES
    dmxQueue,       \* queue_: a computation occurs once for each part
    dmxAbort,       \* abort_
    dmxAsleep,      \* workers that sleep on cv_
    dmxCaller,      \* where each caller is
    dmxSize,        \* planes_.size()
    dmxPartial,     \* partial_size_
    dmxLeft,        \* dataready_
    dmxToQueue,     \* splits still to enqueue
    dmxParts,       \* parents_: inputs of each and whether it is computed
    dmxWorker,      \* where each worker is
    dmxItem,        \* to_notify and the index of its part, of each worker
    dmxMinSplit,    \* minimum_split_size_
    dmxDestructor   \* where the destructor of the network is

dmxVars == <<dmxQueue, dmxAbort, dmxAsleep, dmxCaller, dmxSize, dmxPartial, dmxLeft,
             dmxToQueue, dmxParts, dmxWorker, dmxItem, dmxMinSplit, dmxDestructor>>
dmxCallerVars == <<dmxCaller, dmxSize, dmxPartial, dmxLeft, dmxToQueue, dmxParts>>
dmxWorkerVars == <<dmxWorker, dmxItem>>

DmxInit ==
    /\ dmxQueue = <<>>
    /\ dmxAbort = FALSE
    /\ dmxAsleep = {}
    /\ dmxCaller = [c \in Callers |-> "idle"]
    /\ dmxSize = [c \in Callers |-> 0]
    /\ dmxPartial = [c \in Callers |-> 0]
    /\ dmxLeft = [c \in Callers |-> 0]
    /\ dmxToQueue = [c \in Callers |-> 0]
    /\ dmxParts = [c \in Callers |-> <<>>]
    /\ dmxWorker = [w \in DmxWorkers |-> "loop"]
    /\ dmxItem = [w \in DmxWorkers |-> <<>>]
    /\ dmxMinSplit \in DmxMinSplits
    /\ dmxDestructor = "none"

\* cv_.notify_one
DmxNotifyOne ==
    IF dmxAsleep = {}
    THEN dmxAsleep' = {}
    ELSE \E w \in dmxAsleep : dmxAsleep' = dmxAsleep \ {w}

-----------------------------------------------------------------------------
(* Callers *)

\* NewComputation, n times AddInput, and ComputeBlocking is called.
DmxSubmit(c, n) ==
    /\ dmxCaller[c] = "idle"
    /\ dmxDestructor = "none"
    /\ dmxCaller' = [dmxCaller EXCEPT ![c] = "split"]
    /\ dmxSize' = [dmxSize EXCEPT ![c] = n]
    /\ UNCHANGED <<dmxQueue, dmxAbort, dmxAsleep, dmxPartial, dmxLeft, dmxToQueue, dmxParts,
                   dmxWorkerVars, dmxDestructor>>

DivideUp(a, b) == (a + b - 1) \div b

\* partial_size_ for a batch of n.
DmxPartialSize(n) ==
    LET even == DivideUp(n, Cardinality(DmxWorkers))
    IN IF even < dmxMinSplit
       THEN IF n < dmxMinSplit THEN n ELSE dmxMinSplit
       ELSE even

\* The size of the parts; an empty batch returns at once.
DmxSplit(c) ==
    /\ dmxCaller[c] = "split"
    /\ \/ /\ dmxSize[c] = 0
          /\ dmxCaller' = [dmxCaller EXCEPT ![c] = "read"]
          /\ UNCHANGED <<dmxPartial, dmxLeft, dmxToQueue>>
       \/ /\ dmxSize[c] # 0
          /\ LET partial == DmxPartialSize(dmxSize[c])
                 splits == DivideUp(dmxSize[c], partial)
             IN /\ dmxPartial' = [dmxPartial EXCEPT ![c] = partial]
                /\ dmxLeft' = [dmxLeft EXCEPT ![c] = splits]
                /\ dmxToQueue' = [dmxToQueue EXCEPT ![c] = splits]
          /\ dmxCaller' = [dmxCaller EXCEPT ![c] = "enqueue"]
    /\ UNCHANGED <<dmxQueue, dmxAbort, dmxAsleep, dmxSize, dmxParts, dmxWorkerVars,
                   dmxDestructor>>

\* One round of the loop that enqueues the parts; after the last one the wait
\* releases the mutex of the computation.
DmxEnqueue(c) ==
    /\ dmxCaller[c] = "enqueue"
    /\ dmxQueue' = Append(dmxQueue, c)
    /\ DmxNotifyOne
    /\ dmxToQueue' = [dmxToQueue EXCEPT ![c] = @ - 1]
    /\ dmxCaller' = [dmxCaller EXCEPT ![c] = IF dmxToQueue[c] = 1 THEN "wait" ELSE @]
    /\ UNCHANGED <<dmxAbort, dmxSize, dmxPartial, dmxLeft, dmxParts, dmxWorkerVars,
                   dmxDestructor>>

\* A mutant of DmxDataReady: one part is left.
DmxDataAlmostReady(c) == dmxLeft[c] <= 1

\* The predicate of the wait.
DmxDataReady(c) == dmxLeft[c] = 0

\* dataready_cv_.wait returns.
DmxReturn(c) ==
    /\ dmxCaller[c] = "wait"
    /\ DmxDataReady(c)
    /\ dmxCaller' = [dmxCaller EXCEPT ![c] = "read"]
    /\ UNCHANGED <<dmxQueue, dmxAbort, dmxAsleep, dmxSize, dmxPartial, dmxLeft, dmxToQueue,
                   dmxParts, dmxWorkerVars, dmxDestructor>>

\* The caller has read all samples and destroys the computation.
DmxRelease(c) ==
    /\ dmxCaller[c] = "read"
    /\ dmxCaller' = [dmxCaller EXCEPT ![c] = "idle"]
    /\ dmxSize' = [dmxSize EXCEPT ![c] = 0]
    /\ dmxPartial' = [dmxPartial EXCEPT ![c] = 0]
    /\ dmxLeft' = [dmxLeft EXCEPT ![c] = 0]
    /\ dmxParts' = [dmxParts EXCEPT ![c] = <<>>]
    /\ UNCHANGED <<dmxQueue, dmxAbort, dmxAsleep, dmxToQueue, dmxWorkerVars, dmxDestructor>>

\* GetQVal, GetDVal, GetMVal and GetPVal of sample i (from 0).
DmxGetVal(c, i) ==
    dmxParts[c][(i \div dmxPartial[c]) + 1].inputs[(i % dmxPartial[c]) + 1]

\* Those calls find a part that has been computed.
DmxReadable(c, i) ==
    /\ (i \div dmxPartial[c]) + 1 \in DOMAIN dmxParts[c]
    /\ dmxParts[c][(i \div dmxPartial[c]) + 1].computed

-----------------------------------------------------------------------------
(* Workers *)

DmxAwake(w) == dmxWorker[w] \in {"loop", "wait"} /\ w \notin dmxAsleep

DmxGoToSleep(w) ==
    /\ DmxAwake(w)
    /\ ~dmxAbort
    /\ dmxQueue = <<>>
    /\ dmxWorker' = [dmxWorker EXCEPT ![w] = "wait"]
    /\ dmxAsleep' = dmxAsleep \cup {w}
    /\ UNCHANGED <<dmxQueue, dmxAbort, dmxCallerVars, dmxItem, dmxDestructor>>

DmxLeave(w) ==
    /\ DmxAwake(w)
    /\ dmxAbort
    /\ dmxWorker' = [dmxWorker EXCEPT ![w] = "done"]
    /\ UNCHANGED <<dmxQueue, dmxAbort, dmxAsleep, dmxCallerVars, dmxItem, dmxDestructor>>

\* The wait ends and the lock is dropped.
DmxStart(w) ==
    /\ DmxAwake(w)
    /\ ~dmxAbort
    /\ dmxQueue # <<>>
    /\ dmxWorker' = [dmxWorker EXCEPT ![w] = "take"]
    /\ UNCHANGED <<dmxQueue, dmxAbort, dmxAsleep, dmxCallerVars, dmxItem, dmxDestructor>>

\* The inner loop, which does not look at abort_, takes the next part.
DmxTake(w) ==
    /\ dmxWorker[w] = "take"
    /\ \/ /\ dmxQueue = <<>>
          /\ dmxWorker' = [dmxWorker EXCEPT ![w] = "loop"]
          /\ UNCHANGED <<dmxQueue, dmxItem>>
       \/ /\ dmxQueue # <<>>
          /\ dmxItem' = [dmxItem EXCEPT ![w] = <<Head(dmxQueue), 0>>]
          /\ dmxQueue' = Tail(dmxQueue)
          /\ dmxWorker' = [dmxWorker EXCEPT ![w] = "add"]
    /\ UNCHANGED <<dmxAbort, dmxAsleep, dmxCallerVars, dmxDestructor>>

\* The inputs of the next part.
DmxNextInputs(c) ==
    LET cur_idx == Len(dmxParts[c]) * dmxPartial[c]
        end == IF dmxSize[c] < cur_idx + dmxPartial[c]
               THEN dmxSize[c] ELSE cur_idx + dmxPartial[c]
    IN SubSeq(Inputs(c, dmxSize[c]), cur_idx + 1, end)

\* AddParentFromNetwork, with the mutex of the computation: the next part.
DmxAddParent(w) ==
    /\ dmxWorker[w] = "add"
    /\ LET c == dmxItem[w][1] IN
        /\ dmxCaller[c] # "enqueue"
        /\ dmxParts' = [dmxParts EXCEPT ![c] =
                            Append(@, [inputs |-> DmxNextInputs(c), computed |-> FALSE])]
        /\ dmxItem' = [dmxItem EXCEPT ![w] = <<c, Len(dmxParts[c]) + 1>>]
    /\ dmxWorker' = [dmxWorker EXCEPT ![w] = "compute"]
    /\ UNCHANGED <<dmxQueue, dmxAbort, dmxAsleep, dmxCaller, dmxSize, dmxPartial, dmxLeft,
                   dmxToQueue, dmxDestructor>>

\* to_compute->ComputeBlocking()
DmxCompute(w) ==
    /\ dmxWorker[w] = "compute"
    /\ dmxParts' = [dmxParts EXCEPT ![dmxItem[w][1]][dmxItem[w][2]].computed = TRUE]
    /\ dmxWorker' = [dmxWorker EXCEPT ![w] = "notify"]
    /\ UNCHANGED <<dmxQueue, dmxAbort, dmxAsleep, dmxCaller, dmxSize, dmxPartial, dmxLeft,
                   dmxToQueue, dmxItem, dmxDestructor>>

\* NotifyComplete, with the mutex of the computation.
DmxNotifyComplete(c) ==
    /\ dmxCaller[c] # "enqueue"
    /\ dmxLeft' = [dmxLeft EXCEPT ![c] = @ - 1]

DmxNotify(w) ==
    /\ dmxWorker[w] = "notify"
    /\ DmxNotifyComplete(dmxItem[w][1])
    /\ dmxItem' = [dmxItem EXCEPT ![w] = <<>>]
    /\ dmxWorker' = [dmxWorker EXCEPT ![w] = "take"]
    /\ UNCHANGED <<dmxQueue, dmxAbort, dmxAsleep, dmxCaller, dmxSize, dmxPartial,
                   dmxToQueue, dmxParts, dmxDestructor>>

DmxSpuriousWake(w) ==
    /\ w \in dmxAsleep
    /\ dmxAsleep' = dmxAsleep \ {w}
    /\ UNCHANGED <<dmxQueue, dmxAbort, dmxCallerVars, dmxWorkerVars, dmxDestructor>>

-----------------------------------------------------------------------------
(* The destructor *)

\* Nobody is inside Enqueue of a network that is being destroyed.
DmxSetAbort ==
    /\ dmxDestructor = "none"
    /\ \A c \in Callers : dmxCaller[c] \notin {"split", "enqueue"}
    /\ dmxAbort' = TRUE
    /\ dmxDestructor' = "notify"
    /\ UNCHANGED <<dmxQueue, dmxAsleep, dmxCallerVars, dmxWorkerVars>>

DmxNotifyAll ==
    /\ dmxDestructor = "notify"
    /\ dmxAsleep' = {}
    /\ dmxDestructor' = "join"
    /\ UNCHANGED <<dmxQueue, dmxAbort, dmxCallerVars, dmxWorkerVars>>

DmxWait ==
    /\ dmxDestructor = "join"
    /\ \A w \in DmxWorkers : dmxWorker[w] = "done"
    /\ dmxDestructor' = "unstick"
    /\ UNCHANGED <<dmxQueue, dmxAbort, dmxAsleep, dmxCallerVars, dmxWorkerVars>>

DmxUnstick ==
    /\ dmxDestructor = "unstick"
    /\ dmxQueue # <<>>
    /\ DmxNotifyComplete(Head(dmxQueue))
    /\ dmxQueue' = Tail(dmxQueue)
    /\ UNCHANGED <<dmxAbort, dmxAsleep, dmxCaller, dmxSize, dmxPartial, dmxToQueue, dmxParts,
                   dmxWorkerVars, dmxDestructor>>

DmxDestroyed ==
    /\ dmxDestructor = "unstick"
    /\ dmxQueue = <<>>
    /\ dmxDestructor' = "gone"
    /\ UNCHANGED <<dmxQueue, dmxAbort, dmxAsleep, dmxCallerVars, dmxWorkerVars>>

-----------------------------------------------------------------------------
DmxCallerStep(c) ==
    /\ DmxSplit(c) \/ DmxEnqueue(c) \/ DmxReturn(c) \/ DmxRelease(c)
    /\ UNCHANGED dmxMinSplit

DmxWorkerStep(w) ==
    /\ \/ DmxGoToSleep(w) \/ DmxLeave(w) \/ DmxStart(w) \/ DmxTake(w)
       \/ DmxAddParent(w) \/ DmxCompute(w) \/ DmxNotify(w)
    /\ UNCHANGED dmxMinSplit

DmxDestructorStep ==
    /\ DmxNotifyAll \/ DmxWait \/ DmxUnstick \/ DmxDestroyed
    /\ UNCHANGED dmxMinSplit

DmxNext ==
    /\ \/ \E c \in Callers : (\E n \in 0..MaxBatch : DmxSubmit(c, n)) \/ DmxCallerStep(c)
       \/ \E w \in DmxWorkers : DmxWorkerStep(w) \/ DmxSpuriousWake(w)
       \/ DmxSetAbort
       \/ DmxDestructorStep
    /\ UNCHANGED dmxMinSplit

\* As in NetworkMux.
DmxFairness ==
    /\ \A c \in Callers : WF_dmxVars(DmxCallerStep(c))
    /\ \A w \in DmxWorkers : WF_dmxVars(DmxWorkerStep(w))
    /\ WF_dmxVars(DmxDestructorStep)

DmxSpec == DmxInit /\ [][DmxNext]_dmxVars

-----------------------------------------------------------------------------
(* Correctness *)

\* Every sample of c can be read.
DmxComputed(c) == \A i \in 0..dmxSize[c] - 1 : DmxReadable(c, i)

DmxPhase == [c \in Callers |->
    CASE dmxCaller[c] = "idle" -> "idle"
      [] dmxCaller[c] = "read" -> IF DmxComputed(c) THEN "served" ELSE "cancelled"
      [] OTHER -> "waiting"]

DmxAnswer == [c \in Callers |->
    IF dmxCaller[c] = "read" /\ DmxComputed(c)
    THEN [i \in 1..dmxSize[c] |-> DmxGetVal(c, i - 1)] ELSE <<>>]

DmxService == INSTANCE NetworkService WITH
    phase <- DmxPhase, size <- dmxSize, answer <- DmxAnswer, open <- ~dmxAbort

\* DemuxingNetwork implements the service: however the parts are spread over the
\* workers, every sample shows the evaluation of its own input, no part is still
\* being computed when ComputeBlocking returns, and only the destructor lets a
\* call return without results.
DmxImplementsService == DmxService!ServiceSpec

\* Every ComputeBlocking returns, also when the network is destroyed meanwhile.
DmxComputeReturns ==
    \A c \in Callers : (dmxCaller[c] = "split") ~> (dmxCaller[c] = "read")
=============================================================================
