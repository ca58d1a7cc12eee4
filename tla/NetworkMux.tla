----------------------------- MODULE NetworkMux -----------------------------
(* MuxingNetwork and MuxingComputation (neural/network_mux.cc): worker threads
   merge the waiting computations into one batch of a backend.

   A caller enqueues its computation and waits until it is ready; workers sleep on
   cv_ of the network.  Their sleep is explicit: a worker in muxAsleep runs again
   only after a notification or a spurious wake-up, so that a lost notification
   would show.  A worker that is populating holds mutex_ of the network.  An
   evaluation is the input it belongs to.  A computation that is not in use has
   the values of a new one. *)
EXTENDS SequencesExt, NetworkCallers

CONSTANTS
    MuxWorkers,     \* threads of all backends
    MuxMaxBatch     \* option max_batch

ASSUME MuxAssumption == MuxMaxBatch \in Nat

VARIABLES
    muxQueue,       \* queue_
    muxAbort,       \* abort_
    muxAsleep,      \* workers that sleep on cv_
    muxCaller,      \* where each caller is
    muxSize,        \* planes_.size() of its computation
    muxReady,       \* dataready_ of its computation
    muxIdx,         \* idx_in_parent_ of its computation
    muxOutputs,     \* what parent_ of its computation has evaluated
    muxWorker,      \* where each worker is
    muxChildren,    \* children of each worker
    muxParent,      \* inputs of each worker's parent computation
    muxDestructor   \* where the destructor of the network is

muxVars == <<muxQueue, muxAbort, muxAsleep, muxCaller, muxSize, muxReady, muxIdx,
             muxOutputs, muxWorker, muxChildren, muxParent, muxDestructor>>
callerVars == <<muxCaller, muxSize, muxReady, muxIdx, muxOutputs>>
workerVars == <<muxWorker, muxChildren, muxParent>>

MuxInit ==
    /\ muxQueue = <<>>
    /\ muxAbort = FALSE
    /\ muxAsleep = {}
    /\ muxCaller = [c \in Callers |-> "idle"]
    /\ muxSize = [c \in Callers |-> 0]
    /\ muxReady = [c \in Callers |-> FALSE]
    /\ muxIdx = [c \in Callers |-> 0]
    /\ muxOutputs = [c \in Callers |-> <<>>]
    /\ muxWorker = [w \in MuxWorkers |-> "loop"]
    /\ muxChildren = [w \in MuxWorkers |-> <<>>]
    /\ muxParent = [w \in MuxWorkers |-> <<>>]
    /\ muxDestructor = "none"

\* mutex_ of the network: only populating takes more than one step.
MuxUnlocked == \A w \in MuxWorkers : muxWorker[w] # "populate"

\* cv_.notify_one: one of the workers that sleep wakes up, if there is one.
MuxNotifyOne ==
    IF muxAsleep = {}
    THEN muxAsleep' = {}
    ELSE \E w \in muxAsleep : muxAsleep' = muxAsleep \ {w}

-----------------------------------------------------------------------------
(* Callers *)

\* A new computation gets n inputs and ComputeBlocking calls Enqueue.  Nobody
\* submits to a network that is being destroyed.
MuxEnqueue(c, n) ==
    /\ muxCaller[c] = "idle"
    /\ muxDestructor = "none"
    /\ MuxUnlocked
    /\ muxCaller' = [muxCaller EXCEPT ![c] = "wait"]
    /\ muxSize' = [muxSize EXCEPT ![c] = n]
    /\ muxQueue' = Append(muxQueue, c)
    /\ MuxNotifyOne
    /\ UNCHANGED <<muxAbort, muxReady, muxIdx, muxOutputs, workerVars, muxDestructor>>

\* ComputeBlocking returns.  dataready_ is set and the caller notified under
\* one lock, so the wait is a plain wait for the flag.
MuxReturn(c) ==
    /\ muxCaller[c] = "wait"
    /\ muxReady[c]
    /\ muxCaller' = [muxCaller EXCEPT ![c] = "read"]
    /\ UNCHANGED <<muxQueue, muxAbort, muxAsleep, muxSize, muxReady, muxIdx,
                   muxOutputs, workerVars, muxDestructor>>

\* The caller has read all samples and destroys the computation.
MuxRelease(c) ==
    /\ muxCaller[c] = "read"
    /\ muxCaller' = [muxCaller EXCEPT ![c] = "idle"]
    /\ muxSize' = [muxSize EXCEPT ![c] = 0]
    /\ muxReady' = [muxReady EXCEPT ![c] = FALSE]
    /\ muxIdx' = [muxIdx EXCEPT ![c] = 0]
    /\ muxOutputs' = [muxOutputs EXCEPT ![c] = <<>>]
    /\ UNCHANGED <<muxQueue, muxAbort, muxAsleep, workerVars, muxDestructor>>

\* GetQVal, GetDVal, GetMVal and GetPVal of sample i (from 1).
MuxGetVal(c, i) == muxOutputs[c][muxIdx[c] + i]

-----------------------------------------------------------------------------
(* Workers *)

\* The test of the loop and, with mutex_, the predicate of the wait.
MuxGoToSleep(w) ==
    /\ muxWorker[w] \in {"loop", "wait"}
    /\ w \notin muxAsleep
    /\ MuxUnlocked
    /\ ~muxAbort
    /\ muxQueue = <<>>
    /\ muxWorker' = [muxWorker EXCEPT ![w] = "wait"]
    /\ muxAsleep' = muxAsleep \cup {w}
    /\ UNCHANGED <<muxQueue, muxAbort, callerVars, muxChildren, muxParent, muxDestructor>>

MuxLeave(w) ==
    /\ muxWorker[w] \in {"loop", "wait"}
    /\ w \notin muxAsleep
    /\ muxAbort
    /\ muxWorker' = [muxWorker EXCEPT ![w] = "done"]
    /\ UNCHANGED <<muxQueue, muxAbort, muxAsleep, callerVars, muxChildren, muxParent,
                   muxDestructor>>

MuxStartBatch(w) ==
    /\ muxWorker[w] \in {"loop", "wait"}
    /\ w \notin muxAsleep
    /\ MuxUnlocked
    /\ ~muxAbort
    /\ muxQueue # <<>>
    /\ muxWorker' = [muxWorker EXCEPT ![w] = "populate"]
    /\ UNCHANGED <<muxQueue, muxAbort, muxAsleep, callerVars, muxChildren, muxParent,
                   muxDestructor>>

\* There is a computation in the queue that fits, or would be alone.
MuxFits(w) ==
    /\ muxQueue # <<>>
    /\ \/ Len(muxParent[w]) = 0
       \/ Len(muxParent[w]) + muxSize[Head(muxQueue)] <= MuxMaxBatch

\* A mutant of MuxPop: the computation stays in the queue.
MuxPeek(queue) == queue

MuxPop(queue) == Tail(queue)

\* A mutant of MuxStart: it keeps its initial value.
MuxStartZero(w) == 0

\* idx_in_parent_ of a computation that is added now.
MuxStart(w) == Len(muxParent[w])

\* PopulateToParent: remember where the inputs of the child begin.
MuxPopulate(w) ==
    /\ muxWorker[w] = "populate"
    /\ MuxFits(w)
    /\ LET c == Head(muxQueue) IN
        /\ muxChildren' = [muxChildren EXCEPT ![w] = Append(@, c)]
        /\ muxIdx' = [muxIdx EXCEPT ![c] = MuxStart(w)]
        /\ muxParent' = [muxParent EXCEPT ![w] = @ \o Inputs(c, muxSize[c])]
    /\ muxQueue' = MuxPop(muxQueue)
    /\ UNCHANGED <<muxAbort, muxAsleep, muxCaller, muxSize, muxReady, muxOutputs,
                   muxWorker, muxDestructor>>

MuxBatchFull(w) ==
    /\ muxWorker[w] = "populate"
    /\ ~MuxFits(w)
    /\ muxWorker' = [muxWorker EXCEPT ![w] = "compute"]
    /\ UNCHANGED <<muxQueue, muxAbort, muxAsleep, callerVars, muxChildren, muxParent,
                   muxDestructor>>

\* parent->ComputeBlocking(): the children read the parent's evaluations.
MuxCompute(w) ==
    /\ muxWorker[w] = "compute"
    /\ muxOutputs' = [c \in Callers |-> IF Contains(muxChildren[w], c)
                                        THEN muxParent[w] ELSE muxOutputs[c]]
    /\ muxWorker' = [muxWorker EXCEPT ![w] = "notify"]
    /\ UNCHANGED <<muxQueue, muxAbort, muxAsleep, muxCaller, muxSize, muxReady, muxIdx,
                   muxChildren, muxParent, muxDestructor>>

\* NotifyReady, with the mutex of the computation.
MuxNotifyReady(c) == muxReady' = [muxReady EXCEPT ![c] = TRUE]

MuxNotifyChild(w) ==
    /\ muxWorker[w] = "notify"
    /\ muxChildren[w] # <<>>
    /\ MuxNotifyReady(Head(muxChildren[w]))
    /\ muxChildren' = [muxChildren EXCEPT ![w] = Tail(@)]
    /\ UNCHANGED <<muxQueue, muxAbort, muxAsleep, muxCaller, muxSize, muxIdx, muxOutputs,
                   muxWorker, muxParent, muxDestructor>>

MuxBatchDone(w) ==
    /\ muxWorker[w] = "notify"
    /\ muxChildren[w] = <<>>
    /\ muxWorker' = [muxWorker EXCEPT ![w] = "loop"]
    /\ muxParent' = [muxParent EXCEPT ![w] = <<>>]
    /\ UNCHANGED <<muxQueue, muxAbort, muxAsleep, callerVars, muxChildren, muxDestructor>>

\* A condition variable may wake a thread without a reason.
MuxSpuriousWake(w) ==
    /\ w \in muxAsleep
    /\ muxAsleep' = muxAsleep \ {w}
    /\ UNCHANGED <<muxQueue, muxAbort, callerVars, workerVars, muxDestructor>>

-----------------------------------------------------------------------------
(* The destructor *)

MuxSetAbort ==
    /\ muxDestructor = "none"
    /\ MuxUnlocked
    /\ muxAbort' = TRUE
    /\ muxDestructor' = "notify"
    /\ UNCHANGED <<muxQueue, muxAsleep, callerVars, workerVars>>

\* A mutant of MuxNotifyAll: notify_one.
MuxNotifyAny ==
    /\ muxDestructor = "notify"
    /\ MuxNotifyOne
    /\ muxDestructor' = "join"
    /\ UNCHANGED <<muxQueue, muxAbort, callerVars, workerVars>>

MuxNotifyAll ==
    /\ muxDestructor = "notify"
    /\ muxAsleep' = {}
    /\ muxDestructor' = "join"
    /\ UNCHANGED <<muxQueue, muxAbort, callerVars, workerVars>>

MuxWait ==
    /\ muxDestructor = "join"
    /\ \A w \in MuxWorkers : muxWorker[w] = "done"
    /\ muxDestructor' = "unstick"
    /\ UNCHANGED <<muxQueue, muxAbort, muxAsleep, callerVars, workerVars>>

\* "Unstuck waiting computations": they return without results.
MuxUnstick ==
    /\ muxDestructor = "unstick"
    /\ muxQueue # <<>>
    /\ MuxNotifyReady(Head(muxQueue))
    /\ muxQueue' = Tail(muxQueue)
    /\ UNCHANGED <<muxAbort, muxAsleep, muxCaller, muxSize, muxIdx, muxOutputs,
                   workerVars, muxDestructor>>

MuxDestroyed ==
    /\ muxDestructor = "unstick"
    /\ muxQueue = <<>>
    /\ muxDestructor' = "gone"
    /\ UNCHANGED <<muxQueue, muxAbort, muxAsleep, callerVars, workerVars>>

-----------------------------------------------------------------------------
MuxCallerStep(c) == MuxReturn(c) \/ MuxRelease(c)

MuxWorkerStep(w) ==
    \/ MuxGoToSleep(w) \/ MuxLeave(w) \/ MuxStartBatch(w) \/ MuxPopulate(w)
    \/ MuxBatchFull(w) \/ MuxCompute(w) \/ MuxNotifyChild(w) \/ MuxBatchDone(w)

MuxDestructorStep == MuxNotifyAll \/ MuxWait \/ MuxUnstick \/ MuxDestroyed

MuxNext ==
    \/ \E c \in Callers : (\E n \in 0..MaxBatch : MuxEnqueue(c, n)) \/ MuxCallerStep(c)
    \/ \E w \in MuxWorkers : MuxWorkerStep(w) \/ MuxSpuriousWake(w)
    \/ MuxSetAbort
    \/ MuxDestructorStep

\* Threads that can run do; a destructor that has begun goes on.  Nothing is
\* assumed of callers that have not submitted, of spurious wake-ups or of the
\* beginning of the destructor.
MuxFairness ==
    /\ \A c \in Callers : WF_muxVars(MuxCallerStep(c))
    /\ \A w \in MuxWorkers : WF_muxVars(MuxWorkerStep(w))
    /\ WF_muxVars(MuxDestructorStep)

MuxSpec == MuxInit /\ [][MuxNext]_muxVars

-----------------------------------------------------------------------------
(* Correctness *)

MuxTypeOK ==
    /\ muxQueue \in Seq(Callers)
    /\ muxAbort \in BOOLEAN
    /\ muxAsleep \subseteq MuxWorkers
    /\ muxCaller \in [Callers -> {"idle", "wait", "read"}]
    /\ muxSize \in [Callers -> 0..MaxBatch]
    /\ muxReady \in [Callers -> BOOLEAN]
    /\ muxIdx \in [Callers -> Nat]
    /\ muxOutputs \in [Callers -> Seq(Callers \X Nat)]
    /\ muxWorker \in [MuxWorkers -> {"loop", "wait", "populate", "compute", "notify", "done"}]
    /\ muxChildren \in [MuxWorkers -> Seq(Callers)]
    /\ muxParent \in [MuxWorkers -> Seq(Callers \X Nat)]
    /\ muxDestructor \in {"none", "notify", "join", "unstick", "gone"}

\* The caller's computation was computed, not let go by the destructor.
MuxComputed(c) == muxOutputs[c] # <<>> \/ muxSize[c] = 0

MuxAnswer == [c \in Callers |->
    IF muxCaller[c] # "idle" /\ muxReady[c] /\ MuxComputed(c)
    THEN [i \in 1..muxSize[c] |-> MuxGetVal(c, i)] ELSE <<>>]

MuxPhase == [c \in Callers |->
    CASE muxCaller[c] = "idle" -> "idle"
      [] muxCaller[c] # "idle" /\ ~muxReady[c] -> "waiting"
      [] OTHER -> IF MuxComputed(c) THEN "served" ELSE "cancelled"]

MuxService == INSTANCE NetworkService WITH
    phase <- MuxPhase, size <- muxSize, answer <- MuxAnswer, open <- ~muxAbort

\* MuxingNetwork implements the service: whatever batches the workers form,
\* every caller reads the evaluations of its own inputs in their order, and a
\* call returns without results only once the destructor has set abort_.
MuxImplementsService == MuxService!ServiceSpec

\* Until it is ready, the computation of a caller that waits is in exactly one place
\* from which the caller will be woken: once in queue_ or once among the children of
\* one worker; no other computation is in these places.
MuxHeldBy(w, c) == \E i \in DOMAIN muxChildren[w] : muxChildren[w][i] = c
MuxQueued(c) == \E i \in DOMAIN muxQueue : muxQueue[i] = c
MuxWaiting(c) == muxCaller[c] = "wait" /\ ~muxReady[c]
MuxWaitersHeld ==
    /\ \A c \in Callers : MuxWaiting(c) <=> MuxQueued(c) \/ \E w \in MuxWorkers : MuxHeldBy(w, c)
    /\ \A i, j \in DOMAIN muxQueue : muxQueue[i] = muxQueue[j] => i = j
    /\ \A w \in MuxWorkers : \A i, j \in DOMAIN muxChildren[w] :
          muxChildren[w][i] = muxChildren[w][j] => i = j
    /\ \A w \in MuxWorkers, c \in Callers : MuxHeldBy(w, c) =>
          ~MuxQueued(c) /\ \A v \in MuxWorkers : MuxHeldBy(v, c) => v = w

\* Every ComputeBlocking returns, also when the network is destroyed meanwhile.
MuxComputeReturns == \A c \in Callers : (muxCaller[c] = "wait") ~> (muxCaller[c] # "wait")

\* The destructor's join returns.
MuxDestructorReturns == (muxDestructor = "notify") ~> (muxDestructor = "gone")
=============================================================================
