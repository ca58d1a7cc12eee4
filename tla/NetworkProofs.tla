----------------------------- MODULE NetworkProofs -----------------------------
(***************************************************************************)
(* The ways in which search workers get evaluations.                       *)
(*                                                                         *)
(* MuxingNetwork implements NetworkService, for any number of callers and  *)
(* workers and any limit on a batch; so does DemuxingNetwork, for any      *)
(* batch and any minimum-split-size; and CachingComputation hands every    *)
(* node the evaluation of its own position, for any number of workers and  *)
(* positions and any size of the batches.                                  *)
(***************************************************************************)
EXTENDS NetworkMux, NetworkDemux, CachingComputation, FiniteSetTheorems, SequenceTheorems, TLAPS

(***************************************************************************)
(* The multiplexing network.                                               *)
(***************************************************************************)
-----------------------------------------------------------------------------
(* Queues. *)

In(s, e) == \E i \in DOMAIN s : s[i] = e

Distinct(s) == \A i, j \in DOMAIN s : s[i] = s[j] => i = j

\* What Append does to a queue without repetitions.
LEMMA Appended ==
    ASSUME NEW S, NEW s \in Seq(S), NEW e \in S
    PROVE  /\ Append(s, e) \in Seq(S)
           /\ \A x : In(Append(s, e), x) <=> In(s, x) \/ x = e
           /\ Distinct(s) /\ ~In(s, e) => Distinct(Append(s, e))
<1> DEFINE a == Append(s, e)
<1>1. /\ a \in Seq(S) /\ Len(s) \in Nat /\ DOMAIN s = 1 .. Len(s)
      /\ DOMAIN a = 1 .. Len(s) + 1
      /\ \A i \in 1 .. Len(s) : a[i] = s[i]
      /\ a[Len(s) + 1] = e
  OBVIOUS
<1> HIDE DEF a
<1>2. \A x : In(a, x) <=> In(s, x) \/ x = e
  <2> TAKE x
  <2>1. In(a, x) => In(s, x) \/ x = e
    <3> SUFFICES ASSUME NEW i \in DOMAIN a, a[i] = x, x # e PROVE In(s, x)
      BY DEF In
    <3>1. i \in DOMAIN s /\ s[i] = x
      BY <1>1
    <3> QED BY <3>1 DEF In
  <2>2. In(s, x) => In(a, x)
    BY <1>1 DEF In
  <2>3. In(a, e)
    BY <1>1 DEF In
  <2> QED BY <2>1, <2>2, <2>3
<1>3. ASSUME Distinct(s), ~In(s, e) PROVE Distinct(a)
  <2> SUFFICES ASSUME NEW i \in DOMAIN a, NEW j \in DOMAIN a, a[i] = a[j] PROVE i = j
    BY DEF Distinct
  <2> QED BY <1>1, <1>3 DEF Distinct, In
<1> QED BY <1>1, <1>2, <1>3 DEF a

\* What Tail does to one.
LEMMA Popped ==
    ASSUME NEW S, NEW s \in Seq(S), s # << >>, Distinct(s)
    PROVE  /\ Head(s) \in S /\ In(s, Head(s))
           /\ Tail(s) \in Seq(S)
           /\ \A x : In(Tail(s), x) <=> In(s, x) /\ x # Head(s)
           /\ Distinct(Tail(s))
<1> DEFINE t == Tail(s)
<1>1. /\ t \in Seq(S) /\ Len(s) \in Nat \ {0} /\ DOMAIN s = 1 .. Len(s)
      /\ DOMAIN t = 1 .. Len(s) - 1
      /\ \A i \in 1 .. Len(s) - 1 : t[i] = s[i + 1]
      /\ Head(s) = s[1] /\ s[1] \in S
  OBVIOUS
<1> HIDE DEF t
<1>2. \A x : In(t, x) <=> In(s, x) /\ x # Head(s)
  <2> TAKE x
  <2>1. ASSUME NEW i \in DOMAIN t, t[i] = x PROVE In(s, x) /\ x # Head(s)
    <3>1. i + 1 \in DOMAIN s /\ s[i + 1] = x /\ 1 \in DOMAIN s /\ i + 1 # 1
      BY <1>1, <2>1
    <3> QED BY <1>1, <3>1 DEF In, Distinct
  <2>2. ASSUME NEW i \in DOMAIN s, s[i] = x, x # Head(s) PROVE In(t, x)
    <3>1. i - 1 \in DOMAIN t /\ t[i - 1] = x
      BY <1>1, <2>2
    <3> QED BY <3>1 DEF In
  <2> QED BY <2>1, <2>2 DEF In
<1>3. Distinct(t)
  <2> SUFFICES ASSUME NEW i \in DOMAIN t, NEW j \in DOMAIN t, t[i] = t[j] PROVE i = j
    BY DEF Distinct
  <2>1. i + 1 \in DOMAIN s /\ j + 1 \in DOMAIN s /\ s[i + 1] = s[j + 1] /\ i \in Nat /\ j \in Nat
    BY <1>1
  <2> QED BY <2>1 DEF Distinct
<1>4. In(s, Head(s))
  BY <1>1 DEF In
<1> QED BY <1>1, <1>2, <1>3, <1>4 DEF t

\* What concatenation gives.
LEMMA Joined ==
    ASSUME NEW S, NEW s \in Seq(S), NEW t \in Seq(S)
    PROVE  /\ s \o t \in Seq(S)
           /\ Len(s \o t) = Len(s) + Len(t)
           /\ \A i \in 1 .. Len(s) : (s \o t)[i] = s[i]
           /\ \A i \in 1 .. Len(t) : (s \o t)[Len(s) + i] = t[i]
OBVIOUS

\* Any set has an empty queue.
LEMMA EmptyIsSeq == ASSUME NEW S PROVE << >> \in Seq(S)
OBVIOUS

-----------------------------------------------------------------------------
(* The inductive invariant. *)

\* The samples of c, in the evaluations s of the batch it went into, are its own.
Own(c, s) ==
    /\ muxIdx[c] + muxSize[c] <= Len(s)
    /\ \A k \in 1 .. muxSize[c] : s[muxIdx[c] + k] = <<c, k>>

\* A computation that is not in use is new, and one that is read is ready.
CallersClean ==
    \A c \in Callers :
        /\ muxCaller[c] = "idle" => ~muxReady[c] /\ muxSize[c] = 0 /\ muxOutputs[c] = << >>
        /\ muxCaller[c] = "read" => muxReady[c]

\* What is queued has no evaluations; what a worker holds is part of its batch
\* and has the evaluations of that batch once it is computed.
BatchesRight ==
    /\ \A c \in Callers : In(muxQueue, c) => muxOutputs[c] = << >>
    /\ \A w \in MuxWorkers, c \in Callers : In(muxChildren[w], c) =>
           /\ muxWorker[w] \in {"populate", "compute", "notify"}
           /\ Own(c, muxParent[w])
           /\ muxOutputs[c] = IF muxWorker[w] = "notify" THEN muxParent[w] ELSE << >>

\* What is ready has its own evaluations, or none because of the destructor.
ReadyRight ==
    /\ \A c \in Callers : muxReady[c] =>
           (muxAbort /\ muxOutputs[c] = << >>) \/ Own(c, muxOutputs[c])
    /\ muxAbort <=> muxDestructor # "none"

MuxInv == MuxTypeOK /\ MuxWaitersHeld /\ CallersClean /\ BatchesRight /\ ReadyRight

\* MuxWaitersHeld, in terms of In and Distinct.
LEMMA HeldIsIn ==
    MuxWaitersHeld <=>
        /\ \A c \in Callers :
              MuxWaiting(c) <=> In(muxQueue, c) \/ \E w \in MuxWorkers : In(muxChildren[w], c)
        /\ Distinct(muxQueue)
        /\ \A w \in MuxWorkers : Distinct(muxChildren[w])
        /\ \A w \in MuxWorkers, c \in Callers : In(muxChildren[w], c) =>
              ~In(muxQueue, c) /\ \A v \in MuxWorkers : In(muxChildren[v], c) => v = w
BY DEF MuxWaitersHeld, MuxQueued, MuxHeldBy, In, Distinct

\* The invariant holds of a new network.
LEMMA MuxInitInv == MuxInit => MuxInv
<1> SUFFICES ASSUME MuxInit PROVE MuxInv
  OBVIOUS
<1>1. MuxTypeOK
  <2>1. << >> \in Seq(Callers) /\ << >> \in Seq(Callers \X Nat)
    BY EmptyIsSeq
  <2>2. 0 \in 0 .. MaxBatch
    BY CallersAssumption
  <2>3. /\ muxOutputs \in [Callers -> Seq(Callers \X Nat)]
        /\ muxParent \in [MuxWorkers -> Seq(Callers \X Nat)]
        /\ muxChildren \in [MuxWorkers -> Seq(Callers)]
    <3> DEFINE P == Seq(Callers \X Nat)
    <3>1. << >> \in P
      BY <2>1
    <3> HIDE DEF P
    <3>2. muxOutputs \in [Callers -> P] /\ muxParent \in [MuxWorkers -> P]
      BY <3>1 DEF MuxInit
    <3>3. muxChildren \in [MuxWorkers -> Seq(Callers)]
      BY <2>1 DEF MuxInit
    <3> QED BY <3>2, <3>3 DEF P
  <2> QED BY <2>1, <2>2, <2>3 DEF MuxInit, MuxTypeOK
<1>2. MuxWaitersHeld
  BY DEF MuxInit, MuxWaitersHeld, MuxWaiting, MuxQueued, MuxHeldBy
<1>3. CallersClean /\ BatchesRight /\ ReadyRight
  BY DEF MuxInit, CallersClean, BatchesRight, ReadyRight, In
<1> QED BY <1>1, <1>2, <1>3 DEF MuxInv

\* What PopulateToParent adds is a batch of its own.
LEMMA InputsType ==
    ASSUME NEW c \in Callers, NEW n \in Nat
    PROVE  Inputs(c, n) \in Seq(Callers \X Nat) /\ Len(Inputs(c, n)) = n
BY DEF Inputs

\* Every step keeps the types.
LEMMA MuxTypeKept == MuxInv /\ [MuxNext]_muxVars => MuxTypeOK'
<1> SUFFICES ASSUME MuxTypeOK, MuxWaitersHeld, [MuxNext]_muxVars PROVE MuxTypeOK'
  BY DEF MuxInv
<1> USE DEF MuxTypeOK
<1>1. ASSUME NEW c \in Callers, NEW n \in 0 .. MaxBatch, MuxEnqueue(c, n) PROVE MuxTypeOK'
  <2>1. muxQueue' \in Seq(Callers)
    BY <1>1, Appended DEF MuxEnqueue
  <2>2. muxAsleep' \subseteq MuxWorkers
    BY <1>1 DEF MuxEnqueue, MuxNotifyOne
  <2> QED BY <1>1, <2>1, <2>2 DEF MuxEnqueue, workerVars
<1>2. ASSUME NEW c \in Callers, MuxReturn(c) PROVE MuxTypeOK'
  BY <1>2 DEF MuxReturn, workerVars
<1>3. ASSUME NEW c \in Callers, MuxRelease(c) PROVE MuxTypeOK'
  BY <1>3, CallersAssumption DEF MuxRelease, workerVars
<1>4. ASSUME NEW w \in MuxWorkers,
             MuxGoToSleep(w) \/ MuxLeave(w) \/ MuxStartBatch(w) \/ MuxBatchFull(w)
      PROVE MuxTypeOK'
  BY <1>4 DEF MuxGoToSleep, MuxLeave, MuxStartBatch, MuxBatchFull, callerVars
<1>5. ASSUME NEW w \in MuxWorkers, MuxPopulate(w) PROVE MuxTypeOK'
  <2> DEFINE c == Head(muxQueue)
  <2>1. /\ muxQueue # << >>
        /\ muxChildren' = [muxChildren EXCEPT ![w] = Append(@, c)]
        /\ muxIdx' = [muxIdx EXCEPT ![c] = Len(muxParent[w])]
        /\ muxParent' = [muxParent EXCEPT ![w] = @ \o Inputs(c, muxSize[c])]
        /\ muxQueue' = Tail(muxQueue)
        /\ UNCHANGED <<muxAbort, muxAsleep, muxCaller, muxSize, muxReady, muxOutputs,
                       muxWorker, muxDestructor>>
    BY <1>5 DEF MuxPopulate, MuxFits, MuxStart, MuxPop
  <2>2. c \in Callers /\ Tail(muxQueue) \in Seq(Callers) /\ Len(muxParent[w]) \in Nat
    BY <2>1
  <2>3. muxSize[c] \in Nat
    BY <2>2, CallersAssumption
  <2>4. Append(muxChildren[w], c) \in Seq(Callers)
    BY <2>2
  <2>5. muxParent[w] \o Inputs(c, muxSize[c]) \in Seq(Callers \X Nat)
    <3>1. muxParent[w] \in Seq(Callers \X Nat) /\ Inputs(c, muxSize[c]) \in Seq(Callers \X Nat)
      BY <2>2, <2>3, InputsType
    <3> HIDE DEF c
    <3> QED BY <3>1, Joined
  <2> HIDE DEF c
  <2> QED BY <2>1, <2>2, <2>4, <2>5
<1>6. ASSUME NEW w \in MuxWorkers, MuxCompute(w) PROVE MuxTypeOK'
  BY <1>6 DEF MuxCompute
<1>7. ASSUME NEW w \in MuxWorkers, MuxNotifyChild(w) PROVE MuxTypeOK'
  BY <1>7 DEF MuxNotifyChild, MuxNotifyReady
<1>8. ASSUME NEW w \in MuxWorkers, MuxBatchDone(w) PROVE MuxTypeOK'
  <2> DEFINE P == Seq(Callers \X Nat)
  <2>1. muxParent \in [MuxWorkers -> P] /\ << >> \in P
    BY EmptyIsSeq
  <2> HIDE DEF P
  <2>2. muxParent' \in [MuxWorkers -> P]
    BY <1>8, <2>1 DEF MuxBatchDone
  <2>3. muxParent' \in [MuxWorkers -> Seq(Callers \X Nat)]
    BY <2>2 DEF P
  <2> QED BY <1>8, <2>3 DEF MuxBatchDone, callerVars
<1>9. ASSUME NEW w \in MuxWorkers, MuxSpuriousWake(w) PROVE MuxTypeOK'
  BY <1>9 DEF MuxSpuriousWake, callerVars, workerVars
<1>10. ASSUME MuxSetAbort \/ MuxNotifyAll \/ MuxWait \/ MuxDestroyed PROVE MuxTypeOK'
  BY <1>10 DEF MuxSetAbort, MuxNotifyAll, MuxWait, MuxDestroyed, callerVars, workerVars
<1>11. ASSUME MuxUnstick PROVE MuxTypeOK'
  BY <1>11 DEF MuxUnstick, MuxNotifyReady, workerVars
<1>12. ASSUME UNCHANGED muxVars PROVE MuxTypeOK'
  BY <1>12 DEF muxVars
<1> QED
  BY <1>1, <1>2, <1>3, <1>4, <1>5, <1>6, <1>7, <1>8, <1>9, <1>10, <1>11, <1>12
     DEF MuxNext, MuxCallerStep, MuxWorkerStep, MuxDestructorStep

\* The parts of the invariant that say where computations and evaluations are.
Placed == MuxWaitersHeld /\ CallersClean /\ BatchesRight /\ ReadyRight

\* Steps that only move a worker, wake one, or advance the destructor.
LEMMA QuietSteps ==
    ASSUME MuxInv, UNCHANGED <<muxQueue, callerVars, muxChildren>>,
           \A w \in MuxWorkers, c \in Callers : In(muxChildren[w], c) =>
               /\ muxParent'[w] = muxParent[w]
               /\ muxWorker'[w] \in {"populate", "compute", "notify"}
               /\ muxWorker'[w] = "notify" <=> muxWorker[w] = "notify",
           muxAbort => muxAbort', muxAbort' <=> muxDestructor' # "none"
    PROVE  Placed'
<1> USE DEF MuxInv, callerVars
<1>1. MuxWaitersHeld'
  BY DEF MuxWaitersHeld, MuxQueued, MuxHeldBy, MuxWaiting
<1>2. CallersClean'
  BY DEF CallersClean
<1>3. BatchesRight'
  <2>1. \A c \in Callers : In(muxQueue, c)' <=> In(muxQueue, c)
    BY DEF In
  <2>2. \A w \in MuxWorkers, c \in Callers : In(muxChildren[w], c)' <=> In(muxChildren[w], c)
    BY DEF In
  <2>3. ASSUME NEW w \in MuxWorkers, NEW c \in Callers, In(muxChildren[w], c)
        PROVE  /\ muxWorker'[w] \in {"populate", "compute", "notify"}
               /\ Own(c, muxParent[w])'
               /\ muxOutputs'[c] = IF muxWorker'[w] = "notify" THEN muxParent'[w] ELSE << >>
    <3>1. Own(c, muxParent[w])'
      <4>1. Own(c, muxParent[w]) /\ UNCHANGED <<muxIdx, muxSize>> /\ muxParent'[w] = muxParent[w]
        BY <2>3 DEF BatchesRight
      <4> HIDE DEF MuxInv
      <4> QED BY <4>1 DEF Own
    <3> QED BY <2>3, <3>1 DEF BatchesRight
  <2> QED BY <2>1, <2>2, <2>3 DEF BatchesRight
<1>4. ReadyRight'
  BY DEF ReadyRight, Own
<1> QED BY <1>1, <1>2, <1>3, <1>4 DEF Placed

\* A worker without children may go anywhere.
LEMMA WorkersWithChildren ==
    ASSUME MuxInv, NEW w \in MuxWorkers, NEW c \in Callers, In(muxChildren[w], c)
    PROVE  muxWorker[w] \in {"populate", "compute", "notify"}
BY DEF MuxInv, BatchesRight

\* A worker that sleeps, wakes, leaves or changes phase moves nothing.
LEMMA MuxWorkerMoves ==
    ASSUME MuxInv, NEW w \in MuxWorkers,
           MuxGoToSleep(w) \/ MuxLeave(w) \/ MuxStartBatch(w) \/ MuxBatchFull(w)
               \/ MuxBatchDone(w) \/ MuxSpuriousWake(w)
    PROVE  Placed'
<1>1. UNCHANGED <<muxQueue, callerVars, muxChildren, muxAbort, muxDestructor>>
  BY DEF MuxGoToSleep, MuxLeave, MuxStartBatch, MuxBatchFull, MuxBatchDone, MuxSpuriousWake,
         workerVars
<1>2. \A v \in MuxWorkers \ {w} : muxWorker'[v] = muxWorker[v] /\ muxParent'[v] = muxParent[v]
  BY DEF MuxGoToSleep, MuxLeave, MuxStartBatch, MuxBatchFull, MuxBatchDone, MuxSpuriousWake,
         workerVars, MuxInv, MuxTypeOK
<1>3. ASSUME NEW c \in Callers, In(muxChildren[w], c)
      PROVE  /\ muxParent'[w] = muxParent[w]
             /\ muxWorker'[w] \in {"populate", "compute", "notify"}
             /\ muxWorker'[w] = "notify" <=> muxWorker[w] = "notify"
  <2>1. muxWorker[w] \in {"populate", "compute", "notify"} /\ muxChildren[w] # << >>
    BY <1>3, WorkersWithChildren DEF In
  <2>2. MuxBatchFull(w) \/ MuxSpuriousWake(w)
    BY <2>1 DEF MuxGoToSleep, MuxLeave, MuxStartBatch, MuxBatchDone
  <2> QED BY <2>1, <2>2 DEF MuxBatchFull, MuxSpuriousWake, workerVars, MuxInv, MuxTypeOK
<1>4. muxAbort <=> muxDestructor # "none"
  BY DEF MuxInv, ReadyRight
<1>5. \A v \in MuxWorkers, c \in Callers : In(muxChildren[v], c) =>
          /\ muxParent'[v] = muxParent[v]
          /\ muxWorker'[v] \in {"populate", "compute", "notify"}
          /\ muxWorker'[v] = "notify" <=> muxWorker[v] = "notify"
  BY <1>2, <1>3, WorkersWithChildren
<1> QED BY <1>1, <1>4, <1>5, QuietSteps

\* Nor does the destructor, before it notifies.
LEMMA DestructorMoves ==
    ASSUME MuxInv, MuxSetAbort \/ MuxNotifyAll \/ MuxWait \/ MuxDestroyed
    PROVE  Placed'
<1>1. /\ UNCHANGED <<muxQueue, callerVars, muxChildren, muxWorker, muxParent>>
      /\ muxAbort => muxAbort'
      /\ muxAbort' <=> muxDestructor' # "none"
  BY DEF MuxSetAbort, MuxNotifyAll, MuxWait, MuxDestroyed, workerVars, MuxInv, ReadyRight
<1> QED BY <1>1, WorkersWithChildren, QuietSteps

\* Nor does a step of others.
LEMMA Stutters == ASSUME MuxInv, UNCHANGED muxVars PROVE Placed'
<1>1. muxAbort <=> muxDestructor # "none"
  BY DEF MuxInv, ReadyRight
<1> QED BY <1>1, WorkersWithChildren, QuietSteps DEF muxVars, callerVars

\* Enqueue puts a new computation at one place, the queue.
LEMMA EnqueuePlaces ==
    ASSUME MuxInv, NEW c \in Callers, NEW n \in 0 .. MaxBatch, MuxEnqueue(c, n)
    PROVE  Placed'
<1> USE DEF MuxInv
<1>1. /\ muxCaller[c] = "idle" /\ muxDestructor = "none"
      /\ muxCaller' = [muxCaller EXCEPT ![c] = "wait"]
      /\ muxSize' = [muxSize EXCEPT ![c] = n]
      /\ muxQueue' = Append(muxQueue, c)
      /\ UNCHANGED <<muxAbort, muxReady, muxIdx, muxOutputs, muxWorker, muxChildren,
                     muxParent, muxDestructor>>
  BY DEF MuxEnqueue, workerVars
<1>2. ~muxReady[c] /\ muxOutputs[c] = << >> /\ ~MuxWaiting(c)
  BY <1>1 DEF CallersClean, MuxWaiting
<1>3. ~In(muxQueue, c) /\ \A w \in MuxWorkers : ~In(muxChildren[w], c)
  BY <1>2, HeldIsIn
<1>4. /\ \A x \in Callers : In(muxQueue', x) <=> In(muxQueue, x) \/ x = c
      /\ Distinct(muxQueue')
  BY <1>1, <1>3, Appended, HeldIsIn DEF MuxTypeOK
<1>5. \A x \in Callers : MuxWaiting(x)' <=> MuxWaiting(x) \/ x = c
  BY <1>1, <1>2 DEF MuxWaiting, MuxTypeOK
<1>6. MuxWaitersHeld'
  <2>1. /\ \A x \in Callers : MuxWaiting(x)' <=>
             In(muxQueue', x) \/ \E w \in MuxWorkers : In(muxChildren'[w], x)
        /\ \A w \in MuxWorkers : Distinct(muxChildren'[w])
        /\ \A w \in MuxWorkers, x \in Callers : In(muxChildren'[w], x) =>
             ~In(muxQueue', x) /\ \A v \in MuxWorkers : In(muxChildren'[v], x) => v = w
    BY <1>1, <1>3, <1>4, <1>5, HeldIsIn
  <2> QED BY <2>1, <1>4 DEF MuxWaitersHeld, MuxQueued, MuxHeldBy, In, Distinct
<1>7. CallersClean'
  BY <1>1 DEF CallersClean, MuxTypeOK
<1>8. BatchesRight'
  <2>1. \A x \in Callers : In(muxQueue', x) => muxOutputs'[x] = << >>
    BY <1>1, <1>2, <1>4 DEF BatchesRight
  <2>2. ASSUME NEW w \in MuxWorkers, NEW x \in Callers, In(muxChildren[w], x)
        PROVE  muxSize'[x] = muxSize[x] /\ (Own(x, muxParent[w])' <=> Own(x, muxParent[w]))
    <3>1. muxSize'[x] = muxSize[x]
      BY <1>1, <1>3, <2>2 DEF MuxTypeOK
    <3> QED BY <1>1, <3>1 DEF Own
  <2>3. ASSUME NEW w \in MuxWorkers, NEW x \in Callers, In(muxChildren[w], x)
        PROVE  /\ muxWorker[w] \in {"populate", "compute", "notify"} /\ Own(x, muxParent[w])
               /\ muxOutputs[x] = IF muxWorker[w] = "notify" THEN muxParent[w] ELSE << >>
    BY <2>3 DEF BatchesRight
  <2> QED BY <1>1, <2>1, <2>2, <2>3 DEF BatchesRight
<1>9. ReadyRight'
  BY <1>1, <1>2 DEF ReadyRight, Own, MuxTypeOK
<1> QED BY <1>6, <1>7, <1>8, <1>9 DEF Placed

\* ComputeBlocking returns, or the caller is done with its computation.
LEMMA ReturnPlaces ==
    ASSUME MuxInv, NEW c \in Callers, MuxReturn(c) \/ MuxRelease(c)
    PROVE  Placed'
<1> USE DEF MuxInv
<1>1. /\ muxReady[c] /\ muxCaller'[c] # "wait"
      /\ \A x \in Callers \ {c} :
            /\ muxCaller'[x] = muxCaller[x] /\ muxSize'[x] = muxSize[x]
            /\ muxReady'[x] = muxReady[x] /\ muxIdx'[x] = muxIdx[x]
            /\ muxOutputs'[x] = muxOutputs[x]
      /\ UNCHANGED <<muxQueue, muxAbort, muxWorker, muxChildren, muxParent, muxDestructor>>
  BY DEF MuxReturn, MuxRelease, workerVars, CallersClean, MuxTypeOK
<1>2. \/ muxCaller'[c] = "read" /\ UNCHANGED <<muxSize, muxReady, muxIdx, muxOutputs>>
      \/ muxCaller'[c] = "idle" /\ muxSize'[c] = 0 /\ ~muxReady'[c] /\ muxOutputs'[c] = << >>
  BY DEF MuxReturn, MuxRelease, MuxTypeOK
<1>3. ~MuxWaiting(c) /\ ~MuxWaiting(c)' /\ \A x \in Callers \ {c} : MuxWaiting(x)' <=> MuxWaiting(x)
  BY <1>1 DEF MuxWaiting
<1>4. MuxWaitersHeld'
  <2>1. \A x \in Callers : MuxWaiting(x)' <=> MuxWaiting(x)
    BY <1>3
  <2> QED BY <1>1, <2>1 DEF MuxWaitersHeld, MuxQueued, MuxHeldBy
<1>5. CallersClean'
  BY <1>1, <1>2 DEF CallersClean
<1>6. ~In(muxQueue, c) /\ \A w \in MuxWorkers : ~In(muxChildren[w], c)
  BY <1>3, HeldIsIn
<1>7. BatchesRight'
  <2>1. \A x \in Callers : In(muxQueue', x) => muxOutputs'[x] = << >>
    BY <1>1, <1>6 DEF BatchesRight
  <2>2. ASSUME NEW w \in MuxWorkers, NEW x \in Callers, In(muxChildren'[w], x)
        PROVE  /\ muxWorker'[w] \in {"populate", "compute", "notify"}
               /\ Own(x, muxParent[w])'
               /\ muxOutputs'[x] = IF muxWorker'[w] = "notify" THEN muxParent'[w] ELSE << >>
    <3>1. In(muxChildren[w], x) /\ x # c
      BY <1>1, <1>6, <2>2
    <3>2. /\ muxIdx'[x] = muxIdx[x] /\ muxSize'[x] = muxSize[x] /\ muxOutputs'[x] = muxOutputs[x]
          /\ muxParent'[w] = muxParent[w] /\ muxWorker'[w] = muxWorker[w]
      BY <1>1, <3>1
    <3>3. Own(x, muxParent[w])'
      BY <3>1, <3>2 DEF BatchesRight, Own
    <3> QED BY <3>1, <3>2, <3>3 DEF BatchesRight
  <2> QED BY <2>1, <2>2 DEF BatchesRight
<1>8. ReadyRight'
  <2> SUFFICES ASSUME NEW x \in Callers, muxReady'[x]
               PROVE  (muxAbort' /\ muxOutputs'[x] = << >>) \/ Own(x, muxOutputs[x])'
    BY <1>1 DEF ReadyRight
  <2> QED BY <1>1, <1>2 DEF ReadyRight, Own
<1> QED BY <1>4, <1>5, <1>7, <1>8 DEF Placed

\* PopulateToParent moves the head of the queue to the children of a worker.
LEMMA PopulatePlaces ==
    ASSUME MuxInv, NEW w \in MuxWorkers, MuxPopulate(w)
    PROVE  Placed'
<1> USE DEF MuxInv
<1>0. muxQueue # << >>
  BY DEF MuxPopulate, MuxFits
<1>c. PICK c \in Callers : c = Head(muxQueue)
  BY <1>0 DEF MuxTypeOK
<1>o. PICK old : old = muxParent[w]
  OBVIOUS
<1>n. PICK new : new = Inputs(c, muxSize[c])
  OBVIOUS
<1>l. PICK all : all = old \o new
  OBVIOUS
<1>1. /\ muxWorker[w] = "populate"
      /\ UNCHANGED <<muxAbort, muxCaller, muxSize, muxReady, muxOutputs, muxWorker,
                     muxDestructor>>
  BY DEF MuxPopulate
<1>a. muxQueue' = Tail(muxQueue) /\ muxChildren' = [muxChildren EXCEPT ![w] = Append(@, c)]
  BY <1>c DEF MuxPopulate, MuxPop
<1>2. /\ c \in Callers /\ In(muxQueue, c)
      /\ \A x \in Callers : In(muxQueue', x) <=> In(muxQueue, x) /\ x # c
      /\ Distinct(muxQueue')
  BY <1>0, <1>a, <1>c, Popped, HeldIsIn DEF MuxTypeOK
<1>3. MuxWaiting(c) /\ muxOutputs[c] = << >> /\ \A v \in MuxWorkers : ~In(muxChildren[v], c)
  BY <1>2, HeldIsIn DEF BatchesRight
<1>4. /\ muxSize[c] \in Nat /\ new \in Seq(Callers \X Nat) /\ Len(new) = muxSize[c]
      /\ old \in Seq(Callers \X Nat) /\ muxChildren[w] \in Seq(Callers)
  <2>1. muxSize[c] \in Nat
    BY CallersAssumption DEF MuxTypeOK
  <2>2. old \in Seq(Callers \X Nat) /\ muxChildren[w] \in Seq(Callers)
    BY <1>o DEF MuxTypeOK
  <2> QED BY <1>n, <2>1, <2>2, InputsType
<1>5. \A k \in 1 .. muxSize[c] : new[k] = <<c, k>>
  BY <1>n DEF Inputs
<1>6. /\ \A x \in Callers : In(muxChildren'[w], x) <=> In(muxChildren[w], x) \/ x = c
      /\ \A v \in MuxWorkers \ {w} : muxChildren'[v] = muxChildren[v]
      /\ Distinct(muxChildren'[w])
  <2>1. muxChildren'[w] = Append(muxChildren[w], c)
    BY <1>a DEF MuxTypeOK
  <2>2. Distinct(muxChildren[w]) /\ ~In(muxChildren[w], c)
    BY <1>3, HeldIsIn
  <2>3. \A v \in MuxWorkers \ {w} : muxChildren'[v] = muxChildren[v]
    BY <1>a DEF MuxTypeOK
  <2> QED BY <1>2, <1>4, <2>1, <2>2, <2>3, Appended
<1>7. MuxWaitersHeld'
  <2>1. \A x \in Callers : MuxWaiting(x)' <=> MuxWaiting(x)
    BY <1>1 DEF MuxWaiting
  <2>2. /\ \A x \in Callers : MuxWaiting(x)' <=>
             In(muxQueue', x) \/ \E v \in MuxWorkers : In(muxChildren'[v], x)
        /\ \A v \in MuxWorkers : Distinct(muxChildren'[v])
    BY <1>2, <1>3, <1>6, <2>1, HeldIsIn
  <2>3. ASSUME NEW u \in MuxWorkers, NEW x \in Callers, In(muxChildren'[u], x)
        PROVE  ~In(muxQueue', x) /\ \A v \in MuxWorkers : In(muxChildren'[v], x) => v = u
    <3>1. CASE x = c
      BY <1>2, <1>3, <1>6, <2>3, <3>1
    <3>2. CASE x # c
      BY <1>2, <1>6, <2>3, <3>2, HeldIsIn
    <3> QED BY <3>1, <3>2
  <2> QED BY <1>2, <2>2, <2>3 DEF MuxWaitersHeld, MuxQueued, MuxHeldBy, In, Distinct
<1>8. CallersClean'
  BY <1>1 DEF CallersClean
<1>9. /\ \A x \in Callers \ {c} : muxIdx'[x] = muxIdx[x]
      /\ muxIdx'[c] = Len(old)
      /\ \A v \in MuxWorkers \ {w} : muxParent'[v] = muxParent[v]
      /\ muxParent'[w] = all
  <2>1. muxIdx' = [muxIdx EXCEPT ![c] = Len(old)] /\ muxParent' = [muxParent EXCEPT ![w] = all]
    BY <1>c, <1>o, <1>n, <1>l DEF MuxPopulate, MuxStart
  <2> HIDE DEF MuxInv
  <2>2. muxIdx \in [Callers -> Nat] /\ DOMAIN muxParent = MuxWorkers
    BY DEF MuxInv, MuxTypeOK
  <2> QED BY <2>1, <2>2
<1>10. /\ Len(all) = Len(old) + muxSize[c]
       /\ \A i \in 1 .. Len(old) : all[i] = old[i]
       /\ \A k \in 1 .. muxSize[c] : all[Len(old) + k] = <<c, k>>
       /\ Len(old) \in Nat
  <2>1. /\ Len(all) = Len(old) + Len(new)
        /\ \A i \in 1 .. Len(old) : all[i] = old[i]
        /\ \A i \in 1 .. Len(new) : all[Len(old) + i] = new[i]
    <3>1. /\ Len(old \o new) = Len(old) + Len(new)
          /\ \A i \in 1 .. Len(old) : (old \o new)[i] = old[i]
          /\ \A i \in 1 .. Len(new) : (old \o new)[Len(old) + i] = new[i]
      BY <1>4, Joined
    <3> QED BY <1>l, <3>1
  <2>2. Len(old) \in Nat
    BY <1>4
  <2> QED BY <1>4, <1>5, <2>1, <2>2
<1>11. Own(c, muxParent[w])'
  BY <1>1, <1>9, <1>10 DEF Own
<1>12. ASSUME NEW x \in Callers, In(muxChildren[w], x), x # c PROVE Own(x, muxParent[w])'
  <2>1. Own(x, old) /\ muxIdx[x] \in Nat /\ muxSize[x] \in Nat
    BY <1>o, <1>12, CallersAssumption DEF BatchesRight, MuxTypeOK
  <2>2. \A k \in 1 .. muxSize[x] : muxIdx[x] + k \in 1 .. Len(old)
    BY <1>10, <2>1 DEF Own
  <2>3. muxIdx'[x] = muxIdx[x] /\ muxSize'[x] = muxSize[x] /\ muxParent'[w] = all
    BY <1>1, <1>9, <1>12
  <2>4. Len(old) <= Len(all)
    BY <1>4, <1>10
  <2>5. muxIdx[x] + muxSize[x] <= Len(all)
    BY <1>4, <1>10, <2>1, <2>4 DEF Own
  <2>6. \A k \in 1 .. muxSize[x] : all[muxIdx[x] + k] = <<x, k>>
    BY <1>10, <2>1, <2>2 DEF Own
  <2> QED BY <2>3, <2>5, <2>6 DEF Own
<1>13. BatchesRight'
  <2>1. \A x \in Callers : In(muxQueue', x) => muxOutputs'[x] = << >>
    BY <1>1, <1>2 DEF BatchesRight
  <2>2. ASSUME NEW v \in MuxWorkers, NEW x \in Callers, In(muxChildren'[v], x)
        PROVE  /\ muxWorker'[v] \in {"populate", "compute", "notify"}
               /\ Own(x, muxParent[v])'
               /\ muxOutputs'[x] = IF muxWorker'[v] = "notify" THEN muxParent'[v] ELSE << >>
    <3>1. CASE v = w /\ x = c
      BY <1>1, <1>3, <1>11, <3>1
    <3>2. CASE v = w /\ x # c
      BY <1>1, <1>6, <1>12, <2>2, <3>2 DEF BatchesRight
    <3>3. CASE v # w
      <4>1. In(muxChildren[v], x) /\ x # c
        BY <1>3, <1>6, <2>2, <3>3
      <4>2. /\ muxIdx'[x] = muxIdx[x] /\ muxSize'[x] = muxSize[x]
            /\ muxParent'[v] = muxParent[v] /\ muxWorker'[v] = muxWorker[v]
            /\ muxOutputs'[x] = muxOutputs[x]
        BY <1>1, <1>9, <3>3, <4>1
      <4>3. Own(x, muxParent[v])'
        BY <4>1, <4>2 DEF BatchesRight, Own
      <4> QED BY <4>1, <4>2, <4>3 DEF BatchesRight
    <3> QED BY <3>1, <3>2, <3>3
  <2> QED BY <2>1, <2>2 DEF BatchesRight
<1>14. ReadyRight'
  <2>1. ~muxReady[c]
    BY <1>3 DEF MuxWaiting
  <2> QED BY <1>1, <1>9, <2>1 DEF ReadyRight, Own
<1> QED BY <1>7, <1>8, <1>13, <1>14 DEF Placed

\* ComputeBlocking of the parent: all children get its evaluations.
LEMMA ComputePlaces ==
    ASSUME MuxInv, NEW w \in MuxWorkers, MuxCompute(w)
    PROVE  Placed'
<1> USE DEF MuxInv
<1>1. /\ muxWorker[w] = "compute"
      /\ UNCHANGED <<muxQueue, muxAbort, muxCaller, muxSize, muxReady, muxIdx, muxChildren,
                     muxParent, muxDestructor>>
      /\ muxWorker'[w] = "notify"
      /\ \A v \in MuxWorkers \ {w} : muxWorker'[v] = muxWorker[v]
  BY DEF MuxCompute, MuxTypeOK
<1>2. \A x \in Callers : muxOutputs'[x] = IF In(muxChildren[w], x) THEN muxParent[w] ELSE muxOutputs[x]
  <2>1. \A x \in Callers : Contains(muxChildren[w], x) <=> In(muxChildren[w], x)
    <3>1. DOMAIN muxChildren[w] = 1 .. Len(muxChildren[w])
      BY DEF MuxTypeOK
    <3> QED BY <3>1 DEF Contains, In
  <2> QED BY <2>1 DEF MuxCompute
<1>3. ASSUME NEW x \in Callers, In(muxChildren[w], x)
      PROVE  ~muxReady[x] /\ muxCaller[x] = "wait" /\ ~In(muxQueue, x)
             /\ \A v \in MuxWorkers \ {w} : ~In(muxChildren[v], x)
  BY <1>3, HeldIsIn DEF MuxWaiting
<1>4. MuxWaitersHeld'
  BY <1>1 DEF MuxWaitersHeld, MuxQueued, MuxHeldBy, MuxWaiting
<1>5. CallersClean'
  BY <1>1, <1>2, <1>3 DEF CallersClean
<1>6. BatchesRight'
  <2>1. \A x \in Callers : In(muxQueue', x) => muxOutputs'[x] = << >>
    BY <1>1, <1>2, <1>3 DEF BatchesRight
  <2>2. ASSUME NEW v \in MuxWorkers, NEW x \in Callers, In(muxChildren'[v], x)
        PROVE  /\ muxWorker'[v] \in {"populate", "compute", "notify"}
               /\ Own(x, muxParent[v])'
               /\ muxOutputs'[x] = IF muxWorker'[v] = "notify" THEN muxParent'[v] ELSE << >>
    <3>1. In(muxChildren[v], x)
      BY <1>1, <2>2
    <3>2. Own(x, muxParent[v])'
      BY <1>1, <3>1 DEF BatchesRight, Own
    <3>3. CASE v = w
      BY <1>1, <1>2, <3>1, <3>2, <3>3
    <3>4. CASE v # w
      <4>1. ~In(muxChildren[w], x)
        BY <1>3, <3>1, <3>4
      <4> QED BY <1>1, <1>2, <3>1, <3>2, <3>4, <4>1 DEF BatchesRight
    <3> QED BY <3>3, <3>4
  <2> QED BY <2>1, <2>2 DEF BatchesRight
<1>7. ReadyRight'
  <2>1. \A x \in Callers : muxReady[x] => muxOutputs'[x] = muxOutputs[x]
    BY <1>2, <1>3
  <2> QED BY <1>1, <2>1 DEF ReadyRight, Own
<1> QED BY <1>4, <1>5, <1>6, <1>7 DEF Placed

\* A computation c that leaves its only place becomes ready: what MuxNotifyChild
\* and MuxUnstick have in common.
LEMMA ReadyPlaces ==
    ASSUME MuxInv, NEW c \in Callers, MuxWaiting(c),
           muxReady' = [muxReady EXCEPT ![c] = TRUE],
           UNCHANGED <<muxAbort, muxCaller, muxSize, muxIdx, muxOutputs, muxWorker, muxParent,
                       muxDestructor>>,
           \A x \in Callers : In(muxQueue', x) <=> In(muxQueue, x) /\ x # c,
           Distinct(muxQueue'),
           \A w \in MuxWorkers : Distinct(muxChildren'[w]),
           \A w \in MuxWorkers, x \in Callers :
               In(muxChildren'[w], x) <=> In(muxChildren[w], x) /\ x # c,
           (muxAbort /\ muxOutputs[c] = << >>) \/ Own(c, muxOutputs[c])
    PROVE  Placed'
<1> USE DEF MuxInv
<1>1. muxReady'[c] /\ \A x \in Callers \ {c} : muxReady'[x] = muxReady[x]
  BY DEF MuxTypeOK
<1>2. \A x \in Callers : MuxWaiting(x)' <=> MuxWaiting(x) /\ x # c
  BY <1>1 DEF MuxWaiting
<1>3. MuxWaitersHeld'
  <2>1. /\ \A x \in Callers : MuxWaiting(x)' <=>
             In(muxQueue', x) \/ \E w \in MuxWorkers : In(muxChildren'[w], x)
        /\ \A w \in MuxWorkers, x \in Callers : In(muxChildren'[w], x) =>
             ~In(muxQueue', x) /\ \A v \in MuxWorkers : In(muxChildren'[v], x) => v = w
    BY <1>2, HeldIsIn
  <2> QED BY <2>1 DEF MuxWaitersHeld, MuxQueued, MuxHeldBy, In, Distinct
<1>4. CallersClean'
  BY <1>1 DEF CallersClean, MuxWaiting
<1>5. BatchesRight'
  BY DEF BatchesRight, Own
<1>6. ReadyRight'
  BY <1>1 DEF ReadyRight, Own
<1> QED BY <1>3, <1>4, <1>5, <1>6 DEF Placed

\* What MuxNotifyChild(w) finds: its first child has its evaluations.
LEMMA ChildReady ==
    ASSUME MuxInv, NEW w \in MuxWorkers, MuxNotifyChild(w)
    PROVE  \E c \in Callers :
              /\ c = Head(muxChildren[w]) /\ MuxWaiting(c) /\ In(muxChildren[w], c)
              /\ Own(c, muxOutputs[c])
<1>1. muxChildren[w] # << >> /\ muxWorker[w] = "notify" /\ muxChildren[w] \in Seq(Callers)
      /\ Distinct(muxChildren[w])
  BY HeldIsIn DEF MuxNotifyChild, MuxInv, MuxTypeOK
<1>2. Head(muxChildren[w]) \in Callers /\ In(muxChildren[w], Head(muxChildren[w]))
  BY <1>1, Popped
<1>3. ASSUME NEW c \in Callers, In(muxChildren[w], c) PROVE MuxWaiting(c) /\ Own(c, muxOutputs[c])
  <2>1. MuxWaiting(c)
    BY <1>3, HeldIsIn DEF MuxInv
  <2>2. Own(c, muxParent[w]) /\ muxOutputs[c] = muxParent[w]
    BY <1>1, <1>3 DEF MuxInv, BatchesRight
  <2> QED BY <2>1, <2>2
<1> QED BY <1>2, <1>3

\* NotifyReady of a child.
LEMMA NotifyPlaces ==
    ASSUME MuxInv, NEW w \in MuxWorkers, MuxNotifyChild(w)
    PROVE  Placed'
<1>1. PICK c \in Callers : /\ c = Head(muxChildren[w]) /\ MuxWaiting(c) /\ In(muxChildren[w], c)
                           /\ Own(c, muxOutputs[c])
  BY ChildReady
<1>2. /\ muxReady' = [muxReady EXCEPT ![c] = TRUE]
      /\ muxChildren[w] # << >>
      /\ muxChildren' = [muxChildren EXCEPT ![w] = Tail(@)]
      /\ UNCHANGED <<muxQueue, muxAbort, muxCaller, muxSize, muxIdx, muxOutputs, muxWorker,
                     muxParent, muxDestructor>>
  BY <1>1 DEF MuxNotifyChild, MuxNotifyReady
<1>3. /\ muxChildren \in [MuxWorkers -> Seq(Callers)]
      /\ \A v \in MuxWorkers : Distinct(muxChildren[v])
      /\ Distinct(muxQueue)
  BY HeldIsIn DEF MuxInv, MuxTypeOK
<1>4. /\ \A x \in Callers : In(muxChildren'[w], x) <=> In(muxChildren[w], x) /\ x # c
      /\ Distinct(muxChildren'[w])
  BY <1>1, <1>2, <1>3, Popped
<1>5. \A v \in MuxWorkers \ {w} : muxChildren'[v] = muxChildren[v] /\ ~In(muxChildren[v], c)
  BY <1>1, <1>2, <1>3, HeldIsIn DEF MuxInv
<1>6. ~In(muxQueue, c)
  BY <1>1, HeldIsIn DEF MuxInv
<1>7. \A v \in MuxWorkers : /\ Distinct(muxChildren'[v])
                            /\ \A x \in Callers : In(muxChildren'[v], x) <=> In(muxChildren[v], x) /\ x # c
  BY <1>3, <1>4, <1>5
<1>8. \A x \in Callers : In(muxQueue', x) <=> In(muxQueue, x) /\ x # c
  BY <1>2, <1>6
<1>9. Distinct(muxQueue')
  BY <1>2, <1>3
<1> QED BY <1>1, <1>2, <1>7, <1>8, <1>9, ReadyPlaces

\* What MuxUnstick finds: the head of the queue waits and has no evaluations.
LEMMA StuckWaits ==
    ASSUME MuxInv, MuxUnstick
    PROVE  /\ muxAbort
           /\ \E c \in Callers :
                 /\ c = Head(muxQueue) /\ MuxWaiting(c) /\ In(muxQueue, c)
                 /\ muxOutputs[c] = << >>
<1>1. muxQueue # << >> /\ muxQueue \in Seq(Callers) /\ Distinct(muxQueue) /\ muxAbort
  BY HeldIsIn DEF MuxUnstick, MuxInv, MuxTypeOK, ReadyRight
<1>2. Head(muxQueue) \in Callers /\ In(muxQueue, Head(muxQueue))
  BY <1>1, Popped
<1>3. ASSUME NEW c \in Callers, In(muxQueue, c) PROVE MuxWaiting(c) /\ muxOutputs[c] = << >>
  BY <1>3, HeldIsIn DEF MuxInv, BatchesRight
<1> QED BY <1>1, <1>2, <1>3

\* NotifyReady of a computation that the destructor finds in the queue.
LEMMA UnstickPlaces ==
    ASSUME MuxInv, MuxUnstick
    PROVE  Placed'
<1>1. PICK c \in Callers : /\ c = Head(muxQueue) /\ MuxWaiting(c) /\ In(muxQueue, c)
                           /\ muxOutputs[c] = << >>
  BY StuckWaits
<1>2. /\ muxReady' = [muxReady EXCEPT ![c] = TRUE]
      /\ muxQueue # << >>
      /\ muxQueue' = Tail(muxQueue)
      /\ UNCHANGED <<muxChildren, muxAbort, muxCaller, muxSize, muxIdx, muxOutputs, muxWorker,
                     muxParent, muxDestructor>>
  BY <1>1 DEF MuxUnstick, MuxNotifyReady, workerVars
<1>3. muxQueue \in Seq(Callers) /\ Distinct(muxQueue) /\ \A v \in MuxWorkers : Distinct(muxChildren[v])
  BY HeldIsIn DEF MuxInv, MuxTypeOK
<1>4. /\ \A x \in Callers : In(muxQueue', x) <=> In(muxQueue, x) /\ x # c
      /\ Distinct(muxQueue')
  BY <1>1, <1>2, <1>3, Popped
<1>5. \A v \in MuxWorkers : ~In(muxChildren[v], c)
  BY <1>1, HeldIsIn DEF MuxInv
<1>6. \A v \in MuxWorkers : /\ Distinct(muxChildren'[v])
                            /\ \A x \in Callers : In(muxChildren'[v], x) <=> In(muxChildren[v], x) /\ x # c
  BY <1>2, <1>3, <1>5
<1> QED BY <1>1, <1>2, <1>4, <1>6, StuckWaits, ReadyPlaces

-----------------------------------------------------------------------------
\* Every step keeps the invariant.
LEMMA MuxNextInv == MuxInv /\ [MuxNext]_muxVars => MuxInv'
<1> SUFFICES ASSUME MuxInv, [MuxNext]_muxVars PROVE MuxInv'
  OBVIOUS
<1>1. MuxTypeOK'
  BY MuxTypeKept
<1>2. Placed'
  BY EnqueuePlaces, ReturnPlaces, MuxWorkerMoves, PopulatePlaces, ComputePlaces, NotifyPlaces,
     DestructorMoves, UnstickPlaces, Stutters
     DEF MuxNext, MuxCallerStep, MuxWorkerStep, MuxDestructorStep
<1> QED BY <1>1, <1>2 DEF MuxInv, Placed

\* The inductive invariant of MuxingNetwork: where every computation is, and that the
\* evaluations it will read are its own (PopulateToParent, NotifyReady).
THEOREM MuxInvariance == MuxSpec => []MuxInv
<1> QED BY MuxInitInv, MuxNextInv, PTL DEF MuxSpec

\* MuxingNetwork loses no waiting caller and wakes none twice: whatever the
\* interleaving of Enqueue, the workers and the destructor, a computation that is
\* not ready is in one place from which it will be notified.
THEOREM WaitersAreHeld == MuxSpec => []MuxWaitersHeld
<1>1. MuxInv => MuxWaitersHeld
  BY DEF MuxInv
<1> QED BY <1>1, MuxInvariance, PTL

-----------------------------------------------------------------------------
(* Refinement. *)

\* A caller of which nothing visible changes looks the same to the service.
LEMMA MuxSameSeen ==
    ASSUME NEW c \in Callers, MuxInv,
           muxCaller'[c] = muxCaller[c], muxReady'[c] = muxReady[c], muxSize'[c] = muxSize[c],
           muxReady[c] => muxOutputs'[c] = muxOutputs[c] /\ muxIdx'[c] = muxIdx[c]
    PROVE  MuxPhase'[c] = MuxPhase[c] /\ MuxAnswer'[c] = MuxAnswer[c]
BY DEF MuxPhase, MuxAnswer, MuxComputed, MuxGetVal

\* A function that differs at one argument.
LEMMA MuxOneChanges ==
    ASSUME NEW C, NEW f, NEW g, NEW c \in C, NEW v,
           f = [x \in C |-> f[x]], g = [x \in C |-> g[x]],
           g[c] = v, \A x \in C \ {c} : g[x] = f[x]
    PROVE  g = [f EXCEPT ![c] = v]
OBVIOUS

\* The mapped variables are functions on the callers.
LEMMA MuxAreFunctions ==
    /\ MuxPhase = [x \in Callers |-> MuxPhase[x]]
    /\ MuxAnswer = [x \in Callers |-> MuxAnswer[x]]
    /\ (MuxPhase = [x \in Callers |-> MuxPhase[x]])'
    /\ (MuxAnswer = [x \in Callers |-> MuxAnswer[x]])'
BY DEF MuxPhase, MuxAnswer

\* Steps the service does not see.
LEMMA MuxUnseen ==
    ASSUME MuxInv, UNCHANGED <<muxCaller, muxReady, muxSize>>,
           \A c \in Callers : muxReady[c] =>
               muxOutputs'[c] = muxOutputs[c] /\ muxIdx'[c] = muxIdx[c]
    PROVE  MuxPhase' = MuxPhase /\ MuxAnswer' = MuxAnswer
<1>1. \A c \in Callers : MuxPhase'[c] = MuxPhase[c] /\ MuxAnswer'[c] = MuxAnswer[c]
  BY MuxSameSeen
<1> QED BY <1>1, MuxAreFunctions

\* Enqueue is Submit.
LEMMA EnqueueSubmits ==
    ASSUME MuxInv, NEW c \in Callers, NEW n \in 0 .. MaxBatch, MuxEnqueue(c, n)
    PROVE  MuxService!Submit(c, n)
<1>1. /\ muxCaller[c] = "idle" /\ ~muxReady[c] /\ ~muxAbort /\ ~muxAbort'
      /\ muxSize' = [muxSize EXCEPT ![c] = n]
      /\ muxCaller'[c] = "wait" /\ ~muxReady'[c]
      /\ UNCHANGED <<muxReady, muxIdx, muxOutputs>>
      /\ \A x \in Callers \ {c} : muxCaller'[x] = muxCaller[x] /\ muxSize'[x] = muxSize[x]
  BY DEF MuxEnqueue, MuxInv, CallersClean, ReadyRight, MuxTypeOK
<1>2. /\ MuxPhase[c] = "idle" /\ MuxPhase'[c] = "waiting"
      /\ MuxAnswer[c] = << >> /\ MuxAnswer'[c] = << >>
  BY <1>1 DEF MuxPhase, MuxAnswer
<1>3. \A x \in Callers \ {c} : MuxPhase'[x] = MuxPhase[x] /\ MuxAnswer'[x] = MuxAnswer[x]
  BY <1>1, MuxSameSeen
<1>4. MuxPhase' = [MuxPhase EXCEPT ![c] = "waiting"]
  BY <1>2, <1>3, MuxAreFunctions, MuxOneChanges
<1>5. MuxAnswer' = MuxAnswer
  BY <1>2, <1>3, MuxAreFunctions
<1> QED BY <1>1, <1>2, <1>4, <1>5 DEF MuxService!Submit

\* Destroying the computation is Return.
LEMMA MuxReleaseReturns ==
    ASSUME MuxInv, NEW c \in Callers, MuxRelease(c)
    PROVE  MuxService!Return(c)
<1>1. /\ muxCaller[c] = "read" /\ muxReady[c] /\ muxAbort' = muxAbort
      /\ muxSize' = [muxSize EXCEPT ![c] = 0]
      /\ muxCaller'[c] = "idle"
      /\ \A x \in Callers \ {c} :
            /\ muxCaller'[x] = muxCaller[x] /\ muxSize'[x] = muxSize[x]
            /\ muxReady'[x] = muxReady[x] /\ muxIdx'[x] = muxIdx[x]
            /\ muxOutputs'[x] = muxOutputs[x]
  BY DEF MuxRelease, MuxInv, CallersClean, MuxTypeOK
<1>2. MuxPhase[c] \in {"served", "cancelled"} /\ MuxPhase'[c] = "idle" /\ MuxAnswer'[c] = << >>
  BY <1>1 DEF MuxPhase, MuxAnswer
<1>3. \A x \in Callers \ {c} : MuxPhase'[x] = MuxPhase[x] /\ MuxAnswer'[x] = MuxAnswer[x]
  BY <1>1, MuxSameSeen
<1>4. MuxPhase' = [MuxPhase EXCEPT ![c] = "idle"]
  BY <1>2, <1>3, MuxAreFunctions, MuxOneChanges
<1>5. MuxAnswer' = [MuxAnswer EXCEPT ![c] = << >>]
  BY <1>2, <1>3, MuxAreFunctions, MuxOneChanges
<1> QED BY <1>1, <1>2, <1>4, <1>5 DEF MuxService!Return, MuxService!Nothing

\* MuxReturn changes the caller's place and nothing the service sees.
LEMMA ReturnUnseen ==
    ASSUME MuxInv, NEW c \in Callers, MuxReturn(c)
    PROVE  MuxPhase' = MuxPhase /\ MuxAnswer' = MuxAnswer /\ UNCHANGED <<muxSize, muxAbort>>
<1>1. /\ muxCaller[c] = "wait" /\ muxReady[c] /\ muxCaller'[c] = "read"
      /\ \A x \in Callers \ {c} : muxCaller'[x] = muxCaller[x]
      /\ UNCHANGED <<muxSize, muxReady, muxIdx, muxOutputs, muxAbort>>
  BY DEF MuxReturn, MuxInv, MuxTypeOK
<1>2. MuxPhase'[c] = MuxPhase[c] /\ MuxAnswer'[c] = MuxAnswer[c]
  BY <1>1 DEF MuxPhase, MuxAnswer, MuxComputed, MuxGetVal
<1>3. \A x \in Callers \ {c} : MuxPhase'[x] = MuxPhase[x] /\ MuxAnswer'[x] = MuxAnswer[x]
  BY <1>1, MuxSameSeen
<1>4. \A x \in Callers : MuxPhase'[x] = MuxPhase[x] /\ MuxAnswer'[x] = MuxAnswer[x]
  BY <1>2, <1>3
<1> QED BY <1>1, <1>4, MuxAreFunctions

\* A computation that becomes ready with its own evaluations is served, one
\* without evaluations is cancelled.
LEMMA ReadySeen ==
    ASSUME MuxInv, NEW c \in Callers, MuxWaiting(c),
           muxReady' = [muxReady EXCEPT ![c] = TRUE],
           UNCHANGED <<muxAbort, muxCaller, muxSize, muxIdx, muxOutputs>>,
           (muxAbort /\ muxOutputs[c] = << >>) \/ Own(c, muxOutputs[c])
    PROVE  MuxService!Serve(c) \/ MuxService!Cancel(c)
<1>1. /\ muxCaller[c] = "wait" /\ ~muxReady[c] /\ muxReady'[c]
      /\ \A x \in Callers \ {c} : muxReady'[x] = muxReady[x]
      /\ muxSize[c] \in Nat /\ muxIdx[c] \in Nat
  BY CallersAssumption DEF MuxInv, MuxTypeOK, MuxWaiting
<1>2. MuxPhase[c] = "waiting" /\ MuxAnswer[c] = << >>
  BY <1>1 DEF MuxPhase, MuxAnswer
<1>3. \A x \in Callers \ {c} : MuxPhase'[x] = MuxPhase[x] /\ MuxAnswer'[x] = MuxAnswer[x]
  BY <1>1, MuxSameSeen
<1>4. CASE MuxComputed(c)
  <2>1. MuxPhase'[c] = "served" /\ MuxAnswer'[c] = [i \in 1 .. muxSize[c] |-> MuxGetVal(c, i)]
    BY <1>1, <1>4 DEF MuxPhase, MuxAnswer, MuxComputed, MuxGetVal
  <2>2. muxSize[c] = 0 \/ Own(c, muxOutputs[c])
    BY <1>4 DEF MuxComputed
  <2>3. \A i \in 1 .. muxSize[c] : MuxGetVal(c, i) = <<c, i>>
    BY <1>1, <2>2 DEF MuxGetVal, Own
  <2>4. MuxAnswer'[c] = Inputs(c, muxSize[c])
    BY <2>1, <2>3 DEF Inputs
  <2>5. MuxPhase' = [MuxPhase EXCEPT ![c] = "served"]
    BY <1>3, <2>1, MuxAreFunctions, MuxOneChanges
  <2>6. MuxAnswer' = [MuxAnswer EXCEPT ![c] = Inputs(c, muxSize[c])]
    BY <1>3, <2>4, MuxAreFunctions, MuxOneChanges
  <2> QED BY <1>2, <2>5, <2>6 DEF MuxService!Serve, MuxService!Inputs, Inputs
<1>5. CASE ~MuxComputed(c)
  <2>1. MuxPhase'[c] = "cancelled" /\ MuxAnswer'[c] = << >>
    BY <1>1, <1>5 DEF MuxPhase, MuxAnswer, MuxComputed
  <2>2. muxAbort
    <3> SUFFICES ASSUME Own(c, muxOutputs[c]), muxOutputs[c] = << >> PROVE muxSize[c] = 0
      BY <1>5 DEF MuxComputed
    <3>1. muxIdx[c] + muxSize[c] <= 0
      BY DEF Own
    <3> QED BY <1>1, <3>1
  <2>3. MuxPhase' = [MuxPhase EXCEPT ![c] = "cancelled"]
    BY <1>3, <2>1, MuxAreFunctions, MuxOneChanges
  <2>4. MuxAnswer' = MuxAnswer
    BY <1>2, <1>3, <2>1, MuxAreFunctions
  <2> QED BY <1>2, <2>2, <2>3, <2>4 DEF MuxService!Cancel
<1> QED BY <1>4, <1>5

\* Every step of MuxingNetwork is a step of the service, or none.
LEMMA MuxStep ==
    MuxInv /\ [MuxNext]_muxVars => [MuxService!ServiceNext]_(MuxService!serviceVars)
<1> SUFFICES ASSUME MuxInv, [MuxNext]_muxVars
             PROVE  MuxService!ServiceNext \/ UNCHANGED MuxService!serviceVars
  OBVIOUS
<1>1. ASSUME NEW c \in Callers, NEW n \in 0 .. MaxBatch, MuxEnqueue(c, n)
      PROVE  MuxService!ServiceNext
  BY <1>1, EnqueueSubmits DEF MuxService!ServiceNext
<1>2. ASSUME NEW c \in Callers, MuxReturn(c) PROVE UNCHANGED MuxService!serviceVars
  BY <1>2, ReturnUnseen DEF MuxService!serviceVars
<1>3. ASSUME NEW c \in Callers, MuxRelease(c) PROVE MuxService!ServiceNext
  BY <1>3, MuxReleaseReturns DEF MuxService!ServiceNext
<1>4. ASSUME NEW w \in MuxWorkers,
             MuxGoToSleep(w) \/ MuxLeave(w) \/ MuxStartBatch(w) \/ MuxBatchFull(w)
                 \/ MuxBatchDone(w) \/ MuxSpuriousWake(w)
      PROVE  UNCHANGED MuxService!serviceVars
  <2>1. UNCHANGED <<callerVars, muxAbort>>
    BY <1>4 DEF MuxGoToSleep, MuxLeave, MuxStartBatch, MuxBatchFull, MuxBatchDone, MuxSpuriousWake
  <2> QED BY <2>1, MuxUnseen DEF callerVars, MuxService!serviceVars
<1>5. ASSUME NEW w \in MuxWorkers, MuxPopulate(w) PROVE UNCHANGED MuxService!serviceVars
  <2>1. UNCHANGED <<muxCaller, muxReady, muxSize, muxOutputs, muxAbort>>
    BY <1>5 DEF MuxPopulate
  <2>2. PICK c \in Callers : c = Head(muxQueue) /\ ~muxReady[c]
    <3>1. muxQueue # << >> /\ muxQueue \in Seq(Callers) /\ Distinct(muxQueue)
      BY <1>5, HeldIsIn DEF MuxPopulate, MuxFits, MuxInv, MuxTypeOK
    <3>2. Head(muxQueue) \in Callers /\ In(muxQueue, Head(muxQueue))
      BY <3>1, Popped
    <3>3. \A c \in Callers : In(muxQueue, c) => ~muxReady[c]
      BY HeldIsIn DEF MuxInv, MuxWaiting
    <3> QED BY <3>2, <3>3
  <2>3. \A x \in Callers : muxReady[x] => muxIdx'[x] = muxIdx[x]
    BY <1>5, <2>2 DEF MuxPopulate, MuxInv, MuxTypeOK
  <2> QED BY <2>1, <2>3, MuxUnseen DEF MuxService!serviceVars
<1>6. ASSUME NEW w \in MuxWorkers, MuxCompute(w) PROVE UNCHANGED MuxService!serviceVars
  <2>1. UNCHANGED <<muxCaller, muxReady, muxSize, muxIdx, muxAbort>>
    BY <1>6 DEF MuxCompute
  <2>2. \A x \in Callers : muxReady[x] => ~Contains(muxChildren[w], x)
    <3>1. DOMAIN muxChildren[w] = 1 .. Len(muxChildren[w])
      BY DEF MuxInv, MuxTypeOK
    <3> QED BY <3>1, HeldIsIn DEF MuxInv, MuxWaiting, Contains, In
  <2>3. \A x \in Callers : muxReady[x] => muxOutputs'[x] = muxOutputs[x]
    BY <1>6, <2>2 DEF MuxCompute
  <2> QED BY <2>1, <2>3, MuxUnseen DEF MuxService!serviceVars
<1>7. ASSUME NEW w \in MuxWorkers, MuxNotifyChild(w) PROVE MuxService!ServiceNext
  <2>1. PICK c \in Callers : c = Head(muxChildren[w]) /\ MuxWaiting(c) /\ Own(c, muxOutputs[c])
    BY <1>7, ChildReady
  <2>2. /\ muxReady' = [muxReady EXCEPT ![c] = TRUE]
        /\ UNCHANGED <<muxAbort, muxCaller, muxSize, muxIdx, muxOutputs>>
    BY <1>7, <2>1 DEF MuxNotifyChild, MuxNotifyReady
  <2> QED BY <2>1, <2>2, ReadySeen DEF MuxService!ServiceNext
<1>8. ASSUME MuxUnstick PROVE MuxService!ServiceNext
  <2>1. PICK c \in Callers : c = Head(muxQueue) /\ MuxWaiting(c) /\ muxOutputs[c] = << >>
    BY <1>8, StuckWaits
  <2>2. /\ muxReady' = [muxReady EXCEPT ![c] = TRUE]
        /\ UNCHANGED <<muxAbort, muxCaller, muxSize, muxIdx, muxOutputs>>
    BY <1>8, <2>1 DEF MuxUnstick, MuxNotifyReady
  <2> QED BY <1>8, <2>1, <2>2, StuckWaits, ReadySeen DEF MuxService!ServiceNext
<1>9. ASSUME MuxSetAbort PROVE MuxService!ServiceNext
  <2>1. UNCHANGED callerVars /\ ~muxAbort /\ muxAbort'
    BY <1>9 DEF MuxSetAbort, MuxInv, ReadyRight
  <2>2. MuxPhase' = MuxPhase /\ MuxAnswer' = MuxAnswer /\ muxSize' = muxSize
    BY <2>1, MuxUnseen DEF callerVars
  <2> QED BY <2>1, <2>2 DEF MuxService!ServiceNext, MuxService!Close
<1>10. ASSUME MuxNotifyAll \/ MuxWait \/ MuxDestroyed PROVE UNCHANGED MuxService!serviceVars
  <2>1. UNCHANGED <<callerVars, muxAbort>>
    BY <1>10 DEF MuxNotifyAll, MuxWait, MuxDestroyed
  <2> QED BY <2>1, MuxUnseen DEF callerVars, MuxService!serviceVars
<1>11. ASSUME UNCHANGED muxVars PROVE UNCHANGED MuxService!serviceVars
  BY <1>11, MuxUnseen DEF muxVars, MuxService!serviceVars
<1> QED
  BY <1>1, <1>2, <1>3, <1>4, <1>5, <1>6, <1>7, <1>8, <1>9, <1>10, <1>11
     DEF MuxNext, MuxCallerStep, MuxWorkerStep, MuxDestructorStep

\* A new network offers the service.
LEMMA MuxStartsOpen == MuxInit => MuxService!ServiceInit
<1> SUFFICES ASSUME MuxInit PROVE MuxService!ServiceInit
  OBVIOUS
<1>1. \A c \in Callers : MuxPhase[c] = "idle" /\ MuxAnswer[c] = << >>
  BY DEF MuxInit, MuxPhase, MuxAnswer
<1>2. MuxPhase = [c \in Callers |-> "idle"] /\ MuxAnswer = [c \in Callers |-> << >>]
  BY <1>1, MuxAreFunctions
<1> QED BY <1>2 DEF MuxInit, MuxService!ServiceInit, MuxService!Nothing

\* MuxingNetwork implements the service of network.h for every number of callers
\* and workers, every batch limit and every order of their steps: a caller reads
\* the evaluations of its own inputs, and only the destructor cancels a call.
THEOREM MuxRefinesService == MuxSpec => MuxImplementsService
<1>1. MuxInit => MuxService!ServiceInit
  BY MuxStartsOpen
<1>2. MuxInv /\ [MuxNext]_muxVars => [MuxService!ServiceNext]_(MuxService!serviceVars)
  BY MuxStep
<1> QED
  BY <1>1, <1>2, MuxInvariance, PTL DEF MuxSpec, MuxImplementsService, MuxService!ServiceSpec

(***************************************************************************)
(* The demultiplexing network.                                             *)
(***************************************************************************)
-----------------------------------------------------------------------------
(* The parts of a computation, counted where they are. *)

\* Places of the queue that hold a part of c.
Places(s, c) == {i \in 1 .. Len(s) : s[i] = c}

\* Workers that have taken a part of c, and those that have not added it yet.
Holders(c) ==
    {w \in DmxWorkers : dmxWorker[w] \in {"add", "compute", "notify"} /\ dmxItem[w][1] = c}
Adders(c) == {w \in DmxWorkers : dmxWorker[w] = "add" /\ dmxItem[w][1] = c}

Waits(c) == Cardinality(Places(dmxQueue, c))
Holds(c) == Cardinality(Holders(c))
Adds(c) == Cardinality(Adders(c))

\* Part j of c is being computed.
Computes(c, j) == \E w \in DmxWorkers : dmxWorker[w] = "compute" /\ dmxItem[w] = <<c, j>>

-----------------------------------------------------------------------------
(* The inductive invariant. *)

Part == [inputs : Seq(Callers \X Nat), computed : BOOLEAN]

DmxTypes ==
    /\ dmxQueue \in Seq(Callers)
    /\ dmxCaller \in [Callers -> {"idle", "split", "enqueue", "wait", "read"}]
    /\ dmxSize \in [Callers -> Nat]
    /\ dmxPartial \in [Callers -> Nat]
    /\ dmxLeft \in [Callers -> Int]
    /\ dmxToQueue \in [Callers -> Int]
    /\ dmxParts \in [Callers -> Seq(Part)]
    /\ dmxWorker \in [DmxWorkers -> {"loop", "wait", "take", "add", "compute", "notify", "done"}]
    /\ dmxItem \in [DmxWorkers -> {<<>>} \cup (Callers \X Nat)]
    /\ dmxMinSplit \in Nat

\* A worker that has taken a part knows of which computation, and which one once it
\* has added it.
WorkerFits(w) ==
    /\ dmxWorker[w] \in {"add", "compute", "notify"} => dmxItem[w] \in Callers \X Nat
    /\ dmxWorker[w] = "compute" => dmxItem[w][2] \in 1 .. Len(dmxParts[dmxItem[w][1]])

\* The countdown of c counts the parts that are still to be enqueued, in the queue
\* or with a worker; only c's own call has any.
CountdownRight(c) ==
    /\ dmxCaller[c] \in {"idle", "split", "read"} => Waits(c) = 0 /\ Holds(c) = 0
    /\ dmxCaller[c] \in {"enqueue", "wait"} => dmxLeft[c] = dmxToQueue[c] + Waits(c) + Holds(c)
    /\ dmxCaller[c] = "enqueue" => dmxToQueue[c] >= 1
    /\ dmxCaller[c] = "wait" => dmxToQueue[c] = 0

\* The parts there are and those to come hold all inputs, unless the destructor
\* takes some out of the queue.
PartsSuffice(c) ==
    /\ dmxCaller[c] \in {"idle", "split"} => dmxParts[c] = <<>>
    /\ dmxCaller[c] \in {"enqueue", "wait"} =>
           /\ dmxPartial[c] >= 1
           /\ ~dmxAbort => dmxSize[c] <= dmxPartial[c]
                                * (Len(dmxParts[c]) + dmxToQueue[c] + Waits(c) + Adds(c))
    /\ dmxCaller[c] = "read" => dmxSize[c] = 0 \/ dmxPartial[c] >= 1

\* Part j holds its slice of n inputs, of which a part takes p.
Slice(part, c, n, p, j) ==
    \A m \in 1 .. p : (j - 1) * p + m <= n => part.inputs[m] = <<c, (j - 1) * p + m>>

IsComputed(part) == part.computed

\* Every part holds its slice of the inputs, and is computed or being computed.
PartsRight(c) ==
    \A j \in 1 .. Len(dmxParts[c]) :
        /\ Slice(dmxParts[c][j], c, dmxSize[c], dmxPartial[c], j)
        /\ IsComputed(dmxParts[c][j]) \/ Computes(c, j)

DmxInv ==
    /\ DmxTypes
    /\ dmxDestructor = "none" <=> ~dmxAbort
    /\ \A w \in DmxWorkers : WorkerFits(w)
    /\ \A c \in Callers : CountdownRight(c) /\ PartsSuffice(c) /\ PartsRight(c)

-----------------------------------------------------------------------------
(* Arithmetic. *)

\* Division by the size of a part.
LEMMA Division ==
    ASSUME NEW a \in Int, NEW b \in Int, a >= 0, b > 0
    PROVE  /\ a \div b \in Int /\ a \div b >= 0
           /\ a % b \in 0 .. b - 1
           /\ a = b * (a \div b) + (a % b)
<1>1. a \div b \in Int /\ a % b \in 0 .. b - 1
  <2>1. a \div b \in Int
    OBVIOUS
  <2>2. a % b \in 0 .. b - 1
    OBVIOUS
  <2> QED BY <2>1, <2>2
<1>2. a = b * (a \div b) + (a % b)
  OBVIOUS
<1>3. a \div b >= 0
  OBVIOUS
<1> QED BY <1>1, <1>2, <1>3

\* DivideUp gives enough parts, and one at least.
LEMMA DivideUpSuffices ==
    ASSUME NEW a \in Int, NEW b \in Int, a >= 1, b >= 1
    PROVE  DivideUp(a, b) \in Int /\ DivideUp(a, b) >= 1 /\ a <= b * DivideUp(a, b)
<1> DEFINE n == a + b - 1
<1>1. n \in Int /\ n >= b /\ n >= 0 /\ b > 0
  OBVIOUS
<1>2. PICK d \in Int : d = n \div b
  BY <1>1, Division
<1>3. PICK r \in Int : r = n % b /\ r <= b - 1
  BY <1>1, Division
<1>4. n = b * d + r
  BY <1>1, <1>2, <1>3, Division
<1>5. d >= 1
  <2>1. n \div b >= 1
    <3> HIDE DEF n
    <3> QED BY <1>1
  <2> QED BY <1>2, <2>1
<1>6. a <= b * d
  <2>1. PICK m \in Int : m = b * d
    OBVIOUS
  <2> QED BY <1>3, <1>4, <2>1
<1> QED BY <1>2, <1>5, <1>6 DEF DivideUp

\* A batch with inputs has parts with inputs.
LEMMA PartialSizePositive ==
    ASSUME DmxTypes, NEW n \in Nat, n >= 1
    PROVE  DmxPartialSize(n) \in Nat /\ DmxPartialSize(n) >= 1
<1>1. Cardinality(DmxWorkers) \in Nat /\ Cardinality(DmxWorkers) >= 1
  <2>1. Cardinality(DmxWorkers) \in Nat
    BY DmxAssumption, FS_CardinalityType
  <2>2. Cardinality(DmxWorkers) # 0
    BY DmxAssumption, FS_EmptySet
  <2> QED BY <2>1, <2>2
<1>2. PICK even \in Int : even = DivideUp(n, Cardinality(DmxWorkers)) /\ even >= 1
  BY <1>1, DivideUpSuffices
<1>3. dmxMinSplit \in Nat
  BY DEF DmxTypes
<1> QED BY <1>2, <1>3 DEF DmxPartialSize

\* Part k of the samples is among s parts that hold all of them.
LEMMA PartInRange ==
    ASSUME NEW i \in Int, NEW p \in Int, NEW k \in Int, NEW r \in Int, NEW s \in Int,
           p >= 1, r >= 0, k >= 0, i = p * k + r, i < p * s
    PROVE  k < s
<1>1. p * k < p * s
  <2>1. PICK x \in Int : x = p * k
    OBVIOUS
  <2>2. PICK y \in Int : y = p * s
    OBVIOUS
  <2> QED BY <2>1, <2>2
<1> QED BY <1>1

-----------------------------------------------------------------------------
(* Counting. *)

\* A set that gains or loses one element.
LEMMA OneMore ==
    ASSUME NEW S, IsFiniteSet(S), NEW x, x \notin S
    PROVE  Cardinality(S \cup {x}) = Cardinality(S) + 1 /\ Cardinality(S) \in Nat
BY FS_AddElement, FS_CardinalityType

LEMMA OneLess ==
    ASSUME NEW S, IsFiniteSet(S), NEW x \in S
    PROVE  /\ Cardinality(S \ {x}) = Cardinality(S) - 1
           /\ Cardinality(S) \in Nat /\ Cardinality(S) >= 1
<1>1. Cardinality(S) \in Nat /\ Cardinality(S \ {x}) = Cardinality(S) - 1
  BY FS_RemoveElement, FS_CardinalityType
<1>2. Cardinality(S) # 0
  BY FS_EmptySet
<1> QED BY <1>1, <1>2

\* The places of a queue are finitely many.
LEMMA PlacesFinite ==
    ASSUME NEW s \in Seq(Callers), NEW x
    PROVE  IsFiniteSet(Places(s, x)) /\ Places(s, x) \subseteq 1 .. Len(s)
<1>1. Len(s) \in Nat
  OBVIOUS
<1>2. IsFiniteSet(1 .. Len(s))
  BY <1>1, FS_Interval
<1>3. Places(s, x) \subseteq 1 .. Len(s)
  BY DEF Places
<1> QED BY <1>2, <1>3, FS_Subset

\* The counts are natural numbers.
LEMMA CountTypes ==
    ASSUME DmxTypes, NEW c
    PROVE  /\ IsFiniteSet(Places(dmxQueue, c)) /\ Waits(c) \in Nat
           /\ IsFiniteSet(Holders(c)) /\ Holds(c) \in Nat
           /\ IsFiniteSet(Adders(c)) /\ Adds(c) \in Nat
<1>1. IsFiniteSet(Places(dmxQueue, c))
  BY PlacesFinite DEF DmxTypes
<1>2. Holders(c) \subseteq DmxWorkers /\ Adders(c) \subseteq DmxWorkers
  BY DEF Holders, Adders
<1>3. IsFiniteSet(Holders(c)) /\ IsFiniteSet(Adders(c))
  BY <1>2, DmxAssumption, FS_Subset
<1> QED BY <1>1, <1>3, FS_CardinalityType DEF Waits, Holds, Adds

\* Enqueue adds a part of c.
LEMMA PlacesAppend ==
    ASSUME NEW s \in Seq(Callers), NEW c \in Callers, NEW x \in Callers
    PROVE  Cardinality(Places(Append(s, c), x)) =
               Cardinality(Places(s, x)) + (IF x = c THEN 1 ELSE 0)
<1> DEFINE a == Append(s, c)
           n == Len(s)
<1>1. /\ n \in Nat /\ Len(a) = n + 1 /\ a[n + 1] = c
      /\ \A i \in 1 .. n : a[i] = s[i]
  OBVIOUS
<1>2. IsFiniteSet(Places(s, x)) /\ n + 1 \notin Places(s, x)
  <2>1. n + 1 \notin 1 .. n
    BY <1>1
  <2> QED BY <2>1, PlacesFinite
<1>3. Cardinality(Places(s, x)) \in Nat
  BY <1>2, FS_CardinalityType
<1> HIDE DEF a, n
<1>4. CASE x = c
  <2>1. Places(a, x) = Places(s, x) \cup {n + 1}
    BY <1>1, <1>4 DEF Places, n
  <2> QED BY <1>2, <1>4, <2>1, OneMore DEF a
<1>5. CASE x # c
  <2>1. Places(a, x) = Places(s, x)
    BY <1>1, <1>5 DEF Places, n
  <2> QED BY <1>3, <1>5, <2>1 DEF a
<1> QED BY <1>4, <1>5

\* A pop takes one part of the head.
LEMMA PlacesTail ==
    ASSUME NEW s \in Seq(Callers), s # <<>>, NEW x \in Callers
    PROVE  Cardinality(Places(s, x)) =
               Cardinality(Places(Tail(s), x)) + (IF x = Head(s) THEN 1 ELSE 0)
<1> DEFINE t == Tail(s)
           n == Len(s)
           P == Places(s, x) \ {1}
           f == [i \in P |-> i - 1]
<1>1. /\ n \in Nat /\ n >= 1 /\ Len(t) = n - 1 /\ Head(s) = s[1]
      /\ \A i \in 1 .. n - 1 : t[i] = s[i + 1]
  OBVIOUS
<1>2. IsFiniteSet(Places(s, x))
  BY PlacesFinite
<1>3. IsFiniteSet(P)
  BY <1>2, FS_Subset
<1> HIDE DEF t, n
<1>4. f \in Bijection(P, Places(t, x))
  <2>1. \A i \in P : i \in Int /\ i - 1 \in Places(t, x)
    <3> SUFFICES ASSUME NEW i \in P PROVE i \in Int /\ i - 1 \in Places(t, x)
      OBVIOUS
    <3>1. i \in 1 .. n /\ s[i] = x /\ i # 1
      BY DEF Places, n
    <3>2. i - 1 \in 1 .. n - 1 /\ (i - 1) + 1 = i
      BY <1>1, <3>1
    <3>3. t[i - 1] = s[i]
      BY <1>1, <3>2
    <3> QED BY <1>1, <3>1, <3>2, <3>3 DEF Places
  <2>2. \A j \in Places(t, x) : j + 1 \in P /\ (j + 1) - 1 = j
    <3> SUFFICES ASSUME NEW j \in Places(t, x) PROVE j + 1 \in P /\ (j + 1) - 1 = j
      OBVIOUS
    <3>1. j \in 1 .. n - 1 /\ t[j] = x
      BY <1>1 DEF Places
    <3>2. j + 1 \in 1 .. n /\ j + 1 # 1 /\ s[j + 1] = x /\ (j + 1) - 1 = j
      BY <1>1, <3>1
    <3> QED BY <3>2 DEF Places, n
  <2> HIDE DEF P
  <2>3. f \in [P -> Places(t, x)]
    BY <2>1
  <2>4. \A i, j \in P : f[i] = f[j] => i = j
    BY <2>1
  <2>5. \A j \in Places(t, x) : \E i \in P : f[i] = j
    <3> SUFFICES ASSUME NEW j \in Places(t, x) PROVE \E i \in P : f[i] = j
      OBVIOUS
    <3>1. j + 1 \in P /\ f[j + 1] = j
      BY <2>2
    <3> QED BY <3>1
  <2> HIDE DEF f
  <2> QED BY <2>3, <2>4, <2>5 DEF Bijection, Injection, Surjection, IsInjective
<1>5. Cardinality(P) = Cardinality(Places(t, x)) /\ Cardinality(P) \in Nat
  <2>1. ExistsBijection(P, Places(t, x))
    BY <1>4 DEF ExistsBijection
  <2> HIDE DEF P
  <2> QED BY <1>3, <2>1, FS_Bijection, FS_CardinalityType
<1>6. CASE x = Head(s)
  <2>1. 1 \in Places(s, x)
    BY <1>1, <1>6 DEF Places, n
  <2>2. Cardinality(P) = Cardinality(Places(s, x)) - 1 /\ Cardinality(Places(s, x)) \in Nat
    BY <1>2, <2>1, OneLess
  <2> HIDE DEF P
  <2> QED BY <1>5, <1>6, <2>2 DEF t
<1>7. CASE x # Head(s)
  <2>1. P = Places(s, x)
    BY <1>1, <1>7 DEF Places
  <2> HIDE DEF P
  <2> QED BY <1>5, <1>7, <2>1 DEF t
<1> QED BY <1>6, <1>7

\* Two sets that differ in w at most.
LEMMA DifferInOne ==
    ASSUME NEW S, NEW T, IsFiniteSet(S), IsFiniteSet(T), NEW w, S \ {w} = T \ {w}
    PROVE  /\ w \in S /\ w \in T => Cardinality(T) = Cardinality(S)
           /\ w \notin S /\ w \notin T => Cardinality(T) = Cardinality(S)
           /\ w \notin S /\ w \in T => Cardinality(T) = Cardinality(S) + 1
           /\ w \in S /\ w \notin T => Cardinality(T) = Cardinality(S) - 1
<1>1. ASSUME (w \in S /\ w \in T) \/ (w \notin S /\ w \notin T)
      PROVE  Cardinality(T) = Cardinality(S)
  <2>1. T = S
    BY <1>1
  <2> QED BY <2>1
<1>2. ASSUME w \notin S, w \in T PROVE Cardinality(T) = Cardinality(S) + 1
  <2>1. T = S \cup {w}
    BY <1>2
  <2> QED BY <1>2, <2>1, OneMore
<1>3. ASSUME w \in S, w \notin T PROVE Cardinality(T) = Cardinality(S) - 1
  <2>1. T = S \ {w}
    BY <1>3
  <2> QED BY <1>3, <2>1, OneLess
<1> QED BY <1>1, <1>2, <1>3

\* Nobody moves but w.
OnlyMoves(w) ==
    \A v \in DmxWorkers \ {w} : dmxWorker'[v] = dmxWorker[v] /\ dmxItem'[v] = dmxItem[v]

\* What a step of w does to the counts.
LEMMA MoverCounts ==
    ASSUME NEW w \in DmxWorkers, OnlyMoves(w), NEW x
    PROVE  /\ (w \in Holders(x) <=> w \in Holders(x)') => Holds(x)' = Holds(x)
           /\ w \notin Holders(x) /\ w \in Holders(x)' => Holds(x)' = Holds(x) + 1
           /\ w \in Holders(x) /\ w \notin Holders(x)' => Holds(x)' = Holds(x) - 1
           /\ (w \in Adders(x) <=> w \in Adders(x)') => Adds(x)' = Adds(x)
           /\ w \notin Adders(x) /\ w \in Adders(x)' => Adds(x)' = Adds(x) + 1
           /\ w \in Adders(x) /\ w \notin Adders(x)' => Adds(x)' = Adds(x) - 1
<1>1. /\ Holders(x) \subseteq DmxWorkers /\ Holders(x)' \subseteq DmxWorkers
      /\ Adders(x) \subseteq DmxWorkers /\ Adders(x)' \subseteq DmxWorkers
  BY DEF Holders, Adders
<1>2. /\ IsFiniteSet(Holders(x)) /\ IsFiniteSet(Holders(x)')
      /\ IsFiniteSet(Adders(x)) /\ IsFiniteSet(Adders(x)')
  BY <1>1, DmxAssumption, FS_Subset
<1>3. Holders(x) \ {w} = Holders(x)' \ {w} /\ Adders(x) \ {w} = Adders(x)' \ {w}
  BY DEF OnlyMoves, Holders, Adders
<1>4. PICK S, T, U, V : S = Holders(x) /\ T = Holders(x)' /\ U = Adders(x) /\ V = Adders(x)'
  OBVIOUS
<1>5. /\ Holds(x) = Cardinality(S) /\ Holds(x)' = Cardinality(T)
      /\ Adds(x) = Cardinality(U) /\ Adds(x)' = Cardinality(V)
  BY <1>4 DEF Holds, Adds
<1>6. /\ w \in S /\ w \in T => Cardinality(T) = Cardinality(S)
      /\ w \notin S /\ w \notin T => Cardinality(T) = Cardinality(S)
      /\ w \notin S /\ w \in T => Cardinality(T) = Cardinality(S) + 1
      /\ w \in S /\ w \notin T => Cardinality(T) = Cardinality(S) - 1
  BY <1>2, <1>3, <1>4, DifferInOne
<1>7. /\ w \in U /\ w \in V => Cardinality(V) = Cardinality(U)
      /\ w \notin U /\ w \notin V => Cardinality(V) = Cardinality(U)
      /\ w \notin U /\ w \in V => Cardinality(V) = Cardinality(U) + 1
      /\ w \in U /\ w \notin V => Cardinality(V) = Cardinality(U) - 1
  BY <1>2, <1>3, <1>4, DifferInOne
<1> QED BY <1>4, <1>5, <1>6, <1>7

-----------------------------------------------------------------------------
(* Steps. *)

CallerRight(c) == CountdownRight(c) /\ PartsSuffice(c) /\ PartsRight(c)

\* A step leaves c and its parts where they are.
Untouched(c) ==
    /\ dmxCaller'[c] = dmxCaller[c] /\ dmxSize'[c] = dmxSize[c]
    /\ dmxPartial'[c] = dmxPartial[c] /\ dmxLeft'[c] = dmxLeft[c]
    /\ dmxToQueue'[c] = dmxToQueue[c] /\ dmxParts'[c] = dmxParts[c]
    /\ Waits(c)' = Waits(c) /\ Holds(c)' = Holds(c) /\ Adds(c)' = Adds(c)
    /\ \A j \in Nat : Computes(c, j) => Computes(c, j)'

\* Then what is right stays so.
LEMMA UntouchedRight ==
    ASSUME DmxTypes, NEW c \in Callers, CallerRight(c), Untouched(c), dmxAbort => dmxAbort'
    PROVE  CallerRight(c)'
<1>1. CountdownRight(c)'
  BY DEF CallerRight, CountdownRight, Untouched
<1>2. PartsSuffice(c)'
  BY DEF CallerRight, PartsSuffice, Untouched
<1>3. PartsRight(c)'
  <2> SUFFICES ASSUME NEW j \in 1 .. Len(dmxParts'[c])
               PROVE  /\ Slice(dmxParts'[c][j], c, dmxSize'[c], dmxPartial'[c], j)
                      /\ IsComputed(dmxParts'[c][j]) \/ Computes(c, j)'
    BY DEF PartsRight, Slice, IsComputed
  <2>1. /\ dmxParts'[c] = dmxParts[c] /\ dmxPartial'[c] = dmxPartial[c]
        /\ dmxSize'[c] = dmxSize[c]
    BY DEF Untouched
  <2>2. j \in 1 .. Len(dmxParts[c]) /\ j \in Nat
    BY <2>1
  <2>3. /\ Slice(dmxParts[c][j], c, dmxSize[c], dmxPartial[c], j)
        /\ IsComputed(dmxParts[c][j]) \/ Computes(c, j)
    BY <2>2 DEF CallerRight, PartsRight
  <2>4. Computes(c, j) => Computes(c, j)'
    BY <2>2 DEF Untouched
  <2> QED BY <2>1, <2>3, <2>4
<1> QED BY <1>1, <1>2, <1>3 DEF CallerRight

\* A step that moves only w, and w neither from nor to a part, touches nobody.
LEMMA IdleMove ==
    ASSUME DmxInv, UNCHANGED <<dmxQueue, dmxCallerVars>>, NEW w \in DmxWorkers, OnlyMoves(w),
           dmxWorker[w] \notin {"add", "compute", "notify"},
           dmxWorker'[w] \notin {"add", "compute", "notify"},
           dmxAbort => dmxAbort'
    PROVE  /\ \A v \in DmxWorkers : WorkerFits(v)'
           /\ \A c \in Callers : CallerRight(c)'
<1> USE DEF dmxCallerVars
<1>1. ASSUME NEW v \in DmxWorkers PROVE WorkerFits(v)'
  <2>1. WorkerFits(v)
    BY DEF DmxInv
  <2>2. CASE v = w
    BY <2>2 DEF WorkerFits
  <2>3. CASE v # w
    BY <2>1, <2>3 DEF WorkerFits, OnlyMoves
  <2> QED BY <2>2, <2>3
<1>2. ASSUME NEW c \in Callers PROVE CallerRight(c)'
  <2>1. Waits(c)' = Waits(c)
    BY DEF Waits, Places
  <2>2. w \notin Holders(c) /\ w \notin Holders(c)' /\ w \notin Adders(c) /\ w \notin Adders(c)'
    BY DEF Holders, Adders
  <2>3. Holds(c)' = Holds(c) /\ Adds(c)' = Adds(c)
    BY <2>2, MoverCounts
  <2>4. ASSUME NEW j \in Nat, Computes(c, j) PROVE Computes(c, j)'
    <3>1. PICK v \in DmxWorkers : dmxWorker[v] = "compute" /\ dmxItem[v] = <<c, j>>
      BY <2>4 DEF Computes
    <3>2. v # w
      BY <3>1
    <3> QED BY <3>1, <3>2 DEF Computes, OnlyMoves
  <2>5. Untouched(c)
    BY <2>1, <2>3, <2>4 DEF Untouched
  <2> QED BY <2>5, UntouchedRight DEF DmxInv, CallerRight
<1> QED BY <1>1, <1>2

\* What every step keeps, besides the types.
Kept ==
    /\ dmxDestructor' = "none" <=> ~dmxAbort'
    /\ \A w \in DmxWorkers : WorkerFits(w)'
    /\ \A c \in Callers : CallerRight(c)'

\* Workers that sleep, wake, leave or find the queue empty, and the destructor.
LEMMA QuietKeeps ==
    ASSUME DmxInv,
           \/ \E w \in DmxWorkers : \/ DmxGoToSleep(w) \/ DmxLeave(w) \/ DmxStart(w)
                                    \/ DmxSpuriousWake(w)
           \/ DmxSetAbort \/ DmxNotifyAll \/ DmxWait \/ DmxDestroyed
           \/ UNCHANGED dmxVars
    PROVE  Kept
<1> DEFINE Abort == dmxDestructor' = "none" <=> ~dmxAbort'
<1> USE DEF dmxCallerVars, dmxWorkerVars
<1>0. /\ dmxDestructor = "none" <=> ~dmxAbort
      /\ dmxWorker \in [DmxWorkers ->
                          {"loop", "wait", "take", "add", "compute", "notify", "done"}]
  BY DEF DmxInv, DmxTypes
<1>1. ASSUME NEW w \in DmxWorkers, DmxGoToSleep(w) \/ DmxLeave(w) \/ DmxStart(w) PROVE Kept
  <2>1. /\ UNCHANGED <<dmxQueue, dmxCallerVars, dmxAbort, dmxDestructor>> /\ OnlyMoves(w)
        /\ dmxWorker[w] \in {"loop", "wait"} /\ dmxWorker'[w] \in {"wait", "done", "take"}
    BY <1>0, <1>1 DEF DmxGoToSleep, DmxLeave, DmxStart, DmxAwake, OnlyMoves
  <2>2. dmxDestructor' = "none" <=> ~dmxAbort'
    BY <1>0, <2>1
  <2> QED BY <2>1, <2>2, IdleMove DEF Kept
<1>2. ASSUME UNCHANGED <<dmxQueue, dmxCallerVars, dmxWorkerVars>>, dmxAbort => dmxAbort',
             dmxDestructor' = "none" <=> ~dmxAbort'
      PROVE  Kept
  <2>1. PICK w : w \in DmxWorkers
    BY DmxAssumption
  <2>2. ASSUME NEW v \in DmxWorkers PROVE WorkerFits(v)'
    BY <1>2 DEF WorkerFits, DmxInv
  <2>3. ASSUME NEW c \in Callers PROVE CallerRight(c)'
    <3>1. Untouched(c)
      BY <1>2 DEF Untouched, Waits, Holds, Adds, Holders, Adders, Computes
    <3> QED BY <1>2, <3>1, UntouchedRight DEF DmxInv, CallerRight
  <2> QED BY <1>2, <2>2, <2>3 DEF Kept
<1>3. ASSUME NEW w \in DmxWorkers, DmxSpuriousWake(w) PROVE Kept
  BY <1>0, <1>2, <1>3 DEF DmxSpuriousWake
<1>4. ASSUME DmxSetAbort PROVE Kept
  <2>1. UNCHANGED <<dmxQueue, dmxCallerVars, dmxWorkerVars>> /\ dmxAbort' /\ dmxDestructor' # "none"
    BY <1>4 DEF DmxSetAbort
  <2> QED BY <1>2, <2>1
<1>5. ASSUME DmxNotifyAll \/ DmxWait \/ DmxDestroyed PROVE Kept
  <2>1. /\ UNCHANGED <<dmxQueue, dmxCallerVars, dmxWorkerVars, dmxAbort>>
        /\ dmxDestructor # "none" /\ dmxDestructor' # "none"
    BY <1>5 DEF DmxNotifyAll, DmxWait, DmxDestroyed
  <2> QED BY <1>0, <1>2, <2>1
<1>6. ASSUME UNCHANGED dmxVars PROVE Kept
  BY <1>0, <1>2, <1>6 DEF dmxVars
<1> QED BY <1>1, <1>3, <1>4, <1>5, <1>6

-----------------------------------------------------------------------------
(* Steps of the callers. *)

\* The computation of x stays as it is.
FieldsSame(x) ==
    /\ dmxCaller'[x] = dmxCaller[x] /\ dmxSize'[x] = dmxSize[x]
    /\ dmxPartial'[x] = dmxPartial[x] /\ dmxLeft'[x] = dmxLeft[x]
    /\ dmxToQueue'[x] = dmxToQueue[x] /\ dmxParts'[x] = dmxParts[x]

\* Nobody has a part of c.
LEMMA NoHolders ==
    ASSUME DmxTypes, NEW c, Holds(c) = 0
    PROVE  Holders(c) = {}
BY CountTypes, FS_EmptySet DEF Holds

\* A worker with a part of c is one of its holders.
LEMMA HolderFits ==
    ASSUME DmxInv, NEW w \in DmxWorkers, dmxWorker[w] \in {"add", "compute", "notify"}
    PROVE  /\ dmxItem[w] \in Callers \X Nat /\ dmxItem[w][1] \in Callers
           /\ w \in Holders(dmxItem[w][1])
<1>1. dmxItem[w] \in Callers \X Nat
  BY DEF DmxInv, WorkerFits
<1>2. dmxItem[w][1] \in Callers
  BY <1>1
<1> QED BY <1>1, <1>2 DEF Holders

\* A step of c's own call.
LEMMA CallerMoves ==
    ASSUME DmxInv, NEW c \in Callers, UNCHANGED <<dmxWorkerVars, dmxAbort, dmxDestructor>>,
           \A x \in Callers \ {c} : FieldsSame(x) /\ Waits(x)' = Waits(x),
           dmxParts'[c] = dmxParts[c] \/ Holders(c) = {}, CallerRight(c)'
    PROVE  Kept
<1> USE DEF dmxWorkerVars
<1>1. ASSUME NEW w \in DmxWorkers PROVE WorkerFits(w)'
  <2>1. WorkerFits(w)
    BY DEF DmxInv
  <2>2. ASSUME dmxWorker[w] = "compute"
        PROVE  dmxParts'[dmxItem[w][1]] = dmxParts[dmxItem[w][1]]
    <3>1. dmxItem[w][1] \in Callers /\ w \in Holders(dmxItem[w][1])
      BY <2>2, HolderFits
    <3> QED BY <3>1 DEF FieldsSame
  <2> QED BY <2>1, <2>2 DEF WorkerFits
<1>2. ASSUME NEW x \in Callers PROVE CallerRight(x)'
  <2>1. CASE x = c
    BY <2>1
  <2>2. CASE x # c
    <3>1. Holds(x)' = Holds(x) /\ Adds(x)' = Adds(x) /\ \A j \in Nat : Computes(x, j) => Computes(x, j)'
      BY DEF Holds, Adds, Holders, Adders, Computes
    <3>2. FieldsSame(x) /\ Waits(x)' = Waits(x)
      BY <2>2
    <3>3. Untouched(x)
      BY <3>1, <3>2 DEF Untouched, FieldsSame
    <3> QED BY <3>3, UntouchedRight DEF DmxInv, CallerRight
  <2> QED BY <2>1, <2>2
<1>3. dmxDestructor' = "none" <=> ~dmxAbort'
  BY DEF DmxInv
<1> QED BY <1>1, <1>2, <1>3 DEF Kept

\* A step that leaves the workers and the queue alone leaves the counts alone.
LEMMA CountsStay ==
    ASSUME UNCHANGED <<dmxWorkerVars, dmxQueue>>, NEW x
    PROVE  Waits(x)' = Waits(x) /\ Holds(x)' = Holds(x) /\ Adds(x)' = Adds(x)
BY DEF Waits, Holds, Adds, Holders, Adders, Places, dmxWorkerVars

\* Without parts there is nothing that could be wrong.
LEMMA NoPartsRight == ASSUME NEW c, dmxParts'[c] = <<>> PROVE PartsRight(c)'
<1>1. Len(dmxParts'[c]) = 0
  OBVIOUS
<1>2. 1 .. Len(dmxParts'[c]) = {}
  BY <1>1
<1> QED BY <1>2 DEF PartsRight

\* AddInput and the call of ComputeBlocking.
LEMMA SubmitKeeps ==
    ASSUME DmxInv, NEW c \in Callers, NEW n \in 0 .. MaxBatch, DmxSubmit(c, n)
    PROVE  Kept
<1>0. DmxTypes /\ CallerRight(c)
  BY DEF DmxInv, CallerRight
<1>1. /\ dmxCaller[c] = "idle" /\ dmxCaller'[c] = "split"
      /\ UNCHANGED <<dmxQueue, dmxPartial, dmxLeft, dmxToQueue, dmxParts>>
      /\ UNCHANGED <<dmxWorkerVars, dmxAbort, dmxDestructor>>
      /\ \A x \in Callers \ {c} : FieldsSame(x)
  BY <1>0 DEF DmxSubmit, DmxTypes, FieldsSame
<1>2. \A x : Waits(x)' = Waits(x) /\ Holds(x)' = Holds(x) /\ Adds(x)' = Adds(x)
  BY <1>1, CountsStay
<1>3. Waits(c) = 0 /\ Holds(c) = 0 /\ dmxParts[c] = <<>>
  BY <1>0, <1>1 DEF CallerRight, CountdownRight, PartsSuffice
<1>4. CountdownRight(c)' /\ PartsSuffice(c)' /\ PartsRight(c)'
  BY <1>1, <1>2, <1>3, NoPartsRight DEF CountdownRight, PartsSuffice
<1> QED BY <1>1, <1>2, <1>4, CallerMoves DEF CallerRight

\* The batch is cut into parts.
LEMMA SplitKeeps ==
    ASSUME DmxInv, NEW c \in Callers, DmxSplit(c)
    PROVE  Kept
<1>0. DmxTypes /\ CallerRight(c)
  BY DEF DmxInv, CallerRight
<1>1. /\ dmxCaller[c] = "split" /\ UNCHANGED <<dmxQueue, dmxSize, dmxParts>>
      /\ UNCHANGED <<dmxWorkerVars, dmxAbort, dmxDestructor>>
  BY DEF DmxSplit
<1>2. \A x : Waits(x)' = Waits(x) /\ Holds(x)' = Holds(x) /\ Adds(x)' = Adds(x)
  BY <1>1, CountsStay
<1>3. Waits(c) = 0 /\ Holds(c) = 0 /\ dmxParts[c] = <<>>
  BY <1>0, <1>1 DEF CallerRight, CountdownRight, PartsSuffice
<1>4. \A x \in Callers \ {c} : FieldsSame(x)
  BY <1>0 DEF DmxSplit, DmxTypes, FieldsSame
<1>5. PartsRight(c)'
  BY <1>1, <1>3, NoPartsRight
<1>6. CASE dmxSize[c] = 0
  <2>1. dmxCaller'[c] = "read"
    BY <1>0, <1>6 DEF DmxSplit, DmxTypes
  <2>2. CountdownRight(c)' /\ PartsSuffice(c)'
    BY <1>1, <1>2, <1>3, <1>6, <2>1 DEF CountdownRight, PartsSuffice
  <2> QED BY <1>1, <1>2, <1>4, <1>5, <2>2, CallerMoves DEF CallerRight
<1>7. CASE dmxSize[c] # 0
  <2>1. PICK n \in Nat : n = dmxSize[c] /\ n >= 1
    BY <1>0, <1>7 DEF DmxTypes
  <2>2. PICK p \in Nat : p = DmxPartialSize(n) /\ p >= 1
    BY <1>0, <2>1, PartialSizePositive
  <2>3. PICK s \in Int : s = DivideUp(n, p) /\ s >= 1 /\ n <= p * s
    <3>1. n \in Int /\ p \in Int /\ n >= 1 /\ p >= 1
      BY <2>1, <2>2
    <3>2. DivideUp(n, p) \in Int /\ DivideUp(n, p) >= 1 /\ n <= p * DivideUp(n, p)
      BY <3>1, DivideUpSuffices
    <3> HIDE <2>1, <2>2
    <3> QED BY <3>2
  <2>4. /\ dmxCaller'[c] = "enqueue" /\ dmxPartial'[c] = p /\ dmxLeft'[c] = s
        /\ dmxToQueue'[c] = s /\ dmxSize'[c] = n
    BY <1>0, <1>1, <1>7, <2>1, <2>2, <2>3 DEF DmxSplit, DmxTypes
  <2>5. Adds(c) = 0
    <3>1. Holders(c) = {}
      BY <1>0, <1>3, NoHolders
    <3>2. Adders(c) = {}
      BY <3>1 DEF Holders, Adders
    <3> QED BY <3>2, FS_EmptySet DEF Adds
  <2>6. CountdownRight(c)'
    BY <1>2, <1>3, <2>3, <2>4 DEF CountdownRight
  <2>7. PartsSuffice(c)'
    <3>1. Len(dmxParts'[c]) = 0
      BY <1>1, <1>3
    <3>2. Len(dmxParts'[c]) + dmxToQueue'[c] + Waits(c)' + Adds(c)' = s
      BY <1>2, <1>3, <2>4, <2>5, <3>1
    <3> QED BY <2>2, <2>3, <2>4, <3>2 DEF PartsSuffice
  <2> QED BY <1>1, <1>2, <1>4, <1>5, <2>6, <2>7, CallerMoves DEF CallerRight
<1> QED BY <1>6, <1>7

\* The numbers of c in one state.
LEMMA NumberTypes ==
    ASSUME DmxTypes, NEW c \in Callers
    PROVE  /\ dmxSize[c] \in Nat /\ dmxPartial[c] \in Nat /\ dmxLeft[c] \in Int
           /\ dmxToQueue[c] \in Int /\ Len(dmxParts[c]) \in Nat
           /\ Waits(c) \in Nat /\ Holds(c) \in Nat /\ Adds(c) \in Nat
<1>1. dmxParts[c] \in Seq(Part)
  BY DEF DmxTypes
<1>2. Len(dmxParts[c]) \in Nat
  BY <1>1
<1> QED BY <1>2, CountTypes DEF DmxTypes

\* Enqueue moves one part into the queue.
LEMMA EnqueueKeeps ==
    ASSUME DmxInv, NEW c \in Callers, DmxEnqueue(c)
    PROVE  Kept
<1>0. DmxTypes /\ CallerRight(c)
  BY DEF DmxInv, CallerRight
<1>1. /\ dmxCaller[c] = "enqueue" /\ UNCHANGED <<dmxSize, dmxPartial, dmxLeft, dmxParts>>
      /\ UNCHANGED <<dmxWorkerVars, dmxAbort, dmxDestructor>>
      /\ dmxQueue' = Append(dmxQueue, c)
      /\ dmxToQueue'[c] = dmxToQueue[c] - 1
      /\ dmxCaller'[c] = IF dmxToQueue[c] = 1 THEN "wait" ELSE "enqueue"
  BY <1>0 DEF DmxEnqueue, DmxTypes
<1>2. \A x \in Callers \ {c} : FieldsSame(x)
  BY <1>0 DEF DmxEnqueue, DmxTypes, FieldsSame
<1>3. \A x : Holds(x)' = Holds(x) /\ Adds(x)' = Adds(x)
  BY <1>1 DEF Holds, Adds, Holders, Adders, dmxWorkerVars
<1>4. \A x \in Callers : Waits(x)' = Waits(x) + (IF x = c THEN 1 ELSE 0)
  BY <1>0, <1>1, PlacesAppend DEF Waits, DmxTypes
<1>5. \A x \in Callers \ {c} : Waits(x)' = Waits(x)
  BY <1>0, <1>4, CountTypes
<1>6. PICK t \in Int, q \in Nat, h \in Nat, a \in Nat, l \in Nat :
         t = dmxToQueue[c] /\ q = Waits(c) /\ h = Holds(c) /\ a = Adds(c)
         /\ l = Len(dmxParts[c])
  BY <1>0, NumberTypes
<1>7. t >= 1 /\ dmxLeft[c] = t + q + h
  BY <1>0, <1>1, <1>6 DEF CallerRight, CountdownRight
<1>8. Waits(c)' = q + 1 /\ Holds(c)' = h /\ Adds(c)' = a /\ dmxToQueue'[c] = t - 1
  BY <1>1, <1>3, <1>4, <1>6
<1>9. CountdownRight(c)'
  <2>1. t + q + h = (t - 1) + (q + 1) + h
    OBVIOUS
  <2>2. t # 1 => t - 1 >= 1
    BY <1>7
  <2>3. dmxLeft'[c] = (t - 1) + (q + 1) + h
    BY <1>1, <1>7, <2>1
  <2> QED BY <1>1, <1>6, <1>8, <2>2, <2>3 DEF CountdownRight
<1>10. PartsSuffice(c)'
  <2>1. l + t + q + a = l + (t - 1) + (q + 1) + a
    OBVIOUS
  <2>2. dmxPartial[c] >= 1 /\ (~dmxAbort => dmxSize[c] <= dmxPartial[c] * (l + t + q + a))
    BY <1>0, <1>1, <1>6 DEF CallerRight, PartsSuffice
  <2>3. ~dmxAbort' => dmxSize'[c] <= dmxPartial'[c]
                         * (Len(dmxParts'[c]) + dmxToQueue'[c] + Waits(c)' + Adds(c)')
    <3>1. Len(dmxParts'[c]) + dmxToQueue'[c] + Waits(c)' + Adds(c)' = l + t + q + a
      BY <1>1, <1>6, <1>8, <2>1
    <3> QED BY <1>1, <2>2, <3>1
  <2> QED BY <1>1, <2>2, <2>3 DEF PartsSuffice
<1>11. PartsRight(c)'
  <2>1. \A j : Computes(c, j)' <=> Computes(c, j)
    BY <1>1 DEF Computes, dmxWorkerVars
  <2> QED BY <1>0, <1>1, <2>1 DEF CallerRight, PartsRight, Slice, IsComputed
<1> QED BY <1>1, <1>2, <1>5, <1>9, <1>10, <1>11, CallerMoves DEF CallerRight

\* The wait is over: no part of c is in the queue or with a worker.
LEMMA ReturnKeeps ==
    ASSUME DmxInv, NEW c \in Callers, DmxReturn(c)
    PROVE  Kept /\ Waits(c) = 0 /\ Holds(c) = 0 /\ Adds(c) = 0 /\ dmxToQueue[c] = 0
<1>0. DmxTypes /\ CallerRight(c)
  BY DEF DmxInv, CallerRight
<1>1. /\ dmxCaller[c] = "wait" /\ dmxLeft[c] = 0 /\ dmxCaller'[c] = "read"
      /\ UNCHANGED <<dmxQueue, dmxSize, dmxPartial, dmxLeft, dmxToQueue, dmxParts>>
      /\ UNCHANGED <<dmxWorkerVars, dmxAbort, dmxDestructor>>
  BY <1>0 DEF DmxReturn, DmxDataReady, DmxTypes
<1>2. \A x \in Callers \ {c} : FieldsSame(x)
  BY <1>0 DEF DmxReturn, DmxTypes, FieldsSame
<1>3. \A x : Waits(x)' = Waits(x) /\ Holds(x)' = Holds(x) /\ Adds(x)' = Adds(x)
  BY <1>1, CountsStay
<1>4. PICK q \in Nat, h \in Nat : q = Waits(c) /\ h = Holds(c)
  BY <1>0, NumberTypes
<1>5. 0 = 0 + q + h /\ dmxToQueue[c] = 0 /\ dmxPartial[c] >= 1
  BY <1>0, <1>1, <1>4 DEF CallerRight, CountdownRight, PartsSuffice
<1>6. q = 0 /\ h = 0
  BY <1>5
<1>7. Adds(c) = 0
  <2>1. Holders(c) = {}
    BY <1>0, <1>4, <1>6, NoHolders
  <2>2. Adders(c) = {}
    BY <2>1 DEF Holders, Adders
  <2> QED BY <2>2, FS_EmptySet DEF Adds
<1>8. CountdownRight(c)' /\ PartsSuffice(c)'
  BY <1>1, <1>3, <1>4, <1>5, <1>6 DEF CountdownRight, PartsSuffice
<1>9. PartsRight(c)'
  <2>1. \A j : Computes(c, j)' <=> Computes(c, j)
    BY <1>1 DEF Computes, dmxWorkerVars
  <2> QED BY <1>0, <1>1, <2>1 DEF CallerRight, PartsRight, Slice, IsComputed
<1> QED BY <1>1, <1>2, <1>3, <1>4, <1>5, <1>6, <1>7, <1>8, <1>9, CallerMoves DEF CallerRight

\* The computation is destroyed when nobody has a part of it.
LEMMA ReleaseKeeps ==
    ASSUME DmxInv, NEW c \in Callers, DmxRelease(c)
    PROVE  Kept
<1>0. DmxTypes /\ CallerRight(c)
  BY DEF DmxInv, CallerRight
<1>1. /\ dmxCaller[c] = "read" /\ dmxCaller'[c] = "idle" /\ dmxParts'[c] = <<>>
      /\ UNCHANGED dmxQueue
      /\ UNCHANGED <<dmxWorkerVars, dmxAbort, dmxDestructor>>
  <2>1. dmxParts' = [dmxParts EXCEPT ![c] = <<>>] /\ DOMAIN dmxParts = Callers
    BY <1>0 DEF DmxRelease, DmxTypes
  <2>2. dmxParts'[c] = <<>>
    BY <2>1
  <2> QED BY <1>0, <2>2 DEF DmxRelease, DmxTypes
<1>2. \A x \in Callers \ {c} : FieldsSame(x)
  BY <1>0 DEF DmxRelease, DmxTypes, FieldsSame
<1>3. \A x : Waits(x)' = Waits(x) /\ Holds(x)' = Holds(x) /\ Adds(x)' = Adds(x)
  BY <1>1, CountsStay
<1>4. Waits(c) = 0 /\ Holds(c) = 0
  BY <1>0, <1>1 DEF CallerRight, CountdownRight
<1>5. Holders(c) = {}
  BY <1>0, <1>4, NoHolders
<1>6. CountdownRight(c)' /\ PartsSuffice(c)' /\ PartsRight(c)'
  BY <1>1, <1>3, <1>4, NoPartsRight DEF CountdownRight, PartsSuffice
<1> QED BY <1>1, <1>2, <1>3, <1>5, <1>6, CallerMoves DEF CallerRight

-----------------------------------------------------------------------------
(* Steps of the workers. *)

\* A step of w, which has no part but of c.
LEMMA DmxWorkerMoves ==
    ASSUME DmxInv, NEW w \in DmxWorkers, NEW c \in Callers, OnlyMoves(w),
           UNCHANGED <<dmxAbort, dmxDestructor>>,
           \A x \in Callers \ {c} : /\ FieldsSame(x) /\ Waits(x)' = Waits(x)
                                    /\ w \notin Holders(x) /\ w \notin Holders(x)',
           1 .. Len(dmxParts[c]) \subseteq 1 .. Len(dmxParts'[c]),
           WorkerFits(w)', CallerRight(c)'
    PROVE  Kept
<1>1. ASSUME NEW v \in DmxWorkers PROVE WorkerFits(v)'
  <2>1. CASE v = w
    BY <2>1
  <2>2. CASE v # w
    <3>1. WorkerFits(v) /\ dmxWorker'[v] = dmxWorker[v] /\ dmxItem'[v] = dmxItem[v]
      BY <2>2 DEF DmxInv, OnlyMoves
    <3>2. ASSUME dmxWorker[v] = "compute"
          PROVE  1 .. Len(dmxParts[dmxItem[v][1]]) \subseteq 1 .. Len(dmxParts'[dmxItem[v][1]])
      <4>1. PICK x \in Callers : x = dmxItem[v][1]
        BY <3>2, HolderFits
      <4> QED BY <4>1 DEF FieldsSame
    <3> QED BY <3>1, <3>2 DEF WorkerFits
  <2> QED BY <2>1, <2>2
<1>2. ASSUME NEW x \in Callers PROVE CallerRight(x)'
  <2>1. CASE x = c
    BY <2>1
  <2>2. CASE x # c
    <3>1. FieldsSame(x) /\ Waits(x)' = Waits(x) /\ w \notin Holders(x) /\ w \notin Holders(x)'
      BY <2>2
    <3>2. w \notin Adders(x) /\ w \notin Adders(x)'
      BY <3>1 DEF Holders, Adders
    <3>3. Holds(x)' = Holds(x) /\ Adds(x)' = Adds(x)
      BY <3>1, <3>2, MoverCounts
    <3>4. ASSUME NEW j \in Nat, Computes(x, j) PROVE Computes(x, j)'
      <4>1. PICK v \in DmxWorkers : dmxWorker[v] = "compute" /\ dmxItem[v] = <<x, j>>
        BY <3>4 DEF Computes
      <4>2. v # w
        BY <3>1, <4>1 DEF Holders
      <4> QED BY <4>1, <4>2 DEF Computes, OnlyMoves
    <3>5. Untouched(x)
      BY <3>1, <3>3, <3>4 DEF Untouched, FieldsSame
    <3> QED BY <3>5, UntouchedRight DEF DmxInv, CallerRight
  <2> QED BY <2>1, <2>2
<1>3. dmxDestructor' = "none" <=> ~dmxAbort'
  BY DEF DmxInv
<1> QED BY <1>1, <1>2, <1>3 DEF Kept

\* Only a call in progress has parts in the queue or with a worker.
LEMMA HasParts ==
    ASSUME DmxInv, NEW c \in Callers, Waits(c) # 0 \/ Holds(c) # 0
    PROVE  dmxCaller[c] \in {"enqueue", "wait"}
BY DEF DmxInv, DmxTypes, CountdownRight

\* A computation whose countdown stays and whose parts move on, none lost.
LEMMA PartsMove ==
    ASSUME DmxInv, NEW c \in Callers, dmxCaller[c] \in {"enqueue", "wait"},
           dmxCaller'[c] = dmxCaller[c], dmxSize'[c] = dmxSize[c],
           dmxPartial'[c] = dmxPartial[c], dmxToQueue'[c] = dmxToQueue[c],
           UNCHANGED dmxAbort,
           dmxLeft'[c] - (Waits(c)' + Holds(c)') = dmxLeft[c] - (Waits(c) + Holds(c)),
           dmxLeft'[c] \in Int, Waits(c)' \in Int, Holds(c)' \in Int,
           dmxAbort \/ Len(dmxParts'[c]) + dmxToQueue'[c] + Waits(c)' + Adds(c)'
                         = Len(dmxParts[c]) + dmxToQueue[c] + Waits(c) + Adds(c)
    PROVE  CountdownRight(c)' /\ PartsSuffice(c)'
<1>0. DmxTypes /\ CountdownRight(c) /\ PartsSuffice(c)
  BY DEF DmxInv
<1>1. PICK l \in Int, q \in Nat, h \in Nat, t \in Int :
         l = dmxLeft[c] /\ q = Waits(c) /\ h = Holds(c) /\ t = dmxToQueue[c]
  BY <1>0, NumberTypes
<1>2. PICK m \in Int, r \in Int, g \in Int :
         m = dmxLeft'[c] /\ r = Waits(c)' /\ g = Holds(c)'
  OBVIOUS
<1>3. m = t + r + g
  <2>1. l = t + q + h
    BY <1>0, <1>1 DEF CountdownRight
  <2>2. m - (r + g) = l - (q + h)
    BY <1>1, <1>2
  <2> QED BY <2>1, <2>2
<1>4. CountdownRight(c)'
  BY <1>0, <1>1, <1>2, <1>3 DEF CountdownRight
<1>5. PartsSuffice(c)'
  BY <1>0 DEF PartsSuffice
<1> QED BY <1>4, <1>5

\* The parts of c stay as they are, and who computes one goes on.
LEMMA SamePartsRight ==
    ASSUME DmxInv, NEW c \in Callers, dmxParts'[c] = dmxParts[c],
           dmxSize'[c] = dmxSize[c], dmxPartial'[c] = dmxPartial[c],
           \A j \in Nat : Computes(c, j) => Computes(c, j)'
    PROVE  PartsRight(c)'
<1> SUFFICES ASSUME NEW j \in 1 .. Len(dmxParts'[c])
             PROVE  /\ Slice(dmxParts'[c][j], c, dmxSize'[c], dmxPartial'[c], j)
                    /\ IsComputed(dmxParts'[c][j]) \/ Computes(c, j)'
  BY DEF PartsRight, Slice, IsComputed
<1>1. j \in 1 .. Len(dmxParts[c]) /\ j \in Nat
  OBVIOUS
<1>2. /\ Slice(dmxParts[c][j], c, dmxSize[c], dmxPartial[c], j)
      /\ IsComputed(dmxParts[c][j]) \/ Computes(c, j)
  BY <1>1 DEF DmxInv, PartsRight
<1> QED BY <1>1, <1>2

\* A worker takes a part out of the queue, or finds it empty.
LEMMA TakeKeeps ==
    ASSUME DmxInv, NEW w \in DmxWorkers, DmxTake(w)
    PROVE  Kept
<1>0. DmxTypes /\ dmxWorker[w] = "take" /\ (dmxDestructor = "none" <=> ~dmxAbort)
  BY DEF DmxInv, DmxTake
<1>1. UNCHANGED <<dmxAbort, dmxDestructor>> /\ UNCHANGED dmxCallerVars /\ OnlyMoves(w)
  BY <1>0 DEF DmxTake, OnlyMoves, DmxTypes
<1>2. CASE dmxQueue = <<>>
  <2>1. UNCHANGED dmxQueue /\ dmxWorker'[w] = "loop"
    BY <1>0, <1>2 DEF DmxTake, DmxTypes
  <2>2. (\A v \in DmxWorkers : WorkerFits(v)') /\ (\A c \in Callers : CallerRight(c)')
    BY <1>0, <1>1, <2>1, IdleMove
  <2> QED BY <1>0, <1>1, <2>2 DEF Kept
<1>3. CASE dmxQueue # <<>>
  <2>1. PICK c \in Callers : c = Head(dmxQueue)
    BY <1>0, <1>3 DEF DmxTypes
  <2>2. dmxQueue' = Tail(dmxQueue) /\ dmxWorker'[w] = "add" /\ dmxItem'[w] = <<c, 0>>
    BY <1>0, <1>3, <2>1 DEF DmxTake, DmxTypes
  <2>3. ASSUME NEW x \in Callers PROVE Waits(x) = Waits(x)' + (IF x = c THEN 1 ELSE 0)
    BY <1>0, <1>3, <2>1, <2>2, PlacesTail DEF Waits, DmxTypes
  <2>4. ASSUME NEW x \in Callers PROVE Waits(x)' \in Nat
    <3>1. Tail(dmxQueue) \in Seq(Callers)
      BY <1>0, <1>3 DEF DmxTypes
    <3>2. IsFiniteSet(Places(Tail(dmxQueue), x))
      BY <3>1, PlacesFinite
    <3> QED BY <2>2, <3>2, FS_CardinalityType DEF Waits
  <2>5. \A x \in Callers \ {c} : /\ FieldsSame(x) /\ Waits(x)' = Waits(x)
                                 /\ w \notin Holders(x) /\ w \notin Holders(x)'
    <3> SUFFICES ASSUME NEW x \in Callers \ {c}
                 PROVE  /\ FieldsSame(x) /\ Waits(x)' = Waits(x)
                        /\ w \notin Holders(x) /\ w \notin Holders(x)'
      OBVIOUS
    <3>1. Waits(x)' = Waits(x)
      BY <2>3, <2>4
    <3>2. FieldsSame(x)
      BY <1>1 DEF dmxCallerVars, FieldsSame
    <3>3. w \notin Holders(x) /\ w \notin Holders(x)'
      BY <1>0, <2>2 DEF Holders
    <3> QED BY <3>1, <3>2, <3>3
  <2>6. /\ w \notin Holders(c) /\ w \in Holders(c)'
        /\ w \notin Adders(c) /\ w \in Adders(c)'
    BY <1>0, <2>2 DEF Holders, Adders
  <2>7. Holds(c)' = Holds(c) + 1 /\ Adds(c)' = Adds(c) + 1
    BY <1>1, <2>6, MoverCounts
  <2>8. PICK q \in Nat, h \in Nat, a \in Nat, l \in Int, t \in Int, k \in Nat :
           /\ q = Waits(c)' /\ h = Holds(c) /\ a = Adds(c) /\ l = dmxLeft[c]
           /\ t = dmxToQueue[c] /\ k = Len(dmxParts[c])
    BY <1>0, <2>4, NumberTypes
  <2>9. Waits(c) = q + 1
    BY <2>3, <2>8
  <2>10. dmxCaller[c] \in {"enqueue", "wait"}
    <3>1. Waits(c) # 0
      BY <2>8, <2>9
    <3> QED BY <3>1, HasParts
  <2>11. CountdownRight(c)' /\ PartsSuffice(c)'
    <3>1. l - (q + (h + 1)) = l - ((q + 1) + h) /\ k + t + q + (a + 1) = k + t + (q + 1) + a
      OBVIOUS
    <3>2. dmxLeft'[c] - (Waits(c)' + Holds(c)') = dmxLeft[c] - (Waits(c) + Holds(c))
      BY <1>1, <2>7, <2>8, <2>9, <3>1 DEF dmxCallerVars
    <3>3. Len(dmxParts'[c]) + dmxToQueue'[c] + Waits(c)' + Adds(c)'
              = Len(dmxParts[c]) + dmxToQueue[c] + Waits(c) + Adds(c)
      BY <1>1, <2>7, <2>8, <2>9, <3>1 DEF dmxCallerVars
    <3>4. dmxLeft'[c] \in Int /\ Waits(c)' \in Int /\ Holds(c)' \in Int
      BY <1>1, <2>7, <2>8 DEF dmxCallerVars
    <3> QED BY <1>1, <2>10, <3>2, <3>3, <3>4, PartsMove DEF dmxCallerVars
  <2>12. PartsRight(c)'
    <3>1. ASSUME NEW j \in Nat, Computes(c, j) PROVE Computes(c, j)'
      <4>1. PICK v \in DmxWorkers : dmxWorker[v] = "compute" /\ dmxItem[v] = <<c, j>>
        BY <3>1 DEF Computes
      <4>2. v # w
        BY <1>0, <4>1
      <4> QED BY <1>1, <4>1, <4>2 DEF Computes, OnlyMoves
    <3> QED BY <1>1, <3>1, SamePartsRight DEF dmxCallerVars
  <2>13. WorkerFits(w)'
    BY <2>2 DEF WorkerFits
  <2>14. 1 .. Len(dmxParts[c]) \subseteq 1 .. Len(dmxParts'[c])
    BY <1>1 DEF dmxCallerVars
  <2> QED BY <1>1, <2>5, <2>11, <2>12, <2>13, <2>14, DmxWorkerMoves DEF CallerRight
<1> QED BY <1>2, <1>3

\* s holds the inputs from l * p, of which there are n.
SliceAt(s, c, n, p, l) ==
    /\ s \in Seq(Callers \X Nat)
    /\ \A m \in 1 .. p : l * p + m <= n => s[m] = <<c, l * p + m>>

\* The next part takes the next slice of the inputs.
LEMMA NextSlice ==
    ASSUME NEW c \in Callers, NEW n \in Nat, NEW p \in Nat, p >= 1, NEW l \in Nat,
           NEW e, e = (IF n < l * p + p THEN n ELSE l * p + p),
           NEW s, s = SubSeq(Inputs(c, n), l * p + 1, e)
    PROVE  SliceAt(s, c, n, p, l)
<1>1. PICK b \in Int : b = l * p
  OBVIOUS
<1>2. b >= 0
  BY <1>1
<1>3. e \in Int /\ e <= n /\ e <= b + p /\ (e = n \/ e = b + p)
  BY <1>1
<1>4. \A i \in b + 1 .. e : i \in 1 .. n /\ i \in Nat
  BY <1>2, <1>3
<1>5. \A i \in b + 1 .. e : Inputs(c, n)[i] = <<c, i>>
  BY <1>4 DEF Inputs
<1>6. ASSUME NEW i \in b + 1 .. e PROVE Inputs(c, n)[i] \in Callers \X Nat
  <2>1. i \in Nat
    BY <1>4
  <2>2. <<c, i>> \in Callers \X Nat
    BY <2>1
  <2> QED BY <1>5, <2>2
<1>7. b + 1 \in Int
  OBVIOUS
<1>8. s = SubSeq(Inputs(c, n), b + 1, e)
  BY <1>1
<1>9. \E f : \E a \in Int : f = Inputs(c, n) /\ a = b + 1
  BY <1>7
<1> PICK f : \E a \in Int : f = Inputs(c, n) /\ a = b + 1
  BY <1>9
<1> PICK a \in Int : f = Inputs(c, n) /\ a = b + 1
  OBVIOUS
<1>10. /\ SubSeq(f, a, e) \in Seq(Callers \X Nat)
       /\ \A i \in 1 .. e - a + 1 : SubSeq(f, a, e)[i] = f[a + i - 1]
  <2>1. \A i \in a .. e : f[i] \in Callers \X Nat
    BY <1>6
  <2> QED BY <1>3, <2>1, SubSeqProperties
<1>11. ASSUME NEW m \in 1 .. p, b + m <= n PROVE s[m] = <<c, b + m>>
  <2>1. m \in 1 .. e - a + 1 /\ a + m - 1 = b + m /\ b + m \in b + 1 .. e
    BY <1>3, <1>11
  <2>2. s[m] = f[b + m]
    BY <1>8, <1>10, <2>1
  <2> QED BY <1>5, <2>1, <2>2
<1> QED BY <1>1, <1>8, <1>10, <1>11 DEF SliceAt

\* AddParentFromNetwork appends the next part, which its worker computes.
LEMMA AddParentKeeps ==
    ASSUME DmxInv, NEW w \in DmxWorkers, DmxAddParent(w)
    PROVE  /\ Kept
           /\ dmxParts' \in [Callers -> Seq(Part)] /\ dmxItem' \in [DmxWorkers -> {<<>>} \cup (Callers \X Nat)]
           /\ \A x \in Callers : dmxParts'[x] = dmxParts[x] \/ dmxCaller[x] = "wait"
<1>0. DmxTypes /\ dmxWorker[w] = "add"
  BY DEF DmxInv, DmxAddParent
<1>1. PICK c \in Callers : c = dmxItem[w][1] /\ w \in Holders(c)
  BY <1>0, HolderFits
<1>2. PICK n \in Nat, p \in Nat, l \in Nat :
         n = dmxSize[c] /\ p = dmxPartial[c] /\ l = Len(dmxParts[c])
  BY <1>0, NumberTypes
<1>3. PICK s : s = DmxNextInputs(c)
  OBVIOUS
<1>4. PICK new : new = [inputs |-> s, computed |-> FALSE]
  OBVIOUS
<1>5. /\ dmxParts' = [dmxParts EXCEPT ![c] = Append(dmxParts[c], new)]
      /\ dmxItem' = [dmxItem EXCEPT ![w] = <<c, l + 1>>]
      /\ dmxWorker' = [dmxWorker EXCEPT ![w] = "compute"] /\ dmxCaller[c] # "enqueue"
      /\ UNCHANGED <<dmxQueue, dmxCaller, dmxSize, dmxPartial, dmxLeft, dmxToQueue>>
      /\ UNCHANGED <<dmxAbort, dmxDestructor>>
  BY <1>1, <1>2, <1>3, <1>4 DEF DmxAddParent
<1>6. dmxParts[c] \in Seq(Part) /\ dmxParts'[c] = Append(dmxParts[c], new)
  BY <1>0, <1>5 DEF DmxTypes
<1>7. OnlyMoves(w) /\ dmxItem'[w] = <<c, l + 1>> /\ dmxWorker'[w] = "compute"
  BY <1>0, <1>5 DEF OnlyMoves, DmxTypes
<1>8. dmxCaller[c] = "wait"
  <2>1. Holds(c) # 0
    BY <1>0, <1>1, NoHolders
  <2> QED BY <1>5, <2>1, HasParts
<1>9. p >= 1
  BY <1>2, <1>8 DEF DmxInv, PartsSuffice
<1>10. SliceAt(s, c, n, p, l)
  <2>1. PICK e : e = IF n < l * p + p THEN n ELSE l * p + p
    OBVIOUS
  <2>2. s = SubSeq(Inputs(c, n), l * p + 1, e)
    BY <1>2, <1>3, <2>1 DEF DmxNextInputs
  <2> QED BY <1>9, <2>1, <2>2, NextSlice
<1>11. new \in Part
  BY <1>4, <1>10 DEF Part, SliceAt
<1>12. /\ Len(dmxParts'[c]) = l + 1 /\ dmxParts'[c][l + 1] = new
       /\ \A j \in 1 .. l : dmxParts'[c][j] = dmxParts[c][j]
  BY <1>2, <1>6, <1>11
<1>13. \A x \in Callers \ {c} : /\ FieldsSame(x) /\ Waits(x)' = Waits(x)
                                /\ w \notin Holders(x) /\ w \notin Holders(x)'
  <2> SUFFICES ASSUME NEW x \in Callers \ {c}
               PROVE  /\ FieldsSame(x) /\ Waits(x)' = Waits(x)
                      /\ w \notin Holders(x) /\ w \notin Holders(x)'
    OBVIOUS
  <2>1. Waits(x)' = Waits(x)
    BY <1>5 DEF Waits
  <2>2. FieldsSame(x)
    BY <1>0, <1>5 DEF FieldsSame, DmxTypes
  <2>3. w \notin Holders(x) /\ w \notin Holders(x)'
    BY <1>1, <1>7 DEF Holders
  <2> QED BY <2>1, <2>2, <2>3
<1>14. Waits(c)' = Waits(c) /\ Holds(c)' = Holds(c) /\ Adds(c)' = Adds(c) - 1
  <2>1. w \in Holders(c)' /\ w \in Adders(c) /\ w \notin Adders(c)'
    BY <1>0, <1>1, <1>7 DEF Holders, Adders
  <2>2. Waits(c)' = Waits(c)
    BY <1>5 DEF Waits
  <2> QED BY <1>1, <1>7, <2>1, <2>2, MoverCounts
<1>15. CountdownRight(c)' /\ PartsSuffice(c)'
  <2>1. PICK q \in Nat, h \in Nat, a \in Nat, t \in Int, d \in Int :
           /\ q = Waits(c) /\ h = Holds(c) /\ a = Adds(c) /\ t = dmxToQueue[c]
           /\ d = dmxLeft[c]
    BY <1>0, NumberTypes
  <2>2. (l + 1) + t + q + (a - 1) = l + t + q + a
    OBVIOUS
  <2>3. Len(dmxParts'[c]) + dmxToQueue'[c] + Waits(c)' + Adds(c)'
            = Len(dmxParts[c]) + dmxToQueue[c] + Waits(c) + Adds(c)
    BY <1>2, <1>5, <1>12, <1>14, <2>1, <2>2
  <2>4. /\ dmxLeft'[c] - (Waits(c)' + Holds(c)') = dmxLeft[c] - (Waits(c) + Holds(c))
        /\ dmxLeft'[c] \in Int /\ Waits(c)' \in Int /\ Holds(c)' \in Int
    BY <1>5, <1>14, <2>1
  <2> QED BY <1>5, <1>8, <2>3, <2>4, PartsMove
<1>16. PartsRight(c)'
  <2> SUFFICES ASSUME NEW j \in 1 .. Len(dmxParts'[c])
               PROVE  /\ Slice(dmxParts'[c][j], c, dmxSize'[c], dmxPartial'[c], j)
                      /\ IsComputed(dmxParts'[c][j]) \/ Computes(c, j)'
    BY DEF PartsRight, Slice, IsComputed
  <2>1. j \in 1 .. l + 1 /\ j \in Nat
    BY <1>12
  <2>2. CASE j = l + 1
    <3>1. Computes(c, j)'
      BY <1>7, <2>2 DEF Computes
    <3>2. Slice(new, c, n, p, j)
      <4>1. j - 1 = l /\ new.inputs = s
        BY <1>4, <2>2
      <4> QED BY <1>10, <4>1 DEF Slice, SliceAt
    <3> QED BY <1>2, <1>5, <1>12, <2>2, <3>1, <3>2
  <2>3. CASE j # l + 1
    <3>1. j \in 1 .. l
      BY <2>1, <2>3
    <3>2. /\ Slice(dmxParts[c][j], c, dmxSize[c], dmxPartial[c], j)
          /\ IsComputed(dmxParts[c][j]) \/ Computes(c, j)
      BY <1>2, <3>1 DEF DmxInv, PartsRight
    <3>3. Computes(c, j) => Computes(c, j)'
      BY <1>0, <1>7 DEF Computes, OnlyMoves
    <3> QED BY <1>5, <1>12, <3>1, <3>2, <3>3
  <2> QED BY <2>2, <2>3
<1>17. WorkerFits(w)'
  <2>1. l + 1 \in 1 .. l + 1 /\ l + 1 \in Nat
    OBVIOUS
  <2>2. dmxItem'[w] \in Callers \X Nat /\ dmxItem'[w][1] = c /\ dmxItem'[w][2] = l + 1
    BY <1>7, <2>1
  <2> QED BY <1>12, <2>1, <2>2 DEF WorkerFits
<1>18. 1 .. Len(dmxParts[c]) \subseteq 1 .. Len(dmxParts'[c])
  BY <1>2, <1>12
<1>19. Kept
  BY <1>5, <1>7, <1>13, <1>15, <1>16, <1>17, <1>18, DmxWorkerMoves DEF CallerRight
<1>20. dmxParts' \in [Callers -> Seq(Part)]
  <2>1. Append(dmxParts[c], new) \in Seq(Part)
    BY <1>6, <1>11
  <2> QED BY <1>0, <1>5, <2>1 DEF DmxTypes
<1>21. dmxItem' \in [DmxWorkers -> {<<>>} \cup (Callers \X Nat)]
  <2>1. <<c, l + 1>> \in Callers \X Nat
    OBVIOUS
  <2> QED BY <1>0, <1>5, <2>1 DEF DmxTypes
<1>22. \A x \in Callers : dmxParts'[x] = dmxParts[x] \/ dmxCaller[x] = "wait"
  BY <1>8, <1>13 DEF FieldsSame
<1> QED BY <1>19, <1>20, <1>21, <1>22

\* A sequence keeps its length when one element is replaced.
LEMMA ReplacedOne ==
    ASSUME NEW P, NEW s \in Seq(P), NEW k \in 1 .. Len(s), NEW v \in P
    PROVE  [s EXCEPT ![k] = v] \in Seq(P) /\ Len([s EXCEPT ![k] = v]) = Len(s)
BY ExceptSeq

\* Part k of s is computed, and the others are as they were.
MarksComputed(s, k, t) ==
    /\ t \in Seq(Part) /\ Len(t) = Len(s)
    /\ t[k].inputs = s[k].inputs /\ IsComputed(t[k])
    /\ \A j \in 1 .. Len(s) : j # k => t[j] = s[j]

\* ComputeBlocking does that to the parts of a computation.
LEMMA ComputedPart ==
    ASSUME NEW s \in Seq(Part), NEW k \in 1 .. Len(s),
           NEW t, t = [s EXCEPT ![k].computed = TRUE]
    PROVE  MarksComputed(s, k, t)
<1>1. s[k] \in Part /\ Len(s) \in Nat
  OBVIOUS
<1>2. PICK v : v = [s[k] EXCEPT !.computed = TRUE]
  OBVIOUS
<1>3. v \in Part /\ v.inputs = s[k].inputs /\ IsComputed(v)
  BY <1>1, <1>2 DEF Part, IsComputed
<1>4. t = [s EXCEPT ![k] = v]
  BY <1>2
<1>5. t \in Seq(Part) /\ Len(t) = Len(s)
  <2>1. v \in Part
    BY <1>3
  <2>2. [s EXCEPT ![k] = v] \in Seq(Part) /\ Len([s EXCEPT ![k] = v]) = Len(s)
    BY <2>1, ReplacedOne
  <2> QED BY <1>4, <2>2
<1>6. t[k] = v /\ \A j \in 1 .. Len(s) : j # k => t[j] = s[j]
  BY <1>4
<1> QED BY <1>3, <1>5, <1>6 DEF MarksComputed

\* ComputeBlocking of a part.
LEMMA ComputeKeeps ==
    ASSUME DmxInv, NEW w \in DmxWorkers, DmxCompute(w)
    PROVE  /\ Kept /\ dmxParts' \in [Callers -> Seq(Part)]
           /\ \A x \in Callers :
                 dmxParts'[x] = dmxParts[x] \/ dmxCaller[x] \in {"enqueue", "wait"}
<1>0. DmxTypes /\ dmxWorker[w] = "compute"
  BY DEF DmxInv, DmxCompute
<1>1. PICK c \in Callers : c = dmxItem[w][1] /\ w \in Holders(c)
  BY <1>0, HolderFits
<1>2. PICK k \in 1 .. Len(dmxParts[c]) : k = dmxItem[w][2]
  BY <1>0, <1>1 DEF DmxInv, WorkerFits
<1>3. PICK t : t = [dmxParts[c] EXCEPT ![k].computed = TRUE]
  OBVIOUS
<1>4. /\ dmxParts' = [dmxParts EXCEPT ![c] = t]
      /\ dmxWorker' = [dmxWorker EXCEPT ![w] = "notify"]
      /\ UNCHANGED <<dmxQueue, dmxCaller, dmxSize, dmxPartial, dmxLeft, dmxToQueue, dmxItem>>
      /\ UNCHANGED <<dmxAbort, dmxDestructor>>
  BY <1>1, <1>2, <1>3 DEF DmxCompute
<1>5. /\ dmxParts[c] \in Seq(Part) /\ dmxParts'[c] = t /\ Len(dmxParts[c]) \in Nat
      /\ dmxItem[w] \in Callers \X Nat
  BY <1>0, <1>4, HolderFits DEF DmxTypes
<1>6. /\ t \in Seq(Part) /\ Len(t) = Len(dmxParts[c])
      /\ t[k].inputs = dmxParts[c][k].inputs /\ IsComputed(t[k])
      /\ \A j \in 1 .. Len(dmxParts[c]) : j # k => t[j] = dmxParts[c][j]
  <2>1. PICK s \in Seq(Part) : s = dmxParts[c]
    BY <1>5
  <2>2. k \in 1 .. Len(s) /\ t = [s EXCEPT ![k].computed = TRUE]
    BY <1>3, <2>1
  <2>3. MarksComputed(s, k, t)
    BY <2>2, ComputedPart
  <2> QED BY <2>1, <2>3 DEF MarksComputed
<1>7. OnlyMoves(w) /\ dmxWorker'[w] = "notify" /\ dmxItem'[w] = dmxItem[w]
  BY <1>0, <1>4 DEF OnlyMoves, DmxTypes
<1>8. dmxCaller[c] \in {"enqueue", "wait"}
  <2>1. Holds(c) # 0
    BY <1>0, <1>1, NoHolders
  <2> QED BY <2>1, HasParts
<1>9. \A x \in Callers \ {c} : /\ FieldsSame(x) /\ Waits(x)' = Waits(x)
                               /\ w \notin Holders(x) /\ w \notin Holders(x)'
  <2> SUFFICES ASSUME NEW x \in Callers \ {c}
               PROVE  /\ FieldsSame(x) /\ Waits(x)' = Waits(x)
                      /\ w \notin Holders(x) /\ w \notin Holders(x)'
    OBVIOUS
  <2>1. Waits(x)' = Waits(x)
    BY <1>4 DEF Waits
  <2>2. FieldsSame(x)
    BY <1>0, <1>4 DEF FieldsSame, DmxTypes
  <2>3. w \notin Holders(x) /\ w \notin Holders(x)'
    BY <1>1, <1>7 DEF Holders
  <2> QED BY <2>1, <2>2, <2>3
<1>10. Waits(c)' = Waits(c) /\ Holds(c)' = Holds(c) /\ Adds(c)' = Adds(c)
  <2>1. w \in Holders(c)' /\ w \notin Adders(c) /\ w \notin Adders(c)'
    BY <1>0, <1>1, <1>7 DEF Holders, Adders
  <2>2. Waits(c)' = Waits(c)
    BY <1>4 DEF Waits
  <2> QED BY <1>1, <1>7, <2>1, <2>2, MoverCounts
<1>11. CountdownRight(c)' /\ PartsSuffice(c)'
  <2>1. Len(dmxParts'[c]) + dmxToQueue'[c] + Waits(c)' + Adds(c)'
            = Len(dmxParts[c]) + dmxToQueue[c] + Waits(c) + Adds(c)
    BY <1>4, <1>5, <1>6, <1>10
  <2>2. /\ dmxLeft'[c] - (Waits(c)' + Holds(c)') = dmxLeft[c] - (Waits(c) + Holds(c))
        /\ dmxLeft'[c] \in Int /\ Waits(c)' \in Int /\ Holds(c)' \in Int
    BY <1>0, <1>4, <1>10, NumberTypes
  <2> QED BY <1>4, <1>8, <2>1, <2>2, PartsMove
<1>12. PartsRight(c)'
  <2> SUFFICES ASSUME NEW j \in 1 .. Len(dmxParts'[c])
               PROVE  /\ Slice(dmxParts'[c][j], c, dmxSize'[c], dmxPartial'[c], j)
                      /\ IsComputed(dmxParts'[c][j]) \/ Computes(c, j)'
    BY DEF PartsRight, Slice, IsComputed
  <2>1. j \in 1 .. Len(dmxParts[c])
    BY <1>5, <1>6
  <2>2. /\ Slice(dmxParts[c][j], c, dmxSize[c], dmxPartial[c], j)
        /\ IsComputed(dmxParts[c][j]) \/ Computes(c, j)
    BY <2>1 DEF DmxInv, PartsRight
  <2>3. CASE j = k
    <3>1. Slice(t[j], c, dmxSize[c], dmxPartial[c], j)
      BY <1>6, <2>2, <2>3 DEF Slice
    <3> QED BY <1>4, <1>5, <1>6, <2>3, <3>1
  <2>4. CASE j # k
    <3>1. ASSUME Computes(c, j) PROVE Computes(c, j)'
      <4>1. PICK v \in DmxWorkers : dmxWorker[v] = "compute" /\ dmxItem[v] = <<c, j>>
        BY <3>1 DEF Computes
      <4>2. v # w
        BY <1>2, <2>4, <4>1
      <4> QED BY <1>7, <4>1, <4>2 DEF Computes, OnlyMoves
    <3> QED BY <1>4, <1>5, <1>6, <2>1, <2>2, <2>4, <3>1
  <2> QED BY <2>3, <2>4
<1>13. WorkerFits(w)'
  BY <1>5, <1>7 DEF WorkerFits
<1>14. 1 .. Len(dmxParts[c]) \subseteq 1 .. Len(dmxParts'[c])
  BY <1>5, <1>6
<1>15. Kept
  BY <1>4, <1>7, <1>9, <1>11, <1>12, <1>13, <1>14, DmxWorkerMoves DEF CallerRight
<1>16. dmxParts' \in [Callers -> Seq(Part)]
  BY <1>0, <1>4, <1>6 DEF DmxTypes
<1>17. \A x \in Callers : dmxParts'[x] = dmxParts[x] \/ dmxCaller[x] \in {"enqueue", "wait"}
  BY <1>8, <1>9 DEF FieldsSame
<1> QED BY <1>15, <1>16, <1>17

\* NotifyComplete after a part: the countdown counts it no more.
LEMMA NotifyKeeps ==
    ASSUME DmxInv, NEW w \in DmxWorkers, DmxNotify(w)
    PROVE  Kept /\ dmxLeft' \in [Callers -> Int]
<1>0. DmxTypes /\ dmxWorker[w] = "notify"
  BY DEF DmxInv, DmxNotify
<1>1. PICK c \in Callers : c = dmxItem[w][1] /\ w \in Holders(c)
  BY <1>0, HolderFits
<1>2. PICK q \in Nat, h \in Nat, a \in Nat, d \in Int :
         q = Waits(c) /\ h = Holds(c) /\ a = Adds(c) /\ d = dmxLeft[c]
  BY <1>0, NumberTypes
<1>3. /\ dmxLeft' = [dmxLeft EXCEPT ![c] = d - 1]
      /\ dmxItem' = [dmxItem EXCEPT ![w] = <<>>]
      /\ dmxWorker' = [dmxWorker EXCEPT ![w] = "take"] /\ dmxCaller[c] # "enqueue"
      /\ UNCHANGED <<dmxQueue, dmxCaller, dmxSize, dmxPartial, dmxToQueue, dmxParts>>
      /\ UNCHANGED <<dmxAbort, dmxDestructor>>
  BY <1>0, <1>1, <1>2 DEF DmxNotify, DmxNotifyComplete, DmxTypes
<1>4. OnlyMoves(w) /\ dmxWorker'[w] = "take" /\ dmxLeft'[c] = d - 1
  BY <1>0, <1>3 DEF OnlyMoves, DmxTypes
<1>5. dmxCaller[c] \in {"enqueue", "wait"}
  <2>1. Holds(c) # 0
    BY <1>0, <1>1, NoHolders
  <2> QED BY <2>1, HasParts
<1>6. \A x \in Callers \ {c} : /\ FieldsSame(x) /\ Waits(x)' = Waits(x)
                               /\ w \notin Holders(x) /\ w \notin Holders(x)'
  <2> SUFFICES ASSUME NEW x \in Callers \ {c}
               PROVE  /\ FieldsSame(x) /\ Waits(x)' = Waits(x)
                      /\ w \notin Holders(x) /\ w \notin Holders(x)'
    OBVIOUS
  <2>1. Waits(x)' = Waits(x)
    BY <1>3 DEF Waits
  <2>2. FieldsSame(x)
    BY <1>0, <1>3 DEF FieldsSame, DmxTypes
  <2>3. w \notin Holders(x) /\ w \notin Holders(x)'
    BY <1>1, <1>4 DEF Holders
  <2> QED BY <2>1, <2>2, <2>3
<1>7. Waits(c)' = q /\ Holds(c)' = h - 1 /\ Adds(c)' = a
  <2>1. w \notin Holders(c)' /\ w \notin Adders(c) /\ w \notin Adders(c)'
    BY <1>0, <1>4 DEF Holders, Adders
  <2>2. Waits(c)' = Waits(c)
    BY <1>3 DEF Waits
  <2> QED BY <1>1, <1>2, <1>4, <2>1, <2>2, MoverCounts
<1>8. CountdownRight(c)' /\ PartsSuffice(c)'
  <2>1. Len(dmxParts'[c]) + dmxToQueue'[c] + Waits(c)' + Adds(c)'
            = Len(dmxParts[c]) + dmxToQueue[c] + Waits(c) + Adds(c)
    BY <1>2, <1>3, <1>7
  <2>2. (d - 1) - (q + (h - 1)) = d - (q + h) /\ d - 1 \in Int /\ h - 1 \in Int
    OBVIOUS
  <2>3. /\ dmxLeft'[c] - (Waits(c)' + Holds(c)') = dmxLeft[c] - (Waits(c) + Holds(c))
        /\ dmxLeft'[c] \in Int /\ Waits(c)' \in Int /\ Holds(c)' \in Int
    BY <1>2, <1>4, <1>7, <2>2
  <2> QED BY <1>3, <1>5, <2>1, <2>3, PartsMove
<1>9. PartsRight(c)'
  <2>1. ASSUME NEW j \in Nat, Computes(c, j) PROVE Computes(c, j)'
    <3>1. PICK v \in DmxWorkers : dmxWorker[v] = "compute" /\ dmxItem[v] = <<c, j>>
      BY <2>1 DEF Computes
    <3>2. v # w
      BY <1>0, <3>1
    <3> QED BY <1>4, <3>1, <3>2 DEF Computes, OnlyMoves
  <2> QED BY <1>3, <2>1, SamePartsRight
<1>10. WorkerFits(w)'
  BY <1>4 DEF WorkerFits
<1>11. 1 .. Len(dmxParts[c]) \subseteq 1 .. Len(dmxParts'[c])
  BY <1>3
<1>12. Kept
  BY <1>3, <1>4, <1>6, <1>8, <1>9, <1>10, <1>11, DmxWorkerMoves DEF CallerRight
<1>13. dmxLeft' \in [Callers -> Int]
  BY <1>0, <1>3 DEF DmxTypes
<1> QED BY <1>12, <1>13

\* The destructor drops a part that nobody has taken.
LEMMA UnstickKeeps ==
    ASSUME DmxInv, DmxUnstick
    PROVE  Kept /\ dmxLeft' \in [Callers -> Int]
<1>0. DmxTypes /\ dmxQueue # <<>> /\ dmxAbort
  BY DEF DmxInv, DmxUnstick
<1>1. PICK c \in Callers : c = Head(dmxQueue)
  BY <1>0 DEF DmxTypes
<1>2. PICK h \in Nat, a \in Nat, d \in Int :
         h = Holds(c) /\ a = Adds(c) /\ d = dmxLeft[c]
  BY <1>0, NumberTypes
<1>3. /\ dmxLeft' = [dmxLeft EXCEPT ![c] = d - 1]
      /\ dmxQueue' = Tail(dmxQueue)
      /\ UNCHANGED <<dmxCaller, dmxSize, dmxPartial, dmxToQueue, dmxParts>>
      /\ UNCHANGED <<dmxWorkerVars, dmxAbort, dmxDestructor>>
  BY <1>0, <1>1, <1>2 DEF DmxUnstick, DmxNotifyComplete, DmxTypes
<1>4. ASSUME NEW x \in Callers PROVE Waits(x) = Waits(x)' + (IF x = c THEN 1 ELSE 0)
  BY <1>0, <1>1, <1>3, PlacesTail DEF Waits, DmxTypes
<1>5. ASSUME NEW x \in Callers PROVE Waits(x)' \in Nat
  <2>1. Tail(dmxQueue) \in Seq(Callers)
    BY <1>0 DEF DmxTypes
  <2>2. IsFiniteSet(Places(Tail(dmxQueue), x))
    BY <2>1, PlacesFinite
  <2> QED BY <1>3, <2>2, FS_CardinalityType DEF Waits
<1>6. \A x \in Callers \ {c} : FieldsSame(x) /\ Waits(x)' = Waits(x)
  <2> SUFFICES ASSUME NEW x \in Callers \ {c} PROVE FieldsSame(x) /\ Waits(x)' = Waits(x)
    OBVIOUS
  <2>1. Waits(x)' = Waits(x)
    BY <1>4, <1>5
  <2>2. FieldsSame(x)
    BY <1>0, <1>3 DEF FieldsSame, DmxTypes
  <2> QED BY <2>1, <2>2
<1>7. PICK q \in Nat : q = Waits(c)' /\ Waits(c) = q + 1
  BY <1>4, <1>5
<1>8. dmxCaller[c] \in {"enqueue", "wait"}
  <2>1. Waits(c) # 0
    BY <1>7
  <2> QED BY <2>1, HasParts
<1>9. Holds(c)' = h /\ dmxLeft'[c] = d - 1
  BY <1>0, <1>2, <1>3 DEF Holds, Holders, dmxWorkerVars, DmxTypes
<1>10. CountdownRight(c)' /\ PartsSuffice(c)'
  <2>1. (d - 1) - (q + h) = d - ((q + 1) + h) /\ d - 1 \in Int
    OBVIOUS
  <2>2. /\ dmxLeft'[c] - (Waits(c)' + Holds(c)') = dmxLeft[c] - (Waits(c) + Holds(c))
        /\ dmxLeft'[c] \in Int /\ Waits(c)' \in Int /\ Holds(c)' \in Int
    BY <1>2, <1>7, <1>9, <2>1
  <2> QED BY <1>0, <1>3, <1>8, <2>2, PartsMove
<1>11. PartsRight(c)'
  <2>1. \A j \in Nat : Computes(c, j) => Computes(c, j)'
    BY <1>3 DEF Computes, dmxWorkerVars
  <2> QED BY <1>3, <2>1, SamePartsRight
<1>12. Kept
  BY <1>3, <1>6, <1>10, <1>11, CallerMoves DEF CallerRight
<1>13. dmxLeft' \in [Callers -> Int]
  BY <1>0, <1>3 DEF DmxTypes
<1> QED BY <1>12, <1>13

-----------------------------------------------------------------------------
(* Invariance. *)

\* DivideUp and the part size keep the numbers integers.
LEMMA SplitTypes ==
    ASSUME DmxInv, NEW c \in Callers, DmxSplit(c), dmxMinSplit' = dmxMinSplit
    PROVE  DmxTypes'
<1>0. DmxTypes
  BY DEF DmxInv
<1>1. CASE dmxSize[c] = 0
  BY <1>0, <1>1 DEF DmxSplit, DmxTypes, dmxWorkerVars
<1>2. CASE dmxSize[c] # 0
  <2>1. PICK n \in Nat : n = dmxSize[c] /\ n >= 1
    BY <1>0, <1>2 DEF DmxTypes
  <2>2. PICK p \in Nat : p = DmxPartialSize(n) /\ p >= 1
    BY <1>0, <2>1, PartialSizePositive
  <2>3. PICK s \in Int : s = DivideUp(n, p)
    <3>1. n \in Int /\ p \in Int /\ n >= 1 /\ p >= 1
      BY <2>1, <2>2
    <3>2. DivideUp(n, p) \in Int
      BY <3>1, DivideUpSuffices
    <3> QED BY <3>2
  <2>4. /\ dmxPartial' = [dmxPartial EXCEPT ![c] = p]
        /\ dmxLeft' = [dmxLeft EXCEPT ![c] = s]
        /\ dmxToQueue' = [dmxToQueue EXCEPT ![c] = s]
        /\ dmxCaller' = [dmxCaller EXCEPT ![c] = "enqueue"]
        /\ UNCHANGED <<dmxQueue, dmxSize, dmxParts, dmxWorker, dmxItem>>
    BY <1>2, <2>1, <2>2, <2>3 DEF DmxSplit, dmxWorkerVars
  <2> QED BY <1>0, <2>4 DEF DmxTypes
<1> QED BY <1>1, <1>2

\* Every step keeps the invariant.
LEMMA DmxInvStep == DmxInv /\ [DmxNext]_dmxVars => DmxInv'
<1> SUFFICES ASSUME DmxInv, [DmxNext]_dmxVars PROVE DmxInv'
  OBVIOUS
<1> USE DEF dmxCallerVars, dmxWorkerVars
<1>0. DmxTypes /\ dmxMinSplit' = dmxMinSplit
  BY DEF DmxInv, DmxNext, dmxVars
<1>1. ASSUME Kept, DmxTypes' PROVE DmxInv'
  BY <1>1 DEF Kept, DmxInv, CallerRight
<1>2. ASSUME NEW c \in Callers, NEW n \in 0 .. MaxBatch, DmxSubmit(c, n) PROVE DmxInv'
  <2>1. n \in Nat
    BY CallersAssumption
  <2>2. DmxTypes'
    BY <1>0, <1>2, <2>1 DEF DmxSubmit, DmxTypes
  <2> QED BY <1>1, <1>2, <2>2, SubmitKeeps
<1>3. ASSUME NEW c \in Callers, DmxSplit(c) PROVE DmxInv'
  BY <1>0, <1>1, <1>3, SplitTypes, SplitKeeps
<1>4. ASSUME NEW c \in Callers, DmxEnqueue(c) PROVE DmxInv'
  <2>1. dmxQueue' \in Seq(Callers)
    BY <1>0, <1>4 DEF DmxEnqueue, DmxTypes
  <2>2. DmxTypes'
    BY <1>0, <1>4, <2>1 DEF DmxEnqueue, DmxTypes
  <2> QED BY <1>1, <1>4, <2>2, EnqueueKeeps
<1>5. ASSUME NEW c \in Callers, DmxReturn(c) PROVE DmxInv'
  <2>1. DmxTypes'
    BY <1>0, <1>5 DEF DmxReturn, DmxTypes
  <2> QED BY <1>1, <1>5, <2>1, ReturnKeeps
<1>6. ASSUME NEW c \in Callers, DmxRelease(c) PROVE DmxInv'
  <2>1. dmxParts' \in [Callers -> Seq(Part)]
    <3>1. <<>> \in Seq(Part)
      OBVIOUS
    <3>2. dmxParts \in [Callers -> Seq(Part)] /\ dmxParts' = [dmxParts EXCEPT ![c] = <<>>]
      BY <1>0, <1>6 DEF DmxRelease, DmxTypes
    <3> QED BY <3>1, <3>2, Zenon
  <2>2. DmxTypes'
    BY <1>0, <1>6, <2>1 DEF DmxRelease, DmxTypes
  <2> QED BY <1>1, <1>6, <2>2, ReleaseKeeps
<1>7. ASSUME NEW w \in DmxWorkers,
             DmxGoToSleep(w) \/ DmxLeave(w) \/ DmxStart(w) \/ DmxSpuriousWake(w)
      PROVE  DmxInv'
  <2>1. DmxTypes'
    BY <1>0, <1>7 DEF DmxGoToSleep, DmxLeave, DmxStart, DmxSpuriousWake, DmxTypes
  <2> QED BY <1>1, <1>7, <2>1, QuietKeeps
<1>8. ASSUME NEW w \in DmxWorkers, DmxTake(w) PROVE DmxInv'
  <2>1. CASE dmxQueue = <<>>
    <3>1. DmxTypes'
      BY <1>0, <1>8, <2>1 DEF DmxTake, DmxTypes
    <3> QED BY <1>1, <1>8, <3>1, TakeKeeps
  <2>2. CASE dmxQueue # <<>>
    <3>1. PICK c \in Callers : c = Head(dmxQueue)
      BY <1>0, <2>2 DEF DmxTypes
    <3>2. Tail(dmxQueue) \in Seq(Callers) /\ <<c, 0>> \in Callers \X Nat
      BY <1>0, <2>2 DEF DmxTypes
    <3>3. dmxItem' = [dmxItem EXCEPT ![w] = <<c, 0>>] /\ dmxQueue' = Tail(dmxQueue)
      BY <1>8, <2>2, <3>1 DEF DmxTake
    <3>4. DmxTypes'
      BY <1>0, <1>8, <3>2, <3>3 DEF DmxTake, DmxTypes
    <3> QED BY <1>1, <1>8, <3>4, TakeKeeps
  <2> QED BY <2>1, <2>2
<1>9. ASSUME NEW w \in DmxWorkers, DmxAddParent(w) PROVE DmxInv'
  <2>1. DmxTypes'
    BY <1>0, <1>9, AddParentKeeps DEF DmxAddParent, DmxTypes
  <2> QED BY <1>1, <1>9, <2>1, AddParentKeeps
<1>10. ASSUME NEW w \in DmxWorkers, DmxCompute(w) PROVE DmxInv'
  <2>1. dmxParts' \in [Callers -> Seq(Part)]
    BY <1>10, ComputeKeeps
  <2>2. /\ dmxWorker' = [dmxWorker EXCEPT ![w] = "notify"]
        /\ UNCHANGED <<dmxQueue, dmxCaller, dmxSize, dmxPartial, dmxLeft, dmxToQueue, dmxItem>>
    BY <1>10 DEF DmxCompute
  <2>3. DmxTypes'
    BY <1>0, <2>1, <2>2 DEF DmxTypes
  <2> QED BY <1>1, <1>10, <2>3, ComputeKeeps
<1>11. ASSUME NEW w \in DmxWorkers, DmxNotify(w) PROVE DmxInv'
  <2>1. dmxLeft' \in [Callers -> Int]
    BY <1>11, NotifyKeeps
  <2>2. DmxTypes'
    BY <1>0, <1>11, <2>1 DEF DmxNotify, DmxTypes
  <2> QED BY <1>1, <1>11, <2>2, NotifyKeeps
<1>12. ASSUME DmxSetAbort \/ DmxNotifyAll \/ DmxWait \/ DmxDestroyed \/ UNCHANGED dmxVars
       PROVE  DmxInv'
  <2>1. DmxTypes'
    BY <1>0, <1>12 DEF DmxSetAbort, DmxNotifyAll, DmxWait, DmxDestroyed, dmxVars, DmxTypes
  <2> QED BY <1>1, <1>12, <2>1, QuietKeeps
<1>13. ASSUME DmxUnstick PROVE DmxInv'
  <2>1. dmxQueue' \in Seq(Callers)
    BY <1>0, <1>13 DEF DmxUnstick, DmxTypes
  <2>2. DmxTypes'
    BY <1>0, <1>13, <2>1, UnstickKeeps DEF DmxUnstick, DmxTypes
  <2> QED BY <1>1, <1>13, <2>2, UnstickKeeps
<1> QED
  BY <1>2, <1>3, <1>4, <1>5, <1>6, <1>7, <1>8, <1>9, <1>10, <1>11, <1>12, <1>13
     DEF DmxNext, DmxCallerStep, DmxWorkerStep, DmxDestructorStep

\* It holds of a new network.
LEMMA DmxInvInit == DmxInit => DmxInv
<1> SUFFICES ASSUME DmxInit PROVE DmxInv
  OBVIOUS
<1>1. dmxParts \in [Callers -> Seq(Part)]
  <2> DEFINE P == Seq(Part)
  <2>1. <<>> \in P
    OBVIOUS
  <2> HIDE DEF P
  <2>2. dmxParts \in [Callers -> P]
    BY <2>1, Zenon DEF DmxInit
  <2> QED BY <2>2 DEF P
<1>2. dmxQueue \in Seq(Callers) /\ Len(dmxQueue) = 0
  BY DEF DmxInit
<1>3. DmxTypes
  <2>1. dmxItem \in [DmxWorkers -> {<<>>} \cup (Callers \X Nat)]
    BY DEF DmxInit
  <2> QED BY <1>1, <1>2, <2>1, DmxAssumption DEF DmxInit, DmxTypes
<1>4. \A w \in DmxWorkers : WorkerFits(w)
  BY DEF DmxInit, WorkerFits
<1>5. ASSUME NEW c \in Callers PROVE CountdownRight(c) /\ PartsSuffice(c) /\ PartsRight(c)
  <2>1. Places(dmxQueue, c) = {} /\ Holders(c) = {}
    BY <1>2 DEF Places, Holders, DmxInit
  <2>2. Waits(c) = 0 /\ Holds(c) = 0
    BY <2>1, FS_EmptySet DEF Waits, Holds
  <2>3. dmxCaller[c] = "idle" /\ dmxParts[c] = <<>>
    BY DEF DmxInit
  <2>4. 1 .. Len(dmxParts[c]) = {}
    <3>1. Len(dmxParts[c]) = 0
      BY <2>3
    <3> QED BY <3>1
  <2>5. CountdownRight(c) /\ PartsSuffice(c)
    BY <2>2, <2>3 DEF CountdownRight, PartsSuffice
  <2>6. PartsRight(c)
    BY <2>4 DEF PartsRight
  <2> QED BY <2>5, <2>6
<1>6. dmxDestructor = "none" <=> ~dmxAbort
  BY DEF DmxInit
<1> QED BY <1>3, <1>4, <1>5, <1>6 DEF DmxInv

\* The countdown of every computation counts the parts that are still to be
\* enqueued, queued or with a worker, and the parts hold its inputs in order.
THEOREM DmxInvariance == DmxSpec => []DmxInv
<1>1. DmxInit => DmxInv
  BY DmxInvInit
<1>2. DmxInv /\ [DmxNext]_dmxVars => DmxInv'
  BY DmxInvStep
<1> QED BY <1>1, <1>2, PTL DEF DmxSpec

-----------------------------------------------------------------------------
(* What a caller reads. *)

\* Sample i is at place r of part k, where i = p * k + r.
LEMMA SamplePlace ==
    ASSUME DmxTypes, NEW c \in Callers, dmxPartial[c] >= 1, NEW i \in 0 .. dmxSize[c] - 1
    PROVE  \E p \in Nat, k \in Nat, r \in Nat :
              /\ p = dmxPartial[c] /\ k = i \div dmxPartial[c] /\ r = i % dmxPartial[c]
              /\ r < p /\ i = p * k + r
<1>1. PICK p \in Nat, n \in Nat : p = dmxPartial[c] /\ n = dmxSize[c] /\ p >= 1
  BY NumberTypes
<1>2. i \in Int /\ i >= 0 /\ p \in Int /\ p > 0
  BY <1>1
<1>3. PICK k \in Int : k = i \div p /\ k >= 0
  BY <1>2, Division
<1>4. PICK r \in Int : r = i % p /\ r >= 0 /\ r <= p - 1
  BY <1>2, Division
<1>5. i = p * k + r
  BY <1>2, <1>3, <1>4, Division
<1>6. k \in Nat /\ r \in Nat /\ r < p
  BY <1>1, <1>3, <1>4
<1> QED BY <1>1, <1>3, <1>4, <1>5, <1>6

\* Place r of the slice of part k is sample i.
LEMMA PlaceInSlice ==
    ASSUME NEW i \in Int, NEW n \in Nat, NEW p \in Nat, NEW k \in Nat, NEW r \in Nat,
           i < n, r < p, i = p * k + r
    PROVE  r + 1 \in 1 .. p /\ ((k + 1) - 1) * p + (r + 1) = i + 1 /\ i + 1 <= n
<1>1. r + 1 \in 1 .. p /\ i + 1 <= n
  OBVIOUS
<1>2. (k + 1) - 1 = k
  OBVIOUS
<1>3. PICK b \in Int : b = p * k /\ b = k * p
  OBVIOUS
<1>4. b + (r + 1) = i + 1
  BY <1>3
<1> QED BY <1>1, <1>2, <1>3, <1>4

\* A sample that can be read shows the evaluation of its own input.
LEMMA ReadsOwn ==
    ASSUME DmxInv, NEW c \in Callers, dmxPartial[c] >= 1, NEW i \in 0 .. dmxSize[c] - 1,
           i \div dmxPartial[c] + 1 \in DOMAIN dmxParts[c]
    PROVE  DmxGetVal(c, i) = <<c, i + 1>>
<1>0. DmxTypes /\ PartsRight(c)
  BY DEF DmxInv
<1>1. PICK p \in Nat, k \in Nat, r \in Nat :
         /\ p = dmxPartial[c] /\ k = i \div dmxPartial[c] /\ r = i % dmxPartial[c]
         /\ r < p /\ i = p * k + r
  BY <1>0, SamplePlace
<1>2. PICK n \in Nat : n = dmxSize[c]
  BY <1>0, NumberTypes
<1>3. k + 1 \in 1 .. Len(dmxParts[c])
  <2>1. dmxParts[c] \in Seq(Part)
    BY <1>0 DEF DmxTypes
  <2>2. DOMAIN dmxParts[c] = 1 .. Len(dmxParts[c])
    BY <2>1
  <2> QED BY <1>1, <2>2
<1>4. Slice(dmxParts[c][k + 1], c, n, p, k + 1)
  BY <1>0, <1>1, <1>2, <1>3 DEF PartsRight
<1>5. i \in Int /\ i < n /\ r < p /\ i = p * k + r
  BY <1>1, <1>2
<1>6. r + 1 \in 1 .. p /\ ((k + 1) - 1) * p + (r + 1) = i + 1 /\ i + 1 <= n
  BY <1>5, PlaceInSlice
<1>7. dmxParts[c][k + 1].inputs[r + 1] = <<c, i + 1>>
  BY <1>4, <1>6 DEF Slice
<1> QED BY <1>1, <1>7 DEF DmxGetVal

\* When the countdown is over every sample can be read, unless the destructor
\* dropped a part.
LEMMA AllComputed ==
    ASSUME DmxInv, ~dmxAbort, NEW c \in Callers, dmxCaller[c] = "wait",
           Waits(c) = 0, Holds(c) = 0, Adds(c) = 0, dmxToQueue[c] = 0
    PROVE  DmxComputed(c)
<1> SUFFICES ASSUME NEW i \in 0 .. dmxSize[c] - 1 PROVE DmxReadable(c, i)
  BY DEF DmxComputed
<1>0. DmxTypes /\ PartsRight(c) /\ PartsSuffice(c)
  BY DEF DmxInv
<1>1. dmxPartial[c] >= 1
  BY <1>0 DEF PartsSuffice
<1>2. PICK p \in Nat, k \in Nat, r \in Nat :
         /\ p = dmxPartial[c] /\ k = i \div dmxPartial[c] /\ r = i % dmxPartial[c]
         /\ r < p /\ i = p * k + r
  BY <1>0, <1>1, SamplePlace
<1>3. PICK n \in Nat, l \in Nat : n = dmxSize[c] /\ l = Len(dmxParts[c])
  BY <1>0, NumberTypes
<1>4. n <= p * l
  <2>1. l + 0 + 0 + 0 = l
    OBVIOUS
  <2> QED BY <1>0, <1>2, <1>3, <2>1 DEF PartsSuffice
<1>5. k < l
  <2>1. PICK y \in Int : y = p * l
    OBVIOUS
  <2>2. i < y /\ i \in Int
    BY <1>3, <1>4, <2>1
  <2>3. p >= 1 /\ i = p * k + r
    BY <1>1, <1>2
  <2>4. i < p * l
    BY <2>1, <2>2
  <2> QED BY <2>2, <2>3, <2>4, PartInRange
<1>6. k + 1 \in 1 .. l /\ k + 1 \in DOMAIN dmxParts[c]
  <2>1. dmxParts[c] \in Seq(Part)
    BY <1>0 DEF DmxTypes
  <2>2. DOMAIN dmxParts[c] = 1 .. l
    BY <1>3, <2>1
  <2>3. k + 1 \in 1 .. l
    BY <1>5
  <2> QED BY <2>2, <2>3
<1>7. ~Computes(c, k + 1)
  <2>1. Holders(c) = {}
    BY <1>0, NoHolders
  <2> QED BY <2>1 DEF Computes, Holders
<1>8. IsComputed(dmxParts[c][k + 1])
  BY <1>0, <1>3, <1>6, <1>7 DEF PartsRight
<1> QED BY <1>2, <1>6, <1>8 DEF DmxReadable, IsComputed

-----------------------------------------------------------------------------
(* Refinement. *)

\* A caller of which nothing visible changes looks the same to the service.
LEMMA DmxSameSeen ==
    ASSUME NEW c \in Callers, dmxCaller'[c] = dmxCaller[c], dmxSize'[c] = dmxSize[c],
           dmxCaller[c] = "read" =>
               dmxParts'[c] = dmxParts[c] /\ dmxPartial'[c] = dmxPartial[c]
    PROVE  DmxPhase'[c] = DmxPhase[c] /\ DmxAnswer'[c] = DmxAnswer[c]
<1>1. CASE dmxCaller[c] # "read"
  BY <1>1 DEF DmxPhase, DmxAnswer
<1>2. CASE dmxCaller[c] = "read"
  <2>1. DmxComputed(c)' <=> DmxComputed(c)
    BY <1>2 DEF DmxComputed, DmxReadable
  <2>2. DmxPhase'[c] = DmxPhase[c]
    BY <1>2, <2>1 DEF DmxPhase
  <2>3. [i \in 1 .. dmxSize'[c] |-> DmxGetVal(c, i - 1)'] = [i \in 1 .. dmxSize[c] |-> DmxGetVal(c, i - 1)]
    BY <1>2 DEF DmxGetVal
  <2>4. DmxAnswer'[c] = DmxAnswer[c]
    BY <1>2, <2>1, <2>3 DEF DmxAnswer
  <2> QED BY <2>2, <2>4
<1> QED BY <1>1, <1>2

\* A function that differs at one argument.
LEMMA DmxOneChanges ==
    ASSUME NEW C, NEW f, NEW g, NEW c \in C, NEW v,
           f = [x \in C |-> f[x]], g = [x \in C |-> g[x]],
           g[c] = v, \A x \in C \ {c} : g[x] = f[x]
    PROVE  g = [f EXCEPT ![c] = v]
OBVIOUS

\* The mapped variables are functions on the callers.
LEMMA DmxAreFunctions ==
    /\ DmxPhase = [x \in Callers |-> DmxPhase[x]]
    /\ DmxAnswer = [x \in Callers |-> DmxAnswer[x]]
    /\ (DmxPhase = [x \in Callers |-> DmxPhase[x]])'
    /\ (DmxAnswer = [x \in Callers |-> DmxAnswer[x]])'
BY DEF DmxPhase, DmxAnswer

\* Steps the service does not see.
LEMMA DmxUnseen ==
    ASSUME UNCHANGED <<dmxCaller, dmxSize, dmxPartial, dmxAbort>>,
           \A c \in Callers : dmxCaller[c] = "read" => dmxParts'[c] = dmxParts[c]
    PROVE  UNCHANGED DmxService!serviceVars
<1>1. \A c \in Callers : DmxPhase'[c] = DmxPhase[c] /\ DmxAnswer'[c] = DmxAnswer[c]
  BY DmxSameSeen
<1>2. DmxPhase' = DmxPhase /\ DmxAnswer' = DmxAnswer
  BY <1>1, DmxAreFunctions
<1> QED BY <1>2 DEF DmxService!serviceVars

\* ComputeBlocking is called.
LEMMA SubmitSubmits ==
    ASSUME DmxInv, NEW c \in Callers, NEW n \in 0 .. MaxBatch, DmxSubmit(c, n)
    PROVE  DmxService!Submit(c, n)
<1>1. /\ dmxCaller[c] = "idle" /\ dmxCaller'[c] = "split" /\ ~dmxAbort /\ ~dmxAbort'
      /\ dmxSize' = [dmxSize EXCEPT ![c] = n]
      /\ UNCHANGED <<dmxPartial, dmxParts>>
      /\ \A x \in Callers \ {c} : dmxCaller'[x] = dmxCaller[x] /\ dmxSize'[x] = dmxSize[x]
  BY DEF DmxSubmit, DmxInv, DmxTypes
<1>2. /\ DmxPhase[c] = "idle" /\ DmxPhase'[c] = "waiting"
      /\ DmxAnswer[c] = <<>> /\ DmxAnswer'[c] = <<>>
  BY <1>1 DEF DmxPhase, DmxAnswer
<1>3. \A x \in Callers \ {c} : DmxPhase'[x] = DmxPhase[x] /\ DmxAnswer'[x] = DmxAnswer[x]
  BY <1>1, DmxSameSeen
<1>4. DmxPhase' = [DmxPhase EXCEPT ![c] = "waiting"]
  BY <1>2, <1>3, DmxAreFunctions, DmxOneChanges
<1>5. DmxAnswer' = DmxAnswer
  BY <1>2, <1>3, DmxAreFunctions
<1> QED BY <1>1, <1>2, <1>4, <1>5 DEF DmxService!Submit

\* A call that returns is served, or cancelled by the destructor.
LEMMA ReturnSeen ==
    ASSUME DmxInv, NEW c \in Callers, dmxCaller[c] \in {"split", "wait"},
           dmxCaller'[c] = "read", \A x \in Callers \ {c} : dmxCaller'[x] = dmxCaller[x],
           UNCHANGED <<dmxAbort, dmxSize, dmxPartial, dmxParts>>,
           dmxSize[c] = 0 \/ dmxPartial[c] >= 1,
           dmxAbort \/ DmxComputed(c)
    PROVE  DmxService!Serve(c) \/ DmxService!Cancel(c)
<1>0. dmxSize[c] \in Nat
  BY DEF DmxInv, DmxTypes
<1>1. DmxPhase[c] = "waiting" /\ DmxAnswer[c] = <<>>
  BY DEF DmxPhase, DmxAnswer
<1>2. \A x \in Callers \ {c} : DmxPhase'[x] = DmxPhase[x] /\ DmxAnswer'[x] = DmxAnswer[x]
  BY DmxSameSeen
<1>3. DmxComputed(c)' <=> DmxComputed(c)
  BY DEF DmxComputed, DmxReadable
<1>4. CASE DmxComputed(c)
  <2>1. DmxPhase'[c] = "served"
    BY <1>3, <1>4 DEF DmxPhase
  <2>2. DmxAnswer'[c] = [i \in 1 .. dmxSize[c] |-> DmxGetVal(c, i - 1)]
    BY <1>3, <1>4 DEF DmxAnswer, DmxGetVal
  <2>3. ASSUME NEW i \in 1 .. dmxSize[c] PROVE DmxGetVal(c, i - 1) = <<c, i>>
    <3>1. i - 1 \in 0 .. dmxSize[c] - 1 /\ (i - 1) + 1 = i /\ dmxSize[c] # 0
      BY <1>0
    <3>2. DmxReadable(c, i - 1)
      BY <1>4, <3>1 DEF DmxComputed
    <3>3. (i - 1) \div dmxPartial[c] + 1 \in DOMAIN dmxParts[c] /\ dmxPartial[c] >= 1
      BY <3>1, <3>2 DEF DmxReadable
    <3>4. PICK m \in 0 .. dmxSize[c] - 1 : m = i - 1 /\ m + 1 = i
      BY <3>1
    <3>5. m \div dmxPartial[c] + 1 \in DOMAIN dmxParts[c]
      BY <3>3, <3>4
    <3>6. DmxGetVal(c, m) = <<c, m + 1>>
      BY <3>3, <3>5, ReadsOwn
    <3> QED BY <3>4, <3>6
  <2>4. DmxAnswer'[c] = Inputs(c, dmxSize[c])
    BY <2>2, <2>3 DEF Inputs
  <2>5. DmxPhase' = [DmxPhase EXCEPT ![c] = "served"]
    BY <1>2, <2>1, DmxAreFunctions, DmxOneChanges
  <2>6. DmxAnswer' = [DmxAnswer EXCEPT ![c] = Inputs(c, dmxSize[c])]
    BY <1>2, <2>4, DmxAreFunctions, DmxOneChanges
  <2> QED BY <1>1, <2>5, <2>6 DEF DmxService!Serve, DmxService!Inputs, Inputs
<1>5. CASE ~DmxComputed(c)
  <2>1. DmxPhase'[c] = "cancelled" /\ DmxAnswer'[c] = <<>>
    BY <1>3, <1>5 DEF DmxPhase, DmxAnswer
  <2>2. DmxPhase' = [DmxPhase EXCEPT ![c] = "cancelled"]
    BY <1>2, <2>1, DmxAreFunctions, DmxOneChanges
  <2>3. DmxAnswer' = DmxAnswer
    BY <1>1, <1>2, <2>1, DmxAreFunctions
  <2> QED BY <1>1, <1>5, <2>2, <2>3 DEF DmxService!Cancel
<1> QED BY <1>4, <1>5

\* An empty batch returns at once, served.
LEMMA SplitSeen ==
    ASSUME DmxInv, NEW c \in Callers, DmxSplit(c)
    PROVE  \/ DmxService!Serve(c) \/ DmxService!Cancel(c)
           \/ UNCHANGED DmxService!serviceVars
<1>1. /\ dmxCaller[c] = "split" /\ UNCHANGED <<dmxAbort, dmxSize, dmxParts>>
      /\ \A x \in Callers \ {c} : /\ dmxCaller'[x] = dmxCaller[x]
                                   /\ dmxPartial'[x] = dmxPartial[x]
  BY DEF DmxSplit, DmxInv, DmxTypes
<1>2. CASE dmxSize[c] = 0
  <2>1. dmxCaller'[c] = "read" /\ UNCHANGED dmxPartial
    BY <1>2 DEF DmxSplit, DmxInv, DmxTypes
  <2>2. DmxComputed(c)
    <3>1. 0 .. dmxSize[c] - 1 = {}
      BY <1>2
    <3> QED BY <3>1 DEF DmxComputed
  <2> QED BY <1>1, <1>2, <2>1, <2>2, ReturnSeen
<1>3. CASE dmxSize[c] # 0
  <2>1. dmxCaller'[c] = "enqueue"
    BY <1>3 DEF DmxSplit, DmxInv, DmxTypes
  <2>2. DmxPhase'[c] = DmxPhase[c] /\ DmxAnswer'[c] = DmxAnswer[c]
    BY <1>1, <2>1 DEF DmxPhase, DmxAnswer
  <2>3. \A x \in Callers \ {c} : DmxPhase'[x] = DmxPhase[x] /\ DmxAnswer'[x] = DmxAnswer[x]
    BY <1>1, DmxSameSeen
  <2>4. DmxPhase' = DmxPhase /\ DmxAnswer' = DmxAnswer
    BY <2>2, <2>3, DmxAreFunctions
  <2> QED BY <1>1, <2>4 DEF DmxService!serviceVars
<1> QED BY <1>2, <1>3

\* The wait for the parts ends.
LEMMA WaitSeen ==
    ASSUME DmxInv, NEW c \in Callers, DmxReturn(c)
    PROVE  DmxService!Serve(c) \/ DmxService!Cancel(c)
<1>1. /\ dmxCaller[c] = "wait" /\ dmxCaller'[c] = "read"
      /\ \A x \in Callers \ {c} : dmxCaller'[x] = dmxCaller[x]
      /\ UNCHANGED <<dmxAbort, dmxSize, dmxPartial, dmxParts>>
  BY DEF DmxReturn, DmxInv, DmxTypes
<1>2. dmxPartial[c] >= 1
  BY <1>1 DEF DmxInv, PartsSuffice
<1>3. Waits(c) = 0 /\ Holds(c) = 0 /\ Adds(c) = 0 /\ dmxToQueue[c] = 0
  BY ReturnKeeps
<1>4. dmxAbort \/ DmxComputed(c)
  BY <1>1, <1>3, AllComputed
<1> QED BY <1>1, <1>2, <1>4, ReturnSeen

\* The last part that is enqueued: the call waits as before.
LEMMA EnqueueUnseen ==
    ASSUME DmxInv, NEW c \in Callers, DmxEnqueue(c)
    PROVE  UNCHANGED DmxService!serviceVars
<1>1. /\ dmxCaller[c] = "enqueue" /\ dmxCaller'[c] \in {"enqueue", "wait"}
      /\ UNCHANGED <<dmxAbort, dmxSize, dmxParts, dmxPartial>>
      /\ \A x \in Callers \ {c} : dmxCaller'[x] = dmxCaller[x]
  BY DEF DmxEnqueue, DmxInv, DmxTypes
<1>2. DmxPhase'[c] = DmxPhase[c] /\ DmxAnswer'[c] = DmxAnswer[c]
  BY <1>1 DEF DmxPhase, DmxAnswer
<1>3. \A x \in Callers \ {c} : DmxPhase'[x] = DmxPhase[x] /\ DmxAnswer'[x] = DmxAnswer[x]
  BY <1>1, DmxSameSeen
<1>4. DmxPhase' = DmxPhase /\ DmxAnswer' = DmxAnswer
  BY <1>2, <1>3, DmxAreFunctions
<1> QED BY <1>1, <1>4 DEF DmxService!serviceVars

\* Destroying the computation is Return.
LEMMA DmxReleaseReturns ==
    ASSUME DmxInv, NEW c \in Callers, DmxRelease(c)
    PROVE  DmxService!Return(c)
<1>1. /\ dmxCaller[c] = "read" /\ dmxCaller'[c] = "idle" /\ dmxAbort' = dmxAbort
      /\ dmxSize' = [dmxSize EXCEPT ![c] = 0]
      /\ \A x \in Callers \ {c} :
            /\ dmxCaller'[x] = dmxCaller[x] /\ dmxSize'[x] = dmxSize[x]
            /\ dmxPartial'[x] = dmxPartial[x] /\ dmxParts'[x] = dmxParts[x]
  BY DEF DmxRelease, DmxInv, DmxTypes
<1>2. DmxPhase[c] \in {"served", "cancelled"} /\ DmxPhase'[c] = "idle" /\ DmxAnswer'[c] = <<>>
  BY <1>1 DEF DmxPhase, DmxAnswer
<1>3. \A x \in Callers \ {c} : DmxPhase'[x] = DmxPhase[x] /\ DmxAnswer'[x] = DmxAnswer[x]
  BY <1>1, DmxSameSeen
<1>4. DmxPhase' = [DmxPhase EXCEPT ![c] = "idle"]
  BY <1>2, <1>3, DmxAreFunctions, DmxOneChanges
<1>5. DmxAnswer' = [DmxAnswer EXCEPT ![c] = <<>>]
  BY <1>2, <1>3, DmxAreFunctions, DmxOneChanges
<1> QED BY <1>1, <1>2, <1>4, <1>5 DEF DmxService!Return, DmxService!Nothing

\* Every step of DemuxingNetwork is a step of the service, or none.
LEMMA DmxStep ==
    DmxInv /\ [DmxNext]_dmxVars => [DmxService!ServiceNext]_(DmxService!serviceVars)
<1> SUFFICES ASSUME DmxInv, [DmxNext]_dmxVars
             PROVE  DmxService!ServiceNext \/ UNCHANGED DmxService!serviceVars
  OBVIOUS
<1>1. ASSUME NEW c \in Callers, NEW n \in 0 .. MaxBatch, DmxSubmit(c, n)
      PROVE  DmxService!ServiceNext
  BY <1>1, SubmitSubmits DEF DmxService!ServiceNext
<1>2. ASSUME NEW c \in Callers, DmxSplit(c)
      PROVE  DmxService!ServiceNext \/ UNCHANGED DmxService!serviceVars
  BY <1>2, SplitSeen DEF DmxService!ServiceNext
<1>3. ASSUME NEW c \in Callers, DmxEnqueue(c) PROVE UNCHANGED DmxService!serviceVars
  BY <1>3, EnqueueUnseen
<1>4. ASSUME NEW c \in Callers, DmxReturn(c) PROVE DmxService!ServiceNext
  BY <1>4, WaitSeen DEF DmxService!ServiceNext
<1>5. ASSUME NEW c \in Callers, DmxRelease(c) PROVE DmxService!ServiceNext
  BY <1>5, DmxReleaseReturns DEF DmxService!ServiceNext
<1>6. ASSUME NEW w \in DmxWorkers,
             DmxGoToSleep(w) \/ DmxLeave(w) \/ DmxStart(w) \/ DmxTake(w) \/ DmxNotify(w)
                 \/ DmxSpuriousWake(w)
      PROVE  UNCHANGED DmxService!serviceVars
  <2>1. UNCHANGED <<dmxCaller, dmxSize, dmxPartial, dmxAbort>> /\ UNCHANGED dmxParts
    BY <1>6 DEF DmxGoToSleep, DmxLeave, DmxStart, DmxTake, DmxNotify, DmxSpuriousWake,
                dmxCallerVars
  <2> QED BY <2>1, DmxUnseen
<1>7. ASSUME NEW w \in DmxWorkers, DmxAddParent(w) PROVE UNCHANGED DmxService!serviceVars
  <2>1. UNCHANGED <<dmxCaller, dmxSize, dmxPartial, dmxAbort>>
    BY <1>7 DEF DmxAddParent
  <2>2. \A x \in Callers : dmxParts'[x] = dmxParts[x] \/ dmxCaller[x] = "wait"
    BY <1>7, AddParentKeeps
  <2> QED BY <2>1, <2>2, DmxUnseen
<1>8. ASSUME NEW w \in DmxWorkers, DmxCompute(w) PROVE UNCHANGED DmxService!serviceVars
  <2>1. UNCHANGED <<dmxCaller, dmxSize, dmxPartial, dmxAbort>>
    BY <1>8 DEF DmxCompute
  <2>2. \A x \in Callers : dmxParts'[x] = dmxParts[x] \/ dmxCaller[x] \in {"enqueue", "wait"}
    BY <1>8, ComputeKeeps
  <2> QED BY <2>1, <2>2, DmxUnseen
<1>9. ASSUME DmxSetAbort PROVE DmxService!ServiceNext
  <2>1. UNCHANGED <<dmxCaller, dmxSize, dmxPartial, dmxParts>> /\ ~dmxAbort /\ dmxAbort'
    BY <1>9 DEF DmxSetAbort, DmxInv, dmxCallerVars
  <2>2. \A c \in Callers : DmxPhase'[c] = DmxPhase[c] /\ DmxAnswer'[c] = DmxAnswer[c]
    BY <2>1, DmxSameSeen
  <2>3. DmxPhase' = DmxPhase /\ DmxAnswer' = DmxAnswer
    BY <2>2, DmxAreFunctions
  <2> QED BY <2>1, <2>3 DEF DmxService!ServiceNext, DmxService!Close
<1>10. ASSUME DmxNotifyAll \/ DmxWait \/ DmxUnstick \/ DmxDestroyed \/ UNCHANGED dmxVars
       PROVE  UNCHANGED DmxService!serviceVars
  <2>1. UNCHANGED <<dmxCaller, dmxSize, dmxPartial, dmxAbort>> /\ UNCHANGED dmxParts
    BY <1>10 DEF DmxNotifyAll, DmxWait, DmxUnstick, DmxDestroyed, dmxVars, dmxCallerVars
  <2> QED BY <2>1, DmxUnseen
<1> QED
  BY <1>1, <1>2, <1>3, <1>4, <1>5, <1>6, <1>7, <1>8, <1>9, <1>10
     DEF DmxNext, DmxCallerStep, DmxWorkerStep, DmxDestructorStep

\* A new network offers the service.
LEMMA DmxStartsOpen == DmxInit => DmxService!ServiceInit
<1> SUFFICES ASSUME DmxInit PROVE DmxService!ServiceInit
  OBVIOUS
<1>1. \A c \in Callers : DmxPhase[c] = "idle" /\ DmxAnswer[c] = <<>>
  BY DEF DmxInit, DmxPhase, DmxAnswer
<1>2. DmxPhase = [c \in Callers |-> "idle"] /\ DmxAnswer = [c \in Callers |-> <<>>]
  BY <1>1, DmxAreFunctions
<1> QED BY <1>2 DEF DmxInit, DmxService!ServiceInit, DmxService!Nothing

\* DemuxingNetwork implements the service of network.h for every number of callers
\* and workers, every batch size and minimum-split-size and every order of their
\* steps: a caller whose ComputeBlocking returns reads at every index the evaluation
\* of the input it added there, whichever workers computed the parts, and only the
\* destructor lets a call return without results.
THEOREM DmxRefinesService == DmxSpec => DmxImplementsService
<1>1. DmxInit => DmxService!ServiceInit
  BY DmxStartsOpen
<1>2. DmxInv /\ [DmxNext]_dmxVars => [DmxService!ServiceNext]_(DmxService!serviceVars)
  BY DmxStep
<1> QED
  BY <1>1, <1>2, DmxInvariance, PTL DEF DmxSpec, DmxImplementsService, DmxService!ServiceSpec

(***************************************************************************)
(* The computation that goes through the cache.                            *)
(***************************************************************************)
-----------------------------------------------------------------------------
(* Counting the entries of a minibatch that asked for an evaluation. *)

AskedUpTo(m, i) == {j \in 1..i : m[j].nn_queried}

Asked(m, i) == Cardinality(AskedUpTo(m, i))

LEMMA AskedFinite ==
    ASSUME NEW m, NEW i \in Nat
    PROVE  IsFiniteSet(AskedUpTo(m, i)) /\ Asked(m, i) \in Nat
<1>1. IsFiniteSet(1..i)
  BY FS_Interval
<1>2. AskedUpTo(m, i) \subseteq 1..i
  BY DEF AskedUpTo
<1> QED BY <1>1, <1>2, FS_Subset, FS_CardinalityType DEF Asked

\* One entry more.
LEMMA AskedNext ==
    ASSUME NEW m, NEW i \in Nat
    PROVE  /\ m[i + 1].nn_queried => Asked(m, i + 1) = Asked(m, i) + 1
           /\ ~m[i + 1].nn_queried => Asked(m, i + 1) = Asked(m, i)
<1>1. ASSUME m[i + 1].nn_queried PROVE Asked(m, i + 1) = Asked(m, i) + 1
  <2>1. AskedUpTo(m, i + 1) = AskedUpTo(m, i) \cup {i + 1} /\ i + 1 \notin AskedUpTo(m, i)
    BY <1>1 DEF AskedUpTo
  <2> QED BY <2>1, AskedFinite, FS_AddElement DEF Asked
<1>2. ASSUME ~m[i + 1].nn_queried PROVE Asked(m, i + 1) = Asked(m, i)
  <2>1. AskedUpTo(m, i + 1) = AskedUpTo(m, i)
    BY <1>2 DEF AskedUpTo
  <2> QED BY <2>1 DEF Asked
<1> QED BY <1>1, <1>2

\* The count grows with the entries, and depends on them only.
LEMMA AskedGrows ==
    ASSUME NEW m, NEW i \in Nat, NEW j \in Nat, i <= j
    PROVE  Asked(m, i) <= Asked(m, j)
<1>1. AskedUpTo(m, i) \subseteq AskedUpTo(m, j)
  BY DEF AskedUpTo
<1> QED BY <1>1, AskedFinite, FS_Subset DEF Asked

LEMMA AskedSame ==
    ASSUME NEW m, NEW n, NEW i \in Nat, \A j \in 1..i : m[j] = n[j]
    PROVE  Asked(m, i) = Asked(n, i)
<1>1. AskedUpTo(m, i) = AskedUpTo(n, i)
  BY DEF AskedUpTo
<1> QED BY <1>1 DEF Asked

LEMMA AskedNone == ASSUME NEW m PROVE Asked(m, 0) = 0
<1>1. AskedUpTo(m, 0) = {}
  BY DEF AskedUpTo
<1> QED BY <1>1, FS_EmptySet DEF Asked

-----------------------------------------------------------------------------
(* The inductive invariant: what a worker's own state looks like. *)

CCEntries == [key : CCKeys, nn_queried : BOOLEAN, is_cache_hit : BOOLEAN]
CCItems == [hash : CCKeys, lock : CCKeys \cup {CCNone}, idx_in_parent : Int]

\* A WorkItem has the value of its position: in its lock or from the network.
ItemSound(item, parent) ==
    \/ item.idx_in_parent = -1 /\ item.lock = item.hash
    \/ item.idx_in_parent \in 0..Len(parent) - 1 /\ parent[item.idx_in_parent + 1] = item.hash

\* The item that FetchMinibatchResults reads for an entry is the entry's.
Aligned(mini, batch) ==
    \A i \in 1..Len(mini) :
        mini[i].nn_queried /\ Asked(mini, i - 1) < Len(batch) =>
            batch[Asked(mini, i - 1) + 1].hash = mini[i].key

Batches(mini, batch, parent) ==
    /\ mini \in Seq(CCEntries) /\ batch \in Seq(CCItems) /\ parent \in Seq(CCKeys)
    /\ \A i \in 1..Len(batch) : ItemSound(batch[i], parent)
    /\ parent # << >> => \E i \in 1..Len(batch) : batch[i].idx_in_parent # -1
    /\ Aligned(mini, batch)

\* The last entry and, once it is there, the item that was added for it.
LastAsked(mini) == mini # << >> /\ mini[Len(mini)].nn_queried

Place(where, mini, batch, key, count) ==
    \/ where = "gather" /\ Asked(mini, Len(mini)) = Len(batch)
    \/ /\ where = "out of order" /\ Asked(mini, Len(mini)) = Len(batch)
       /\ LastAsked(mini) /\ batch[Len(batch)].idx_in_parent = -1
    \/ /\ where = "add" /\ Asked(mini, Len(mini)) = Len(batch) + 1
       /\ LastAsked(mini) /\ mini[Len(mini)].key = key
    \/ where \in {"prefetch", "fetch"} /\ Asked(mini, Len(mini)) <= Len(batch)
    \/ where = "add prefetch" /\ Asked(mini, Len(mini)) <= Len(batch) /\ key \in CCKeys
    \/ where = "fill" /\ Asked(mini, Len(mini)) <= Len(batch) /\ count < Len(batch)

\* The state of one worker is sound.
WorkerSound(w) ==
    /\ Batches(ccMini[w], ccBatch[w], ccParent[w])
    /\ Place(ccPc[w], ccMini[w], ccBatch[w], ccKey[w], ccCount[w])

CCPlaces == {"gather", "out of order", "add", "prefetch", "add prefetch", "fill", "fetch"}

CCTypes ==
    /\ ccCache \in [CCKeys -> CCKeys \cup {CCNone}]
    /\ ccPc \in [CCWorkers -> CCPlaces]
    /\ ccMini \in [CCWorkers -> Seq(CCEntries)]
    /\ ccBatch \in [CCWorkers -> Seq(CCItems)]
    /\ ccParent \in [CCWorkers -> Seq(CCKeys)]
    /\ ccKey \in [CCWorkers -> CCKeys \cup {CCNone}]
    /\ ccCount \in [CCWorkers -> Nat]

CacheSound == \A k \in CCKeys : ccCache[k] \in {k, CCNone}

CCInv == CCTypes /\ CacheSound /\ \A w \in CCWorkers : WorkerSound(w)

-----------------------------------------------------------------------------
(* What the operations do to a minibatch and a batch. *)

LEMMA AppendFacts ==
    ASSUME NEW S, NEW s \in Seq(S), NEW e \in S
    PROVE  /\ Append(s, e) \in Seq(S) /\ Append(s, e) # << >>
           /\ Len(s) \in Nat /\ Len(Append(s, e)) = Len(s) + 1
           /\ \A i \in 1..Len(s) : Append(s, e)[i] = s[i]
           /\ Append(s, e)[Len(s) + 1] = e
OBVIOUS

LEMMA FrontFacts ==
    ASSUME NEW S, NEW s \in Seq(S), s # << >>
    PROVE  /\ Front(s) \in Seq(S) /\ Len(s) \in Nat \ {0}
           /\ Len(Front(s)) = Len(s) - 1
           /\ \A i \in 1..Len(s) - 1 : Front(s)[i] = s[i]
           /\ Last(s) = s[Len(s)]
<1>1. Len(s) \in Nat \ {0} /\ Front(s) = SubSeq(s, 1, Len(s) - 1) /\ Last(s) = s[Len(s)]
  BY DEF Front, Last
<1>2. Len(s) - 1 \in Nat /\ \A i \in 1..Len(s) - 1 : s[i] \in S
  BY <1>1
<1>3. SubSeq(s, 1, Len(s) - 1) = [i \in 1..Len(s) - 1 |-> s[i]]
  BY <1>1
<1> DEFINE f == [i \in 1..Len(s) - 1 |-> s[i]]
<1>4. f \in Seq(S) /\ Len(f) = Len(s) - 1 /\ \A i \in 1..Len(s) - 1 : f[i] = s[i]
  BY <1>2
<1>5. Front(s) = f
  BY <1>1, <1>3
<1> HIDE DEF f
<1> QED BY <1>1, <1>4, <1>5

\* A new entry of the minibatch: its place in the batch is the next one.
EntryAdded(m, batch, parent, e) ==
    /\ Batches(m, batch, parent)
    /\ m[Len(m)] = e /\ m # << >>
    /\ e.nn_queried => Asked(m, Len(m)) = Len(batch) + 1
    /\ ~e.nn_queried => Asked(m, Len(m)) = Len(batch)

LEMMA AddEntry ==
    ASSUME NEW mini, NEW batch, NEW parent, Batches(mini, batch, parent),
           Asked(mini, Len(mini)) = Len(batch), NEW e \in CCEntries,
           NEW m, m = Append(mini, e)
    PROVE  EntryAdded(m, batch, parent, e)
<1>1. /\ m \in Seq(CCEntries) /\ m # << >> /\ Len(mini) \in Nat /\ Len(m) = Len(mini) + 1
      /\ \A i \in 1..Len(mini) : m[i] = mini[i]
      /\ m[Len(mini) + 1] = e
  BY AppendFacts DEF Batches
<1>2. ASSUME NEW i \in 0..Len(mini) PROVE Asked(m, i) = Asked(mini, i)
  <2>1. i \in Nat /\ \A j \in 1..i : m[j] = mini[j]
    BY <1>1
  <2> QED BY <2>1, AskedSame
<1>3. /\ e.nn_queried => Asked(m, Len(m)) = Len(batch) + 1
      /\ ~e.nn_queried => Asked(m, Len(m)) = Len(batch)
  <2>1. Asked(m, Len(mini)) = Len(batch)
    BY <1>1, <1>2
  <2> QED BY <1>1, <2>1, AskedNext
<1>4. Aligned(m, batch)
  <2> SUFFICES ASSUME NEW i \in 1..Len(m), m[i].nn_queried, Asked(m, i - 1) < Len(batch)
               PROVE  batch[Asked(m, i - 1) + 1].hash = m[i].key
    BY DEF Aligned
  <2>1. Asked(m, i - 1) = Asked(mini, i - 1)
    BY <1>1, <1>2
  <2>2. i # Len(mini) + 1
    <3> SUFFICES ASSUME i = Len(mini) + 1 PROVE FALSE
      OBVIOUS
    <3>1. i - 1 = Len(mini) /\ Len(batch) \in Nat
      BY <1>1 DEF Batches
    <3>2. Asked(m, i - 1) = Len(batch)
      BY <2>1, <3>1
    <3> QED BY <3>1, <3>2
  <2>3. i \in 1..Len(mini) /\ m[i] = mini[i]
    BY <1>1, <2>2
  <2> QED BY <2>1, <2>3 DEF Batches, Aligned
<1>5. Batches(m, batch, parent)
  BY <1>1, <1>4 DEF Batches
<1> QED BY <1>1, <1>3, <1>5 DEF EntryAdded

\* A new item, for the last entry of the minibatch or for a prefetched leaf; inputs
\* of the network may have been added behind those that were there.
InputsGrow(parent, inputs, item) ==
    /\ inputs \in Seq(CCKeys) /\ Len(parent) <= Len(inputs)
    /\ \A i \in 1..Len(parent) : inputs[i] = parent[i]
    /\ inputs = parent \/ item.idx_in_parent # -1

ItemFits(mini, batch, item) ==
    \/ Asked(mini, Len(mini)) <= Len(batch)
    \/ /\ Asked(mini, Len(mini)) = Len(batch) + 1
       /\ LastAsked(mini) /\ mini[Len(mini)].key = item.hash

ItemAdded(mini, batch, inputs, item, b) ==
    Batches(mini, b, inputs) /\ Len(b) = Len(batch) + 1 /\ b[Len(batch) + 1] = item

LEMMA AddItem ==
    ASSUME NEW mini, NEW batch, NEW parent, Batches(mini, batch, parent),
           NEW item \in CCItems, NEW inputs, InputsGrow(parent, inputs, item),
           ItemSound(item, inputs), ItemFits(mini, batch, item),
           NEW b, b = Append(batch, item)
    PROVE  ItemAdded(mini, batch, inputs, item, b)
<1>1. /\ b \in Seq(CCItems) /\ Len(batch) \in Nat /\ Len(b) = Len(batch) + 1
      /\ \A i \in 1..Len(batch) : b[i] = batch[i]
      /\ b[Len(batch) + 1] = item
  BY AppendFacts DEF Batches
<1>2. /\ mini \in Seq(CCEntries) /\ Len(mini) \in Nat /\ parent \in Seq(CCKeys)
      /\ Len(parent) \in Nat /\ Len(inputs) \in Nat /\ Len(parent) <= Len(inputs)
      /\ \A i \in 1..Len(parent) : inputs[i] = parent[i]
      /\ inputs \in Seq(CCKeys) /\ (inputs = parent \/ item.idx_in_parent # -1)
  BY DEF Batches, InputsGrow
<1>3. ASSUME NEW i \in 1..Len(b) PROVE ItemSound(b[i], inputs)
  <2>1. CASE i = Len(batch) + 1
    BY <1>1, <2>1
  <2>2. CASE i \in 1..Len(batch)
    <3>1. ItemSound(batch[i], parent) /\ b[i] = batch[i] /\ batch[i] \in CCItems
      BY <1>1, <2>2 DEF Batches
    <3> PICK k : k = batch[i].idx_in_parent
      OBVIOUS
    <3>2. CASE k = -1
      BY <3>1, <3>2 DEF ItemSound
    <3>3. CASE k # -1
      <4>1. k \in 0..Len(parent) - 1 /\ parent[k + 1] = batch[i].hash
        BY <3>1, <3>3 DEF ItemSound
      <4>2. k \in 0..Len(inputs) - 1 /\ k + 1 \in 1..Len(parent)
        BY <1>2, <4>1
      <4>3. inputs[k + 1] = parent[k + 1]
        BY <1>2, <4>2
      <4> QED BY <3>1, <4>1, <4>2, <4>3 DEF ItemSound
    <3> QED BY <3>2, <3>3
  <2> QED BY <1>1, <2>1, <2>2
<1>4. inputs # << >> => \E i \in 1..Len(b) : b[i].idx_in_parent # -1
  <2>1. CASE item.idx_in_parent # -1
    BY <1>1, <2>1
  <2>2. CASE inputs = parent
    <3> SUFFICES ASSUME inputs # << >> PROVE \E i \in 1..Len(b) : b[i].idx_in_parent # -1
      OBVIOUS
    <3>1. PICK i \in 1..Len(batch) : batch[i].idx_in_parent # -1
      BY <2>2 DEF Batches
    <3> QED BY <1>1, <3>1
  <2> QED BY <1>2, <2>1, <2>2
<1>5. Aligned(mini, b)
  <2> SUFFICES ASSUME NEW i \in 1..Len(mini), mini[i].nn_queried, Asked(mini, i - 1) < Len(b)
               PROVE  b[Asked(mini, i - 1) + 1].hash = mini[i].key
    BY DEF Aligned
  <2>1. /\ i - 1 \in Nat /\ i \in Nat /\ Asked(mini, i - 1) \in Nat
        /\ Asked(mini, i) = Asked(mini, i - 1) + 1
        /\ Asked(mini, i) <= Asked(mini, Len(mini)) /\ Asked(mini, Len(mini)) \in Nat
    <3>1. i - 1 \in Nat /\ (i - 1) + 1 = i /\ i \in Nat /\ i <= Len(mini)
      BY <1>2
    <3>2. Asked(mini, i) = Asked(mini, i - 1) + 1
      BY <3>1, AskedNext
    <3> QED BY <1>2, <3>1, <3>2, AskedFinite, AskedGrows
  <2>2. CASE Asked(mini, i - 1) < Len(batch)
    <3>1. batch[Asked(mini, i - 1) + 1].hash = mini[i].key
      BY <2>2 DEF Batches, Aligned
    <3> QED BY <1>1, <2>1, <2>2, <3>1
  <2>3. CASE ~(Asked(mini, i - 1) < Len(batch))
    <3>1. Asked(mini, i - 1) = Len(batch)
      BY <1>1, <2>1, <2>3
    <3>2. /\ Asked(mini, Len(mini)) = Len(batch) + 1
          /\ LastAsked(mini) /\ mini[Len(mini)].key = item.hash
      BY <1>1, <2>1, <3>1 DEF ItemFits
    <3>3. i = Len(mini)
      <4> SUFFICES ASSUME i <= Len(mini) - 1 PROVE FALSE
        BY <1>2
      <4>1. Len(mini) - 1 \in Nat /\ (Len(mini) - 1) + 1 = Len(mini)
        BY <1>2
      <4>2. Asked(mini, Len(mini)) = Asked(mini, Len(mini) - 1) + 1
        BY <3>2, <4>1, AskedNext DEF LastAsked
      <4>3. Asked(mini, i) <= Asked(mini, Len(mini) - 1) /\ Asked(mini, Len(mini) - 1) \in Nat
        BY <2>1, <4>1, AskedGrows, AskedFinite
      <4> QED BY <1>1, <2>1, <3>1, <3>2, <4>2, <4>3
    <3> QED BY <1>1, <3>1, <3>2, <3>3
  <2> QED BY <2>2, <2>3
<1>6. Batches(mini, b, inputs)
  BY <1>1, <1>2, <1>3, <1>4, <1>5 DEF Batches
<1> QED BY <1>1, <1>6 DEF ItemAdded

\* PopCacheHit and the removal from the minibatch undo the addition.
LEMMA PopLast ==
    ASSUME NEW mini, NEW batch, NEW parent, Batches(mini, batch, parent),
           Asked(mini, Len(mini)) = Len(batch), LastAsked(mini),
           batch[Len(batch)].idx_in_parent = -1
    PROVE  /\ Batches(Front(mini), Front(batch), parent)
           /\ Asked(Front(mini), Len(Front(mini))) = Len(Front(batch))
           /\ batch # << >> /\ batch[Len(batch)].hash = mini[Len(mini)].key
<1> DEFINE m == Front(mini)
           b == Front(batch)
<1>1. /\ m \in Seq(CCEntries) /\ Len(mini) \in Nat \ {0} /\ Len(m) = Len(mini) - 1
      /\ \A i \in 1..Len(mini) - 1 : m[i] = mini[i]
  BY FrontFacts DEF Batches, LastAsked
<1>2. /\ Len(mini) - 1 \in Nat /\ Asked(mini, Len(mini) - 1) \in Nat
      /\ Len(batch) = Asked(mini, Len(mini) - 1) + 1
  <2>1. Len(mini) - 1 \in Nat /\ (Len(mini) - 1) + 1 = Len(mini)
    BY <1>1
  <2> QED BY <2>1, AskedFinite, AskedNext DEF LastAsked
<1>3. batch \in Seq(CCItems) /\ batch # << >>
  <2>1. batch \in Seq(CCItems)
    BY DEF Batches
  <2> QED BY <1>2, <2>1
<1>4. /\ b \in Seq(CCItems) /\ Len(b) = Len(batch) - 1
      /\ \A i \in 1..Len(batch) - 1 : b[i] = batch[i]
  BY <1>3, FrontFacts
<1>5. batch[Len(batch)].hash = mini[Len(mini)].key
  BY <1>1, <1>2 DEF Batches, Aligned, LastAsked
<1> HIDE DEF m, b
<1>6. ASSUME NEW i \in 0..Len(m) PROVE Asked(m, i) = Asked(mini, i)
  BY <1>1, AskedSame
<1>7. Asked(m, Len(m)) = Len(b)
  BY <1>1, <1>2, <1>4, <1>6
<1>8. Aligned(m, b)
  <2> SUFFICES ASSUME NEW i \in 1..Len(m), m[i].nn_queried, Asked(m, i - 1) < Len(b)
               PROVE  b[Asked(m, i - 1) + 1].hash = m[i].key
    BY DEF Aligned
  <2>1. /\ Asked(m, i - 1) = Asked(mini, i - 1) /\ i - 1 \in Nat
        /\ i \in 1..Len(mini) /\ m[i] = mini[i]
    BY <1>1, <1>6
  <2>2. Asked(mini, i - 1) \in Nat
    BY <2>1, AskedFinite
  <2>3. Asked(mini, i - 1) < Len(batch)
    BY <1>2, <1>4, <2>1, <2>2
  <2>4. batch[Asked(mini, i - 1) + 1].hash = mini[i].key
    BY <2>1, <2>3 DEF Batches, Aligned
  <2>5. b[Asked(mini, i - 1) + 1] = batch[Asked(mini, i - 1) + 1]
    <3>1. Asked(mini, i - 1) + 1 \in 1..Len(batch) - 1
      BY <1>2, <1>4, <2>1, <2>2
    <3> QED BY <1>4, <3>1
  <2> QED BY <2>1, <2>4, <2>5
<1>9. \A i \in 1..Len(b) : ItemSound(b[i], parent)
  BY <1>2, <1>4 DEF Batches
<1>10. parent # << >> => \E i \in 1..Len(b) : b[i].idx_in_parent # -1
  <2> SUFFICES ASSUME parent # << >> PROVE \E i \in 1..Len(b) : b[i].idx_in_parent # -1
    OBVIOUS
  <2>1. PICK i \in 1..Len(batch) : batch[i].idx_in_parent # -1
    BY DEF Batches
  <2>2. i # Len(batch)
    BY <2>1
  <2>3. i \in 1..Len(b) /\ b[i] = batch[i]
    BY <1>2, <1>4, <2>2
  <2> QED BY <2>1, <2>3
<1>11. Batches(m, b, parent)
  <2>1. parent \in Seq(CCKeys)
    BY DEF Batches
  <2> QED BY <1>1, <1>4, <1>8, <1>9, <1>10, <2>1 DEF Batches
<1> QED BY <1>3, <1>5, <1>7, <1>11 DEF m, b

-----------------------------------------------------------------------------
(* Every step preserves the invariant. *)

LEMMA CCInitially == CCInit => CCInv
<1> SUFFICES ASSUME CCInit PROVE CCInv
  OBVIOUS
<1>1. CCTypes /\ CacheSound
  <2>1. << >> \in Seq(CCEntries) /\ << >> \in Seq(CCItems) /\ << >> \in Seq(CCKeys) /\ 0 \in Nat
    OBVIOUS
  <2>2. /\ ccCache \in [CCKeys -> CCKeys \cup {CCNone}] /\ ccPc \in [CCWorkers -> CCPlaces]
        /\ ccKey \in [CCWorkers -> CCKeys \cup {CCNone}] /\ ccCount \in [CCWorkers -> Nat]
    <3>1. CCNone \in CCKeys \cup {CCNone} /\ "gather" \in CCPlaces
      BY DEF CCPlaces
    <3> QED BY <2>1, <3>1, Zenon DEF CCInit
  <2>3. /\ ccMini \in [CCWorkers -> Seq(CCEntries)] /\ ccBatch \in [CCWorkers -> Seq(CCItems)]
        /\ ccParent \in [CCWorkers -> Seq(CCKeys)]
    BY <2>1, Zenon DEF CCInit
  <2>4. CacheSound
    BY DEF CCInit, CacheSound
  <2> QED BY <2>2, <2>3, <2>4 DEF CCTypes
<1>2. ASSUME NEW w \in CCWorkers PROVE WorkerSound(w)
  <2>1. /\ ccMini[w] = << >> /\ ccBatch[w] = << >> /\ ccParent[w] = << >> /\ ccPc[w] = "gather"
    BY DEF CCInit
  <2>2. Aligned(<< >>, << >>)
    BY DEF Aligned
  <2>3. Batches(<< >>, << >>, << >>)
    BY <2>2 DEF Batches
  <2>4. Asked(<< >>, Len(<< >>)) = Len(<< >>)
    BY AskedNone
  <2> QED BY <2>1, <2>3, <2>4 DEF WorkerSound, Place
<1> QED BY <1>1, <1>2 DEF CCInv

\* A step of w that leaves it in the given state.
Moves(w, to, mini, batch, parent, key, count) ==
    /\ ccPc' = [ccPc EXCEPT ![w] = to]
    /\ ccMini' = [ccMini EXCEPT ![w] = mini]
    /\ ccBatch' = [ccBatch EXCEPT ![w] = batch]
    /\ ccParent' = [ccParent EXCEPT ![w] = parent]
    /\ ccKey' = [ccKey EXCEPT ![w] = key]
    /\ ccCount' = [ccCount EXCEPT ![w] = count]

CacheKept ==
    /\ ccCache' \in [CCKeys -> CCKeys \cup {CCNone}]
    /\ \A k \in CCKeys : ccCache'[k] \in {k, CCNone}

\* A function on the workers, with one value replaced.
LEMMA OneValue ==
    ASSUME NEW S, NEW f \in [CCWorkers -> S], NEW w \in CCWorkers, NEW x \in S,
           NEW g, g = [f EXCEPT ![w] = x]
    PROVE  /\ g \in [CCWorkers -> S] /\ g[w] = x
           /\ \A v \in CCWorkers : v # w => g[v] = f[v]
OBVIOUS

LEMMA SameValue ==
    ASSUME NEW S, NEW f \in [CCWorkers -> S], NEW w \in CCWorkers
    PROVE  f = [f EXCEPT ![w] = f[w]] /\ f[w] \in S
OBVIOUS

\* It is enough to look at the state of the worker that moves.
LEMMA OneWorker ==
    ASSUME CCInv, NEW w \in CCWorkers, NEW to \in CCPlaces, NEW mini, NEW batch, NEW parent,
           NEW key \in CCKeys \cup {CCNone}, NEW count \in Nat,
           Moves(w, to, mini, batch, parent, key, count), CacheKept,
           Batches(mini, batch, parent), Place(to, mini, batch, key, count)
    PROVE  CCInv'
<1>1. CCTypes /\ \A v \in CCWorkers : WorkerSound(v)
  BY DEF CCInv
<1>2. mini \in Seq(CCEntries) /\ batch \in Seq(CCItems) /\ parent \in Seq(CCKeys)
  BY DEF Batches
<1>3. /\ ccPc' \in [CCWorkers -> CCPlaces] /\ ccPc'[w] = to
      /\ \A v \in CCWorkers : v # w => ccPc'[v] = ccPc[v]
  BY <1>1 DEF CCTypes, Moves
<1>4. /\ ccMini' \in [CCWorkers -> Seq(CCEntries)] /\ ccMini'[w] = mini
      /\ \A v \in CCWorkers : v # w => ccMini'[v] = ccMini[v]
  BY <1>1, <1>2, OneValue DEF CCTypes, Moves
<1>5. /\ ccBatch' \in [CCWorkers -> Seq(CCItems)] /\ ccBatch'[w] = batch
      /\ \A v \in CCWorkers : v # w => ccBatch'[v] = ccBatch[v]
  BY <1>1, <1>2, OneValue DEF CCTypes, Moves
<1>6. /\ ccParent' \in [CCWorkers -> Seq(CCKeys)] /\ ccParent'[w] = parent
      /\ \A v \in CCWorkers : v # w => ccParent'[v] = ccParent[v]
  BY <1>1, <1>2, OneValue DEF CCTypes, Moves
<1>7. /\ ccKey' \in [CCWorkers -> CCKeys \cup {CCNone}] /\ ccKey'[w] = key
      /\ \A v \in CCWorkers : v # w => ccKey'[v] = ccKey[v]
  BY <1>1 DEF CCTypes, Moves
<1>8. /\ ccCount' \in [CCWorkers -> Nat] /\ ccCount'[w] = count
      /\ \A v \in CCWorkers : v # w => ccCount'[v] = ccCount[v]
  BY <1>1 DEF CCTypes, Moves
<1>9. CCTypes' /\ CacheSound'
  BY <1>3, <1>4, <1>5, <1>6, <1>7, <1>8 DEF CCTypes, CacheSound, CacheKept
<1>10. ASSUME NEW v \in CCWorkers PROVE WorkerSound(v)'
  <2>1. CASE v = w
    BY <1>3, <1>4, <1>5, <1>6, <1>7, <1>8, <2>1 DEF WorkerSound
  <2>2. CASE v # w
    BY <1>1, <1>3, <1>4, <1>5, <1>6, <1>7, <1>8, <2>2 DEF WorkerSound
  <2> QED BY <2>1, <2>2
<1> QED BY <1>9, <1>10 DEF CCInv

\* The state of a worker, by names that do not change with a step.
StateOf(w, to, mini, batch, parent, key, count) ==
    /\ to = ccPc[w] /\ mini = ccMini[w] /\ batch = ccBatch[w] /\ parent = ccParent[w]
    /\ key = ccKey[w] /\ count = ccCount[w]
    /\ to \in CCPlaces /\ key \in CCKeys \cup {CCNone} /\ count \in Nat
    /\ Batches(mini, batch, parent) /\ Place(to, mini, batch, key, count)
    /\ ccPc = [ccPc EXCEPT ![w] = to] /\ ccMini = [ccMini EXCEPT ![w] = mini]
    /\ ccBatch = [ccBatch EXCEPT ![w] = batch] /\ ccParent = [ccParent EXCEPT ![w] = parent]
    /\ ccKey = [ccKey EXCEPT ![w] = key] /\ ccCount = [ccCount EXCEPT ![w] = count]

LEMMA WorkerState ==
    ASSUME CCInv, NEW w \in CCWorkers
    PROVE  \E to, mini, batch, parent, key, count :
               StateOf(w, to, mini, batch, parent, key, count)
<1>1. /\ ccPc \in [CCWorkers -> CCPlaces] /\ ccMini \in [CCWorkers -> Seq(CCEntries)]
      /\ ccBatch \in [CCWorkers -> Seq(CCItems)] /\ ccParent \in [CCWorkers -> Seq(CCKeys)]
      /\ ccKey \in [CCWorkers -> CCKeys \cup {CCNone}] /\ ccCount \in [CCWorkers -> Nat]
      /\ WorkerSound(w)
  BY DEF CCInv, CCTypes
<1>2. /\ ccPc = [ccPc EXCEPT ![w] = ccPc[w]] /\ ccPc[w] \in CCPlaces
      /\ ccMini = [ccMini EXCEPT ![w] = ccMini[w]]
      /\ ccBatch = [ccBatch EXCEPT ![w] = ccBatch[w]]
      /\ ccParent = [ccParent EXCEPT ![w] = ccParent[w]]
      /\ ccKey = [ccKey EXCEPT ![w] = ccKey[w]] /\ ccKey[w] \in CCKeys \cup {CCNone}
      /\ ccCount = [ccCount EXCEPT ![w] = ccCount[w]] /\ ccCount[w] \in Nat
  <2>1. ccPc = [ccPc EXCEPT ![w] = ccPc[w]] /\ ccPc[w] \in CCPlaces
    BY <1>1, SameValue
  <2>2. ccMini = [ccMini EXCEPT ![w] = ccMini[w]]
    BY <1>1, SameValue
  <2>3. ccBatch = [ccBatch EXCEPT ![w] = ccBatch[w]]
    BY <1>1, SameValue
  <2>4. ccParent = [ccParent EXCEPT ![w] = ccParent[w]]
    BY <1>1, SameValue
  <2>5. ccKey = [ccKey EXCEPT ![w] = ccKey[w]] /\ ccKey[w] \in CCKeys \cup {CCNone}
    BY <1>1, SameValue
  <2>6. ccCount = [ccCount EXCEPT ![w] = ccCount[w]] /\ ccCount[w] \in Nat
    BY <1>1, SameValue
  <2> QED BY <2>1, <2>2, <2>3, <2>4, <2>5, <2>6
<1>3. StateOf(w, ccPc[w], ccMini[w], ccBatch[w], ccParent[w], ccKey[w], ccCount[w])
  BY <1>1, <1>2 DEF StateOf, WorkerSound
<1> QED BY <1>3

LEMMA CacheUnchanged == ASSUME CCInv, UNCHANGED ccCache PROVE CacheKept
BY DEF CCInv, CCTypes, CacheSound, CacheKept

\* The item of a cache hit has the value of its position.
LEMMA CachedSound ==
    ASSUME CCInv, NEW k \in CCKeys, ccCache[k] # CCNone, NEW parent
    PROVE  /\ CachedItem(k) \in CCItems /\ ItemSound(CachedItem(k), parent)
           /\ CachedItem(k).hash = k /\ CachedItem(k).idx_in_parent = -1
<1>1. ccCache[k] = k
  BY DEF CCInv, CacheSound
<1> QED BY <1>1 DEF CachedItem, CCItems, ItemSound

LEMMA PickTerminalStep ==
    ASSUME CCInv, NEW w \in CCWorkers, NEW k \in CCKeys, CCPickTerminal(w, k) PROVE CCInv'
<1>0. PICK to, mini, batch, parent, key, count :
         StateOf(w, to, mini, batch, parent, key, count)
  BY WorkerState
<1> PICK e : e = Picked(k, FALSE, FALSE)
  OBVIOUS
<1>1. e \in CCEntries /\ ~e.nn_queried
  BY DEF Picked, CCEntries
<1>2. /\ to = "gather" /\ Batches(mini, batch, parent) /\ Asked(mini, Len(mini)) = Len(batch)
      /\ Place(to, mini, batch, key, count)
  BY <1>0 DEF StateOf, Place, CCPickTerminal, CCGathers
<1>3. CacheKept
  BY CacheUnchanged DEF CCPickTerminal
<1>m. PICK m : m = Append(mini, e)
  OBVIOUS
<1>4. Batches(m, batch, parent) /\ Asked(m, Len(m)) = Len(batch)
  <2>1. EntryAdded(m, batch, parent, e)
    BY <1>1, <1>2, <1>m, AddEntry
  <2> QED BY <1>1, <2>1 DEF EntryAdded
<1>5. Place(to, m, batch, key, count)
  BY <1>2, <1>4 DEF Place
<1>6. \/ Moves(w, to, mini, batch, parent, key, count)
      \/ Moves(w, to, m, batch, parent, key, count)
  BY <1>0, <1>m DEF CCPickTerminal, Moves, StateOf
<1>7. to \in CCPlaces /\ key \in CCKeys \cup {CCNone} /\ count \in Nat
  BY <1>0 DEF StateOf
<1> QED BY <1>2, <1>3, <1>4, <1>5, <1>6, <1>7, OneWorker

LEMMA PickCachedStep ==
    ASSUME CCInv, NEW w \in CCWorkers, NEW k \in CCKeys, CCPickCached(w, k) PROVE CCInv'
<1>0. PICK to, mini, batch, parent, key, count :
         StateOf(w, to, mini, batch, parent, key, count)
  BY WorkerState
<1> PICK e : e = Picked(k, TRUE, TRUE)
  OBVIOUS
<1>a. PICK item : item = CachedItem(k)
  OBVIOUS
<1>m. PICK m : m = Append(mini, e)
  OBVIOUS
<1>b. PICK b : b = Append(batch, item)
  OBVIOUS
<1>1. e \in CCEntries /\ e.nn_queried /\ e.key = k
  BY DEF Picked, CCEntries
<1>2. /\ to = "gather" /\ Batches(mini, batch, parent) /\ Asked(mini, Len(mini)) = Len(batch)
      /\ ccCache[k] # CCNone
  BY <1>0 DEF StateOf, Place, CCPickCached, CCGathers
<1>3. /\ item \in CCItems /\ ItemSound(item, parent) /\ item.hash = k /\ item.idx_in_parent = -1
  BY <1>2, <1>a, CachedSound
<1>4. CacheKept
  BY CacheUnchanged DEF CCPickCached
<1>5. Batches(m, batch, parent) /\ m # << >> /\ m[Len(m)] = e /\ Asked(m, Len(m)) = Len(batch) + 1
  <2>1. EntryAdded(m, batch, parent, e)
    BY <1>1, <1>2, <1>m, AddEntry
  <2> QED BY <1>1, <2>1 DEF EntryAdded
<1>6. LastAsked(m) /\ m[Len(m)].key = item.hash
  BY <1>1, <1>3, <1>5 DEF LastAsked
<1>7. Batches(m, b, parent) /\ Len(b) = Len(batch) + 1 /\ b[Len(batch) + 1] = item
  <2>1. parent \in Seq(CCKeys) /\ Len(parent) \in Nat
    BY <1>2 DEF Batches
  <2>2. InputsGrow(parent, parent, item)
    BY <2>1 DEF InputsGrow
  <2>3. ItemFits(m, batch, item)
    BY <1>5, <1>6 DEF ItemFits
  <2>4. ItemAdded(m, batch, parent, item, b)
    BY <1>3, <1>5, <2>2, <2>3, <1>b, AddItem
  <2> QED BY <2>4 DEF ItemAdded
<1>8. PICK next \in {"gather", "out of order"} : Moves(w, next, m, b, parent, key, count)
  BY <1>0, <1>a, <1>b, <1>m DEF CCPickCached, Moves, StateOf, Goes, AfterAdding
<1>9. Place(next, m, b, key, count)
  BY <1>3, <1>5, <1>6, <1>7 DEF Place
<1>10. next \in CCPlaces /\ key \in CCKeys \cup {CCNone} /\ count \in Nat
  BY <1>0 DEF StateOf, CCPlaces
<1> QED BY <1>4, <1>7, <1>8, <1>9, <1>10, OneWorker

LEMMA OutOfOrderStep ==
    ASSUME CCInv, NEW w \in CCWorkers, CCOutOfOrder(w) PROVE CCInv'
<1>0. PICK to, mini, batch, parent, key, count :
         StateOf(w, to, mini, batch, parent, key, count)
  BY WorkerState
<1>1. /\ to = "out of order" /\ Batches(mini, batch, parent)
      /\ Asked(mini, Len(mini)) = Len(batch) /\ LastAsked(mini)
      /\ batch[Len(batch)].idx_in_parent = -1
  BY <1>0 DEF StateOf, Place, CCOutOfOrder
<1>m. PICK m : m = Front(mini)
  OBVIOUS
<1>b. PICK b : b = Front(batch)
  OBVIOUS
<1>2. Batches(m, b, parent) /\ Asked(m, Len(m)) = Len(b)
  BY <1>1, <1>m, <1>b, PopLast
<1>3. CacheKept
  BY CacheUnchanged DEF CCOutOfOrder
<1>4. Moves(w, "gather", m, b, parent, key, count)
  BY <1>0, <1>m, <1>b DEF CCOutOfOrder, Moves, StateOf, Goes, PopCacheHit
<1>5. Place("gather", m, b, key, count)
  BY <1>2 DEF Place
<1>6. "gather" \in CCPlaces /\ key \in CCKeys \cup {CCNone} /\ count \in Nat
  BY <1>0 DEF StateOf, CCPlaces
<1> QED BY <1>2, <1>3, <1>4, <1>5, <1>6, OneWorker

LEMMA PickMissingStep ==
    ASSUME CCInv, NEW w \in CCWorkers, NEW k \in CCKeys, CCPickMissing(w, k) PROVE CCInv'
<1>0. PICK to, mini, batch, parent, key, count :
         StateOf(w, to, mini, batch, parent, key, count)
  BY WorkerState
<1> PICK e : e = Picked(k, TRUE, FALSE)
  OBVIOUS
<1>m. PICK m : m = Append(mini, e)
  OBVIOUS
<1>1. e \in CCEntries /\ e.nn_queried /\ e.key = k
  BY DEF Picked, CCEntries
<1>2. /\ to = "gather" /\ Batches(mini, batch, parent) /\ Asked(mini, Len(mini)) = Len(batch)
  BY <1>0 DEF StateOf, Place, CCPickMissing, CCGathers
<1>3. CacheKept
  BY CacheUnchanged DEF CCPickMissing
<1>4. Batches(m, batch, parent) /\ m # << >> /\ m[Len(m)] = e /\ Asked(m, Len(m)) = Len(batch) + 1
  <2>1. EntryAdded(m, batch, parent, e)
    BY <1>1, <1>2, <1>m, AddEntry
  <2> QED BY <1>1, <2>1 DEF EntryAdded
<1>5. Moves(w, "add", m, batch, parent, k, count)
  BY <1>0, <1>m DEF CCPickMissing, Moves, StateOf, Goes
<1>6. Place("add", m, batch, k, count)
  BY <1>1, <1>4 DEF Place, LastAsked
<1>7. "add" \in CCPlaces /\ k \in CCKeys \cup {CCNone} /\ count \in Nat
  BY <1>0 DEF StateOf, CCPlaces
<1> QED BY <1>3, <1>4, <1>5, <1>6, <1>7, OneWorker

\* AddInput, whether it finds the position in the cache or not.
LEMMA AddsItem ==
    ASSUME CCInv, NEW w \in CCWorkers, NEW k \in CCKeys, AddInput(w, k),
           NEW to, NEW mini, NEW batch, NEW parent, NEW key, NEW count,
           StateOf(w, to, mini, batch, parent, key, count),
           \/ Asked(mini, Len(mini)) <= Len(batch)
           \/ /\ Asked(mini, Len(mini)) = Len(batch) + 1
              /\ LastAsked(mini) /\ mini[Len(mini)].key = k
    PROVE  \E b, inputs :
             /\ ccBatch' = [ccBatch EXCEPT ![w] = b] /\ ccParent' = [ccParent EXCEPT ![w] = inputs]
             /\ Batches(mini, b, inputs) /\ Len(b) = Len(batch) + 1 /\ Len(batch) \in Nat
<1>1. /\ batch = ccBatch[w] /\ parent = ccParent[w] /\ Batches(mini, batch, parent)
      /\ ccParent = [ccParent EXCEPT ![w] = parent]
      /\ batch \in Seq(CCItems) /\ parent \in Seq(CCKeys) /\ Len(parent) \in Nat /\ Len(batch) \in Nat
  BY DEF StateOf, Batches
<1>2. CASE ccCache[k] # CCNone
  <2>1. PICK item : item = CachedItem(k)
    OBVIOUS
  <2>2. PICK b : b = Append(batch, item)
    OBVIOUS
  <2>3. item \in CCItems /\ ItemSound(item, parent) /\ item.hash = k
    BY <1>2, <2>1, CachedSound
  <2>4. InputsGrow(parent, parent, item)
    BY <1>1 DEF InputsGrow
  <2>5. ItemFits(mini, batch, item)
    BY <2>3 DEF ItemFits
  <2>6. ItemAdded(mini, batch, parent, item, b)
    BY <1>1, <2>2, <2>3, <2>4, <2>5, AddItem
  <2>7. ccBatch' = [ccBatch EXCEPT ![w] = b] /\ ccParent' = [ccParent EXCEPT ![w] = parent]
    BY <1>1, <1>2, <2>1, <2>2 DEF AddInput
  <2> QED BY <1>1, <2>6, <2>7 DEF ItemAdded
<1>3. CASE ccCache[k] = CCNone
  <2>1. PICK item : item = NetworkItem(w, k)
    OBVIOUS
  <2>2. PICK b : b = Append(batch, item)
    OBVIOUS
  <2>3. PICK inputs : inputs = Append(parent, k)
    OBVIOUS
  <2>4. /\ inputs \in Seq(CCKeys) /\ Len(inputs) = Len(parent) + 1
        /\ \A i \in 1..Len(parent) : inputs[i] = parent[i]
        /\ inputs[Len(parent) + 1] = k
    BY <1>1, <2>3, AppendFacts
  <2>5. item \in CCItems /\ item.hash = k /\ item.idx_in_parent = Len(parent)
    BY <1>1, <2>1 DEF NetworkItem, CCItems
  <2>6. ItemSound(item, inputs)
    <3>1. item.idx_in_parent \in 0..Len(inputs) - 1
      BY <1>1, <2>4, <2>5
    <3> QED BY <2>4, <2>5, <3>1 DEF ItemSound
  <2>7. InputsGrow(parent, inputs, item)
    BY <1>1, <2>4, <2>5 DEF InputsGrow
  <2>8. ItemFits(mini, batch, item)
    BY <2>5 DEF ItemFits
  <2>9. ItemAdded(mini, batch, inputs, item, b)
    BY <1>1, <2>2, <2>5, <2>6, <2>7, <2>8, AddItem
  <2>10. ccBatch' = [ccBatch EXCEPT ![w] = b] /\ ccParent' = [ccParent EXCEPT ![w] = inputs]
    BY <1>1, <1>3, <2>1, <2>2, <2>3 DEF AddInput
  <2> QED BY <1>1, <2>9, <2>10 DEF ItemAdded
<1> QED BY <1>2, <1>3

LEMMA AddPickedStep ==
    ASSUME CCInv, NEW w \in CCWorkers, CCAddPicked(w) PROVE CCInv'
<1>0. PICK to, mini, batch, parent, key, count :
         StateOf(w, to, mini, batch, parent, key, count)
  BY WorkerState
<1>1. /\ to = "add" /\ Asked(mini, Len(mini)) = Len(batch) + 1
      /\ LastAsked(mini) /\ mini[Len(mini)].key = key /\ AddInput(w, key)
  BY <1>0 DEF StateOf, Place, CCAddPicked
<1>2. key \in CCKeys
  <2>1. mini \in Seq(CCEntries) /\ mini # << >>
    BY <1>0, <1>1 DEF StateOf, Batches, LastAsked
  <2>2. mini[Len(mini)] \in CCEntries
    BY <2>1
  <2> QED BY <1>1, <2>2 DEF CCEntries
<1>3. PICK b, inputs :
         /\ ccBatch' = [ccBatch EXCEPT ![w] = b] /\ ccParent' = [ccParent EXCEPT ![w] = inputs]
         /\ Batches(mini, b, inputs) /\ Len(b) = Len(batch) + 1 /\ Len(batch) \in Nat
  BY <1>0, <1>1, <1>2, AddsItem
<1>4. CacheKept
  BY CacheUnchanged DEF CCAddPicked
<1>5. Moves(w, "gather", mini, b, inputs, CCNone, count)
  BY <1>0, <1>3 DEF CCAddPicked, Moves, StateOf, Goes, AfterAdding
<1>6. Place("gather", mini, b, CCNone, count)
  BY <1>1, <1>3 DEF Place
<1>7. "gather" \in CCPlaces /\ CCNone \in CCKeys \cup {CCNone} /\ count \in Nat
  BY <1>0 DEF StateOf, CCPlaces
<1> QED BY <1>3, <1>4, <1>5, <1>6, <1>7, OneWorker

LEMMA AddPrefetchStep ==
    ASSUME CCInv, NEW w \in CCWorkers, CCAddPrefetch(w) PROVE CCInv'
<1>0. PICK to, mini, batch, parent, key, count :
         StateOf(w, to, mini, batch, parent, key, count)
  BY WorkerState
<1>1. /\ to = "add prefetch" /\ Asked(mini, Len(mini)) <= Len(batch) /\ key \in CCKeys
      /\ AddInput(w, key)
  BY <1>0 DEF StateOf, Place, CCAddPrefetch
<1>2. Asked(mini, Len(mini)) \in Nat
  <2>1. mini \in Seq(CCEntries)
    BY <1>0 DEF StateOf, Batches
  <2>2. Len(mini) \in Nat
    BY <2>1
  <2> QED BY <2>2, AskedFinite
<1>3. PICK b, inputs :
         /\ ccBatch' = [ccBatch EXCEPT ![w] = b] /\ ccParent' = [ccParent EXCEPT ![w] = inputs]
         /\ Batches(mini, b, inputs) /\ Len(b) = Len(batch) + 1 /\ Len(batch) \in Nat
  BY <1>0, <1>1, AddsItem
<1>4. CacheKept
  BY CacheUnchanged DEF CCAddPrefetch
<1>5. Moves(w, "prefetch", mini, b, inputs, CCNone, count)
  BY <1>0, <1>3 DEF CCAddPrefetch, Moves, StateOf, Goes
<1>6. Place("prefetch", mini, b, CCNone, count)
  <2> PICK x \in Nat : x = Asked(mini, Len(mini))
    BY <1>2
  <2> PICK y \in Nat : y = Len(batch)
    BY <1>3
  <2>0. x <= y /\ Len(b) = y + 1
    BY <1>1, <1>3
  <2>1. Asked(mini, Len(mini)) <= Len(b)
    BY <2>0
  <2> QED BY <2>1 DEF Place
<1>7. "prefetch" \in CCPlaces /\ CCNone \in CCKeys \cup {CCNone} /\ count \in Nat
  BY <1>0 DEF StateOf, CCPlaces
<1> QED BY <1>3, <1>4, <1>5, <1>6, <1>7, OneWorker

\* The steps that change a worker's place, count or key only.
LEMMA SameBatches ==
    ASSUME CCInv, NEW w \in CCWorkers,
           NEW to, NEW mini, NEW batch, NEW parent, NEW key, NEW count,
           StateOf(w, to, mini, batch, parent, key, count),
           NEW next \in CCPlaces, NEW k \in CCKeys \cup {CCNone}, NEW c \in Nat,
           ccPc' = [ccPc EXCEPT ![w] = next], ccKey' = [ccKey EXCEPT ![w] = k],
           ccCount' = [ccCount EXCEPT ![w] = c], UNCHANGED <<ccMini, ccBatch, ccParent>>,
           CacheKept, Place(next, mini, batch, k, c)
    PROVE  CCInv'
<1>1. Moves(w, next, mini, batch, parent, k, c) /\ Batches(mini, batch, parent)
  BY DEF Moves, StateOf
<1> QED BY <1>1, OneWorker

LEMMA EndGatherStep ==
    ASSUME CCInv, NEW w \in CCWorkers, CCEndGather(w) PROVE CCInv'
<1>0. PICK to, mini, batch, parent, key, count :
         StateOf(w, to, mini, batch, parent, key, count)
  BY WorkerState
<1>1. to = "gather" /\ Asked(mini, Len(mini)) = Len(batch) /\ batch \in Seq(CCItems)
      /\ key \in CCKeys \cup {CCNone} /\ parent \in Seq(CCKeys) /\ parent = ccParent[w]
  BY <1>0 DEF StateOf, Place, CCEndGather, Batches
<1>2. PICK c : c = PrefetchBudget(w)
  OBVIOUS
<1>3. c \in Nat
  <2>1. Len(parent) \in Nat /\ CCPrefetch \in Nat
    BY <1>1, CCAssumption
  <2> QED BY <1>1, <1>2, <2>1 DEF PrefetchBudget
<1>4. Place("prefetch", mini, batch, key, c)
  <2>1. Len(batch) \in Nat
    BY <1>1
  <2>2. Asked(mini, Len(mini)) <= Len(batch)
    BY <1>1, <2>1
  <2> QED BY <2>2 DEF Place
<1>5. /\ ccPc' = [ccPc EXCEPT ![w] = "prefetch"] /\ ccKey' = [ccKey EXCEPT ![w] = key]
      /\ ccCount' = [ccCount EXCEPT ![w] = c] /\ UNCHANGED <<ccMini, ccBatch, ccParent>>
      /\ UNCHANGED ccCache
  BY <1>0, <1>2 DEF CCEndGather, Goes, StateOf
<1>6. "prefetch" \in CCPlaces
  BY DEF CCPlaces
<1> QED BY <1>0, <1>1, <1>3, <1>4, <1>5, <1>6, CacheUnchanged, SameBatches

LEMMA PrefetchLeafStep ==
    ASSUME CCInv, NEW w \in CCWorkers, NEW k \in CCKeys, CCPrefetchLeaf(w, k) PROVE CCInv'
<1>0. PICK to, mini, batch, parent, key, count :
         StateOf(w, to, mini, batch, parent, key, count)
  BY WorkerState
<1>1. /\ to = "prefetch" /\ Asked(mini, Len(mini)) <= Len(batch) /\ count > 0 /\ count \in Nat
      /\ key \in CCKeys \cup {CCNone} /\ count = ccCount[w]
  BY <1>0 DEF StateOf, Place, CCPrefetchLeaf
<1>2. PICK c : c = count - 1
  OBVIOUS
<1>3. c \in Nat
  BY <1>1, <1>2
<1>4. /\ UNCHANGED <<ccMini, ccBatch, ccParent>> /\ UNCHANGED ccCache
      /\ ccCount' = [ccCount EXCEPT ![w] = c]
  BY <1>1, <1>2 DEF CCPrefetchLeaf
<1>5. Place("prefetch", mini, batch, key, c) /\ Place("add prefetch", mini, batch, k, c)
  BY <1>1 DEF Place
<1>6. "prefetch" \in CCPlaces /\ "add prefetch" \in CCPlaces
  BY DEF CCPlaces
<1>7. CASE UNCHANGED <<ccPc, ccKey>>
  <2>1. ccPc' = [ccPc EXCEPT ![w] = "prefetch"] /\ ccKey' = [ccKey EXCEPT ![w] = key]
    BY <1>0, <1>1, <1>7 DEF StateOf
  <2> QED BY <1>0, <1>1, <1>3, <1>4, <1>5, <1>6, <2>1, CacheUnchanged, SameBatches
<1>8. CASE ccKey' = [ccKey EXCEPT ![w] = k] /\ Goes(w, "add prefetch")
  <2>1. ccPc' = [ccPc EXCEPT ![w] = "add prefetch"] /\ ccKey' = [ccKey EXCEPT ![w] = k]
    BY <1>8 DEF Goes
  <2> QED BY <1>0, <1>3, <1>4, <1>5, <1>6, <2>1, CacheUnchanged, SameBatches
<1> QED BY <1>7, <1>8 DEF CCPrefetchLeaf

LEMMA ComputeStep ==
    ASSUME CCInv, NEW w \in CCWorkers, CCCompute(w) PROVE CCInv'
<1>0. PICK to, mini, batch, parent, key, count :
         StateOf(w, to, mini, batch, parent, key, count)
  BY WorkerState
<1>1. /\ to = "prefetch" /\ Asked(mini, Len(mini)) <= Len(batch)
      /\ Batches(mini, batch, parent) /\ parent = ccParent[w] /\ key \in CCKeys \cup {CCNone}
  BY <1>0 DEF StateOf, Place, CCCompute
<1>2. PICK next : next = IF Len(parent) = 0 THEN "fetch" ELSE "fill"
  OBVIOUS
<1>3. Len(parent) # 0 => 0 < Len(batch)
  <2>1. Len(parent) # 0 => parent # << >>
    OBVIOUS
  <2>2. parent # << >> => \E i \in 1..Len(batch) : batch[i].idx_in_parent # -1
    BY <1>1 DEF Batches
  <2>3. Len(batch) \in Nat
    BY <1>1 DEF Batches
  <2> QED BY <2>1, <2>2, <2>3
<1>4. next \in CCPlaces /\ Place(next, mini, batch, key, 0)
  <2>1. CASE Len(parent) = 0
    BY <1>1, <1>2, <2>1 DEF Place, CCPlaces
  <2>2. CASE Len(parent) # 0
    BY <1>1, <1>2, <1>3, <2>2 DEF Place, CCPlaces
  <2> QED BY <2>1, <2>2
<1>5. /\ ccPc' = [ccPc EXCEPT ![w] = next] /\ ccKey' = [ccKey EXCEPT ![w] = key]
      /\ ccCount' = [ccCount EXCEPT ![w] = 0] /\ UNCHANGED <<ccMini, ccBatch, ccParent>>
      /\ UNCHANGED ccCache
  BY <1>0, <1>1, <1>2 DEF CCCompute, Goes, StateOf
<1>6. 0 \in Nat
  OBVIOUS
<1> QED BY <1>0, <1>1, <1>4, <1>5, <1>6, CacheUnchanged, SameBatches

LEMMA FillStep ==
    ASSUME CCInv, NEW w \in CCWorkers, CCFill(w) PROVE CCInv'
<1>0. PICK to, mini, batch, parent, key, count :
         StateOf(w, to, mini, batch, parent, key, count)
  BY WorkerState
<1>1. /\ to = "fill" /\ Asked(mini, Len(mini)) <= Len(batch) /\ count < Len(batch)
      /\ count \in Nat /\ key \in CCKeys \cup {CCNone}
      /\ Batches(mini, batch, parent) /\ parent = ccParent[w] /\ batch = ccBatch[w]
      /\ count = ccCount[w]
  BY <1>0 DEF StateOf, Place, CCFill
<1>2. Len(batch) \in Nat /\ batch \in Seq(CCItems)
  BY <1>1 DEF Batches
<1>3. PICK i : i = count + 1
  OBVIOUS
<1>4. i \in 1..Len(batch) /\ i \in Nat
  BY <1>1, <1>2, <1>3
<1>5. PICK item : item = batch[i]
  OBVIOUS
<1>6. ItemSound(item, parent) /\ item \in CCItems
  BY <1>1, <1>2, <1>4, <1>5 DEF Batches
<1>7. CacheKept
  <2>1. CASE item.idx_in_parent = -1
    <3>1. UNCHANGED ccCache
      BY <1>1, <1>3, <1>5, <2>1 DEF CCFill
    <3> QED BY <3>1, CacheUnchanged
  <2>2. CASE item.idx_in_parent # -1
    <3>1. ResultFor(w, item) = item.hash /\ item.hash \in CCKeys
      BY <1>1, <1>6, <2>2 DEF ResultFor, ItemSound, CCItems
    <3>2. ccCache' = [ccCache EXCEPT ![item.hash] = item.hash]
      BY <1>1, <1>3, <1>5, <2>2, <3>1 DEF CCFill
    <3> QED BY <3>1, <3>2 DEF CCInv, CCTypes, CacheSound, CacheKept
  <2> QED BY <2>1, <2>2
<1>8. PICK next : next = IF i = Len(batch) THEN "fetch" ELSE "fill"
  OBVIOUS
<1>9. next \in CCPlaces /\ Place(next, mini, batch, key, i)
  <2>1. CASE i = Len(batch)
    BY <1>1, <1>8, <2>1 DEF Place, CCPlaces
  <2>2. CASE i # Len(batch)
    <3>1. i < Len(batch)
      BY <1>2, <1>4, <2>2
    <3> QED BY <1>1, <1>8, <2>2, <3>1 DEF Place, CCPlaces
  <2> QED BY <2>1, <2>2
<1>10. /\ ccPc' = [ccPc EXCEPT ![w] = next] /\ ccKey' = [ccKey EXCEPT ![w] = key]
       /\ ccCount' = [ccCount EXCEPT ![w] = i] /\ UNCHANGED <<ccMini, ccBatch, ccParent>>
  BY <1>0, <1>1, <1>3, <1>8 DEF CCFill, Goes, StateOf
<1> QED BY <1>0, <1>1, <1>4, <1>7, <1>9, <1>10, SameBatches

LEMMA FetchStep ==
    ASSUME CCInv, NEW w \in CCWorkers, CCFetch(w) PROVE CCInv'
<1>0. PICK to, mini, batch, parent, key, count :
         StateOf(w, to, mini, batch, parent, key, count)
  BY WorkerState
<1>1. Moves(w, "gather", << >>, << >>, << >>, key, 0)
  BY <1>0 DEF CCFetch, Goes, Moves, StateOf
<1>2. Batches(<< >>, << >>, << >>) /\ Place("gather", << >>, << >>, key, 0)
  <2>1. Aligned(<< >>, << >>)
    BY DEF Aligned
  <2>2. Asked(<< >>, Len(<< >>)) = Len(<< >>)
    BY AskedNone
  <2> QED BY <2>1, <2>2 DEF Batches, Place
<1>3. "gather" \in CCPlaces /\ key \in CCKeys \cup {CCNone} /\ 0 \in Nat
  BY <1>0 DEF StateOf, CCPlaces
<1>4. CacheKept
  BY CacheUnchanged DEF CCFetch
<1> QED BY <1>1, <1>2, <1>3, <1>4, OneWorker

LEMMA CacheStep ==
    ASSUME CCInv, CacheKept, UNCHANGED <<ccPc, ccMini, ccBatch, ccParent, ccKey, ccCount>>
    PROVE  CCInv'
<1>1. CCTypes' /\ CacheSound'
  BY DEF CCInv, CCTypes, CacheSound, CacheKept
<1>2. ASSUME NEW w \in CCWorkers PROVE WorkerSound(w)'
  BY DEF CCInv, WorkerSound
<1> QED BY <1>1, <1>2 DEF CCInv

LEMMA CCStep == CCInv /\ [CCNext]_ccVars => CCInv'
<1> SUFFICES ASSUME CCInv, [CCNext]_ccVars PROVE CCInv'
  OBVIOUS
<1>1. ASSUME NEW w \in CCWorkers, CCWorkerStep(w) PROVE CCInv'
  <2>1. ASSUME NEW k \in CCKeys,
               \/ CCPickTerminal(w, k) \/ CCPickCached(w, k) \/ CCPickMissing(w, k)
               \/ CCPrefetchLeaf(w, k)
        PROVE  CCInv'
    BY <2>1, PickTerminalStep, PickCachedStep, PickMissingStep, PrefetchLeafStep
  <2>2. CASE CCOutOfOrder(w) \/ CCAddPicked(w) \/ CCEndGather(w) \/ CCAddPrefetch(w)
    BY <2>2, OutOfOrderStep, AddPickedStep, EndGatherStep, AddPrefetchStep
  <2>3. CASE CCCompute(w) \/ CCFill(w) \/ CCFetch(w)
    BY <2>3, ComputeStep, FillStep, FetchStep
  <2> QED BY <1>1, <2>1, <2>2, <2>3 DEF CCWorkerStep
<1>2. ASSUME NEW k \in CCKeys, CCEvict(k) \/ CCInsertElsewhere(k) PROVE CCInv'
  <2>1. CacheKept
    BY <1>2 DEF CCEvict, CCInsertElsewhere, CCInv, CCTypes, CacheSound, CacheKept
  <2> QED BY <1>2, <2>1, CacheStep DEF CCEvict, CCInsertElsewhere
<1>3. CASE UNCHANGED ccVars
  BY <1>3, CacheUnchanged, CacheStep DEF ccVars
<1> QED BY <1>1, <1>2, <1>3 DEF CCNext

-----------------------------------------------------------------------------
(* The theorem. *)

\* In every minibatch, whatever mix of cache hits, late hits, misses, terminal nodes
\* and prefetched leaves it holds and whoever inserts or evicts meanwhile, each node
\* reads the evaluation of its own position; the entry evaluated out of order is the one
\* just added, and the cache never holds a value under another position's hash.
THEOREM EvaluationsExact == CCSpec => []CCEvaluationsExact
<1>1. CCInv => CCEvaluationsExact
  <2> SUFFICES ASSUME CCInv, NEW w \in CCWorkers
               PROVE  /\ ccPc[w] = "fetch" =>
                            \A i \in DOMAIN ccMini[w] : ccMini[w][i].nn_queried =>
                                CCGetVal(w, CCIndex(w, i)) = ccMini[w][i].key
                      /\ ccPc[w] = "out of order" =>
                            /\ CCGetVal(w, Len(ccBatch[w])) = Last(ccMini[w]).key
                            /\ Last(ccBatch[w]).idx_in_parent = -1
                            /\ Last(ccBatch[w]).lock # CCNone
                            /\ Last(ccBatch[w]).hash = Last(ccMini[w]).key
                      /\ \A k \in CCKeys : ccCache[k] \in {k, CCNone}
    BY DEF CCEvaluationsExact
  <2>0. PICK to, mini, batch, parent, key, count :
           StateOf(w, to, mini, batch, parent, key, count)
    BY WorkerState
  <2>1. /\ to = ccPc[w] /\ mini = ccMini[w] /\ batch = ccBatch[w] /\ parent = ccParent[w]
        /\ Batches(mini, batch, parent) /\ Place(to, mini, batch, key, count)
        /\ mini \in Seq(CCEntries) /\ batch \in Seq(CCItems)
        /\ Len(mini) \in Nat /\ Len(batch) \in Nat /\ DOMAIN mini = 1..Len(mini)
    BY <2>0 DEF StateOf, Batches
  <2>2. ASSUME NEW j \in 1..Len(batch) PROVE CCGetVal(w, j) = batch[j].hash
    <3>1. ItemSound(batch[j], parent) /\ batch[j] \in CCItems
      BY <2>1 DEF Batches
    <3>2. CASE batch[j].idx_in_parent = -1
      BY <2>1, <3>1, <3>2 DEF CCGetVal, ItemSound
    <3>3. CASE batch[j].idx_in_parent # -1
      BY <2>1, <3>1, <3>3 DEF CCGetVal, ItemSound
    <3> QED BY <3>2, <3>3
  <2>3. ASSUME to = "fetch", NEW i \in 1..Len(mini), mini[i].nn_queried
        PROVE  CCGetVal(w, CCIndex(w, i)) = mini[i].key
    <3>1. CCIndex(w, i) = Asked(mini, i - 1) + 1
      BY <2>1 DEF CCIndex, Asked, AskedUpTo
    <3>2. i - 1 \in Nat /\ (i - 1) + 1 = i /\ i \in Nat /\ i <= Len(mini)
      BY <2>1
    <3>3. Asked(mini, i) = Asked(mini, i - 1) + 1 /\ Asked(mini, i - 1) \in Nat
      BY <2>3, <3>2, AskedNext, AskedFinite
    <3>4. Asked(mini, i) <= Asked(mini, Len(mini)) /\ Asked(mini, Len(mini)) \in Nat
      BY <2>1, <3>2, AskedGrows, AskedFinite
    <3>5. Asked(mini, Len(mini)) <= Len(batch)
      BY <2>1, <2>3 DEF Place
    <3>6. Asked(mini, i - 1) < Len(batch) /\ Asked(mini, i - 1) + 1 \in 1..Len(batch)
      BY <2>1, <3>3, <3>4, <3>5
    <3>7. batch[Asked(mini, i - 1) + 1].hash = mini[i].key
      BY <2>1, <2>3, <3>6 DEF Batches, Aligned
    <3> QED BY <2>2, <3>1, <3>6, <3>7
  <2>4. ASSUME to = "out of order"
        PROVE  /\ CCGetVal(w, Len(batch)) = Last(mini).key
               /\ Last(batch).idx_in_parent = -1
               /\ Last(batch).lock # CCNone
               /\ Last(batch).hash = Last(mini).key
    <3>1. /\ Asked(mini, Len(mini)) = Len(batch) /\ LastAsked(mini)
          /\ batch[Len(batch)].idx_in_parent = -1
      BY <2>1, <2>4 DEF Place
    <3>2. batch # << >> /\ batch[Len(batch)].hash = mini[Len(mini)].key
      BY <2>1, <3>1, PopLast
    <3>3. Len(batch) \in 1..Len(batch) /\ Last(batch) = batch[Len(batch)]
          /\ Last(mini) = mini[Len(mini)]
      BY <2>1, <3>2 DEF Last
    <3>4. batch[Len(batch)].lock = batch[Len(batch)].hash /\ batch[Len(batch)].hash \in CCKeys
      <4>1. ItemSound(batch[Len(batch)], parent) /\ batch[Len(batch)] \in CCItems
        BY <2>1, <3>3 DEF Batches
      <4> QED BY <3>1, <4>1 DEF ItemSound, CCItems
    <3>5. batch[Len(batch)].lock # CCNone
      BY <3>4, CCAssumption
    <3> QED BY <2>2, <3>1, <3>2, <3>3, <3>5
  <2> QED BY <2>1, <2>3, <2>4 DEF CCInv, CacheSound
<1>2. CCSpec => []CCInv
  BY CCInitially, CCStep, PTL DEF CCSpec
<1> QED BY <1>1, <1>2, PTL
================================================================================
