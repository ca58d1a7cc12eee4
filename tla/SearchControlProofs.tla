------------------------ MODULE SearchControlProofs ------------------------
(***************************************************************************)
(* Proofs about SearchControl for any number of workers, places, batch     *)
(* sizes and limits: who answers bestmove, and the places of the spin lock.*)
(***************************************************************************)
EXTENDS SearchControl, FiniteSetTheorems, TLAPS

Holders == {"gather", "out_of_order", "picked", "gathered"}

\* The flags, the answer and the abort: the invariants the runs check and what
\* makes them inductive.
Answering ==
    /\ bestmove_is_sent_ => stop_
    /\ bestmoves \in {0, 1}
    /\ bestmoves = 1 => bestmove_is_sent_ /\ ok_to_respond_bestmove_ /\ Total > 0
    /\ aborted = "silenced" => bestmove_is_sent_ /\ bestmoves = 0
    /\ ok_to_respond_bestmove_ => ~infinite \/ stop_called
    /\ late_info = FALSE

\* Nodes are in flight only between the first pick of a worker and its backup.
Holding ==
    /\ \A w \in Workers : InFlight(w) => pc[w] \in Holders \cup {"compute"}
    /\ \A w \in Workers : pc[w] = "out_of_order" => batch[w].hit > 0
    /\ ui = "destroyed" => \A t \in Threads : pc[t] = "done"

IInv == TypeOK /\ Answering /\ Holding /\ PlacesAccounted

USE ControlAssumption, WatchdogAssumption

-----------------------------------------------------------------------------
(* The set of gathering workers. *)

LEMMA GatheringFinite == IsFiniteSet(Gathering) /\ Cardinality(Gathering) \in Nat
<1>1. Gathering \subseteq Workers
  BY DEF Gathering
<1> QED
  BY <1>1, FS_Subset, FS_CardinalityType, SMT

\* A move inside or outside of the gathering leaves the set as it is.
LEMMA GatheringSame ==
    ASSUME NEW t \in Threads, NEW where, pc \in [Threads -> Places], Goto(t, where),
           pc[t] \in Holders <=> where \in Holders
    PROVE  Gathering' = Gathering
BY DEF Gathering, Holders, Goto, Threads

LEMMA GatheringEntered ==
    ASSUME NEW w \in Workers, pc \in [Threads -> Places], pc[w] \notin Holders, Goto(w, "gather")
    PROVE  Cardinality(Gathering') = Cardinality(Gathering) + 1
<1>1. Gathering' = Gathering \cup {w} /\ w \notin Gathering
  BY DEF Gathering, Holders, Goto, Threads
<1> QED
  BY <1>1, GatheringFinite, FS_AddElement

LEMMA GatheringLeft ==
    ASSUME NEW w \in Workers, pc \in [Threads -> Places], pc[w] = "gathered", Goto(w, "compute")
    PROVE  /\ Cardinality(Gathering') = Cardinality(Gathering) - 1
           /\ Cardinality(Gathering) >= 1
<1>1. Gathering' = Gathering \ {w} /\ w \in Gathering
  BY DEF Gathering, Holders, Goto, Threads
<1>2. Cardinality(Gathering \ {w}) \in Nat
  BY GatheringFinite, FS_RemoveElement, FS_CardinalityType
<1>3. Cardinality(Gathering \ {w}) = Cardinality(Gathering) - 1
  BY <1>1, GatheringFinite, FS_RemoveElement
<1> QED
  BY <1>1, <1>2, <1>3, GatheringFinite

-----------------------------------------------------------------------------
(* Every part of the invariant is kept by every step. *)

LEMMA TypeKept == ASSUME IInv, [Next]_vars PROVE TypeOK'
<1> USE DEF IInv
<1> USE DEF Threads, Places, Goto, control, work, outside, output
<1>1. ASSUME NEW t \in Workers, StartIteration(t) PROVE TypeOK'
  BY <1>1 DEF StartIteration, TypeOK, Empty
<1>2. ASSUME NEW t \in Workers, Acquire(t) PROVE TypeOK'
  BY <1>2 DEF Acquire, TypeOK, CanAcquire
<1>3. ASSUME NEW t \in Workers, LoopEnds(t) PROVE TypeOK'
  BY <1>3 DEF LoopEnds, TypeOK
<1>4. AfterRevert \subseteq Nat
  BY DEF AfterRevert, TypeOK
<1>5. ASSUME NEW t \in Workers, Collide(t) PROVE TypeOK'
  BY <1>4, <1>5 DEF Collide, TypeOK
<1>6. ASSUME NEW t \in Workers, Visit(t) PROVE TypeOK'
  BY <1>4, <1>6 DEF Visit, TypeOK
<1>7. \A n \in Nat : Saturated(n) \in 0 .. MaxPlayouts
  BY DEF Saturated
<1>8. ASSUME NEW t \in Workers, EvalOutOfOrder(t) PROVE TypeOK'
  <2>1. batch[t].hit > 0
    BY <1>8 DEF EvalOutOfOrder, Holding
  <2>2. total_playouts_' \in 0 .. MaxPlayouts
    BY <1>7, <1>8 DEF EvalOutOfOrder, TypeOK
  <2> QED
    BY <1>8, <2>1, <2>2 DEF EvalOutOfOrder, TypeOK
<1>9. ASSUME NEW t \in Workers, AfterPick(t) PROVE TypeOK'
  BY <1>9 DEF AfterPick, TypeOK
<1>10. ASSUME NEW t \in Workers, EndGather(t) PROVE TypeOK'
  <2>1. Cardinality(Gathering) >= 1
    BY <1>10, GatheringLeft DEF EndGather, TypeOK
  <2>2. pending_searchers_' \in 0 .. MaxConcurrentSearchers
    BY <1>10, <2>1, GatheringFinite DEF EndGather, Released, PlacesAccounted, TypeOK
  <2>3. batch' = [batch EXCEPT ![t] = [batch[t] EXCEPT !.ooo = 0, !.collisions = 0]]
    BY <1>10 DEF EndGather, TypeOK
  <2>4. batch' \in [Workers -> [miss : Nat, hit : Nat, ooo : Nat, collisions : Nat]]
    BY <2>3 DEF TypeOK
  <2> QED
    BY <1>10, <2>2, <2>4 DEF EndGather, TypeOK
<1>11. ASSUME NEW t \in Workers, Backup(t) PROVE TypeOK'
  <2>1. total_playouts_ + Size(batch[t]) \in Nat
    BY DEF TypeOK, Size
  <2>2. total_playouts_' \in 0 .. MaxPlayouts
    BY <1>7, <1>11, <2>1 DEF Backup
  <2>3. batch' = [batch EXCEPT ![t] = [batch[t] EXCEPT !.miss = 0, !.hit = 0]]
    BY <1>11 DEF Backup, TypeOK
  <2>4. batch' \in [Workers -> [miss : Nat, hit : Nat, ooo : Nat, collisions : Nat]]
    BY <2>3 DEF TypeOK
  <2> QED
    BY <1>11, <2>2, <2>4 DEF Backup, TypeOK
<1>12. ASSUME NEW t \in Workers, LoopTest(t) PROVE TypeOK'
  BY <1>12 DEF LoopTest, TypeOK
<1>13. ASSUME NEW t \in Threads, Populate(t) PROVE TypeOK'
  BY <1>13 DEF Populate, TypeOK, Total
<1>14. ASSUME NEW t \in Threads, MaybeTriggerStop(t) PROVE TypeOK'
  BY <1>14 DEF MaybeTriggerStop, TypeOK, NoStats
<1>15. ASSUME NEW t \in Threads, MaybeOutputInfo(t) PROVE TypeOK'
  BY <1>15 DEF MaybeOutputInfo, TypeOK
<1>16. ASSUME WatchdogCheck \/ WatchdogWakes PROVE TypeOK'
  BY <1>16 DEF WatchdogCheck, WatchdogWakes, TypeOK
<1>17. ASSUME Stop PROVE TypeOK'
  BY <1>17 DEF Stop, TypeOK
<1>18. ASSUME Abort \/ Destroy PROVE TypeOK'
  BY <1>18 DEF Abort, Destroy, AbortBody, TypeOK
<1>19. ASSUME Joined \/ TimePasses \/ Gone \/ UNCHANGED vars PROVE TypeOK'
  <2>1. CASE Joined
    BY <2>1 DEF Joined, TypeOK
  <2>2. CASE TimePasses
    BY <2>2 DEF TimePasses, TypeOK
  <2>3. CASE Gone \/ UNCHANGED vars
    BY <2>3 DEF Gone, vars, TypeOK
  <2> QED
    BY <1>19, <2>1, <2>2, <2>3
<1> QED
  BY <1>1, <1>2, <1>3, <1>5, <1>6, <1>8, <1>9, <1>10, <1>11, <1>12, <1>13, <1>14, <1>15,
     <1>16, <1>17, <1>18, <1>19 DEF Next, Step

LEMMA AnsweringKept == ASSUME IInv, [Next]_vars PROVE Answering'
<1> USE DEF IInv, control, work, outside, output
<1>1. ASSUME NEW t \in Workers,
             StartIteration(t) \/ Acquire(t) \/ LoopEnds(t) \/ AfterPick(t)
             \/ EndGather(t) \/ LoopTest(t)
      PROVE  Answering'
  BY <1>1 DEF StartIteration, Acquire, LoopEnds, AfterPick, EndGather, LoopTest,
              Answering, Total
<1>2. ASSUME NEW t \in Workers, Collide(t) \/ Visit(t) PROVE Answering'
  <2>1. Total > 0 => Total' > 0
    BY <1>2 DEF Collide, Visit, AfterRevert, Total, TypeOK
  <2> QED
    BY <1>2, <2>1 DEF Collide, Visit, Answering
<1>3. ASSUME NEW t \in Workers, EvalOutOfOrder(t) \/ Backup(t) PROVE Answering'
  <2>1. \A n \in Nat : Saturated(total_playouts_ + n) >= total_playouts_
    BY DEF Saturated, TypeOK
  <2>2. Size(batch[t]) \in Nat
    BY DEF Size, TypeOK
  <2>3. Total > 0 => Total' > 0
    BY <1>3, <2>1, <2>2 DEF EvalOutOfOrder, Backup, Total, TypeOK, Saturated
  <2> QED
    BY <1>3, <2>3 DEF EvalOutOfOrder, Backup, Answering
<1>4. ASSUME NEW t \in Threads, Populate(t) PROVE Answering'
  BY <1>4 DEF Populate, Answering, Total
<1>5. ASSUME NEW t \in Threads, MaybeTriggerStop(t) PROVE Answering'
  BY <1>5 DEF MaybeTriggerStop, MayTrigger, Answers, Answering, Total, TypeOK
<1>6. ASSUME NEW t \in Threads, MaybeOutputInfo(t) PROVE Answering'
  BY <1>6 DEF MaybeOutputInfo, MayOutputInfo, Answering, Total, TypeOK
<1>7. ASSUME WatchdogCheck \/ WatchdogWakes PROVE Answering'
  BY <1>7 DEF WatchdogCheck, WatchdogWakes, Answering, Total
<1>8. ASSUME Stop PROVE Answering'
  BY <1>8 DEF Stop, Answering, Total
<1>9. ASSUME Abort \/ Destroy PROVE Answering'
  <2>1. AbortBody
    BY <1>9 DEF Abort, Destroy
  <2>2. Total' = Total
    BY <2>1 DEF AbortBody, Total
  <2>3. CASE Silences
    <3>1. bestmove_is_sent_ = FALSE /\ bestmoves = 0
      BY <2>3 DEF Silences, Answering, TypeOK
    <3> QED
      BY <2>1, <2>3, <3>1 DEF AbortBody, Answering
  <2>4. CASE ~Silences
    <3>1. UNCHANGED <<stop_, bestmove_is_sent_>>
      BY <2>1, <2>4 DEF AbortBody, TypeOK
    <3>2. aborted' = "silenced" => aborted = "silenced"
      BY <2>1, <2>4 DEF AbortBody
    <3> QED
      BY <2>1, <2>2, <3>1, <3>2 DEF AbortBody, Answering
  <2> QED
    BY <2>3, <2>4
<1>10. ASSUME Joined \/ TimePasses \/ Gone \/ UNCHANGED vars PROVE Answering'
  BY <1>10 DEF Joined, TimePasses, Gone, vars, Answering, Total
<1> QED
  BY <1>1, <1>2, <1>3, <1>4, <1>5, <1>6, <1>7, <1>8, <1>9, <1>10 DEF Next, Step

LEMMA HoldingKept == ASSUME IInv, [Next]_vars PROVE Holding'
<1> USE DEF IInv
<1> USE DEF Threads, Goto, Holders, Places, control, work, outside, output
<1>1. ASSUME NEW t \in Workers, StartIteration(t) PROVE Holding'
  BY <1>1 DEF StartIteration, Holding, InFlight, TypeOK, Empty
<1>2. ASSUME NEW t \in Workers,
             Acquire(t) \/ LoopEnds(t) \/ AfterPick(t) \/ LoopTest(t)
      PROVE  Holding'
  BY <1>2 DEF Acquire, LoopEnds, AfterPick, LoopTest, Holding, InFlight, TypeOK
<1>3. ASSUME NEW t \in Workers, Collide(t) PROVE Holding'
  BY <1>3 DEF Collide, Holding, InFlight, TypeOK
<1>4. ASSUME NEW t \in Workers, Visit(t) PROVE Holding'
  BY <1>4 DEF Visit, Holding, InFlight, TypeOK
<1>5. ASSUME NEW t \in Workers, EvalOutOfOrder(t) PROVE Holding'
  BY <1>5 DEF EvalOutOfOrder, Holding, InFlight, TypeOK
<1>6. ASSUME NEW t \in Workers, EndGather(t) PROVE Holding'
  BY <1>6 DEF EndGather, Holding, InFlight, TypeOK
<1>7. ASSUME NEW t \in Workers, Backup(t) PROVE Holding'
  BY <1>7 DEF Backup, Holding, InFlight, TypeOK
<1>8. ASSUME NEW t \in Threads,
             Populate(t) \/ MaybeTriggerStop(t) \/ MaybeOutputInfo(t)
      PROVE  Holding'
  BY <1>8 DEF Populate, MaybeTriggerStop, MaybeOutputInfo, Holding, InFlight, TypeOK
<1>9. ASSUME WatchdogCheck \/ WatchdogWakes PROVE Holding'
  BY <1>9 DEF WatchdogCheck, WatchdogWakes, Holding, InFlight, TypeOK
<1>10. ASSUME Stop \/ Abort \/ Destroy \/ TimePasses PROVE Holding'
  BY <1>10 DEF Stop, Abort, Destroy, AbortBody, TimePasses, Holding, InFlight
<1>11. ASSUME Joined \/ Gone \/ UNCHANGED vars PROVE Holding'
  BY <1>11 DEF Joined, AllEnded, Gone, vars, Holding, InFlight
<1> QED
  BY <1>1, <1>2, <1>3, <1>4, <1>5, <1>6, <1>7, <1>8, <1>9, <1>10, <1>11 DEF Next, Step

LEMMA PlacesKept == ASSUME IInv, [Next]_vars PROVE PlacesAccounted'
<1> USE DEF IInv
<1> USE DEF control, work, outside, output
<1>0. pc \in [Threads -> Places]
  BY DEF TypeOK
<1>1. ASSUME NEW t \in Workers, StartIteration(t) PROVE PlacesAccounted'
  <2>1. CASE MaxConcurrentSearchers = 0
    BY <2>1 DEF PlacesAccounted
  <2>2. CASE MaxConcurrentSearchers # 0
    <3>1. Gathering' = Gathering
      BY <1>0, <1>1, <2>2, GatheringSame DEF StartIteration, Threads, Holders
    <3> QED
      BY <1>1, <3>1 DEF StartIteration, PlacesAccounted
  <2> QED
    BY <2>1, <2>2
<1>2. ASSUME NEW t \in Workers, Acquire(t) PROVE PlacesAccounted'
  <2>1. CASE CanAcquire
    <3>1. Cardinality(Gathering') = Cardinality(Gathering) + 1
      BY <1>0, <1>2, <2>1, GatheringEntered DEF Acquire, Holders
    <3> QED
      BY <1>2, <2>1, <3>1, GatheringFinite DEF Acquire, PlacesAccounted, TypeOK
  <2>2. CASE ~CanAcquire
    <3>1. Gathering' = Gathering
      BY <1>0, <1>2, <2>2, GatheringSame DEF Acquire, Holders, Threads
    <3> QED
      BY <1>2, <2>2, <3>1 DEF Acquire, PlacesAccounted
  <2> QED
    BY <2>1, <2>2
<1>3. ASSUME NEW t \in Workers,
             \/ LoopEnds(t) \/ Collide(t) \/ Visit(t) \/ EvalOutOfOrder(t) \/ AfterPick(t)
             \/ Backup(t) \/ LoopTest(t)
      PROVE  PlacesAccounted'
  <2>1. \E where : Goto(t, where) /\ (pc[t] \in Holders <=> where \in Holders)
    BY <1>3 DEF LoopEnds, Collide, Visit, EvalOutOfOrder, AfterPick, Backup, LoopTest, Holders
  <2>2. Gathering' = Gathering
    BY <1>0, <2>1, GatheringSame DEF Threads
  <2>3. pending_searchers_' = pending_searchers_
    BY <1>3 DEF LoopEnds, Collide, Visit, EvalOutOfOrder, AfterPick, Backup, LoopTest
  <2> QED
    BY <2>2, <2>3 DEF PlacesAccounted
<1>4. ASSUME NEW t \in Workers, EndGather(t) PROVE PlacesAccounted'
  <2>1. Cardinality(Gathering') = Cardinality(Gathering) - 1
    BY <1>0, <1>4, GatheringLeft DEF EndGather
  <2> QED
    BY <1>4, <2>1, GatheringFinite DEF EndGather, Released, PlacesAccounted, TypeOK
<1>5. ASSUME NEW t \in Threads,
             \/ Populate(t) \/ MaybeTriggerStop(t) \/ MaybeOutputInfo(t)
             \/ t = Watchdog /\ (WatchdogCheck \/ WatchdogWakes)
      PROVE  PlacesAccounted'
  <2>1. \E where : Goto(t, where) /\ (pc[t] \in Holders <=> where \in Holders)
    BY <1>5 DEF Populate, MaybeTriggerStop, MaybeOutputInfo, WatchdogCheck, WatchdogWakes,
                Holders
  <2>2. Gathering' = Gathering
    BY <1>0, <2>1, GatheringSame
  <2>3. pending_searchers_' = pending_searchers_
    BY <1>5 DEF Populate, MaybeTriggerStop, MaybeOutputInfo, WatchdogCheck, WatchdogWakes
  <2> QED
    BY <2>2, <2>3 DEF PlacesAccounted
<1>6. ASSUME \/ Stop \/ Abort \/ Destroy \/ Joined \/ TimePasses \/ Gone \/ UNCHANGED vars
      PROVE  PlacesAccounted'
  <2>1. UNCHANGED <<pc, pending_searchers_>>
    BY <1>6 DEF Stop, Abort, Destroy, AbortBody, Joined, TimePasses, Gone, vars
  <2> QED
    BY <2>1 DEF PlacesAccounted, Gathering
<1> QED
  BY <1>1, <1>2, <1>3, <1>4, <1>5, <1>6 DEF Next, Step, Threads

-----------------------------------------------------------------------------
(* The theorems. *)

LEMMA InitiallyIInv == Init => IInv
<1> SUFFICES ASSUME Init PROVE IInv
  OBVIOUS
<1>0. infinite \in BOOLEAN /\ ok_to_respond_bestmove_ \in BOOLEAN
      /\ (ok_to_respond_bestmove_ => ~infinite)
  BY Zenon DEF Init
<1>1. TypeOK
  <2>1. pc \in [Threads -> Places]
    BY DEF Init, Places
  <2>2. /\ batch \in [Workers -> [miss : Nat, hit : Nat, ooo : Nat, collisions : Nat]]
        /\ stats \in [Threads -> [nodes : Nat, time : BOOLEAN]]
    BY DEF Init, Empty, NoStats
  <2>3. /\ total_playouts_ \in 0 .. MaxPlayouts /\ initial_visits_ \in Nat
        /\ pending_searchers_ \in 0 .. MaxConcurrentSearchers /\ bestmoves \in Nat
    BY DEF Init
  <2>4. /\ stop_ \in BOOLEAN /\ bestmove_is_sent_ \in BOOLEAN /\ time_up \in BOOLEAN
        /\ stop_called \in BOOLEAN /\ late_info \in BOOLEAN
        /\ ui \in {"open", "joining", "destroyed"}
        /\ aborted \in {"no", "silenced", "ignored"}
    BY DEF Init
  <2> QED
    BY <1>0, <2>1, <2>2, <2>3, <2>4 DEF TypeOK
<1>2. Answering
  BY <1>0 DEF Init, Answering
<1>5. Holding
  BY DEF Init, Holding, InFlight, Empty, Threads
<1>3. Gathering = {}
  BY DEF Init, Gathering, Threads
<1>4. PlacesAccounted
  BY <1>3, FS_EmptySet DEF Init, PlacesAccounted
<1> QED
  BY <1>1, <1>2, <1>4, <1>5 DEF IInv

\* IInv is an invariant of every Search.
THEOREM ControlInvariance == Spec => []IInv
<1>1. IInv /\ [Next]_vars => IInv'
  BY TypeKept, AnsweringKept, HoldingKept, PlacesKept DEF IInv
<1> QED
  BY InitiallyIInv, <1>1, PTL DEF Spec

\* Type correctness of the search protocol.
THEOREM ControlTypeCorrect == Spec => []TypeOK
<1>1. IInv => TypeOK
  BY DEF IInv
<1> QED
  BY ControlInvariance, <1>1, PTL

\* MaybeTriggerStop, run by any number of workers and the watchdog, answers at
\* most once, and only for a root that has a visit.
THEOREM AnsweredOnce == Spec => []OneAnswer
<1>1. IInv => OneAnswer
  BY DEF IInv, Answering, OneAnswer, AtMostOneBestmove, AnswerHasVisits
<1> QED
  BY ControlInvariance, <1>1, PTL

\* An infinite search waits for Stop, an effective Abort silences bestmove and
\* info for good.
THEOREM AnswersWhenAllowed == Spec => []OutputAllowed
<1>1. IInv => OutputAllowed
  BY DEF IInv, Answering, OutputAllowed, InfiniteWaitsForStop, AbortedStaysSilent, NoLateInfo
<1> QED
  BY ControlInvariance, <1>1, PTL

\* The spin on pending_searchers_ is a counting lock: free places and gathering
\* workers always add up to MaxConcurrentSearchers.  When the destructor is done
\* no worker holds a node that is not backed up.
THEOREM NothingHeldBack == Spec => []HeldIsReturned
<1>1. IInv => PlacesAccounted
  BY DEF IInv
<1>2. IInv => DestroyedIsIdle
  BY DEF IInv, Holding, Holders, DestroyedIsIdle, Threads
<1>3. IInv => HeldIsReturned
  BY <1>1, <1>2 DEF HeldIsReturned
<1> QED
  BY ControlInvariance, <1>3, PTL
=============================================================================
