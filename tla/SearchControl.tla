--------------------------- MODULE SearchControl ---------------------------
(***************************************************************************)
(* The life of one Search (mcts/search.cc): the workers' iterations, the   *)
(* watchdog, the stopper, the UCI thread's Stop, Abort and destructor, and *)
(* who answers bestmove.                                                   *)
(*                                                                         *)
(* A section under nodes_mutex_ or counters_mutex_ is one step.  The tree  *)
(* is abstracted to what this protocol sees of it: how many playouts are   *)
(* done and which workers hold nodes whose evaluation is not backed up.    *)
(***************************************************************************)
EXTENDS Integers, FiniteSets

CONSTANTS
    Workers,               \* search threads
    MaxConcurrentSearchers,\* option of that name, 0 for no limit
    MiniBatchSize,
    MaxCollisionEvents,
    MaxOutOfOrderEvals,
    OutOfOrderEval,        \* is out of order evaluation on?
    InitialVisits,         \* visits the root may have from earlier searches
    NodeLimit,             \* limit of the VisitsStopper, 0 for none
    TimeLimited,           \* is there a TimeLimitStopper?
    MaxPlayouts            \* bound: total_playouts_ saturates here

ASSUME ControlAssumption ==
    /\ IsFiniteSet(Workers)
    /\ MaxConcurrentSearchers \in Nat
    /\ {MiniBatchSize, MaxCollisionEvents, MaxOutOfOrderEvals} \subseteq Nat \ {0}
    /\ OutOfOrderEval \in BOOLEAN /\ TimeLimited \in BOOLEAN
    /\ InitialVisits \subseteq Nat
    /\ NodeLimit \in Nat /\ MaxPlayouts \in Nat \ {0}

Watchdog == "watchdog"
ASSUME WatchdogAssumption == Watchdog \notin Workers

Threads == Workers \cup {Watchdog}

VARIABLES
    stop_, ok_to_respond_bestmove_, bestmove_is_sent_,
    total_playouts_, initial_visits_,
    pending_searchers_,  \* free places among the gathering workers
    time_up,             \* the time limit has passed
    pc,                  \* where each thread is
    batch,               \* per worker, what its minibatch_ holds
    stats,               \* per thread, its IterationStats
    ui,                  \* the owner: "open", "joining" in Wait, or "destroyed"
    stop_called,         \* Stop was called
    infinite,            \* the constructor's argument: infinite or ponder
    aborted,             \* "no", or what the last Abort did: "silenced" or "ignored"
    bestmoves,           \* how often OutputBestMove was called
    late_info            \* info was output after the answer or the abort

control == <<stop_, ok_to_respond_bestmove_, bestmove_is_sent_>>
work == <<total_playouts_, initial_visits_, pending_searchers_, batch>>
outside == <<time_up, ui, stop_called, infinite, aborted>>
output == <<bestmoves, late_info>>
vars == <<control, work, outside, output, pc, stats>>

Empty == [miss |-> 0, hit |-> 0, ooo |-> 0, collisions |-> 0]

NoStats == [nodes |-> 0, time |-> FALSE]

Total == total_playouts_ + initial_visits_

InFlight(w) == batch[w].miss + batch[w].hit > 0

Saturated(n) == IF n > MaxPlayouts THEN MaxPlayouts ELSE n

Goto(t, where) == pc' = [pc EXCEPT ![t] = where]

Init ==
    /\ stop_ = FALSE
    /\ infinite \in BOOLEAN
    /\ ok_to_respond_bestmove_ = ~infinite
    /\ bestmove_is_sent_ = FALSE
    /\ total_playouts_ = 0
    /\ initial_visits_ \in InitialVisits
    /\ pending_searchers_ = MaxConcurrentSearchers
    /\ time_up = FALSE
    /\ pc = [t \in Threads |-> IF t = Watchdog THEN "populate" ELSE "start"]
    /\ batch = [w \in Workers |-> Empty]
    /\ stats = [t \in Threads |-> NoStats]
    /\ ui = "open"
    /\ stop_called = FALSE
    /\ aborted = "no"
    /\ bestmoves = 0
    /\ late_info = FALSE

-----------------------------------------------------------------------------
(* The workers: ExecuteOneIteration up to the end of the gathering. *)

\* A stopped search that has visited its root lets a worker leave early.
MayLeave == stop_ /\ Total > 0

\* InitializeIteration and, with a limit on concurrent searchers, the test that
\* starts a round of the spin on pending_searchers_.
StartIteration(w) ==
    /\ pc[w] = "start"
    /\ batch' = [batch EXCEPT ![w] = Empty]
    /\ Goto(w, IF MaxConcurrentSearchers = 0 THEN "gather"
               ELSE IF MayLeave THEN "test" ELSE "acquire")
    /\ UNCHANGED <<control, outside, output, total_playouts_, initial_visits_,
                   pending_searchers_, stats>>

\* A place is free: the compare and exchange takes it.
CanAcquire == pending_searchers_ > 0

\* The compare and exchange, or another round of the spin.
Acquire(w) ==
    /\ pc[w] = "acquire"
    /\ pending_searchers_' = IF CanAcquire THEN pending_searchers_ - 1 ELSE pending_searchers_
    /\ Goto(w, IF CanAcquire THEN "gather" ELSE "start")
    /\ UNCHANGED <<control, outside, output, total_playouts_, initial_visits_, batch,
                   stats>>

Size(b) == b.miss + b.hit

\* The loop condition of GatherMinibatch and its first early return.
KeepsGathering(b) ==
    /\ Size(b) < MiniBatchSize
    /\ b.ooo < MaxOutOfOrderEvals
    /\ ~(Size(b) > 0 /\ b.miss = 0)

LoopEnds(w) ==
    /\ pc[w] = "gather"
    /\ ~KeepsGathering(batch[w])
    /\ Goto(w, "gathered")
    /\ UNCHANGED <<control, work, outside, output, stats>>

\* What a descent may leave of initial_visits_: it takes back the visits that an
\* earlier search gave to two-fold draws, never the root's own first visit.
AfterRevert == IF initial_visits_ = 0 THEN {0} ELSE 1 .. initial_visits_

\* PickNodeToExtend stops at a node that some worker is still evaluating.  The
\* budget of collision visits may be used up by it, that of events is counted.
Collide(w) ==
    LET b == [batch[w] EXCEPT !.collisions = @ + 1]
    IN  /\ pc[w] = "gather"
        /\ KeepsGathering(batch[w])
        /\ \E v \in Workers : InFlight(v)
        /\ batch' = [batch EXCEPT ![w] = b]
        /\ initial_visits_' \in AfterRevert
        /\ \/ b.collisions < MaxCollisionEvents /\ Goto(w, "picked")
           \/ Goto(w, "gathered")
        /\ UNCHANGED <<control, outside, output, total_playouts_, pending_searchers_,
                       stats>>

\* TryStartScoreUpdate on a root without a visit refuses the second claim.
CanVisit == Total > 0 \/ \A v \in Workers : ~InFlight(v)

\* PickNodeToExtend claims a node; ExtendNode and AddNodeToComputation say
\* whether the network is needed (a miss) or not (a cache hit or a terminal).
Visit(w) ==
    /\ pc[w] = "gather"
    /\ KeepsGathering(batch[w])
    /\ CanVisit
    /\ initial_visits_' \in AfterRevert
    /\ \/ /\ batch' = [batch EXCEPT ![w].miss = @ + 1]
          /\ Goto(w, "picked")
       \/ /\ batch' = [batch EXCEPT ![w].hit = @ + 1]
          /\ Goto(w, IF OutOfOrderEval THEN "out_of_order" ELSE "picked")
    /\ UNCHANGED <<control, outside, output, total_playouts_, pending_searchers_, stats>>

\* The hit picked last is backed up at once and popped from the minibatch.
EvalOutOfOrder(w) ==
    /\ pc[w] = "out_of_order"
    /\ batch' = [batch EXCEPT ![w].hit = @ - 1, ![w].ooo = @ + 1]
    /\ total_playouts_' = Saturated(total_playouts_ + 1)
    /\ Goto(w, "picked")
    /\ UNCHANGED <<control, outside, output, initial_visits_, pending_searchers_, stats>>

\* The test of stop_ after every pick.
AfterPick(w) ==
    /\ pc[w] = "picked"
    /\ Goto(w, IF stop_ THEN "gathered" ELSE "gather")
    /\ UNCHANGED <<control, work, outside, output, stats>>

\* Mutant: the place is not given back.
ReleasedNever == pending_searchers_

Released == IF MaxConcurrentSearchers = 0 THEN pending_searchers_ ELSE pending_searchers_ + 1

\* CollectCollisions, MaybePrefetchIntoCache, and the place is given back.  The
\* gathering's own counters are not read again.
EndGather(w) ==
    /\ pc[w] = "gathered"
    /\ pending_searchers_' = Released
    /\ batch' = [batch EXCEPT ![w].ooo = 0, ![w].collisions = 0]
    /\ Goto(w, "compute")
    /\ UNCHANGED <<control, outside, output, total_playouts_, initial_visits_, stats>>

\* RunNNComputation, FetchMinibatchResults and DoBackupUpdate.
Backup(w) ==
    /\ pc[w] = "compute"
    /\ total_playouts_' = Saturated(total_playouts_ + Size(batch[w]))
    /\ batch' = [batch EXCEPT ![w].miss = 0, ![w].hit = 0]
    /\ Goto(w, "populate")
    /\ UNCHANGED <<control, outside, output, initial_visits_, pending_searchers_,
                   stats>>

-----------------------------------------------------------------------------
(* What workers, in UpdateCounters, and the watchdog do alike. *)

\* PopulateCommonIterationStats, under a shared lock that is then released.
Populate(t) ==
    /\ pc[t] = "populate"
    /\ stats' = [stats EXCEPT ![t] = [nodes |-> Total, time |-> time_up]]
    /\ Goto(t, "trigger")
    /\ UNCHANGED <<control, work, outside, output>>

\* The chained VisitsStopper and TimeLimitStopper.
ShouldStop(s) ==
    \/ NodeLimit # 0 /\ s.nodes >= NodeLimit
    \/ TimeLimited /\ s.time

\* Mutant: the first early return is missing.
MayTriggerAgain == Total # 0

\* The two early returns of MaybeTriggerStop.
MayTrigger == ~bestmove_is_sent_ /\ Total # 0

\* The stopper is asked, and fires.
Fires(s) == (~stop_ \/ ~ok_to_respond_bestmove_) /\ ShouldStop(s)

\* Mutant: ok_to_respond_bestmove_ is not asked.
AnswersAnyway(stopped) == stopped

\* "If we are the first to see that stop is needed", once stop_ is stopped.
Answers(stopped) == stopped /\ ok_to_respond_bestmove_

\* MaybeTriggerStop, on statistics that may be old.
MaybeTriggerStop(t) ==
    LET fires == MayTrigger /\ Fires(stats[t])
        answers == MayTrigger /\ Answers(stop_ \/ fires)
    IN  /\ pc[t] = "trigger"
        /\ stop_' = (stop_ \/ fires)
        /\ bestmove_is_sent_' = (bestmove_is_sent_ \/ answers)
        /\ bestmoves' = IF answers THEN bestmoves + 1 ELSE bestmoves
        /\ stats' = [stats EXCEPT ![t] = NoStats]  \* not read again
        /\ Goto(t, "info")
        /\ UNCHANGED <<ok_to_respond_bestmove_, work, outside, late_info>>

MayOutputInfo == ~bestmove_is_sent_ /\ Total > 0

\* MaybeOutputInfo, when current_best_edge_ is set and news are due.
MaybeOutputInfo(t) ==
    /\ pc[t] = "info"
    /\ \/ /\ MayOutputInfo
          /\ late_info' = (late_info \/ aborted = "silenced" \/ bestmoves > 0)
       \/ UNCHANGED late_info
    /\ Goto(t, IF t = Watchdog THEN "check" ELSE "test")
    /\ UNCHANGED <<control, work, outside, bestmoves, stats>>

\* The sleeps at the end of UpdateCounters and for the limit on nodes per second,
\* which all end, then the test of RunBlocking's loop.
LoopTest(w) ==
    /\ w \in Workers
    /\ pc[w] = "test"
    /\ Goto(w, IF stop_ THEN "done" ELSE "start")
    /\ UNCHANGED <<control, work, outside, output, stats>>

\* Mutant: the watchdog leaves with the workers.
WatchdogEndsOnStop == stop_

WatchdogEnds == bestmove_is_sent_

\* The watchdog leaves once bestmove is sent, or waits on watchdog_cv_.
WatchdogCheck ==
    /\ pc[Watchdog] = "check"
    /\ Goto(Watchdog, IF WatchdogEnds THEN "done" ELSE "wait")
    /\ UNCHANGED <<control, work, outside, output, stats>>

\* wait_for returns at once when its predicate stop_ holds, otherwise when it
\* is notified or after the remaining time, which is at least one millisecond.
WatchdogWakes ==
    /\ pc[Watchdog] = "wait"
    /\ Goto(Watchdog, "populate")
    /\ UNCHANGED <<control, work, outside, output, stats>>

-----------------------------------------------------------------------------
(* The owner of the Search, the UCI thread, and time. *)

Stop ==
    /\ ui = "open"
    /\ ok_to_respond_bestmove_' = TRUE
    /\ stop_' = TRUE
    /\ stop_called' = TRUE
    /\ UNCHANGED <<bestmove_is_sent_, work, time_up, ui, infinite, aborted, output, pc,
                   stats>>

\* Mutant: a search that reached its limit and waits for Stop is left alone.
SilencesRunning == ~stop_

\* Abort acts on a search that still runs or that will not answer.
Silences == ~stop_ \/ (~bestmove_is_sent_ /\ ~ok_to_respond_bestmove_)

\* The body of Abort, also the first thing ~Search does.  aborted only records
\* calls made before the answer.
AbortBody ==
    /\ bestmove_is_sent_' = (bestmove_is_sent_ \/ Silences)
    /\ stop_' = (stop_ \/ Silences)
    /\ aborted' = IF Silences THEN "silenced"
                  ELSE IF bestmove_is_sent_ THEN aborted ELSE "ignored"
    /\ UNCHANGED <<ok_to_respond_bestmove_, work, time_up, stop_called, infinite, output,
                   pc, stats>>

Abort ==
    /\ ui = "open"
    /\ AbortBody
    /\ UNCHANGED ui

\* ~Search, up to the Wait it makes.
Destroy ==
    /\ ui = "open"
    /\ AbortBody
    /\ ui' = "joining"

AllEnded == \A t \in Threads : pc[t] = "done"

\* Wait joins every thread.
Joined ==
    /\ ui = "joining"
    /\ AllEnded
    /\ ui' = "destroyed"
    /\ UNCHANGED <<control, work, time_up, stop_called, infinite, aborted, output, pc, stats>>

\* Nothing happens to a Search that is no more.
Gone ==
    /\ ui = "destroyed"
    /\ UNCHANGED vars

TimePasses ==
    /\ TimeLimited /\ ~time_up /\ ui # "destroyed"
    /\ time_up' = TRUE
    /\ UNCHANGED <<control, work, ui, stop_called, infinite, aborted, output, pc, stats>>

Step(t) ==
    \/ t \in Workers /\ (StartIteration(t) \/ Acquire(t) \/ LoopEnds(t) \/ Collide(t)
                         \/ Visit(t) \/ EvalOutOfOrder(t) \/ AfterPick(t) \/ EndGather(t) \/ Backup(t) \/ LoopTest(t))
    \/ Populate(t) \/ MaybeTriggerStop(t) \/ MaybeOutputInfo(t)
    \/ t = Watchdog /\ (WatchdogCheck \/ WatchdogWakes)

Next ==
    \/ \E t \in Threads : Step(t)
    \/ Stop \/ Abort \/ Destroy \/ Joined \/ Gone \/ TimePasses

Spec == Init /\ [][Next]_vars

\* The threads are scheduled by the operating system, the clock runs, and a
\* Wait that can return does.  Nothing forces the owner to call anything.
FairSpec ==
    /\ Spec
    /\ \A t \in Threads : WF_vars(Step(t))
    /\ WF_vars(Joined)
    /\ WF_vars(TimePasses)

-----------------------------------------------------------------------------
(* Properties. *)

Places == {"start", "acquire", "gather", "out_of_order", "picked", "gathered", "compute",
           "populate", "trigger", "info", "check", "wait", "test", "done"}

\* Every variable has its type: the flags of Search, the counters, the minibatch
\* counts of each worker (never more evaluated hits than were picked) and each
\* thread's place in its loop.
TypeOK ==
    /\ stop_ \in BOOLEAN /\ ok_to_respond_bestmove_ \in BOOLEAN
    /\ bestmove_is_sent_ \in BOOLEAN /\ time_up \in BOOLEAN
    /\ stop_called \in BOOLEAN /\ infinite \in BOOLEAN /\ late_info \in BOOLEAN
    /\ total_playouts_ \in 0 .. MaxPlayouts /\ initial_visits_ \in Nat
    /\ pending_searchers_ \in 0 .. MaxConcurrentSearchers
    /\ pc \in [Threads -> Places]
    /\ batch \in [Workers -> [miss : Nat, hit : Nat, ooo : Nat, collisions : Nat]]
    /\ stats \in [Threads -> [nodes : Nat, time : BOOLEAN]]
    /\ ui \in {"open", "joining", "destroyed"}
    /\ aborted \in {"no", "silenced", "ignored"}
    /\ bestmoves \in Nat

\* Whichever workers and the watchdog see the stop at the same time, one of them
\* calls OutputBestMove and none calls it again (MaybeTriggerStop).
AtMostOneBestmove == bestmoves <= 1

\* EnsureBestMoveKnown has a move to give: bestmove goes out only when the root
\* has a visit, however early Stop arrived and whatever visits were reverted.
AnswerHasVisits == bestmoves > 0 => Total > 0

\* A `go infinite` or ponder search keeps quiet until Stop, even when a stopper
\* of it fired and its workers have all gone.
InfiniteWaitsForStop == infinite /\ bestmoves > 0 => stop_called

\* When Abort took effect nobody answers: it does so before any answer, and no
\* thread that was between its tests answers after it.
AbortedStaysSilent == aborted = "silenced" => bestmoves = 0

\* No thinking info is output after the answer or after an Abort that took
\* effect (MaybeOutputInfo runs without the lock of MaybeTriggerStop).
NoLateInfo == ~late_info

Gathering == {w \in Workers : pc[w] \in {"gather", "out_of_order", "picked", "gathered"}}

\* pending_searchers_ counts the free places exactly, so never more than
\* MaxConcurrentSearchers workers gather and no early return loses a place.
PlacesAccounted ==
    MaxConcurrentSearchers # 0 =>
        pending_searchers_ + Cardinality(Gathering) = MaxConcurrentSearchers

\* A destroyed Search has no worker with nodes that are not backed up.
DestroyedIsIdle == ui = "destroyed" => \A w \in Workers : pc[w] = "done" /\ ~InFlight(w)

\* One answer: at most one thread sends bestmove, and only for a root that has
\* a move to send.
OneAnswer == AtMostOneBestmove /\ AnswerHasVisits

\* Output only when the user asked for it: not before Stop on an infinite search,
\* not after an Abort that took effect, no info after the answer.
OutputAllowed == InfiniteWaitsForStop /\ AbortedStaysSilent /\ NoLateInfo

\* What threads hold is given back: the places among the gathering workers at
\* every exit of the gathering, the claimed nodes before Wait returns.
HeldIsReturned == PlacesAccounted /\ DestroyedIsIdle

\* Stop is answered, or an Abort silenced the search: at the latest the watchdog
\* sees the stop once the root has its first visit.
StopAnswered == stop_called ~> bestmove_is_sent_

\* A search with a limit ends by itself.
LimitAnswered == ~infinite /\ (NodeLimit # 0 \/ TimeLimited) ~> bestmove_is_sent_

\* Every `go` that is stopped or has a limit ends in bestmove or in an Abort.
EveryGoAnswered == StopAnswered /\ LimitAnswered

\* ~Search returns: Wait joins every worker and the watchdog.
DestructorReturns == ui = "joining" ~> ui = "destroyed"
=============================================================================
