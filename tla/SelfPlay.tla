------------------------------ MODULE SelfPlay ------------------------------
(* The self-play tournament, its games and the interactive loop that starts and
   stops it.  Workers take game numbers from a shared counter and play; the loop's
   thread and the thread that runs the tournament stop, abort, wait and report. *)
EXTENDS Integers, Sequences, SequencesExt, FiniteSets, FiniteSetsExt

CONSTANTS SpWorkers,      \* kParallelism of them, or one run by the runner itself
          SpMatches,      \* kTotalGames (-2 plays the openings once) and openings mode
          SpOpenings,     \* openings_, a sequence
          SpOutcomes,     \* the results games may have
          SpMaxPly,       \* bound: length of a game
          SpPileLimit,    \* the pile of discarded openings (10000 in the code)
          SpDiscarded     \* what stands for the moves of a discarded line

ASSUME SpAssumption == /\ SpMatches \subseteq Int \X {"mirrored", "random", "sequential"}
                       /\ SpOutcomes \subseteq {"white", "draw", "black"} /\ SpMaxPly \in Nat /\ SpPileLimit \in Nat
                       /\ SpOpenings # <<>> /\ SpWorkers # {}

VARIABLES spTotal, spMode, spFirstBlack, spInline,  \* chosen at the start
          spLoop, spRunner, spThreads, spAbort, spCount, spW, spPile,
          spResults, spFinished, spFinals, spPlayed
spVars == <<spTotal, spMode, spFirstBlack, spInline, spLoop, spRunner, spThreads, spAbort,
            spCount, spW, spPile, spResults, spFinished, spFinals, spPlayed>>
spConf == <<spTotal, spMode, spFirstBlack, spInline>>

\* A worker: where it is, and the game it plays.  abort and registered belong to
\* the game; colour: the one player 1 has (player1_black).
SpNoGame == [pc |-> "off", game |-> -1, colour |-> "white", opening |-> SpDiscarded, ply |-> 0,
             registered |-> FALSE, abort |-> FALSE, result |-> "undecided"]

\* Player 1 is white when only one game is played; else it is drawn.
SpInit ==
    /\ \E m \in SpMatches : spTotal = m[1] /\ spMode = m[2]
    /\ spInline \in BOOLEAN
    /\ spFirstBlack \in IF spTotal = 1 THEN {FALSE} ELSE BOOLEAN
    /\ spLoop = "idle" /\ spRunner = "none" /\ spThreads = {} /\ spAbort = FALSE /\ spCount = 0
    /\ spW = [w \in SpWorkers |-> SpNoGame] /\ spPile = <<>>
    /\ spResults = [r \in 0..2 |-> [c \in 0..1 |-> 0]]
    /\ spFinished = FALSE /\ spFinals = 0 /\ spPlayed = {}

SpGo(w, pc) == spW' = [spW EXCEPT ![w].pc = pc]

-----------------------------------------------------------------------------
(* A worker. *)
SpLimitReached ==
    \/ spTotal >= 0 /\ spCount >= spTotal
    \/ spTotal = -2 /\ spCount >= Len(SpOpenings) * (IF spMode = "mirrored" THEN 2 ELSE 1)

SpTakePaused(w) ==
    /\ spW[w].pc = "next" /\ ~spAbort
    /\ \/ SpLimitReached /\ SpGo(w, "exited") /\ UNCHANGED spCount
       \/ /\ ~SpLimitReached
          /\ spW' = [spW EXCEPT ![w] = [SpNoGame EXCEPT !.pc = "choose", !.game = spCount]]
          /\ spCount' = spCount + 1
    /\ UNCHANGED <<spConf, spLoop, spRunner, spThreads, spAbort, spPile, spResults, spFinished, spFinals, spPlayed>>

\* Worker: under the mutex, leave or take the next number.
SpTake(w) ==
    /\ spW[w].pc = "next"
    /\ \/ /\ spAbort \/ SpLimitReached
          /\ SpGo(w, "exited") /\ UNCHANGED spCount
       \/ /\ ~(spAbort \/ SpLimitReached)
          /\ spW' = [spW EXCEPT ![w] = [SpNoGame EXCEPT !.pc = "choose", !.game = spCount]]
          /\ spCount' = spCount + 1
    /\ UNCHANGED <<spConf, spLoop, spRunner, spThreads, spAbort, spPile, spResults, spFinished, spFinals, spPlayed>>

SpBookOpening(n) ==
    CASE spMode = "mirrored" -> {SpOpenings[((n \div 2) % Len(SpOpenings)) + 1]}
      [] spMode = "random" -> {SpOpenings[i] : i \in DOMAIN SpOpenings}
      [] OTHER -> {SpOpenings[(n % Len(SpOpenings)) + 1]}

SpPlayer1Colour(n) == IF ((n % 2) = 1) # spFirstBlack THEN "black" ELSE "white"

\* PlayOneGame, first lock: the colours and the opening, from the book or the pile.
SpChoose(w) ==
    /\ spW[w].pc = "choose"
    /\ \E fromPile \in {FALSE} \cup {b \in {TRUE} : spPile # <<>>} :
       /\ spPile' = IF fromPile THEN Front(spPile) ELSE spPile
       /\ \E o \in IF fromPile THEN {Last(spPile)} ELSE SpBookOpening(spW[w].game) :
             spW' = [spW EXCEPT ![w].pc = "register", ![w].opening = o,
                                ![w].colour = SpPlayer1Colour(spW[w].game)]
    /\ UNCHANGED <<spConf, spLoop, spRunner, spThreads, spAbort, spCount, spResults, spFinished, spFinals, spPlayed>>

\* Second lock: the game enters games_, where Abort finds it.
SpRegister(w) ==
    /\ spW[w].pc = "register"
    /\ spW' = [spW EXCEPT ![w].pc = "loop", ![w].registered = TRUE]
    /\ UNCHANGED <<spConf, spLoop, spRunner, spThreads, spAbort, spCount, spPile, spResults, spFinished, spFinals, spPlayed>>

\* SelfPlayGame::Play, head of the loop: aborted, over on the board, or go on.
SpLoopHead(w) ==
    /\ spW[w].pc = "loop"
    /\ \/ spW[w].abort /\ SpGo(w, "over")
       \/ /\ ~spW[w].abort
          /\ \E r \in SpOutcomes : spW' = [spW EXCEPT ![w].pc = "over", ![w].result = r]
       \/ ~spW[w].abort /\ spW[w].ply < SpMaxPly /\ SpGo(w, "create")
    /\ UNCHANGED <<spConf, spLoop, spRunner, spThreads, spAbort, spCount, spPile, spResults, spFinished, spFinals, spPlayed>>

\* Under the game's mutex: the abort is seen, or the search exists for Abort to find.
SpCreateSearch(w) ==
    /\ spW[w].pc = "create"
    /\ spW' = [spW EXCEPT ![w].pc = IF spW[w].abort THEN "over" ELSE "search"]
    /\ UNCHANGED <<spConf, spLoop, spRunner, spThreads, spAbort, spCount, spPile, spResults, spFinished, spFinals, spPlayed>>

\* RunBlocking returned: aborted, resigned, or a move is made; before that, lines
\* with too few visits may be discarded into the pile, which is kept at its limit.
SpSearched(w) ==
    /\ spW[w].pc = "search"
    /\ \/ /\ spW[w].abort /\ SpGo(w, "over") /\ UNCHANGED spPile
       \/ /\ ~spW[w].abort /\ UNCHANGED spPile
          /\ \E r \in SpOutcomes : spW' = [spW EXCEPT ![w].pc = "over", ![w].result = r]
       \/ /\ ~spW[w].abort
          /\ spW' = [spW EXCEPT ![w].pc = "loop", ![w].ply = @ + 1]
          /\ spPile' \in {spPile, IF Len(spPile) < SpPileLimit THEN Append(spPile, SpDiscarded) ELSE spPile}
    /\ UNCHANGED <<spConf, spLoop, spRunner, spThreads, spAbort, spCount, spResults, spFinished, spFinals, spPlayed>>

SpResultOfWhite(w) == CASE spW[w].result = "draw" -> 1 [] spW[w].result = "white" -> 0 [] OTHER -> 2

\* The row and column of results for a decided game.
SpResultRow(w) ==
    LET r == CASE spW[w].result = "draw" -> 1 [] spW[w].result = "white" -> 0 [] OTHER -> 2
    IN  IF spW[w].colour = "black" THEN 2 - r ELSE r

SpColumn(colour) == IF colour = "black" THEN 1 ELSE 0

\* An undecided (aborted) game is only erased; a decided one is counted before.
SpCountGame(w) ==
    /\ spW[w].pc = "over"
    /\ SpGo(w, "erase")
    /\ IF spW[w].result = "undecided" THEN UNCHANGED <<spResults, spPlayed>>
       ELSE /\ spResults' = [spResults EXCEPT ![SpResultRow(w)][SpColumn(spW[w].colour)] = @ + 1]
            /\ spPlayed' = spPlayed \cup {[game |-> spW[w].game, colour |-> spW[w].colour,
                                           opening |-> spW[w].opening, result |-> spW[w].result]}
    /\ UNCHANGED <<spConf, spLoop, spRunner, spThreads, spAbort, spCount, spPile, spFinished, spFinals>>

SpErase(w) ==
    /\ spW[w].pc = "erase"
    /\ spW' = [spW EXCEPT ![w] = [SpNoGame EXCEPT !.pc = "next"]]
    /\ UNCHANGED <<spConf, spLoop, spRunner, spThreads, spAbort, spCount, spPile, spResults, spFinished, spFinals, spPlayed>>

SpWorkerStep(w) ==
    SpTake(w) \/ SpChoose(w) \/ SpRegister(w) \/ SpLoopHead(w) \/ SpCreateSearch(w)
    \/ SpSearched(w) \/ SpCountGame(w) \/ SpErase(w)

-----------------------------------------------------------------------------
(* The thread of RunBlocking. With parallelism 1 it is the worker itself. *)
SpStartAsync ==
    /\ spRunner = "start" /\ spRunner' = "wait"
    /\ \E ws \in {IF spInline THEN {CHOOSE w \in SpWorkers : TRUE} ELSE SpWorkers} :
          /\ spW' = [w \in SpWorkers |-> IF w \in ws THEN [spW[w] EXCEPT !.pc = "next"] ELSE spW[w]]
          /\ spThreads' = IF spInline THEN {} ELSE ws
    /\ UNCHANGED <<spConf, spLoop, spAbort, spCount, spPile, spResults, spFinished, spFinals, spPlayed>>

SpJoined == \A w \in spThreads : spW[w].pc = "exited"

\* The end of Wait (and of RunBlocking): final results, unless aborted.
SpReport ==
    IF spAbort THEN UNCHANGED <<spFinished, spFinals>>
    ELSE spFinished' = TRUE /\ spFinals' = spFinals + 1

SpRunnerWaits ==
    /\ spRunner = "wait"
    /\ IF spInline THEN \A w \in SpWorkers : spW[w].pc \in {"off", "exited"} ELSE SpJoined
    /\ spThreads' = {} /\ spRunner' = "done" /\ SpReport
    /\ UNCHANGED <<spConf, spLoop, spAbort, spCount, spW, spPile, spResults, spPlayed>>

(* The UCI thread. *)
SpCmdStart ==
    /\ spLoop = "idle" /\ spRunner = "none" /\ spRunner' = "start"
    /\ UNCHANGED <<spConf, spLoop, spThreads, spAbort, spCount, spW, spPile, spResults, spFinished, spFinals, spPlayed>>

\* stop: Stop, then Wait. Without a tournament there is nothing behind tournament_.
SpCmdStop ==
    /\ spLoop = "idle"
    /\ IF spRunner = "none" THEN spLoop' = "crashed" /\ UNCHANGED spAbort
       ELSE spAbort' = TRUE /\ spLoop' = "wait"
    /\ UNCHANGED <<spConf, spRunner, spThreads, spCount, spW, spPile, spResults, spFinished, spFinals, spPlayed>>

SpCmdStopWaits ==
    /\ spLoop = "wait" /\ SpJoined
    /\ spThreads' = {} /\ spLoop' = "idle" /\ SpReport
    /\ UNCHANGED <<spConf, spRunner, spAbort, spCount, spW, spPile, spResults, spPlayed>>

\* quit: Abort reaches the games in games_ ...
SpQuit ==
    /\ spLoop = "idle" /\ spRunner # "none"
    /\ spAbort' = TRUE /\ spLoop' = "quit"
    /\ spW' = [w \in SpWorkers |-> [spW[w] EXCEPT !.abort = @ \/ spW[w].registered]]
    /\ UNCHANGED <<spConf, spRunner, spThreads, spCount, spPile, spResults, spFinished, spFinals, spPlayed>>

\* ... then the runner is joined and the tournament destroyed.
SpJoinRunner ==
    /\ spLoop = "quit" /\ spRunner = "done" /\ spLoop' = "gone"
    /\ UNCHANGED <<spConf, spRunner, spThreads, spAbort, spCount, spW, spPile, spResults, spFinished, spFinals, spPlayed>>

SpControl == SpStartAsync \/ SpRunnerWaits \/ SpCmdStopWaits \/ SpJoinRunner
SpNext ==
    \/ SpStartAsync \/ SpRunnerWaits \/ SpCmdStart \/ SpCmdStop \/ SpCmdStopWaits \/ SpQuit \/ SpJoinRunner
    \/ \E w \in SpWorkers : SpWorkerStep(w)

SpSpec == SpInit /\ [][SpNext]_spVars

\* Every thread goes on when it can; a search ends, by its limits or its stop.
SpFairness ==
    /\ \A w \in SpWorkers : WF_spVars(SpWorkerStep(w))
    /\ WF_spVars(SpStartAsync) /\ WF_spVars(SpRunnerWaits)
    /\ WF_spVars(SpCmdStopWaits) /\ WF_spVars(SpJoinRunner)

-----------------------------------------------------------------------------
(* What a game is worth for player 1, as a row: 0 won, 1 drawn, 2 lost.  *)
SpScore(p) == CASE p.result = "draw" -> 1 [] p.result = p.colour -> 0 [] OTHER -> 2

SpScored(r, c) ==
    {p \in spPlayed : SpScore(p) = r /\ p.colour = IF c = 1 THEN "black" ELSE "white"}

(* A final report is sent once, and only when every game there was to play has been
   played and counted and no worker plays: not while a worker is between taking a
   number and counting its game, and not after Stop or Abort cut the match short.
   TournamentInfo has player 1's wins, draws and losses by its colour, one for each
   decided game.  In mirrored mode the two games of a pair have the same opening from
   the book, and player 1 has both colours.  All that however the workers interleave. *)
SpResultsComplete ==
    /\ spFinals <= 1
    /\ spFinished => /\ SpLimitReached /\ Cardinality(spPlayed) = spCount
                     /\ \A w \in SpWorkers : spW[w].pc \in {"off", "exited"}
    /\ \A r \in 0..2, c \in 0..1 : spResults[r][c] = Cardinality(SpScored(r, c))
    /\ \A p, q \in spPlayed : (p.game \div 2 = q.game \div 2 /\ p.game # q.game) =>
          /\ p.colour # q.colour
          /\ (spMode = "mirrored" /\ SpDiscarded \notin {p.opening, q.opening}) =>
                p.opening = q.opening

(* The stop command returns: its Wait ends, whichever of the two threads that wait
   joins the workers, and before they were started too.  So does quit, although a game
   that was not yet in games_ when Abort ran has to be played to its end. *)
SpCommandsReturn ==
    /\ spLoop = "wait" ~> spLoop = "idle"
    /\ spLoop = "quit" ~> spLoop = "gone"
=============================================================================
