------------------------------- MODULE Engine -------------------------------
(* EngineController and the UCI loop around it: the objects the controller owns
   (position, tree, network, tablebases, time manager, search), the commands of
   the UCI thread with the errors they may throw half way, and the threads of the
   searches they start.  What happens inside a search is SearchControl's matter;
   here a search uses what it points to while its threads run, and sends its one
   bestmove.  The evaluations in cache_ are LruCache's matter. *)
EXTENDS Naturals, Sequences, SequencesExt

CONSTANTS EngFens, EngBadFens,      \* FEN strings, those that do not parse
          EngStartFen, EngMoves, EngMaxPly,
          EngTbPaths, EngGoodTb,    \* tablebase paths, those with tablebases
          EngNets, EngGoodNets,     \* network configurations, those that load
          EngNone,                  \* nullptr, an empty optional or string
          EngMaxGo                  \* bound: number of searches started

EngPositions == [fen : EngFens, moves : SeqOf(EngMoves, EngMaxPly)]
EngStartpos == [fen |-> EngStartFen, moves |-> <<>>]

\* A NodeTree that was made and has not been set to a position.
EngEmptyTree == [fen |-> EngNone, moves |-> <<>>]

ASSUME EngAssumption == /\ EngStartFen \in EngFens \ EngBadFens /\ EngGoodTb \subseteq EngTbPaths
                        /\ EngGoodNets \subseteq EngNets
                        /\ EngNone \notin EngFens \cup EngNets \cup EngPositions
                        /\ EngMaxGo \in Nat /\ EngMaxPly \in Nat

(* ctl holds the controller's members; opt the UCI options; pc where the UCI
   thread is; search the object of search_, old one that is being replaced by
   it; best the go commands answered, in order.  tmFailed: creating a time manager
   has failed. *)
VARIABLES ctl, opt, pc, search, old, best, goes, tmFailed
engVars == <<ctl, opt, pc, search, old, best, goes, tmFailed>>

EngInit ==
    /\ ctl = [position |-> EngNone, tree |-> EngNone, net |-> EngNone, netConfig |-> EngNone,
              tb |-> EngNone, tbPaths |-> EngNone, tm |-> FALSE, go |-> "finite"]
    /\ opt \in [tb : {EngNone}, net : EngGoodNets, tm : {TRUE}]
    /\ pc = "idle" /\ search = EngNone /\ old = EngNone
    /\ best = <<>> /\ goes = 0 /\ tmFailed = FALSE

-----------------------------------------------------------------------------
(* The parts of the commands, as functions of the members; error: an exception
   was thrown, nothing after it was done. *)
EngOk(c) == [c |-> c, error |-> FALSE]
EngThrow(c) == [c |-> c, error |-> TRUE]

EngLoadTb(c) ==
    IF opt.tb = EngNone \/ opt.tb = c.tbPaths THEN c
    ELSE IF opt.tb \in EngGoodTb THEN [c EXCEPT !.tb = opt.tb, !.tbPaths = opt.tb]
    ELSE [c EXCEPT !.tb = EngNone]

UpdateFromUciOptions(c) ==
    LET d == EngLoadTb(c)
    IN  IF opt.net = d.netConfig THEN EngOk(d)
        ELSE IF opt.net \in EngGoodNets
             THEN EngOk([d EXCEPT !.net = opt.net, !.netConfig = opt.net])
             ELSE EngThrow(d)

CreateFreshTimeManager(c) ==
    IF opt.tm THEN EngOk([c EXCEPT !.tm = TRUE]) ELSE EngThrow(c)

\* What ResetToPosition of the tree answers: see NodeTree.
EngSameGame(tree, p) ==
    tree \notin {EngNone, EngEmptyTree} /\ tree.fen = p.fen /\ IsPrefix(tree.moves, p.moves)

\* A FEN that does not parse throws before the tree changes, but after it was made.
EngBadFen(p) == p.fen \in EngBadFens
EngResetTree(c, p) ==
    LET d == [c EXCEPT !.tree = p]
    IN  IF EngBadFen(p) THEN EngThrow([c EXCEPT !.tree = IF @ = EngNone THEN EngEmptyTree ELSE @])
        ELSE IF EngSameGame(c.tree, p) THEN EngOk(d) ELSE CreateFreshTimeManager(d)

SetupPosition(c, p) ==
    LET u == UpdateFromUciOptions(c) IN IF u.error THEN u ELSE EngResetTree(u.c, p)

\* The position a go searches: without the last move when pondering.
EngRequested(position, ponder) ==
    IF position = EngNone THEN EngStartpos
    ELSE IF ponder /\ position.moves # <<>> THEN [position EXCEPT !.moves = Front(@)]
    ELSE position

EngNeedsSetup(c) == c.position # EngNone \/ c.tree = EngNone

-----------------------------------------------------------------------------
EngAlive(s) == s # EngNone /\ s.threads
EngCommand == pc = "idle"

\* setoption: applied to the controller only by UpdateFromUciOptions.
CmdSetOption(o, v) ==
    /\ EngCommand /\ opt' = [opt EXCEPT ![o] = v]
    /\ UNCHANGED <<ctl, pc, search, old, best, goes, tmFailed>>

\* ucinewgame: the cache is cleared first, while the search may still run ...
NewGameClearCache ==
    /\ EngCommand /\ pc' = "newgame"
    /\ UNCHANGED <<ctl, opt, search, old, best, goes, tmFailed>>

\* ... then the search and the tree go, and what follows may throw.
NewGameReset ==
    /\ pc = "newgame" /\ pc' = "idle"
    /\ search' = EngNone
    /\ LET t == CreateFreshTimeManager([ctl EXCEPT !.tree = EngNone])
           u == IF t.error THEN t
                ELSE UpdateFromUciOptions([t.c EXCEPT !.position = EngNone])
       IN  /\ ctl' = u.c
           /\ tmFailed' = (tmFailed \/ t.error)
    /\ UNCHANGED <<opt, old, best, goes>>

SetPosition(p) ==
    /\ EngCommand
    /\ ctl' = [ctl EXCEPT !.position = p] /\ search' = EngNone
    /\ UNCHANGED <<opt, pc, old, best, goes, tmFailed>>

\* search_ after the reset at the start of SetupPosition, if that is called.
EngKeepSearch(setup) == search
EngResetSearch(setup) == IF setup THEN EngNone ELSE search

EngNewSearch(c) ==
    [go |-> goes + 1, root |-> c.tree, net |-> c.net, tb |-> c.tb,
     ponder |-> c.go = "ponder", infinite |-> c.go # "finite", stopped |-> FALSE, answered |-> FALSE,
     threads |-> FALSE]

\* Go up to the construction of the Search. goodMoves: the searchmoves, if any,
\* contain a legal one. A null time manager is dereferenced by GetStopper.
EngGo(params, goodMoves) ==
    LET c == [ctl EXCEPT !.go = params]
        setup == EngNeedsSetup(c)
        p == EngRequested(c.position, params = "ponder")
        r == IF setup THEN SetupPosition(c, p) ELSE EngOk(c)
    IN  /\ goes < EngMaxGo
        /\ ctl' = r.c
        /\ tmFailed' = (tmFailed \/ (r.error /\ ~UpdateFromUciOptions(c).error /\ ~EngBadFen(p)))
        /\ \/ /\ r.error /\ search' = EngNone /\ UNCHANGED <<pc, old, goes>>
           \/ /\ ~r.error /\ ~r.c.tm /\ pc' = "crashed" /\ search' = EngNone
              /\ UNCHANGED <<old, goes>>
           \/ /\ ~r.error /\ r.c.tm /\ ~goodMoves
              /\ search' = EngResetSearch(setup)
              /\ UNCHANGED <<pc, old, goes>>
           \/ /\ ~r.error /\ r.c.tm /\ goodMoves
              /\ old' = EngResetSearch(setup)
              /\ search' = EngNewSearch(r.c)
              /\ pc' = "start" /\ goes' = goes + 1
        /\ UNCHANGED <<opt, best>>

CmdGo == EngCommand /\ \E p \in {"finite", "infinite", "ponder"}, g \in BOOLEAN : EngGo(p, g)

\* ponderhit: the last go again, not pondering.
PonderHit ==
    EngCommand /\ \E g \in BOOLEAN : EngGo(IF ctl.go = "ponder" THEN "finite" ELSE ctl.go, g)

\* The assignment to search_ destroys the search it held: Abort and Wait.
EngDestroyOld ==
    /\ pc = "start" /\ old # EngNone /\ old' = EngNone
    /\ UNCHANGED <<ctl, opt, pc, search, best, goes, tmFailed>>

EngStartsAtOnce == TRUE
EngOldDestroyed == old = EngNone

EngStartThreads ==
    /\ pc = "start" /\ EngOldDestroyed
    /\ search' = [search EXCEPT !.threads = TRUE] /\ pc' = "idle"
    /\ UNCHANGED <<ctl, opt, old, best, goes, tmFailed>>

CmdStop ==
    /\ EngCommand /\ search # EngNone /\ search' = [search EXCEPT !.stopped = TRUE]
    /\ UNCHANGED <<ctl, opt, pc, old, best, goes, tmFailed>>

\* quit, or the end of the input: ~EngineController takes the search first.
EngQuit ==
    /\ EngCommand /\ pc' = "quit" /\ search' = EngNone
    /\ ctl' = [ctl EXCEPT !.tree = EngNone, !.net = EngNone, !.tb = EngNone, !.tm = FALSE]
    /\ UNCHANGED <<opt, old, best, goes, tmFailed>>

\* One of the threads of a search answers when it is over.
EngMayAnswer(s) == EngAlive(s) /\ ~s.answered /\ (s.infinite => s.stopped)
EngSearchAnswers ==
    /\ \/ /\ EngMayAnswer(search) /\ best' = Append(best, search.go)
          /\ search' = [search EXCEPT !.answered = TRUE] /\ UNCHANGED old
       \/ /\ EngMayAnswer(old) /\ best' = Append(best, old.go)
          /\ old' = [old EXCEPT !.answered = TRUE] /\ UNCHANGED search
    /\ UNCHANGED <<ctl, opt, pc, goes, tmFailed>>

\* The threads leave later, each at the end of what it is doing; the last one:
EngThreadsLeave ==
    /\ \/ /\ EngAlive(search) /\ search.answered
          /\ search' = [search EXCEPT !.threads = FALSE] /\ UNCHANGED old
       \/ /\ EngAlive(old) /\ old.answered
          /\ old' = [old EXCEPT !.threads = FALSE] /\ UNCHANGED search
    /\ UNCHANGED <<ctl, opt, pc, best, goes, tmFailed>>

EngNext ==
    \/ \E v \in EngTbPaths \cup {EngNone} : CmdSetOption("tb", v)
    \/ \E v \in EngNets : CmdSetOption("net", v)
    \/ \E v \in BOOLEAN : CmdSetOption("tm", v)
    \/ NewGameClearCache \/ NewGameReset \/ \E p \in EngPositions : SetPosition(p)
    \/ CmdGo \/ PonderHit \/ EngDestroyOld \/ EngStartThreads \/ CmdStop \/ EngQuit
    \/ EngSearchAnswers \/ EngThreadsLeave

EngSpec == EngInit /\ [][EngNext]_engVars

-----------------------------------------------------------------------------
(* Whatever a search whose threads still run points to, after its answer too (the
   tree at the node it started from, the network, the tablebases), is what the
   controller still owns: no command frees or replaces it before the search is
   destroyed, the search being replaced (engine.cc:279) included. *)
EngResourcesOutliveSearch ==
    \A s \in {search, old} : EngAlive(s) =>
        s.root = ctl.tree /\ s.net = ctl.net /\ s.tb = ctl.tb /\ s.net # EngNone

(* A running search is about the position the host asked for: the last position
   command, without its last move while pondering, and the initial position when
   there was none since ucinewgame, whatever failed on the way.  Bestmoves come in
   the order of the go commands, at most one for each, and once go has returned only
   its own search can still answer.  Go dereferences time_manager_ without a test: it
   is null there only if an attempt to create one has thrown. *)
EngCommandsHonoured ==
    /\ EngAlive(search) => search.root = EngRequested(ctl.position, search.ponder)
    /\ \A i \in 1..(Len(best) - 1) : best[i] < best[i + 1]
    /\ pc = "idle" => old = EngNone /\ (EngAlive(search) => search.go = goes)
    /\ pc = "crashed" => tmFailed
=============================================================================
