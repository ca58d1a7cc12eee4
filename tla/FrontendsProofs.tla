-------------------------- MODULE FrontendsProofs --------------------------
(***************************************************************************)
(* The two front ends that own searches.                                   *)
(*                                                                         *)
(* The UCI engine: what a running search points to is never freed or       *)
(* replaced under it, and the commands are honoured, for any positions,    *)
(* networks and tablebases and any number of searches.                     *)
(*                                                                         *)
(* The self-play tournament: every game is played and counted once, in its *)
(* place of the table, for any number of workers, games and openings.      *)
(***************************************************************************)
EXTENDS Engine, SelfPlay, FiniteSetTheorems, TLAPS

-----------------------------------------------------------------------------
(* The UCI engine: the inductive invariant. *)

\* Records with the members of the controller, and of a search.
IsController(c) ==
    c \in [position : {c.position}, tree : {c.tree}, net : {c.net}, netConfig : {c.netConfig},
           tb : {c.tb}, tbPaths : {c.tbPaths}, tm : BOOLEAN, go : {c.go}]

IsSearch(s) ==
    s \in [go : Nat, root : {s.root}, net : {s.net}, tb : {s.tb}, ponder : {s.ponder},
           infinite : {s.infinite}, stopped : {s.stopped}, answered : BOOLEAN, threads : BOOLEAN]

EngTypes ==
    /\ IsController(ctl)
    /\ opt \in [tb : EngTbPaths \cup {EngNone}, net : EngNets, tm : BOOLEAN]
    /\ pc \in {"idle", "newgame", "start", "crashed", "quit"}
    /\ search # EngNone => IsSearch(search)
    /\ old # EngNone => IsSearch(old)
    /\ goes \in Nat /\ best \in Seq(Nat)

\* The controller exists and is usable.
EngUp == pc \in {"idle", "newgame", "start"}

\* The members agree: the configuration is the loaded network's, a tree was made with a
\* network, and without a position command the tree is at the initial position.
MembersAgree(c) ==
    /\ c.net = c.netConfig
    /\ c.tree # EngNone => c.net # EngNone
    /\ c.position = EngNone /\ c.tree # EngNone => c.tree = EngStartpos

\* A tree at a position was set up with a time manager, unless creating that failed.
Managed(c, failed) == c.tree \notin {EngNone, EngEmptyTree} => c.tm \/ failed

PointsTo(s, c) == s.root = c.tree /\ s.net = c.net /\ s.tb = c.tb /\ s.net # EngNone

Asked(s, c) == s.root = EngRequested(c.position, s.ponder)

EngSearches ==
    /\ search # EngNone => /\ EngUp /\ PointsTo(search, ctl) /\ Asked(search, ctl)
                           /\ search.go = goes
    /\ old # EngNone => /\ pc = "start" /\ PointsTo(old, ctl)
                        /\ old.go < goes
    /\ pc = "start" => IsSearch(search) /\ ~search.threads /\ ~search.answered
                       /\ search.go = goes /\ PointsTo(search, ctl) /\ Asked(search, ctl)

\* The answers so far: in order, and older than any search that may still answer.
Silent(s) == s # EngNone /\ ~s.answered
EngAnswers ==
    /\ \A i, j \in 1..Len(best) : i < j => best[i] < best[j]
    /\ \A i \in 1..Len(best) :
          /\ best[i] <= goes
          /\ Silent(search) => best[i] < search.go
          /\ Silent(old) => best[i] < old.go
          /\ pc = "start" => best[i] < goes

EngInv ==
    /\ EngTypes /\ EngSearches /\ EngAnswers
    /\ EngUp => MembersAgree(ctl) /\ Managed(ctl, tmFailed)
    /\ pc = "crashed" => tmFailed

-----------------------------------------------------------------------------
(* What the parts of the commands do to the members. *)

\* Applying the options touches the tablebases and the network, and replaces the
\* network only by one that has loaded.
LEMMA UpdateKeeps ==
    ASSUME NEW c, IsController(c), EngTypes
    PROVE  /\ IsController(UpdateFromUciOptions(c).c)
           /\ UpdateFromUciOptions(c).error \in BOOLEAN
           /\ UpdateFromUciOptions(c).c.position = c.position
           /\ UpdateFromUciOptions(c).c.tree = c.tree
           /\ UpdateFromUciOptions(c).c.tm = c.tm
           /\ UpdateFromUciOptions(c).c.go = c.go
           /\ c.net = c.netConfig =>
                 UpdateFromUciOptions(c).c.net = UpdateFromUciOptions(c).c.netConfig
           /\ c.net # EngNone => UpdateFromUciOptions(c).c.net # EngNone
           /\ c.net = c.netConfig /\ ~UpdateFromUciOptions(c).error =>
                 UpdateFromUciOptions(c).c.net # EngNone
<1> DEFINE d == EngLoadTb(c)
<1>1. /\ IsController(d) /\ d.position = c.position /\ d.tree = c.tree /\ d.tm = c.tm
      /\ d.go = c.go /\ d.net = c.net /\ d.netConfig = c.netConfig
  BY DEF EngLoadTb, IsController
<1>2. opt.net \in EngNets /\ opt.net # EngNone
  BY EngAssumption DEF EngTypes
<1> HIDE DEF d
<1>3. UpdateFromUciOptions(c) =
        IF opt.net = d.netConfig THEN EngOk(d)
        ELSE IF opt.net \in EngGoodNets
             THEN EngOk([d EXCEPT !.net = opt.net, !.netConfig = opt.net])
             ELSE EngThrow(d)
  BY DEF UpdateFromUciOptions, d
<1>4. CASE opt.net = d.netConfig
  BY <1>1, <1>2, <1>3, <1>4 DEF EngOk
<1>5. CASE opt.net # d.netConfig /\ opt.net \in EngGoodNets
  <2> DEFINE e == [d EXCEPT !.net = opt.net, !.netConfig = opt.net]
  <2>1. /\ IsController(e) /\ e.position = d.position /\ e.tree = d.tree /\ e.tm = d.tm
        /\ e.go = d.go /\ e.net = opt.net /\ e.netConfig = opt.net
    BY <1>1 DEF IsController
  <2>2. UpdateFromUciOptions(c) = EngOk(e)
    BY <1>3, <1>5
  <2> HIDE DEF e
  <2> QED BY <1>1, <1>2, <2>1, <2>2 DEF EngOk
<1>6. CASE opt.net # d.netConfig /\ opt.net \notin EngGoodNets
  BY <1>1, <1>2, <1>3, <1>6 DEF EngThrow
<1> QED BY <1>4, <1>5, <1>6

\* The time manager, when it is created, is there.
LEMMA CreatesManager ==
    ASSUME NEW c, IsController(c), EngTypes
    PROVE  /\ IsController(CreateFreshTimeManager(c).c)
           /\ CreateFreshTimeManager(c).error \in BOOLEAN
           /\ CreateFreshTimeManager(c).c.position = c.position
           /\ CreateFreshTimeManager(c).c.tree = c.tree
           /\ CreateFreshTimeManager(c).c.net = c.net
           /\ CreateFreshTimeManager(c).c.netConfig = c.netConfig
           /\ CreateFreshTimeManager(c).c.tb = c.tb
           /\ CreateFreshTimeManager(c).c.go = c.go
           /\ ~CreateFreshTimeManager(c).error => CreateFreshTimeManager(c).c.tm
BY DEF CreateFreshTimeManager, EngOk, EngThrow, IsController, EngTypes

\* SetupPosition leaves members that agree; without an error the tree is at the
\* position, there is a network, and a missing time manager has failed before; with one
\* of the options or of the FEN, the old tree, if any, is as it was.
SetUp(c, p, s) ==
    /\ IsController(s.c) /\ s.error \in BOOLEAN
    /\ s.c.position = c.position /\ s.c.go = c.go
    /\ MembersAgree(s.c)
    /\ ~s.error => s.c.tree = p /\ s.c.net # EngNone /\ (s.c.tm \/ tmFailed)
    /\ s.error /\ (UpdateFromUciOptions(c).error \/ EngBadFen(p)) => Managed(s.c, tmFailed)

LEMMA SetupMakes ==
    ASSUME NEW c, NEW p, IsController(c), EngTypes, MembersAgree(c),
           Managed(c, tmFailed), c.position = EngNone => p = EngStartpos
    PROVE  SetUp(c, p, SetupPosition(c, p))
<1> DEFINE u == UpdateFromUciOptions(c)
           d == [u.c EXCEPT !.tree = p]
           e == [u.c EXCEPT !.tree = IF @ = EngNone THEN EngEmptyTree ELSE @]
           m == CreateFreshTimeManager(d)
           s == SetupPosition(c, p)
<1>1. /\ IsController(u.c) /\ u.error \in BOOLEAN
      /\ u.c.position = c.position /\ u.c.tree = c.tree /\ u.c.tm = c.tm /\ u.c.go = c.go
      /\ u.c.net = u.c.netConfig
      /\ c.net # EngNone => u.c.net # EngNone
      /\ ~u.error => u.c.net # EngNone
  BY UpdateKeeps DEF MembersAgree
<1>2. s = IF u.error THEN u ELSE IF EngBadFen(p) THEN EngThrow(e)
          ELSE IF EngSameGame(u.c.tree, p) THEN EngOk(d) ELSE m
  BY DEF SetupPosition, EngResetTree
<1> HIDE DEF u, s
<1>3. /\ IsController(d) /\ d.tree = p /\ d.position = u.c.position /\ d.net = u.c.net
      /\ d.netConfig = u.c.netConfig /\ d.tm = u.c.tm /\ d.go = u.c.go
  BY <1>1 DEF IsController
<1>0. /\ IsController(e) /\ e.position = u.c.position /\ e.net = u.c.net
      /\ e.netConfig = u.c.netConfig /\ e.tm = u.c.tm /\ e.go = u.c.go
      /\ e.tree = IF u.c.tree = EngNone THEN EngEmptyTree ELSE u.c.tree
  BY <1>1 DEF IsController
<1> HIDE DEF d, e
<1>4. /\ IsController(m.c) /\ m.error \in BOOLEAN
      /\ m.c.position = d.position /\ m.c.tree = d.tree
      /\ m.c.net = d.net /\ m.c.netConfig = d.netConfig /\ m.c.go = d.go
      /\ ~m.error => m.c.tm
  BY <1>3, CreatesManager
<1> HIDE DEF m
<1>5. CASE u.error
  <2>1. s = u
    BY <1>2, <1>5
  <2> QED BY <1>1, <1>5, <2>1 DEF MembersAgree, Managed, SetUp, s, u
<1>8. CASE ~u.error /\ EngBadFen(p)
  <2>1. s = EngThrow(e)
    BY <1>2, <1>8
  <2>2. s.c = e /\ s.error = TRUE
    BY <2>1 DEF EngThrow
  <2>3. c.position # EngNone
    <3>1. ~EngBadFen(EngStartpos)
      BY EngAssumption DEF EngBadFen, EngStartpos
    <3> QED BY <1>8, <3>1
  <2>4. MembersAgree(s.c) /\ Managed(s.c, tmFailed)
    BY <1>0, <1>1, <1>8, <2>2, <2>3 DEF MembersAgree, Managed
  <2> QED BY <1>0, <1>1, <2>2, <2>4 DEF SetUp, s
<1>6. CASE ~u.error /\ ~EngBadFen(p) /\ EngSameGame(u.c.tree, p)
  <2>1. s = EngOk(d) /\ c.tree \notin {EngNone, EngEmptyTree}
    BY <1>1, <1>2, <1>6 DEF EngSameGame
  <2>2. s.c = d /\ s.error = FALSE
    BY <2>1 DEF EngOk
  <2> QED BY <1>1, <1>3, <1>6, <2>1, <2>2 DEF MembersAgree, Managed, SetUp, s, u
<1>7. CASE ~u.error /\ ~EngBadFen(p) /\ ~EngSameGame(u.c.tree, p)
  <2>1. s = m
    BY <1>2, <1>7
  <2> QED BY <1>1, <1>3, <1>4, <1>7, <2>1 DEF MembersAgree, SetUp, s, u
<1> QED BY <1>5, <1>6, <1>7, <1>8 DEF s

-----------------------------------------------------------------------------
(* Every step preserves the invariant. *)

LEMMA EngInitially == EngInit => EngInv
<1> SUFFICES ASSUME EngInit PROVE EngInv
  OBVIOUS
<1> USE DEF EngInit
<1>1. EngTypes
  <2>1. IsController(ctl)
    BY DEF IsController
  <2>2. opt \in [tb : EngTbPaths \cup {EngNone}, net : EngNets, tm : BOOLEAN]
    BY EngAssumption
  <2>3. /\ pc = "idle" /\ search = EngNone /\ old = EngNone /\ goes = 0 /\ best = << >>
    OBVIOUS
  <2> HIDE DEF EngInit
  <2> QED BY <2>1, <2>2, <2>3 DEF EngTypes
<1>2. EngSearches /\ EngAnswers
  BY DEF EngSearches, EngAnswers
<1>3. EngUp => MembersAgree(ctl) /\ Managed(ctl, tmFailed)
  BY DEF MembersAgree, Managed
<1> QED BY <1>1, <1>2, <1>3 DEF EngInv

\* What a go without a setup, and one with it, leaves of the controller.
GoResult(params, c) ==
    IF EngNeedsSetup(c) THEN SetupPosition(c, EngRequested(c.position, params = "ponder"))
    ELSE EngOk(c)

WentOn(params, c, r) ==
    /\ IsController(r.c) /\ r.error \in BOOLEAN
    /\ r.c.position = ctl.position /\ r.c.go = params
    /\ MembersAgree(r.c)
    /\ ~r.error => /\ r.c.tree = EngRequested(ctl.position, params = "ponder")
                   /\ r.c.net # EngNone
                   /\ r.c.tm \/ tmFailed
    /\ r.error => \/ Managed(r.c, tmFailed)
                  \/ /\ ~UpdateFromUciOptions(c).error
                     /\ ~EngBadFen(EngRequested(c.position, params = "ponder"))
    /\ ~EngNeedsSetup(c) => /\ ~r.error /\ r.c.tree = ctl.tree /\ r.c.net = ctl.net
                            /\ r.c.tb = ctl.tb

LEMMA GoMembers ==
    ASSUME EngInv, pc = "idle", NEW params, NEW c, c = [ctl EXCEPT !.go = params],
           NEW r, r = GoResult(params, c)
    PROVE  WentOn(params, c, r)
<1>1. IsController(ctl) /\ MembersAgree(ctl) /\ Managed(ctl, tmFailed) /\ EngTypes
  BY DEF EngInv, EngTypes, EngUp
<1>2. /\ IsController(c) /\ c.position = ctl.position /\ c.tree = ctl.tree /\ c.net = ctl.net
      /\ c.netConfig = ctl.netConfig /\ c.tb = ctl.tb /\ c.tm = ctl.tm /\ c.go = params
  BY <1>1 DEF IsController
<1>3. MembersAgree(c) /\ Managed(c, tmFailed)
  BY <1>1, <1>2 DEF MembersAgree, Managed
<1>4. CASE EngNeedsSetup(c)
  <2> PICK p : p = EngRequested(c.position, params = "ponder")
    OBVIOUS
  <2>1. r = SetupPosition(c, p)
    BY <1>4 DEF GoResult
  <2>2. c.position = EngNone => p = EngStartpos
    BY DEF EngRequested
  <2>3. SetUp(c, p, SetupPosition(c, p))
    BY <1>1, <1>2, <1>3, <2>2, SetupMakes
  <2>4. SetUp(c, p, r)
    BY <2>1, <2>3
  <2> QED BY <1>2, <1>4, <2>4 DEF SetUp, WentOn
<1>5. CASE ~EngNeedsSetup(c)
  <2>1. r.c = c /\ r.error = FALSE
    BY <1>5 DEF EngOk, GoResult
  <2>2. c.position = EngNone /\ c.tree # EngNone
    BY <1>5 DEF EngNeedsSetup
  <2>3. c.tree = EngStartpos /\ EngRequested(c.position, params = "ponder") = EngStartpos
        /\ c.net # EngNone
    BY <1>3, <2>2 DEF MembersAgree, EngRequested
  <2>4. EngStartpos # EngEmptyTree
    BY EngAssumption DEF EngStartpos, EngEmptyTree
  <2> QED BY <1>2, <1>3, <2>1, <2>2, <2>3, <2>4, <1>5 DEF WentOn, Managed
<1> QED BY <1>4, <1>5

LEMMA GoStep ==
    ASSUME EngInv, pc = "idle", NEW params, NEW goodMoves \in BOOLEAN, EngGo(params, goodMoves)
    PROVE  EngInv'
<1> PICK c : c = [ctl EXCEPT !.go = params]
  OBVIOUS
<1> DEFINE setup == EngNeedsSetup(c)
<1> PICK r : r = GoResult(params, c)
  OBVIOUS
<1>1. /\ IsController(r.c) /\ r.error \in BOOLEAN
      /\ r.c.position = ctl.position /\ r.c.go = params
      /\ MembersAgree(r.c)
      /\ ~r.error => /\ r.c.tree = EngRequested(ctl.position, params = "ponder")
                     /\ r.c.net # EngNone
                     /\ r.c.tm \/ tmFailed
      /\ r.error => \/ Managed(r.c, tmFailed)
                    \/ /\ ~UpdateFromUciOptions(c).error
                       /\ ~EngBadFen(EngRequested(c.position, params = "ponder"))
      /\ ~setup => ~r.error /\ r.c.tree = ctl.tree /\ r.c.net = ctl.net /\ r.c.tb = ctl.tb
  <2>1. WentOn(params, c, r)
    BY GoMembers
  <2> QED BY <2>1 DEF WentOn
<1>2. setup \in BOOLEAN /\ UpdateFromUciOptions(c).error \in BOOLEAN
  <2>1. IsController(c) /\ EngTypes
    BY DEF EngInv, EngTypes, IsController
  <2> QED BY <2>1, UpdateKeeps DEF EngNeedsSetup
<1>3. /\ ctl' = r.c
      /\ tmFailed' = (tmFailed \/ (/\ r.error /\ ~UpdateFromUciOptions(c).error
                                  /\ ~EngBadFen(EngRequested(c.position, params = "ponder"))))
      /\ \/ /\ r.error /\ search' = EngNone /\ UNCHANGED <<pc, old, goes>>
         \/ /\ ~r.error /\ ~r.c.tm /\ pc' = "crashed" /\ search' = EngNone
            /\ UNCHANGED <<old, goes>>
         \/ /\ ~r.error /\ r.c.tm /\ ~goodMoves
            /\ search' = EngResetSearch(setup)
            /\ UNCHANGED <<pc, old, goes>>
         \/ /\ ~r.error /\ r.c.tm /\ goodMoves
            /\ old' = EngResetSearch(setup)
            /\ search' = EngNewSearch(r.c)
            /\ pc' = "start" /\ goes' = goes + 1
      /\ UNCHANGED <<opt, best>>
  BY DEF EngGo, GoResult
<1>4. /\ EngTypes /\ old = EngNone
      /\ search # EngNone => PointsTo(search, ctl) /\ Asked(search, ctl) /\ search.go = goes
                             /\ IsSearch(search)
      /\ goes \in Nat /\ best \in Seq(Nat)
  BY DEF EngInv, EngTypes, EngSearches
<1>5. /\ IsController(ctl)' /\ best' = best /\ opt' = opt
      /\ opt' \in [tb : EngTbPaths \cup {EngNone}, net : EngNets, tm : BOOLEAN]
      /\ MembersAgree(ctl)' /\ Managed(ctl, tmFailed)'
  <2>1. Managed(ctl, tmFailed)'
    BY <1>1, <1>2, <1>3, <1>4 DEF Managed
  <2>2. ctl' = r.c  /\ best' = best /\ opt' = opt
        /\ opt' \in [tb : EngTbPaths \cup {EngNone}, net : EngNets, tm : BOOLEAN]
    BY <1>2, <1>3, <1>4 DEF EngTypes
  <2>3. IsController(ctl') /\ MembersAgree(ctl')
    BY <1>1, <2>2
  <2> QED BY <2>1, <2>2, <2>3 DEF IsController, MembersAgree
<1>6. CASE r.error /\ search' = EngNone /\ UNCHANGED <<pc, old, goes>>
  BY <1>4, <1>5, <1>6 DEF EngInv, EngTypes, EngSearches, EngAnswers, EngUp, Silent
<1>7. CASE /\ ~r.error /\ ~r.c.tm /\ pc' = "crashed" /\ search' = EngNone
           /\ UNCHANGED <<old, goes>>
  <2>1. tmFailed'
    BY <1>1, <1>3, <1>7
  <2> QED BY <1>4, <1>5, <1>7, <2>1 DEF EngInv, EngTypes, EngSearches, EngAnswers, EngUp, Silent
<1>8. CASE /\ ~r.error /\ r.c.tm /\ ~goodMoves /\ search' = EngResetSearch(setup)
           /\ UNCHANGED <<pc, old, goes>>
  <2>1. CASE setup
    <3>1. search' = EngNone
      BY <1>8, <2>1 DEF EngResetSearch
    <3> QED BY <1>4, <1>5, <1>8, <3>1 DEF EngInv, EngTypes, EngSearches, EngAnswers, EngUp, Silent
  <2>2. CASE ~setup
    <3>1. search' = search
      BY <1>8, <2>2 DEF EngResetSearch
    <3>2. search' # EngNone => PointsTo(search, ctl)' /\ Asked(search, ctl)' /\ (search.go = goes)'
      BY <1>1, <1>3, <1>4, <1>8, <2>2, <3>1 DEF PointsTo, Asked
    <3>3. EngTypes'
      BY <1>4, <1>5, <1>8, <3>1 DEF EngTypes, IsSearch
    <3>4. EngSearches'
      BY <1>4, <1>8, <3>2 DEF EngSearches, EngUp
    <3>5. EngAnswers'
      BY <1>5, <1>8, <3>1 DEF EngInv, EngAnswers, Silent
    <3> QED BY <1>5, <1>8, <3>3, <3>4, <3>5 DEF EngInv
  <2> QED BY <1>2, <2>1, <2>2
<1>9. CASE /\ ~r.error /\ r.c.tm /\ goodMoves
           /\ old' = EngResetSearch(setup)
           /\ search' = EngNewSearch(r.c)
           /\ pc' = "start" /\ goes' = goes + 1
  <2>1. /\ IsSearch(search)' /\ search'.threads = FALSE /\ search'.answered = FALSE
        /\ search'.go = goes'
        /\ search'.root = r.c.tree /\ search'.net = r.c.net /\ search'.tb = r.c.tb
        /\ search'.ponder = (params = "ponder")
    BY <1>1, <1>4, <1>9 DEF EngNewSearch, IsSearch
  <2>2. PointsTo(search, ctl)' /\ Asked(search, ctl)'
    BY <1>1, <1>3, <1>9, <2>1 DEF PointsTo, Asked
  <2>3. old' # EngNone => ~setup /\ old' = search
    BY <1>9 DEF EngResetSearch
  <2>4. old' # EngNone => IsSearch(old)' /\ PointsTo(old, ctl)' /\ (old.go < goes)'
    <3> SUFFICES ASSUME old' # EngNone PROVE IsSearch(old)' /\ PointsTo(old, ctl)' /\ (old.go < goes)'
      OBVIOUS
    <3>1. old' = search /\ IsSearch(search) /\ search.go = goes /\ PointsTo(search, ctl)
      BY <1>4, <2>3
    <3>2. IsSearch(old)'
      BY <3>1 DEF IsSearch
    <3>3. PointsTo(old, ctl)'
      BY <1>1, <1>3, <2>3, <3>1 DEF PointsTo
    <3> QED BY <1>4, <1>9, <3>1, <3>2, <3>3
  <2>5. EngTypes'
    BY <1>4, <1>5, <1>9, <2>1, <2>4 DEF EngTypes
  <2>6. EngSearches'
    BY <1>9, <2>1, <2>2, <2>4 DEF EngSearches, EngUp
  <2>7. EngAnswers'
    <3>1. Silent(old)' => Silent(search) /\ old' = search
      BY <2>3 DEF Silent
    <3> QED BY <1>4, <1>5, <1>9, <2>1, <3>1 DEF EngInv, EngAnswers, Silent
  <2> QED BY <1>5, <1>9, <2>5, <2>6, <2>7 DEF EngInv
<1> QED BY <1>3, <1>6, <1>7, <1>8, <1>9

\* A step that leaves the members, the searches, the answers and the place alone.
LEMMA KeepsAll ==
    ASSUME EngInv, UNCHANGED <<ctl, search, old, best, goes, tmFailed>>,
           pc' = pc \/ (pc = "idle" /\ pc' = "newgame"),
           opt' \in [tb : EngTbPaths \cup {EngNone}, net : EngNets, tm : BOOLEAN]
    PROVE  EngInv'
<1>1. EngTypes'
  BY DEF EngInv, EngTypes, IsController, IsSearch
<1>2. EngSearches'
  BY DEF EngInv, EngSearches, EngUp, PointsTo, Asked, IsSearch
<1>3. EngAnswers'
  BY DEF EngInv, EngAnswers, Silent
<1>4. (EngUp => MembersAgree(ctl) /\ Managed(ctl, tmFailed))'
  BY DEF EngInv, EngUp, MembersAgree, Managed
<1> QED BY <1>1, <1>2, <1>3, <1>4 DEF EngInv

LEMMA SetOptionStep ==
    ASSUME EngInv, NEW o, NEW v, CmdSetOption(o, v),
           \/ o = "tb" /\ v \in EngTbPaths \cup {EngNone}
           \/ o = "net" /\ v \in EngNets
           \/ o = "tm" /\ v \in BOOLEAN
    PROVE  EngInv'
<1>1. opt' \in [tb : EngTbPaths \cup {EngNone}, net : EngNets, tm : BOOLEAN]
  BY DEF EngInv, EngTypes, CmdSetOption
<1> QED BY <1>1, KeepsAll DEF CmdSetOption

\* A step after which there is no search.
LEMMA NoSearch ==
    ASSUME EngInv, search' = EngNone, old' = EngNone, UNCHANGED <<opt, best, goes>>,
           pc' \in {"idle", "quit"}, IsController(ctl'),
           pc' = "idle" => MembersAgree(ctl') /\ Managed(ctl', tmFailed')
    PROVE  EngInv'
<1>1. EngTypes'
  BY DEF EngInv, EngTypes, IsController
<1>2. EngSearches' /\ EngAnswers'
  BY DEF EngInv, EngSearches, EngAnswers, Silent
<1>3. (EngUp => MembersAgree(ctl) /\ Managed(ctl, tmFailed))'
  BY DEF EngUp, MembersAgree, Managed
<1> QED BY <1>1, <1>2, <1>3 DEF EngInv

LEMMA NewGameStep == ASSUME EngInv, NewGameReset PROVE EngInv'
<1> PICK c : c = [ctl EXCEPT !.tree = EngNone]
  OBVIOUS
<1> PICK t : t = CreateFreshTimeManager(c)
  OBVIOUS
<1> PICK d : d = [t.c EXCEPT !.position = EngNone]
  OBVIOUS
<1>1. /\ EngTypes /\ MembersAgree(ctl) /\ old = EngNone
  BY DEF EngInv, EngTypes, EngSearches, EngUp, NewGameReset
<1>2. IsController(c) /\ c.tree = EngNone /\ c.net = c.netConfig
  BY <1>1 DEF EngTypes, IsController, MembersAgree
<1>3. /\ IsController(t.c) /\ t.error \in BOOLEAN /\ t.c.tree = EngNone
      /\ t.c.net = t.c.netConfig
  BY <1>1, <1>2, CreatesManager
<1>4. IsController(d) /\ d.tree = EngNone /\ d.net = d.netConfig
  BY <1>3 DEF IsController
<1>5. /\ IsController(UpdateFromUciOptions(d).c)
      /\ UpdateFromUciOptions(d).c.tree = EngNone
      /\ UpdateFromUciOptions(d).c.net = UpdateFromUciOptions(d).c.netConfig
  BY <1>1, <1>4, UpdateKeeps
<1>6. /\ pc' = "idle" /\ search' = EngNone /\ UNCHANGED <<opt, old, best, goes>>
      /\ ctl' = IF t.error THEN t.c ELSE UpdateFromUciOptions(d).c
  BY DEF NewGameReset
<1>7. IsController(ctl') /\ ctl'.tree = EngNone /\ ctl'.net = ctl'.netConfig
  BY <1>3, <1>5, <1>6
<1>8. MembersAgree(ctl') /\ Managed(ctl', tmFailed')
  BY <1>7 DEF MembersAgree, Managed
<1> QED BY <1>1, <1>6, <1>7, <1>8, NoSearch

LEMMA SetPositionStep == ASSUME EngInv, NEW p \in EngPositions, SetPosition(p) PROVE EngInv'
<1>1. /\ IsController(ctl) /\ MembersAgree(ctl) /\ old = EngNone /\ pc = "idle"
      /\ Managed(ctl, tmFailed)
  BY DEF EngInv, EngTypes, EngSearches, EngUp, SetPosition, EngCommand
<1>2. p # EngNone
  BY EngAssumption
<1>3. /\ ctl' = [ctl EXCEPT !.position = p] /\ search' = EngNone
      /\ UNCHANGED <<opt, pc, old, best, goes, tmFailed>>
  BY DEF SetPosition
<1>4. /\ IsController(ctl') /\ ctl'.tree = ctl.tree /\ ctl'.net = ctl.net /\ ctl'.tm = ctl.tm
      /\ ctl'.netConfig = ctl.netConfig /\ ctl'.position = p
  BY <1>1, <1>3 DEF IsController
<1>5. MembersAgree(ctl') /\ Managed(ctl', tmFailed')
  BY <1>1, <1>2, <1>3, <1>4 DEF MembersAgree, Managed
<1> QED BY <1>1, <1>3, <1>4, <1>5, NoSearch

LEMMA QuitStep == ASSUME EngInv, EngQuit PROVE EngInv'
<1>1. IsController(ctl) /\ old = EngNone
  BY DEF EngInv, EngTypes, EngSearches, EngQuit, EngCommand
<1>2. /\ pc' = "quit" /\ search' = EngNone /\ UNCHANGED <<opt, old, best, goes>>
      /\ ctl' = [ctl EXCEPT !.tree = EngNone, !.net = EngNone, !.tb = EngNone, !.tm = FALSE]
  BY DEF EngQuit
<1>3. IsController(ctl')
  BY <1>1, <1>2 DEF IsController
<1> QED BY <1>1, <1>2, <1>3, NoSearch

LEMMA DestroyOldStep == ASSUME EngInv, EngDestroyOld PROVE EngInv'
<1> USE DEF EngDestroyOld
<1>1. EngTypes'
  BY DEF EngInv, EngTypes, IsController, IsSearch
<1>2. EngSearches'
  BY DEF EngInv, EngSearches, EngUp, PointsTo, Asked, IsSearch
<1>3. EngAnswers'
  BY DEF EngInv, EngAnswers, Silent
<1>4. (EngUp => MembersAgree(ctl) /\ Managed(ctl, tmFailed))'
  BY DEF EngInv, EngUp, MembersAgree, Managed
<1> QED BY <1>1, <1>2, <1>3, <1>4 DEF EngInv

\* A step that changes the flags of the search only: it stops, or starts.
LEMMA MarkStep ==
    ASSUME EngInv, (EngCommand /\ CmdStop) \/ EngStartThreads PROVE EngInv'
<1>1. /\ IsSearch(search) /\ EngUp /\ PointsTo(search, ctl) /\ Asked(search, ctl)
      /\ search.go = goes /\ goes \in Nat /\ best \in Seq(Nat)
      /\ pc' = "idle" /\ old = EngNone
      /\ UNCHANGED <<ctl, opt, old, best, goes, tmFailed>>
      /\ \/ search' = [search EXCEPT !.threads = TRUE] /\ pc = "start"
         \/ search' = [search EXCEPT !.stopped = TRUE] /\ pc = "idle" /\ search # EngNone
  <2>1. CASE EngCommand /\ CmdStop
    BY <2>1 DEF EngInv, EngTypes, EngSearches, EngUp, CmdStop, EngCommand
  <2>2. CASE EngStartThreads
    BY <2>2 DEF EngInv, EngTypes, EngSearches, EngUp, EngStartThreads, EngOldDestroyed
  <2> QED BY <2>1, <2>2
<1>2. /\ IsSearch(search') /\ search'.root = search.root /\ search'.net = search.net
      /\ search'.tb = search.tb /\ search'.ponder = search.ponder /\ search'.go = search.go
      /\ search'.answered = search.answered
  BY <1>1 DEF IsSearch
<1>3. PointsTo(search', ctl) /\ Asked(search', ctl)
  BY <1>1, <1>2 DEF PointsTo, Asked
<1>4. EngTypes'
  BY <1>1, <1>2 DEF EngInv, EngTypes, IsController, IsSearch
<1>5. EngSearches'
  BY <1>1, <1>2, <1>3 DEF EngSearches, EngUp, PointsTo, Asked
<1>6. EngAnswers'
  <2>1. Silent(search)' => Silent(search) \/ pc = "start"
    BY <1>1, <1>2 DEF Silent
  <2> QED BY <1>1, <1>2, <2>1 DEF EngInv, EngAnswers, Silent
<1>7. (EngUp => MembersAgree(ctl) /\ Managed(ctl, tmFailed))'
  BY <1>1 DEF EngInv, EngUp, MembersAgree, Managed
<1> QED BY <1>1, <1>4, <1>5, <1>6, <1>7 DEF EngInv

\* What Append does to the answers.
LEMMA AppendedAnswer ==
    ASSUME NEW s \in Seq(Nat), NEW g \in Nat,
           \A i, j \in 1..Len(s) : i < j => s[i] < s[j],
           \A i \in 1..Len(s) : s[i] < g
    PROVE  /\ Append(s, g) \in Seq(Nat)
           /\ \A i, j \in 1..Len(Append(s, g)) : i < j => Append(s, g)[i] < Append(s, g)[j]
           /\ \A i \in 1..Len(Append(s, g)) :
                 Append(s, g)[i] = g \/ (i \in 1..Len(s) /\ Append(s, g)[i] = s[i])
<1> DEFINE a == Append(s, g)
<1>1. /\ a \in Seq(Nat) /\ Len(a) = Len(s) + 1 /\ Len(s) \in Nat /\ a[Len(s) + 1] = g
      /\ \A i \in 1..Len(s) : a[i] = s[i]
  OBVIOUS
<1> HIDE DEF a
<1>2. \A i \in 1..Len(a) : (a[i] = g /\ i = Len(s) + 1) \/ (i \in 1..Len(s) /\ a[i] = s[i])
  BY <1>1
<1>3. ASSUME NEW i \in 1..Len(a), NEW j \in 1..Len(a), i < j PROVE a[i] < a[j]
  <2>1. i \in 1..Len(s) /\ a[i] = s[i]
    BY <1>1, <1>3
  <2>2. CASE j = Len(s) + 1
    BY <1>1, <2>1, <2>2
  <2>3. CASE j \in 1..Len(s)
    <3>1. a[j] = s[j] /\ s[i] < s[j]
      BY <1>1, <1>3, <2>1, <2>3
    <3> QED BY <2>1, <3>1
  <2> QED BY <1>1, <2>2, <2>3
<1> QED BY <1>1, <1>2, <1>3 DEF a

LEMMA AnswersStep == ASSUME EngInv, EngSearchAnswers PROVE EngInv'
<1>1. EngTypes /\ UNCHANGED <<ctl, opt, pc, goes, tmFailed>>
  BY DEF EngInv, EngSearchAnswers
<1>2. (EngUp => MembersAgree(ctl) /\ Managed(ctl, tmFailed))'
  BY <1>1 DEF EngInv, EngUp, MembersAgree, Managed
<1>3. CASE /\ EngMayAnswer(search) /\ best' = Append(best, search.go)
           /\ search' = [search EXCEPT !.answered = TRUE] /\ UNCHANGED old
  <2>1. /\ EngAlive(search) /\ Silent(search) /\ search # EngNone /\ IsSearch(search) /\ EngUp
        /\ PointsTo(search, ctl) /\ Asked(search, ctl) /\ search.go = goes
    BY <1>1, <1>3 DEF EngInv, EngTypes, EngSearches, EngMayAnswer, EngAlive, Silent
  <2>2. pc # "start" /\ old = EngNone
    BY <2>1 DEF EngInv, EngSearches, EngAlive
  <2>3. /\ IsSearch(search') /\ search'.root = search.root /\ search'.net = search.net
        /\ search'.tb = search.tb /\ search'.ponder = search.ponder /\ search'.go = search.go
        /\ search'.answered = TRUE
    BY <1>3, <2>1 DEF IsSearch
  <2>4. PointsTo(search', ctl) /\ Asked(search', ctl)
    BY <2>1, <2>3 DEF PointsTo, Asked
  <2>5. /\ \A i \in 1..Len(best) : best[i] < search.go
        /\ \A i, j \in 1..Len(best) : i < j => best[i] < best[j]
        /\ best \in Seq(Nat) /\ goes \in Nat /\ search.go \in Nat
    BY <1>1, <2>1 DEF EngInv, EngAnswers, EngTypes
  <2>6. /\ best' \in Seq(Nat)
        /\ \A i, j \in 1..Len(best') : i < j => best'[i] < best'[j]
        /\ \A i \in 1..Len(best') : best'[i] = search.go \/ (i \in 1..Len(best) /\ best'[i] = best[i])
    BY <1>3, <2>5, AppendedAnswer
  <2>7. EngTypes'
    BY <1>1, <1>3, <2>2, <2>3, <2>6 DEF EngTypes, IsController, IsSearch
  <2>8. EngSearches'
    BY <1>1, <1>3, <2>1, <2>2, <2>3, <2>4 DEF EngSearches, EngUp, PointsTo, Asked
  <2>9. EngAnswers'
    <3>1. ~Silent(search)' /\ ~Silent(old)' /\ pc' # "start"
      BY <1>1, <1>3, <2>2, <2>3 DEF Silent
    <3>2. ASSUME NEW i \in 1..Len(best') PROVE best'[i] <= goes
      <4>1. CASE best'[i] = search.go
        BY <2>1, <2>5, <4>1
      <4>2. CASE i \in 1..Len(best) /\ best'[i] = best[i]
        <5>1. best[i] \in Nat /\ best[i] < goes
          BY <2>1, <2>5, <4>2
        <5> QED BY <2>5, <4>2, <5>1
      <4> QED BY <2>6, <4>1, <4>2
    <3> QED BY <1>1, <2>6, <3>1, <3>2 DEF EngAnswers
  <2> QED BY <1>1, <1>2, <2>7, <2>8, <2>9 DEF EngInv
<1>4. CASE /\ EngMayAnswer(old) /\ best' = Append(best, old.go)
           /\ old' = [old EXCEPT !.answered = TRUE] /\ UNCHANGED search
  <2>1. /\ EngAlive(old) /\ Silent(old) /\ old # EngNone /\ IsSearch(old) /\ pc = "start"
        /\ PointsTo(old, ctl) /\ old.go < goes
    BY <1>1, <1>4 DEF EngInv, EngTypes, EngSearches, EngMayAnswer, EngAlive, Silent
  <2>2. /\ IsSearch(search) /\ ~search.threads /\ search.go = goes
    BY <2>1 DEF EngInv, EngSearches
  <2>3. /\ IsSearch(old') /\ old'.root = old.root /\ old'.net = old.net
        /\ old'.tb = old.tb /\ old'.go = old.go /\ old'.answered = TRUE
    BY <1>4, <2>1 DEF IsSearch
  <2>4. PointsTo(old', ctl)
    BY <2>1, <2>3 DEF PointsTo
  <2>5. /\ \A i \in 1..Len(best) : best[i] < old.go
        /\ \A i, j \in 1..Len(best) : i < j => best[i] < best[j]
        /\ best \in Seq(Nat) /\ goes \in Nat /\ old.go \in Nat
    BY <1>1, <2>1 DEF EngInv, EngAnswers, EngTypes, IsSearch
  <2>6. /\ best' \in Seq(Nat)
        /\ \A i, j \in 1..Len(best') : i < j => best'[i] < best'[j]
        /\ \A i \in 1..Len(best') : best'[i] = old.go \/ (i \in 1..Len(best) /\ best'[i] = best[i])
    BY <1>4, <2>5, AppendedAnswer
  <2>7. EngTypes'
    BY <1>1, <1>4, <2>3, <2>6 DEF EngTypes, IsController, IsSearch
  <2>8. EngSearches'
    BY <1>1, <1>4, <2>1, <2>3, <2>4 DEF EngInv, EngSearches, EngUp, PointsTo, Asked, IsSearch
  <2>9. EngAnswers'
    <3>1. ~Silent(old)' /\ search'.go = goes
      BY <1>1, <1>4, <2>2, <2>3 DEF Silent
    <3>2. ASSUME NEW i \in 1..Len(best') PROVE best'[i] < goes /\ best'[i] <= goes
      <4>1. CASE best'[i] = old.go
        BY <2>1, <2>5, <4>1
      <4>2. CASE i \in 1..Len(best) /\ best'[i] = best[i]
        <5>1. best[i] \in Nat /\ best[i] < old.go
          BY <2>5, <4>2
        <5> QED BY <2>1, <2>5, <4>2, <5>1
      <4> QED BY <2>6, <4>1, <4>2
    <3> QED BY <1>1, <2>6, <3>1, <3>2 DEF EngAnswers
  <2> QED BY <1>1, <1>2, <2>1, <2>7, <2>8, <2>9 DEF EngInv
<1> QED BY <1>3, <1>4 DEF EngSearchAnswers

\* The threads leave after the answer.
LEMMA LeaveStep == ASSUME EngInv, EngThreadsLeave PROVE EngInv'
<1>1. EngTypes /\ UNCHANGED <<ctl, opt, pc, best, goes, tmFailed>>
  BY DEF EngInv, EngThreadsLeave
<1>2. (EngUp => MembersAgree(ctl) /\ Managed(ctl, tmFailed))'
  BY <1>1 DEF EngInv, EngUp, MembersAgree, Managed
<1>3. CASE /\ EngAlive(search) /\ search.answered
           /\ search' = [search EXCEPT !.threads = FALSE] /\ UNCHANGED old
  <2>1. /\ search # EngNone /\ IsSearch(search) /\ EngUp /\ pc # "start" /\ old = EngNone
        /\ PointsTo(search, ctl) /\ Asked(search, ctl) /\ search.go = goes
    BY <1>1, <1>3 DEF EngInv, EngTypes, EngSearches, EngAlive
  <2>2. /\ IsSearch(search') /\ search'.root = search.root /\ search'.net = search.net
        /\ search'.tb = search.tb /\ search'.ponder = search.ponder /\ search'.go = search.go
        /\ search'.answered
    BY <1>3, <2>1 DEF IsSearch
  <2>3. EngTypes'
    BY <1>1, <1>3, <2>1, <2>2 DEF EngTypes, IsController, IsSearch
  <2>4. EngSearches'
    BY <1>1, <1>3, <2>1, <2>2 DEF EngSearches, EngUp, PointsTo, Asked
  <2>5. EngAnswers'
    BY <1>1, <1>3, <2>1, <2>2 DEF EngInv, EngAnswers, Silent
  <2> QED BY <1>1, <1>2, <2>3, <2>4, <2>5 DEF EngInv
<1>4. CASE /\ EngAlive(old) /\ old.answered
           /\ old' = [old EXCEPT !.threads = FALSE] /\ UNCHANGED search
  <2>1. /\ old # EngNone /\ IsSearch(old) /\ pc = "start" /\ PointsTo(old, ctl) /\ old.go < goes
    BY <1>1, <1>4 DEF EngInv, EngTypes, EngSearches, EngAlive
  <2>2. /\ IsSearch(old') /\ old'.root = old.root /\ old'.net = old.net
        /\ old'.tb = old.tb /\ old'.go = old.go /\ old'.answered
    BY <1>4, <2>1 DEF IsSearch
  <2>3. EngTypes'
    BY <1>1, <1>4, <2>2 DEF EngTypes, IsController, IsSearch
  <2>4. EngSearches'
    BY <1>1, <1>4, <2>1, <2>2 DEF EngInv, EngSearches, EngUp, PointsTo, Asked, IsSearch
  <2>5. EngAnswers'
    BY <1>1, <1>4, <2>2 DEF EngInv, EngAnswers, Silent
  <2> QED BY <1>1, <1>2, <2>1, <2>3, <2>4, <2>5 DEF EngInv
<1> QED BY <1>3, <1>4 DEF EngThreadsLeave

LEMMA EngStep == EngInv /\ [EngNext]_engVars => EngInv'
<1> SUFFICES ASSUME EngInv, [EngNext]_engVars PROVE EngInv'
  OBVIOUS
<1>0. opt \in [tb : EngTbPaths \cup {EngNone}, net : EngNets, tm : BOOLEAN]
  BY DEF EngInv, EngTypes
<1>1. ASSUME NEW v \in EngTbPaths \cup {EngNone}, CmdSetOption("tb", v) PROVE EngInv'
  BY <1>1, SetOptionStep
<1>2. ASSUME NEW v \in EngNets, CmdSetOption("net", v) PROVE EngInv'
  BY <1>2, SetOptionStep
<1>3. ASSUME NEW v \in BOOLEAN, CmdSetOption("tm", v) PROVE EngInv'
  BY <1>3, SetOptionStep
<1>4. CASE NewGameClearCache
  BY <1>0, <1>4, KeepsAll DEF NewGameClearCache, EngCommand
<1>5. CASE NewGameReset
  BY <1>5, NewGameStep
<1>6. ASSUME NEW p \in EngPositions, SetPosition(p) PROVE EngInv'
  BY <1>6, SetPositionStep
<1>7. CASE CmdGo
  BY <1>7, GoStep DEF CmdGo, EngCommand
<1>8. CASE PonderHit
  BY <1>8, GoStep DEF PonderHit, EngCommand
<1>9. CASE EngDestroyOld
  BY <1>9, DestroyOldStep
<1>10. CASE EngStartThreads \/ CmdStop
  BY <1>10, MarkStep DEF CmdStop
<1>11. CASE EngQuit
  BY <1>11, QuitStep
<1>12. CASE EngThreadsLeave
  BY <1>12, LeaveStep
<1>13. CASE EngSearchAnswers
  BY <1>13, AnswersStep
<1>14. CASE UNCHANGED engVars
  BY <1>0, <1>14, KeepsAll DEF engVars
<1> QED BY <1>1, <1>2, <1>3, <1>4, <1>5, <1>6, <1>7, <1>8, <1>9, <1>10, <1>11, <1>12,
           <1>13, <1>14 DEF EngNext

-----------------------------------------------------------------------------
(* The theorems. *)

LEMMA EngInvariant == EngSpec => []EngInv
BY EngInitially, EngStep, PTL DEF EngSpec

\* Whatever a running search points to (the node it started from, the network, the
\* tablebases) is what the controller still owns, also while Go replaces one search
\* by the next: no sequence of UCI commands, failing ones included, frees it early.
THEOREM ResourcesOutlive == EngSpec => []EngResourcesOutliveSearch
<1>1. EngInv => EngResourcesOutliveSearch
  BY DEF EngInv, EngSearches, PointsTo, EngResourcesOutliveSearch, EngAlive
<1> QED BY <1>1, EngInvariant, PTL

\* A running search is about the position of the last position command, bestmoves
\* come in the order of the go commands with at most one for each, and Go meets a null
\* time_manager_ only after the creation of one has thrown.
THEOREM CommandsHonoured == EngSpec => []EngCommandsHonoured
<1>1. EngInv => EngCommandsHonoured
  <2> SUFFICES ASSUME EngInv PROVE EngCommandsHonoured
    OBVIOUS
  <2>1. EngAlive(search) => search.root = EngRequested(ctl.position, search.ponder)
    BY DEF EngInv, EngSearches, Asked, EngAlive
  <2>2. \A i \in 1..(Len(best) - 1) : best[i] < best[i + 1]
    <3>1. Len(best) \in Nat
      BY DEF EngInv, EngTypes
    <3> QED BY <3>1 DEF EngInv, EngAnswers
  <2>3. pc = "idle" => old = EngNone /\ (EngAlive(search) => search.go = goes)
    BY DEF EngInv, EngSearches, EngAlive
  <2> QED BY <2>1, <2>2, <2>3 DEF EngInv, EngCommandsHonoured
<1> QED BY <1>1, EngInvariant, PTL

-----------------------------------------------------------------------------
(* The self-play tournament: the inductive invariant. *)

\* Records with the members of a worker's game.
IsGame(g) ==
    g \in [pc : {g.pc}, game : {g.game}, colour : {g.colour}, opening : {g.opening}, ply : {g.ply},
           registered : {g.registered}, abort : {g.abort}, result : {g.result}]

\* A worker has a number, and its game is not counted; it has the colours too.
Playing(g) == g.pc \in {"choose", "register", "loop", "create", "search", "over"}
Chosen(g) == g.pc \in {"register", "loop", "create", "search", "over"}

Aborted(g) == g.abort

Decided == {"white", "draw", "black"}

SpTypes ==
    /\ spW = [w \in SpWorkers |-> spW[w]]
    /\ \A w \in SpWorkers : IsGame(spW[w])
    /\ \A w \in SpWorkers : spW[w].result \in Decided \cup {"undecided"}
    /\ spCount \in Nat /\ spTotal \in Int /\ spFirstBlack \in BOOLEAN
    /\ spPile \in Seq({SpDiscarded})
    /\ spFinals \in Nat
    /\ IsFiniteSet(spPlayed)
    /\ spResults \in [0..2 -> [0..1 -> Nat]]

\* Colours and opening are those of the number, or the opening is from the pile.
Assigned(number, colour, opening) ==
    colour = SpPlayer1Colour(number) /\ opening \in {SpDiscarded} \cup SpBookOpening(number)

WellAssigned(w) == Assigned(spW[w].game, spW[w].colour, spW[w].opening)

\* Numbers are taken once and counted once.
Numbered ==
    /\ \A w \in SpWorkers : Playing(spW[w]) =>
          /\ spW[w].game \in 0..(spCount - 1)
          /\ \A p \in spPlayed : p.game # spW[w].game
          /\ \A u \in SpWorkers \ {w} : Playing(spW[u]) => spW[u].game # spW[w].game
    /\ \A w \in SpWorkers : Chosen(spW[w]) => WellAssigned(w)
    /\ \A p \in spPlayed : /\ p.game \in 0..(spCount - 1) /\ p.result \in Decided
                           /\ Assigned(p.game, p.colour, p.opening)
    /\ \A p, q \in spPlayed : p.game = q.game => p = q

\* Until Stop or Abort no game is given up, and no number gets lost.
Undisturbed ==
    ~spAbort =>
        /\ \A w \in SpWorkers : ~Aborted(spW[w]) /\ (spW[w].pc = "over" => spW[w].result \in Decided)
        /\ \A i \in 0..(spCount - 1) : \/ \E p \in spPlayed : p.game = i
                                       \/ \E w \in SpWorkers : Playing(spW[w]) /\ spW[w].game = i

\* The two threads that wait for the workers.
Waiting ==
    /\ \A w \in SpWorkers : spW[w].pc = "exited" => spAbort \/ SpLimitReached
    /\ spRunner \in {"none", "start", "wait", "done"}
    /\ spRunner \in {"none", "start"} => \A w \in SpWorkers : spW[w].pc = "off"
    /\ spRunner \in {"wait", "done"} => \E w \in SpWorkers : spW[w].pc # "off"
    /\ spRunner = "wait" => spInline \/ spAbort \/ spThreads = SpWorkers
    /\ spLoop = "wait" => spAbort
    /\ spRunner # "done" => spFinals = 0 /\ ~spFinished
    /\ spFinals <= 1
    /\ spFinished => /\ SpLimitReached /\ Cardinality(spPlayed) = spCount
                     /\ \A w \in SpWorkers : spW[w].pc \in {"off", "exited"}

Counted == \A r \in 0..2, c \in 0..1 : spResults[r][c] = Cardinality(SpScored(r, c))

SpInv == SpTypes /\ Numbered /\ Undisturbed /\ Waiting /\ Counted


\* A step of one worker changes its record only.
LEMMA OneMoves ==
    ASSUME SpTypes, NEW w \in SpWorkers, NEW g, IsGame(g), g.result \in Decided \cup {"undecided"},
           spW' = [spW EXCEPT ![w] = g]
    PROVE  /\ spW' = [u \in SpWorkers |-> spW'[u]]
           /\ spW'[w] = g
           /\ \A u \in SpWorkers \ {w} : spW'[u] = spW[u]
           /\ \A u \in SpWorkers : IsGame(spW'[u]) /\ spW'[u].result \in Decided \cup {"undecided"}
<1>1. DOMAIN spW = SpWorkers
  BY DEF SpTypes
<1>2. /\ spW' = [u \in SpWorkers |-> spW'[u]] /\ spW'[w] = g
      /\ \A u \in SpWorkers \ {w} : spW'[u] = spW[u]
  BY <1>1
<1>3. \A u \in SpWorkers : IsGame(spW[u]) /\ spW[u].result \in Decided \cup {"undecided"}
  BY DEF SpTypes
<1>4. ASSUME NEW u \in SpWorkers PROVE IsGame(spW'[u]) /\ spW'[u].result \in Decided \cup {"undecided"}
  <2>1. CASE u = w
    BY <1>2, <2>1
  <2>2. CASE u # w
    BY <1>2, <1>3, <2>2
  <2> QED BY <2>1, <2>2
<1> QED BY <1>2, <1>4

\* What the numbers stand for does not change.
LEMMA AssignedStays ==
    ASSUME UNCHANGED spConf, NEW number, NEW colour, NEW opening
    PROVE  Assigned(number, colour, opening)' <=> Assigned(number, colour, opening)
  BY DEF spConf, Assigned, SpPlayer1Colour, SpBookOpening

\* Once the last number has been given out there is no further one.
LEMMA LimitStays ==
    ASSUME UNCHANGED spConf, SpTypes, spCount' \in Nat, spCount <= spCount', SpLimitReached
    PROVE  SpLimitReached'
<1>1. UNCHANGED <<spTotal, spMode>> /\ spCount \in Nat /\ spTotal \in Int
  BY DEF spConf, SpTypes
<1>2. CASE spTotal >= 0 /\ spCount >= spTotal
  BY <1>1, <1>2 DEF SpLimitReached
<1>3. CASE spTotal = -2 /\ spCount >= Len(SpOpenings) * (IF spMode = "mirrored" THEN 2 ELSE 1)
  <2>1. PICK k : k = Len(SpOpenings) * (IF spMode = "mirrored" THEN 2 ELSE 1)
    OBVIOUS
  <2>2. k \in Int
    BY <2>1, SpAssumption
  <2>3. spCount' >= k
    BY <1>1, <1>3, <2>1, <2>2
  <2> QED BY <1>1, <1>3, <2>1, <2>3 DEF SpLimitReached
<1> QED BY <1>2, <1>3 DEF SpLimitReached

\* A worker goes on with its game, and the rest stays.
LEMMA GameGoesOn ==
    ASSUME SpInv, NEW w \in SpWorkers, NEW g, IsGame(g), spW' = [spW EXCEPT ![w] = g],
           Playing(spW[w]), Chosen(g), g.game = spW[w].game,
           Assigned(g.game, g.colour, g.opening),
           Aborted(g) <=> Aborted(spW[w]),
           g.result \in Decided \cup {"undecided"},
           ~spAbort /\ g.pc = "over" => g.result \in Decided,
           spPile' \in Seq({SpDiscarded}),
           UNCHANGED <<spConf, spLoop, spRunner, spThreads, spAbort, spCount, spResults,
                       spFinished, spFinals, spPlayed>>
    PROVE  SpInv'
<1>1. SpTypes
  BY DEF SpInv
<1>2. /\ spW' = [u \in SpWorkers |-> spW'[u]] /\ spW'[w] = g
      /\ \A u \in SpWorkers \ {w} : spW'[u] = spW[u]
      /\ \A u \in SpWorkers : IsGame(spW'[u]) /\ spW'[u].result \in Decided \cup {"undecided"}
  BY <1>1, OneMoves
<1>3. Playing(g)
  BY DEF Playing, Chosen
<1>4. SpTypes'
  BY <1>1, <1>2 DEF SpTypes, spConf
<1>5. \A u \in SpWorkers : /\ spW'[u].game = spW[u].game \/ u # w
                           /\ Playing(spW'[u]) <=> Playing(spW[u])
                           /\ spW'[u].game = spW[u].game
                           /\ Aborted(spW'[u]) <=> Aborted(spW[u])
  BY <1>2, <1>3
<1>6. Numbered'
  <2>1. ASSUME NEW u \in SpWorkers, Playing(spW[u])'
        PROVE  /\ spW'[u].game \in 0..(spCount' - 1)
               /\ \A p \in spPlayed' : p.game # spW'[u].game
               /\ \A v \in SpWorkers \ {u} : Playing(spW[v])' => spW'[v].game # spW'[u].game
    <3>1. Playing(spW[u]) /\ \A v \in SpWorkers : Playing(spW[v])' <=> Playing(spW[v])
      BY <1>5, <2>1 DEF Playing
    <3> QED BY <1>5, <3>1 DEF SpInv, Numbered
  <2>2. ASSUME NEW u \in SpWorkers, Chosen(spW[u])' PROVE WellAssigned(u)'
    <3>1. CASE u = w
      <4>1. Assigned(g.game, g.colour, g.opening)'
        BY AssignedStays
      <4> QED BY <1>2, <3>1, <4>1 DEF WellAssigned, Assigned, SpPlayer1Colour, SpBookOpening
    <3>2. CASE u # w
      <4>1. Chosen(spW[u]) /\ WellAssigned(u)
        BY <1>2, <2>2, <3>2 DEF SpInv, Numbered, Chosen
      <4> QED BY <1>2, <3>2, <4>1 DEF WellAssigned, Assigned, SpPlayer1Colour, SpBookOpening, spConf
    <3> QED BY <3>1, <3>2
  <2>3. ASSUME NEW p \in spPlayed'
        PROVE  /\ p.game \in 0..(spCount' - 1) /\ p.result \in Decided
               /\ Assigned(p.game, p.colour, p.opening)'
    BY AssignedStays DEF SpInv, Numbered
  <2>4. \A p, q \in spPlayed' : p.game = q.game => p = q
    BY DEF SpInv, Numbered
  <2> QED BY <2>1, <2>2, <2>3, <2>4 DEF Numbered
<1>7. Undisturbed'
  <2> SUFFICES ASSUME ~spAbort' PROVE Undisturbed'
    BY DEF Undisturbed
  <2>0. ~spAbort
    OBVIOUS
  <2>1. ASSUME NEW u \in SpWorkers
        PROVE  ~Aborted(spW'[u]) /\ (spW'[u].pc = "over" => spW'[u].result \in Decided)
    <3>1. ~Aborted(spW[u])
      BY <2>0 DEF SpInv, Undisturbed
    <3>2. CASE u = w
      BY <1>2, <1>5, <2>0, <3>1, <3>2
    <3>3. CASE u # w
      BY <1>2, <2>0, <3>3 DEF SpInv, Undisturbed
    <3> QED BY <3>2, <3>3
  <2>2. ASSUME NEW i \in 0..(spCount' - 1)
        PROVE  \/ \E p \in spPlayed' : p.game = i
               \/ \E u \in SpWorkers : Playing(spW'[u]) /\ spW'[u].game = i
    BY <1>5, <2>0 DEF SpInv, Undisturbed
  <2> QED BY <2>1, <2>2 DEF Undisturbed, Aborted, Playing
<1>8. Waiting'
  <2>1. ~spFinished
    <3>1. spW[w].pc \notin {"off", "exited"}
      BY DEF Playing
    <3> QED BY <3>1 DEF SpInv, Waiting
  <2>2. SpLimitReached' <=> SpLimitReached
    BY DEF SpLimitReached, spConf
  <2>3. g.pc \notin {"off", "exited"} /\ spW[w].pc \notin {"off", "exited"}
    BY DEF Chosen, Playing
  <2>4. \A u \in SpWorkers : spW'[u].pc = "exited" => spAbort' \/ SpLimitReached'
    BY <1>2, <2>2, <2>3 DEF SpInv, Waiting
  <2>5. spRunner \notin {"none", "start"} /\ \E u \in SpWorkers : spW'[u].pc # "off"
    BY <1>2, <2>3 DEF SpInv, Waiting
  <2> QED BY <2>1, <2>4, <2>5 DEF SpInv, Waiting, spConf
<1>9. Counted'
  BY DEF SpInv, Counted, SpScored
<1> QED BY <1>4, <1>6, <1>7, <1>8, <1>9 DEF SpInv

\* PlayOneGame: from choosing the colours to the result.
LEMMA PlayKeeps ==
    ASSUME SpInv, NEW w \in SpWorkers,
           SpChoose(w) \/ SpRegister(w) \/ SpLoopHead(w) \/ SpCreateSearch(w) \/ SpSearched(w)
    PROVE  SpInv'
<1>1. PICK h : h = spW[w]
  OBVIOUS
<1>2. IsGame(h) /\ h.result \in Decided \cup {"undecided"} /\ DOMAIN spW = SpWorkers
  BY <1>1 DEF SpInv, SpTypes
<1>3. spPile \in Seq({SpDiscarded})
  BY DEF SpInv, SpTypes
<1>4. ~spAbort => ~Aborted(h)
  BY <1>1 DEF SpInv, Undisturbed
<1>5. ASSUME NEW g, IsGame(g), spW' = [spW EXCEPT ![w] = g], Chosen(h), Chosen(g),
             g.game = h.game, g.colour = h.colour, g.opening = h.opening, g.abort = h.abort,
             g.result \in Decided \cup {"undecided"},
             ~spAbort /\ g.pc = "over" => g.result \in Decided,
             spPile' \in Seq({SpDiscarded}),
             UNCHANGED <<spConf, spLoop, spRunner, spThreads, spAbort, spCount, spResults,
                         spFinished, spFinals, spPlayed>>
      PROVE  SpInv'
  <2>1. Playing(spW[w]) /\ g.game = spW[w].game
    BY <1>1, <1>5 DEF Playing, Chosen
  <2>2. WellAssigned(w)
    BY <1>1, <1>5 DEF SpInv, Numbered
  <2>3. Assigned(g.game, g.colour, g.opening)
    BY <1>1, <1>5, <2>2 DEF WellAssigned
  <2>4. Aborted(g) <=> Aborted(spW[w])
    BY <1>1, <1>5 DEF Aborted
  <2> QED BY <1>5, <2>1, <2>3, <2>4, GameGoesOn
<1>6. CASE SpChoose(w)
  <2>1. PICK fromPile \in {FALSE} \cup {b \in {TRUE} : spPile # <<>>} :
            /\ spPile' = IF fromPile THEN Front(spPile) ELSE spPile
            /\ \E o \in IF fromPile THEN {Last(spPile)} ELSE SpBookOpening(spW[w].game) :
                  spW' = [spW EXCEPT ![w].pc = "register", ![w].opening = o,
                                     ![w].colour = SpPlayer1Colour(spW[w].game)]
    BY <1>6 DEF SpChoose
  <2>2. PICK o \in IF fromPile THEN {Last(spPile)} ELSE SpBookOpening(spW[w].game) :
             spW' = [spW EXCEPT ![w].pc = "register", ![w].opening = o,
                                ![w].colour = SpPlayer1Colour(spW[w].game)]
    BY <2>1
  <2>3. PICK g : g = [h EXCEPT !.pc = "register", !.opening = o, !.colour = SpPlayer1Colour(h.game)]
    OBVIOUS
  <2>4. spW' = [spW EXCEPT ![w] = g]
    BY <1>1, <1>2, <2>2, <2>3
  <2>5. /\ IsGame(g) /\ g.pc = "register" /\ g.opening = o /\ g.colour = SpPlayer1Colour(h.game)
        /\ g.game = h.game /\ g.abort = h.abort /\ g.result = h.result
    BY <1>2, <2>3 DEF IsGame
  <2>6. spPile' \in Seq({SpDiscarded})
    <3>1. CASE fromPile = TRUE
      <4>1. Front(spPile) \in Seq({SpDiscarded})
        BY <1>3, <2>1, <3>1 DEF Front
      <4> QED BY <2>1, <3>1, <4>1
    <3>2. CASE fromPile = FALSE
      BY <1>3, <2>1, <3>2
    <3> QED BY <3>1, <3>2
  <2>7. o \in {SpDiscarded} \cup SpBookOpening(h.game)
    <3>1. CASE fromPile = TRUE
      <4>1. Last(spPile) = SpDiscarded
        <5>1. spPile # <<>> /\ Len(spPile) \in Nat /\ Len(spPile) # 0
          BY <1>3, <2>1, <3>1
        <5>2. spPile[Len(spPile)] \in {SpDiscarded}
          BY <1>3, <5>1
        <5> QED BY <5>2 DEF Last
      <4> QED BY <2>2, <3>1, <4>1
    <3>2. CASE fromPile = FALSE
      BY <1>1, <2>2, <3>2
    <3> QED BY <3>1, <3>2
  <2>8. Assigned(g.game, g.colour, g.opening)
    BY <2>5, <2>7 DEF Assigned
  <2>9. Playing(spW[w]) /\ Chosen(g) /\ g.game = spW[w].game /\ (Aborted(g) <=> Aborted(spW[w]))
    BY <1>1, <1>6, <2>5 DEF SpChoose, Playing, Chosen, Aborted
  <2>10. g.result \in Decided \cup {"undecided"} /\ g.pc # "over"
    BY <1>2, <2>5
  <2>11. UNCHANGED <<spConf, spLoop, spRunner, spThreads, spAbort, spCount, spResults,
                     spFinished, spFinals, spPlayed>>
    BY <1>6 DEF SpChoose
  <2> QED BY <2>4, <2>5, <2>6, <2>8, <2>9, <2>10, <2>11, GameGoesOn
<1>7. CASE SpRegister(w)
  <2>1. PICK g : g = [h EXCEPT !.pc = "loop", !.registered = TRUE]
    OBVIOUS
  <2>2. spW' = [spW EXCEPT ![w] = g]
    BY <1>1, <1>2, <1>7, <2>1 DEF SpRegister
  <2>3. /\ IsGame(g) /\ g.pc = "loop" /\ g.opening = h.opening /\ g.colour = h.colour
        /\ g.game = h.game /\ g.abort = h.abort /\ g.result = h.result
    BY <1>2, <2>1 DEF IsGame
  <2>4. Chosen(h) /\ Chosen(g)
    BY <1>1, <1>7, <2>3 DEF SpRegister, Chosen
  <2>5. UNCHANGED <<spConf, spLoop, spRunner, spThreads, spAbort, spCount, spResults,
                    spFinished, spFinals, spPlayed, spPile>>
    BY <1>7 DEF SpRegister
  <2> QED BY <1>2, <1>3, <1>5, <2>2, <2>3, <2>4, <2>5
<1>8. ASSUME NEW r \in Decided, spW' = [spW EXCEPT ![w].pc = "over", ![w].result = r],
             Chosen(h), spPile' \in Seq({SpDiscarded}),
             UNCHANGED <<spConf, spLoop, spRunner, spThreads, spAbort, spCount, spResults,
                         spFinished, spFinals, spPlayed>>
      PROVE  SpInv'
  <2>1. PICK g : g = [h EXCEPT !.pc = "over", !.result = r]
    OBVIOUS
  <2>2. spW' = [spW EXCEPT ![w] = g]
    BY <1>1, <1>2, <1>8, <2>1
  <2>3. /\ IsGame(g) /\ g.pc = "over" /\ g.opening = h.opening /\ g.colour = h.colour
        /\ g.game = h.game /\ g.abort = h.abort /\ g.result = r
    BY <1>2, <2>1 DEF IsGame
  <2>4. Chosen(g)
    BY <2>3 DEF Chosen
  <2> QED BY <1>5, <1>8, <2>2, <2>3, <2>4
<1>9. ASSUME NEW to \in {"over", "create", "search", "loop"}, NEW k, to = "over" => Aborted(h),
             spW' = [spW EXCEPT ![w].pc = to, ![w].ply = k],
             Chosen(h), spPile' \in Seq({SpDiscarded}),
             UNCHANGED <<spConf, spLoop, spRunner, spThreads, spAbort, spCount, spResults,
                         spFinished, spFinals, spPlayed>>
      PROVE  SpInv'
  <2>1. PICK g : g = [h EXCEPT !.pc = to, !.ply = k]
    OBVIOUS
  <2>2. spW' = [spW EXCEPT ![w] = g]
    BY <1>1, <1>2, <1>9, <2>1
  <2>3. /\ IsGame(g) /\ g.pc = to /\ g.opening = h.opening /\ g.colour = h.colour
        /\ g.game = h.game /\ g.abort = h.abort /\ g.result = h.result
    BY <1>2, <2>1 DEF IsGame
  <2>4. Chosen(g)
    BY <1>9, <2>3 DEF Chosen
  <2>5. ~(~spAbort /\ g.pc = "over")
    BY <1>4, <1>9, <2>3
  <2> QED BY <1>2, <1>5, <1>9, <2>2, <2>3, <2>4, <2>5
<1>10. /\ h = [h EXCEPT !.ply = h.ply]
       /\ \A to : [h EXCEPT !.pc = to] = [h EXCEPT !.pc = to, !.ply = h.ply]
  BY <1>2 DEF IsGame
<1>11. CASE SpLoopHead(w)
  <2>1. /\ Chosen(h)
        /\ UNCHANGED <<spConf, spLoop, spRunner, spThreads, spAbort, spCount, spResults,
                       spFinished, spFinals, spPlayed, spPile>>
    BY <1>1, <1>11 DEF SpLoopHead, Chosen
  <2>2. ASSUME NEW to \in {"over", "create"}, SpGo(w, to), to = "over" => Aborted(h) PROVE SpInv'
    <3>1. spW' = [spW EXCEPT ![w].pc = to, ![w].ply = h.ply]
      BY <1>1, <1>2, <1>10, <2>2 DEF SpGo
    <3> QED BY <1>3, <1>9, <2>1, <2>2, <3>1
  <2>3. ASSUME NEW r \in SpOutcomes, spW' = [spW EXCEPT ![w].pc = "over", ![w].result = r]
        PROVE  SpInv'
    <3>1. r \in Decided
      BY SpAssumption DEF Decided
    <3> QED BY <1>3, <1>8, <2>1, <2>3, <3>1
  <2> QED BY <1>1, <1>11, <2>2, <2>3 DEF SpLoopHead, Aborted
<1>12. CASE SpCreateSearch(w)
  <2>1. /\ Chosen(h)
        /\ UNCHANGED <<spConf, spLoop, spRunner, spThreads, spAbort, spCount, spResults,
                       spFinished, spFinals, spPlayed, spPile>>
    BY <1>1, <1>12 DEF SpCreateSearch, Chosen
  <2>3. PICK to : to = IF Aborted(h) THEN "over" ELSE "search"
    OBVIOUS
  <2>4. spW' = [spW EXCEPT ![w].pc = to]
    BY <1>1, <1>2, <1>12, <2>3 DEF SpCreateSearch, Aborted
  <2>5. spW' = [spW EXCEPT ![w].pc = to, ![w].ply = h.ply]
    BY <1>1, <1>2, <2>4 DEF IsGame
  <2> QED BY <1>3, <1>9, <2>1, <2>3, <2>5
<1>13. CASE SpSearched(w)
  <2>1. /\ Chosen(h)
        /\ UNCHANGED <<spConf, spLoop, spRunner, spThreads, spAbort, spCount, spResults,
                       spFinished, spFinals, spPlayed>>
    BY <1>1, <1>13 DEF SpSearched, Chosen
  <2>2. CASE spW[w].abort /\ SpGo(w, "over") /\ UNCHANGED spPile
    <3>1. spW' = [spW EXCEPT ![w].pc = "over", ![w].ply = h.ply]
      BY <1>1, <1>2, <1>10, <2>2 DEF SpGo
    <3>2. Aborted(h)
      BY <1>1, <2>2 DEF Aborted
    <3> QED BY <1>3, <1>9, <2>1, <2>2, <3>1, <3>2
  <2>3. ASSUME NEW r \in SpOutcomes, spW' = [spW EXCEPT ![w].pc = "over", ![w].result = r],
               UNCHANGED spPile
        PROVE  SpInv'
    <3>1. r \in Decided
      BY SpAssumption DEF Decided
    <3> QED BY <1>3, <1>8, <2>1, <2>3, <3>1
  <2>4. CASE /\ spW' = [spW EXCEPT ![w].pc = "loop", ![w].ply = @ + 1]
             /\ spPile' \in {spPile, IF Len(spPile) < SpPileLimit
                                     THEN Append(spPile, SpDiscarded) ELSE spPile}
    <3>1. spW' = [spW EXCEPT ![w].pc = "loop", ![w].ply = h.ply + 1]
      BY <1>1, <1>2, <2>4 DEF IsGame
    <3>2. Append(spPile, SpDiscarded) \in Seq({SpDiscarded})
      BY <1>3
    <3>3. spPile' \in Seq({SpDiscarded})
      BY <1>3, <2>4, <3>2
    <3> QED BY <1>9, <2>1, <3>1, <3>3
  <2> QED BY <1>13, <2>2, <2>3, <2>4 DEF SpSearched
<1> QED BY <1>6, <1>7, <1>11, <1>12, <1>13

\* A worker that plays no game goes on to another place where it plays none.
LEMMA BetweenGames ==
    ASSUME SpInv, NEW w \in SpWorkers,
           (SpTake(w) /\ UNCHANGED spCount) \/ SpErase(w)
    PROVE  SpInv'
<1>1. SpTypes
  BY DEF SpInv
<1>2. UNCHANGED <<spConf, spLoop, spRunner, spThreads, spAbort, spCount, spPile, spResults,
                  spFinished, spFinals, spPlayed>>
  BY DEF SpTake, SpErase
<1>3. spW[w].pc \in {"next", "erase"} /\ IsGame(spW[w])
  BY <1>1 DEF SpTake, SpErase, SpTypes
<1>4. PICK g : /\ spW' = [spW EXCEPT ![w] = g] /\ IsGame(g)
               /\ g.result \in Decided \cup {"undecided"}
               /\ g.pc \in {"exited", "next"} /\ (g.pc = "exited" => spAbort \/ SpLimitReached)
               /\ (~Aborted(g) \/ (Aborted(g) <=> Aborted(spW[w])))
  <2>1. CASE SpTake(w) /\ UNCHANGED spCount
    <3>1. (spAbort \/ SpLimitReached) /\ SpGo(w, "exited")
      <4>1. spCount \in Nat /\ spCount' = spCount
        BY <1>1, <2>1 DEF SpTypes
      <4>2. spCount' # spCount + 1
        BY <4>1
      <4> QED BY <2>1, <4>2 DEF SpTake
    <3>2. PICK g : g = [spW[w] EXCEPT !.pc = "exited"]
      OBVIOUS
    <3>3. spW' = [spW EXCEPT ![w] = g]
      BY <1>1, <3>1, <3>2 DEF SpGo, SpTypes
    <3>4. IsGame(g) /\ g.pc = "exited" /\ g.result = spW[w].result /\ g.abort = spW[w].abort
      BY <1>3, <3>2 DEF IsGame
    <3>5. Aborted(g) <=> Aborted(spW[w])
      BY <3>4 DEF Aborted
    <3> QED BY <1>1, <3>1, <3>3, <3>4, <3>5 DEF SpTypes
  <2>2. CASE SpErase(w)
    <3>1. PICK g : g = [SpNoGame EXCEPT !.pc = "next"]
      OBVIOUS
    <3>2. spW' = [spW EXCEPT ![w] = g]
      BY <2>2, <3>1 DEF SpErase
    <3>3. IsGame(g) /\ g.pc = "next" /\ g.result = "undecided" /\ g.abort = FALSE
      BY <3>1 DEF SpNoGame, IsGame
    <3>4. ~Aborted(g)
      BY <3>3 DEF Aborted
    <3> QED BY <3>2, <3>3, <3>4
  <2> QED BY <2>1, <2>2
<1>5. /\ spW' = [u \in SpWorkers |-> spW'[u]] /\ spW'[w] = g
      /\ \A u \in SpWorkers \ {w} : spW'[u] = spW[u]
      /\ \A u \in SpWorkers : IsGame(spW'[u]) /\ spW'[u].result \in Decided \cup {"undecided"}
  BY <1>1, <1>4, OneMoves
<1>6. SpTypes'
  BY <1>1, <1>2, <1>5 DEF SpTypes, spConf
<1>7. ~Playing(spW[w]) /\ ~Playing(g) /\ ~Chosen(g)
  BY <1>3, <1>4 DEF Playing, Chosen
<1>8. \A u \in SpWorkers : /\ Playing(spW'[u]) <=> Playing(spW[u])
                           /\ Playing(spW[u]) => u # w /\ spW'[u] = spW[u]
  BY <1>5, <1>7
<1>9. Numbered'
  <2>1. ASSUME NEW u \in SpWorkers, Playing(spW[u])'
        PROVE  /\ spW'[u].game \in 0..(spCount' - 1)
               /\ \A p \in spPlayed' : p.game # spW'[u].game
               /\ \A v \in SpWorkers \ {u} : Playing(spW[v])' => spW'[v].game # spW'[u].game
    <3>1. Playing(spW[u]) /\ \A v \in SpWorkers : Playing(spW[v])' <=> Playing(spW[v])
      BY <1>8, <2>1 DEF Playing
    <3> QED BY <1>2, <1>8, <3>1 DEF SpInv, Numbered
  <2>2. ASSUME NEW u \in SpWorkers, Chosen(spW[u])' PROVE WellAssigned(u)'
    <3>1. u # w
      BY <1>5, <1>7, <2>2 DEF Chosen
    <3>2. Chosen(spW[u]) /\ WellAssigned(u)
      BY <1>5, <2>2, <3>1 DEF SpInv, Numbered, Chosen
    <3> QED BY <1>2, <1>5, <3>1, <3>2 DEF WellAssigned, Assigned, SpPlayer1Colour, SpBookOpening, spConf
  <2>3. ASSUME NEW p \in spPlayed'
        PROVE  /\ p.game \in 0..(spCount' - 1) /\ p.result \in Decided
               /\ Assigned(p.game, p.colour, p.opening)'
    BY <1>2, AssignedStays DEF SpInv, Numbered
  <2>4. \A p, q \in spPlayed' : p.game = q.game => p = q
    BY <1>2 DEF SpInv, Numbered
  <2> QED BY <2>1, <2>2, <2>3, <2>4 DEF Numbered
<1>10. Undisturbed'
  <2> SUFFICES ASSUME ~spAbort' PROVE Undisturbed'
    BY DEF Undisturbed
  <2>0. ~spAbort
    BY <1>2
  <2>1. ASSUME NEW u \in SpWorkers
        PROVE  ~Aborted(spW'[u]) /\ (spW'[u].pc = "over" => spW'[u].result \in Decided)
    <3>1. ~Aborted(spW[u])
      BY <2>0 DEF SpInv, Undisturbed
    <3>2. CASE u = w
      BY <1>4, <1>5, <2>0, <3>1, <3>2
    <3>3. CASE u # w
      BY <1>5, <2>0, <3>3 DEF SpInv, Undisturbed
    <3> QED BY <3>2, <3>3
  <2>2. ASSUME NEW i \in 0..(spCount' - 1)
        PROVE  \/ \E p \in spPlayed' : p.game = i
               \/ \E u \in SpWorkers : Playing(spW'[u]) /\ spW'[u].game = i
    BY <1>2, <1>8, <2>0 DEF SpInv, Undisturbed
  <2> QED BY <2>1, <2>2 DEF Undisturbed, Aborted, Playing
<1>11. Waiting'
  <2>1. ~spFinished
    BY <1>3 DEF SpInv, Waiting
  <2>2. SpLimitReached' <=> SpLimitReached
    BY <1>2 DEF SpLimitReached, spConf
  <2>3. \A u \in SpWorkers : spW'[u].pc = "exited" => spAbort' \/ SpLimitReached'
    BY <1>2, <1>4, <1>5, <2>2 DEF SpInv, Waiting
  <2>4. spRunner \notin {"none", "start"} /\ \E u \in SpWorkers : spW'[u].pc # "off"
    BY <1>3, <1>4, <1>5 DEF SpInv, Waiting
  <2> QED BY <1>2, <2>1, <2>3, <2>4 DEF SpInv, Waiting, spConf
<1>12. Counted'
  BY <1>2 DEF SpInv, Counted, SpScored
<1> QED BY <1>6, <1>9, <1>10, <1>11, <1>12 DEF SpInv

\* A worker takes the next number.
LEMMA TakeKeeps ==
    ASSUME SpInv, NEW w \in SpWorkers, SpTake(w)
    PROVE  SpInv'
<1>1. CASE UNCHANGED spCount
  BY <1>1, BetweenGames
<1>2. CASE spCount' # spCount
  <2>1. SpTypes
    BY DEF SpInv
  <2>2. PICK g : g = [SpNoGame EXCEPT !.pc = "choose", !.game = spCount]
    OBVIOUS
  <2>3. /\ spW' = [spW EXCEPT ![w] = g] /\ spCount' = spCount + 1 /\ spW[w].pc = "next"
        /\ UNCHANGED <<spConf, spLoop, spRunner, spThreads, spAbort, spPile, spResults,
                       spFinished, spFinals, spPlayed>>
    BY <1>2, <2>2 DEF SpTake
  <2>4. IsGame(g) /\ g.pc = "choose" /\ g.game = spCount /\ g.result = "undecided" /\ g.abort = FALSE
    BY <2>2 DEF SpNoGame, IsGame
  <2>5. Playing(g) /\ ~Chosen(g) /\ ~Aborted(g) /\ ~Playing(spW[w])
    BY <2>3, <2>4 DEF Playing, Chosen, Aborted
  <2>6. /\ spW' = [u \in SpWorkers |-> spW'[u]] /\ spW'[w] = g
        /\ \A u \in SpWorkers \ {w} : spW'[u] = spW[u]
        /\ \A u \in SpWorkers : IsGame(spW'[u]) /\ spW'[u].result \in Decided \cup {"undecided"}
    BY <2>1, <2>3, <2>4, OneMoves
  <2>7. spCount \in Nat /\ spCount' \in Nat
    BY <2>1, <2>3 DEF SpTypes
  <2>8. SpTypes'
    BY <2>1, <2>3, <2>6, <2>7 DEF SpTypes, spConf
  <2>9. Numbered'
    <3>1. \A u \in SpWorkers : Playing(spW[u]) => spW[u].game \in 0..(spCount - 1)
      BY DEF SpInv, Numbered
    <3>2. \A p \in spPlayed : p.game \in 0..(spCount - 1)
      BY DEF SpInv, Numbered
    <3>3. ASSUME NEW u \in SpWorkers, Playing(spW[u])'
          PROVE  /\ spW'[u].game \in 0..(spCount' - 1)
                 /\ \A p \in spPlayed' : p.game # spW'[u].game
                 /\ \A v \in SpWorkers \ {u} : Playing(spW[v])' => spW'[v].game # spW'[u].game
      <4>1. \A v \in SpWorkers \ {w} : Playing(spW[v])' <=> Playing(spW[v])
        BY <2>6 DEF Playing
      <4>2. CASE u = w
        BY <2>3, <2>4, <2>6, <2>7, <3>1, <3>2, <4>1, <4>2
      <4>3. CASE u # w
        <5>1. /\ Playing(spW[u]) /\ spW'[u] = spW[u] /\ spW[u].game \in 0..(spCount - 1)
              /\ \A p \in spPlayed : p.game # spW[u].game
              /\ \A v \in SpWorkers \ {u} : Playing(spW[v]) => spW[v].game # spW[u].game
          BY <2>6, <3>3, <4>1, <4>3 DEF SpInv, Numbered
        <5>2. spW'[w].game # spW[u].game
          BY <2>4, <2>6, <2>7, <5>1
        <5> QED BY <2>3, <2>6, <2>7, <4>1, <5>1, <5>2
      <4> QED BY <4>2, <4>3
    <3>4. ASSUME NEW u \in SpWorkers, Chosen(spW[u])' PROVE WellAssigned(u)'
      <4>1. u # w
        BY <2>5, <2>6, <3>4 DEF Chosen
      <4>2. Chosen(spW[u]) /\ WellAssigned(u)
        BY <2>6, <3>4, <4>1 DEF SpInv, Numbered, Chosen
      <4> QED BY <2>3, <2>6, <4>1, <4>2 DEF WellAssigned, Assigned, SpPlayer1Colour, SpBookOpening, spConf
    <3>5. ASSUME NEW p \in spPlayed'
          PROVE  /\ p.game \in 0..(spCount' - 1) /\ p.result \in Decided
                 /\ Assigned(p.game, p.colour, p.opening)'
      <4>1. p.result \in Decided /\ Assigned(p.game, p.colour, p.opening)
        BY <2>3 DEF SpInv, Numbered
      <4>2. p.game \in 0..(spCount' - 1)
        BY <2>3, <2>7, <3>2
      <4> QED BY <2>3, <4>1, <4>2, AssignedStays
    <3>6. \A p, q \in spPlayed' : p.game = q.game => p = q
      BY <2>3 DEF SpInv, Numbered
    <3> QED BY <3>3, <3>4, <3>5, <3>6 DEF Numbered
  <2>10. Undisturbed'
    <3> SUFFICES ASSUME ~spAbort' PROVE Undisturbed'
      BY DEF Undisturbed
    <3>0. ~spAbort
      BY <2>3
    <3>1. ASSUME NEW u \in SpWorkers
          PROVE  ~Aborted(spW'[u]) /\ (spW'[u].pc = "over" => spW'[u].result \in Decided)
      <4>1. CASE u = w
        BY <2>4, <2>5, <2>6, <4>1
      <4>2. CASE u # w
        BY <2>6, <3>0, <4>2 DEF SpInv, Undisturbed
      <4> QED BY <4>1, <4>2
    <3>2. ASSUME NEW i \in 0..(spCount' - 1)
          PROVE  \/ \E p \in spPlayed' : p.game = i
                 \/ \E u \in SpWorkers : Playing(spW'[u]) /\ spW'[u].game = i
      <4>1. CASE i = spCount
        BY <2>4, <2>5, <2>6, <4>1
      <4>2. CASE i # spCount
        <5>1. i \in 0..(spCount - 1)
          BY <2>3, <2>7, <4>2
        <5>2. \/ \E p \in spPlayed : p.game = i
              \/ \E u \in SpWorkers : Playing(spW[u]) /\ spW[u].game = i
          BY <3>0, <5>1 DEF SpInv, Undisturbed
        <5>3. CASE \E p \in spPlayed : p.game = i
          BY <2>3, <5>3
        <5>4. CASE \E u \in SpWorkers : Playing(spW[u]) /\ spW[u].game = i
          <6>1. PICK u \in SpWorkers : Playing(spW[u]) /\ spW[u].game = i
            BY <5>4
          <6>2. u # w
            BY <2>5, <6>1
          <6> QED BY <2>6, <6>1, <6>2
        <5> QED BY <5>2, <5>3, <5>4
      <4> QED BY <4>1, <4>2
    <3> QED BY <3>1, <3>2 DEF Undisturbed, Aborted, Playing
  <2>11. Waiting'
    <3>1. ~spFinished /\ spRunner \notin {"none", "start"}
      BY <2>3 DEF SpInv, Waiting
    <3>2. SpLimitReached => SpLimitReached'
      BY <2>1, <2>3, <2>7, LimitStays
    <3>3. \A u \in SpWorkers : spW'[u].pc = "exited" => spAbort' \/ SpLimitReached'
      <4>1. ASSUME NEW u \in SpWorkers, spW'[u].pc = "exited" PROVE spAbort \/ SpLimitReached
        BY <2>4, <2>6, <4>1 DEF SpInv, Waiting
      <4> QED BY <2>3, <3>2, <4>1
    <3>4. \E u \in SpWorkers : spW'[u].pc # "off"
      BY <2>4, <2>6
    <3> QED BY <2>3, <3>1, <3>3, <3>4 DEF SpInv, Waiting, spConf
  <2>12. Counted'
    BY <2>3 DEF SpInv, Counted, SpScored
  <2> QED BY <2>8, <2>9, <2>10, <2>11, <2>12 DEF SpInv
<1> QED BY <1>1, <1>2

\* The row and the column that a decided game is counted in are its score's.
LEMMA RowIsScore ==
    ASSUME NEW w, spW[w].result \in Decided, spW[w].colour \in {"white", "black"},
           NEW p, p.result = spW[w].result, p.colour = spW[w].colour
    PROVE  /\ SpResultRow(w) \in 0..2 /\ SpColumn(spW[w].colour) \in 0..1
           /\ SpScore(p) = SpResultRow(w)
           /\ \A c \in 0..1 : (p.colour = IF c = 1 THEN "black" ELSE "white")
                                 <=> c = SpColumn(spW[w].colour)
<1>1. SpColumn(spW[w].colour) \in 0..1
  BY DEF SpColumn
<1>2. \A c \in 0..1 : (p.colour = IF c = 1 THEN "black" ELSE "white") <=> c = SpColumn(spW[w].colour)
  BY DEF SpColumn
<1>3. CASE spW[w].result = "draw"
  BY <1>1, <1>2, <1>3 DEF SpResultRow, SpScore
<1>4. CASE spW[w].result = "white"
  BY <1>1, <1>2, <1>4 DEF SpResultRow, SpScore
<1>5. CASE spW[w].result = "black"
  BY <1>1, <1>2, <1>5 DEF SpResultRow, SpScore
<1> QED BY <1>3, <1>4, <1>5 DEF Decided

\* PlayOneGame counts a game that was decided, and only such a game.
LEMMA CountKeeps ==
    ASSUME SpInv, NEW w \in SpWorkers, SpCountGame(w)
    PROVE  SpInv'
<1>1. SpTypes
  BY DEF SpInv
<1>2. PICK h : h = spW[w]
  OBVIOUS
<1>3. PICK g : g = [h EXCEPT !.pc = "erase"]
  OBVIOUS
<1>4. /\ h.pc = "over" /\ spW' = [spW EXCEPT ![w] = g]
      /\ UNCHANGED <<spConf, spLoop, spRunner, spThreads, spAbort, spCount, spPile, spFinished, spFinals>>
  BY <1>1, <1>2, <1>3 DEF SpCountGame, SpGo, SpTypes
<1>5. IsGame(h) /\ h.result \in Decided \cup {"undecided"}
  BY <1>1, <1>2 DEF SpTypes
<1>6. IsGame(g) /\ g.pc = "erase" /\ g.result = h.result /\ g.abort = h.abort
  BY <1>3, <1>5 DEF IsGame
<1>7. ~Playing(g) /\ ~Chosen(g) /\ Playing(h) /\ Chosen(h) /\ (Aborted(g) <=> Aborted(h))
  BY <1>4, <1>6 DEF Playing, Chosen, Aborted
<1>8. /\ spW' = [u \in SpWorkers |-> spW'[u]] /\ spW'[w] = g
      /\ \A u \in SpWorkers \ {w} : spW'[u] = spW[u]
      /\ \A u \in SpWorkers : IsGame(spW'[u]) /\ spW'[u].result \in Decided \cup {"undecided"}
  BY <1>1, <1>4, <1>5, <1>6, OneMoves
<1>9. PICK p0 : p0 = [game |-> h.game, colour |-> h.colour, opening |-> h.opening, result |-> h.result]
  OBVIOUS
<1>10. PICK add : add = IF h.result = "undecided" THEN {} ELSE {p0}
  OBVIOUS
<1>11. spPlayed' = spPlayed \cup add
  BY <1>2, <1>9, <1>10 DEF SpCountGame
<1>12. /\ p0.game = h.game /\ p0.colour = h.colour /\ p0.opening = h.opening /\ p0.result = h.result
       /\ \A p \in add : p = p0 /\ h.result \in Decided
  BY <1>5, <1>9, <1>10
<1>13. /\ h.game \in 0..(spCount - 1) /\ \A p \in spPlayed : p.game # h.game
       /\ \A u \in SpWorkers \ {w} : Playing(spW[u]) => spW[u].game # h.game
       /\ WellAssigned(w)
  BY <1>2, <1>7 DEF SpInv, Numbered
<1>14. Assigned(h.game, h.colour, h.opening)
  BY <1>2, <1>13 DEF WellAssigned
<1>15. IsFiniteSet(spPlayed')
  <2>1. IsFiniteSet(spPlayed) /\ IsFiniteSet(add)
    BY <1>1, <1>10, FS_EmptySet, FS_Singleton DEF SpTypes
  <2> QED BY <1>11, <2>1, FS_Union
<1>16. h.colour \in {"white", "black"}
  BY <1>14 DEF Assigned, SpPlayer1Colour
<1>17. /\ spResults' \in [0..2 -> [0..1 -> Nat]]
       /\ \A r \in 0..2, c \in 0..1 : spResults'[r][c] = Cardinality(SpScored(r, c)')
  <2>1. /\ spResults \in [0..2 -> [0..1 -> Nat]]
        /\ \A r \in 0..2, c \in 0..1 : spResults[r][c] = Cardinality(SpScored(r, c))
    BY <1>1 DEF SpInv, Counted, SpTypes
  <2>2. CASE h.result = "undecided"
    <3>1. UNCHANGED <<spResults, spPlayed>>
      BY <1>2, <2>2 DEF SpCountGame
    <3> QED BY <2>1, <3>1 DEF SpScored
  <2>3. CASE h.result # "undecided"
    <3>1. PICK row \in 0..2, col \in 0..1 : row = SpResultRow(w) /\ col = SpColumn(h.colour)
      <4>1. SpResultRow(w) \in 0..2 /\ SpColumn(spW[w].colour) \in 0..1
        BY <1>2, <1>5, <1>12, <1>16, <2>3, RowIsScore
      <4> QED BY <1>2, <4>1
    <3>2. /\ SpScore(p0) = row
          /\ \A c \in 0..1 : (p0.colour = IF c = 1 THEN "black" ELSE "white") <=> c = col
      BY <1>2, <1>5, <1>12, <1>16, <2>3, <3>1, RowIsScore
    <3>3. spResults' = [spResults EXCEPT ![row][col] = @ + 1]
      BY <1>2, <2>3, <3>1 DEF SpCountGame
    <3>4. /\ spResults' \in [0..2 -> [0..1 -> Nat]]
          /\ \A r \in 0..2, c \in 0..1 :
                spResults'[r][c] = IF r = row /\ c = col THEN spResults[r][c] + 1 ELSE spResults[r][c]
      BY <2>1, <3>3
    <3>5. spPlayed' = spPlayed \cup {p0} /\ p0 \notin spPlayed
      BY <1>10, <1>11, <1>12, <1>13, <2>3
    <3>6. ASSUME NEW r \in 0..2, NEW c \in 0..1
          PROVE  /\ SpScored(r, c)' = IF r = row /\ c = col THEN SpScored(r, c) \cup {p0}
                                      ELSE SpScored(r, c)
                 /\ IsFiniteSet(SpScored(r, c)) /\ p0 \notin SpScored(r, c)
      <4>1. /\ SpScored(r, c)' = {p \in spPlayed \cup {p0} : SpScore(p) = r
                                    /\ p.colour = IF c = 1 THEN "black" ELSE "white"}
            /\ SpScored(r, c) = {p \in spPlayed : SpScore(p) = r
                                    /\ p.colour = IF c = 1 THEN "black" ELSE "white"}
        BY <3>5 DEF SpScored, SpScore
      <4>2. SpScored(r, c) \in SUBSET spPlayed
        BY <4>1
      <4>3. IsFiniteSet(SpScored(r, c)) /\ p0 \notin SpScored(r, c)
        BY <1>1, <3>5, <4>2, FS_Subset DEF SpTypes
      <4>4. (SpScore(p0) = r /\ p0.colour = IF c = 1 THEN "black" ELSE "white")
               <=> (r = row /\ c = col)
        BY <3>2
      <4>5. CASE r = row /\ c = col
        BY <4>1, <4>3, <4>4, <4>5
      <4>6. CASE ~(r = row /\ c = col)
        BY <4>1, <4>3, <4>4, <4>6
      <4> QED BY <4>5, <4>6
    <3>7. ASSUME NEW r \in 0..2, NEW c \in 0..1
          PROVE  spResults'[r][c] = Cardinality(SpScored(r, c)')
      <4>1. CASE r = row /\ c = col
        <5>1. Cardinality(SpScored(r, c) \cup {p0}) = Cardinality(SpScored(r, c)) + 1
          BY <3>6, FS_AddElement
        <5> QED BY <2>1, <3>4, <3>6, <4>1, <5>1
      <4>2. CASE ~(r = row /\ c = col)
        <5>1. SpScored(r, c)' = SpScored(r, c)
          BY <3>6, <4>2
        <5>2. spResults'[r][c] = spResults[r][c]
          BY <3>4, <4>2
        <5> QED BY <2>1, <5>1, <5>2
      <4> QED BY <4>1, <4>2
    <3> QED BY <3>4, <3>7
  <2> QED BY <2>2, <2>3
<1>18. SpTypes'
  BY <1>1, <1>4, <1>8, <1>15, <1>17 DEF SpTypes, spConf
<1>19. \A u \in SpWorkers : Playing(spW'[u]) => u # w /\ Playing(spW[u]) /\ spW'[u] = spW[u]
  BY <1>7, <1>8
<1>20. Numbered'
  <2>1. ASSUME NEW u \in SpWorkers, Playing(spW[u])'
        PROVE  /\ spW'[u].game \in 0..(spCount' - 1)
               /\ \A p \in spPlayed' : p.game # spW'[u].game
               /\ \A v \in SpWorkers \ {u} : Playing(spW[v])' => spW'[v].game # spW'[u].game
    <3>1. \A v \in SpWorkers : Playing(spW[v])' => v # w /\ Playing(spW[v]) /\ spW'[v] = spW[v]
      BY <1>19 DEF Playing
    <3>2. /\ spW'[u] = spW[u] /\ u # w
          /\ spW[u].game \in 0..(spCount - 1)
          /\ \A p \in spPlayed : p.game # spW[u].game
          /\ \A v \in SpWorkers \ {u} : Playing(spW[v]) => spW[v].game # spW[u].game
          /\ spW[u].game # h.game
      BY <1>13, <2>1, <3>1 DEF SpInv, Numbered
    <3>3. \A p \in spPlayed' : p.game # spW[u].game
      BY <1>11, <1>12, <3>2
    <3> QED BY <1>4, <3>1, <3>2, <3>3
  <2>2. ASSUME NEW u \in SpWorkers, Chosen(spW[u])' PROVE WellAssigned(u)'
    <3>1. u # w
      BY <1>7, <1>8, <2>2 DEF Chosen
    <3>2. Chosen(spW[u]) /\ WellAssigned(u)
      BY <1>8, <2>2, <3>1 DEF SpInv, Numbered, Chosen
    <3> QED BY <1>4, <1>8, <3>1, <3>2 DEF WellAssigned, Assigned, SpPlayer1Colour, SpBookOpening, spConf
  <2>3. ASSUME NEW p \in spPlayed'
        PROVE  /\ p.game \in 0..(spCount' - 1) /\ p.result \in Decided
               /\ Assigned(p.game, p.colour, p.opening)'
    <3>1. p.game \in 0..(spCount - 1) /\ p.result \in Decided /\ Assigned(p.game, p.colour, p.opening)
      <4>1. CASE p \in spPlayed
        BY <4>1 DEF SpInv, Numbered
      <4>2. CASE p \in add
        BY <1>12, <1>13, <1>14, <4>2
      <4> QED BY <1>11, <4>1, <4>2
    <3> QED BY <1>4, <3>1, AssignedStays
  <2>4. \A p, q \in spPlayed' : p.game = q.game => p = q
    <3>1. \A p, q \in spPlayed : p.game = q.game => p = q
      BY DEF SpInv, Numbered
    <3> QED BY <1>11, <1>12, <1>13, <3>1
  <2> QED BY <2>1, <2>2, <2>3, <2>4 DEF Numbered
<1>21. Undisturbed'
  <2> SUFFICES ASSUME ~spAbort' PROVE Undisturbed'
    BY DEF Undisturbed
  <2>0. ~spAbort
    BY <1>4
  <2>1. p0 \in spPlayed'
    <3>1. h.result \in Decided
      BY <1>2, <1>4, <2>0 DEF SpInv, Undisturbed
    <3>2. h.result # "undecided"
      BY <3>1 DEF Decided
    <3> QED BY <1>10, <1>11, <3>2
  <2>2. ASSUME NEW u \in SpWorkers
        PROVE  ~Aborted(spW'[u]) /\ (spW'[u].pc = "over" => spW'[u].result \in Decided)
    <3>1. CASE u = w
      <4>1. ~Aborted(h)
        BY <1>2, <2>0 DEF SpInv, Undisturbed
      <4> QED BY <1>6, <1>7, <1>8, <3>1, <4>1
    <3>2. CASE u # w
      BY <1>8, <2>0, <3>2 DEF SpInv, Undisturbed
    <3> QED BY <3>1, <3>2
  <2>3. ASSUME NEW i \in 0..(spCount' - 1)
        PROVE  \/ \E p \in spPlayed' : p.game = i
               \/ \E u \in SpWorkers : Playing(spW'[u]) /\ spW'[u].game = i
    <3>1. \/ \E p \in spPlayed : p.game = i
          \/ \E u \in SpWorkers : Playing(spW[u]) /\ spW[u].game = i
      BY <1>4, <2>0 DEF SpInv, Undisturbed
    <3>2. CASE \E p \in spPlayed : p.game = i
      BY <1>11, <3>2
    <3>3. CASE \E u \in SpWorkers : Playing(spW[u]) /\ spW[u].game = i
      <4>1. PICK u \in SpWorkers : Playing(spW[u]) /\ spW[u].game = i
        BY <3>3
      <4>2. CASE u = w
        BY <1>2, <1>12, <2>1, <4>1, <4>2
      <4>3. CASE u # w
        BY <1>8, <4>1, <4>3
      <4> QED BY <4>2, <4>3
    <3> QED BY <3>1, <3>2, <3>3
  <2> QED BY <2>2, <2>3 DEF Undisturbed, Aborted, Playing
<1>22. Waiting'
  <2>1. ~spFinished /\ spRunner \notin {"none", "start"}
    BY <1>2, <1>4 DEF SpInv, Waiting
  <2>2. SpLimitReached' <=> SpLimitReached
    BY <1>4 DEF SpLimitReached, spConf
  <2>3. \A u \in SpWorkers : spW'[u].pc = "exited" => spAbort' \/ SpLimitReached'
    BY <1>4, <1>6, <1>8, <2>2 DEF SpInv, Waiting
  <2>4. \E u \in SpWorkers : spW'[u].pc # "off"
    BY <1>6, <1>8
  <2> QED BY <1>4, <2>1, <2>3, <2>4 DEF SpInv, Waiting, spConf
<1>23. Counted'
  BY <1>17 DEF Counted
<1> QED BY <1>18, <1>20, <1>21, <1>22, <1>23 DEF SpInv

\* When no worker plays and none was disturbed, all numbers have been counted.
LEMMA AllCounted ==
    ASSUME SpInv, ~spAbort, \A w \in SpWorkers : ~Playing(spW[w])
    PROVE  Cardinality(spPlayed) = spCount
<1>1. PICK f : f = [p \in spPlayed |-> p.game]
  OBVIOUS
<1>2. spCount \in Nat /\ IsFiniteSet(spPlayed)
  BY DEF SpInv, SpTypes
<1>3. PICK T : T = 0..(spCount - 1)
  OBVIOUS
<1>4. f \in [spPlayed -> T]
  BY <1>1, <1>3 DEF SpInv, Numbered
<1>5. \A p, q \in spPlayed : f[p] = f[q] => p = q
  BY <1>1 DEF SpInv, Numbered
<1>6. \A i \in T : \E p \in spPlayed : f[p] = i
  BY <1>1, <1>3 DEF SpInv, Undisturbed
<1>7. f \in Bijection(spPlayed, T)
  BY <1>4, <1>5, <1>6 DEF Bijection, Injection, Surjection, IsInjective
<1>8. ExistsBijection(spPlayed, T)
  BY <1>7 DEF ExistsBijection
<1>9. Cardinality(T) = Cardinality(spPlayed)
  BY <1>2, <1>8, FS_Bijection
<1>10. Cardinality(T) = spCount
  <2>1. spCount - 1 \in Int /\ 0 \in Int
    BY <1>2
  <2>2. Cardinality(0..(spCount - 1)) = IF 0 > spCount - 1 THEN 0 ELSE spCount - 1 - 0 + 1
    BY <2>1, FS_Interval
  <2> QED BY <1>2, <1>3, <2>2
<1> QED BY <1>9, <1>10

\* Steps of the threads that wait and command leave the workers alone.
LEMMA OthersStay ==
    ASSUME SpInv, spAbort => spAbort', spFinals' \in Nat, Waiting',
           UNCHANGED <<spConf, spCount, spW, spPile, spResults, spPlayed>>
    PROVE  SpInv'
<1>1. SpTypes'
  BY DEF SpInv, SpTypes, spConf
<1>2. Numbered'
  <2>1. \A w \in SpWorkers : Chosen(spW[w])' => WellAssigned(w)'
    BY DEF SpInv, Numbered, Chosen, WellAssigned, Assigned, SpPlayer1Colour, SpBookOpening, spConf
  <2>2. ASSUME NEW p \in spPlayed' PROVE Assigned(p.game, p.colour, p.opening)'
    BY AssignedStays DEF SpInv, Numbered
  <2> QED BY <2>1, <2>2 DEF SpInv, Numbered, Playing
<1>3. Undisturbed'
  BY DEF SpInv, Undisturbed, Aborted, Playing
<1>4. Counted'
  BY DEF SpInv, Counted, SpScored
<1> QED BY <1>1, <1>2, <1>3, <1>4 DEF SpInv

\* The commands of the UCI thread, and the end of the thread that runs the tournament.
LEMMA CommandsKeep ==
    ASSUME SpInv, SpCmdStart \/ SpCmdStop \/ SpCmdStopWaits \/ SpJoinRunner \/ UNCHANGED spVars
    PROVE  SpInv'
<1>1. UNCHANGED <<spConf, spCount, spW, spPile, spResults, spPlayed>>
  BY DEF SpCmdStart, SpCmdStop, SpCmdStopWaits, SpJoinRunner, spVars, spConf
<1>2. UNCHANGED <<spFinals, spFinished>>
  BY DEF SpInv, Waiting, SpCmdStart, SpCmdStop, SpCmdStopWaits, SpJoinRunner, spVars, SpReport
<1>3. spAbort => spAbort'
  BY DEF SpCmdStart, SpCmdStop, SpCmdStopWaits, SpJoinRunner, spVars
<1>4. spLoop' = "wait" => spAbort'
  BY DEF SpInv, Waiting, SpCmdStart, SpCmdStop, SpCmdStopWaits, SpJoinRunner, spVars
<1>5. spRunner' = spRunner \/ (spRunner = "none" /\ spRunner' = "start")
  BY DEF SpCmdStart, SpCmdStop, SpCmdStopWaits, SpJoinRunner, spVars
<1>6. spRunner' = "wait" => spInline' \/ spAbort' \/ spThreads' = SpWorkers
  BY DEF SpInv, Waiting, SpCmdStart, SpCmdStop, SpCmdStopWaits, SpJoinRunner, spVars, spConf
<1>7. SpLimitReached' <=> SpLimitReached
  BY <1>1 DEF SpLimitReached, spConf
<1>8. Waiting'
  BY <1>1, <1>2, <1>3, <1>4, <1>5, <1>6, <1>7 DEF SpInv, Waiting
<1>9. spFinals' \in Nat
  BY <1>2 DEF SpInv, SpTypes
<1> QED BY <1>1, <1>3, <1>8, <1>9, OthersStay

\* The final report of the thread that runs the tournament.
LEMMA RunnerKeeps ==
    ASSUME SpInv, SpRunnerWaits
    PROVE  SpInv'
<1>1. /\ spRunner = "wait" /\ spRunner' = "done" /\ spThreads' = {}
      /\ UNCHANGED <<spConf, spLoop, spAbort, spCount, spW, spPile, spResults, spPlayed>>
  BY DEF SpRunnerWaits
<1>2. spFinals = 0 /\ ~spFinished
  BY <1>1 DEF SpInv, Waiting
<1>3. CASE spAbort
  <2>1. UNCHANGED <<spFinished, spFinals>>
    BY <1>3 DEF SpRunnerWaits, SpReport
  <2>2. Waiting'
    BY <1>1, <1>2, <1>3, <2>1 DEF SpInv, Waiting
  <2> QED BY <1>1, <1>2, <2>1, <2>2, OthersStay
<1>4. CASE ~spAbort
  <2>1. spFinished' = TRUE /\ spFinals' = spFinals + 1
    BY <1>4 DEF SpRunnerWaits, SpReport
  <2>2. \A w \in SpWorkers : spW[w].pc \in {"off", "exited"}
    <3>1. CASE spInline
      BY <3>1 DEF SpRunnerWaits
    <3>2. CASE ~spInline
      <4>1. spThreads = SpWorkers
        BY <1>1, <1>4, <3>2 DEF SpInv, Waiting
      <4> QED BY <3>2, <4>1 DEF SpRunnerWaits, SpJoined
    <3> QED BY <3>1, <3>2
  <2>3. SpLimitReached
    BY <1>1, <1>4, <2>2 DEF SpInv, Waiting
  <2>4. Cardinality(spPlayed) = spCount
    BY <1>4, <2>2, AllCounted DEF Playing
  <2>5. SpLimitReached'
    BY <1>1, <2>3 DEF SpLimitReached, spConf
  <2>6. Waiting'
    BY <1>1, <1>2, <1>4, <2>1, <2>2, <2>4, <2>5 DEF SpInv, Waiting
  <2>7. spFinals' \in Nat
    BY <1>2, <2>1
  <2> QED BY <1>1, <2>6, <2>7, OthersStay
<1> QED BY <1>3, <1>4

\* Abort marks the games that are in games_.
LEMMA QuitKeeps ==
    ASSUME SpInv, SpQuit
    PROVE  SpInv'
<1>1. /\ spAbort' = TRUE /\ spLoop' = "quit" /\ spRunner # "none"
      /\ spW' = [w \in SpWorkers |-> [spW[w] EXCEPT !.abort = @ \/ spW[w].registered]]
      /\ UNCHANGED <<spConf, spRunner, spThreads, spCount, spPile, spResults, spFinished, spFinals, spPlayed>>
  BY DEF SpQuit
<1>2. spW' = [w \in SpWorkers |-> spW'[w]]
  BY <1>1
<1>3. ASSUME NEW w \in SpWorkers
      PROVE  /\ IsGame(spW'[w]) /\ spW'[w].pc = spW[w].pc /\ spW'[w].game = spW[w].game
             /\ spW'[w].colour = spW[w].colour /\ spW'[w].opening = spW[w].opening
             /\ spW'[w].result = spW[w].result
  <2>1. PICK a : a = (spW[w].abort \/ spW[w].registered)
    OBVIOUS
  <2>2. spW'[w] = [spW[w] EXCEPT !.abort = a]
    BY <1>1, <2>1
  <2>3. IsGame(spW[w])
    BY DEF SpInv, SpTypes
  <2> QED BY <2>2, <2>3 DEF IsGame
<1>4. SpTypes'
  BY <1>1, <1>2, <1>3 DEF SpInv, SpTypes, spConf
<1>5. Numbered'
  <2>1. ASSUME NEW w \in SpWorkers
        PROVE  (Playing(spW[w])' <=> Playing(spW[w])) /\ (Chosen(spW[w])' <=> Chosen(spW[w]))
    BY <1>3 DEF Playing, Chosen
  <2>2. ASSUME NEW w \in SpWorkers, Chosen(spW[w])' PROVE WellAssigned(w)'
    <3>1. WellAssigned(w)
      BY <2>1, <2>2 DEF SpInv, Numbered
    <3> QED BY <1>1, <1>3, <3>1 DEF WellAssigned, Assigned, SpPlayer1Colour, SpBookOpening, spConf
  <2>3. ASSUME NEW p \in spPlayed' PROVE Assigned(p.game, p.colour, p.opening)'
    BY <1>1, AssignedStays DEF SpInv, Numbered
  <2>4. ASSUME NEW u \in SpWorkers, Playing(spW[u])'
        PROVE  /\ spW'[u].game \in 0..(spCount' - 1)
               /\ \A p \in spPlayed' : p.game # spW'[u].game
               /\ \A v \in SpWorkers \ {u} : Playing(spW[v])' => spW'[v].game # spW'[u].game
    <3>1. Playing(spW[u])
      BY <2>1, <2>4
    <3> QED BY <1>1, <1>3, <2>1, <3>1 DEF SpInv, Numbered
  <2>5. /\ \A p \in spPlayed' : p.game \in 0..(spCount' - 1) /\ p.result \in Decided
        /\ \A p, q \in spPlayed' : p.game = q.game => p = q
    BY <1>1 DEF SpInv, Numbered
  <2> QED BY <2>2, <2>3, <2>4, <2>5 DEF Numbered
<1>6. Undisturbed'
  BY <1>1 DEF Undisturbed
<1>7. Waiting'
  <2>1. SpLimitReached' <=> SpLimitReached
    BY <1>1 DEF SpLimitReached, spConf
  <2> QED BY <1>1, <1>3, <2>1 DEF SpInv, Waiting, spConf
<1>8. Counted'
  BY <1>1 DEF SpInv, Counted, SpScored
<1> QED BY <1>4, <1>5, <1>6, <1>7, <1>8 DEF SpInv

\* StartAsync, or the loop of the only worker.
LEMMA StartKeeps ==
    ASSUME SpInv, SpStartAsync
    PROVE  SpInv'
<1>1. PICK ws : /\ ws = IF spInline THEN {CHOOSE w \in SpWorkers : TRUE} ELSE SpWorkers
                /\ spW' = [w \in SpWorkers |-> IF w \in ws THEN [spW[w] EXCEPT !.pc = "next"] ELSE spW[w]]
                /\ spThreads' = IF spInline THEN {} ELSE ws
  BY DEF SpStartAsync
<1>2. /\ spRunner = "start" /\ spRunner' = "wait"
      /\ UNCHANGED <<spConf, spLoop, spAbort, spCount, spPile, spResults, spFinished, spFinals, spPlayed>>
  BY DEF SpStartAsync
<1>3. /\ \A w \in SpWorkers : spW[w].pc = "off" /\ IsGame(spW[w])
      /\ spFinals = 0 /\ ~spFinished
  BY <1>2 DEF SpInv, Waiting, SpTypes
<1>4. spW' = [w \in SpWorkers |-> spW'[w]]
  BY <1>1
<1>5. ASSUME NEW w \in SpWorkers
      PROVE  /\ IsGame(spW'[w]) /\ spW'[w].pc \in {"off", "next"}
             /\ w \in ws => spW'[w].pc = "next"
             /\ spW'[w].result = spW[w].result /\ spW'[w].abort = spW[w].abort
  <2>1. CASE w \in ws
    <3>1. spW'[w] = [spW[w] EXCEPT !.pc = "next"] /\ IsGame(spW[w])
      BY <1>1, <1>3, <2>1
    <3> QED BY <3>1 DEF IsGame
  <2>2. CASE w \notin ws
    BY <1>1, <1>3, <2>2
  <2> QED BY <2>1, <2>2
<1>6. SpTypes'
  BY <1>2, <1>4, <1>5 DEF SpInv, SpTypes, spConf
<1>7. ASSUME NEW w \in SpWorkers
      PROVE  /\ ~Playing(spW[w])' /\ ~Chosen(spW[w])' /\ ~Playing(spW[w])
             /\ Aborted(spW[w])' <=> Aborted(spW[w])
  BY <1>3, <1>5 DEF Playing, Chosen, Aborted
<1>8. Numbered'
  <2>1. ASSUME NEW p \in spPlayed' PROVE Assigned(p.game, p.colour, p.opening)'
    BY <1>2, AssignedStays DEF SpInv, Numbered
  <2>2. /\ \A p \in spPlayed' : p.game \in 0..(spCount' - 1) /\ p.result \in Decided
        /\ \A p, q \in spPlayed' : p.game = q.game => p = q
    BY <1>2 DEF SpInv, Numbered
  <2> QED BY <1>7, <2>1, <2>2 DEF Numbered
<1>9. Undisturbed'
  <2> SUFFICES ASSUME ~spAbort' PROVE Undisturbed'
    BY DEF Undisturbed
  <2>1. ~spAbort
    BY <1>2
  <2>2. ASSUME NEW w \in SpWorkers PROVE ~Aborted(spW[w])' /\ spW'[w].pc # "over"
    BY <1>5, <1>7, <2>1 DEF SpInv, Undisturbed
  <2>3. \A i \in 0..(spCount' - 1) : \E p \in spPlayed' : p.game = i
    BY <1>2, <1>7, <2>1 DEF SpInv, Undisturbed
  <2> QED BY <2>2, <2>3 DEF Undisturbed
<1>10. Waiting'
  <2>1. \E w \in SpWorkers : w \in ws
    BY <1>1, SpAssumption
  <2>2. \E w \in SpWorkers : spW'[w].pc # "off"
    BY <1>5, <2>1
  <2>3. \A w \in SpWorkers : spW'[w].pc # "exited"
    BY <1>5
  <2>4. spInline' \/ spThreads' = SpWorkers
    BY <1>1, <1>2 DEF spConf
  <2> QED BY <1>2, <1>3, <2>2, <2>3, <2>4 DEF SpInv, Waiting
<1>11. Counted'
  BY <1>2 DEF SpInv, Counted, SpScored
<1> QED BY <1>6, <1>8, <1>9, <1>10, <1>11 DEF SpInv

\* Before the tournament starts.
LEMMA SpInitially ==
    ASSUME SpInit
    PROVE  SpInv
<1>1. /\ spCount = 0 /\ spPlayed = {} /\ spPile = <<>> /\ spFinals = 0 /\ spFinished = FALSE
      /\ spRunner = "none" /\ spLoop = "idle" /\ spW = [w \in SpWorkers |-> SpNoGame]
      /\ spResults = [r \in 0..2 |-> [c \in 0..1 |-> 0]] /\ spFirstBlack \in BOOLEAN
  BY DEF SpInit
<1>2. IsGame(SpNoGame) /\ SpNoGame.pc = "off" /\ SpNoGame.result = "undecided" /\ SpNoGame.abort = FALSE
  BY DEF SpNoGame, IsGame
<1>3. \A w \in SpWorkers : spW[w] = SpNoGame
  BY <1>1
<1>4. spTotal \in Int
  BY SpAssumption DEF SpInit
<1>5. IsFiniteSet(spPlayed) /\ \A r, c : Cardinality(SpScored(r, c)) = 0
  <2>1. \A r, c : SpScored(r, c) = {}
    BY <1>1 DEF SpScored
  <2> QED BY <1>1, <2>1, FS_EmptySet
<1>6. SpTypes
  BY <1>1, <1>2, <1>3, <1>4, <1>5 DEF SpTypes
<1>7. \A w \in SpWorkers : ~Playing(spW[w]) /\ ~Chosen(spW[w]) /\ ~Aborted(spW[w]) /\ spW[w].pc = "off"
  BY <1>2, <1>3 DEF Playing, Chosen, Aborted
<1>8. Numbered
  BY <1>1, <1>7 DEF Numbered
<1>9. Undisturbed
  BY <1>1, <1>7 DEF Undisturbed
<1>10. Waiting
  BY <1>1, <1>7 DEF Waiting
<1>11. Counted
  BY <1>1, <1>5 DEF Counted
<1> QED BY <1>6, <1>8, <1>9, <1>10, <1>11 DEF SpInv

\* Every step, of a worker or of another thread, keeps the invariant.
LEMMA SpStep ==
    ASSUME SpInv, [SpNext]_spVars
    PROVE  SpInv'
<1>1. CASE SpStartAsync
  BY <1>1, StartKeeps
<1>2. CASE SpRunnerWaits
  BY <1>2, RunnerKeeps
<1>3. CASE SpQuit
  BY <1>3, QuitKeeps
<1>4. CASE SpCmdStart \/ SpCmdStop \/ SpCmdStopWaits \/ SpJoinRunner \/ UNCHANGED spVars
  BY <1>4, CommandsKeep
<1>5. ASSUME NEW w \in SpWorkers, SpWorkerStep(w) PROVE SpInv'
  <2>1. CASE SpTake(w)
    BY <2>1, TakeKeeps
  <2>2. CASE SpCountGame(w)
    BY <2>2, CountKeeps
  <2>3. CASE SpErase(w)
    BY <2>3, BetweenGames
  <2>4. CASE SpChoose(w) \/ SpRegister(w) \/ SpLoopHead(w) \/ SpCreateSearch(w) \/ SpSearched(w)
    BY <2>4, PlayKeeps
  <2> QED BY <1>5, <2>1, <2>2, <2>3, <2>4 DEF SpWorkerStep
<1> QED BY <1>1, <1>2, <1>3, <1>4, <1>5 DEF SpNext

\* The two games of a pair: player 1 has both colours, on the same opening.
LEMMA Pairs ==
    ASSUME SpInv, NEW p \in spPlayed, NEW q \in spPlayed,
           p.game \div 2 = q.game \div 2, p.game # q.game
    PROVE  /\ p.colour # q.colour
           /\ (spMode = "mirrored" /\ SpDiscarded \notin {p.opening, q.opening}) =>
                 p.opening = q.opening
<1>1. /\ p.game \in Int /\ q.game \in Int /\ spFirstBlack \in BOOLEAN
      /\ Assigned(p.game, p.colour, p.opening) /\ Assigned(q.game, q.colour, q.opening)
  BY DEF SpInv, Numbered, SpTypes
<1>2. PICK a \in Int, b \in Int : a = p.game /\ b = q.game
  BY <1>1
<1>3. (a % 2 = 1) <=> ~(b % 2 = 1)
  <2>1. a \div 2 = b \div 2 /\ a # b
    BY <1>2
  <2>2. a = 2 * (a \div 2) + (a % 2) /\ (a % 2) \in 0..1
    OBVIOUS
  <2>3. b = 2 * (b \div 2) + (b % 2) /\ (b % 2) \in 0..1
    OBVIOUS
  <2> QED BY <2>1, <2>2, <2>3
<1>4. p.colour # q.colour
  <2>1. p.colour = SpPlayer1Colour(a) /\ q.colour = SpPlayer1Colour(b)
    BY <1>1, <1>2 DEF Assigned
  <2>2. CASE spFirstBlack = TRUE
    BY <1>3, <2>1, <2>2 DEF SpPlayer1Colour
  <2>3. CASE spFirstBlack = FALSE
    BY <1>3, <2>1, <2>3 DEF SpPlayer1Colour
  <2> QED BY <1>1, <2>2, <2>3
<1>5. ASSUME spMode = "mirrored", SpDiscarded \notin {p.opening, q.opening} PROVE p.opening = q.opening
  <2>1. p.opening \in SpBookOpening(p.game) /\ q.opening \in SpBookOpening(q.game)
    BY <1>1, <1>5 DEF Assigned
  <2>2. /\ SpBookOpening(p.game) = {SpOpenings[((p.game \div 2) % Len(SpOpenings)) + 1]}
        /\ SpBookOpening(q.game) = {SpOpenings[((q.game \div 2) % Len(SpOpenings)) + 1]}
    BY <1>5 DEF SpBookOpening
  <2> QED BY <2>1, <2>2
<1> QED BY <1>4, <1>5

\* The final report of a tournament is sent once and only when every game has been
\* played and counted, the table of results has each decided game in its place, and
\* mirrored pairs are fair, for any number of workers and games.
THEOREM ResultsComplete == SpSpec => []SpResultsComplete
<1>1. ASSUME SpInv PROVE SpResultsComplete
  <2>1. /\ spFinals <= 1
        /\ spFinished => /\ SpLimitReached /\ Cardinality(spPlayed) = spCount
                         /\ \A w \in SpWorkers : spW[w].pc \in {"off", "exited"}
    BY <1>1 DEF SpInv, Waiting
  <2>2. \A r \in 0..2, c \in 0..1 : spResults[r][c] = Cardinality(SpScored(r, c))
    BY <1>1 DEF SpInv, Counted
  <2>3. ASSUME NEW p \in spPlayed, NEW q \in spPlayed,
               p.game \div 2 = q.game \div 2, p.game # q.game
        PROVE  /\ p.colour # q.colour
               /\ (spMode = "mirrored" /\ SpDiscarded \notin {p.opening, q.opening}) =>
                     p.opening = q.opening
    BY <1>1, <2>3, Pairs
  <2> QED BY <2>1, <2>2, <2>3 DEF SpResultsComplete
<1>2. SpSpec => []SpInv
  BY SpInitially, SpStep, PTL DEF SpSpec
<1> QED BY <1>1, <1>2, PTL

=============================================================================
