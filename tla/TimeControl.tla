----------------------------- MODULE TimeControl -----------------------------
(***************************************************************************)
(* Time managers and stoppers (src/mcts/stoppers): a time manager builds   *)
(* the chain of stoppers of every move; the search threads take a snapshot *)
(* of the statistics of the search and hand it to the chain under a lock,  *)
(* later and in any order.                                                 *)
(*                                                                         *)
(* Times are milliseconds.  Floating-point numbers are fixed-point numbers *)
(* rounded down, fractions are percents, and the two results that are not  *)
(* numbers (infinity and NaN) are TmNaN.  The constants too large for TLC  *)
(* (3 years, 4e9 playouts, 2^64) are scaled down and named.                *)
(***************************************************************************)
EXTENDS Integers, Sequences, SequencesExt, FiniteSetsExt

CONSTANTS
  TmThreads,    \* the threads that call MaybeTriggerStop
  TmCases,      \* the games to play
  TmNaN,        \* a float that is not a number
  TmNone        \* an absent optional, a null pointer

(* A case is a record of the options and of the go parameters (0: absent), *)
(* of the inputs left open (est, visits, more, win, low, uci: sets to      *)
(* choose from) and of the bounds: moves of the game, maxTime and          *)
(* maxPlayouts of a search, step of the clock, threads in use.             *)

VARIABLES
  tmCase,       \* the game being played
  tmManager,    \* the time manager's own state
  tmClock,      \* our clock, as the GUI sends it
  tmMove,       \* moves played so far
  tmChain,      \* stoppers_ of the running search, TmNone between searches
  tmSearch,     \* the running search
  tmStats,      \* each thread's IterationStats, TmNone when it has none
  tmStopped     \* the reason the search stopped for, TmNone while it runs

tmVars == <<tmCase, tmManager, tmClock, tmMove, tmChain, tmSearch, tmStats,
            tmStopped>>

-----------------------------------------------------------------------------
(* Scaled constants. *)

TmForever == 10000             \* 100000000000 ms
TmUnlimited == 4000            \* 4000000000 playouts
TmWord == 65536                \* 2^64, of the unsigned memory arithmetic
kSmartPruningToleranceMs == 200
kSmartPruningToleranceNodes == 300
kAvgNodeSize == 100
kAvgCacheItemSize == 20

AtLeast(a, b) == IF a < b THEN b ELSE a
AtMost(a, b) == IF a > b THEN b ELSE a

(* to - (to - from) * 0.5^(value/step): exact at whole steps, linear between*)
(* them; no more than ten halvings.  Not a number if an argument is not.   *)
ExponentialDecay(from, to, step, value) ==
  IF TmNaN \in {from, to} THEN TmNaN
  ELSE LET k == AtMost(value \div step, 10)
       IN  to - ((to - from) * (2 * step - (value % step)))
                  \div (2 * step * 2^k)

-----------------------------------------------------------------------------
(* Hints. *)

HintsReset == [time |-> TmForever, playouts |-> TmUnlimited, nps |-> TmNone]

UpdateEstimatedRemainingTimeMs(h, v) == [h EXCEPT !.time = AtMost(@, v)]
UpdateEstimatedRemainingPlayouts(h, v) == [h EXCEPT !.playouts = AtMost(@, v)]
GetEstimatedRemainingPlayouts(h) == AtLeast(h.playouts, 1)

-----------------------------------------------------------------------------
(* Stoppers.  Each ShouldStop returns whether to stop, the stopper, the    *)
(* hints and the time manager as it leaves them.                           *)

Verdict(stop, s, h, m) == [stop |-> stop, s |-> s, h |-> h, m |-> m]

VisitsStopper(limit, populate) ==
  [kind |-> "visits", limit |-> IF limit = 0 THEN TmUnlimited ELSE limit,
   populate |-> populate]

PlayoutsStopper(limit, populate) ==
  [kind |-> "playouts", limit |-> limit, populate |-> populate]

(* Unsigned arithmetic: what the cache takes may exceed the limit.         *)
MemoryWatchingStopper(cache, ramLimit, populate) ==
  VisitsStopper(((ramLimit - cache * kAvgCacheItemSize) % TmWord)
                  \div kAvgNodeSize, populate)

NodesShouldStop(s, nodes, h, m) ==
  Verdict(nodes >= s.limit, s,
          IF s.populate THEN UpdateEstimatedRemainingPlayouts(h, s.limit - nodes)
                        ELSE h, m)

TimeLimitShouldStop(s, st, h, m) ==
  Verdict(st.time >= s.limit, s,
          UpdateEstimatedRemainingTimeMs(h, s.limit - st.time), m)

DepthShouldStop(s, st, h, m) == Verdict(st.depth >= s.depth, s, h, m)

(* Enough new nodes to look at the gain.                                   *)
KldInterval(s, st) == st.total - 1 >= s.prevNodes + s.interval
KldCompares(s, st) == KldInterval(s, st) /\ s.prev # << >>

(* The logarithm of a quotient whose divisor is zero: never below the      *)
(* minimum.                                                                *)
KldGainInfinite(s, st) ==
  \E e \in DOMAIN st.edges : s.prev[e] # 0 /\ st.edges[e] = 0

(* low: a finite gain per node since the last look is below the minimum.   *)
KldShouldStop(s, st, low, h, m) ==
  IF KldCompares(s, st) /\ ~KldGainInfinite(s, st) /\ low
  THEN Verdict(TRUE, s, h, m)
  ELSE IF KldInterval(s, st)
       THEN Verdict(FALSE, [s EXCEPT !.prev = st.edges,
                                     !.prevNodes = st.total - 1], h, m)
       ELSE Verdict(FALSE, s, h, m)

(* Smart pruning looks at nothing before the first evaluation is old enough*)
PruneEstimates(s, st) ==
  /\ s.first # TmNone
  /\ Len(st.edges) > 0
  /\ st.time >= s.first + kSmartPruningToleranceMs

PruneNps(s, st, h) ==
  IF h.nps # TmNone THEN h.nps
  ELSE (1000 * (st.playouts + kSmartPruningToleranceNodes))
         \div (st.time - s.first) + 1

PruneRemaining(s, st, h) ==
  AtMost((h.time * PruneNps(s, st, h)) \div (10 * s.factor),
         (100 * GetEstimatedRemainingPlayouts(h)) \div s.factor)

LargestN(edges) == FoldLeft(AtLeast, 0, edges)
SecondLargestN(edges) ==
  FoldLeft(LAMBDA acc, n: IF n > acc[1] THEN <<n, acc[1]>>
                          ELSE <<acc[1], AtLeast(acc[2], n)>>,
           <<0, 0>>, edges)[2]

\* A mutant of CannotBeCaught: a tie counts as out of reach.
CannotBeOvertaken(remaining, edges) ==
  remaining <= LargestN(edges) - SecondLargestN(edges)

CannotBeCaught(remaining, edges) ==
  remaining < LargestN(edges) - SecondLargestN(edges)

SmartPruningShouldStop(s, st, h, m) ==
  IF Len(st.edges) = 1 \/ st.win THEN Verdict(TRUE, s, h, m)
  ELSE IF st.playouts > 0 /\ s.first = TmNone
       THEN Verdict(FALSE, [s EXCEPT !.first = st.time], h, m)
  ELSE IF ~PruneEstimates(s, st) THEN Verdict(FALSE, s, h, m)
  ELSE LET r == PruneRemaining(s, st, h)
       IN  Verdict(st.batches >= s.batches /\ CannotBeCaught(r, st.edges),
                   s, UpdateEstimatedRemainingPlayouts(h, r), m)

-----------------------------------------------------------------------------
(* The smooth time manager. *)

SmoothParams ==
  [initReuse |-> 50, maxReuse |-> 80, reuseRate |-> 300,
   initUse |-> 50, minUse |-> 20, useRate |-> 300, maxBudget |-> 30,
   initPiggy |-> 0, perMovePiggy |-> 18, maxPiggyUse |-> 95,
   maxPiggyMoves |-> 27]

(* rate: the option nps-update-rate.                                       *)
SmoothTimeManager(rate) ==
  [kind |-> "smooth", npsRate |-> rate, reuse |-> SmoothParams.initReuse, nps |-> 20000,
   reliable |-> FALSE, use |-> SmoothParams.initUse, avg |-> 0, alloc |-> 0,
   lastNodes |-> 0, lastTime |-> 0, piggy |-> 0, first |-> TRUE]

\* A mutant of UpdateNps: an older report is averaged in as well, and the time since the
\* last one is negative.
UpdateNpsUnordered(m, time, nodes) ==
  IF time <= 0 THEN m
  ELSE LET nps == (1000 * nodes) \div time
       IN  [m EXCEPT !.lastTime = time,
                     !.nps = IF ~m.reliable THEN nps
                             ELSE IF time >= m.lastTime
                             THEN ExponentialDecay(@, nps, m.npsRate, time - m.lastTime)
                             ELSE nps - (nps - @) * 2^((m.lastTime - time) \div m.npsRate)]

UpdateNps(m, time, nodes) ==
  IF time <= 0 THEN m
  ELSE LET nps == (1000 * nodes) \div time
       IN  [m EXCEPT !.lastTime = time,
                     !.nps = IF m.reliable /\ time >= m.lastTime
                             THEN ExponentialDecay(@, nps, m.npsRate, time - m.lastTime)
                             ELSE nps]

(* The part of an average move a move of this length was, in percent.      *)
MoveFraction(m, time) ==
  IF m.avg = TmNaN \/ m.avg <= 0 THEN 0 ELSE (100 * time) \div m.avg

(* total_move_time / move_allocated_time_ms_                               *)
TimeUse(m, time) ==
  IF m.alloc \in {0, TmNaN} THEN TmNaN ELSE (100 * time) \div m.alloc

UpdateEndOfMoveStats(m, time, usedPiggy, budget, totalNodes) ==
  LET use == ExponentialDecay(m.use, TimeUse(m, time), SmoothParams.useRate,
                              MoveFraction(m, time))
  IN  [m EXCEPT
         !.reliable = TRUE,
         !.lastNodes = totalNodes,
         !.piggy = IF usedPiggy THEN @ - AtLeast(time - budget, 0) ELSE @,
         !.use = IF usedPiggy THEN @
                 ELSE IF use # TmNaN /\ use < SmoothParams.minUse
                      THEN SmoothParams.minUse ELSE use]

UpdateTreeReuseFactor(m, nodes) ==
  [m EXCEPT !.reuse =
     AtMost(ExponentialDecay(@, (100 * nodes) \div m.lastNodes,
                             SmoothParams.reuseRate,
                             MoveFraction(m, m.lastTime)),
            SmoothParams.maxReuse)]

SmoothBegin(m0, time, nodes) ==
  LET m1 == IF m0.first
            THEN [m0 EXCEPT !.first = FALSE,
                            !.piggy = (time * SmoothParams.initPiggy) \div 100]
            ELSE m0
      m2 == IF m1.lastNodes # 0 /\ m1.lastTime # 0 /\ m1.avg >= 0
            THEN UpdateTreeReuseFactor(m1, nodes) ELSE m1
  IN  [m2 EXCEPT !.lastTime = 0]

(* The budget of a move: the manager and the stopper's two limits.         *)
(* Undefined behaviour: ub is what a conversion of NaN to an integer gives. *)
SmoothGetStopper(m0, time, inc, movesLeft, overhead, nodes, ub) ==
  LET m == SmoothBegin(m0, time, nodes)
      horizon == inc * (movesLeft - 1) - overhead
      maxPiggy == (SmoothParams.maxPiggyMoves * AtLeast(time + horizon, 0))
                    \div movesLeft
      piggy == AtMost(m.piggy, maxPiggy)
      total == AtLeast(time - piggy + horizon, 0)
      perMove == ((total * m.nps) \div 1000) \div movesLeft
      fresh == (100 * perMove) \div (100 - m.reuse) - nodes
      brutto == (fresh * 1000) \div m.nps
      toPiggy == AtMost(maxPiggy - piggy,
                        (brutto * SmoothParams.perMovePiggy) \div 100)
      cap == (time * SmoothParams.maxBudget) \div 100
      alloc == IF m.use = TmNaN THEN TmNaN
               ELSE AtMost((100 * (brutto - toPiggy)) \div m.use, cap)
  IN  [manager |-> [m EXCEPT !.avg = total \div movesLeft, !.alloc = alloc,
                             !.piggy = piggy + toPiggy],
       deadline |-> IF alloc = TmNaN THEN ub ELSE alloc,
       allowed |-> (piggy * SmoothParams.maxPiggyUse) \div 100]

SmoothShouldStop(s, st, h, m) ==
  LET m1 == UpdateNps(m, st.sinceFirst, st.playouts)
      limit == IF st.needMore THEN s.deadline + s.allowed ELSE s.deadline
      s1 == IF st.needMore /\ st.time >= s.deadline
            THEN [s EXCEPT !.used = TRUE] ELSE s
  IN  Verdict(st.time >= limit, s1,
              UpdateEstimatedRemainingTimeMs([h EXCEPT !.nps = m1.nps],
                                             limit - st.time), m1)

-----------------------------------------------------------------------------
(* The other time managers. *)

LegacyTimeManager == [kind |-> "legacy", spared |-> 0]

(* slow: slowmover in percent; use: immediate-use in percent.              *)
LegacyGetStopper(m, time, inc, movesLeft, overhead, slow, use) ==
  LET squander == IF m.spared > 0 THEN (m.spared * use) \div 100 ELSE 0
      total == AtLeast(time + inc * (movesLeft - 1) - overhead, 0) - squander
      share == total \div movesLeft
      extend == slow < 100 \/ share * slow > 100 * kSmartPruningToleranceMs
      this == IF extend THEN (share * slow) \div 100 ELSE share
      excess == IF extend THEN (this * (slow - 100)) \div 100 ELSE 0
  IN  [manager |-> [m EXCEPT !.spared = @ - squander - excess],
       deadline |-> AtMost(this + squander, time - overhead)]

AlphazeroGetStopper(time, overhead, pct) == ((time - overhead) * pct) \div 100

(* MakeTimeManager: one known manager and no unknown option, or an         *)
(* exception.                                                              *)
MakeTimeManager(c) ==
  CASE c.manager = "legacy" -> LegacyTimeManager
    [] c.manager = "smooth" -> SmoothTimeManager(c.npsRate)
    [] c.manager = "alphazero" /\ c.pct \in 0..100 -> [kind |-> "alphazero"]
    [] OTHER -> [kind |-> "exception"]

-----------------------------------------------------------------------------
(* Building the chain. *)

Untimed(c) == c.infinite \/ ~c.timed

(* ComputeEstimatedMovesToGo is the input est; movestogo bounds it.        *)
MovesLeft(c, est) ==
  IF c.movestogo > 0 /\ c.movestogo < est THEN c.movestogo ELSE est

ChildGetStopper(c, m, time, est, nodes, ub) ==
  IF Untimed(c) THEN [manager |-> m, stopper |-> << >>]
  ELSE LET left == MovesLeft(c, est)
           inc == AtLeast(c.inc, 0)
       IN  CASE m.kind = "legacy" ->
                  LET g == LegacyGetStopper(m, time, inc, left, c.overhead,
                                            c.slow, c.use)
                  IN  [manager |-> g.manager,
                       stopper |-> <<[kind |-> "legacy", limit |-> g.deadline]>>]
             [] m.kind = "smooth" ->
                  LET g == SmoothGetStopper(m, time, inc, left, c.overhead,
                                            nodes, ub)
                  IN  [manager |-> g.manager,
                       stopper |-> <<[kind |-> "smooth", used |-> FALSE,
                                      deadline |-> g.deadline,
                                      allowed |-> g.allowed]>>]
             [] m.kind = "alphazero" ->
                  [manager |-> m,
                   stopper |-> <<[kind |-> "time",
                                  limit |-> AlphazeroGetStopper(time, c.overhead,
                                                                c.pct)]>>]

(* Smart pruning reads the hints of all others: it is last in the chain.   *)
PopulateIntrinsicStoppers(c) ==
  (IF c.kld > 0
   THEN <<[kind |-> "kld", interval |-> c.kld, prev |-> << >>,
           prevNodes |-> 0]>> ELSE << >>)
  \o (IF c.factor > 0
      THEN <<[kind |-> "prune", factor |-> c.factor, batches |-> c.batches,
              first |-> TmNone]>> ELSE << >>)

PopulateCommonUciStoppers(c) ==
  LET populate == c.factor > 0
  IN  (IF c.ram # 0 THEN <<MemoryWatchingStopper(c.cache, c.ram, populate)>>
                    ELSE << >>)
      \o (IF c.nodes > 0 /\ c.asPlayouts
          THEN <<PlayoutsStopper(c.nodes, populate)>> ELSE << >>)
      \o <<VisitsStopper(IF c.asPlayouts THEN 0 ELSE c.nodes, populate)>>
      \o (IF c.movetime > 0 /\ ~c.infinite
          THEN <<[kind |-> "time", limit |-> c.movetime - c.overhead]>>
          ELSE << >>)
      \o (IF c.depth > 0 THEN <<[kind |-> "depth", depth |-> c.depth]>>
                         ELSE << >>)
      \o (IF c.infinite THEN << >> ELSE PopulateIntrinsicStoppers(c))

-----------------------------------------------------------------------------
(* The chain at work. *)

StopperVerdict(s, st, low, h, m) ==
  CASE s.kind = "visits" -> NodesShouldStop(s, st.total, h, m)
    [] s.kind = "playouts" -> NodesShouldStop(s, st.playouts, h, m)
    [] s.kind \in {"time", "legacy"} -> TimeLimitShouldStop(s, st, h, m)
    [] s.kind = "depth" -> DepthShouldStop(s, st, h, m)
    [] s.kind = "kld" -> KldShouldStop(s, st, low, h, m)
    [] s.kind = "smooth" -> SmoothShouldStop(s, st, h, m)
    [] s.kind = "prune" -> SmartPruningShouldStop(s, st, h, m)

(* One after the other until one stops; the later ones see its hints.      *)
ChainShouldStop(chain, st, low, m) ==
  FoldLeft(LAMBDA acc, s:
             IF acc.why # TmNone THEN [acc EXCEPT !.chain = Append(@, s)]
             ELSE LET v == StopperVerdict(s, st, low, acc.h, acc.m)
                  IN  [why |-> IF v.stop THEN s.kind ELSE TmNone,
                       chain |-> Append(acc.chain, v.s), h |-> v.h, m |-> v.m],
           [why |-> TmNone, chain |-> << >>, h |-> HintsReset, m |-> m], chain)

(* OnSearchDone of every stopper: legacy and smooth report to the manager. *)
ChainOnSearchDone(chain, st, m) ==
  FoldLeft(LAMBDA acc, s:
             CASE s.kind = "legacy" ->
                    [acc EXCEPT !.spared = @ + s.limit - st.time]
               [] s.kind = "smooth" ->
                    UpdateEndOfMoveStats(acc, st.time, s.used, s.deadline,
                                         st.total)
               [] OTHER -> acc,
           m, chain)

-----------------------------------------------------------------------------
(* The search, as far as its statistics go: edges is empty until the root  *)
(* is expanded; the first playout expands it.  draws: visits of the reused *)
(* tree to a node that is a draw by a position before the root; reverted:  *)
(* the ones taken back.                                                    *)

NewSearch(c, visits, draws) ==
  [time |-> 0, firstBatch |-> TmNone, initial |-> visits, playouts |-> 0,
   draws |-> draws, reverted |-> 0,
   edges |-> IF visits = 0 THEN << >>
             ELSE [i \in 1..c.edges |-> IF i = 1 THEN visits - 1 ELSE 0]]

TmInit ==
  /\ tmCase \in TmCases
  /\ tmManager = MakeTimeManager(tmCase)
  /\ tmClock = tmCase.clock
  /\ tmMove = tmCase.played
  /\ tmChain = TmNone
  /\ tmSearch = NewSearch(tmCase, 0, 0)
  /\ tmStats = [t \in TmThreads |-> TmNone]
  /\ tmStopped = TmNone

(* CommonTimeManager::GetStopper for the next move of the game, with est   *)
(* moves to go and a tree of so many visits, draws of them on one edge.    *)
TmGo(est, visits, draws, ub) ==
  /\ tmChain = TmNone /\ tmMove < tmCase.moves
  /\ tmManager.kind # "exception"
  /\ tmMove = 0 => visits = 0
  /\ draws < AtLeast(visits, 1)
  /\ LET g == ChildGetStopper(tmCase, tmManager, tmClock, est, visits, ub)
     IN  /\ tmManager' = g.manager
         /\ tmChain' = g.stopper \o PopulateCommonUciStoppers(tmCase)
  /\ tmSearch' = NewSearch(tmCase, visits, draws)
  /\ UNCHANGED <<tmCase, tmClock, tmMove, tmStats, tmStopped>>

Searching == tmChain # TmNone /\ tmStopped = TmNone

TmTick ==
  /\ Searching /\ tmSearch.time < tmCase.maxTime
  /\ tmSearch' = [tmSearch EXCEPT !.time = @ + tmCase.step]
  /\ UNCHANGED <<tmCase, tmManager, tmClock, tmMove, tmChain, tmStats,
                 tmStopped>>

(* A playout reaches the edge e of the root, or expands the root.          *)
TmPlayout(e) ==
  /\ Searching /\ tmSearch.playouts < tmCase.maxPlayouts
  /\ IF tmSearch.edges = << >>
     THEN tmSearch' = [tmSearch EXCEPT !.playouts = 1,
                         !.edges = [i \in 1..tmCase.edges |-> 0]]
     ELSE /\ e \in DOMAIN tmSearch.edges
          /\ tmSearch' = [tmSearch EXCEPT !.playouts = @ + 1,
                            !.edges[e] = @ + 1]
  /\ UNCHANGED <<tmCase, tmManager, tmClock, tmMove, tmChain, tmStats,
                 tmStopped>>

\* A mutant of TmRevert: initial_visits_ is left alone.
TmRevertEdgesOnly ==
  /\ Searching /\ tmSearch.draws > 0
  /\ tmSearch' = [tmSearch EXCEPT !.draws = 0, !.reverted = tmSearch.draws,
                    !.edges[1] = @ - tmSearch.draws]
  /\ UNCHANGED <<tmCase, tmManager, tmClock, tmMove, tmChain, tmStats,
                 tmStopped>>

(* PickNodeToExtend meets the draw whose first occurrence was before the   *)
(* root: its visits are taken back up to the root, and off initial_visits_.*)
TmRevert ==
  /\ Searching /\ tmSearch.draws > 0
  /\ tmSearch' = [tmSearch EXCEPT !.draws = 0, !.reverted = tmSearch.draws,
                    !.initial = @ - tmSearch.draws, !.edges[1] = @ - tmSearch.draws]
  /\ UNCHANGED <<tmCase, tmManager, tmClock, tmMove, tmChain, tmStats,
                 tmStopped>>

(* PopulateCommonIterationStats: the time is read before the lock, the     *)
(* rest under it.  hint, win, depth and batches are what the tree says.    *)
TmReadTime(t) ==
  /\ Searching /\ tmStats[t] = TmNone
  /\ tmStats' = [tmStats EXCEPT ![t] = [time |-> tmSearch.time]]
  /\ UNCHANGED <<tmCase, tmManager, tmClock, tmMove, tmChain, tmSearch,
                 tmStopped>>

(* The first thread to see a playout starts the clock of the nps.          *)
NpsStarts == tmSearch.firstBatch = TmNone /\ tmSearch.playouts > 0

TmReadTree(t, needMore, win) ==
  /\ Searching /\ tmStats[t] # TmNone /\ DOMAIN tmStats[t] = {"time"}
  /\ tmSearch' = IF NpsStarts
                 THEN [tmSearch EXCEPT !.firstBatch = tmSearch.time] ELSE tmSearch
  /\ tmStats' = [tmStats EXCEPT ![t] =
       [time |-> @.time,
        sinceFirst |-> IF tmSearch.firstBatch = TmNone THEN 0
                       ELSE tmSearch.time - tmSearch.firstBatch,
        total |-> tmSearch.playouts + tmSearch.initial,
        playouts |-> tmSearch.playouts,
        batches |-> tmSearch.playouts, depth |-> tmSearch.playouts,
        edges |-> tmSearch.edges,
        win |-> win, needMore |-> needMore]]
  /\ UNCHANGED <<tmCase, tmManager, tmClock, tmMove, tmChain, tmStopped>>

(* MaybeTriggerStop, under both locks; the thread that stops the search    *)
(* reports its end.  uci: the user has stopped the search, and the chain   *)
(* is not asked.                                                           *)
TmMaybeTriggerStop(t, low, uci) ==
  /\ Searching /\ tmStats[t] # TmNone /\ DOMAIN tmStats[t] # {"time"}
  /\ LET v == IF uci THEN [why |-> "uci", chain |-> tmChain, h |-> HintsReset,
                           m |-> tmManager]
              ELSE ChainShouldStop(tmChain, tmStats[t], low, tmManager)
         root == tmSearch.playouts + tmSearch.initial > 0
     IN  /\ tmChain' = IF root THEN v.chain ELSE tmChain
         /\ tmManager' = IF root /\ v.why # TmNone
                         THEN ChainOnSearchDone(v.chain, tmStats[t], v.m)
                         ELSE IF root THEN v.m ELSE tmManager
         /\ tmStopped' = IF root THEN v.why ELSE TmNone
         /\ tmStats' = [tmStats EXCEPT ![t] =
                          IF tmStopped' # TmNone THEN @ ELSE TmNone]
  /\ UNCHANGED <<tmCase, tmClock, tmMove, tmSearch>>

(* The GUI takes the time of the move off our clock.                       *)
TmMovePlayed ==
  /\ tmStopped # TmNone
  /\ tmClock' = AtLeast(tmClock - tmSearch.time, 0) + AtLeast(tmCase.inc, 0)
  /\ tmMove' = tmMove + 1
  /\ tmChain' = TmNone
  /\ tmStopped' = TmNone
  /\ tmStats' = [t \in TmThreads |-> TmNone]
  /\ UNCHANGED <<tmCase, tmManager, tmSearch>>

TmNext ==
  \/ \E est \in tmCase.est, visits \in tmCase.visits,
        draws \in tmCase.draws, ub \in {0, -TmForever} : TmGo(est, visits, draws, ub)
  \/ TmTick
  \/ TmRevert
  \/ \E e \in 1..tmCase.edges : TmPlayout(e)
  \/ \E t \in tmCase.threads :
       \/ TmReadTime(t)
       \/ \E more \in tmCase.more, win \in tmCase.win : TmReadTree(t, more, win)
       \/ \E low \in tmCase.low, uci \in tmCase.uci : TmMaybeTriggerStop(t, low, uci)
  \/ TmMovePlayed

-----------------------------------------------------------------------------
(* Properties. *)

(* The nodes the search may still visit before its node limit.             *)
TmNodesLeft ==
  IF tmCase.asPlayouts THEN tmCase.nodes - tmSearch.playouts
                       ELSE tmCase.nodes - tmSearch.playouts - tmSearch.initial

(* Smart pruning with a factor of at most 1 stops `go nodes` only when no  *)
(* continuation up to the limit could change the most visited move,        *)
(* although the thread that decides looks at an old snapshot while others  *)
(* go on; only visits taken back meanwhile, which shorten the lead and     *)
(* leave as many more to come, can make up for more                        *)
(* (SmartPruningStopper::ShouldStop).                                      *)
TmPruneKeepsBest ==
  (/\ tmStopped = "prune" /\ Len(tmSearch.edges) > 1
   /\ tmCase.nodes > 0 /\ tmCase.factor <= 100 /\ tmCase.win = {FALSE}
   /\ tmCase.movetime = 0 /\ Untimed(tmCase)) =>
     \E b \in DOMAIN tmSearch.edges : \A o \in DOMAIN tmSearch.edges \ {b} :
        tmSearch.edges[o] + AtLeast(TmNodesLeft, 0)
          < tmSearch.edges[b] + 2 * tmSearch.reverted

(* What the stoppers compute is sound whatever old snapshot a late thread  *)
(* brings and whatever visits were taken back between two snapshots: the   *)
(* information gain compares two distributions over the same moves, whose  *)
(* visits add up to the nodes they are divided by, and is infinite only    *)
(* when the visits of a move were taken back; and the smooth manager's     *)
(* estimate of the speed, by which it divides on the next move, stays      *)
(* positive (KldGainStopper, UpdateNps).                                   *)
TmHasStats(t) == tmStats[t] # TmNone /\ DOMAIN tmStats[t] # {"time"}
TmDivisorsSound ==
  /\ tmChain # TmNone =>
       \A i \in DOMAIN tmChain, t \in TmThreads :
         LET s == tmChain[i] IN
         (s.kind = "kld" /\ TmHasStats(t) /\ KldCompares(s, tmStats[t])) =>
           /\ Len(s.prev) = Len(tmStats[t].edges)
           /\ FoldLeft(+, 0, s.prev) = s.prevNodes
           /\ FoldLeft(+, 0, tmStats[t].edges) = tmStats[t].total - 1
           /\ KldGainInfinite(s, tmStats[t]) => tmSearch.reverted > 0
  /\ tmManager.kind = "smooth" => tmManager.nps > 0
=============================================================================
