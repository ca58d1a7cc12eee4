--------------------------- MODULE MCTimeControl ---------------------------
(* Games for the time managers: searches limited by nodes with two threads
   whose statistics overtake each other, on fresh and on reused trees; games of
   up to three moves under a clock with one thread; and one of two moves under
   the smooth manager with two threads. *)
EXTENDS TimeControl

CONSTANTS t1, t2

Base ==
  [manager |-> "legacy", pct |-> 5, slow |-> 100, use |-> 100,
   clock |-> 1500, inc |-> 0, overhead |-> 100, timed |-> FALSE,
   infinite |-> FALSE, movestogo |-> 0, nodes |-> 0, asPlayouts |-> FALSE,
   movetime |-> 0, depth |-> 0, ram |-> 0, cache |-> 0, kld |-> 0, factor |-> 0,
   batches |-> 0, edges |-> 2, est |-> {2}, visits |-> {0}, more |-> {FALSE},
   win |-> {FALSE}, low |-> {FALSE}, uci |-> {FALSE}, moves |-> 1,
   played |-> 0, draws |-> {0}, npsRate |-> 5000, maxTime |-> 300, step |-> 100, maxPlayouts |-> 4, threads |-> {t1}]

Pair == [Base EXCEPT !.threads = {t1, t2}]
Clock == [Base EXCEPT !.timed = TRUE, !.step = 300, !.maxTime = 900,
                      !.maxPlayouts = 2, !.est = {1, 3}]

\* The second move of a game without a clock, on a tree that may hold draws to revert.
Reused == [Pair EXCEPT !.played = 1, !.moves = 2, !.visits = {4}, !.draws = {0, 1, 3},
                       !.step = 200, !.maxTime = 200, !.maxPlayouts = 3]

NodesCases ==
  {[Pair EXCEPT !.nodes = 5, !.factor = f, !.asPlayouts = p, !.maxTime = 200,
                !.step = 200] : f \in {50, 100}, p \in BOOLEAN}
  \cup {[Pair EXCEPT !.kld = 1, !.low = BOOLEAN, !.step = 300],
        [Base EXCEPT !.nodes = 4, !.factor = 133, !.moves = 2, !.batches = 3,
                     !.visits = {0, 2}],
        [Reused EXCEPT !.nodes = 7, !.factor = 100],
        [Reused EXCEPT !.kld = 1, !.low = BOOLEAN]}
LegacyCases ==
  {[Clock EXCEPT !.moves = 3, !.slow = s[1], !.use = s[2], !.inc = 200 * g,
                 !.movestogo = 1 - g] : s \in {<<50, 100>>, <<200, 50>>}, g \in {0, 1}}
SmoothCases ==
  {[Clock EXCEPT !.manager = "smooth", !.moves = 2, !.factor = f,
                 !.inc = 2 * f, !.visits = {0, f \div 50}, !.more = BOOLEAN, !.step = 400,
                 !.maxTime = 800] : f \in {0, 100}}
  \cup {[Clock EXCEPT !.manager = "smooth", !.moves = 2, !.threads = {t1, t2},
                      !.clock = 4000, !.est = {1}, !.step = 500, !.maxTime = 1000,
                      !.npsRate = 500, !.uci = BOOLEAN]}
OtherCases ==
  {[Clock EXCEPT !.manager = "alphazero", !.pct = p] : p \in {5, 50, 101}}
  \cup {[Base EXCEPT !.manager = "unknown"],
        [Base EXCEPT !.movetime = 300, !.win = BOOLEAN, !.factor = 100],
        [Base EXCEPT !.infinite = TRUE, !.timed = TRUE, !.uci = BOOLEAN],
        [Base EXCEPT !.depth = 2, !.edges = 1, !.factor = 100],
        [Base EXCEPT !.ram = 300, !.cache = 5],
        [Base EXCEPT !.ram = 300, !.cache = 20]}
TmMCCases == {Base} \cup NodesCases \cup LegacyCases \cup SmoothCases \cup OtherCases
=============================================================================
