---------------------------- MODULE SyzygyProbe ----------------------------
(***************************************************************************)
(* Probing the Syzygy tables (src/syzygy/syzygy.cc): what search, probe_dtz*)
(* and root_probe make of the stored values.                               *)
(*                                                                         *)
(* A game is a function from positions to records: moves, a sequence of    *)
(* [kind, to], kind one of quiet, pawn, capture, ep; check, whether the    *)
(* side to move is in check; wdl and dtz, the value of a position whose    *)
(* moves are not looked at (inner = FALSE).  tab says what the tables hold.*)
(* A case of kind game is about one game.                                  *)
(***************************************************************************)
EXTENDS SyzygyTables

-----------------------------------------------------------------------------
(* Values. *)

dtz_before_zeroing(wdl) == <<-1, -101, 0, 101, 1>>[wdl + 3]

is_capture(m) == m.kind \in {"capture", "ep"}
ZeroingMove(m) == m.kind # "quiet"
Mated(g, p) == g[p].inner /\ g[p].moves = << >> /\ g[p].check

(* probe_wdl_table and probe_dtz_table give a value and a state.           *)
FAIL == "fail"
OK == "ok"
CHANGE_STM == "change"
ZEROING_BEST_MOVE == "zeroing"
Probe(v, st) == [v |-> v, st |-> st]

probe_wdl_table(tab, p) ==
  IF tab[p].hasWdl THEN Probe(tab[p].wdl, OK) ELSE Probe(0, FAIL)

(* The DTZ a table holds for a position of result wdl: through the map of  *)
(* that result if the table has maps, and in moves unless its flags say    *)
(* that wins or losses are in plies.  Cursed results always are in moves.  *)
kWdlToMap(wdl) == <<1, 3, 0, 2, 0>>[wdl + 3]
StoredDtz(entry, wdl) ==
  LET v == IF entry.mapped THEN entry.dtzMap[kWdlToMap(wdl)][entry.code] ELSE entry.code
  IN  IF wdl \in entry.inPlies \cap {-2, 2} THEN v ELSE v * 2
probe_dtz_table(tab, p, wdl) ==
  CASE ~tab[p].hasDtz -> Probe(0, FAIL)
    [] tab[p].hasDtz /\ tab[p].otherSide -> Probe(0, CHANGE_STM)
    [] tab[p].hasDtz /\ ~tab[p].otherSide -> Probe(StoredDtz(tab[p], wdl), OK)

(* The end of search: the better of the captures and the stored value.     *)
AfterTable(best, value, exhausted) ==
  IF best >= value
  THEN Probe(best, IF best > 0 \/ exhausted THEN ZEROING_BEST_MOVE ELSE OK)
  ELSE Probe(value, OK)

(* search: acc folds the captures (and pawn moves) of the list.            *)
RECURSIVE search(_, _, _, _)
search(g, tab, p, zeroing) ==
  LET looked == SelectSeq(g[p].moves,
                          LAMBDA m: is_capture(m) \/ (zeroing /\ ZeroingMove(m)))
      try(acc, m) ==
        IF acc.st # OK THEN acc
        ELSE LET r == search(g, tab, m.to, FALSE)
             IN  IF r.st = FAIL THEN Probe(0, FAIL)
                 ELSE IF -r.v >= 2 THEN Probe(-r.v, ZEROING_BEST_MOVE)
                 ELSE Probe(IF -r.v > acc.v THEN -r.v ELSE acc.v, OK)
      best == FoldLeft(try, Probe(-2, OK), looked)
      exhausted == looked # << >> /\ Len(looked) = Len(g[p].moves) /\ g[p].inner
      t == IF exhausted THEN Probe(best.v, OK) ELSE probe_wdl_table(tab, p)
  IN  IF best.st # OK THEN best
      ELSE IF t.st = FAIL THEN Probe(0, FAIL)
      ELSE AfterTable(best.v, t.v, exhausted)

probe_wdl(g, tab, p) == search(g, tab, p, FALSE)

\* A mutant of MoveDtz: a zeroing move is given the distance after it.
MoveDtzAfterZeroing(m, after, mates) ==
  IF mates THEN 1 ELSE -after + TbSign(-after)

(* A move of the one-ply search: the value of the position after it,       *)
(* turned round and counted from before the move.                          *)
MoveDtz(m, after, mates) ==
  CASE ZeroingMove(m) -> -after
    [] ~ZeroingMove(m) /\ mates -> 1
    [] ~ZeroingMove(m) /\ ~mates -> -after + TbSign(-after)

RECURSIVE probe_dtz(_, _, _)
probe_dtz(g, tab, p) ==
  LET ms == g[p].moves
      next(m) == IF ZeroingMove(m)
                 THEN LET r == search(g, tab, m.to, FALSE)
                      IN  Probe(dtz_before_zeroing(r.v), r.st)
                 ELSE probe_dtz(g, tab, m.to)
      dtz(m, after) == MoveDtz(m, after, Mated(g, m.to))
      useful(wdl, dtzs) == {d \in dtzs : TbSign(d) = TbSign(wdl)}
      least(S) == IF S = {} THEN -1 ELSE Min(S)
      onePly(wdl, after) ==
        IF \E i \in DOMAIN ms : after[i].st = FAIL THEN Probe(0, FAIL)
        ELSE Probe(least(useful(wdl, {dtz(ms[i], after[i].v) : i \in DOMAIN ms})), OK)
      byTable(wdl, t) ==
        CASE t.st = FAIL -> Probe(0, FAIL)
          [] t.st = OK ->
               Probe((t.v + 1 + (IF wdl \in {-1, 1} THEN 100 ELSE 0)) * TbSign(wdl), OK)
          [] t.st = CHANGE_STM -> onePly(wdl, [i \in DOMAIN ms |-> next(ms[i])])
      result(s) ==
        CASE s.st = FAIL \/ s.v = 0 -> Probe(0, s.st)
          [] s.st = ZEROING_BEST_MOVE /\ s.v # 0 -> Probe(dtz_before_zeroing(s.v), s.st)
          [] s.st = OK /\ s.v # 0 -> byTable(s.v, probe_dtz_table(tab, p, s.v))
  IN  result(search(g, tab, p, TRUE))

-----------------------------------------------------------------------------
(* Ranking the moves of the root. *)

Rank(dtz, cnt50, rep) ==
  CASE dtz > 0 -> IF dtz + cnt50 <= 99 /\ ~rep THEN 1000
                                               ELSE 1000 - (dtz + cnt50)
    [] dtz < 0 -> IF -dtz * 2 + cnt50 < 100 THEN -1000
                                            ELSE -1000 + (cnt50 - dtz)
    [] dtz = 0 -> 0

(* The moves of rank max(ranks, -1000); failed when a probe failed.        *)
SafeMoves(ranks) ==
  {i \in DOMAIN ranks : ranks[i] = Max({ranks[j] : j \in DOMAIN ranks} \cup {-1000})}

root_probe(g, tab, p, cnt50, rep) ==
  LET ms == g[p].moves
      probe(m) == IF ZeroingMove(m)
                  THEN LET w == probe_wdl(g, tab, m.to)
                       IN  Probe(dtz_before_zeroing(-w.v), w.st)
                  ELSE LET d == probe_dtz(g, tab, m.to)
                       IN  Probe(-d.v + TbSign(-d.v), d.st)
      dtz(m, v) == IF Mated(g, m.to) /\ v = 2 THEN 1 ELSE v
      chosen(probes) ==
        IF \E i \in DOMAIN ms : probes[i].st = FAIL
        THEN [done |-> FALSE, safe |-> {}]
        ELSE [done |-> TRUE,
              safe |-> SafeMoves([i \in DOMAIN ms |->
                         Rank(dtz(ms[i], probes[i].v), cnt50, rep)])]
  IN  chosen([i \in DOMAIN ms |-> probe(ms[i])])

root_probe_wdl(g, tab, p) ==
  LET ms == g[p].moves
      probes == [i \in DOMAIN ms |-> probe_wdl(g, tab, ms[i].to)]
  IN  IF \E i \in DOMAIN ms : probes[i].st = FAIL
      THEN [done |-> FALSE, safe |-> {}]
      ELSE [done |-> TRUE,
            safe |-> SafeMoves([i \in DOMAIN ms |->
                       <<-1000, -899, 0, 899, 1000>>[-probes[i].v + 3]])]

-----------------------------------------------------------------------------
(* What a position is worth, and what its tables may hold.                 *)

(* The best a side can get with the moves in S: the larger number, except  *)
(* that the loser prefers the longer and the winner the shorter way.       *)
SzBestDtz(vals) ==
  LET won == {v \in vals : v > 0}  lost == {v \in vals : v < 0}
  IN  IF won # {} THEN Min(won) ELSE IF 0 \in vals THEN 0 ELSE Min(lost)

SzWdlOf(dtz) == CASE dtz > 100 -> 1 [] dtz \in 1..100 -> 2 [] dtz = 0 -> 0
                  [] dtz \in -100..-1 -> -2 [] dtz < -100 -> -1

(* The distance to the next zeroing move under best play, by the rules;    *)
(* without en passant if ep is FALSE.                                      *)
RECURSIVE SzTrueDtz(_, _, _)
SzTrueDtz(g, p, ep) ==
  LET ms == SelectSeq(g[p].moves, LAMBDA m: ep \/ m.kind # "ep")
      val(m) == LET d == SzTrueDtz(g, m.to, TRUE)
                IN  IF ZeroingMove(m) THEN dtz_before_zeroing(-SzWdlOf(d))
                    ELSE IF Mated(g, m.to) THEN 1 ELSE -d + TbSign(-d)
  IN  IF ~g[p].inner THEN g[p].dtz
      ELSE IF ms = << >> THEN IF g[p].check THEN -1 ELSE 0
      ELSE SzBestDtz({val(ms[i]) : i \in DOMAIN ms})

(* External: what the generator may store.  The values disregard en        *)
(* passant, and are arbitrary where a capture (for DTZ a zeroing move)     *)
(* already shows the result.                                               *)
SzWdlShownBy(g, p, kinds) ==
  {-SzWdlOf(SzTrueDtz(g, g[p].moves[i].to, TRUE)) :
     i \in {j \in DOMAIN g[p].moves : g[p].moves[j].kind \in kinds}}
SzStoredWdl(g, p) ==
  LET truth == SzWdlOf(SzTrueDtz(g, p, FALSE))
  IN  IF 2 \in SzWdlShownBy(g, p, {"capture"}) THEN -2..2
      ELSE IF truth \in SzWdlShownBy(g, p, {"capture"}) THEN -2..truth
      ELSE {truth}
(* The entry of a position in a DTZ table: in plies or in moves, rounded   *)
(* down, which is not done at the edge of the 50-move rule; as it is or as *)
(* an index of the map of its result.                                      *)
SzStoredDtz(g, p, plies, mapped) ==
  LET d == SzTrueDtz(g, p, FALSE)  n == IF d < 0 THEN -d ELSE d
      cursed == n > 100
      exact == ~cursed /\ (plies \/ n = 100)
      rest == n - 1 - (IF cursed THEN 100 ELSE 0)
      v == IF d > 0 /\ SzWdlOf(d) \in SzWdlShownBy(g, p, {"capture", "pawn"}) THEN 77
           ELSE IF n = 0 THEN 0 ELSE IF exact THEN rest ELSE rest \div 2
  IN  [mapped |-> mapped, code |-> IF mapped THEN 1 ELSE v,
       inPlies |-> IF exact THEN {SzWdlOf(d)} ELSE {},
       dtzMap |-> [m \in 0..3 |-> IF m = kWdlToMap(SzWdlOf(d)) THEN <<v>> ELSE <<v + 7 + m>>]]

-----------------------------------------------------------------------------
(* Properties. *)

SzGamePositions == DOMAIN tbCase.g

(* Whatever the tables hold where they may hold anything, a probe that does*)
(* not fail gives the value the rules of the game give (search).           *)
SzProbeWdlTrue ==
  tbCase.kind = "game" =>
    \A p \in SzGamePositions :
      LET r == probe_wdl(tbCase.g, tbCase.tab, p)
      IN  r.st = FAIL \/ r.v = SzWdlOf(SzTrueDtz(tbCase.g, p, TRUE))

(* A DTZ probe that does not fail gives the right result under the 50-move *)
(* rule, and unless an en passant capture is possible the right distance or*)
(* one ply less, also where the table is about the other side (probe_dtz). *)
SzProbeDtzTrue ==
  tbCase.kind = "game" =>
    \A p \in SzGamePositions :
      LET r == probe_dtz(tbCase.g, tbCase.tab, p)
          truth == SzTrueDtz(tbCase.g, p, TRUE)
          plain == \A q \in SzGamePositions : \A i \in DOMAIN tbCase.g[q].moves :
                     tbCase.g[q].moves[i].kind # "ep"
      IN  \/ r.st = FAIL
          \/ /\ SzWdlOf(r.v) = SzWdlOf(truth)
             /\ plain => r.v \in {truth, truth - TbSign(truth)}

(* The moves left at the root keep the result that can still be reached    *)
(* before the fifty-move rule applies: a certain win stays a win, although *)
(* distances may be one ply short, and after a repetition the way is the   *)
(* shortest or one ply more; no move gives away a win or a draw            *)
(* (root_probe, root_probe_wdl).                                           *)
SzRootKeepsResult ==
  tbCase.kind = "game" =>
    LET g == tbCase.g  root == tbCase.root  ms == g[root].moves
        value(i, after) ==
          IF ZeroingMove(ms[i]) THEN dtz_before_zeroing(-SzWdlOf(after))
          ELSE IF Mated(g, ms[i].to) THEN 1 ELSE -after + TbSign(-after)
        plain == \A q \in DOMAIN g : \A i \in DOMAIN g[q].moves :
                   g[q].moves[i].kind # "ep"
    IN  ms # << >> =>
          \E r \in {root_probe(g, tbCase.tab, root, tbCase.cnt50, tbCase.rep)},
             w \in {root_probe_wdl(g, tbCase.tab, root)},
             val \in {[i \in DOMAIN ms |-> value(i, SzTrueDtz(g, ms[i].to, TRUE))]} :
            LET sure == {i \in DOMAIN ms : val[i] > 0 /\ val[i] + tbCase.cnt50 <= 99}
                best == Max({TbSign(val[i]) : i \in DOMAIN ms})
            IN  /\ \A i \in r.safe \cup w.safe : TbSign(val[i]) = best
                /\ r.done => r.safe # {}
                /\ (plain /\ sure # {}) =>
                     \A i \in r.safe : val[i] > 0 /\ val[i] + tbCase.cnt50 <= 100
                /\ (plain /\ sure # {} /\ tbCase.rep) =>
                     \A i \in r.safe, j \in DOMAIN ms : val[j] > 0 => val[i] <= val[j] + 1

(* Probes of a game give its true values, and the root keeps its result.   *)
SzProbesTrue == SzProbeWdlTrue /\ SzProbeDtzTrue /\ SzRootKeepsResult
=============================================================================
