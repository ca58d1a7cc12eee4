-------------------------- MODULE MCTreeAndTables --------------------------
(* The questions asked of the tablebase code: what numbers positions get,  *)
(* what small games are worth, and how threads load a table; and beside    *)
(* them the workers on the search tree.  A behaviour is one of the tables  *)
(* and games, of the threads that load or of the workers; the others are   *)
(* not there.                                                              *)
EXTENDS SyzygyProbe, SyzygyLoad, MCSearchTree

VARIABLE system
MCVars == <<system, tbCase, szVars, vars>>

NoPawns == <<0, 0>>
Index == [kind |-> "index", be |-> [kk |-> FALSE, pawns |-> NoPawns],
          pieces |-> << >>, enc |-> "piece", order |-> 0, order2 |-> 15,
          squares |-> << >>, tight |-> TRUE, full |-> FALSE]
Some == {0, 3, 7, 9, 18, 21, 28, 35, 42, 56, 63}
PawnSquares == 8..55

Triples ==
  {[Index EXCEPT !.pieces = <<6, 4, 14>>, !.squares = <<{q}, TbSq, TbSq>>] :
     q \in {0, 19, 27, 36, 54}}
  \cup {[Index EXCEPT !.pieces = <<6, 4, 14>>,
                      !.squares = <<TbSq, {0, 9, 14, 33}, {27, 28, 7, 1}>>]}
Kings ==
  {[Index EXCEPT !.be.kk = TRUE, !.pieces = <<6, 14>>,
                 !.squares = <<TbSq, TbSq>>, !.full = TRUE]}
  \cup {[Index EXCEPT !.be.kk = TRUE, !.pieces = <<6, 14, 2, 2>>,
                      !.squares = <<{k}, {l, 63 - l}, TbSq,
                                    {0, 7, 10, 20, 36, 45, 62}>>,
                      !.tight = FALSE, !.order = o] :
          k \in {0, 12}, l \in {27, 22}, o \in {0, 1}}
  \cup {[Index EXCEPT !.pieces = <<6, 14, 4, 2, 2>>,
                      !.squares = <<{9, 11}, {27, 30}, {45, 2}, Some, {1, 8, 50}>>,
                      !.tight = FALSE, !.order = o] : o \in {0, 1}}
Pawns ==
  {[Index EXCEPT !.be.pawns = <<1, 0>>, !.enc = e, !.pieces = <<1>>,
                 !.squares = <<PawnSquares>>, !.full = TRUE] : e \in {"file", "rank"}}
  \cup {[Index EXCEPT !.be.pawns = <<2, 0>>, !.enc = e, !.pieces = <<1, 1>>,
                      !.squares = <<PawnSquares, PawnSquares>>,
                      !.full = TRUE] : e \in {"file", "rank"}}
  \cup {[Index EXCEPT !.be.pawns = <<3, 0>>, !.enc = e, !.pieces = <<1, 1, 1>>,
                      !.squares = <<8..23, Some \cap PawnSquares, PawnSquares>>,
                      !.tight = FALSE] : e \in {"file", "rank"}}
  \cup {[Index EXCEPT !.be.pawns = <<1, 2>>, !.enc = e,
                      !.pieces = <<1, 9, 9, 6, 14>>,
                      !.squares = <<{8, 13, 26}, PawnSquares, {10, 13, 33},
                                    {0, 40}, {7, 1, 20}>>,
                      !.tight = FALSE, !.order = o[1], !.order2 = o[2]] :
          e \in {"file", "rank"}, o \in {<<0, 1>>, <<1, 0>>, <<2, 1>>}}

Positions(pcs, sq) ==
  {[on |-> {<<pcs[i], q[i]>> : i \in DOMAIN pcs}, black |-> b] :
     q \in {f \in [DOMAIN pcs -> sq] :
              \A i, j \in DOMAIN pcs : i # j => f[i] # f[j]}, b \in BOOLEAN}
Addressed(m, w, b, ps) ==
  {[kind |-> "address", material |-> m,
    tables |-> [x \in BOOLEAN |-> IF x THEN b ELSE w], pos |-> p] : p \in ps}
Addresses ==
  Addressed(<<<<1>>, << >>>>, <<6, 4, 14>>, <<4, 14, 6>>,
            Positions(<<6, 4, 14>>, {0, 10, 29, 47, 60})
              \cup Positions(<<6, 12, 14>>, {0, 10, 29, 47}))
  \cup Addressed(<<<<4>>, << >>>>, <<1, 6, 14>>, <<1, 14, 6>>,
                 Positions(<<6, 1, 14>>, {8, 14, 29, 43, 50})
                   \cup Positions(<<6, 9, 14>>, {8, 14, 29, 43}))
  \cup Addressed(<<<<4>>, <<4>>>>, <<1, 9, 6, 14>>, <<1, 9, 6, 14>>,
                 Positions(<<6, 1, 14, 9>>, {8, 14, 29, 43}))
  \cup Addressed(<<<<4, 4>>, <<4>>>>, <<9, 1, 1, 6, 14>>, <<9, 1, 1, 14, 6>>,
                 Positions(<<1, 1, 6, 9, 14>>, {8, 14, 29, 43, 51}))

Pattern == [s \in 0..4 |-> <<<<1, 2>>, <<"a">>, <<"b">>, <<0, 4>>, <<"c">>>>[s + 1]]
Blocks == {<<<<0, 3, 4>>, <<1>>, <<3, 3, 2, 2, 2>>>>,
           <<<<4>>, <<4>>, <<4, 0, 1>>, <<2, 4, 4, 4, 4, 4, 1>>>>,
           <<<<1, 2, 0, 1, 2, 3, 0, 4, 3>>>>}
PairFile(min, max, offset, i, b) ==
  [kind |-> "pairs", d |-> [pat |-> Pattern, minLen |-> min, maxLen |-> max,
                            offset |-> offset, idxBits |-> i, blocks |-> b,
                            constValue |-> "a"]]
PairFiles ==
  {PairFile(1, 4, <<4, 3, 2, 0>>, i, b) : i \in 1..3, b \in Blocks}
  \cup {PairFile(2, 3, <<9, 2, 0>>, i, b) : i \in 1..2, b \in Blocks}
  \cup {PairFile(2, 3, <<9, 2, 0>>, 0, <<<<1, 1>>, <<1>>>>)}

(* Games: 1 and 2 are not looked into; 3 may be mate, stalemate or have    *)
(* moves to them; 4 is the root.                                           *)
Leaf(d) == [moves |-> << >>, check |-> FALSE, inner |-> FALSE, dtz |-> d]
Inner(ms, c) == [moves |-> ms, check |-> c, inner |-> TRUE, dtz |-> 0]
To(k, node) == [kind |-> k, to |-> node]
Kinds == {"quiet", "pawn", "capture", "ep"}
Seconds == {"quiet", "capture", "ep"}
Games ==
  {<<Leaf(-4), Leaf(b), Inner(<< >>, c), Inner(<<To(k, 3), To(l, 2)>>, FALSE)>> :
     b \in {-101, -98, 0, 1, 100}, c \in BOOLEAN, k \in Kinds \ {"ep"}, l \in Seconds}
  \cup
  {<<Leaf(d), Leaf(b), Inner(ms, c), Inner(rs, FALSE)>> :
     d \in {-101, -100, -4, 0, 6, 99, 102}, b \in {-101, -98, 0, 100},
     ms \in {<<To(k, 1)>> : k \in Kinds}
            \cup {<<To(k, 1), To(l, 2)>> : k \in Kinds, l \in Seconds},
     c \in {FALSE},
     rs \in {<<To(k, 3)>> : k \in Kinds \ {"ep"}}
            \cup {<<To(k, 3), To(l, 2)>> : k \in Kinds \ {"ep"}, l \in Seconds}}
Table(g, p, wdl, side, plies, mapped) ==
  [wdl |-> wdl, otherSide |-> side /\ g[p].inner, hasWdl |-> TRUE, hasDtz |-> TRUE]
    @@ SzStoredDtz(g, p, plies, mapped)
(* The tables at their most misleading: the lowest or highest value that   *)
(* may be stored, for the side to move or the other one, all or one gone,  *)
(* in plies or moves, with maps or without.                                *)
Tables(g, high, sides, plies, mapped) ==
  [p \in 1..4 |-> Table(g, p, (IF high THEN Max(SzStoredWdl(g, p))
                                        ELSE Min(SzStoredWdl(g, p))),
                        p \in sides, plies, mapped)]
Missing(tab, what) ==
  CASE what = "none" -> tab
    [] what = "wdl" -> [tab EXCEPT ![3].hasWdl = FALSE, ![3].hasDtz = FALSE]
    [] what = "dtz" -> [tab EXCEPT ![3].hasDtz = FALSE]
GameOf(g, high, sides, gone, plies, cnt50, rep) ==
  [kind |-> "game", g |-> g, root |-> 4, cnt50 |-> cnt50, rep |-> rep,
   tab |-> Missing(Tables(g, high, sides, plies, high), gone)]

Quick == Triples \cup Kings \cup Pawns \cup Addresses \cup PairFiles
           \cup {[kind |-> "names"]}
NoCase == [kind |-> "none"]
MCSyzygyCases == {NoCase}

MCInit ==
  /\ TbInit /\ SzInit /\ Init
  /\ system \in {"tables", "threads", "workers"}
  /\ system # "threads" => \A t \in SzTypes : szFiles[t] = "good"
  /\ system # "workers" => initial_visits_ = 0
(* A case is chosen in the first step; the tables of a game in the second. *)
Choose ==
  /\ tbCase = NoCase
  /\ \/ tbCase' \in Quick
     \/ \E g \in Games : tbCase' = [kind |-> "tables", g |-> g]
Fill ==
  /\ tbCase.kind = "tables"
  /\ \E high \in BOOLEAN, sides \in {{}, {3}, {3, 4}},
        gone \in {"none", "dtz", "wdl"}, plies, rep \in BOOLEAN :
       /\ gone # "none" => (sides = {3, 4} /\ ~high /\ ~plies)
       /\ rep => sides = {3}
       /\ tbCase' = GameOf(tbCase.g, high, sides, gone, plies,
                        IF rep THEN 0 ELSE 1, rep)
(* The only states in which a behaviour of the first two may stop.         *)
Answered == tbCase.kind \notin {"none", "tables"}
NoneToProbe ==
  \/ ~SzAlive
  \/ ~(\E k \in SzKeys : szSlot[k]) /\ \A th \in SzThreads : szProbe[th] = SzIdle
MCNext ==
  /\ UNCHANGED system
  /\ \/ system = "tables" /\ (Choose \/ Fill) /\ UNCHANGED <<szVars, vars>>
     \/ system = "tables" /\ Answered /\ UNCHANGED <<tbCase, szVars, vars>>
     \/ system = "threads" /\ SzNext /\ UNCHANGED <<tbCase, vars>>
     \/ system = "threads" /\ NoneToProbe /\ UNCHANGED <<tbCase, szVars, vars>>
     \/ system = "workers" /\ Next /\ UNCHANGED <<tbCase, szVars>>

(* WorkerSymmetry permutes the workers of the tree.  SzProbeEnds and the   *)
(* fairness are about the threads that load, in whose behaviours no worker *)
(* moves: a permutation leaves all of their states as they are.            *)
MCSpec == /\ MCInit /\ [][MCNext]_MCVars
          /\ \A th \in SzThreads :
               WF_MCVars(/\ system = "threads" /\ SzFinish(th)
                         /\ UNCHANGED <<system, tbCase, vars>>)
=============================================================================
