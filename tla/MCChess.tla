------------------------------ MODULE MCChess ------------------------------
(* Families of starting positions: pins, checks and double checks; en passant with
   and without a pin of a pawn; Chess960 castling; promotions and captures of rooks
   with rights; games that repeat; endings without pawns.  A behaviour is one of a game
   or one of the tree of nodes kept between searches. *)
EXTENDS ChessGame, NodeTree, TLC

VARIABLE system
MCVars == <<system, cgVars, ntVars>>

Fen(pieces, castlings, ep, black) ==
    [pieces |-> pieces, castlings |-> castlings, en_passant |-> ep, black_to_move |-> black]
Start(fen, squares, plies) == [fen |-> fen, rule50 |-> 0, squares |-> squares, plies |-> plies]

\* Our king in the centre, a piece of ours next to it, one or two of theirs around it.
MCPins ==
    LET friends == {35, 36} \X {TRUE} \X {"queen", "rook", "bishop", "knight", "pawn"}
        enemies == {51, 31, 45, 37, 34} \X {FALSE} \X {"queen", "rook", "bishop", "knight", "pawn"}
        others == {{}} \cup {{<<24, FALSE, "rook">>}, {<<42, FALSE, "knight">>}}
    IN  {Start(Fen({<<27, TRUE, "king">>, <<62, FALSE, "king">>, f, e} \cup o, <<>>, {}, FALSE), {}, 0) :
            f \in friends, e \in enemies, o \in others}

\* A pawn of ours beside one that has just moved two squares, with lines of attack
\* along the row, the column and the diagonal through either pawn.
MCEnPassant ==
    LET kings == {32, 36, 38, 40, 25, 53, 4}
        attackers == {{}} \cup {{a} : a \in {33, 39, 59, 3, 56, 63, 18} \X {FALSE} \X {"queen", "rook", "bishop"}}
    IN  {Start(Fen({<<k, TRUE, "king">>, <<61, FALSE, "king">>, <<34, FALSE, "pawn">>, <<35, TRUE, "pawn">>} \cup a,
               <<>>, {42}, FALSE), {35, 42}, 1) : k \in kings, a \in attackers}

\* Rights on both sides for every arrangement of king and rooks, and one piece on the
\* way or in line with it.  The letters come as KQkq or as columns.
MCLetter(black, letter, col) == [black |-> black, letter |-> letter, col |-> col]
MCCastling ==
    LET places == {p \in {0, 1, 3} \X {1, 2, 4, 5} \X {3, 5, 6, 7} : p[1] < p[2] /\ p[2] < p[3]}
        more == {{}} \cup {{m} : m \in ({20, 27, 18} \X {FALSE} \X {"rook", "knight"})
                                      \cup ({0, 7, 1, 6} \X {FALSE} \X {"rook"}) \cup {<<1, TRUE, "bishop">>, <<6, TRUE, "bishop">>}}
        Letters(p, xfen) == IF xfen THEN <<MCLetter(FALSE, "k", 0), MCLetter(FALSE, "q", 0),
                                           MCLetter(TRUE, "k", 0), MCLetter(TRUE, "q", 0)>>
                            ELSE <<MCLetter(FALSE, "file", p[1]), MCLetter(TRUE, "file", p[1]),
                                   MCLetter(FALSE, "file", p[3]), MCLetter(TRUE, "file", p[3])>>
    IN  {Start(Fen({<<p[1], TRUE, "rook">>, <<p[2], TRUE, "king">>, <<p[3], TRUE, "rook">>,
                    <<56 + p[1], FALSE, "rook">>, <<56 + p[2], FALSE, "king">>, <<56 + p[3], FALSE, "rook">>} \cup m,
                   Letters(p, m = {}), {}, FALSE), IF m = {} THEN 0..7 ELSE {}, 1) : p \in places, m \in more}

\* Promotions, quiet and by capture of a rook that still has its right; the other
\* side to move in the FEN.
MCPromotion ==
    {Start(Fen({<<4, TRUE, "king">>, <<60, FALSE, "king">>, <<63, FALSE, "rook">>, <<54, TRUE, "pawn">>,
                <<9, FALSE, "pawn">>, <<14, TRUE, "pawn">>, <<0, TRUE, "rook">>} \cup m,
               <<MCLetter(FALSE, "q", 0), MCLetter(TRUE, "k", 0)>>, {}, b), Squares, 1) :
        m \in {{}, {<<61, FALSE, "bishop">>}, {<<62, FALSE, "knight">>}, {<<1, TRUE, "knight">>}}, b \in BOOLEAN}

\* Rooks that leave and come back, with and without rights to lose, and a pawn whose
\* double step may be answered en passant.
MCRepetition ==
    {Start(Fen({<<4, TRUE, "king">>, <<60, FALSE, "king">>, <<7, TRUE, "rook">>, <<63, FALSE, "rook">>,
                <<8, TRUE, "pawn">>, <<25, FALSE, "pawn">>}, l, {}, FALSE), {7, 15, 8, 24, 17}, 10) :
        l \in {<<>>, <<MCLetter(FALSE, "k", 0), MCLetter(TRUE, "k", 0)>>}}

\* Endings without pawns, symmetric ones among them.
MCEndings ==
    {Start(Fen({<<k, TRUE, "king">>, <<t, FALSE, "king">>} \cup m, <<>>, {}, FALSE), Squares, n) :
        k \in {7, 14, 21, 3, 56}, t \in {35, 42, 28, 33}, n \in {0},
        m \in {{}, {<<48, TRUE, "rook">>, <<8, FALSE, "knight">>}, {<<63, TRUE, "queen">>}, {<<49, TRUE, "bishop">>, <<49 + 7, FALSE, "bishop">>}}}

MCFormats == {1, 3, 132}
Distinct(start) == \A p, q \in start.fen.pieces : p[1] = q[1] => p = q
\* The side not to move is not in check, and no two knights or pawns give check at once.
Reachable(start) ==
    LET b == SetFromFen(start.fen)
        Checks(S) == Cardinality(S \cap b.theirs) <= 1
    IN  /\ b # BadFen /\ BoardOK(b) /\ ~IsUnderCheck(MirrorBoard(b))
        /\ Checks(kKnightAttacks[b.our_king] \cap Knights(b)) /\ Checks(kPawnAttacks[b.our_king] \cap b.pawns)
MCStarts == {s \in MCPins \cup MCEnPassant \cup MCCastling \cup MCPromotion \cup MCRepetition \cup MCEndings :
                Distinct(s) /\ Reachable(s)}
MCSymmetry == Permutations(NtAddr) \cup Permutations(NtMoves)
MCInit == /\ CgInit /\ NtInit
          /\ system \in {"game", "tree"}
          /\ system = "game" => ntFen = CHOOSE f \in NtFens : TRUE
MCNext == /\ UNCHANGED system
          /\ \/ system = "game" /\ CgNext /\ UNCHANGED ntVars
             \/ system = "tree" /\ NtNext /\ UNCHANGED cgVars
MCSpec == MCInit /\ [][MCNext]_MCVars
=============================================================================
