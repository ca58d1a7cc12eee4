----------------------------- MODULE ChessBoard -----------------------------
(* The board from the eyes of the side to move: bitboards as sets of squares, the
   tables of attacks, generation of moves, the test of legality by pins and lines of
   attack, and what a move does.  A square is row * 8 + column.  pawns also holds the
   flags of en passant on rows 0 and 7, which are in neither side's pieces. *)
EXTENDS Integers, Sequences, SequencesExt, FiniteSets, FiniteSetsExt

Squares == 0..63
Row(s) == s \div 8
Col(s) == s % 8
IsValid(r, c) == r \in 0..7 /\ c \in 0..7
BoardSquare(r, c) == r * 8 + c
MirrorSquare(s) == BoardSquare(7 - Row(s), Col(s))
Move(from, to, promotion) == [from |-> from, to |-> to, promotion |-> promotion]
NullMove == Move(0, 0, "none")
MirrorMove(m) == [m EXCEPT !.from = MirrorSquare(@), !.to = MirrorSquare(@)]

kKingMoves == {<<-1, -1>>, <<-1, 0>>, <<-1, 1>>, <<0, -1>>, <<0, 1>>, <<1, -1>>, <<1, 0>>, <<1, 1>>}
kRookDirections == {<<1, 0>>, <<-1, 0>>, <<0, 1>>, <<0, -1>>}
kBishopDirections == {<<1, 1>>, <<-1, 1>>, <<1, -1>>, <<-1, -1>>}
kPromotions == {"queen", "rook", "bishop", "knight"}
kPawnMask == 8..55

\* The squares from s in direction d up to the edge, nearest first.
BoardLines == [s \in Squares |-> [d \in kKingMoves |->
    LET r(k) == Row(s) + k * d[1]
        c(k) == Col(s) + k * d[2]
    IN  [k \in 1..Cardinality({i \in 1..7 : IsValid(r(i), c(i))}) |-> BoardSquare(r(k), c(k))]]]
Around(s, deltas) ==
    {BoardSquare(Row(s) + d[1], Col(s) + d[2]) :
        d \in {e \in deltas : IsValid(Row(s) + e[1], Col(s) + e[2])}}

kRookAttacks == [s \in Squares |-> UNION {ToSet(BoardLines[s][d]) : d \in kRookDirections}]
kBishopAttacks == [s \in Squares |-> UNION {ToSet(BoardLines[s][d]) : d \in kBishopDirections}]
kKnightAttacks == [s \in Squares |->
    Around(s, {<<1, 2>>, <<2, 1>>, <<-1, 2>>, <<-2, 1>>, <<1, -2>>, <<2, -1>>, <<-1, -2>>, <<-2, -1>>})]
\* The squares from which a pawn of theirs attacks s; the last two rows are empty.
kPawnAttacks == [s \in Squares |-> IF Row(s) < 6 THEN Around(s, {<<1, -1>>, <<1, 1>>}) ELSE {}]

\* The tables are built for the occupancy of each line but its last square, and
\* looked up with the pieces on those squares only.
RelevantOccupancy(line, pieces) == {k \in 1..(Len(line) - 1) : line[k] \in pieces}
RayAttacks(line, pieces) ==
    LET blockers == RelevantOccupancy(line, pieces)
    IN  {line[k] : k \in 1..(IF blockers = {} THEN Len(line) ELSE Min(blockers))}
GetRookAttacks(s, pieces) == UNION {RayAttacks(BoardLines[s][d], pieces) : d \in kRookDirections}
GetBishopAttacks(s, pieces) == UNION {RayAttacks(BoardLines[s][d], pieces) : d \in kBishopDirections}

-----------------------------------------------------------------------------
Pieces(b) == b.ours \cup b.theirs
PlainRooks(b) == b.rooks \ b.bishops
Knights(b) == Pieces(b) \ ((b.pawns \cap kPawnMask) \cup {b.our_king, b.their_king} \cup b.rooks \cup b.bishops)

\* Clear() zeroes everything, the columns of the castling rooks too.
EmptyBoard == [ours |-> {}, theirs |-> {}, rooks |-> {}, bishops |-> {}, pawns |-> {},
               our_king |-> 0, their_king |-> 0, castlings |-> {}, qrook |-> 0, krook |-> 0,
               flipped |-> FALSE]

MirrorSquares(S) == {MirrorSquare(s) : s \in S}
MirrorCastlings == [we_00 |-> "they_00", we_000 |-> "they_000", they_00 |-> "we_00", they_000 |-> "we_000"]
MirrorBoard(b) ==
    [b EXCEPT !.ours = MirrorSquares(b.theirs), !.theirs = MirrorSquares(b.ours),
              !.rooks = MirrorSquares(@), !.bishops = MirrorSquares(@), !.pawns = MirrorSquares(@),
              !.our_king = MirrorSquare(b.their_king), !.their_king = MirrorSquare(b.our_king),
              !.castlings = {MirrorCastlings[c] : c \in @}, !.flipped = ~@]

TheirKnights(b) == b.theirs \ ({b.their_king} \cup b.rooks \cup b.bishops \cup (b.pawns \cap kPawnMask))
NextToKing(b, s) == \A x \in {Row(s) - Row(b.their_king), Col(s) - Col(b.their_king)} : x \in -1..1
IsUnderAttack(b, s) ==
    \/ NextToKing(b, s)
    \/ GetRookAttacks(s, Pieces(b)) \cap b.theirs \cap b.rooks # {}
    \/ GetBishopAttacks(s, Pieces(b)) \cap b.theirs \cap b.bishops # {}
    \/ kPawnAttacks[s] \cap b.theirs \cap b.pawns # {}
    \/ kKnightAttacks[s] \cap TheirKnights(b) # {}
IsUnderCheck(b) == IsUnderAttack(b, b.our_king)

-----------------------------------------------------------------------------
(* Generation of moves. *)
Targets(from, squares) == {Move(from, to, "none") : to \in squares}

WalkFree(b, from, to, rook, king) == (from..to) \cap Pieces(b) \subseteq {rook, king}
\* The end of the walk is left to the test of legality, unless the king stands on it.
RangeAttacked(b, from, to) ==
    \E s \in (IF from <= to THEN from..to ELSE to..from) : (s # to \/ from = to) /\ IsUnderAttack(b, s)
CastlingMoves(b) ==
    LET king == Col(b.our_king)
        c1 == 2
        d1 == 3
        f1 == 5
        g1 == 6
    IN  {Move(b.our_king, rook, "none") : rook \in
            {q \in {b.qrook} : /\ "we_000" \in b.castlings
                               /\ WalkFree(b, Min({c1, q}), Max({d1, king}), q, king)
                               /\ ~RangeAttacked(b, king, c1)}
            \cup
            {k \in {b.krook} : /\ "we_00" \in b.castlings
                               /\ WalkFree(b, Min({f1, king}), Max({g1, k}), k, king)
                               /\ ~RangeAttacked(b, king, g1)}}
KingMoves(b) ==
    Targets(b.our_king, {s \in Around(b.our_king, kKingMoves) \ b.ours : ~IsUnderAttack(b, s)})
        \cup CastlingMoves(b)

PawnPushes(b, from) ==
    LET one == from + 8
        two == from + 16
    IN  IF one \in Pieces(b) THEN {}
        ELSE IF Row(one) = 7 THEN {Move(from, one, p) : p \in kPromotions}
        ELSE Targets(from, {one} \cup (IF Row(one) = 2 /\ two \notin Pieces(b) THEN {two} ELSE {}))
PawnCaptures(b, from) ==
    LET squares == Around(from, {<<1, -1>>, <<1, 1>>})
        EnPassant(s) == s \notin b.theirs /\ Row(s) = 5 /\ BoardSquare(7, Col(s)) \in b.pawns
        promotions(s) == IF Row(s) = 7 THEN kPromotions ELSE {"none"}
    IN  UNION {{Move(from, s, p) : p \in promotions(s)} : s \in squares \cap b.theirs}
            \cup Targets(from, {s \in squares : EnPassant(s)})

PieceMoves(b, from) ==
    LET sliding == (IF from \in b.rooks THEN GetRookAttacks(from, Pieces(b)) ELSE {})
                   \cup (IF from \in b.bishops THEN GetBishopAttacks(from, Pieces(b)) ELSE {})
    IN  IF from = b.our_king THEN KingMoves(b)
        ELSE IF from \in b.rooks \cup b.bishops THEN Targets(from, sliding \ b.ours)
        ELSE IF from \in b.pawns \cap kPawnMask THEN PawnPushes(b, from) \cup PawnCaptures(b, from)
        ELSE Targets(from, kKnightAttacks[from] \ b.ours)
GeneratePseudolegalMoves(b) == UNION {PieceMoves(b, from) : from \in b.ours}

-----------------------------------------------------------------------------
(* What a move does.  The result is a pair: the board, still from the eyes of the
   side that moved, and whether the counter of the fifty-move rule is reset. *)
DoCastling(b, king_dst, rook_src, rook_dst) ==
    [b EXCEPT !.pawns = @ \cap kPawnMask,
              !.ours = (@ \ {b.our_king, rook_src}) \cup {king_dst, rook_dst},
              !.rooks = (@ \ {rook_src}) \cup {rook_dst},
              !.our_king = king_dst]

\* <<king_dst, rook_src, rook_dst>> when the move castles, in either notation.
CastlingOf(b, m) ==
    IF m.from # b.our_king \/ Row(m.from) # 0 \/ Row(m.to) # 0 THEN <<>>
    ELSE IF m.to \in PlainRooks(b) \cap b.ours
         THEN IF m.to > m.from THEN <<6, m.to, 5>> ELSE <<2, m.to, 3>>
    ELSE IF m.from = 4 /\ m.to = 6 THEN <<6, 7, 5>>
    ELSE IF m.from = 4 /\ m.to = 2 THEN <<2, 0, 3>>
    ELSE <<>>

LostByCapture(b, to) == {r \in {"they_00"} : to = 56 + b.krook} \cup {r \in {"they_000"} : to = 56 + b.qrook}
LostByMove(b, from) ==
    IF from = b.our_king THEN {"we_00", "we_000"}
    ELSE IF Row(from) # 0 \/ from \notin b.rooks THEN {}
    ELSE {r \in {"we_000"} : from = b.qrook} \cup {r \in {"we_00"} : from = b.krook}

Carried(S, m) == IF m.from \in S THEN (S \ {m.from}) \cup {m.to} ELSE S
EnPassantVictim(b, m) ==
    IF /\ Row(m.from) = 4 /\ m.from \in b.pawns
       /\ Col(m.from) # Col(m.to)
       /\ BoardSquare(7, Col(m.to)) \in b.pawns
    THEN {BoardSquare(4, Col(m.to))} ELSE {}
EnPassantFlagAlways(b, m, theirs, pawns) ==
    IF Row(m.to) - Row(m.from) = 2 /\ m.to \in pawns THEN {Col(m.to)} ELSE {}
EnPassantFlag(b, m, theirs, pawns) ==
    IF /\ Row(m.to) - Row(m.from) = 2 /\ m.to \in pawns
       /\ kPawnAttacks[m.to - 8] \cap theirs \cap pawns # {}
    THEN {Col(m.to)} ELSE {}

Promoted(S, m, pieces) == (S \ {m.to}) \cup (IF m.promotion \in pieces THEN {m.to} ELSE {})
OrdinaryMove(b, m) ==
    LET gone == {m.to} \cup EnPassantVictim(b, m)
        theirs == b.theirs \ gone
        left == (b.pawns \ gone) \cap kPawnMask
        rooks == b.rooks \ {m.to}
        bishops == b.bishops \ {m.to}
        promotes == m.promotion # "none" /\ m.from # b.our_king
        pawns == IF promotes THEN left \ {m.from} ELSE Carried(left, m)
    IN  [b EXCEPT !.ours = (@ \ {m.from}) \cup {m.to},
                  !.theirs = theirs,
                  !.our_king = IF m.from = @ THEN m.to ELSE @,
                  !.rooks = IF promotes THEN Promoted(rooks, m, {"rook", "queen"}) ELSE Carried(rooks, m),
                  !.bishops = IF promotes THEN Promoted(bishops, m, {"bishop", "queen"}) ELSE Carried(bishops, m),
                  !.pawns = pawns \cup EnPassantFlag(b, m, theirs, pawns),
                  !.castlings = @ \ (LostByCapture(b, m.to) \cup LostByMove(b, m.from))]

ApplyMove(b, m) ==
    LET c == CastlingOf(b, m)
    IN  IF c # <<>>
        THEN [board |-> DoCastling([b EXCEPT !.castlings = @ \ {"we_00", "we_000"}], c[1], c[2], c[3]),
              zeroing |-> FALSE]
        ELSE [board |-> OrdinaryMove(b, m),
              zeroing |-> m.to \in b.theirs \/ m.from \in b.pawns \cap kPawnMask]

-----------------------------------------------------------------------------
(* Legality: the pieces pinned to the king and the squares on which a piece answers
   a check, gathered once for all moves of the position. *)
LineInfo(b, d, sliders) ==
    LET line == BoardLines[b.our_king][d]
        theirs == {k \in 1..Len(line) : line[k] \in b.theirs}
        first == Min(theirs)
        shield == {line[k] : k \in 1..(first - 1)} \cap b.ours
        attacks == theirs # {} /\ line[first] \in sliders
    IN  [pinned |-> IF attacks /\ Cardinality(shield) = 1 THEN shield ELSE {},
         line |-> IF attacks /\ shield = {} THEN {line[k] : k \in 1..first} ELSE {}]
SliderInfos(b) ==
    LET rooks == b.theirs \cap b.rooks
        bishops == b.theirs \cap b.bishops
    IN  {<<d, LineInfo(b, d, rooks)>> :
            d \in IF kRookAttacks[b.our_king] \cap rooks = {} THEN {} ELSE kRookDirections}
        \cup {<<d, LineInfo(b, d, bishops)>> :
            d \in IF kBishopAttacks[b.our_king] \cap bishops = {} THEN {} ELSE kBishopDirections}
GenerateKingAttackInfo(b) ==
    LET infos == SliderInfos(b)
        lines == {i[2].line : i \in {j \in infos : j[2].line # {}}}
        pawns == kPawnAttacks[b.our_king] \cap b.theirs \cap b.pawns
        knights == kKnightAttacks[b.our_king] \cap TheirKnights(b)
        attackers == lines \cup ({pawns, knights} \ {{}})
    IN  [pinned |-> UNION {i[2].pinned : i \in infos},
         attack_lines |-> UNION attackers,
         num_king_attackers |-> Cardinality(attackers)]

KingSafeAfter(b, m) == ~IsUnderCheck(ApplyMove(b, m).board)
StaysOnLine(b, m) ==
    LET dx_from == Col(m.from) - Col(b.our_king)
        dy_from == Row(m.from) - Row(b.our_king)
        dx_to == Col(m.to) - Col(b.our_king)
        dy_to == Row(m.to) - Row(b.our_king)
    IN  IF dx_from = 0 \/ dx_to = 0 THEN dx_from = dx_to ELSE dx_from * dy_to = dx_to * dy_from
IsKingStep(b, m) == Row(m.from) # 0 \/ Row(m.to) # 0 \/ (Col(m.from) - Col(m.to) \in {-1, 1} /\ m.to \notin b.ours)
IsLegalMove(b, m, info) ==
    IF EnPassantVictim(b, m) # {} THEN KingSafeAfter(b, m)
    ELSE IF info.attack_lines # {}
         THEN IF m.from = b.our_king THEN KingSafeAfter(b, m)
              ELSE m.from \notin info.pinned /\ info.num_king_attackers # 2 /\ m.to \in info.attack_lines
    ELSE IF m.from = b.our_king THEN IsKingStep(b, m) \/ KingSafeAfter(b, m)
    ELSE m.from \notin info.pinned \/ StaysOnLine(b, m)
GenerateLegalMoves(b) ==
    LET info == GenerateKingAttackInfo(b) IN {m \in GeneratePseudolegalMoves(b) : IsLegalMove(b, m, info)}

-----------------------------------------------------------------------------
(* Castling is written as the king taking its rook; the legacy notation moves the
   king two columns. *)
IsSameMove(b, m1, m2) ==
    \/ m1 = m2
    \/ /\ m1.from = m2.from /\ m1.from = 4 /\ b.our_king = 4
       /\ {m1.to, m2.to} \in {{0, 2}, {6, 7}}
GetLegacyMove(b, m) ==
    IF b.our_king # m.from \/ m.to \notin b.ours THEN m
    ELSE IF m = Move(4, 7, "none") THEN Move(4, 6, "none")
    ELSE IF m = Move(4, 0, "none") THEN Move(4, 2, "none")
    ELSE m
GetModernMove(b, m) ==
    IF b.our_king # 4 THEN m
    ELSE IF m = Move(4, 6, "none") /\ 6 \notin b.ours THEN Move(4, 7, "none")
    ELSE IF m = Move(4, 2, "none") /\ 2 \notin b.ours THEN Move(4, 0, "none")
    ELSE m

LightSquares == {s \in Squares : (Row(s) + Col(s)) % 2 = 1}
HasMatingMaterial(b) ==
    \/ b.rooks # {} \/ b.pawns # {}
    \/ Cardinality(Pieces(b)) >= 4 /\ (Knights(b) # {} \/ (b.bishops \cap LightSquares # {} /\ b.bishops \ LightSquares # {}))
=============================================================================
