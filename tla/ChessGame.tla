------------------------------ MODULE ChessGame ------------------------------
(* Positions set up from a FEN, the history of a game with its counters of repetitions
   and of the fifty-move rule, the result of a game, and the encoding of a history as
   the planes and move indices of the network.

   A FEN is taken after its split into fields: the set of <<square, is white, kind>>,
   the letters of the castling field, the en passant square and the side to move. *)
EXTENDS ChessRules

CONSTANTS
    CgStarts, \* what a game may start from: [fen, rule50, squares its moves stay on, plies]
    CgFormats \* the input formats of the networks, by their number

CgNoStart == [fen |-> {}, rule50 |-> 0, squares |-> {}, plies |-> 0]

ASSUME CgAssumption == CgFormats \subseteq Nat

VARIABLES
    cgStart,  \* the start chosen
    cgHistory \* positions_ of PositionHistory

cgVars == <<cgStart, cgHistory>>

-----------------------------------------------------------------------------
(* SetFromFen.  The rook columns are shared by both sides; the last letter wins. *)
BadFen == [bad |-> TRUE]
FenPieces(fen) ==
    LET Of(white) == {p[1] : p \in {q \in fen.pieces : q[2] = white}}
        OfKinds(kinds) == {p[1] : p \in {q \in fen.pieces : q[3] \in kinds}}
        King(white) == CHOOSE s \in Of(white) \cap OfKinds({"king"}) : TRUE
    IN  [EmptyBoard EXCEPT !.ours = Of(TRUE), !.theirs = Of(FALSE),
            !.rooks = OfKinds({"rook", "queen"}), !.bishops = OfKinds({"bishop", "queen"}),
            !.pawns = OfKinds({"pawn"}), !.our_king = King(TRUE), !.their_king = King(FALSE)]

\* acc: [board, left_rook, right_rook], or BadFen when a letter names no rook.
FenCastling(acc, c) ==
    LET b == acc.board
        king_col == Col(IF c.black THEN b.their_king ELSE b.our_king)
        cols == {Col(s) : s \in PlainRooks(b) \cap (IF c.black THEN b.theirs \cap (56..63) ELSE b.ours \cap (0..7))}
        right == {k \in cols : k > king_col}
        left == {k \in cols : k < king_col}
        Grant(b0, short) == [b0 EXCEPT !.castlings = @ \cup
            {IF c.black THEN IF short THEN "they_00" ELSE "they_000" ELSE IF short THEN "we_00" ELSE "we_000"}]
        Short(k) == [board |-> Grant(b, TRUE), left_rook |-> acc.left_rook, right_rook |-> k]
        Long(k) == [board |-> Grant(b, FALSE), left_rook |-> k, right_rook |-> acc.right_rook]
    IN  IF acc = BadFen THEN BadFen
        ELSE CASE c.letter = "k" -> IF right = {} THEN BadFen ELSE Short(Max(right))
               [] c.letter = "q" -> IF left = {} THEN BadFen ELSE Long(Min(left))
               [] OTHER -> IF c.col < king_col THEN Long(c.col) ELSE Short(c.col)

FenFlag(sq) == {BoardSquare(IF Row(s) = 2 THEN 0 ELSE 7, Col(s)) : s \in sq}
SetFromFen(fen) ==
    LET acc == FoldLeft(FenCastling, [board |-> FenPieces(fen), left_rook |-> 0, right_rook |-> 7], fen.castlings)
        rooks == fen.castlings # << >>  \* else they stay as Clear() left them
        board == [acc.board EXCEPT !.qrook = IF rooks THEN acc.left_rook ELSE @,
                                   !.krook = IF rooks THEN acc.right_rook ELSE @,
                                   !.pawns = @ \cup FenFlag(fen.en_passant)]
    IN  IF acc = BadFen \/ \E s \in fen.en_passant : Row(s) \notin {2, 5} THEN BadFen
        ELSE IF fen.black_to_move THEN MirrorBoard(board) ELSE board

-----------------------------------------------------------------------------
(* Positions and histories.  us is the board of the player to move. *)
StartingPosition(board, rule50, ply) ==
    [us |-> board, them |-> MirrorBoard(board), rule50 |-> rule50, repetitions |-> 0, cycle |-> 0, ply |-> ply]
PositionAfter(parent, m) ==
    LET applied == ApplyMove(parent.us, m)
    IN  [us |-> MirrorBoard(applied.board), them |-> applied.board,
         rule50 |-> IF applied.zeroing THEN 0 ELSE parent.rule50 + 1,
         repetitions |-> 0, cycle |-> 0, ply |-> parent.ply + 1]

\* The search backwards by two plies stops at an equal board or at a reset of the
\* counter.  Boards are numbered from 0 here as in the vector.
NothingBeforeEarly(position) == position.rule50 < 3
NothingBefore(position) == position.rule50 < 2
ComputeLastMoveRepetitions(history) ==
    LET size == Len(history)
        At(idx) == history[idx + 1]
        last == At(size - 1)
        visited == {idx \in 0..(size - 3) : (size - 3 - idx) % 2 = 0}
        ends == {idx \in visited : At(idx).us = last.us \/ NothingBefore(At(idx))}
        idx == Max(ends)
    IN  IF last.rule50 < 4 \/ ends = {} \/ At(idx).us # last.us THEN [repetitions |-> 0, cycle |-> 0]
        ELSE [repetitions |-> 1 + At(idx).repetitions, cycle |-> size - 1 - idx]
SetRepetitions(history) ==
    LET r == ComputeLastMoveRepetitions(history)
    IN  [history EXCEPT ![Len(history)].repetitions = r.repetitions, ![Len(history)].cycle = r.cycle]
AppendMove(history, m) == SetRepetitions(Append(history, PositionAfter(Last(history), m)))

DidRepeatSinceLastZeroingMove(history) ==
    \E i \in 1..Len(history) :
        /\ history[i].repetitions > 0
        /\ \A j \in (i + 1)..Len(history) : history[j].repetitions = 0 /\ history[j].rule50 # 0

ComputeGameResult(history) ==
    LET last == Last(history)
        board == last.us
    IN  IF GenerateLegalMoves(board) = {}
        THEN IF ~IsUnderCheck(board) THEN "draw" ELSE IF board.flipped THEN "white_won" ELSE "black_won"
        ELSE IF ~HasMatingMaterial(board) \/ last.rule50 >= 100 \/ last.ply >= 450 \/ last.repetitions >= 2 THEN "draw"
        ELSE "undecided"

CgInit == cgHistory = <<>> /\ cgStart = CgNoStart
CgReset == \E start \in CgStarts : \* a history is set up once
    /\ cgHistory = <<>>
    /\ cgStart' = start
    /\ cgHistory' = <<StartingPosition(SetFromFen(start.fen), start.rule50, 0)>>
CgAppend ==
    /\ Len(cgHistory) \in 1..cgStart.plies
    /\ \E m \in GenerateLegalMoves(Last(cgHistory).us) :
        /\ {m.from, m.to} \subseteq cgStart.squares
        /\ cgHistory' = AppendMove(cgHistory, m)
    /\ UNCHANGED cgStart
CgTrim == \E size \in 1..(Len(cgHistory) - 1) :
    /\ cgHistory' = SubSeq(cgHistory, 1, size)
    /\ UNCHANGED cgStart
CgNext == CgReset \/ CgAppend \/ CgTrim

-----------------------------------------------------------------------------
(* Notation of castling in answers: the moves of a line are converted one after the
   other on the board after the ones before. *)
ConvertOne(acc, m) ==
    LET ours == IF acc.board.flipped THEN MirrorMove(m) ELSE m
        legacy == GetLegacyMove(acc.board, ours)
    IN  [board |-> MirrorBoard(ApplyMove(acc.board, legacy).board),
         moves |-> Append(acc.moves, IF acc.board.flipped THEN MirrorMove(legacy) ELSE legacy)]
ConvertToLegacyCastling(board, moves) == FoldLeft(ConvertOne, [board |-> board, moves |-> <<>>], moves).moves

-----------------------------------------------------------------------------
(* Transforms of the board, as sets of "flip", "mirror" and "transpose", on squares
   and on masks.  The masks go through exchanges of neighbouring bits, pairs and
   nibbles; n is 1, 2 or 4. *)
Transform(s, t) ==
    LET flipped == IF "flip" \in t THEN BoardSquare(Row(s), 7 - Col(s)) ELSE s
        mirrored == IF "mirror" \in t THEN MirrorSquare(flipped) ELSE flipped
    IN  IF "transpose" \in t THEN BoardSquare(7 - Col(mirrored), 7 - Row(mirrored)) ELSE mirrored

Bit(x, n) == (x \div n) % 2
FlipBit(x, n) == IF Bit(x, n) = 1 THEN x - n ELSE x + n
ReverseBitsInBytes(v) ==
    {BoardSquare(Row(s), FlipBit(FlipBit(FlipBit(Col(s), 1), 2), 4)) : s \in v}
ReverseBytesInBytes(v) ==
    {BoardSquare(FlipBit(FlipBit(FlipBit(Row(s), 4), 2), 1), Col(s)) : s \in v}
TransposeStep(s, n) ==
    IF Bit(Row(s), n) = Bit(Col(s), n) THEN BoardSquare(FlipBit(Row(s), n), FlipBit(Col(s), n)) ELSE s
TransposeBitsInBytes(v) == {TransposeStep(TransposeStep(TransposeStep(s, 1), 2), 4) : s \in v}
TransformMask(v, t) ==
    LET flipped == IF "flip" \in t THEN ReverseBitsInBytes(v) ELSE v
        mirrored == IF "mirror" \in t THEN ReverseBytesInBytes(flipped) ELSE flipped
    IN  IF "transpose" \in t THEN TransposeBitsInBytes(mirrored) ELSE mirrored

\* -1, 0 or 1 as the mask is less than, equal to or greater than its transpose.
CompareMasks(value, alternative) ==
    LET differ == (value \ alternative) \cup (alternative \ value)
    IN  IF differ = {} THEN 0 ELSE IF Max(differ) \in value THEN 1 ELSE -1
CompareUntransformed(v, t) == CompareMasks(v, TransposeBitsInBytes(v))
CompareTransposing(v, t) == LET value == TransformMask(v, t) IN CompareMasks(value, TransposeBitsInBytes(value))
ChooseTransform(b) ==
    LET flip == IF Col(b.our_king) < 4 THEN {"flip"} ELSE {}
        mirror == IF Row(b.our_king) >= 4 THEN {"mirror"} ELSE {}
        t == flip \cup mirror
        king == Transform(b.our_king, t)
        tests == <<Pieces(b), b.ours, {b.our_king, b.their_king}, b.rooks \cap b.bishops,
                   PlainRooks(b), Knights(b), b.bishops \ b.rooks>>
        decided == {i \in 1..7 : CompareTransposing(tests[i], t) # 0}
    IN  IF b.castlings # {} THEN {}
        ELSE IF b.pawns \cap kPawnMask # {} THEN flip
        ELSE IF Row(king) + Col(king) > 7 THEN t \cup {"transpose"}
        ELSE IF Row(king) + Col(king) = 7 /\ decided # {} /\ CompareTransposing(tests[Min(decided)], t) = 1
             THEN t \cup {"transpose"}
        ELSE t

\* The index of a move in the policy: the moves of a queen or a knight by squares,
\* then the promotions but to a knight, which share the index of the plain move.
NnTargets == [s \in Squares |-> kRookAttacks[s] \cup kBishopAttacks[s] \cup kKnightAttacks[s]]
NnOffset == [s \in Squares |-> MapThenSumSet(LAMBDA r : Cardinality(NnTargets[r]), 0..(s - 1))]
PromotionOffset(promotion) == CASE promotion = "queen" -> 0 [] promotion = "rook" -> 1 [] OTHER -> 2
kMoveToIdx(m) ==
    LET c == Col(m.from)
        pair == IF c = 0 THEN Col(m.to) ELSE 2 * c + Col(m.to)
    IN  IF m.promotion \in {"none", "knight"}
        THEN IF m.to \in NnTargets[m.from]
             THEN NnOffset[m.from] + Cardinality({s \in NnTargets[m.from] : s < m.to}) ELSE 0
        ELSE IF Row(m.from) = 6 /\ Row(m.to) = 7 THEN 1792 + 3 * pair + PromotionOffset(m.promotion) ELSE 0
as_nn_index(m, t) == kMoveToIdx([m EXCEPT !.from = Transform(@, t), !.to = Transform(@, t)])

kStartposBoard ==
    [EmptyBoard EXCEPT !.ours = 0..15, !.theirs = 48..63, !.rooks = {0, 3, 7, 56, 59, 63},
                       !.bishops = {2, 3, 5, 58, 59, 61}, !.pawns = (8..15) \cup (48..55),
                       !.our_king = 4, !.their_king = 60, !.krook = 7, !.castlings = {"we_00", "we_000", "they_00", "they_000"}]

-----------------------------------------------------------------------------
(* EncodePositionForNN.  A plane is a set of squares, or a number for plane 109. *)
kMoveHistory == 8
kPlanesPerBoard == 13
kAuxPlaneBase == kPlanesPerBoard * kMoveHistory
IsCanonicalFormat(format) == format >= 3
IsHectopliesFormat(format) == format >= 4
IsCanonicalArmageddonFormat(format) == format = 132

AuxPlanes(format, last) ==
    LET b == last.us
        All(cond) == IF cond THEN Squares ELSE {}
        Rooks(we, they, col) == {s \in {col} : we \in b.castlings} \cup {s \in {56 + col} : they \in b.castlings}
        classical == <<All("we_000" \in b.castlings), All("we_00" \in b.castlings),
                       All("they_000" \in b.castlings), All("they_00" \in b.castlings)>>
        castling == <<Rooks("we_000", "they_000", b.qrook), Rooks("we_00", "they_00", b.krook), {}, {}>>
    IN  (IF format = 1 THEN classical ELSE castling)
        \o <<IF IsCanonicalFormat(format) THEN b.pawns \ kPawnMask ELSE All(b.flipped),
             IF IsHectopliesFormat(format) THEN last.rule50 ELSE last.rule50 * 100, \* in hundredths
             All(IsCanonicalArmageddonFormat(format) /\ b.flipped), Squares>>

\* The board of slot i: history repeats its first position, from the side it was last
\* seen from, when it is shorter than eight.
SlotIndex(history, i) == Len(history) - 1 - i
SlotPosition(history, i) == history[Max({SlotIndex(history, i), 0}) + 1]
SlotFlips(history, i) == Cardinality({j \in 0..(i - 1) : SlotIndex(history, j) > 0}) % 2 = 1
SlotBoard(history, i) ==
    IF SlotFlips(history, i) THEN SlotPosition(history, i).them ELSE SlotPosition(history, i).us

StopsBefore(format, history, i, fill) ==
    LET board == SlotBoard(history, i)
        idx == SlotIndex(history, i)
    IN  \/ /\ IsCanonicalFormat(format)
           /\ \/ board.castlings # Last(history).us.castlings
              \/ i > 0 /\ board.pawns \ kPawnMask # {}
        \/ idx < 0 /\ (fill = "no" \/ (fill = "fen_only" /\ SlotPosition(history, i).us = kStartposBoard))
StopsAfter(format, history, i) == IsCanonicalFormat(format) /\ SlotPosition(history, i).rule50 = 0
FilledSlots(format, history, fill) ==
    {i \in 0..(kMoveHistory - 1) : /\ \A j \in 0..i : ~StopsBefore(format, history, j, fill)
                                  /\ \A j \in 0..(i - 1) : ~StopsAfter(format, history, j)}

\* A repeated first position is shown before its last pawn move.
UndoneFlags(history, i) == IF SlotIndex(history, i) < 0 THEN SlotBoard(history, i).pawns \ kPawnMask ELSE {}
UndoPawn(S, flags, from, to) ==
    IF flags = {} THEN S ELSE LET f == Min(flags) IN (S \ {Col(f) + to}) \cup {Col(f) + from}
SlotPlanes(history, i) ==
    LET b == SlotBoard(history, i)
        flags == UndoneFlags(history, i)
        Side(S) == <<S \cap b.pawns \cap kPawnMask, S \cap Knights(b), S \cap (b.bishops \ b.rooks), S \cap PlainRooks(b),
                     S \cap b.rooks \cap b.bishops, S \cap {b.our_king, b.their_king}>>
        low == IF flags # {} /\ Min(flags) < 8 THEN flags ELSE {}
    IN  [Side(b.ours) EXCEPT ![1] = UndoPawn(@, low, 8, 24)]
        \o [Side(b.theirs) EXCEPT ![1] = UndoPawn(@, flags \ low, 48, 32)]
        \o <<IF SlotPosition(history, i).repetitions >= 1 THEN Squares ELSE {}>>

EncodePositionForNN(format, history, fill) ==
    LET t == IF IsCanonicalFormat(format) THEN ChooseTransform(Last(history).us) ELSE {}
        filled == FilledSlots(format, history, fill)
        Transformed(planes) == [k \in 1..kPlanesPerBoard |-> TransformMask(planes[k], t)]
        slots == [i \in 0..(kMoveHistory - 1) |-> IF i \in filled THEN Transformed(SlotPlanes(history, i)) ELSE <<>>]
        aux == AuxPlanes(format, Last(history))
    IN  [slots |-> slots, aux |-> [k \in 1..8 |-> IF k <= 5 THEN TransformMask(aux[k], t) ELSE aux[k]]]

-----------------------------------------------------------------------------
CgBoard == Last(cgHistory).us

(* The moves generated by pins and lines of attack (GenerateLegalMoves) are exactly
   the moves the rules allow, en passant and Chess960 castling included. *)
CgLegalMovesByRules == cgHistory # <<>> => GenerateLegalMoves(CgBoard) = RuleLegalMoves(CgBoard)

(* ApplyMove leaves the placement, the rights to castle and the en passant square that
   the rules give, in either notation of castling. *)
CgMovesByRules == cgHistory # <<>> =>
    \A m \in GenerateLegalMoves(CgBoard) :
        LET after == ApplyMove(CgBoard, m).board
        IN  /\ Placement(after) = RuleAfter(CgBoard, m)
            /\ after.castlings = RuleRightsAfter(CgBoard, m)
            /\ {f + 16 : f \in after.pawns \ kPawnMask} = RuleEnPassantAfter(CgBoard, m)

(* Every board a game reaches is sound (BoardOK), and the two boards of a position
   are mirror images. *)
CgBoardsSound == cgHistory # <<>> => BoardOK(CgBoard) /\ Last(cgHistory).them = MirrorBoard(CgBoard)

(* The counters of a position say how often and how long ago the same position was
   reached in the game, although ComputeLastMoveRepetitions looks back no further than
   the first equal board or reset of the counter. *)
CgRepetitionsExact ==
    \A i \in 1..Len(cgHistory) :
        LET before == {j \in 1..(i - 1) : cgHistory[j].us = cgHistory[i].us}
        IN  /\ cgHistory[i].repetitions = Cardinality(before)
            /\ cgHistory[i].cycle = IF before = {} THEN 0 ELSE i - Max(before)
CgRepeatFlagExact ==
    LET since == {i \in 1..Len(cgHistory) : \A j \in (i + 1)..Len(cgHistory) : cgHistory[j].rule50 # 0}
    IN  DidRepeatSinceLastZeroingMove(cgHistory)
            <=> \E i, j \in since : i < j /\ cgHistory[i].us = cgHistory[j].us

(* Legacy castling is another name of the same move and no two legal moves share a
   name: converting there and back gives the move, both do the same to the board, and
   a line converted move by move stays a line of the same moves. *)
CgCastlingNotation == cgHistory # <<>> =>
    LET moves == GenerateLegalMoves(CgBoard)
        Absolute(m) == IF CgBoard.flipped THEN MirrorMove(m) ELSE m
    IN  \A m \in moves :
            LET legacy == GetLegacyMove(CgBoard, m)
            IN  /\ GetModernMove(CgBoard, legacy) = m
                /\ ApplyMove(CgBoard, legacy) = ApplyMove(CgBoard, m)
                /\ {n \in moves : IsSameMove(CgBoard, n, legacy)} = {m}
                /\ ConvertToLegacyCastling(CgBoard, <<Absolute(m), NullMove>>) = <<Absolute(legacy), NullMove>>

(* No two legal moves of a position share an index of the policy, under whatever
   transform the position is encoded with. *)
CgIndicesDistinct == cgHistory # <<>> =>
    \A t \in {{}, ChooseTransform(CgBoard)} : \A m, n \in GenerateLegalMoves(CgBoard) :
        as_nn_index(m, t) = as_nn_index(n, t) => m = n

\* The image of a history under a symmetry of the board.
ImageBoard(b, t) ==
    LET Of(S) == {Transform(s, t) : s \in S}
    IN  [b EXCEPT !.ours = Of(@), !.theirs = Of(@), !.rooks = Of(@), !.bishops = Of(@), !.pawns = Of(@),
                  !.our_king = Transform(@, t), !.their_king = Transform(@, t)]
ImageHistory(history, t) ==
    [i \in 1..Len(history) |-> [history[i] EXCEPT !.us = ImageBoard(@, t), !.them = ImageBoard(@, t)]]
Symmetries(history) ==
    IF \E i \in 1..Len(history) : history[i].us.castlings # {} THEN {}
    ELSE IF \E i \in 1..Len(history) : history[i].us.pawns # {} THEN {{"flip"}}
    ELSE (SUBSET {"flip", "mirror", "transpose"}) \ {{}}
MoveIndices(b) == LET t == ChooseTransform(b) IN {as_nn_index(m, t) : m \in GenerateLegalMoves(b)}

(* A canonical format encodes every image of a history, where neither pawns nor rights
   to castle tell directions apart, as the same planes and its moves as the same
   indices: the masks and the moves go through the same transform. *)
CgEncodingCanonical == cgHistory # <<>> =>
    LET Planes(history) == {EncodePositionForNN(f, history, "no") : f \in {g \in CgFormats : IsCanonicalFormat(g)}}
        planes == Planes(cgHistory)
        indices == MoveIndices(CgBoard)
    IN  \A t \in Symmetries(cgHistory) : /\ Planes(ImageHistory(cgHistory, t)) = planes
                                         /\ MoveIndices(ImageBoard(CgBoard, t)) = indices

(* Every slot of the encoding is a placement: one king a side, no square twice, and as
   many pawns as the position it shows, also where the last pawn move is undone. *)
CgPlanesArePlacements == cgHistory # <<>> =>
    \A format \in CgFormats, fill \in {"no", "fen_only", "always"} :
        LET slots == EncodePositionForNN(format, cgHistory, fill).slots
        IN  \A i \in {j \in 0..(kMoveHistory - 1) : slots[j] # <<>>} :
                /\ Cardinality(slots[i][6]) = 1 /\ Cardinality(slots[i][12]) = 1
                /\ Cardinality(UNION {slots[i][k] : k \in 1..12}) = Cardinality(Pieces(SlotPosition(cgHistory, i).us))
                /\ Cardinality(slots[i][1] \cup slots[i][7]) = Cardinality(SlotPosition(cgHistory, i).us.pawns \cap kPawnMask)

(* Games are played by the rules: the moves generated, what they do to the board, the
   boards reached and both notations of castling. *)
CgPlayedByRules == CgLegalMovesByRules /\ CgMovesByRules /\ CgBoardsSound /\ CgCastlingNotation

(* Repetitions are counted right, for each position and since the last zeroing move. *)
CgHistoryExact == CgRepetitionsExact /\ CgRepeatFlagExact

(* The network is shown placements of the right pieces, the same for symmetric
   histories, and every legal move has an index of its own. *)
CgEncodingExact == CgIndicesDistinct /\ CgEncodingCanonical /\ CgPlanesArePlacements
=============================================================================
