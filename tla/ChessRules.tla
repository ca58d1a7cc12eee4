----------------------------- MODULE ChessRules -----------------------------
(* The rules of chess, and of Chess960 castling, as a reference for ChessBoard: a
   placement is a function from the occupied squares to <<is it ours, kind>>, attacks
   are followed forward from the attacker, and a move is legal when the king is not
   attacked in the placement after it. *)
EXTENDS ChessBoard

Kind(b, s) ==
    CASE s \in {b.our_king, b.their_king} -> "king"
      [] s \in b.rooks \cap b.bishops -> "queen"
      [] s \in b.rooks -> "rook"
      [] s \in b.bishops -> "bishop"
      [] s \in b.pawns -> "pawn"
      [] OTHER -> "knight"
Placement(b) == [s \in Pieces(b) |-> <<s \in b.ours, Kind(b, s)>>]

SlidingDirections == [queen |-> kKingMoves, rook |-> kRookDirections, bishop |-> kBishopDirections,
                      knight |-> {}, king |-> {}, pawn |-> {}]
Seen(at, s, d) ==
    LET line == BoardLines[s][d] IN {line[k] : k \in {i \in 1..Len(line) : \A j \in 1..(i - 1) : line[j] \notin DOMAIN at}}
Reach(at, s) ==
    LET kind == at[s][2]
        steps == CASE kind = "king" -> kKingMoves
                   [] kind = "knight" -> {d \in (-2..2) \X (-2..2) : d[1] * d[2] \in {-2, 2}}
                   [] kind = "pawn" -> {IF at[s][1] THEN 1 ELSE -1} \X {-1, 1}
                   [] OTHER -> {}
    IN  Around(s, steps) \cup UNION {Seen(at, s, d) : d \in SlidingDirections[kind]}
Attacked(at, s) == \E f \in DOMAIN at : ~at[f][1] /\ s \in Reach(at, f)
OurKing(at) == CHOOSE s \in DOMAIN at : at[s] = <<TRUE, "king">>

\* The square a pawn that just moved two squares skipped, when it may be taken there.
EnPassantTarget(b) == {BoardSquare(5, Col(f)) : f \in b.pawns \cap (56..63)}

CastlingSides == [we_000 |-> [king |-> 2, rook |-> 3], we_00 |-> [king |-> 6, rook |-> 5]]
RuleCastling(b, right) == \* the placement after castling
    LET rook == IF right = "we_000" THEN b.qrook ELSE b.krook
        to == CastlingSides[right]
        at == Placement(b)
        others == [s \in (DOMAIN at) \ {b.our_king, rook} |-> at[s]]
    IN  [s \in DOMAIN others \cup {to.king, to.rook} |->
            IF s = to.king THEN <<TRUE, "king">> ELSE IF s = to.rook THEN <<TRUE, "rook">> ELSE others[s]]
Between(a, c) == IF a <= c THEN a..c ELSE c..a
RuleMayCastle(b, right) ==
    LET rook == IF right = "we_000" THEN b.qrook ELSE b.krook
        to == CastlingSides[right]
        walked == Between(b.our_king, to.king)
    IN  /\ right \in b.castlings
        /\ (walked \cup Between(rook, to.rook)) \cap Pieces(b) \subseteq {b.our_king, rook}
        /\ \A s \in (walked \ {to.king}) \cup {b.our_king} : ~Attacked(Placement(b), s)
        /\ ~Attacked(RuleCastling(b, right), to.king)
RuleCastlingOf(b, m) ==
    {r \in {"we_000", "we_00"} \cap b.castlings :
        m.from = b.our_king /\ m.to = (IF r = "we_000" THEN b.qrook ELSE b.krook) /\ m.to \in b.ours}

RuleAfter(b, m) ==
    LET at == Placement(b)
        castling == RuleCastlingOf(b, m)
        taken == IF at[m.from][2] = "pawn" /\ m.to \in EnPassantTarget(b) THEN {m.to - 8} ELSE {}
    IN  IF castling # {} THEN RuleCastling(b, CHOOSE r \in castling : TRUE)
        ELSE [s \in ((DOMAIN at) \ ({m.from} \cup taken)) \cup {m.to} |->
                 IF s # m.to THEN at[s]
                 ELSE IF m.promotion # "none" THEN <<TRUE, m.promotion>> ELSE at[m.from]]

RulePawnTargets(b, s) ==
    LET at == Placement(b)
        one == IF s + 8 \in DOMAIN at THEN {} ELSE {s + 8}
        two == IF one # {} /\ Row(s) = 1 /\ s + 16 \notin DOMAIN at THEN {s + 16} ELSE {}
    IN  one \cup two \cup (Reach(at, s) \cap (b.theirs \cup EnPassantTarget(b)))
RuleTargets(b, s) ==
    IF Kind(b, s) = "pawn" THEN RulePawnTargets(b, s) ELSE Reach(Placement(b), s) \ b.ours
RuleLegalMoves(b) ==
    LET promotions(s, t) == IF Kind(b, s) = "pawn" /\ Row(t) = 7 THEN kPromotions ELSE {"none"}
        moves == UNION {UNION {{Move(s, t, p) : p \in promotions(s, t)} : t \in RuleTargets(b, s)} : s \in b.ours}
        castlings == {Move(b.our_king, IF r = "we_000" THEN b.qrook ELSE b.krook, "none") :
                         r \in {c \in {"we_000", "we_00"} : RuleMayCastle(b, c)}}
    IN  {m \in moves : ~Attacked(RuleAfter(b, m), OurKing(RuleAfter(b, m)))} \cup castlings

\* A right to castle lasts until its king or its rook moves or the rook is taken.
RuleRightsAfter(b, m) ==
    {r \in b.castlings : {m.from, m.to} \cap
        (CASE r = "we_00" -> {b.our_king, b.krook} [] r = "we_000" -> {b.our_king, b.qrook}
           [] r = "they_00" -> {56 + b.krook} [] r = "they_000" -> {56 + b.qrook}) = {}}
RuleEnPassantAfter(b, m) ==
    {t \in {m.to - 8} : /\ Kind(b, m.from) = "pawn" /\ m.to = m.from + 16
                        /\ \E s \in Around(m.to, {<<0, -1>>, <<0, 1>>}) : s \in b.theirs /\ Kind(b, s) = "pawn"}

\* What holds of every board: each square has one piece, the flags of en passant and
\* the rights to castle speak of pieces that are there.
BoardOK(b) ==
    /\ b.ours \cap b.theirs = {} /\ b.our_king \in b.ours /\ b.their_king \in b.theirs
    /\ (b.rooks \cup b.bishops) \cap {b.our_king, b.their_king} = {}
    /\ (b.pawns \cap kPawnMask) \cap (b.rooks \cup b.bishops \cup {b.our_king, b.their_king}) = {}
    /\ b.rooks \cup b.bishops \cup (b.pawns \cap kPawnMask) \subseteq Pieces(b)
    /\ \A f \in b.pawns \ kPawnMask : /\ Row(f) = 7 /\ f - 24 \in b.theirs \cap b.pawns
                                      /\ {f - 8, f - 16} \cap Pieces(b) = {}
    /\ "we_00" \in b.castlings => b.our_king < b.krook /\ b.krook \in b.ours \cap PlainRooks(b)
    /\ "we_000" \in b.castlings => b.our_king \in b.qrook..7 /\ b.qrook \in b.ours \cap PlainRooks(b)
    /\ "they_00" \in b.castlings => b.their_king \in 56..(56 + b.krook) /\ 56 + b.krook \in b.theirs \cap PlainRooks(b)
    /\ "they_000" \in b.castlings => b.their_king > 56 + b.qrook /\ 56 + b.qrook \in b.theirs \cap PlainRooks(b)
=============================================================================
