---------------------------- MODULE SyzygyTables ----------------------------
(***************************************************************************)
(* The addressing of the Syzygy tables (src/syzygy/syzygy.cc): which       *)
(* materials have a table, the number a position gets in its table, and    *)
(* the decompression of the value under that number.                       *)
(*                                                                         *)
(* Squares are 0..63, a1 = 0, h8 = 63; pieces are 1..6 (pawn..king) for    *)
(* White and 9..14 for Black; p is a sequence of squares, so p[1] is the   *)
(* code's p[0].  The constant tables of the code are written as the rules  *)
(* that give their entries.  A material key is the material itself: hash   *)
(* collisions of the 64-bit keys are left out.                             *)
(***************************************************************************)
EXTENDS Integers, Sequences, FiniteSets, SequencesExt, FiniteSetsExt

CONSTANT TbCases   \* the questions asked, one per initial state
VARIABLE tbCase
tbVars == <<tbCase>>

TbSq == 0..63
TbRow(s) == s \div 8
TbCol(s) == s % 8
TbSign(x) == IF x > 0 THEN 1 ELSE IF x < 0 THEN -1 ELSE 0
TbSum(f(_), S) == MapThenSumSet(f, S)
TbLesser(a, b) == IF a < b THEN a ELSE b
TbFold4(x) == TbLesser(x, 7 - x)

-----------------------------------------------------------------------------
(* Constant tables. *)

kOffDiag == [s \in TbSq |-> TbSign(TbRow(s) - TbCol(s))]
kFlipDiag == [s \in TbSq |-> 8 * TbCol(s) + TbRow(s)]

Earlier(r, q) == r[1] < q[1] \/ (r[1] = q[1] /\ r[2] < q[2])

(* The pairs a < b below n, numbered row by row.                           *)
PairNumber(n) ==
  [q \in {r \in (0..n - 1) \X (0..n - 1) : r[1] < r[2]} |->
     Cardinality({r \in (0..n - 1) \X (0..n - 1) :
                    r[1] < r[2] /\ Earlier(r, q)})]
PairOf(a, b) == IF a < b THEN <<a, b>> ELSE <<b, a>>
PairNumber4 == PairNumber(4)
PairNumber8 == PairNumber(8)

(* The class of a square under the eight symmetries: 6..9 on a diagonal.   *)
kTriangle ==
  [s \in TbSq |-> LET a == TbFold4(TbRow(s))  b == TbFold4(TbCol(s))
                  IN  IF a = b THEN 6 + a ELSE PairNumber4[PairOf(a, b)]]
kLower ==
  [s \in TbSq |-> IF TbRow(s) = TbCol(s) THEN 28 + TbRow(s)
                  ELSE PairNumber8[PairOf(TbRow(s), TbCol(s))]]
kDiag ==
  [s \in TbSq |-> IF TbRow(s) = TbCol(s) THEN TbRow(s)
                  ELSE IF TbRow(s) + TbCol(s) = 7 THEN 8 + TbRow(s) ELSE 0]

PawnSquare(s) == TbRow(s) \in 1..6
kFlap(enc) ==
  [s \in TbSq |-> IF ~PawnSquare(s) THEN 0
                  ELSE IF enc = "file" THEN 6 * TbFold4(TbCol(s)) + TbRow(s) - 1
                  ELSE 4 * (TbRow(s) - 1) + TbFold4(TbCol(s))]
kPawnTwist(enc) ==
  [s \in TbSq |->
     IF ~PawnSquare(s) THEN 0
     ELSE 47 - (IF enc = "file" THEN 12 ELSE 2) * TbFold4(TbCol(s))
             - (IF enc = "file" THEN 2 ELSE 8) * (TbRow(s) - 1)
             - (IF TbCol(s) > 3 THEN 1 ELSE 0)]
FileFlap == kFlap("file")
RankFlap == kFlap("rank")
FileTwist == kPawnTwist("file")
RankTwist == kPawnTwist("rank")
Flap(enc, s) == IF enc = "file" THEN FileFlap[s] ELSE RankFlap[s]
Twist(enc, s) == IF enc = "file" THEN FileTwist[s] ELSE RankTwist[s]

(* Kings: the first in the triangle, the second not next to it, and not    *)
(* below the diagonal when the first is on it; both on the diagonal last.  *)
TriangleSquare == <<1, 2, 3, 10, 11, 19, 0, 9, 18, 27>>
Touch(a, b) == /\ TbRow(a) - TbRow(b) \in -1..1
               /\ TbCol(a) - TbCol(b) \in -1..1
KKFirst == {q \in (0..9) \X TbSq : /\ ~Touch(TriangleSquare[q[1] + 1], q[2])
                                   /\ (q[1] < 6 \/ kOffDiag[q[2]] < 0)}
KKLast == {q \in (6..9) \X TbSq : /\ ~Touch(TriangleSquare[q[1] + 1], q[2])
                                  /\ kOffDiag[q[2]] = 0}
KKBefore(S, q) ==
  Cardinality({r \in S : Earlier(r, q)})
kKKIdx ==
  [q \in KKFirst \cup KKLast |->
     IF q \in KKFirst THEN KKBefore(KKFirst, q)
     ELSE Cardinality(KKFirst) + KKBefore(KKLast, q)]

-----------------------------------------------------------------------------
(* init_indices *)

Product(lo, hi) == FoldSet(LAMBDA a, b: a * b, 1, lo..hi)
BinomialTable == [k \in 0..4 |-> [n \in 0..63 |->
                    IF k > n THEN 0 ELSE Product(n - k + 1, n) \div Product(1, k)]]
Binomial(k, n) == BinomialTable[k][n]

(* The square the entry j of the pawn tables is about.                     *)
FlapSquare(enc, j) ==
  IF enc = "file" THEN 8 * (1 + (j % 6)) + (j \div 6)
                  ELSE 8 * (1 + (j \div 4)) + (j % 4)
PawnRun(enc) == IF enc = "file" THEN 6 ELSE 4
PawnTerm(enc, i, j) == Binomial(i, Twist(enc, FlapSquare(enc, j)))

PawnIdx(enc, i, j) ==
  TbSum(LAMBDA x: PawnTerm(enc, i, x), (j - (j % PawnRun(enc)))..(j - 1))
PawnFactor(enc, i, t) ==
  TbSum(LAMBDA x: PawnTerm(enc, i, x),
        (t * PawnRun(enc))..(t * PawnRun(enc) + PawnRun(enc) - 1))

-----------------------------------------------------------------------------
(* encode.  A table's entry be is [kk, pawns |-> <<own, other>>]; ei is the*)
(* sequence of its groups [from, len, factor], the leading group first.    *)

MirrorFiles(p) == [i \in DOMAIN p |-> p[i] - TbCol(p[i]) + (7 - TbCol(p[i]))]
MirrorRanks(p) == [i \in DOMAIN p |-> 8 * (7 - TbRow(p[i])) + TbCol(p[i])]
FlipDiagonal(p) == [i \in DOMAIN p |-> kFlipDiag[p[i]]]

Lead(be) == IF be.pawns[1] > 0 THEN be.pawns[1] ELSE IF be.kk THEN 2 ELSE 3

(* The first piece off the diagonal is brought above it, if it is leading. *)
AboveDiagonal(p, be) ==
  LET off == {i \in DOMAIN p : kOffDiag[p[i]] # 0}
  IN  IF off # {} /\ kOffDiag[p[Min(off)]] > 0 /\ Min(off) <= Lead(be)
      THEN FlipDiagonal(p) ELSE p

LeftHalf(p) == IF TbCol(p[1]) >= 4 THEN MirrorFiles(p) ELSE p
LowerHalf(p) == IF TbRow(p[1]) >= 4 THEN MirrorRanks(p) ELSE p

SquareAbove(a, b) == IF a > b THEN 1 ELSE 0

LeadingPieces(p, be) ==
  IF be.kk THEN kKKIdx[<<kTriangle[p[1]], p[2]>>]
  ELSE LET s1 == SquareAbove(p[2], p[1])
           s2 == SquareAbove(p[3], p[1]) + SquareAbove(p[3], p[2])
       IN  CASE kOffDiag[p[1]] # 0 ->
                  kTriangle[p[1]] * 63 * 62 + (p[2] - s1) * 62 + (p[3] - s2)
             [] kOffDiag[p[1]] = 0 /\ kOffDiag[p[2]] # 0 ->
                  6 * 63 * 62 + kDiag[p[1]] * 28 * 62 + kLower[p[2]] * 62
                    + p[3] - s2
             [] kOffDiag[p[1]] = 0 /\ kOffDiag[p[2]] = 0 /\ kOffDiag[p[3]] # 0 ->
                  6 * 63 * 62 + 4 * 28 * 62 + kDiag[p[1]] * 7 * 28
                    + (kDiag[p[2]] - s1) * 28 + kLower[p[3]]
             [] OTHER ->
                  6 * 63 * 62 + 4 * 28 * 62 + 4 * 7 * 28 + kDiag[p[1]] * 7 * 6
                    + (kDiag[p[2]] - s1) * 6 + (kDiag[p[3]] - s2)

(* The pawn with the smallest flap comes first.                            *)
LeadingPawnFirst(p, be, enc) ==
  LET best == CHOOSE i \in 1..be.pawns[1] :
                 \A j \in 1..be.pawns[1] :
                    \/ Flap(enc, p[i]) < Flap(enc, p[j])
                    \/ (Flap(enc, p[i]) = Flap(enc, p[j]) /\ i <= j)
  IN  [p EXCEPT ![1] = p[best], ![best] = p[1]]

(* leading_pawn: the table of the entry.                                   *)
LeadingPawnTable(p, enc) ==
  IF enc = "file" THEN TbFold4(TbCol(p[1])) ELSE TbRow(p[1]) - 1

LeadingPawns(p, be, enc) ==
  LET k == be.pawns[1]
      twists == SetToSortSeq({Twist(enc, p[i]) : i \in 2..k}, >)
  IN  PawnIdx(enc, k - 1, Flap(enc, p[1]))
        + TbSum(LAMBDA i: Binomial(k - i, twists[i]), 1..(k - 1))

\* A mutant of GroupIndex: the squares taken by earlier pieces are counted.
GroupIndexUnskipped(p, from, len, below) ==
  LET squares == SetToSortSeq({p[i] : i \in from..(from + len - 1)}, <)
  IN  TbSum(LAMBDA i: Binomial(i, squares[i] - below), 1..len)

(* The number of a group of like pieces among the squares left to it.      *)
GroupIndex(p, from, len, below) ==
  LET squares == SetToSortSeq({p[i] : i \in from..(from + len - 1)}, <)
      skips(s) == Cardinality({j \in 1..(from - 1) : s > p[j]})
  IN  TbSum(LAMBDA i: Binomial(i, squares[i] - skips(squares[i]) - below),
            1..len)

encode(p0, ei, be, enc) ==
  LET p == IF enc = "piece" THEN AboveDiagonal(LowerHalf(LeftHalf(p0)), be)
                            ELSE LeftHalf(p0)
      lead == IF enc = "piece" THEN LeadingPieces(p, be)
                               ELSE LeadingPawns(p, be, enc)
      part(g) == ei[g].factor *
                   (IF g = 1 THEN lead
                    ELSE GroupIndex(p, ei[g].from, ei[g].len,
                                    IF g = 2 /\ be.pawns[2] > 0 THEN 8 ELSE 0))
  IN  TbSum(part, DOMAIN ei)

-----------------------------------------------------------------------------
(* init_enc_info *)

subfactor(k, n) == Product(n - k + 1, n) \div Product(1, k)

(* Like pieces next to each other form a group; the leading pieces and the *)
(* pawns of the other colour are groups given by the entry.                *)
EncGroups(pieces, be) ==
  LET given == IF be.pawns[2] > 0 THEN <<be.pawns[1], be.pawns[2]>>
                                  ELSE <<Lead(be)>>
      start == FoldLeft(+, 0, given)
      extend(gs, i) ==
        IF i > start + 1 /\ pieces[i] = pieces[i - 1]
        THEN [gs EXCEPT ![Len(gs)] = @ + 1] ELSE Append(gs, 1)
  IN  FoldLeft(extend, given, [i \in 1..(Len(pieces) - start) |-> start + i])

GroupSize(lens, g, be, enc, t) ==
  IF g = 1 THEN IF enc = "piece" THEN IF be.kk THEN 462 ELSE 31332
                                 ELSE PawnFactor(enc, lens[1] - 1, t)
  ELSE IF g = 2 /\ be.pawns[2] > 0 THEN subfactor(lens[2], 48 - lens[1])
  ELSE subfactor(lens[g], 64 - TbSum(LAMBDA h: lens[h], 1..(g - 1)))

(* The groups in the order of the file: the leading one at place order,    *)
(* the other pawns at place order2, the rest in between.                   *)
EncOrder(n, order, order2, more) ==
  LET firstRest == IF more THEN 3 ELSE 2
      rest(i) == firstRest + Cardinality({j \in 0..(i - 1) :
                                            j # order /\ (~more \/ j # order2)})
  IN  [i \in 1..n |-> IF i - 1 = order THEN 1
                      ELSE IF more /\ i - 1 = order2 THEN 2 ELSE rest(i - 1)]

init_enc_info(pieces, be, order, order2, t, enc) ==
  LET lens == EncGroups(pieces, be)
      place == EncOrder(Len(lens), order, order2, be.pawns[2] > 0)
      size(g) == GroupSize(lens, g, be, enc, t)
      product(i) == FoldLeft(LAMBDA acc, g: acc * size(g), 1,
                             SubSeq(place, 1, i))
      at(g) == CHOOSE i \in DOMAIN place : place[i] = g
  IN  [groups |-> [g \in DOMAIN lens |->
                     [from |-> 1 + TbSum(LAMBDA h: lens[h], 1..(g - 1)),
                      len |-> lens[g], factor |-> product(at(g) - 1)]],
       size |-> product(Len(lens))]

-----------------------------------------------------------------------------
(* Materials: the constructor's loops.  A side is the non-decreasing       *)
(* sequence of its pieces but the king, 0 = queen .. 4 = pawn.             *)

Side(n) == {s \in [1..n -> 0..4] : \A i \in 1..(n - 1) : s[i] <= s[i + 1]}

(* Two pieces each: the loops over k and l, which skip one of two orders.  *)
Ordered2(m) ==
  /\ m[1][1] <= m[2][1]
  /\ (IF m[1][1] = m[2][1] THEN m[1][2] ELSE m[2][1]) <= m[2][2]

TbNames ==
  {m \in UNION {Side(w) \X Side(b) : w \in 1..5, b \in 0..2} :
     /\ Len(m[1]) > Len(m[2]) /\ Len(m[1]) + Len(m[2]) <= 5}
  \cup {m \in Side(1) \X Side(1) : m[1][1] <= m[2][1]}
  \cup {m \in Side(2) \X Side(2) : Ordered2(m)}

-----------------------------------------------------------------------------
(* init_tb: the entry of a material, as counts pcs of pieces.              *)

TypeOf(c) == 5 - c   \* queen = 5 .. pawn = 1
CountIn(side, type) == Cardinality({i \in DOMAIN side : TypeOf(side[i]) = type})
Pcs(m) ==
  [i \in 1..14 |-> CASE i \in 1..5 -> CountIn(m[1], i)
                     [] i \in 9..13 -> CountIn(m[2], i - 8)
                     [] i \in {6, 14} -> 1
                     [] OTHER -> 0]
SwapSides(m) == <<m[2], m[1]>>
HasPawns(m) == Pcs(m)[1] + Pcs(m)[9] > 0

(* The side with fewer pawns leads, if it has any.                         *)
EntryPawns(m) ==
  LET w == Pcs(m)[1]  b == Pcs(m)[9]
  IN  IF b > 0 /\ (w = 0 \/ w > b) THEN <<b, w>> ELSE <<w, b>>

init_tb(m) ==
  [key |-> m, symmetric |-> m = SwapSides(m), hasPawns |-> HasPawns(m),
   num |-> Len(m[1]) + Len(m[2]) + 2,
   kk |-> ~HasPawns(m) /\ Cardinality({i \in 1..14 : Pcs(m)[i] = 1}) = 2,
   pawns |-> IF HasPawns(m) THEN EntryPawns(m) ELSE <<0, 0>>]

(* Slots of the hash table: one per key of an entry.                       *)
kHashSlots == 4096
kMaxPieceEntries == 650
kMaxPawnEntries == 861
HashKeys(names) == {m : m \in names} \cup {SwapSides(m) : m \in names}

-----------------------------------------------------------------------------
(* probe_table: where the value of a position is.  A position is the set   *)
(* on of its <<piece, square>> pairs and black, whose turn it is; the board*)
(* is seen from the side to move.                                          *)

Other(pc) == IF pc > 8 THEN pc - 8 ELSE pc + 8
Flip(s) == 8 * (7 - TbRow(s)) + TbCol(s)

(* pieces(pos, type, theirs), on the board of the side to move.            *)
PiecesOf(pos, type, theirs) ==
  LET colour == IF theirs = pos.black THEN 0 ELSE 8  \* theirs ^ flipped
  IN  {IF pos.black THEN Flip(x[2]) ELSE x[2] :
         x \in {y \in pos.on : y[1] = type + colour}}

FillSquares(pos, pc, flip, mirror) ==
  LET theirs == ((pc > 8) # flip) # pos.black
      turn == mirror # pos.black
  IN  SetToSortSeq({IF turn THEN Flip(s) ELSE s :
                      s \in PiecesOf(pos, pc % 8, theirs)}, <)

(* All pieces of the table in its order; like pieces are filled together.  *)
AllSquares(pos, pieces, flip, mirror) ==
  FoldLeft(LAMBDA acc, i:
             IF i > 1 /\ pieces[i] = pieces[i - 1] THEN acc
             ELSE acc \o FillSquares(pos, pieces[i], flip, mirror),
           << >>, [i \in DOMAIN pieces |-> i])

PositionKey(pos) ==
  LET side(c) == SortSeq(SetToSeq({<<5 - (x[1] % 8), x[2]>> :
                                     x \in {y \in pos.on : (y[1] > 8) = c
                                                           /\ y[1] % 8 # 6}}),
                         LAMBDA a, b: a[1] < b[1])
      types(c) == [i \in DOMAIN side(c) |-> side(c)[i][1]]
  IN  <<types(FALSE), types(TRUE)>>

Orientation(be, pos) ==
  LET key == PositionKey(pos)
      flip == IF be.symmetric THEN pos.black ELSE key # be.key
  IN  [flip |-> flip,
       bside |-> ~be.symmetric /\ ((~pos.black) = flip)]

(* tables[bside] is the order of the pieces in that half of the file.      *)
Address(be, tables, pos) ==
  LET o == Orientation(be, pos)
      enc == IF be.hasPawns THEN "file" ELSE "piece"
      raw == AllSquares(pos, tables[o.bside], o.flip, be.hasPawns /\ o.flip)
      p == IF be.hasPawns THEN LeadingPawnFirst(raw, be, enc) ELSE raw
      t == IF be.hasPawns THEN LeadingPawnTable(p, enc) ELSE 0
      info == init_enc_info(tables[o.bside], be, 0,
                            IF be.pawns[2] > 0 THEN 1 ELSE 15, t, enc)
  IN  [bside |-> o.bside, table |-> t, size |-> info.size,
       index |-> encode(p, info.groups, be, enc)]

-----------------------------------------------------------------------------
(* Decompression.  A pairs file is [pat, minLen, maxLen, offset, idxBits,  *)
(* blocks, constValue]; it holds one value if idxBits = 0.  Symbol s stands*)
(* for the value pat[s] or for the pair of symbols pat[s]; offset[l] is the*)
(* first symbol whose code has l bits; a block is a sequence of symbols.   *)
(* The 64-bit window is scaled to 8 bits, and its 32-bit refills to 4.     *)

kWindow == 8
kRefill == 4

RECURSIVE calc_symLen(_, _)
calc_symLen(d, s) ==
  IF Len(d.pat[s]) = 1 THEN 0
  ELSE calc_symLen(d, d.pat[s][1]) + calc_symLen(d, d.pat[s][2]) + 1

(* setup_pairs: the smallest code of each length, before it is aligned.    *)
RECURSIVE Base(_, _)
Base(d, l) ==
  IF l = d.maxLen THEN 0
  ELSE (Base(d, l + 1) + d.offset[l] - d.offset[l + 1]) \div 2
AlignedBase(d, l) == Base(d, l) * 2^(kWindow - l)

(* External: the generator of the files, which the code inverts.           *)
CodeLength(d, s) ==
  CHOOSE l \in d.minLen..d.maxLen :
    s >= d.offset[l] /\ (l > d.minLen => s < d.offset[l - 1])
CodeBits(d, s) ==
  LET l == CodeLength(d, s)  c == Base(d, l) + s - d.offset[l]
  IN  [i \in 1..l |-> (c \div 2^(l - i)) % 2]
BlockBits(d, b) ==
  FlattenSeq([i \in DOMAIN d.blocks[b] |-> CodeBits(d, d.blocks[b][i])])
    \o [i \in 1..(2 * kWindow) |-> 0]
SizeTable(d, b) ==
  FoldLeft(LAMBDA acc, s: acc + calc_symLen(d, s) + 1, 0, d.blocks[b]) - 1
BlockStart(d, b) == TbSum(LAMBDA x: SizeTable(d, x) + 1, 1..(b - 1))
IndexEntry(d, main) ==
  LET at == main * 2^d.idxBits + 2^(d.idxBits - 1)
      b == Max({x \in DOMAIN d.blocks : BlockStart(d, x) <= at})
  IN  [block |-> b, offset |-> at - BlockStart(d, b)]

(* The block an index falls into: backwards or forwards from the entry.    *)
RECURSIVE SeekBlock(_, _, _)
SeekBlock(d, block, lit) ==
  IF lit < 0 THEN SeekBlock(d, block - 1, lit + SizeTable(d, block - 1) + 1)
  ELSE IF lit > SizeTable(d, block)
       THEN SeekBlock(d, block + 1, lit - SizeTable(d, block) - 1)
       ELSE <<block, lit>>

Word(bits, at, n) ==   \* n bits as a number, most significant first
  TbSum(LAMBDA i: bits[at + i] * 2^(n - i), 1..n)

(* The window after a symbol of l bits; cnt is the number of empty bits.   *)
Shifted(bits, code, cnt, next, l) ==
  LET code1 == (code * 2^l) % 2^kWindow
  IN  IF cnt + l >= kRefill
      THEN [code |-> code1 + Word(bits, next, kRefill) * 2^(cnt + l - kRefill),
            cnt |-> cnt + l - kRefill, next |-> next + kRefill]
      ELSE [code |-> code1, cnt |-> cnt + l, next |-> next]

RECURSIVE FindSymbol(_, _, _, _, _, _)
FindSymbol(d, bits, code, cnt, next, lit) ==
  LET l == CHOOSE x \in d.minLen..d.maxLen :
             /\ code >= AlignedBase(d, x)
             /\ \A y \in d.minLen..(x - 1) : code < AlignedBase(d, y)
      sym == d.offset[l] + (code - AlignedBase(d, l)) \div 2^(kWindow - l)
      len == calc_symLen(d, sym) + 1
      w == Shifted(bits, code, cnt, next, l)
  IN  IF lit < len THEN <<sym, lit>>
      ELSE FindSymbol(d, bits, w.code, w.cnt, w.next, lit - len)

RECURSIVE InSymbol(_, _, _)
InSymbol(d, sym, lit) ==
  IF calc_symLen(d, sym) = 0 THEN d.pat[sym][1]
  ELSE LET left == calc_symLen(d, d.pat[sym][1]) + 1
       IN  IF lit < left THEN InSymbol(d, d.pat[sym][1], lit)
           ELSE InSymbol(d, d.pat[sym][2], lit - left)

decompress_pairs(d, idx) ==
  LET main == idx \div 2^d.idxBits
      e == IndexEntry(d, main)
      lit == (idx % 2^d.idxBits) - 2^(d.idxBits - 1) + e.offset
      b == SeekBlock(d, e.block, lit)
      bits == BlockBits(d, b[1])
      s == FindSymbol(d, bits, Word(bits, 0, kWindow), 0, kWindow, b[2])
  IN  IF d.idxBits = 0 THEN d.constValue ELSE InSymbol(d, s[1], s[2])

TbInit == tbCase \in TbCases
TbNext == UNCHANGED tbCase

-----------------------------------------------------------------------------
(* Properties.  Each is about the cases of one kind.                       *)

(* The placements of the pieces of an "index" case on distinct squares.    *)
TbPlacements(c) ==
  {p \in FoldLeft(LAMBDA acc, D: UNION {{Append(p, s) : s \in D \ ToSet(p)} :
                                          p \in acc}, {<< >>}, c.squares) :
     c.be.kk => ~Touch(p[1], p[2])}

(* A placement as a reader sees it: like pieces are not told apart.        *)
TbView(p, c) ==
  [i \in DOMAIN p |-> {p[j] : j \in {j \in DOMAIN p : c.pieces[j] = c.pieces[i]}}]
TbOrbit(p, c) ==
  LET files == {p, MirrorFiles(p)}
      ranks == files \cup {MirrorRanks(q) : q \in files}
  IN  {TbView(q, c) : q \in IF c.enc = "piece"
                            THEN ranks \cup {FlipDiagonal(q) : q \in ranks}
                            ELSE files}

TbIndexOf(p0, c) ==
  LET p == IF c.enc = "piece" THEN p0 ELSE LeadingPawnFirst(p0, c.be, c.enc)
      t == IF c.enc = "piece" THEN 0 ELSE LeadingPawnTable(p, c.enc)
      info == init_enc_info(c.pieces, c.be, c.order, c.order2, t, c.enc)
  IN  [table |-> t, index |-> encode(p, info.groups, c.be, c.enc),
       size |-> info.size]

(* Two placements share an index only if a symmetry of the board takes one *)
(* into the other, and every index lies within the size the table has been *)
(* given; where only the leading pieces vary, placements that symmetry     *)
(* takes into each other share their index, and with all squares allowed   *)
(* every index is used (encode, init_enc_info).                            *)
TbIndexFaithful ==
  tbCase.kind = "index" =>
    \E seen \in {{<<TbIndexOf(p, tbCase), TbOrbit(p, tbCase)>> :
                  p \in TbPlacements(tbCase)}} :
    LET idx == {x[1] : x \in seen}
    IN  /\ \A x \in idx : x.index \in 0..(x.size - 1)
        /\ Cardinality(seen) = Cardinality(idx)
        /\ tbCase.tight => Cardinality({x[2] : x \in seen}) = Cardinality(idx)
        /\ tbCase.full => \A x \in idx :
             {y.index : y \in {y \in idx : y.table = x.table}} = 0..(x.size - 1)

(* Every material of three to seven pieces has a table under exactly one   *)
(* of its two names, and the entries and the keys of all of them fit into  *)
(* the arrays of fixed size and leave free slots, so that a probe for a    *)
(* missing table ends (the constructor, init_tb, add_to_hash).             *)
TbNamesComplete ==
  tbCase.kind = "names" =>
    LET all == UNION {Side(w) \X Side(b) : w \in 0..5, b \in 0..5}
        names == TbNames
    IN  /\ \A m \in all :
             (Len(m[1]) + Len(m[2]) \in 1..5) =>
               /\ {m, SwapSides(m)} \cap names # {}
               /\ m # SwapSides(m) => ~({m, SwapSides(m)} \subseteq names)
        /\ Cardinality({m \in names : HasPawns(m)}) <= kMaxPawnEntries
        /\ Cardinality({m \in names : ~HasPawns(m)}) <= kMaxPieceEntries
        /\ Cardinality(HashKeys(names)) < kHashSlots

(* A position and the same position with the colours exchanged are looked  *)
(* up at the same place (probe_table, fill_squares).                       *)
TbColourBlind ==
  tbCase.kind = "address" =>
    LET be == init_tb(tbCase.material)
        swapped == [on |-> {<<Other(x[1]), Flip(x[2])>> : x \in tbCase.pos.on},
                    black |-> ~tbCase.pos.black]
    IN  Address(be, tbCase.tables, tbCase.pos)
          = Address(be, tbCase.tables, swapped)

(* The values a pairs file stands for.                                     *)
RECURSIVE TbExpand(_, _)
TbExpand(d, s) == IF Len(d.pat[s]) = 1 THEN d.pat[s]
                  ELSE TbExpand(d, d.pat[s][1]) \o TbExpand(d, d.pat[s][2])
TbValues(d) ==
  FlattenSeq([b \in DOMAIN d.blocks |->
                FlattenSeq([i \in DOMAIN d.blocks[b] |->
                              TbExpand(d, d.blocks[b][i])])])

(* Every value is found under its index, in whatever block and however far *)
(* from its index entry it lies (setup_pairs, decompress_pairs).           *)
TbDecompressExact ==
  tbCase.kind = "pairs" =>
    \A i \in DOMAIN TbValues(tbCase.d) :
      decompress_pairs(tbCase.d, i - 1) = TbValues(tbCase.d)[i]

(* A position is looked up at one place of one table, and the value found  *)
(* there is the one that was stored.                                       *)
TbTablesExact == TbIndexFaithful /\ TbNamesComplete /\ TbColourBlind /\ TbDecompressExact
=============================================================================
