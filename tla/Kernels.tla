-------------------------------- MODULE Kernels --------------------------------
(***************************************************************************)
(* The arithmetic of the backends' own kernels.                            *)
(*                                                                         *)
(* 3x3 convolutions are computed by two Winograd algorithms, F(4x4,3x3) on *)
(* four tiles of the board (dx, cuda) and F(2x2,3x3) on sixteen (blas,     *)
(* opencl).  Fractions are avoided by scaling the filter matrices; both    *)
(* the algorithm and the plain convolution are linear in the board and in  *)
(* the filter, so that they agree on all if they agree on unit boards and  *)
(* unit filters.                                                           *)
(*                                                                         *)
(* Element-wise kernels read and write flat memory in the NCHW or the NHWC *)
(* order; a tensor is a function on 0..size-1, thread tid computes element *)
(* tid.                                                                    *)
(*                                                                         *)
(* The fused squeeze-and-excitation kernel runs as warps that read and     *)
(* write one array of shared memory.                                       *)
(***************************************************************************)
EXTENDS Integers, Sequences, FiniteSets, SequencesExt, FiniteSetsExt

CONSTANTS KnCases,     \* the cases to compute, see KnStart
          KnWarp       \* threads of a warp

ASSUME KnWarpAssumption == KnWarp \in Nat \ {0}

VARIABLES knCase, knShared, knWarps

knVars == <<knCase, knShared, knWarps>>

(***************************************************************************)
(* Matrices are sequences of rows.                                         *)
(***************************************************************************)
SumTo(n, F(_)) == LET sum[k \in 0..n] == IF k = 0 THEN 0 ELSE sum[k - 1] + F(k) IN sum[n]

MatrixMul(a, b) ==
  [i \in 1..Len(a) |-> [j \in 1..Len(b[1]) |->
     LET Product(k) == a[i][k] * b[k][j] IN SumTo(Len(b), Product)]]

MatrixMul3(a, b, c) == MatrixMul(MatrixMul(a, b), c)

\* A board is 8 rows of 8; a filter 3 rows of 3.
Unit(n, y, x) == [i \in 1..n |-> [j \in 1..n |-> IF i = y /\ j = x THEN 1 ELSE 0]]

At(board, y, x) == IF y \in 1..8 /\ x \in 1..8 THEN board[y][x] ELSE 0

\* The convolution with zero padding that the network is defined by.
Convolution(board, filter) ==
  [y \in 1..8 |-> [x \in 1..8 |->
     LET Row(i) == LET Term(j) == filter[i][j] * At(board, y + i - 2, x + j - 2)
                   IN SumTo(3, Term)
     IN SumTo(3, Row)]]

(***************************************************************************)
(* F(4x4,3x3).  G and Gt are 24 times the source's.                        *)
(***************************************************************************)
FilterTransform4x4(filter) ==
  MatrixMul3(<< <<6, 0, 0>>, <<-4, -4, -4>>, <<-4, 4, -4>>,
                <<1, 2, 4>>, <<1, -2, 4>>, <<0, 0, 24>> >>,
             filter,
             << <<6, -4, -4, 1, 1, 0>>, <<0, -4, 4, 2, -2, 0>>, <<0, -4, -4, 4, 4, 24>> >>)

inputTransform4x4(tile) ==
  MatrixMul3(<< <<4, 0, -5, 0, 1, 0>>, <<0, -4, -4, 1, 1, 0>>, <<0, 4, -4, -1, 1, 0>>,
                <<0, -2, -1, 2, 1, 0>>, <<0, 2, -1, -2, 1, 0>>, <<0, 4, 0, -5, 0, 1>> >>,
             tile,
             << <<4, 0, 0, 0, 0, 0>>, <<0, -4, 4, -2, 2, 4>>, <<-5, -4, -4, -1, -1, 0>>,
                <<0, 1, -1, 2, -2, -5>>, <<1, 1, 1, 1, 1, 0>>, <<0, 0, 0, 0, 0, 1>> >>)

outputTransform4x4(tile) ==
  MatrixMul3(<< <<1, 1, 1, 1, 1, 0>>, <<0, 1, -1, 2, -2, 0>>,
                <<0, 1, 1, 4, 4, 0>>, <<0, 1, -1, 8, -8, 1>> >>,
             tile,
             << <<1, 0, 0, 0>>, <<1, 1, 1, 1>>, <<1, -1, 1, -1>>,
                <<1, 2, 4, 8>>, <<1, -2, 4, -8>>, <<0, 0, 0, 1>> >>)

\* Tile (ty, tx), ty and tx in 0..1: five rows and columns of the board, from the
\* first or from the fourth, with a border of zeros on the outside.
InputTile4x4(board, ty, tx) ==
  LET Inside(t, i) == IF t = 0 THEN i > 1 ELSE i < 6
      From(t, i) == IF t = 0 THEN i - 1 ELSE i + 3
  IN [i \in 1..6 |-> [j \in 1..6 |->
        IF Inside(ty, i) /\ Inside(tx, j) THEN board[From(ty, i)][From(tx, j)] ELSE 0]]

Hadamard(a, b) == [i \in 1..Len(a) |-> [j \in 1..Len(a) |-> a[i][j] * b[i][j]]]

Winograd4x4Inputs(board) ==
  [ty \in 0..1 |-> [tx \in 0..1 |-> inputTransform4x4(InputTile4x4(board, ty, tx))]]

Winograd4x4Outputs(filter, tiles) ==
  [ty \in 0..1 |-> [tx \in 0..1 |-> outputTransform4x4(Hadamard(filter, tiles[ty][tx]))]]

\* Output tiles of n rows and columns, side by side.
Assemble(out, n) ==
  [y \in 1..8 |-> [x \in 1..8 |->
     out[(y - 1) \div n][(x - 1) \div n][((y - 1) % n) + 1][((x - 1) % n) + 1]]]

Winograd4x4Scale == 24 * 24

(***************************************************************************)
(* F(2x2,3x3).  G is twice the source's.                                   *)
(***************************************************************************)
WinogradFilterTransformF(filter) ==
  MatrixMul3(<< <<2, 0, 0>>, <<1, 1, 1>>, <<1, -1, 1>>, <<0, 0, 2>> >>,
             filter,
             << <<2, 1, 1, 0>>, <<0, 1, -1, 0>>, <<0, 1, 1, 2>> >>)

\* Tiles overlap by 2.
InputTile2x2(board, ty, tx) ==
  [i \in 1..4 |-> [j \in 1..4 |-> At(board, 2 * ty + i - 1, 2 * tx + j - 1)]]

TransformIn(tile) ==
  MatrixMul3(<< <<1, 0, -1, 0>>, <<0, 1, 1, 0>>, <<0, -1, 1, 0>>, <<0, 1, 0, -1>> >>,
             tile,
             << <<1, 0, 0, 0>>, <<0, 1, -1, 1>>, <<-1, 1, 1, 0>>, <<0, 0, 0, -1>> >>)

TransformOut(m) ==
  MatrixMul3(<< <<1, 1, 1, 0>>, <<0, 1, -1, -1>> >>,
             m,
             << <<1, 0>>, <<1, 1>>, <<1, -1>>, <<0, -1>> >>)

Winograd2x2Inputs(board) ==
  [ty \in 0..3 |-> [tx \in 0..3 |-> TransformIn(InputTile2x2(board, ty, tx))]]

Winograd2x2Outputs(filter, tiles) ==
  [ty \in 0..3 |-> [tx \in 0..3 |-> TransformOut(Hadamard(filter, tiles[ty][tx]))]]

Winograd2x2Scale == 2 * 2

(***************************************************************************)
(* The cuda kernels of a residual block: batches of N samples, C channels  *)
(* in and out.  Transformed tensors are 36 matrices, one for every element *)
(* of a tile, of 4N rows (the tiles) and C columns.                        *)
(***************************************************************************)
HwncIndex(N, C, h, w, tile, c) == ((h * 6 + w) * 4 * N + tile) * C + c
HwckIndex(C, K, i, j, c, k) == ((i * 6 + j) * C + c) * K + k

\* weights[k][c] is a filter; the result is in the HWCK order.
filterTransform_kernel(weights, K, C) ==
  LET f == [k \in 0..(K - 1) |-> [c \in 0..(C - 1) |-> FilterTransform4x4(weights[k][c])]]
  IN [x \in 0..(36 * C * K - 1) |->
        f[x % K][(x \div K) % C][(x \div (6 * C * K)) + 1][((x \div (C * K)) % 6) + 1]]

\* Boards are kept by sample and channel; four tiles of each are transformed.
InputTransform_kernel(boards, N, C) ==
  LET tiles == [n \in 0..(N - 1) |-> [c \in 0..(C - 1) |-> Winograd4x4Inputs(boards[n][c])]]
  IN [x \in 0..(36 * 4 * N * C - 1) |->
        LET c == x % C
            tile == (x \div C) % (4 * N)
            t == tile % 4
        IN tiles[tile \div 4][c][t \div 2][t % 2][(x \div (6 * 4 * N * C)) + 1]
                [((x \div (4 * N * C)) % 6) + 1]]

\* cublasRowMajorMatrixMul of 36 pairs of matrices.
WinogradGemm(a, b, N, C, K) ==
  [x \in 0..(36 * 4 * N * K - 1) |->
     LET k == x % K
         row == (x \div K) % (4 * N)
         h == x \div (6 * 4 * N * K)
         w == (x \div (4 * N * K)) % 6
         Product(c) == a[HwncIndex(N, C, h, w, row, c - 1)] * b[HwckIndex(C, K, h, w, c - 1, k)]
     IN SumTo(C, Product)]

\* op has the template arguments that are on; skip and bias, scale and shift (the
\* second layer of squeeze-and-excitation) are by sample and channel.
OutputTransform_kernel(m, op, N, K) ==
  [n \in 0..(N - 1) |-> [k \in 0..(K - 1) |->
     LET tile == [ty \in 0..1 |-> [tx \in 0..1 |-> [h \in 1..6 |-> [w \in 1..6 |->
                    m[HwncIndex(N, K, h - 1, w - 1, n * 4 + ty * 2 + tx, k)]]]]]
         board == Assemble([ty \in 0..1 |-> [tx \in 0..1 |-> outputTransform4x4(tile[ty][tx])]], 4)
     IN [y \in 1..8 |-> [x \in 1..8 |->
          LET v == (board[y][x] \div Winograd4x4Scale) + op.bias[k]
              scaled == IF op.use_se THEN v * op.scale[n][k] + op.shift[n][k] ELSE v
              added == IF op.use_skip THEN scaled + op.skip[n][k][y][x] ELSE scaled
          IN IF op.relu THEN Max({added, 0}) ELSE added]]]]

(***************************************************************************)
(* Element-wise kernels.  A case has N samples and C channels of 64        *)
(* squares.                                                                *)
(***************************************************************************)
NchwIndex(C, n, c, s) == (n * C + c) * 64 + s
NhwcIndex(C, n, c, s) == (n * 64 + s) * C + c

DivUp(a, b) == (a + b - 1) \div b

KnRelu(v) == Max({v, 0})

addVectors(a, b, asize, bsize, size) ==
  [i \in 0..(size - 1) |-> KnRelu(a[i % asize] + b[i % bsize])]

addBias_NCHW(a, b, C) == [i \in DOMAIN a |-> KnRelu(a[i] + b[(i \div 64) % C])]

\* Samples and channels beyond the input's are filled with zeros.
fp32NCHWtofp16NHWC(in, Nin, Cin, Nout, Cout) ==
  [tid \in 0..(Nout * Cout * 64 - 1) |->
     LET c == tid % Cout
         s == (tid \div Cout) % 64
         n == tid \div (Cout * 64)
     IN IF n >= Nin \/ c >= Cin THEN 0 ELSE in[NchwIndex(Cin, n, c, s)]]

\* A plane has a set of squares (mask) and a value.  Blocks of 256 threads: the
\* first four load the four planes of their block, thread t uses the t \div 64-th.
expandPlanes_NCHW(planes, n) ==
  [index \in 0..(n * 64 - 1) |->
     LET block == index \div 256
         sh == [t \in 0..3 |-> planes[((t + 256 * block) \div 64) + t]]
         p == sh[(index % 256) \div 64]
     IN IF index % 64 \in p.mask THEN p.value ELSE 0]

\* planeCount is kInputPlanes.
expandPlanes_NHWC(planes, n, planeCount) ==
  [index \in 0..(n * 64 - 1) |->
     LET board == index \div (planeCount * 64)
         p == planes[board * planeCount + (index % planeCount)]
     IN IF (index \div planeCount) % 64 \in p.mask THEN p.value ELSE 0]

\* One warp for every plane: two elements a thread, then a sum over the warp.
\* __shfl_down_sync returns a lane's own value when the other is outside the warp.
WarpSum(S) ==
  FoldLeft(LAMBDA v, offset :
             [l \in 0..31 |-> v[l] + (IF l + offset < 32 THEN v[l + offset] ELSE v[l])],
           S, <<1, 2, 4, 8, 16>>)[0]

\* Averages are multiplied by 64.
globalAvgPool_NCHW(in, bias, N, C) ==
  [op \in 0..(N * C - 1) |->
     WarpSum([l \in 0..31 |-> in[op * 64 + l] + in[op * 64 + l + 32]]) + 64 * bias[op % C]]

globalAvgPool_NHWC(in, bias, N, C) ==
  [op \in 0..(N * C - 1) |->
     LET n == op \div C
         c == op % C
         El(i) == in[n * C * 64 + (i - 1) * C + c]
     IN SumTo(64, El) + 64 * bias[c]]

\* scaleBias holds the C scales of a sample and then its C biases.
Scaled(val, skip, scaleBias, bias, n, c, C) ==
  KnRelu((val + bias[c]) * scaleBias[n * 2 * C + c] + skip + scaleBias[n * 2 * C + c + C])

globalScale_NCHW(in, out, scaleBias, bias, C) ==
  [tid \in DOMAIN in |->
     Scaled(in[tid], out[tid], scaleBias, bias, (tid \div 64) \div C, (tid \div 64) % C, C)]

globalScaleChannelFirst_NHWC(in, out, scaleBias, bias, C) ==
  [tid \in DOMAIN in |->
     Scaled(in[tid], out[tid], scaleBias, bias, tid \div (64 * C), (tid \div 64) % C, C)]
globalScale_NHWC(in, out, scaleBias, bias, C) ==
  [tid \in DOMAIN in |->
     Scaled(in[tid], out[tid], scaleBias, bias, tid \div (64 * C), tid % C, C)]

\* The elements the threads of globalScale write: those that do not return early.
globalScaleWritten(inputSize) == {tid \in 0..(DivUp(inputSize, 256) * 256 - 1) : ~(tid > inputSize)}

\* PolicyMapLayer::LoadWeights for NHWC, and the kernel.  -1 maps to no move.
ConvertedIndices(indices, used, Cin) ==
  [i \in 0..(64 * Cin - 1) |->
     IF i % Cin < used THEN indices[(i % Cin) * 64 + (i \div Cin)] ELSE -1]

policyMap(in, indices, N, inputSize, usedSize, outputSize) ==
  LET mapped == {<<n, i>> \in (0..(N - 1)) \X (0..(usedSize - 1)) : indices[i] >= 0}
  IN {<<p[1] * outputSize + indices[p[2]], in[p[1] * inputSize + p[2]]>> : p \in mapped}

(***************************************************************************)
(* SE_Layer_NHWC: C threads, the first K of which compute the first fully  *)
(* connected layer.  All threads of a warp take a step together.           *)
(***************************************************************************)
Average(c) == <<"avg", c>>
Fc1(k, read) == <<"fc1", k, read>>

SeWarps(k) == 0..(DivUp(k.C, KnWarp) - 1)
SeLanes(k, w) == {t \in (w * KnWarp)..(w * KnWarp + KnWarp - 1) : t < k.C}
SeActive(k, w) == {t \in SeLanes(k, w) : t < k.K}

\* The first __syncthreads: every thread has stored its average.
SeStart(k) ==
  /\ knShared' = [c \in 0..(k.C - 1) |-> Average(c)]
  /\ knWarps' = [w \in SeWarps(k) |-> [pc |-> "fc1", read |-> <<>>]]

SeRead(w) ==
  /\ knWarps[w].pc = "fc1" /\ Len(knWarps[w].read) < knCase.C
  /\ SeActive(knCase, w) # {}
  /\ knWarps' = [knWarps EXCEPT ![w].read = Append(@, knShared[Len(@)])]
  /\ UNCHANGED <<knCase, knShared>>

SeWrite(w) ==
  /\ knWarps[w].pc = "fc1" /\ Len(knWarps[w].read) = knCase.C
  /\ knShared' = [c \in DOMAIN knShared |->
       IF c \in SeActive(knCase, w) THEN Fc1(c, knWarps[w].read) ELSE knShared[c]]
  /\ knWarps' = [knWarps EXCEPT ![w].pc = "sync"]
  /\ UNCHANGED knCase

\* A warp without a thread below K goes to the barrier at once.
SeSkip(w) ==
  /\ knWarps[w].pc = "fc1" /\ SeActive(knCase, w) = {}
  /\ knWarps' = [knWarps EXCEPT ![w].pc = "sync"]
  /\ UNCHANGED <<knCase, knShared>>

\* The second __syncthreads: the second layer then reads the K values.
SeSecondLayer ==
  /\ knCase.kind = "se"
  /\ \A w \in DOMAIN knWarps : knWarps[w].pc = "sync"
  /\ knWarps' = [w \in DOMAIN knWarps |->
       [pc |-> "done", read |-> [i \in 1..knCase.K |-> knShared[i - 1]]]]
  /\ UNCHANGED <<knCase, knShared>>

(***************************************************************************)
(* Specification: one case is computed.                                    *)
(***************************************************************************)
KnInit == knCase = [kind |-> "none"] /\ knShared = <<>> /\ knWarps = <<>>

KnStart(k) ==
  /\ knCase.kind = "none"
  /\ knCase' = k
  /\ IF k.kind = "se" THEN SeStart(k) ELSE UNCHANGED <<knShared, knWarps>>

\* The kernels of a Winograd convolution: the filter (when the weights are loaded)
\* and the input are transformed; the products are transformed back.
WinogradTransform ==
  /\ knCase.kind = "winograd" /\ knShared = <<>>
  /\ LET board == Unit(8, knCase.y, knCase.x)
         filter == Unit(3, knCase.i, knCase.j)
     IN knShared' = [f4 |-> FilterTransform4x4(filter), in4 |-> Winograd4x4Inputs(board),
                     f2 |-> WinogradFilterTransformF(filter), in2 |-> Winograd2x2Inputs(board)]
  /\ UNCHANGED <<knCase, knWarps>>

WinogradOutput ==
  /\ knCase.kind = "winograd"
  /\ "f4" \in DOMAIN knShared
  /\ knShared' = [out4 |-> Assemble(Winograd4x4Outputs(knShared.f4, knShared.in4), 4),
                  out2 |-> Assemble(Winograd2x2Outputs(knShared.f2, knShared.in2), 2)]
  /\ UNCHANGED <<knCase, knWarps>>

\* ResidualBlock::Eval: the skip connection is the block's input, and unless the block
\* is the last one it is overwritten with the block's output.
BlockBias == [k \in 0..3 |-> k - 1]
BlockWeights(conv, C) ==
  [k \in 0..(C - 1) |-> [c \in 0..(C - 1) |-> [i \in 1..3 |-> [j \in 1..3 |->
     ((conv + 2 * k + 3 * c + i * j) % 4) - 1]]]]
BlockInput(N, C) ==
  [n \in 0..(N - 1) |-> [c \in 0..(C - 1) |-> [y \in 1..8 |-> [x \in 1..8 |->
     ((n + 2 * c + 3 * y + y * x) % 5) - 1]]]]
BlockSe(N, C, of) == [n \in 0..(N - 1) |-> [c \in 0..(C - 1) |-> ((n + of * c) % 3) - 1]]

BlockFirst == [use_se |-> FALSE, relu |-> TRUE, use_skip |-> FALSE, bias |-> BlockBias]
BlockSecond(k, skip) ==
  [use_se |-> k.se, relu |-> TRUE, use_skip |-> TRUE, bias |-> BlockBias, skip |-> skip,
   scale |-> BlockSe(k.N, k.C, 1), shift |-> BlockSe(k.N, k.C, 2)]

BlockLoad ==
  /\ knCase.kind = "block" /\ knShared = <<>>
  /\ LET N == knCase.N  C == knCase.C IN
     knShared' = [stage |-> "gemm0", skip |-> BlockInput(N, C),
                  w |-> [v \in 0..1 |-> filterTransform_kernel(BlockWeights(v, C), C, C)],
                  t |-> InputTransform_kernel(BlockInput(N, C), N, C)]
  /\ UNCHANGED <<knCase, knWarps>>

BlockGemm ==
  /\ knCase.kind = "block" /\ knShared # <<>>
  /\ LET N == knCase.N  C == knCase.C IN
     \/ /\ knShared.stage = "gemm0"
        /\ knShared' = [knShared EXCEPT !.stage = "out0",
                                        !.t = WinogradGemm(@, knShared.w[0], N, C, C)]
     \/ /\ knShared.stage = "gemm1"
        /\ knShared' = [knShared EXCEPT !.stage = "out1",
                                        !.t = WinogradGemm(@, knShared.w[1], N, C, C)]
  /\ UNCHANGED <<knCase, knWarps>>

\* OutputTransform_SE_relu_InputTransform_kernel: the board of each channel is
\* transformed back, finished and transformed again; with use_skip it is also
\* written to skip.  The last block ends with OutputTransform_kernel.
OutputInputTransform_kernel ==
  /\ knCase.kind = "block" /\ knShared # <<>>
  /\ LET N == knCase.N  C == knCase.C IN
     \/ /\ knShared.stage = "out0"
        /\ knShared' = [knShared EXCEPT !.stage = "gemm1",
             !.t = InputTransform_kernel(OutputTransform_kernel(@, BlockFirst, N, C), N, C)]
     \/ /\ knShared.stage = "out1"
        /\ LET boards == OutputTransform_kernel(knShared.t, BlockSecond(knCase, knShared.skip), N, C)
           IN knShared' = [knShared EXCEPT !.stage = "done",
                !.skip = IF knCase.last THEN @ ELSE boards,
                !.t = IF knCase.last THEN boards ELSE InputTransform_kernel(boards, N, C)]
  /\ UNCHANGED <<knCase, knWarps>>

KnNext ==
  \/ \E k \in KnCases : KnStart(k)
  \/ WinogradTransform \/ WinogradOutput
  \/ BlockLoad \/ BlockGemm \/ OutputInputTransform_kernel
  \/ \E w \in DOMAIN knWarps : SeRead(w) \/ SeWrite(w) \/ SeSkip(w)
  \/ SeSecondLayer

(***************************************************************************)
(* Properties.                                                             *)
(***************************************************************************)
\* On every unit board and unit filter both Winograd algorithms compute the 3x3
\* convolution with a border of zeros (FilterTransform4x4 and the transforms of
\* WinogradCommon.h; WinogradFilterTransformF, TransformIn and TransformOut).
KnWinogradIsConvolution ==
  knCase.kind = "winograd" /\ "out4" \in DOMAIN knShared =>
    LET reference == Convolution(Unit(8, knCase.y, knCase.x), Unit(3, knCase.i, knCase.j))
    IN \A y \in 1..8, x \in 1..8 :
         /\ knShared.out4[y][x] = Winograd4x4Scale * reference[y][x]
         /\ knShared.out2[y][x] = Winograd2x2Scale * reference[y][x]

\* The two fused convolutions of a residual block leave in skip the block's output,
\* for every channel of every sample, and in the output its transformed tiles, the
\* last block's leave it in the output
\* (ResidualBlock::Eval, OutputTransform_SE_relu_InputTransform_kernel).
ConvolutionOf(boards, weights, n, k, C) ==
  LET planes == [c \in 1..C |-> Convolution(boards[n][c - 1], weights[k][c - 1])]
  IN [y \in 1..8 |-> [x \in 1..8 |-> LET At1(c) == planes[c][y][x] IN SumTo(C, At1)]]

KnBlockIsConvolutions ==
  knCase.kind = "block" /\ "stage" \in DOMAIN knShared =>
    LET N == knCase.N  C == knCase.C
        first == [n \in 0..(N - 1) |-> [k \in 0..(C - 1) |->
          LET conv == ConvolutionOf(BlockInput(N, C), BlockWeights(0, C), n, k, C)
          IN [y \in 1..8 |-> [x \in 1..8 |-> KnRelu(conv[y][x] + BlockBias[k])]]]]
        op == BlockSecond(knCase, <<>>)
        Scale(n, k, v) == IF op.use_se THEN v * op.scale[n][k] + op.shift[n][k] ELSE v
    IN /\ knShared.stage = "gemm1" => knShared.t = InputTransform_kernel(first, N, C)
       /\ knShared.stage = "done" /\ ~knCase.last =>
            knShared.t = InputTransform_kernel(knShared.skip, N, C)
       /\ knShared.stage = "done" =>
            \A n \in 0..(N - 1), k \in 0..(C - 1) :
              LET conv == ConvolutionOf(first, BlockWeights(1, C), n, k, C)
                  out == IF knCase.last THEN knShared.t ELSE knShared.skip
              IN \A y \in 1..8, x \in 1..8 :
                   out[n][k][y][x] =
                     KnRelu(Scale(n, k, conv[y][x] + BlockBias[k]) + BlockInput(N, C)[n][k][y][x])

\* A tensor with a different value for every element, in both orders.
Sample(n, c, s) == (n * 100 + c) * 100 + s
InNchw(N, C) == [i \in 0..(N * C * 64 - 1) |-> Sample(i \div (64 * C), (i \div 64) % C, i % 64)]
InNhwc(N, C) == [i \in 0..(N * C * 64 - 1) |-> Sample(i \div (64 * C), i % C, (i \div C) % 64)]
Biases(C) == [c \in 0..(C - 1) |-> 7 * c - 3]
ScaleBias(N, C) == [i \in 0..(2 * N * C - 1) |-> 1 + ((i * i) % 5) - (i % 3)]
Planes(N, C) == [p \in 0..(N * C - 1) |->
                   [mask |-> {s \in 0..63 : (s + p) % 3 = 0 \/ s = 63 - p}, value |-> p + 1]]

\* Every NHWC kernel of the half-precision path computes what the NCHW kernel of the
\* single-precision path does, element by element: planes, biases, pooling, scaling,
\* the conversion with padding, and the map of the policy with its padded planes.
KnLayoutsAgree ==
  knCase.kind = "layout" =>
    LET N == knCase.N  C == knCase.C  pad == knCase.pad
        SameTensor(a, b) == \A n \in 0..(N - 1), c \in 0..(C - 1), s \in 0..63 :
                              a[NchwIndex(C, n, c, s)] = b[NhwcIndex(C, n, c, s)]
        biased == addBias_NCHW(InNchw(N, C), Biases(C), C)
        padded == fp32NCHWtofp16NHWC(InNchw(N, C), N, C, N, C + pad)
        indices == [i \in 0..(64 * C - 1) |-> IF i % 3 = 0 THEN i \div 3 ELSE -1]
    IN /\ SameTensor(expandPlanes_NCHW(Planes(N, C), N * C),
                     expandPlanes_NHWC(Planes(N, C), N * C, C))
       /\ SameTensor(biased, addVectors(InNhwc(N, C), Biases(C), N * C * 64, C, N * C * 64))
       /\ globalAvgPool_NCHW(InNchw(N, C), Biases(C), N, C)
            = globalAvgPool_NHWC(InNhwc(N, C), Biases(C), N, C)
       /\ SameTensor(globalScale_NCHW(InNchw(N, C), biased, ScaleBias(N, C), Biases(C), C),
                     globalScale_NHWC(InNhwc(N, C),
                       addVectors(InNhwc(N, C), Biases(C), N * C * 64, C, N * C * 64),
                       ScaleBias(N, C), Biases(C), C))
       /\ globalScaleWritten(N * C * 64) = 0..(N * C * 64 - 1)
       /\ policyMap(InNchw(N, C), indices, N, C * 64, C * 64, 64 * C)
            = policyMap(padded, ConvertedIndices(indices, C, C + pad), N,
                        (C + pad) * 64, (C + pad) * 64, 64 * C)

\* When the second layer runs, each of the K values it reads was computed from the
\* C averages and from nothing else: all that SE_Layer_NHWC asks of its sizes is K <= C.
SeLayerExact ==
  knCase.kind = "se" =>
    \A w \in DOMAIN knWarps : knWarps[w].pc = "done" =>
      knWarps[w].read =
        [i \in 1..knCase.K |-> Fc1(i - 1, [c \in 1..knCase.C |-> Average(c - 1)])]

\* The kernels compute what the network asks of them: convolutions, the same tensors
\* in either order, and squeeze-and-excitation with a first layer of no more outputs
\* than a warp has threads.
KnExact ==
  /\ KnWinogradIsConvolution /\ KnBlockIsConvolutions /\ KnLayoutsAgree
  /\ knCase.kind = "se" /\ knCase.K <= KnWarp => SeLayerExact
================================================================================
