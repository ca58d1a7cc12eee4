------------------------------ MODULE BlasBackend ------------------------------
(***************************************************************************)
(* The BLAS and Eigen backends (neural/blas): ComputeBlocking works on     *)
(* three buffers r1, r2, r3 that conv_in, conv_out and res point to in     *)
(* turn.  The pointers are set before the loop over the chunks of a batch  *)
(* and never reset in it, so that a chunk starts with the roles the one    *)
(* before it left.                                                         *)
(***************************************************************************)
EXTENDS NeuralGraph, FiniteSetsExt

kBlasHardMaxBatchSize == 2048
kBlasTransformed == 16 * 16   \* kWinogradTile * kTiles

BlasMaxBatch(k) == Min({k.batch, kBlasHardMaxBatchSize})

\* The roles of the three buffers.
BlasRoles(conv_in, conv_out, res) == [conv_in |-> conv_in, conv_out |-> conv_out, res |-> res]

BlasFirstRoles == BlasRoles("r1", "r2", "r3")

\* The swaps of one residual block.
BlasSwap(r, se) ==
  IF se THEN BlasRoles(r.res, r.conv_in, r.conv_out)
  ELSE BlasRoles(r.conv_in, r.res, r.conv_out)

\* Roles before residual block i of a chunk that started with roles r.
BlasRolesAt(k, r, i) ==
  FoldLeft(LAMBDA a, j : BlasSwap(a, k.net.blocks[j]), r, [j \in 1..(i - 1) |-> j])

\* Roles at the start of chunk c.
BlasChunkRoles(k, c) ==
  FoldLeft(LAMBDA a, j : BlasRolesAt(k, a, Len(k.net.blocks) + 1), BlasFirstRoles,
           [j \in 1..(c - 1) |-> j])

(***************************************************************************)
(* WinogradConvolution3::Forward with its own buffers V and M, then        *)
(* BiasResidualRelu on the result.                                         *)
(***************************************************************************)
BlasConvolve3(w, cin, c, in, out, residual, relu) ==
  <<[NgWinogradIn(in, "V", cin) EXCEPT !.out = kBlasTransformed * cin],
    [NgWinogradGemm(w, "V", "M", c) EXCEPT !.out = kBlasTransformed * c],
    [NgWinogradOut(w, "M", out, c, relu) EXCEPT !.skip = residual]>>

\* ApplySEUnit: pooling, two fully connected layers, scale, residual and relu.
ApplySEUnit(i, c, in, res, out) ==
  <<[NgOp(in, out, 64 * c) EXCEPT !.need = "nchw", !.lay = "nchw", !.se = <<"se", i>>,
       !.skip = res, !.act = "relu"]>>

BlasBlock(k, r, i) ==
  LET F == k.filters
      \* first swap: the block reads conv_out; then res takes its input
      x == r.conv_out
      y == r.conv_in
      z == r.res
  IN BlasConvolve3(<<"conv1", i>>, F, F, x, y, "", TRUE)
     \o (IF k.net.blocks[i]
         THEN BlasConvolve3(<<"conv2", i>>, F, F, y, z, "", FALSE) \o ApplySEUnit(i, F, z, x, y)
         ELSE BlasConvolve3(<<"conv2", i>>, F, F, y, z, x, TRUE))

Convolution1(w, c, in) ==
  <<[NgOp(in, "head", 64 * c) EXCEPT !.kern = "conv", !.w = w, !.form = "plain",
       !.need = "nchw", !.lay = "nchw", !.b = w, !.act = "relu"]>>

BlasPolicy(k, conv_out, res) ==
  IF k.net.convPolicy
  THEN BlasConvolve3(<<"policy1", 0>>, k.filters, k.filters, conv_out, res, "", TRUE)
       \o BlasConvolve3(<<"policy", 0>>, k.filters, k.polC, res, "head", "", FALSE)
       \o <<[NgOp("head", "fc", kNumOutputPolicy) EXCEPT !.kern = "map", !.w = <<"map", 0>>,
               !.form = "plain", !.lay = "flat"]>>
  ELSE Convolution1(<<"policy", 0>>, k.polC, conv_out)
       \o <<NgFcOp(<<"ip_pol", 0>>, "head", "fc", kNumOutputPolicy, "plain", "none")>>

BlasValue(k, conv_out) ==
  Convolution1(<<"value", 0>>, k.valC, conv_out)
  \o <<NgFcOp(<<"ip1_val", 0>>, "head", "fc", k.ip1Val, "plain", "relu"),
       NgFcOp(<<"ip2_val", 0>>, "fc", "val", IF k.net.wdl THEN 3 ELSE 1, "plain",
              IF k.net.wdl THEN "softmax" ELSE "tanh")>>

BlasMoves(k, conv_out) ==
  IF NgHasMoves(k)
  THEN Convolution1(<<"moves", 0>>, k.movC, conv_out)
       \o <<NgFcOp(<<"ip1_mov", 0>>, "head", "fc", k.ip1Mov, "plain", "relu"),
            NgFcOp(<<"ip2_mov", 0>>, "fc", "mov", 1, "plain", "relu")>>
  ELSE <<>>

\* The commands of chunk c of a batch.
BlasChunk(k, c) ==
  LET r == BlasChunkRoles(k, c)
      last == BlasRolesAt(k, r, Len(k.net.blocks) + 1)
  IN <<[NgOp("in", r.conv_in, 64 * kInputPlanes) EXCEPT !.need = "packed", !.lay = "nchw"]>>
     \o BlasConvolve3(<<"input", 0>>, kInputPlanes, k.filters, r.conv_in, r.conv_out, "", TRUE)
     \o FlattenSeq([i \in 1..Len(k.net.blocks) |-> BlasBlock(k, BlasRolesAt(k, r, i), i)])
     \o BlasPolicy(k, last.conv_out, last.res) \o <<NgOp("fc", "pol", kNumOutputPolicy)>>
     \o BlasValue(k, last.conv_out) \o BlasMoves(k, last.conv_out)

(***************************************************************************)
(* Buffers, in elements for one sample.                                    *)
(***************************************************************************)
BlasCapacity(k, buf) ==
  LET maxChannels == Max({k.filters, kInputPlanes})
      maxOutput == IF k.net.convPolicy THEN Max({k.polC, k.filters}) ELSE k.filters
  IN CASE buf = "r1" -> 64 * maxChannels
       [] buf \in {"r2", "r3"} -> 64 * k.filters
       [] buf = "V" -> kBlasTransformed * maxChannels
       [] buf = "M" -> kBlasTransformed * maxOutput
       [] buf = "head" -> 64 * Max({k.polC, k.valC, k.movC})
       [] buf = "fc" -> Max({k.ip1Val, kNumOutputPolicy, k.ip1Mov})
       [] OTHER -> kNumOutputPolicy

\* The chunks of the largest batch n of the case, all full but the last.
BlasLargest(k) == Min({BlasMaxBatch(k), Max(Range(k.batches))})
BlasChunks(k) == (Max(Range(k.batches)) + BlasLargest(k) - 1) \div BlasLargest(k)
BlasChunkSize(k, c) == Min({BlasLargest(k), Max(Range(k.batches)) - (c - 1) * BlasLargest(k)})

\* Every squeeze-and-excitation unit passes the three buffers on by one, so that a
\* later chunk encodes its planes into the large buffer only after a multiple of three
\* (in a tower whose blocks all have one or all have none).  The others are made for
\* the filters of the largest chunk.
BlasWideEnough(k) ==
  \A c \in 1..BlasChunks(k) :
    \/ ((c - 1) * Cardinality({i \in DOMAIN k.net.blocks : k.net.blocks[i]})) % 3 = 0
    \/ BlasChunkSize(k, c) * kInputPlanes <= BlasLargest(k) * k.filters

BlasChunkFits(k, c) ==
  \A i \in Range(BlasChunk(k, c)) :
    BlasChunkSize(k, c) * i.out <= BlasLargest(k) * BlasCapacity(k, i.dst)
================================================================================
