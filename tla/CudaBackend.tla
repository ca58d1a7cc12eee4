------------------------------ MODULE CudaBackend ------------------------------
(***************************************************************************)
(* The cudnn and cuda backends (neural/cuda): which kernels the            *)
(* constructors choose for a device and its options, the layers they       *)
(* build, the buffers they allocate, and the commands forwardEval issues   *)
(* on the three tensors t0, t1, t2 and the two halves sA, sB of the        *)
(* scratch memory.                                                         *)
(*                                                                         *)
(* A case k has the fields net (blocks, convPolicy, wdl, movesLeft),       *)
(* filters, polC, valC, movC, ip1Val, ip1Mov (channel counts), batch       *)
(* (max_batch), dev (major, minor, gtx16, cuda11, lowMem), fp16, the       *)
(* backend options nhwc, winograd and fuse ("on", "off" or "unset") and    *)
(* mlh, and library ("cudnn" or "cuda").                                   *)
(***************************************************************************)
EXTENDS NeuralGraph, FiniteSetsExt

CuChosen(option, default) == IF option = "unset" THEN default ELSE option = "on"

(***************************************************************************)
(* Choices of the constructors.                                            *)
(***************************************************************************)
CuSupportsFp16(dev) ==
  \/ dev.major = 6 /\ dev.minor # 1
  \/ dev.major = 5 /\ dev.minor = 3
  \/ dev.major >= 7

CuTensorCores(k) == k.fp16 /\ k.dev.major >= 7 /\ ~k.dev.gtx16

CudnnCustomWinograd(k) ==
  LET faster == \/ ~CuTensorCores(k)
                \/ /\ k.filters >= 256
                   /\ ~(k.dev.major = 7 /\ k.dev.minor = 5 /\ ~k.dev.cuda11)
  IN CuChosen(k.winograd, faster /\ ~k.dev.lowMem)

\* Winograd needs the nchw layout and overrides the layout option.
CudnnNhwc(k) ==
  k.fp16 /\ CuChosen(k.nhwc, CuTensorCores(k)) /\ ~CudnnCustomWinograd(k)

CuFuseDefault(k) == k.filters <= 384 /\ k.fp16

CudnnFused(k) == CudnnCustomWinograd(k) /\ CuChosen(k.fuse, CuFuseDefault(k))

CudaFused(k) == CuChosen(k.fuse, CuFuseDefault(k))

CuWinograd(k) == k.library = "cuda" \/ CudnnCustomWinograd(k)
CuNhwc(k) == k.library = "cudnn" /\ CudnnNhwc(k)
CuFused(k) == IF k.library = "cuda" THEN CudaFused(k) ELSE CudnnFused(k)

\* MakeCudnnNetwork and MakeCudaNetwork check the formats of the network and of
\* its heads (k.known: all are among the supported ones), the constructors the GPU.
CuAccepts(k) == k.known /\ (k.fp16 => CuSupportsFp16(k.dev))

(***************************************************************************)
(* Layers.                                                                 *)
(***************************************************************************)
CuLayer(kind, w, c, cin) ==
  [kind |-> kind, w |-> w, c |-> c, cin |-> cin, relu |-> TRUE, bias |-> TRUE,
   se |-> FALSE, skip |-> FALSE, act |-> "none", first |-> FALSE, last |-> FALSE]

\* The residual tower as CudnnNetwork builds it.
CudnnBlock(k, i) ==
  LET F == k.filters
      se == k.net.blocks[i]
      conv1 == <<"conv1", i>>  conv2 == <<"conv2", i>>
  IN IF CudnnCustomWinograd(k)
     THEN IF CudnnFused(k)
          THEN <<[CuLayer("block", <<"block", i>>, F, F) EXCEPT
                    !.se = se, !.first = (i = 1), !.last = (i = Len(k.net.blocks))]>>
          ELSE <<CuLayer("fused", conv1, F, F),
                 [CuLayer("fused", conv2, F, F) EXCEPT !.skip = TRUE, !.se = se]>>
     ELSE <<CuLayer("conv", conv1, F, F),
            [CuLayer("conv", conv2, F, F) EXCEPT !.relu = ~se, !.bias = ~se]>>
          \o (IF se THEN <<CuLayer("se", <<"se", i>>, F, F)>> ELSE <<>>)

\* The residual tower as CudaNetwork builds it.
CudaBlock(k, i) ==
  LET F == k.filters IN
  IF CudaFused(k)
  THEN <<[CuLayer("block", <<"block", i>>, F, F) EXCEPT
            !.se = k.net.blocks[i], !.first = (i = 1), !.last = (i = Len(k.net.blocks))]>>
  ELSE <<CuLayer("fused", <<"conv1", i>>, F, F),
         [CuLayer("fused", <<"conv2", i>>, F, F) EXCEPT
            !.skip = TRUE, !.se = k.net.blocks[i]]>>

\* Heads of CudnnNetwork: cudnn convolutions, a softmax layer for wdl.
CudnnHeads(k) ==
  LET F == k.filters IN
  (IF k.net.convPolicy
   THEN <<CuLayer("conv", <<"policy1", 0>>, F, F),
          [CuLayer("conv", <<"policy", 0>>, k.polC, F) EXCEPT !.relu = FALSE],
          CuLayer("map", <<"map", 0>>, kNumOutputPolicy, k.polC)>>
   ELSE <<CuLayer("conv", <<"policy", 0>>, k.polC, F),
          CuLayer("fc", <<"ip_pol", 0>>, kNumOutputPolicy, 64 * k.polC)>>)
  \o <<CuLayer("conv", <<"value", 0>>, k.valC, F),
       [CuLayer("fc", <<"ip1_val", 0>>, k.ip1Val, 64 * k.valC) EXCEPT !.act = "relu"]>>
  \o (IF k.net.wdl
      THEN <<CuLayer("fc", <<"ip2_val", 0>>, 3, k.ip1Val), CuLayer("softmax", NgNone, 3, 3)>>
      ELSE <<[CuLayer("fc", <<"ip2_val", 0>>, 1, k.ip1Val) EXCEPT !.act = "tanh"]>>)
  \o (IF NgHasMoves(k)
      THEN <<CuLayer("conv", <<"moves", 0>>, k.movC, F),
             [CuLayer("fc", <<"ip1_mov", 0>>, k.ip1Mov, 64 * k.movC) EXCEPT !.act = "relu"],
             [CuLayer("fc", <<"ip2_mov", 0>>, 1, k.ip1Mov) EXCEPT !.act = "relu"]>>
      ELSE <<>>)

\* Heads of CudaNetwork: its own convolutions, the softmax is left to the CPU.
CudaHeads(k) ==
  LET F == k.filters IN
  (IF k.net.convPolicy
   THEN <<CuLayer("fused", <<"policy1", 0>>, F, F),
          [CuLayer("fused", <<"policy", 0>>, k.polC, F) EXCEPT !.relu = FALSE],
          CuLayer("map", <<"map", 0>>, kNumOutputPolicy, k.polC)>>
   ELSE <<CuLayer("conv1", <<"policy", 0>>, k.polC, F),
          CuLayer("fc", <<"ip_pol", 0>>, kNumOutputPolicy, 64 * k.polC)>>)
  \o <<CuLayer("conv1", <<"value", 0>>, k.valC, F),
       [CuLayer("fc", <<"ip1_val", 0>>, k.ip1Val, 64 * k.valC) EXCEPT !.act = "relu"],
       [CuLayer("fc", <<"ip2_val", 0>>, IF k.net.wdl THEN 3 ELSE 1, k.ip1Val) EXCEPT
          !.act = IF k.net.wdl THEN "none" ELSE "tanh"]>>
  \o (IF NgHasMoves(k)
      THEN <<CuLayer("conv1", <<"moves", 0>>, k.movC, F),
             [CuLayer("fc", <<"ip1_mov", 0>>, k.ip1Mov, 64 * k.movC) EXCEPT !.act = "relu"],
             [CuLayer("fc", <<"ip2_mov", 0>>, 1, k.ip1Mov) EXCEPT !.act = "relu"]>>
      ELSE <<>>)

CudnnLayers(k) ==
  <<CuLayer("conv", <<"input", 0>>, k.filters, kInputPlanes)>>
  \o FlattenSeq([i \in 1..Len(k.net.blocks) |-> CudnnBlock(k, i)]) \o CudnnHeads(k)

CudaLayers(k) ==
  <<CuLayer("fused", <<"input", 0>>, k.filters, kInputPlanes)>>
  \o FlattenSeq([i \in 1..Len(k.net.blocks) |-> CudaBlock(k, i)]) \o CudaHeads(k)

CuLayers(k) == IF k.library = "cuda" THEN CudaLayers(k) ELSE CudnnLayers(k)

(***************************************************************************)
(* LoadWeights: the order in which each layer stores the weights it is     *)
(* given, and the bytes of scratch memory that staging them takes.  The    *)
(* winograd layers place their copy weight_size elements, not bytes, into  *)
(* the scratch memory.                                                     *)
(***************************************************************************)
CuLayout(k) == IF CuNhwc(k) THEN "nhwc" ELSE "nchw"

ConvLoadWeights(k) == IF CuNhwc(k) THEN "nhwc" ELSE "plain"
FCLoadWeights(k) == IF CuNhwc(k) THEN "nhwc" ELSE "plain"
PolicyMapLoadWeights(k) == IF CuNhwc(k) THEN "nhwc" ELSE "plain"

CuSize(k) == IF k.fp16 THEN 2 ELSE 4

FusedLoadStaging(k, l) ==
  LET n == l.c * l.cin * 9 IN (4 * n + 4 * l.c + n) * CuSize(k)

BlockLoadStaging(k, l) ==
  LET n == l.c * l.cin * 9 IN (4 * n + n) * CuSize(k)

CuStaging(k, l) ==
  CASE l.kind = "fused" -> FusedLoadStaging(k, l)
    [] l.kind = "block" -> BlockLoadStaging(k, l)
    [] OTHER -> 4 * l.c * l.cin * (IF l.kind = "conv" THEN 9 ELSE 1)

(***************************************************************************)
(* Eval of every layer.                                                    *)
(***************************************************************************)
ConvEval(k, l, out, in, in2) ==
  <<[NgOp(in, out, 64 * l.c) EXCEPT
       !.kern = "conv", !.w = l.w, !.form = ConvLoadWeights(k),
       !.need = CuLayout(k), !.lay = CuLayout(k),
       !.b = IF l.bias THEN l.w ELSE NgNone, !.skip = in2,
       !.act = IF l.relu THEN "relu" ELSE "none"]>>

\* The fused half-precision kernel reads the skip tensor, globalScale the output.
SEEval(k, l, out, in, in2) ==
  <<[NgOp(in, out, 64 * l.c) EXCEPT
       !.need = CuLayout(k), !.lay = CuLayout(k), !.b = <<"conv2", l.w[2]>>,
       !.se = l.w, !.skip = IF CuNhwc(k) THEN in2 ELSE out, !.act = "relu"]>>

FCEval(k, l, out, in) ==
  <<NgFcOp(l.w, in, out, l.c, FCLoadWeights(k), l.act)>>

PolicyMapEval(k, l, out, in) ==
  <<[NgOp(in, out, l.c) EXCEPT !.kern = "map", !.w = l.w,
       !.form = PolicyMapLoadWeights(k), !.lay = "flat"]>>

SoftMaxEval(l, out, in) == <<[NgOp(in, out, l.c) EXCEPT !.act = "softmax"]>>

FusedEval(l, out, in, in2) ==
  <<NgWinogradIn(in, "sA", l.cin), NgWinogradGemm(l.w, "sA", "sB", l.c),
    [NgWinogradOut(l.w, "sB", out, l.c, l.relu) EXCEPT
       !.skip = IF l.skip THEN in2 ELSE "",
       !.se = IF l.se THEN <<"se", l.w[2]>> ELSE NgNone]>>

Conv1Eval(l, out, in) ==
  <<[NgOp(in, out, 64 * l.c) EXCEPT
       !.kern = "conv", !.w = l.w, !.form = "plain", !.need = "nchw", !.lay = "nchw",
       !.b = l.w, !.act = IF l.relu THEN "relu" ELSE "none"]>>

\* OutputInputTransform: the output transform of one convolution and the input
\* transform of the next; with a skip connection the sum replaces the skip tensor.
OutputInputTransform(w, src, dst, c, skip, se) ==
  [NgWinogradOut(w, src, dst, c, TRUE) EXCEPT
     !.lay = "wg", !.out = 144 * c, !.skip = skip, !.keep = skip, !.se = se]

\* After the first block, out holds the transformed input and in the plain one.
BlockEval(l, out, in) ==
  LET i == l.w[2]
      conv1 == <<"conv1", i>>  conv2 == <<"conv2", i>>
      se == IF l.se THEN <<"se", i>> ELSE NgNone
  IN (IF l.first
      THEN <<NgWinogradIn(in, "sA", l.c), NgWinogradGemm(conv1, "sA", "sB", l.c)>>
      ELSE <<NgWinogradGemm(conv1, out, "sB", l.c)>>)
     \o <<OutputInputTransform(conv1, "sB", "sA", l.c, "", NgNone),
          NgWinogradGemm(conv2, "sA", "sB", l.c)>>
     \o (IF l.last
         THEN <<[NgWinogradOut(conv2, "sB", out, l.c, TRUE) EXCEPT !.skip = in, !.se = se]>>
         ELSE <<OutputInputTransform(conv2, "sB", out, l.c, in, se)>>)

CuEval(k, l, out, in, in2) ==
  CASE l.kind = "conv"    -> ConvEval(k, l, out, in, in2)
    [] l.kind = "se"      -> SEEval(k, l, out, in, in2)
    [] l.kind = "fc"      -> FCEval(k, l, out, in)
    [] l.kind = "map"     -> PolicyMapEval(k, l, out, in)
    [] l.kind = "softmax" -> SoftMaxEval(l, out, in)
    [] l.kind = "fused"   -> FusedEval(l, out, in, in2)
    [] l.kind = "conv1"   -> Conv1Eval(l, out, in)
    [] l.kind = "block"   -> BlockEval(l, out, in)

(***************************************************************************)
(* forwardEval: the tensors given to network_[l++], in order.  A copy is   *)
(* copyTypeConverted or the copy of the policy to the host.                *)
(***************************************************************************)
CuRun(out, in) == [out |-> out, in |-> in, in2 |-> "", copy |-> FALSE]
CuSkip(out, in, in2) == [CuRun(out, in) EXCEPT !.in2 = in2]
CuCopy(out, in) == [CuRun(out, in) EXCEPT !.copy = TRUE]

\* Half precision computes into a tensor and converts from there.
CuFinal(k, t, op, in) ==
  IF k.fp16 THEN <<CuRun(t, in), CuCopy(op, t)>> ELSE <<CuRun(op, in)>>

\* has_se_ is taken from the first block.
CudnnTowerRuns(k) ==
  LET block == IF CudnnFused(k) THEN <<CuRun("t2", "t1")>>
               ELSE <<CuRun("t0", "t2")>> \o
                    (IF ~CudnnCustomWinograd(k) /\ k.net.blocks[1]
                     THEN <<CuRun("t1", "t0"), CuSkip("t2", "t1", "t2")>>
                     ELSE <<CuSkip("t2", "t0", "t2")>>)
  IN <<CuRun(IF CudnnFused(k) THEN "t1" ELSE "t2", "t0")>>
     \o FlattenSeq([i \in 1..Len(k.net.blocks) |-> block])

CudaTowerRuns(k) ==
  LET block == IF CudaFused(k) THEN <<CuRun("t2", "t1")>>
               ELSE <<CuRun("t0", "t2"), CuSkip("t2", "t0", "t2")>>
  IN <<CuRun(IF CudaFused(k) THEN "t1" ELSE "t2", "t0")>>
     \o FlattenSeq([i \in 1..Len(k.net.blocks) |-> block])

CuPolicyRuns(k) ==
  (IF k.net.convPolicy
   THEN <<CuRun("t0", "t2"), CuRun("t1", "t0")>> \o CuFinal(k, "t0", "polG", "t1")
   ELSE <<CuRun("t0", "t2")>> \o CuFinal(k, "t1", "polG", "t0"))
  \o <<CuCopy("pol", "polG")>>

CudnnValueRuns(k) ==
  <<CuRun("t0", "t2"), CuRun("t1", "t0")>>
  \o (IF k.net.wdl THEN <<CuRun("t0", "t1")>> \o CuFinal(k, "t1", "val", "t0")
      ELSE CuFinal(k, "t0", "val", "t1"))

CudaValueRuns(k) ==
  <<CuRun("t0", "t2"), CuRun("t1", "t0")>> \o CuFinal(k, "t0", "val", "t1")

CuMovesRuns(k) ==
  IF NgHasMoves(k)
  THEN <<CuRun("t0", "t2"), CuRun("t1", "t0")>> \o CuFinal(k, "t0", "mov", "t1")
  ELSE <<>>

CuRuns(k) ==
  IF k.library = "cuda"
  THEN CudaTowerRuns(k) \o CuPolicyRuns(k) \o CudaValueRuns(k) \o CuMovesRuns(k)
  ELSE CudnnTowerRuns(k) \o CuPolicyRuns(k) \o CudnnValueRuns(k) \o CuMovesRuns(k)

\* network_[l++]: the l-th run that is not a copy uses the l-th layer.
CuPair(k) ==
  LET layers == CuLayers(k)
      Step(acc, r) ==
        IF r.copy THEN [acc EXCEPT !.prog = Append(@, NgOp(r.in, r.out, 0))]
        ELSE [l |-> acc.l + 1,
              prog |-> acc.prog \o (IF acc.l <= Len(layers)
                         THEN CuEval(k, layers[acc.l], r.out, r.in, r.in2) ELSE <<>>)]
  IN FoldLeft(Step, [l |-> 1, prog |-> <<>>], CuRuns(k)).prog

CuExpandPlanes(k) ==
  [NgOp("in", "t0", 64 * kInputPlanes) EXCEPT !.need = "packed", !.lay = CuLayout(k)]

CudnnPost(k) == <<>>

\* Value softmax done cpu side, after the lock is released.
CudaPost(k) ==
  IF k.net.wdl THEN <<[NgOp("val", "val", 3) EXCEPT !.act = "softmax"]>> ELSE <<>>

CuProgram(k) ==
  [main |-> <<CuExpandPlanes(k)>> \o CuPair(k),
   post |-> IF k.library = "cuda" THEN CudaPost(k) ELSE CudnnPost(k)]

(***************************************************************************)
(* Allocation, in bytes.  The workspace cudnn asks for is not known; the   *)
(* scratch memory is at least what the backend adds of its own.            *)
(***************************************************************************)
CuTransformed(k) == k.batch * k.filters * 144 * CuSize(k)

CudnnScratch(k) ==
  Max({128 * 1024 * 1024, 27 * k.filters * k.filters * CuSize(k)}
      \cup (IF CudnnCustomWinograd(k) THEN {2 * CuTransformed(k)} ELSE {}))

CudaScratch(k) ==
  Max({128 * 1024 * 1024, 27 * k.filters * k.filters * CuSize(k), 2 * CuTransformed(k)})

CuScratch(k) == IF k.library = "cuda" THEN CudaScratch(k) ELSE CudnnScratch(k)

CuLayerOut(l) == l.c * (IF l.kind \in {"fc", "map", "softmax"} THEN 1 ELSE 64)

CuTensor(k, fusedSize) ==
  Max({k.batch * kInputPlanes * 64 * CuSize(k)}
      \cup {k.batch * CuLayerOut(l) * CuSize(k) : l \in Range(CuLayers(k))}
      \cup (IF CuFused(k) THEN {fusedSize} ELSE {}))

CudnnTensor(k) == CuTensor(k, CuTransformed(k))
CudaTensorUnfused(k) == CuTensor(k, 0)
CudaTensor(k) == CuTensor(k, CudaScratch(k))

\* InputsOutputs allocates floats whatever the precision of the tensors.
CuCapacity(k, buf) ==
  CASE buf \in {"t0", "t1", "t2"} ->
         IF k.library = "cuda" THEN CudaTensor(k) ELSE CudnnTensor(k)
    [] buf \in {"sA", "sB"} -> CuScratch(k) \div 2
    [] buf \in {"pol", "polG"} -> k.batch * kNumOutputPolicy * 4
    [] buf = "val" -> k.batch * (IF k.net.wdl THEN 3 ELSE 1) * 4
    [] buf = "mov" -> k.batch * 4

CuWritten(k, i, n) == n * i.out * (IF i.dst \in {"pol", "val", "mov"} THEN 4 ELSE CuSize(k))

CuFits(k) ==
  LET p == CuProgram(k) IN
  /\ \A i \in Range(p.main \o p.post) : CuWritten(k, i, k.batch) <= CuCapacity(k, i.dst)
  /\ \A l \in Range(CuLayers(k)) : CuStaging(k, l) <= CuScratch(k)
================================================================================
