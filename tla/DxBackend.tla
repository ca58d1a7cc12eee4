------------------------------- MODULE DxBackend -------------------------------
(***************************************************************************)
(* The DirectX 12 backend (neural/dx): the layers DxNetwork builds from    *)
(* the metacommands the driver offers, the command list Eval records on    *)
(* the four tensors t0..t3, with its UAV barriers, and the unpadding and   *)
(* softmax done on the CPU afterwards.                                     *)
(*                                                                         *)
(* A case k has, besides the fields shared with the other backends, fp16,  *)
(* gemm and conv: the metacommands that are enabled and available.         *)
(* Commands of a list that no barrier separates may overlap on the GPU.    *)
(***************************************************************************)
EXTENDS NeuralGraph, FiniteSetsExt

kMaxSupportedBatchSize == 256
kNumOutputPolicyPadded8 == 1864
kNumOutputValuePadded8 == 8
kNumOutputMovesLeftPadded8 == 8

\* The metacommands the layer with weights w is given.
DxGemmOf(w) == IF w[1] \in {"conv1", "conv2", "policy1"} THEN "block" ELSE w[1]
DxConvOf(w) == CASE w[1] \in {"conv1", "policy1"} -> "block1" [] w[1] = "conv2" -> "block2"
                 [] OTHER -> w[1]

\* Conv metacommands are created only where the GEMM metacommand is not available.
DxConvMetacommand(k, l) == DxConvOf(l.w) \in k.conv /\ DxGemmOf(l.w) \notin k.gemm

DxUseWinograd(k, l) == l.filter = 3 /\ (DxGemmOf(l.w) \in k.gemm \/ ~DxConvMetacommand(k, l))

DxConv(w, c, cin, filter, relu) ==
  [kind |-> "conv", w |-> w, c |-> c, cin |-> cin, filter |-> filter, relu |-> relu,
   skip |-> FALSE, se |-> FALSE, act |-> "none"]

DxFc(w, c, act) == [DxConv(w, c, 0, 0, FALSE) EXCEPT !.kind = "fc", !.act = act]

DxBlock(k, i) ==
  LET F == k.filters IN
  <<DxConv(<<"conv1", i>>, F, F, 3, TRUE),
    [DxConv(<<"conv2", i>>, F, F, 3, TRUE) EXCEPT !.skip = TRUE, !.se = k.net.blocks[1]]>>

DxPolicyHead(k) ==
  IF k.net.convPolicy
  THEN <<DxConv(<<"policy1", 0>>, k.filters, k.filters, 3, TRUE),
         DxConv(<<"policy", 0>>, k.polC, k.filters, 3, FALSE),
         [DxFc(<<"map", 0>>, kNumOutputPolicy, "none") EXCEPT !.kind = "map"]>>
  ELSE <<DxConv(<<"policy", 0>>, k.polC, k.filters, 1, TRUE),
         DxFc(<<"ip_pol", 0>>, kNumOutputPolicyPadded8, "none")>>

DxValueHead(k) ==
  <<DxConv(<<"value", 0>>, k.valC, k.filters, 1, TRUE),
    DxFc(<<"ip1_val", 0>>, k.ip1Val, "relu"),
    DxFc(<<"ip2_val", 0>>, kNumOutputValuePadded8, IF k.net.wdl THEN "none" ELSE "tanh")>>

DxMovesHead(k) ==
  IF NgHasMoves(k)
  THEN <<DxConv(<<"moves", 0>>, k.movC, k.filters, 1, TRUE),
         DxFc(<<"ip1_mov", 0>>, k.ip1Mov, "relu"),
         DxFc(<<"ip2_mov", 0>>, kNumOutputMovesLeftPadded8, "relu")>>
  ELSE <<>>

DxLayers(k) ==
  <<DxConv(<<"input", 0>>, k.filters, kInputPlanes, 3, TRUE)>>
  \o FlattenSeq([i \in 1..Len(k.net.blocks) |-> DxBlock(k, i)])
  \o DxPolicyHead(k) \o DxValueHead(k) \o DxMovesHead(k)

(***************************************************************************)
(* ConvLayer::Eval, FCLayer::Eval, PolicyMapLayer::Eval.                   *)
(***************************************************************************)
DxWinogradEval(l, out, in, in2, s1, s2) ==
  <<NgWinogradIn(in, s1, l.cin), NgBarrier,
    NgWinogradGemm(l.w, s1, s2, l.c), NgBarrier,
    [NgWinogradOut(l.w, s2, out, l.c, l.relu) EXCEPT
       !.skip = in2, !.se = IF l.se THEN <<"se", l.w[2]>> ELSE NgNone]>>

DxPlainConv(l, out, in, relu) ==
  [NgOp(in, out, 64 * l.c) EXCEPT
     !.kern = "conv", !.w = l.w, !.form = "plain", !.need = "nchw", !.lay = "nchw",
     !.b = l.w, !.act = IF relu THEN "relu" ELSE "none"]

\* The metacommand of a second convolution has no relu: it follows the addition.
DxMetacommandEval(l, out, in, in2, s1) ==
  IF l.skip \/ l.se
  THEN <<DxPlainConv(l, s1, in, FALSE), NgBarrier,
         [NgOp(s1, out, 64 * l.c) EXCEPT
            !.need = "nchw", !.lay = "nchw", !.skip = in2, !.act = "relu",
            !.se = IF l.se THEN <<"se", l.w[2]>> ELSE NgNone]>>
  ELSE <<DxPlainConv(l, out, in, l.relu)>>

DxConvEval(k, l, out, in, in2, s1, s2) ==
  IF DxUseWinograd(k, l) THEN DxWinogradEval(l, out, in, in2, s1, s2)
  ELSE IF l.filter = 3 THEN DxMetacommandEval(l, out, in, in2, s1)
  ELSE <<DxPlainConv(l, out, in, l.relu)>>

DxFcEval(l, out, in) ==
  <<[NgOp(in, out, l.c) EXCEPT !.kern = "fc", !.w = l.w, !.form = "plain", !.lay = "flat"],
    NgBarrier,
    [NgOp(out, out, l.c) EXCEPT !.b = l.w, !.act = l.act]>>

DxMapEval(l, out, in) ==
  <<[NgOp(in, out, l.c) EXCEPT !.kern = "map", !.w = l.w, !.form = "plain", !.lay = "flat"]>>

DxEvalLayer(k, l, out, in, in2, s1, s2) ==
  CASE l.kind = "conv" -> DxConvEval(k, l, out, in, in2, s1, s2)
    [] l.kind = "fc" -> DxFcEval(l, out, in)
    [] l.kind = "map" -> DxMapEval(l, out, in)

(***************************************************************************)
(* Eval: tensors of every layer, in order, and whether a barrier follows.  *)
(***************************************************************************)
DxRun(out, in, in2, barrier) == [out |-> out, in |-> in, in2 |-> in2, barrier |-> barrier]

DxTowerRuns(k) ==
  <<DxRun("t2", "t0", "", TRUE)>>
  \o FlattenSeq([i \in 1..Len(k.net.blocks) |->
       <<DxRun("t0", "t2", "", TRUE), DxRun("t2", "t0", "t2", TRUE)>>])

DxPolicyRuns(k) ==
  IF k.net.convPolicy
  THEN <<DxRun("t0", "t2", "", TRUE), DxRun("t1", "t0", "", TRUE), DxRun("polG", "t1", "", FALSE)>>
  ELSE <<DxRun("t0", "t2", "", TRUE), DxRun("polG", "t0", "", FALSE)>>

DxHeadRuns(op) ==
  <<DxRun("t0", "t2", "", TRUE), DxRun("t1", "t0", "", TRUE), DxRun(op, "t1", "", FALSE)>>

DxRuns(k) ==
  DxTowerRuns(k) \o DxPolicyRuns(k) \o DxHeadRuns("valG")
  \o (IF NgHasMoves(k) THEN DxHeadRuns("movG") ELSE <<>>)

DxExpandPlanes ==
  <<[NgOp("in", "t0", 64 * kInputPlanes) EXCEPT !.need = "packed", !.lay = "nchw"], NgBarrier>>

DxMain(k) ==
  DxExpandPlanes \o FlattenSeq([n \in 1..Len(DxRuns(k)) |->
    LET r == DxRuns(k)[n] IN
    DxEvalLayer(k, DxLayers(k)[n], r.out, r.in, r.in2, "t1", "t3")
    \o (IF r.barrier THEN <<NgBarrier>> ELSE <<>>)])

\* Un-padding of the heads and the value softmax, on the CPU.
DxPost(k) ==
  <<NgOp("polG", "pol", kNumOutputPolicy), NgOp("valG", "val", 3)>>
  \o (IF NgHasMoves(k) THEN <<NgOp("movG", "mov", 1)>> ELSE <<>>)
  \o (IF k.net.wdl THEN <<[NgOp("val", "val", 3) EXCEPT !.act = "softmax"]>> ELSE <<>>)

DxProgram(k) == [main |-> DxMain(k), post |-> DxPost(k)]

(***************************************************************************)
(* Allocation, in elements: rows are rounded up to whole metacommands, and *)
(* the tensors are sized by the residual tower times ceil(36/16).          *)
(***************************************************************************)
DxRows(n) == ((n + 7) \div 8) * 8

DxTensor(k) == k.batch * k.filters * 64 * 3

DxCapacity(k, buf) ==
  CASE buf \in {"t0", "t1", "t2", "t3"} -> DxTensor(k)
    [] buf = "polG" -> k.batch * kNumOutputPolicyPadded8
    [] buf = "valG" -> k.batch * kNumOutputValuePadded8
    [] buf = "movG" -> k.batch * kNumOutputMovesLeftPadded8

\* The input convolution transforms more channels than the tower has filters: its
\* 36/16 times 112 channels fit into 3 times the filters, unless there are few.
DxWideEnough(k) == DxUseWinograd(k, DxLayers(k)[1]) => 3 * 64 * k.filters >= 144 * kInputPlanes

DxFits(k) ==
  \A i \in Range(DxMain(k)) :
    i.kern # "barrier" =>
      DxRows(Min({k.batch, kMaxSupportedBatchSize})) * i.out <= DxCapacity(k, i.dst)

\* Commands between two barriers: one that writes what another touches races with it.
DxRace(prog) ==
  \E m, n \in 1..Len(prog) :
    /\ m < n
    /\ \A j \in m..n : prog[j].kern # "barrier"
    /\ \/ NgWrites(prog[m]) \cap (NgWrites(prog[n]) \cup NgReads(prog[n])) # {}
       \/ NgReads(prog[m]) \cap NgWrites(prog[n]) # {}
================================================================================
