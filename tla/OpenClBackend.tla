----------------------------- MODULE OpenClBackend -----------------------------
(***************************************************************************)
(* The OpenCL backend (neural/opencl): the layers OpenCLNetwork pushes,    *)
(* the padding of its winograd weights to the tuned tile sizes, the        *)
(* commands OpenCLBuffers::forward queues on the two tensors a and b (the  *)
(* source's m_inBuffer and m_inBuffer2) and the winograd buffers V and M,  *)
(* and the last layers, computed on the CPU.                               *)
(*                                                                         *)
(* A case k has, besides the fields shared with the other backends, tune   *)
(* (the tile sizes mwg, nwg, kwg, vwm, vwn the tuner chose) and outputWdl: *)
(* what the file says of its output, which this backend reads instead of   *)
(* the format of the value head.                                           *)
(***************************************************************************)
EXTENDS NeuralGraph, FiniteSetsExt

WINOGRAD_P == 16
WINOGRAD_TILE == 16
kOclHardMaxBatchSize == 32

ceilMultiple(a, b) == ((a + b - 1) \div b) * b

OclMaxBatch(k) == Min({k.batch, kOclHardMaxBatchSize})

OclM(k, c) == ceilMultiple(ceilMultiple(c, k.tune.mwg), k.tune.vwm)
OclK(k, c) == ceilMultiple(ceilMultiple(c, k.tune.kwg), k.tune.vwm)
OclN(k, n) == ceilMultiple(ceilMultiple(n * WINOGRAD_P, k.tune.nwg), k.tune.vwn)

(***************************************************************************)
(* push_input_convolution, push_residual, push_se, push_policy ...: one    *)
(* layer each.  padM and padK: the rows and columns its winograd weights   *)
(* were zero-padded to.                                                    *)
(***************************************************************************)
OclLayer(kind, i, channels, outputs, padM, padK) ==
  [kind |-> kind, i |-> i, channels |-> channels, outputs |-> outputs,
   padM |-> padM, padK |-> padK]

OclResidual(k, i) ==
  LET F == k.filters IN
  <<OclLayer("residual", i, F, F, OclM(k, F), OclM(k, F))>>
  \o (IF k.net.blocks[i] THEN <<OclLayer("se", i, F, F, 0, 0)>> ELSE <<>>)

OclLayers(k) ==
  LET F == k.filters IN
  <<OclLayer("input", 0, kInputPlanes, F, OclM(k, F), OclK(k, kInputPlanes))>>
  \o FlattenSeq([i \in 1..Len(k.net.blocks) |-> OclResidual(k, i)])
  \o <<IF k.net.convPolicy
       THEN OclLayer("conv_policy", 0, F, k.polC, OclM(k, F), OclM(k, F))
       ELSE OclLayer("policy", 0, F, k.polC, 0, 0)>>
  \o <<OclLayer("value", 0, F, k.valC, 0, 0)>>
  \o (IF NgHasMoves(k) THEN <<OclLayer("moves", 0, F, k.movC, 0, 0)>> ELSE <<>>)

(***************************************************************************)
(* convolve3.  The batched product steps through the weights by its own    *)
(* m_ceil and k_ceil: they must be what the weights were padded to.        *)
(***************************************************************************)
OclForm(k, channels, outputs, padM, padK) ==
  IF OclM(k, outputs) = padM /\ OclK(k, channels) = padK THEN "wg" ELSE "misaligned"

convolve3(k, w, ch, out, pad, in, dst, residual, skipIn, fuseIn, store, relu) ==
  (IF skipIn THEN <<>> ELSE <<NgWinogradIn(in, "V", OclK(k, ch))>>)
  \o <<[NgWinogradGemm(w, "V", "M", OclM(k, out)) EXCEPT
          !.form = OclForm(k, ch, out, pad[1], pad[2])],
       IF fuseIn
       THEN [NgWinogradOut(w, "M", "V", OclK(k, out), TRUE) EXCEPT
               !.lay = "wg", !.skip = residual, !.keep = IF store THEN dst ELSE ""]
       ELSE [NgWinogradOut(w, "M", dst, out, relu) EXCEPT !.skip = residual]>>

\* The pooled channels and the fully connected layers go through M.
squeeze_excitation(l) ==
  <<NgOp("b", "M", l.channels),
    [NgOp("b", "a", 64 * l.channels) EXCEPT !.need = "nchw", !.lay = "nchw",
       !.se = <<"se", l.i>>, !.skip = "a", !.act = "relu"]>>

\* One partial sum for every eight channels in V, merged into the second tensor.
convolve1(l, w) ==
  <<[NgOp("a", "V", (l.channels \div 8) * 64 * l.outputs) EXCEPT
       !.kern = "conv", !.w = w, !.form = "plain", !.need = "nchw", !.lay = "merge"],
    [NgOp("V", "b", 64 * l.outputs) EXCEPT
       !.need = "merge", !.b = w, !.lay = "nchw", !.act = "relu"]>>

\* Only the value head asks innerproduct for its relu.
OclHead(k, l, conv, ip, dst, size) ==
  convolve1(l, <<conv, 0>>)
  \o <<NgFcOp(<<ip, 0>>, "b", dst, size, "plain", IF l.kind = "value" THEN "relu" ELSE "none")>>

OclLayerEval(k, l, skipIn, next) ==
  LET fuse == next = "residual"
      pad == <<l.padM, l.padK>>
      i == l.i
  IN CASE l.kind = "input" ->
            convolve3(k, <<"input", 0>>, l.channels, l.outputs, pad, "a", "a", "",
                      skipIn, fuse, TRUE, TRUE)
       [] l.kind = "residual" ->
            convolve3(k, <<"conv1", i>>, l.channels, l.outputs, pad, "a", "b", "",
                      skipIn, TRUE, FALSE, TRUE)
            \o (IF next = "se"
                THEN convolve3(k, <<"conv2", i>>, l.channels, l.outputs, pad, "b", "b", "",
                               TRUE, fuse, FALSE, FALSE)
                ELSE convolve3(k, <<"conv2", i>>, l.channels, l.outputs, pad, "b", "a", "a",
                               TRUE, fuse, TRUE, TRUE))
       [] l.kind = "se" -> squeeze_excitation(l)
       [] l.kind = "conv_policy" ->
            convolve3(k, <<"policy1", 0>>, l.channels, l.channels, pad, "a", "b", "",
                      skipIn, TRUE, FALSE, TRUE)
            \o convolve3(k, <<"policy", 0>>, l.channels, l.outputs,
                         <<OclM(k, k.polC), OclK(k, k.filters)>>, "b", "b", "",
                         TRUE, FALSE, FALSE, FALSE)
            \o <<[NgOp("b", "polG", kNumOutputPolicy) EXCEPT !.kern = "map",
                    !.w = <<"map", 0>>, !.form = "plain", !.lay = "flat"]>>
       [] l.kind = "policy" -> OclHead(k, l, "policy", "ip_pol", "polG", kNumOutputPolicy)
       [] l.kind = "value" -> OclHead(k, l, "value", "ip1_val", "valG", k.ip1Val)
       [] l.kind = "moves" -> OclHead(k, l, "moves", "ip1_mov", "movG", k.ip1Mov)

\* forward: the write of the encoded planes, then every layer.  skip_in_trans is
\* set by a layer that fused the next one's input transform and left alone by se.
OclForward(k) ==
  LET ls == OclLayers(k)
      Next(n) == IF n < Len(ls) THEN ls[n + 1].kind ELSE "end"
      Fused(n) == ls[n].kind \in {"input", "residual"} /\ Next(n) = "residual"
      Skip(n) == n > 1 /\ Fused(n - 1)
  IN <<[NgOp("in", "a", 64 * kInputPlanes) EXCEPT !.need = "packed", !.lay = "nchw"]>>
     \o FlattenSeq([n \in 1..Len(ls) |-> OclLayerEval(k, ls[n], Skip(n), Next(n))])

\* ComputeBlocking: the second layers of the value and moves heads, on the CPU.
OclPost(k) ==
  <<NgOp("polG", "pol", kNumOutputPolicy),
    NgFcOp(<<"ip2_val", 0>>, "valG", "val", IF k.outputWdl THEN 3 ELSE 1, "plain",
           IF k.outputWdl THEN "softmax" ELSE "tanh")>>
  \o (IF NgHasMoves(k)
      THEN <<[NgOp("movG", "movG", k.ip1Mov) EXCEPT !.act = "relu"],
             NgFcOp(<<"ip2_mov", 0>>, "movG", "mov", 1, "plain", "relu")>>
      ELSE <<>>)

OclProgram(k) == [main |-> OclForward(k), post |-> OclPost(k)]

(***************************************************************************)
(* Buffers, in elements.                                                   *)
(***************************************************************************)
OclMaxChannels(k) == Max({kInputPlanes, k.filters, k.polC, k.valC}
                         \cup (IF NgHasMoves(k) THEN {k.movC} ELSE {}))

OclCapacity(k, buf) ==
  LET B == OclMaxBatch(k) IN
  CASE buf \in {"a", "b"} -> B * 64 * OclMaxChannels(k)
    [] buf \in {"V", "M"} -> B * WINOGRAD_TILE * OclM(k, OclMaxChannels(k)) * OclN(k, 1)
    [] buf = "polG" -> B * kNumOutputPolicy
    [] buf = "valG" -> B * k.ip1Val
    [] buf = "movG" -> B * k.ip1Mov

\* The elements a command writes: winograd buffers hold 16 matrices of whole tiles.
OclWritten(k, i) ==
  LET B == OclMaxBatch(k) IN
  IF i.lay \in {"wg", "wgout"} THEN WINOGRAD_TILE * (i.out \div 144) * OclN(k, B)
  ELSE B * i.out

\* V is allocated by the tiles of a product's rows and filled by those of its columns:
\* with larger column tiles the most channels there are must be a multiple of them.
OclWideEnough(k) == k.tune.kwg <= k.tune.mwg \/ OclMaxChannels(k) % k.tune.kwg = 0

OclFits(k) ==
  \A i \in Range(OclForward(k)) :
    OclWritten(k, i) <= OclCapacity(k, i.dst)
================================================================================
