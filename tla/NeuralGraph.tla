------------------------------ MODULE NeuralGraph ------------------------------
(***************************************************************************)
(* The function that every network backend computes, as a term over the    *)
(* weights, and the one kind of command every backend is made of.          *)
(*                                                                         *)
(* A backend evaluates a network as a list of commands on buffers it       *)
(* reuses: an arithmetic kernel reads a buffer in some layout, combines    *)
(* it with weights that were converted to that layout, possibly adds a     *)
(* bias, a squeeze-and-excitation unit and the contents of a second        *)
(* buffer, and writes a third.  Numbers are abstracted to the terms that   *)
(* produced them; which samples are in a buffer, their order, the layout   *)
(* they are in and the term they are the value of are kept.  A command     *)
(* that finds anything else than what it was written for leaves NgJunk.    *)
(***************************************************************************)
EXTENDS Integers, Sequences, SequencesExt

kInputPlanes == 112
kNumOutputPolicy == 1858

NgNone == <<"none", 0>>

NgTerm(op, w, args) == [op |-> op, w |-> w, args |-> args]

NgPlanes == NgTerm("planes", NgNone, <<>>)

NgJunk == [rows |-> <<>>, lay |-> "junk", term |-> NgTerm("junk", NgNone, <<>>)]

(***************************************************************************)
(* The network the weights describe.  net.blocks[i] says whether residual  *)
(* block i has a squeeze-and-excitation unit.                              *)
(***************************************************************************)
NgRelu(t) == NgTerm("relu", NgNone, <<t>>)

NgConv(w, t) == NgTerm("bias", w, <<NgTerm("conv", w, <<t>>)>>)

NgFc(w, t) == NgTerm("bias", w, <<NgTerm("fc", w, <<t>>)>>)

NgBlock(x, i, se) ==
  LET y == NgConv(<<"conv2", i>>, NgRelu(NgConv(<<"conv1", i>>, x)))
      z == IF se THEN NgTerm("se", <<"se", i>>, <<y>>) ELSE y
  IN NgRelu(NgTerm("add", NgNone, <<z, x>>))

NgTower(net) ==
  FoldLeft(LAMBDA x, i : NgBlock(x, i, net.blocks[i]),
           NgRelu(NgConv(<<"input", 0>>, NgPlanes)),
           [i \in 1..Len(net.blocks) |-> i])

NgPolicy(net) ==
  IF net.convPolicy
  THEN NgTerm("map", <<"map", 0>>,
         <<NgConv(<<"policy", 0>>, NgRelu(NgConv(<<"policy1", 0>>, NgTower(net))))>>)
  ELSE NgFc(<<"ip_pol", 0>>, NgRelu(NgConv(<<"policy", 0>>, NgTower(net))))

NgValue(net) ==
  LET v == NgFc(<<"ip2_val", 0>>,
             NgRelu(NgFc(<<"ip1_val", 0>>, NgRelu(NgConv(<<"value", 0>>, NgTower(net))))))
  IN NgTerm(IF net.wdl THEN "softmax" ELSE "tanh", NgNone, <<v>>)

NgMoves(net) ==
  NgRelu(NgFc(<<"ip2_mov", 0>>,
    NgRelu(NgFc(<<"ip1_mov", 0>>, NgRelu(NgConv(<<"moves", 0>>, NgTower(net)))))))

\* The heads a case asks for: the option mlh=false drops the third.
NgHasMoves(k) == k.net.movesLeft /\ k.mlh
NgHeads(k) == {"pol", "val"} \cup (IF NgHasMoves(k) THEN {"mov"} ELSE {})

NgOutput(net, head) ==
  CASE head = "pol" -> NgPolicy(net)
    [] head = "val" -> NgValue(net)
    [] head = "mov" -> NgMoves(net)

(***************************************************************************)
(* Commands.  kern and w: the product with weights w, held in form; b:     *)
(* whose bias is added; se: the unit applied; skip: the buffer added; act: *)
(* the activation; need and lay: the layouts read and written ("same"      *)
(* keeps the one read); keep: a buffer that also receives the result       *)
(* untransformed; out: the elements written for one sample.                *)
(***************************************************************************)
NgOp(src, dst, out) ==
  [kern |-> "none", w |-> NgNone, form |-> "any", b |-> NgNone, se |-> NgNone,
   skip |-> "", act |-> "none", need |-> "any", lay |-> "same", keep |-> "",
   src |-> src, dst |-> dst, out |-> out]

\* UAV barrier of the DirectX command lists; no other backend needs one.
NgBarrier == [NgOp("", "", 0) EXCEPT !.kern = "barrier"]

NgLayoutFits(need, lay) == need = lay \/ (need = "any" /\ lay # "junk")

\* Weights multiply the elements of a buffer in the order they were stored in.
NgFormFits(form, lay) ==
  \/ form = "any" \/ lay = "flat"
  \/ <<form, lay>> \in {<<"plain", "nchw">>, <<"nhwc", "nhwc">>, <<"wg", "wg">>}

NgReady(i, mem, n) ==
  LET x == mem[i.src] IN
  /\ NgLayoutFits(i.need, x.lay)
  /\ NgFormFits(i.form, x.lay)
  /\ Len(x.rows) >= n
  /\ i.skip # "" =>
       /\ mem[i.skip].lay = (IF i.lay = "wg" THEN "nchw" ELSE i.lay)
       /\ Len(mem[i.skip].rows) >= n
       /\ SubSeq(mem[i.skip].rows, 1, n) = SubSeq(x.rows, 1, n)

NgResult(i, mem) ==
  LET x == mem[i.src].term
      k == IF i.w = NgNone THEN x ELSE NgTerm(i.kern, i.w, <<x>>)
      y == IF i.b = NgNone THEN k ELSE NgTerm("bias", i.b, <<k>>)
      z == IF i.se = NgNone THEN y ELSE NgTerm("se", i.se, <<y>>)
      a == IF i.skip = "" THEN z ELSE NgTerm("add", NgNone, <<z, mem[i.skip].term>>)
  IN IF i.act = "none" THEN a ELSE NgTerm(i.act, NgNone, <<a>>)

NgExec(i, mem, n) ==
  IF i.kern = "barrier" THEN mem
  ELSE LET ok == NgReady(i, mem, n)
           rows == SubSeq(mem[i.src].rows, 1, n)
           lay == IF i.lay = "same" THEN mem[i.src].lay ELSE i.lay
           Val(l) == IF ok THEN [rows |-> rows, lay |-> l, term |-> NgResult(i, mem)] ELSE NgJunk
       IN [b \in DOMAIN mem |->
             CASE b = i.dst -> Val(lay) [] b = i.keep -> Val("nchw") [] OTHER -> mem[b]]

(***************************************************************************)
(* Commands shared by the backends.                                        *)
(***************************************************************************)
NgWinogradIn(src, dst, c) ==
  [NgOp(src, dst, 144 * c) EXCEPT !.need = "nchw", !.lay = "wg"]

NgWinogradGemm(w, src, dst, c) ==
  [NgOp(src, dst, 144 * c) EXCEPT !.kern = "conv", !.w = w, !.form = "wg",
                                  !.need = "wg", !.lay = "wgout"]

NgWinogradOut(w, src, dst, c, relu) ==
  [NgOp(src, dst, 64 * c) EXCEPT !.b = w, !.need = "wgout", !.lay = "nchw",
                                 !.act = IF relu THEN "relu" ELSE "none"]

NgFcOp(w, src, dst, c, form, act) ==
  [NgOp(src, dst, c) EXCEPT !.kern = "fc", !.w = w, !.form = form, !.b = w,
                            !.lay = "flat", !.act = act]

\* A buffer a command writes and the ones it reads.
NgWrites(i) == {i.dst, i.keep} \ {""}
NgReads(i) == {i.src, i.skip} \ {""}
================================================================================
