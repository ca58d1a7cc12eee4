------------------------------ MODULE MCBackends ------------------------------
(* Networks for the backends: every combination of options, devices and heads
   with one thread; two threads that reuse each other's buffers on small
   networks; and the sizes of real networks, whose buffers are only measured. *)
EXTENDS BackendCompute

Heads == [convPolicy : BOOLEAN, wdl : BOOLEAN, movesLeft : BOOLEAN]

Net(blocks, h) ==
  [blocks |-> blocks, convPolicy |-> h.convPolicy, wdl |-> h.wdl, movesLeft |-> h.movesLeft]

PlainHeads == [convPolicy |-> FALSE, wdl |-> FALSE, movesLeft |-> FALSE]
FullHeads == [convPolicy |-> TRUE, wdl |-> TRUE, movesLeft |-> TRUE]

Dev(major, minor) ==
  [major |-> major, minor |-> minor, gtx16 |-> FALSE, cuda11 |-> FALSE, lowMem |-> FALSE]

\* The metacommands of DirectX.
Gemms == {"input", "block", "policy"}
Convs == {"input", "block1", "block2", "policy"}

Base ==
  [library |-> "blas", net |-> Net(<<TRUE>>, FullHeads), known |-> TRUE, mlh |-> TRUE,
   filters |-> 256, polC |-> 80, valC |-> 32, movC |-> 8, ip1Val |-> 128, ip1Mov |-> 128,
   batch |-> 256, fp16 |-> FALSE, dev |-> Dev(7, 0),
   nhwc |-> "unset", winograd |-> "unset", fuse |-> "unset",
   gemm |-> Gemms, conv |-> Convs, outputWdl |-> TRUE,
   tune |-> [mwg |-> 32, nwg |-> 16, kwg |-> 16, vwm |-> 2, vwn |-> 2],
   threads |-> 1, batches |-> <<2>>]

Towers == {<<FALSE>>, <<TRUE>>, <<FALSE, FALSE>>, <<TRUE, TRUE>>, <<TRUE, TRUE, TRUE>>}
Mixed == {<<TRUE, FALSE>>, <<FALSE, TRUE>>}
Options == {"on", "off", "unset"}

\* Every choice of kernels.
CudnnCases ==
  {[Base EXCEPT !.library = "cudnn", !.net = Net(b, h), !.fp16 = f, !.nhwc = n,
                !.winograd = w, !.fuse = u] :
     b \in {<<FALSE, FALSE>>, <<TRUE, TRUE>>}, h \in {PlainHeads, FullHeads}, f \in BOOLEAN,
     n \in Options, w \in Options, u \in Options}
  \cup {[Base EXCEPT !.library = "cudnn", !.net = Net(<<TRUE>>, h), !.fp16 = TRUE,
                     !.dev = [d EXCEPT !.gtx16 = g], !.filters = c, !.mlh = m] :
          h \in {PlainHeads, FullHeads}, d \in {Dev(5, 2), Dev(6, 0), Dev(7, 5), Dev(8, 0)}, g \in BOOLEAN,
          c \in {128, 384}, m \in BOOLEAN}

\* Every tower with two kinds of heads, and every kind of heads on one tower.
Shapes ==
  {Net(b, h) : b \in Towers, h \in {PlainHeads, FullHeads}} \cup {Net(<<TRUE>>, h) : h \in Heads}

CudaCases ==
  {[Base EXCEPT !.library = "cuda", !.net = s, !.fp16 = f, !.fuse = u] :
     s \in Shapes \cup {Net(b, FullHeads) : b \in Mixed}, f \in BOOLEAN, u \in {"on", "off"}}

DxCases ==
  {[Base EXCEPT !.library = "dx", !.net = s, !.gemm = g, !.conv = c] :
     s \in Shapes, g \in {{}, Gemms}, c \in {{}, Convs}}
  \cup {[Base EXCEPT !.library = "dx", !.gemm = g, !.conv = c] :
          g \in {{"input"}, {"block"}}, c \in {Convs, {"block1", "policy"}, {"block2"}}}
  \cup {[Base EXCEPT !.library = "dx", !.mlh = FALSE]}

OpenClCases ==
  {[Base EXCEPT !.library = "opencl", !.net = s] :
     s \in Shapes \cup {Net(b, FullHeads) : b \in Mixed}}

\* A batch larger than max_batch_size_ is computed in chunks.
BlasCases ==
  {[Base EXCEPT !.net = s, !.batch = 2, !.batches = <<5>>] :
     s \in Shapes \cup {Net(b, FullHeads) : b \in Mixed}}
  \cup {[Base EXCEPT !.library = "opencl", !.batch = 2, !.batches = <<3, 1>>],
        [Base EXCEPT !.library = "opencl", !.known = FALSE]}

\* Two threads and reused buffers.
ThreadCases ==
  {[Base EXCEPT !.library = l, !.threads = 2, !.batches = <<2, 1>>] :
     l \in {"cudnn", "cuda"}}
  \cup {[Base EXCEPT !.library = "dx", !.net = Net(<<TRUE>>, PlainHeads), !.threads = 2,
                     !.batches = <<2, 1>>],
        [Base EXCEPT !.library = "dx", !.net = Net(<<TRUE>>, PlainHeads),
                     !.batches = <<257, 1>>],
        [Base EXCEPT !.library = "opencl", !.net = Net(<<TRUE>>, PlainHeads), !.threads = 2,
                     !.batches = <<1, 1>>]}

\* Batches of one to three chunks on blas, with fewer filters than input planes or more.
FewFilters ==
  {[Base EXCEPT !.threads = 0, !.filters = c, !.batch = 8, !.batches = <<n>>,
                !.net = Net(b, FullHeads)] :
     c \in {64, 96, 112, 128}, n \in {8, 9, 17},
     b \in Towers \cup {<<TRUE, TRUE, TRUE, TRUE>>}}

\* Sizes of networks that exist.
SizeCases ==
  {[Base EXCEPT !.library = l, !.threads = 0, !.filters = c, !.batch = n,
                !.net = Net(<<TRUE>>, [FullHeads EXCEPT !.convPolicy = v]),
                !.fp16 = f, !.fuse = u] :
     l \in {"cudnn", "cuda"}, c \in {64, 128, 256, 384, 512}, n \in {1, 1024}, v \in BOOLEAN, f \in BOOLEAN, u \in {"on", "off"}}
  \cup {[Base EXCEPT !.library = l, !.threads = 0, !.filters = c, !.batch = n,
                     !.net = Net(<<TRUE>>, [FullHeads EXCEPT !.convPolicy = v]),
                     !.tune = [@ EXCEPT !.mwg = m, !.kwg = q]] :
          l \in {"dx", "opencl", "blas"}, c \in {64, 80, 96, 128, 192, 320}, n \in {8, 256},
          v \in BOOLEAN, m \in {16, 32, 64}, q \in {16, 32}}
  \cup FewFilters
  \cup {[Base EXCEPT !.library = "dx", !.threads = 0, !.filters = 64, !.gemm = g, !.conv = c] :
          g \in {{}, {"block"}}, c \in {Convs, {"input"}}}

\* A policy head is 32 planes of its own, or 80 that are mapped to moves; a file says
\* the same of its output and of its value head, or it does not.
Consistent(k) ==
  [k EXCEPT !.polC = IF k.net.convPolicy THEN 80 ELSE 32, !.outputWdl = k.net.wdl]

Inconsistent == {[Consistent([Base EXCEPT !.library = l]) EXCEPT !.outputWdl = FALSE] : l \in BkLibraries}

MCCases ==
  {Consistent(k) : k \in CudnnCases \cup CudaCases \cup DxCases \cup OpenClCases \cup BlasCases
                         \cup ThreadCases \cup SizeCases}
  \cup Inconsistent

MCFewFilters == {Consistent(k) : k \in FewFilters}
================================================================================
