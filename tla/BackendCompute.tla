---------------------------- MODULE BackendCompute ----------------------------
(***************************************************************************)
(* Computations on a network backend.  Threads create computations, add    *)
(* inputs, compute and read the results, and destroy them; the memory a    *)
(* computation reads and writes comes from a pool and keeps what the last  *)
(* computation left in it.                                                 *)
(*                                                                         *)
(*   cudnn, cuda   the tensors are shared: forwardEval holds lock_         *)
(*   dx            the tensors are shared: command lists are executed one  *)
(*                 after the other by the queue; lock_ covers the          *)
(*                 submission, a fence tells when a list has finished      *)
(*   opencl, blas  a computation owns its buffers and works through its    *)
(*                 batch in chunks of at most max_batch_size_              *)
(*                                                                         *)
(* The system first builds one of the networks of BkCases.                 *)
(***************************************************************************)
EXTENDS CudaBackend, DxBackend, OpenClBackend, BlasBackend, TLC

CONSTANT BkCases

VARIABLES bkCase, bkShared, bkIo, bkFree, bkLock, bkQueue, bkFence, bkDone, bkThread

bkVars == <<bkCase, bkShared, bkIo, bkFree, bkLock, bkQueue, bkFence, bkDone, bkThread>>

BkLibraries == {"cudnn", "cuda", "dx", "opencl", "blas"}

ASSUME BkAssumption == \A k \in BkCases : k.library \in BkLibraries

BkLocked(k) == k.library \in {"cudnn", "cuda"}
BkQueued(k) == k.library = "dx"
BkChunked(k) == k.library \in {"opencl", "blas"}
BkPooled(k) == k.library # "blas"

\* What a case computes for chunk c of a batch: the commands of the device and
\* those the calling thread runs afterwards.
BkProgram(k, c) ==
  CASE BkLocked(k) -> CuProgram(k)
    [] k.library = "dx" -> DxProgram(k)
    [] k.library = "opencl" -> OclProgram(k)
    [] k.library = "blas" -> [main |-> BlasChunk(k, c), post |-> <<>>]

BkMaxChunk == 3

BkPrograms == [k \in BkCases |-> [c \in 1..BkMaxChunk |-> BkProgram(k, c)]]

BkBuffers(k) ==
  UNION {NgReads(i) \cup NgWrites(i) :
           i \in UNION {Range(BkPrograms[k][c].main) \cup Range(BkPrograms[k][c].post) :
                          c \in 1..BkMaxChunk}}

\* The tensors of a network, against the buffers of one computation.
BkSharedBuffers(k) ==
  IF BkChunked(k) THEN {} ELSE BkBuffers(k) \cap {"t0", "t1", "t2", "t3", "sA", "sB"}
BkOwnBuffers(k) == BkBuffers(k) \ BkSharedBuffers(k)

\* InputsOutputs, InputsOutputsDx, OpenCLBuffers: newly allocated memory.
BkNewIo(k) ==
  [mem |-> [b \in BkOwnBuffers(k) |->
              IF b = "in" THEN [rows |-> <<>>, lay |-> "packed", term |-> NgPlanes] ELSE NgJunk],
   needs_reset |-> FALSE, open |-> TRUE]

BkIdle == [pc |-> "idle", comp |-> 0, io |-> 0, n |-> 0, ip |-> 1, chunk |-> 0,
           fence |-> 0, res |-> [h \in {} |-> <<>>]]

BkInit ==
  /\ bkCase = [library |-> "none"]
  /\ bkShared = << >> /\ bkIo = << >> /\ bkFree = << >> /\ bkLock = 0
  /\ bkQueue = << >> /\ bkFence = 0 /\ bkDone = 0
  /\ bkThread = << >>

\* The formats each backend checks for before it builds a network; dx checks none.
BkAccepts(k) ==
  CASE BkLocked(k) -> CuAccepts(k)
    [] k.library = "dx" -> TRUE
    [] BkChunked(k) -> k.known

\* The constructors, called through MakeCudnnNetwork and the like.
BkConstruct(k) ==
  /\ bkCase.library = "none"
  /\ BkAccepts(k)
  /\ bkCase' = k
  /\ bkShared' = [b \in BkSharedBuffers(k) |-> NgJunk]
  /\ bkThread' = [t \in 1..k.threads |-> BkIdle]
  /\ UNCHANGED <<bkIo, bkFree, bkLock, bkQueue, bkFence, bkDone>>

(***************************************************************************)
(* One computation.                                                        *)
(***************************************************************************)
BkSample(t, comp, j) == <<t, comp, j>>
BkBatch(t) == bkCase.batches[bkThread[t].comp]
BkInputs(t) == [j \in 1..bkThread[t].n |-> BkSample(t, bkThread[t].comp, j)]

\* GetInputsOutputs takes the front of the free list, acquire_buffers the back.
BkTaken == IF bkCase.library = "opencl" THEN Len(bkFree) ELSE 1

\* pop_front and pop_back.
BkFreeAfterTaking == RemoveAt(bkFree, BkTaken)

BkNewComputation(t) ==
  /\ bkThread[t].pc = "idle"
  /\ bkThread[t].comp < Len(bkCase.batches)
  /\ LET reuse == bkFree # << >>
         io == IF reuse THEN bkFree[BkTaken] ELSE Len(bkIo) + 1
     IN /\ bkIo' = IF reuse THEN bkIo ELSE Append(bkIo, BkNewIo(bkCase))
        /\ bkFree' = IF reuse THEN BkFreeAfterTaking ELSE bkFree
        /\ bkThread' = [bkThread EXCEPT ![t] =
             [BkIdle EXCEPT !.pc = "adding", !.comp = bkThread[t].comp + 1, !.io = io]]
  /\ UNCHANGED <<bkCase, bkShared, bkLock, bkQueue, bkFence, bkDone>>

BkPut(rows, j, x) == IF j <= Len(rows) THEN ReplaceAt(rows, j, x) ELSE Append(rows, x)

\* opencl and blas keep the planes in a vector of the computation's own.
BkAddInput(t) ==
  LET s == bkThread[t] IN
  /\ s.pc = "adding" /\ s.n < BkBatch(t)
  /\ bkThread' = [bkThread EXCEPT ![t].n = s.n + 1]
  /\ bkIo' = IF BkChunked(bkCase) THEN bkIo
             ELSE [bkIo EXCEPT ![s.io].mem["in"].rows =
                     BkPut(@, s.n + 1, BkSample(t, s.comp, s.n + 1))]
  /\ UNCHANGED <<bkCase, bkShared, bkFree, bkLock, bkQueue, bkFence, bkDone>>

\* The memory after the command i on n samples, for the shared and the own part.
BkStep(i, io, n) ==
  LET after == NgExec(i, bkShared @@ bkIo[io].mem, n) IN
  /\ bkShared' = [b \in DOMAIN bkShared |-> after[b]]
  /\ bkIo' = [bkIo EXCEPT ![io].mem = [b \in DOMAIN @ |-> after[b]]]

(***************************************************************************)
(* cudnn and cuda: forwardEval.                                            *)
(***************************************************************************)
BkEvalUnlocked(t) ==
  /\ bkThread[t].pc = "adding" /\ bkThread[t].n = BkBatch(t)
  /\ BkLocked(bkCase)
  /\ bkThread' = [bkThread EXCEPT ![t].pc = "run", ![t].chunk = 1]
  /\ UNCHANGED <<bkCase, bkShared, bkIo, bkFree, bkLock, bkQueue, bkFence, bkDone>>

BkLockToEval(t) ==
  /\ bkThread[t].pc = "adding" /\ bkThread[t].n = BkBatch(t)
  /\ BkLocked(bkCase)
  /\ bkLock = 0
  /\ bkLock' = t
  /\ bkThread' = [bkThread EXCEPT ![t].pc = "run", ![t].chunk = 1]
  /\ UNCHANGED <<bkCase, bkShared, bkIo, bkFree, bkQueue, bkFence, bkDone>>

BkMainCommands(t) == BkPrograms[bkCase][bkThread[t].chunk].main
BkPostCommands(t) == BkPrograms[bkCase][bkThread[t].chunk].post

\* The samples of the current chunk.
BkLargestBatch(k, n) ==
  CASE k.library = "opencl" -> Min({OclMaxBatch(k), n})
    [] k.library = "blas" -> Min({BlasMaxBatch(k), n})
    [] OTHER -> n
BkChunkFrom(t) == (bkThread[t].chunk - 1) * BkLargestBatch(bkCase, bkThread[t].n)
BkChunkSize(t) ==
  Min({BkLargestBatch(bkCase, bkThread[t].n), bkThread[t].n - BkChunkFrom(t)})

BkRunCommand(t) ==
  LET s == bkThread[t] IN
  /\ s.pc = "run" /\ s.ip <= Len(BkMainCommands(t))
  /\ BkStep(BkMainCommands(t)[s.ip], s.io, BkChunkSize(t))
  /\ bkThread' = [bkThread EXCEPT ![t].ip = s.ip + 1]
  /\ UNCHANGED <<bkCase, bkFree, bkLock, bkQueue, bkFence, bkDone>>

\* cudaDeviceSynchronize, then the lock is released.
BkFinishMain(t) ==
  /\ bkThread[t].pc = "run" /\ bkThread[t].ip > Len(BkMainCommands(t))
  /\ bkLock' = IF BkLocked(bkCase) THEN 0 ELSE bkLock
  /\ bkThread' = [bkThread EXCEPT ![t].pc = "post", ![t].ip = 1]
  /\ UNCHANGED <<bkCase, bkShared, bkIo, bkFree, bkQueue, bkFence, bkDone>>

(***************************************************************************)
(* dx: Eval records a command list, submits it and spins on its fence.     *)
(***************************************************************************)
\* ResetCL reopens a list that was executed before.
BkRecord(t) ==
  LET s == bkThread[t] IN
  /\ s.pc = "adding" /\ s.n = BkBatch(t)
  /\ BkQueued(bkCase)
  /\ IF s.n > kMaxSupportedBatchSize
     THEN /\ bkThread' = [bkThread EXCEPT ![t].pc = "thrown"]
          /\ UNCHANGED bkIo
     ELSE /\ bkThread' = [bkThread EXCEPT ![t].pc = "record", ![t].chunk = 1]
          /\ bkIo' = [bkIo EXCEPT ![s.io].open = @ \/ bkIo[s.io].needs_reset]
  /\ UNCHANGED <<bkCase, bkShared, bkFree, bkLock, bkQueue, bkFence, bkDone>>

\* FlushCL under lock_: the list is closed and queued, then a signal.
BkExecuteList(t) ==
  LET s == bkThread[t] IN
  /\ s.pc = "record" /\ bkLock = 0
  /\ bkLock' = t
  /\ bkIo' = [bkIo EXCEPT ![s.io].open = FALSE]
  /\ bkQueue' = Append(bkQueue, [kind |-> "list", t |-> t, io |-> s.io, n |-> s.n, ip |-> 1])
  /\ bkThread' = [bkThread EXCEPT ![t].pc = "signal"]
  /\ UNCHANGED <<bkCase, bkShared, bkFree, bkFence, bkDone>>

BkSignalKeepingLock(t) ==
  /\ bkThread[t].pc = "signal"
  /\ bkFence' = bkFence + 1
  /\ bkQueue' = Append(bkQueue, [kind |-> "signal", fence |-> bkFence + 1])
  /\ bkThread' = [bkThread EXCEPT ![t].pc = "wait", ![t].fence = bkFence + 1]
  /\ UNCHANGED <<bkCase, bkShared, bkIo, bkFree, bkLock, bkDone>>

BkSignal(t) ==
  /\ bkThread[t].pc = "signal"
  /\ bkFence' = bkFence + 1
  /\ bkQueue' = Append(bkQueue, [kind |-> "signal", fence |-> bkFence + 1])
  /\ bkThread' = [bkThread EXCEPT ![t].pc = "wait", ![t].fence = bkFence + 1]
  /\ bkLock' = 0
  /\ UNCHANGED <<bkCase, bkShared, bkIo, bkFree, bkDone>>

BkWaitForGpuWithoutReset(t) ==
  LET s == bkThread[t] IN
  /\ s.pc = "wait" /\ bkDone >= s.fence
  /\ bkThread' = [bkThread EXCEPT ![t].pc = "post", ![t].ip = 1]
  /\ UNCHANGED <<bkCase, bkShared, bkIo, bkFree, bkLock, bkQueue, bkFence, bkDone>>

\* WaitForGpu, then needs_reset_ = true.
BkWaitForGpu(t) ==
  LET s == bkThread[t] IN
  /\ s.pc = "wait" /\ bkDone >= s.fence
  /\ bkIo' = [bkIo EXCEPT ![s.io].needs_reset = TRUE]
  /\ bkThread' = [bkThread EXCEPT ![t].pc = "post", ![t].ip = 1]
  /\ UNCHANGED <<bkCase, bkShared, bkFree, bkLock, bkQueue, bkFence, bkDone>>

\* The GPU works through its queue.
BkGpu ==
  /\ bkQueue # << >>
  /\ LET q == bkQueue[1]
         prog == BkPrograms[bkCase][1].main
     IN \/ /\ q.kind = "list" /\ q.ip <= Len(prog)
           /\ BkStep(prog[q.ip], q.io, q.n)
           /\ bkQueue' = [bkQueue EXCEPT ![1].ip = q.ip + 1]
           /\ UNCHANGED bkDone
        \/ /\ q.kind = "list" /\ q.ip > Len(prog)
           /\ bkQueue' = Tail(bkQueue)
           /\ UNCHANGED <<bkShared, bkIo, bkDone>>
        \/ /\ q.kind = "signal"
           /\ bkDone' = q.fence
           /\ bkQueue' = Tail(bkQueue)
           /\ UNCHANGED <<bkShared, bkIo>>
  /\ UNCHANGED <<bkCase, bkFree, bkLock, bkFence, bkThread>>

(***************************************************************************)
(* opencl and blas: ComputeBlocking loops over the chunks of the batch.    *)
(***************************************************************************)
BkNextChunk(t) ==
  LET s == bkThread[t]
      from == s.chunk * BkLargestBatch(bkCase, s.n)
      size == Min({BkLargestBatch(bkCase, s.n), s.n - from})
  IN /\ BkChunked(bkCase)
     /\ s.pc = "chunk" \/ (s.pc = "adding" /\ s.n = BkBatch(t))
     /\ from < s.n
     /\ bkIo' = [bkIo EXCEPT ![s.io].mem["in"].rows = SubSeq(BkInputs(t), from + 1, from + size)]
     /\ bkThread' = [bkThread EXCEPT ![t].pc = "run", ![t].ip = 1, ![t].chunk = s.chunk + 1]
     /\ UNCHANGED <<bkCase, bkShared, bkFree, bkLock, bkQueue, bkFence, bkDone>>

BkLastChunk(t) ==
  LET s == bkThread[t] IN
  /\ s.pc = "chunk" /\ s.chunk * BkLargestBatch(bkCase, s.n) >= s.n
  /\ bkThread' = [bkThread EXCEPT ![t].pc = "read"]
  /\ UNCHANGED <<bkCase, bkShared, bkIo, bkFree, bkLock, bkQueue, bkFence, bkDone>>

\* What the computation returns for a head: read from the outputs where they are,
\* or appended chunk by chunk to policies_, q_values_ and m_values_.
BkOutputs(io, h, n) ==
  [j \in 1..Min({n, Len(bkIo[io].mem[h].rows)}) |->
     <<bkIo[io].mem[h].rows[j], bkIo[io].mem[h].term>>]

BkCollected(t) ==
  LET s == bkThread[t] IN
  [h \in NgHeads(bkCase) |->
     (IF h \in DOMAIN s.res THEN s.res[h] ELSE << >>) \o BkOutputs(s.io, h, BkChunkSize(t))]

BkPost(t) ==
  LET s == bkThread[t] IN
  /\ s.pc = "post"
  /\ IF s.ip <= Len(BkPostCommands(t))
     THEN /\ BkStep(BkPostCommands(t)[s.ip], s.io, BkChunkSize(t))
          /\ bkThread' = [bkThread EXCEPT ![t].ip = s.ip + 1]
     ELSE /\ bkThread' = [bkThread EXCEPT
               ![t].pc = IF BkChunked(bkCase) THEN "chunk" ELSE "read",
               ![t].res = IF BkChunked(bkCase) THEN BkCollected(t) ELSE @]
          /\ UNCHANGED <<bkShared, bkIo>>
  /\ UNCHANGED <<bkCase, bkFree, bkLock, bkQueue, bkFence, bkDone>>

\* The destructor returns the buffers to the back of the pool.
BkDestroy(t) ==
  LET s == bkThread[t] IN
  /\ s.pc \in {"read", "thrown"}
  /\ bkFree' = IF BkPooled(bkCase) THEN Append(bkFree, s.io) ELSE bkFree
  /\ bkThread' = [bkThread EXCEPT ![t] = [BkIdle EXCEPT !.comp = s.comp]]
  /\ UNCHANGED <<bkCase, bkShared, bkIo, bkLock, bkQueue, bkFence, bkDone>>

BkBuilt == bkCase.library # "none"

BkThreadStep(t) ==
  \/ BkNewComputation(t) \/ BkAddInput(t)
  \/ BkLockToEval(t) \/ BkRunCommand(t) \/ BkFinishMain(t)
  \/ BkRecord(t) \/ BkExecuteList(t) \/ BkSignal(t) \/ BkWaitForGpu(t)
  \/ BkNextChunk(t) \/ BkLastChunk(t)
  \/ BkPost(t) \/ BkDestroy(t)

BkNext ==
  \/ ~BkBuilt /\ \E k \in BkCases : BkConstruct(k)
  \/ \E t \in DOMAIN bkThread : BkThreadStep(t)
  \/ BkGpu

BkThreadIds == 1..2

BkFairness ==
  /\ \A t \in BkThreadIds : WF_bkVars(t \in DOMAIN bkThread /\ BkThreadStep(t))
  /\ WF_bkVars(BkGpu)

BkSpec == BkInit /\ [][BkNext]_bkVars /\ BkFairness

(***************************************************************************)
(* Properties.                                                             *)
(***************************************************************************)
BkExpected == [k \in BkCases |-> [h \in NgHeads(k) |-> NgOutput(k.net, h)]]

\* What GetQVal, GetPVal and GetMVal return.
BkResults(t) ==
  IF BkChunked(bkCase) THEN bkThread[t].res
  ELSE [h \in NgHeads(bkCase) |-> BkOutputs(bkThread[t].io, h, bkThread[t].n)]

\* From the end of ComputeBlocking until a computation is destroyed, each of its
\* outputs is the network's function of the input added at the same position,
\* whatever the options, the device, the earlier user of the buffers and the
\* other threads (ComputeBlocking of every backend).  For opencl the file must say
\* the same of its output and of its value head (network_opencl.cc:260).
BkResultsRight ==
  \A t \in DOMAIN bkThread :
    bkThread[t].pc = "read" /\ (bkCase.library = "opencl" => bkCase.outputWdl = bkCase.net.wdl) =>
      BkResults(t) = [h \in NgHeads(bkCase) |->
        [j \in 1..bkThread[t].n |-> <<BkInputs(t)[j], BkExpected[bkCase][h]>>]]

\* No two computations hold the same buffers, and none of a computation's buffers
\* is in the pool.  A command list is recorded only when it is open, and reopened only
\* after the GPU has finished what it recorded before (needs_reset_ of network_dx.cc).
BkBuffersInOrder ==
  /\ \A s, t \in DOMAIN bkThread :
       s # t /\ bkThread[s].io # 0 => bkThread[s].io # bkThread[t].io
  /\ \A t \in DOMAIN bkThread : bkThread[t].io \notin Range(bkFree)
  /\ Cardinality(Range(bkFree)) = Len(bkFree)
  /\ \A t \in DOMAIN bkThread :
       bkThread[t].pc = "record" =>
         /\ bkIo[bkThread[t].io].open
         /\ \A i \in DOMAIN bkQueue : bkQueue[i].kind = "list" => bkQueue[i].io # bkThread[t].io

\* Every command writes inside the buffer the constructor allocated, for the largest
\* batch (the allocations of every backend), but for networks with fewer filters than
\* there are input planes, and for these exactly where dx, opencl and blas make a
\* buffer too small (network_dx.cc:636, OpenCLBuffers.cc:73, network_blas.cc:205).
\* No command of a DirectX list runs while another that it depends on may still be
\* running: the UAV barriers between them are complete (DxNetwork::Eval).
BkNoGpuRace == [k \in BkCases |-> k.library = "dx" => ~DxRace(BkPrograms[k][1].main)]
BkFits ==
  [k \in BkCases |->
     CASE BkLocked(k) -> CuFits(k)
       [] k.library = "dx" -> DxFits(k)
       [] k.library = "opencl" -> OclFits(k)
       [] k.library = "blas" -> \A c \in 1..BlasChunks(k) : BlasChunkFits(k, c)]
BkWideEnough(k) ==
  CASE k.library = "dx" -> DxWideEnough(k)
    [] k.library = "opencl" -> OclWideEnough(k)
    [] k.library = "blas" -> BlasWideEnough(k)
    [] OTHER -> TRUE
BkProgramsSafe == BkBuilt => (BkFits[bkCase] <=> BkWideEnough(bkCase)) /\ BkNoGpuRace[bkCase]

\* The buffers blas rotates hold any convolution's input, also the first one's, which
\* may be bigger when the network has very few filters (network_blas.cc:172).
BkRotatedBuffersFit == BkBuilt /\ bkCase.library = "blas" => BkFits[bkCase]

\* Every computation ends, and every thread makes all of its computations.
BkAllFinish ==
  BkBuilt ~> \A t \in DOMAIN bkThread :
               bkThread[t].pc = "idle" /\ bkThread[t].comp = Len(bkCase.batches)
================================================================================
