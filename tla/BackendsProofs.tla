---------------------------- MODULE BackendsProofs ----------------------------
(***************************************************************************)
(* The buffers of computations on the network backends, proved for every   *)
(* set of networks, every number of threads and computations, and every    *)
(* program the devices run.                                                *)
(*                                                                         *)
(*   BuffersKeptInOrder  no two computations hold the same buffers, none   *)
(*                       that is held is in the pool, the pool holds each  *)
(*                       once, and a command list is recorded only when it *)
(*                       is open and the GPU has left it                   *)
(*   TensorsUnderLock    the shared tensors are written, and lists are     *)
(*                       submitted, by the holder of lock_ only            *)
(*                                                                         *)
(* The inductive invariant BkInv adds what makes the fence of WaitForGpu   *)
(* sufficient: a list that is queued belongs to a thread in FlushCL or     *)
(* WaitForGpu, the signal that thread waits for is behind its list, and    *)
(* the fences in the queue rise and are above the fence that has passed.   *)
(* So when bkDone reaches a thread's fence its list has left the queue,    *)
(* and a closed list is one whose thread is still waiting, or one that     *)
(* needs_reset_ lets ResetCL reopen.                                       *)
(***************************************************************************)
EXTENDS BackendCompute, FiniteSetTheorems, SequenceTheorems, TLAPS

\* Records with the members of a computation, and of its buffers.
IsThread(s) ==
  s \in [pc : {s.pc}, comp : {s.comp}, io : Nat, n : {s.n}, ip : {s.ip}, chunk : {s.chunk},
         fence : Nat, res : {s.res}]
IsIo(b) == b \in [mem : {b.mem}, needs_reset : BOOLEAN, open : BOOLEAN]
IsEntry(q) ==
  \/ q.kind = "list" /\ q \in [kind : {"list"}, t : {q.t}, io : Nat, n : {q.n}, ip : {q.ip}]
  \/ q.kind = "signal" /\ q \in [kind : {"signal"}, fence : Nat]

BkTypeOK ==
  /\ bkThread = [t \in DOMAIN bkThread |-> bkThread[t]]
  /\ \A t \in DOMAIN bkThread : IsThread(bkThread[t])
  /\ Len(bkIo) \in Nat /\ bkIo = [i \in 1..Len(bkIo) |-> bkIo[i]]
  /\ \A i \in 1..Len(bkIo) : IsIo(bkIo[i])
  /\ bkFree \in Seq(Nat)
  /\ Len(bkQueue) \in Nat /\ bkQueue = [i \in 1..Len(bkQueue) |-> bkQueue[i]]
  /\ \A i \in 1..Len(bkQueue) : IsEntry(bkQueue[i])
  /\ bkFence \in Nat /\ bkDone \in Nat

\* Buffers are in one pair of hands, or in the pool once.
BkHeldOnce ==
  /\ \A t \in DOMAIN bkThread :
       /\ bkThread[t].io <= Len(bkIo) /\ (bkThread[t].pc = "idle" <=> bkThread[t].io = 0)
       /\ \A i \in 1..Len(bkFree) : bkFree[i] # bkThread[t].io
  /\ \A s, t \in DOMAIN bkThread : bkThread[s].io = bkThread[t].io /\ bkThread[s].io # 0 => s = t
  /\ \A i \in 1..Len(bkFree) : bkFree[i] \in 1..Len(bkIo)
  /\ \A i, j \in 1..Len(bkFree) : bkFree[i] = bkFree[j] => i = j

\* A thread whose list may still be with the GPU.
BkSubmitted(t) == bkThread[t].pc \in {"signal", "wait"}

\* A list in the queue belongs to a thread that waits for it: the signal the thread waits
\* for comes after the list, and signals come in the order of their fences.
BkListsAwaited ==
  /\ \A i \in 1..Len(bkQueue) : bkQueue[i].kind = "list" =>
       /\ bkQueue[i].t \in DOMAIN bkThread /\ BkSubmitted(bkQueue[i].t)
       /\ bkQueue[i].io = bkThread[bkQueue[i].t].io
       /\ bkThread[bkQueue[i].t].pc = "wait" =>
            \E j \in 1..Len(bkQueue) : i < j /\ bkQueue[j].kind = "signal"
                                         /\ bkQueue[j].fence = bkThread[bkQueue[i].t].fence
  /\ \A i \in 1..Len(bkQueue) : bkQueue[i].kind = "signal" =>
       bkDone < bkQueue[i].fence /\ bkQueue[i].fence <= bkFence
  /\ \A i, j \in 1..Len(bkQueue) : i < j /\ bkQueue[i].kind = "signal" /\ bkQueue[j].kind = "signal" =>
       bkQueue[i].fence < bkQueue[j].fence
  /\ bkDone <= bkFence

\* A closed list that nobody waits for can be reopened, and one that is recorded is open.
BkReopens ==
  /\ \A i \in 1..Len(bkIo) : \/ bkIo[i].open \/ bkIo[i].needs_reset
                             \/ \E t \in DOMAIN bkThread : BkSubmitted(t) /\ bkThread[t].io = i
  /\ \A t \in DOMAIN bkThread : bkThread[t].pc = "record" => bkIo[bkThread[t].io].open

BkInv == BkTypeOK /\ BkHeldOnce /\ BkListsAwaited /\ BkReopens

\* Nothing is built yet.
LEMMA BkInitially == BkInit => BkInv
<1> SUFFICES ASSUME BkInit PROVE BkInv
  OBVIOUS
<1>1. /\ bkIo = << >> /\ bkFree = << >> /\ bkQueue = << >> /\ bkThread = << >> /\ bkFence = 0 /\ bkDone = 0
  BY DEF BkInit
<1>2. DOMAIN bkThread = {}
  BY <1>1
<1> QED BY <1>1, <1>2 DEF BkInv, BkTypeOK, BkHeldOnce, BkListsAwaited, BkReopens

\* The step of one thread: the others stay where they are.
BkMoved(t, pc, io, fence) ==
  /\ DOMAIN bkThread' = DOMAIN bkThread
  /\ bkThread' = [u \in DOMAIN bkThread' |-> bkThread'[u]]
  /\ IsThread(bkThread'[t])
  /\ bkThread'[t].pc = pc /\ bkThread'[t].io = io /\ bkThread'[t].fence = fence
  /\ \A u \in DOMAIN bkThread \ {t} : bkThread'[u] = bkThread[u]

\* A thread that is given a new record moves to what the record says.
LEMMA MovedTo ==
  ASSUME BkTypeOK, NEW t \in DOMAIN bkThread, NEW r, IsThread(r), bkThread' = [bkThread EXCEPT ![t] = r]
  PROVE  BkMoved(t, r.pc, r.io, r.fence)
BY DEF BkTypeOK, BkMoved

\* What computing does to the buffers of a computation leaves its list alone.
BkIoKept ==
  /\ Len(bkIo') = Len(bkIo) /\ bkIo' = [i \in 1..Len(bkIo') |-> bkIo'[i]]
  /\ \A i \in 1..Len(bkIo) :
       IsIo(bkIo'[i]) /\ bkIo'[i].open = bkIo[i].open /\ bkIo'[i].needs_reset = bkIo[i].needs_reset

\* A step that does not touch the buffers keeps them.
LEMMA IoUnchanged == ASSUME BkTypeOK, UNCHANGED bkIo PROVE BkIoKept
BY DEF BkTypeOK, BkIoKept

\* A function on 1 .. n is a sequence of whatever holds its values.
LEMMA IsSequence ==
  ASSUME NEW f, NEW S, Len(f) \in Nat, f = [i \in 1..Len(f) |-> f[i]], \A i \in 1..Len(f) : f[i] \in S
  PROVE  f \in Seq(S)
<1>1. f \in [1..Len(f) -> S]
  OBVIOUS
<1> QED BY <1>1, SeqDef

\* One of the buffers is replaced.
LEMMA IoSet ==
  ASSUME BkTypeOK, NEW i \in 1..Len(bkIo), NEW b, IsIo(b), bkIo' = [bkIo EXCEPT ![i] = b]
  PROVE  /\ Len(bkIo') = Len(bkIo) /\ bkIo' = [k \in 1..Len(bkIo') |-> bkIo'[k]]
         /\ bkIo'[i] = b /\ \A k \in 1..Len(bkIo) \ {i} : bkIo'[k] = bkIo[k]
<1> DEFINE S == {bkIo[k] : k \in 1..Len(bkIo)} \cup {b}
<1>1. bkIo \in Seq(S)
  BY IsSequence DEF BkTypeOK
<1>2. b \in S
  OBVIOUS
<1> HIDE DEF S
<1>3. bkIo' \in Seq(S) /\ Len(bkIo') = Len(bkIo)
  BY <1>1, <1>2, ExceptSeq
<1> QED BY <1>1, <1>3 DEF BkTypeOK

\* Commands write the memory of a computation.
LEMMA IoMem ==
  ASSUME BkTypeOK, NEW i \in 1..Len(bkIo), NEW m, bkIo' = [bkIo EXCEPT ![i].mem = m]
  PROVE  BkIoKept
<1> DEFINE b == [mem |-> m, needs_reset |-> bkIo[i].needs_reset, open |-> bkIo[i].open]
<1>1. IsIo(bkIo[i])
  BY DEF BkTypeOK
<1>2. [bkIo[i] EXCEPT !.mem = m] = b
  BY <1>1 DEF IsIo
<1>3. bkIo' = [bkIo EXCEPT ![i] = b]
  BY <1>2, Zenon
<1>4. IsIo(b) /\ b.open = bkIo[i].open /\ b.needs_reset = bkIo[i].needs_reset
  BY <1>1 DEF IsIo
<1> HIDE DEF b
<1>5. /\ Len(bkIo') = Len(bkIo) /\ bkIo' = [k \in 1..Len(bkIo') |-> bkIo'[k]]
      /\ bkIo'[i] = b /\ \A k \in 1..Len(bkIo) \ {i} : bkIo'[k] = bkIo[k]
  BY <1>3, <1>4, IoSet
<1> QED BY <1>4, <1>5 DEF BkIoKept, BkTypeOK

\* A step that computes: nothing is taken, returned or submitted.
LEMMA QuietKeeps ==
  ASSUME BkInv, NEW t \in DOMAIN bkThread, NEW pc, BkMoved(t, pc, bkThread[t].io, bkThread[t].fence), BkIoKept,
         bkThread[t].pc \notin {"idle", "signal", "wait"}, pc \notin {"idle", "signal", "wait", "record"},
         UNCHANGED <<bkFree, bkQueue, bkFence, bkDone>>
  PROVE  BkInv'
<1>1. /\ BkTypeOK /\ DOMAIN bkThread' = DOMAIN bkThread
      /\ \A u \in DOMAIN bkThread : /\ IsThread(bkThread'[u]) /\ bkThread'[u].io = bkThread[u].io
                                    /\ bkThread'[u].fence = bkThread[u].fence
                                    /\ bkThread'[u].pc = IF u = t THEN pc ELSE bkThread[u].pc
  BY DEF BkMoved, BkInv, BkTypeOK
<1>2. \A u \in DOMAIN bkThread : BkSubmitted(u)' <=> BkSubmitted(u)
  BY <1>1 DEF BkSubmitted
<1>3. BkTypeOK'
  BY <1>1 DEF BkTypeOK, BkMoved, BkIoKept
<1>4. BkHeldOnce'
  BY <1>1 DEF BkInv, BkHeldOnce, BkIoKept
<1>5. BkListsAwaited'
  BY <1>1, <1>2 DEF BkInv, BkListsAwaited
<1>6. BkReopens'
  <2>1. \A i \in 1..Len(bkIo) : bkIo'[i].open = bkIo[i].open /\ bkIo'[i].needs_reset = bkIo[i].needs_reset
    BY DEF BkIoKept
  <2>2. \A u \in DOMAIN bkThread : bkThread[u].pc = "record" => bkThread[u].io \in 1..Len(bkIo)
    BY <1>1 DEF BkInv, BkHeldOnce, BkTypeOK, IsThread
  <2> QED BY <1>1, <1>2, <2>1, <2>2 DEF BkInv, BkReopens, BkIoKept
<1> QED BY <1>3, <1>4, <1>5, <1>6 DEF BkInv

\* The members of a computation.
Computation(pc, comp, io, n, ip, chunk, fence, res) ==
  [pc |-> pc, comp |-> comp, io |-> io, n |-> n, ip |-> ip, chunk |-> chunk, fence |-> fence, res |-> res]

\* A thread in the middle of a computation, with other values in the fields it counts in.
LEMMA ThreadSet ==
  ASSUME BkTypeOK, NEW t \in DOMAIN bkThread, NEW pc, NEW comp, NEW io \in Nat, NEW n, NEW ip, NEW chunk,
         NEW fence \in Nat, NEW res,
         bkThread' = [bkThread EXCEPT ![t] = Computation(pc, comp, io, n, ip, chunk, fence, res)]
  PROVE  BkMoved(t, pc, io, fence)
<1> DEFINE r == Computation(pc, comp, io, n, ip, chunk, fence, res)
<1>1. IsThread(r) /\ r.pc = pc /\ r.io = io /\ r.fence = fence
  BY DEF IsThread, Computation
<1> HIDE DEF r
<1>2. bkThread' = [bkThread EXCEPT ![t] = r]
  BY DEF r
<1> QED BY <1>1, <1>2, MovedTo

\* Whoever computes holds buffers that exist.
LEMMA HoldsIo ==
  ASSUME BkInv, NEW t \in DOMAIN bkThread, bkThread[t].pc # "idle"
  PROVE  bkThread[t].io \in 1..Len(bkIo)
BY DEF BkInv, BkTypeOK, BkHeldOnce, IsThread

\* A command keeps the lists.
LEMMA StepIo ==
  ASSUME BkInv, NEW t \in DOMAIN bkThread, bkThread[t].pc # "idle", NEW i, NEW n, BkStep(i, bkThread[t].io, n)
  PROVE  BkIoKept
<1>1. bkThread[t].io \in 1..Len(bkIo)
  BY HoldsIo
<1>2. PICK m : bkIo' = [bkIo EXCEPT ![bkThread[t].io].mem = m]
  BY Zenon DEF BkStep
<1> QED BY <1>1, <1>2, IoMem DEF BkInv

\* AddInput writes one row of the input.
LEMMA AddInputKeeps == ASSUME BkInv, NEW t \in DOMAIN bkThread, BkAddInput(t) PROVE BkInv'
<1> DEFINE s == bkThread[t]
<1>1. /\ s.pc = "adding" /\ UNCHANGED <<bkFree, bkQueue, bkFence, bkDone>>
      /\ bkThread' = [bkThread EXCEPT ![t].n = s.n + 1]
  BY DEF BkAddInput
<1>2. BkTypeOK /\ IsThread(s) /\ s.io \in 1..Len(bkIo) /\ s.io \in Nat /\ s.fence \in Nat
  BY <1>1, HoldsIo DEF BkInv, BkTypeOK, IsThread
<1>3. bkThread' = [bkThread EXCEPT ![t]
      = Computation(s.pc, s.comp, s.io, s.n + 1, s.ip, s.chunk, s.fence, s.res)]
  <2>1. [s EXCEPT !.n = s.n + 1] = Computation(s.pc, s.comp, s.io, s.n + 1, s.ip, s.chunk, s.fence, s.res)
    BY <1>2 DEF IsThread, Computation
  <2>2. [s EXCEPT !.n = s.n + 1] = Computation(s.pc, s.comp, s.io, s.n + 1, s.ip, s.chunk, s.fence, s.res)
    BY <2>1
  <2>3. bkThread' = [bkThread EXCEPT ![t] = [s EXCEPT !.n = s.n + 1]]
    BY <1>1, <1>2 DEF BkTypeOK
  <2> QED BY <2>2, <2>3
<1>4. BkMoved(t, s.pc, s.io, s.fence)
  BY <1>2, <1>3, ThreadSet
<1>5. BkIoKept
  <2>1. CASE UNCHANGED bkIo
    BY <1>2, <2>1, IoUnchanged
  <2>2. CASE ~UNCHANGED bkIo
    <3>1. PICK m : bkIo' = [bkIo EXCEPT ![s.io].mem = m]
      BY <2>2, Zenon DEF BkAddInput
    <3> QED BY <1>2, <3>1, IoMem
  <2> QED BY <2>1, <2>2
<1>6. s.pc \notin {"idle", "signal", "wait"} /\ UNCHANGED <<bkFree, bkQueue, bkFence, bkDone>>
  BY <1>1
<1>7. s.pc # "record"
  BY <1>1
<1> QED BY <1>4, <1>5, <1>6, <1>7, QuietKeeps

\* forwardEval takes the lock.
LEMMA LockToEvalKeeps == ASSUME BkInv, NEW t \in DOMAIN bkThread, BkLockToEval(t) PROVE BkInv'
<1> DEFINE s == bkThread[t]
<1>1. /\ s.pc = "adding" /\ UNCHANGED <<bkIo, bkFree, bkQueue, bkFence, bkDone>>
      /\ bkThread' = [bkThread EXCEPT ![t].pc = "run", ![t].chunk = 1]
  BY DEF BkLockToEval
<1>2. BkTypeOK /\ IsThread(s) /\ s.io \in 1..Len(bkIo) /\ s.io \in Nat /\ s.fence \in Nat
  BY <1>1, HoldsIo DEF BkInv, BkTypeOK, IsThread
<1>3. bkThread' = [bkThread EXCEPT ![t] = Computation("run", s.comp, s.io, s.n, s.ip, 1, s.fence, s.res)]
  <2>1. [s EXCEPT !.pc = "run"] = Computation("run", s.comp, s.io, s.n, s.ip, s.chunk, s.fence, s.res)
    BY <1>2 DEF IsThread, Computation
  <2>2. [Computation("run", s.comp, s.io, s.n, s.ip, s.chunk, s.fence, s.res) EXCEPT !.chunk = 1]
        = Computation("run", s.comp, s.io, s.n, s.ip, 1, s.fence, s.res)
    BY DEF Computation
  <2>3. [s EXCEPT !.pc = "run", !.chunk = 1] = Computation("run", s.comp, s.io, s.n, s.ip, 1, s.fence, s.res)
    BY <2>1, <2>2
  <2>4. bkThread' = [bkThread EXCEPT ![t] = [s EXCEPT !.pc = "run", !.chunk = 1]]
    BY <1>1, <1>2 DEF BkTypeOK
  <2> QED BY <2>3, <2>4
<1>4. BkMoved(t, "run", s.io, s.fence)
  BY <1>2, <1>3, ThreadSet
<1>5. BkIoKept
  BY <1>1, <1>2, IoUnchanged
<1>6. s.pc \notin {"idle", "signal", "wait"} /\ UNCHANGED <<bkFree, bkQueue, bkFence, bkDone>>
  BY <1>1
<1> QED BY <1>4, <1>5, <1>6, QuietKeeps

\* A command of the program.
LEMMA RunCommandKeeps == ASSUME BkInv, NEW t \in DOMAIN bkThread, BkRunCommand(t) PROVE BkInv'
<1> DEFINE s == bkThread[t]
<1>1. /\ s.pc = "run" /\ UNCHANGED <<bkFree, bkQueue, bkFence, bkDone>>
      /\ BkStep(BkMainCommands(t)[s.ip], s.io, BkChunkSize(t))
      /\ bkThread' = [bkThread EXCEPT ![t].ip = s.ip + 1]
  BY DEF BkRunCommand
<1>2. BkTypeOK /\ IsThread(s) /\ s.io \in 1..Len(bkIo) /\ s.io \in Nat /\ s.fence \in Nat
  BY <1>1, HoldsIo DEF BkInv, BkTypeOK, IsThread
<1>3. bkThread' = [bkThread EXCEPT ![t]
      = Computation(s.pc, s.comp, s.io, s.n, s.ip + 1, s.chunk, s.fence, s.res)]
  <2>1. [s EXCEPT !.ip = s.ip + 1] = Computation(s.pc, s.comp, s.io, s.n, s.ip + 1, s.chunk, s.fence, s.res)
    BY <1>2 DEF IsThread, Computation
  <2>2. [s EXCEPT !.ip = s.ip + 1] = Computation(s.pc, s.comp, s.io, s.n, s.ip + 1, s.chunk, s.fence, s.res)
    BY <2>1
  <2>3. bkThread' = [bkThread EXCEPT ![t] = [s EXCEPT !.ip = s.ip + 1]]
    BY <1>1, <1>2 DEF BkTypeOK
  <2> QED BY <2>2, <2>3
<1>4. BkMoved(t, s.pc, s.io, s.fence)
  BY <1>2, <1>3, ThreadSet
<1>5. BkIoKept
  BY <1>1, StepIo
<1>6. s.pc \notin {"idle", "signal", "wait"} /\ UNCHANGED <<bkFree, bkQueue, bkFence, bkDone>>
  BY <1>1
<1>7. s.pc # "record"
  BY <1>1
<1> QED BY <1>4, <1>5, <1>6, <1>7, QuietKeeps

\* The device has finished.
LEMMA FinishMainKeeps == ASSUME BkInv, NEW t \in DOMAIN bkThread, BkFinishMain(t) PROVE BkInv'
<1> DEFINE s == bkThread[t]
<1>1. /\ s.pc = "run" /\ UNCHANGED <<bkIo, bkFree, bkQueue, bkFence, bkDone>>
      /\ bkThread' = [bkThread EXCEPT ![t].pc = "post", ![t].ip = 1]
  BY DEF BkFinishMain
<1>2. BkTypeOK /\ IsThread(s) /\ s.io \in 1..Len(bkIo) /\ s.io \in Nat /\ s.fence \in Nat
  BY <1>1, HoldsIo DEF BkInv, BkTypeOK, IsThread
<1>3. bkThread' = [bkThread EXCEPT ![t] = Computation("post", s.comp, s.io, s.n, 1, s.chunk, s.fence, s.res)]
  <2>1. [s EXCEPT !.pc = "post"] = Computation("post", s.comp, s.io, s.n, s.ip, s.chunk, s.fence, s.res)
    BY <1>2 DEF IsThread, Computation
  <2>2. [Computation("post", s.comp, s.io, s.n, s.ip, s.chunk, s.fence, s.res) EXCEPT !.ip = 1]
        = Computation("post", s.comp, s.io, s.n, 1, s.chunk, s.fence, s.res)
    BY DEF Computation
  <2>3. [s EXCEPT !.pc = "post", !.ip = 1] = Computation("post", s.comp, s.io, s.n, 1, s.chunk, s.fence, s.res)
    BY <2>1, <2>2
  <2>4. bkThread' = [bkThread EXCEPT ![t] = [s EXCEPT !.pc = "post", !.ip = 1]]
    BY <1>1, <1>2 DEF BkTypeOK
  <2> QED BY <2>3, <2>4
<1>4. BkMoved(t, "post", s.io, s.fence)
  BY <1>2, <1>3, ThreadSet
<1>5. BkIoKept
  BY <1>1, <1>2, IoUnchanged
<1>6. s.pc \notin {"idle", "signal", "wait"} /\ UNCHANGED <<bkFree, bkQueue, bkFence, bkDone>>
  BY <1>1
<1> QED BY <1>4, <1>5, <1>6, QuietKeeps

\* The next chunk of a batch is copied in.
LEMMA NextChunkKeeps == ASSUME BkInv, NEW t \in DOMAIN bkThread, BkNextChunk(t) PROVE BkInv'
<1> DEFINE s == bkThread[t]
<1>1. /\ s.pc \in {"chunk", "adding"} /\ UNCHANGED <<bkFree, bkQueue, bkFence, bkDone>>
      /\ bkThread' = [bkThread EXCEPT ![t].pc = "run", ![t].ip = 1, ![t].chunk = s.chunk + 1]
  BY DEF BkNextChunk
<1>2. BkTypeOK /\ IsThread(s) /\ s.io \in 1..Len(bkIo) /\ s.io \in Nat /\ s.fence \in Nat
  BY <1>1, HoldsIo DEF BkInv, BkTypeOK, IsThread
<1>3. bkThread' = [bkThread EXCEPT ![t] = Computation("run", s.comp, s.io, s.n, 1, s.chunk + 1, s.fence, s.res)]
  <2>1. [s EXCEPT !.pc = "run"] = Computation("run", s.comp, s.io, s.n, s.ip, s.chunk, s.fence, s.res)
    BY <1>2 DEF IsThread, Computation
  <2>2. [Computation("run", s.comp, s.io, s.n, s.ip, s.chunk, s.fence, s.res) EXCEPT !.ip = 1]
        = Computation("run", s.comp, s.io, s.n, 1, s.chunk, s.fence, s.res)
    BY DEF Computation
  <2>3. [Computation("run", s.comp, s.io, s.n, 1, s.chunk, s.fence, s.res) EXCEPT !.chunk = s.chunk + 1]
        = Computation("run", s.comp, s.io, s.n, 1, s.chunk + 1, s.fence, s.res)
    BY DEF Computation
  <2>4. [s EXCEPT !.pc = "run", !.ip = 1, !.chunk = s.chunk + 1]
        = Computation("run", s.comp, s.io, s.n, 1, s.chunk + 1, s.fence, s.res)
    BY <2>1, <2>2, <2>3
  <2>5. bkThread' = [bkThread EXCEPT ![t] = [s EXCEPT !.pc = "run", !.ip = 1, !.chunk = s.chunk + 1]]
    BY <1>1, <1>2 DEF BkTypeOK
  <2> QED BY <2>4, <2>5
<1>4. BkMoved(t, "run", s.io, s.fence)
  BY <1>2, <1>3, ThreadSet
<1>5. BkIoKept
  <2>1. PICK m : bkIo' = [bkIo EXCEPT ![s.io].mem = m]
    BY Zenon DEF BkNextChunk
  <2> QED BY <1>2, <2>1, IoMem
<1>6. s.pc \notin {"idle", "signal", "wait"} /\ UNCHANGED <<bkFree, bkQueue, bkFence, bkDone>>
  BY <1>1
<1> QED BY <1>4, <1>5, <1>6, QuietKeeps

\* No chunk is left.
LEMMA LastChunkKeeps == ASSUME BkInv, NEW t \in DOMAIN bkThread, BkLastChunk(t) PROVE BkInv'
<1> DEFINE s == bkThread[t]
<1>1. /\ s.pc = "chunk" /\ UNCHANGED <<bkIo, bkFree, bkQueue, bkFence, bkDone>>
      /\ bkThread' = [bkThread EXCEPT ![t].pc = "read"]
  BY DEF BkLastChunk
<1>2. BkTypeOK /\ IsThread(s) /\ s.io \in 1..Len(bkIo) /\ s.io \in Nat /\ s.fence \in Nat
  BY <1>1, HoldsIo DEF BkInv, BkTypeOK, IsThread
<1>3. bkThread' = [bkThread EXCEPT ![t] = Computation("read", s.comp, s.io, s.n, s.ip, s.chunk, s.fence, s.res)]
  <2>1. [s EXCEPT !.pc = "read"] = Computation("read", s.comp, s.io, s.n, s.ip, s.chunk, s.fence, s.res)
    BY <1>2 DEF IsThread, Computation
  <2>2. [s EXCEPT !.pc = "read"] = Computation("read", s.comp, s.io, s.n, s.ip, s.chunk, s.fence, s.res)
    BY <2>1
  <2>3. bkThread' = [bkThread EXCEPT ![t] = [s EXCEPT !.pc = "read"]]
    BY <1>1, <1>2 DEF BkTypeOK
  <2> QED BY <2>2, <2>3
<1>4. BkMoved(t, "read", s.io, s.fence)
  BY <1>2, <1>3, ThreadSet
<1>5. BkIoKept
  BY <1>1, <1>2, IoUnchanged
<1>6. s.pc \notin {"idle", "signal", "wait"} /\ UNCHANGED <<bkFree, bkQueue, bkFence, bkDone>>
  BY <1>1
<1> QED BY <1>4, <1>5, <1>6, QuietKeeps

\* What the calling thread computes afterwards, and the results.
LEMMA PostKeeps == ASSUME BkInv, NEW t \in DOMAIN bkThread, BkPost(t) PROVE BkInv'
<1> DEFINE s == bkThread[t]
<1>1. s.pc = "post" /\ UNCHANGED <<bkFree, bkQueue, bkFence, bkDone>>
  BY DEF BkPost
<1>2. BkTypeOK /\ IsThread(s) /\ s.io \in 1..Len(bkIo) /\ s.io \in Nat /\ s.fence \in Nat
  BY <1>1, HoldsIo DEF BkInv, BkTypeOK, IsThread
<1>3. CASE s.ip <= Len(BkPostCommands(t))
  <2>1. /\ BkStep(BkPostCommands(t)[s.ip], s.io, BkChunkSize(t))
        /\ bkThread' = [bkThread EXCEPT ![t].ip = s.ip + 1]
    BY <1>3 DEF BkPost
  <2>2. bkThread' = [bkThread EXCEPT ![t]
        = Computation(s.pc, s.comp, s.io, s.n, s.ip + 1, s.chunk, s.fence, s.res)]
    <3>1. [s EXCEPT !.ip = s.ip + 1] = Computation(s.pc, s.comp, s.io, s.n, s.ip + 1, s.chunk, s.fence, s.res)
      BY <1>2 DEF IsThread, Computation
    <3>2. [s EXCEPT !.ip = s.ip + 1] = Computation(s.pc, s.comp, s.io, s.n, s.ip + 1, s.chunk, s.fence, s.res)
      BY <3>1
    <3>3. bkThread' = [bkThread EXCEPT ![t] = [s EXCEPT !.ip = s.ip + 1]]
      BY <2>1, <1>2 DEF BkTypeOK
    <3> QED BY <3>2, <3>3
  <2>3. BkMoved(t, s.pc, s.io, s.fence)
    BY <1>2, <2>2, ThreadSet
  <2>4. BkIoKept
    BY <1>1, <2>1, StepIo
  <2> QED BY <1>1, <2>3, <2>4, QuietKeeps
<1>4. CASE ~(s.ip <= Len(BkPostCommands(t)))
  <2> DEFINE pc == IF BkChunked(bkCase) THEN "chunk" ELSE "read"
             res == IF BkChunked(bkCase) THEN BkCollected(t) ELSE s.res
  <2>1. UNCHANGED bkIo /\ bkThread' = [bkThread EXCEPT ![t].pc = pc, ![t].res = res]
    BY <1>4 DEF BkPost
  <2>2. pc \in {"chunk", "read"}
    OBVIOUS
  <2> HIDE DEF pc, res
  <2>3. bkThread' = [bkThread EXCEPT ![t] = Computation(pc, s.comp, s.io, s.n, s.ip, s.chunk, s.fence, res)]
    <3>1. [s EXCEPT !.pc = pc] = Computation(pc, s.comp, s.io, s.n, s.ip, s.chunk, s.fence, s.res)
      BY <1>2 DEF IsThread, Computation
    <3>2. [Computation(pc, s.comp, s.io, s.n, s.ip, s.chunk, s.fence, s.res) EXCEPT !.res = res]
          = Computation(pc, s.comp, s.io, s.n, s.ip, s.chunk, s.fence, res)
      BY DEF Computation
    <3>3. [s EXCEPT !.pc = pc, !.res = res] = Computation(pc, s.comp, s.io, s.n, s.ip, s.chunk, s.fence, res)
      BY <3>1, <3>2
    <3>4. bkThread' = [bkThread EXCEPT ![t] = [s EXCEPT !.pc = pc, !.res = res]]
      BY <2>1, <1>2 DEF BkTypeOK
    <3> QED BY <3>3, <3>4
  <2>4. BkMoved(t, pc, s.io, s.fence)
    BY <1>2, <2>3, ThreadSet
  <2>5. BkIoKept
    BY <1>2, <2>1, IoUnchanged
  <2> QED BY <1>1, <2>2, <2>4, <2>5, QuietKeeps
<1> QED BY <1>3, <1>4

\* What is left of the pool when the buffers at one place are taken.
BkShift(k, i) == IF i < k THEN i ELSE i + 1

\* RemoveAt closes the gap.
LEMMA Removed ==
  ASSUME NEW s \in Seq(Nat), NEW k \in 1..Len(s)
  PROVE  /\ RemoveAt(s, k) \in Seq(Nat) /\ Len(RemoveAt(s, k)) = Len(s) - 1
         /\ \A i \in 1..Len(s) - 1 : RemoveAt(s, k)[i] = s[BkShift(k, i)]
<1> DEFINE a == SubSeq(s, 1, k - 1)
           b == SubSeq(s, k + 1, Len(s))
<1>1. a \in Seq(Nat) /\ Len(a) = k - 1 /\ \A i \in 1..k - 1 : a[i] = s[i]
  OBVIOUS
<1>2. b \in Seq(Nat) /\ Len(b) = Len(s) - k /\ \A i \in 1..Len(s) - k : b[i] = s[k + i]
  OBVIOUS
<1>3. RemoveAt(s, k) = a \o b
  BY DEF RemoveAt
<1> HIDE DEF a, b
<1>4. /\ a \o b \in Seq(Nat) /\ Len(a \o b) = Len(a) + Len(b)
      /\ \A i \in 1..Len(a) + Len(b) : (a \o b)[i] = IF i <= Len(a) THEN a[i] ELSE b[i - Len(a)]
  BY <1>1, <1>2, ConcatProperties
<1>5. k \in Nat /\ Len(s) \in Nat /\ 1 <= k /\ k <= Len(s) /\ Len(a) + Len(b) = Len(s) - 1
  BY <1>1, <1>2
<1>6. ASSUME NEW i \in 1..Len(s) - 1 PROVE (a \o b)[i] = s[BkShift(k, i)]
  <2>1. i \in 1..Len(a) + Len(b)
    BY <1>5
  <2>2. CASE i < k
    <3>1. i <= Len(a) /\ BkShift(k, i) = i /\ i \in 1..k - 1
      BY <1>1, <1>5, <2>2 DEF BkShift
    <3> QED BY <1>1, <1>4, <2>1, <3>1
  <2>3. CASE ~(i < k)
    <3>1. /\ i - (k - 1) \in 1..Len(s) - k /\ k + (i - (k - 1)) = i + 1
          /\ ~(i <= Len(a)) /\ i - Len(a) = i - (k - 1) /\ BkShift(k, i) = i + 1
      BY <1>1, <1>5, <2>3 DEF BkShift
    <3>2. (a \o b)[i] = b[i - Len(a)]
      BY <1>4, <2>1, <3>1
    <3> QED BY <1>2, <3>1, <3>2
  <2> QED BY <2>2, <2>3
<1>7. Len(a \o b) = Len(s) - 1
  BY <1>4, <1>5
<1> QED BY <1>3, <1>4, <1>6, <1>7

\* A sequence without repetitions, and what is left of one when the element at k is taken.
Once(s) == \A i, j \in 1..Len(s) : s[i] = s[j] => i = j
LeftOnce(s, k, r) ==
  /\ r \in Seq(Nat) /\ Once(r)
  /\ \A i \in 1..Len(r) : r[i] # s[k] /\ \E j \in 1..Len(s) : r[i] = s[j]

\* What is left is what was there, each once.
LEMMA RemovedOnce ==
  ASSUME NEW s \in Seq(Nat), NEW k \in 1..Len(s), NEW r, r = RemoveAt(s, k), Once(s)
  PROVE  LeftOnce(s, k, r)
<1>1. r \in Seq(Nat) /\ Len(r) = Len(s) - 1 /\ \A i \in 1..Len(s) - 1 : r[i] = s[BkShift(k, i)]
  BY Removed
<1>2. \A i \in 1..Len(s) - 1 : BkShift(k, i) \in 1..Len(s) /\ BkShift(k, i) # k
  BY DEF BkShift
<1>3. \A i, j \in 1..Len(s) - 1 : BkShift(k, i) = BkShift(k, j) => i = j
  BY DEF BkShift
<1>4. ASSUME NEW i \in 1..Len(r), NEW j \in 1..Len(r), r[i] = r[j] PROVE i = j
  <2>1. i \in 1..Len(s) - 1 /\ j \in 1..Len(s) - 1
    BY <1>1
  <2>2. s[BkShift(k, i)] = s[BkShift(k, j)]
    BY <1>1, <1>4, <2>1
  <2>3. BkShift(k, i) = BkShift(k, j)
    BY <1>2, <2>1, <2>2 DEF Once
  <2> QED BY <1>3, <2>1, <2>3
<1>5. ASSUME NEW i \in 1..Len(r) PROVE r[i] # s[k] /\ \E j \in 1..Len(s) : r[i] = s[j]
  <2>1. i \in 1..Len(s) - 1 /\ r[i] = s[BkShift(k, i)]
    BY <1>1
  <2>2. BkShift(k, i) \in 1..Len(s) /\ BkShift(k, i) # k
    BY <1>2, <2>1
  <2> QED BY <2>1, <2>2 DEF Once
<1> QED BY <1>1, <1>4, <1>5 DEF Once, LeftOnce

\* Buffers are taken from the pool, or new ones are allocated.
LEMMA NewComputationKeeps == ASSUME BkInv, NEW t \in DOMAIN bkThread, BkNewComputation(t) PROVE BkInv'
<1> DEFINE reuse == bkFree # << >>
           io == IF reuse THEN bkFree[BkTaken] ELSE Len(bkIo) + 1
<1>1. /\ bkThread[t].pc = "idle" /\ UNCHANGED <<bkQueue, bkFence, bkDone>>
      /\ bkIo' = (IF reuse THEN bkIo ELSE Append(bkIo, BkNewIo(bkCase)))
      /\ bkFree' = (IF reuse THEN BkFreeAfterTaking ELSE bkFree)
      /\ bkThread' = [bkThread EXCEPT ![t] =
             [BkIdle EXCEPT !.pc = "adding", !.comp = bkThread[t].comp + 1, !.io = io]]
  BY DEF BkNewComputation
<1>2. BkTypeOK /\ BkHeldOnce /\ BkListsAwaited /\ BkReopens
  BY DEF BkInv
<1>3. bkFree \in Seq(Nat) /\ Len(bkFree) \in Nat /\ Len(bkIo) \in Nat
  BY <1>2 DEF BkTypeOK
<1>4. reuse => BkTaken \in 1..Len(bkFree)
  BY <1>3 DEF BkTaken
<1>5. /\ bkFree' \in Seq(Nat) /\ \A i, j \in 1..Len(bkFree') : bkFree'[i] = bkFree'[j] => i = j
      /\ \A i \in 1..Len(bkFree') : bkFree'[i] # io /\ \E j \in 1..Len(bkFree) : bkFree'[i] = bkFree[j]
  <2>1. \A i, j \in 1..Len(bkFree) : bkFree[i] = bkFree[j] => i = j
    BY <1>2 DEF BkHeldOnce
  <2>2. CASE reuse
    <3>1. bkFree' = RemoveAt(bkFree, BkTaken) /\ io = bkFree[BkTaken]
      BY <1>1, <2>2 DEF BkFreeAfterTaking
    <3> DEFINE taken == BkTaken
    <3>2. taken \in 1..Len(bkFree) /\ bkFree' = RemoveAt(bkFree, taken) /\ io = bkFree[taken]
      BY <1>4, <2>2, <3>1
    <3> HIDE DEF io, taken, reuse
    <3>3. /\ bkFree' \in Seq(Nat) /\ \A i, j \in 1..Len(bkFree') : bkFree'[i] = bkFree'[j] => i = j
          /\ \A i \in 1..Len(bkFree') : bkFree'[i] # bkFree[taken] /\ \E j \in 1..Len(bkFree) : bkFree'[i] = bkFree[j]
      <4>1. Once(bkFree)
        BY <2>1 DEF Once
      <4>2. LeftOnce(bkFree, taken, bkFree')
        BY <1>3, <3>2, <4>1, RemovedOnce
      <4> QED BY <4>2 DEF LeftOnce, Once
    <3> QED BY <3>2, <3>3
  <2>3. CASE ~reuse
    BY <1>1, <1>3, <2>1, <2>3
  <2> QED BY <2>2, <2>3
<1>6. \A i \in 1..Len(bkFree') : bkFree'[i] # io /\ \E j \in 1..Len(bkFree) : bkFree'[i] = bkFree[j]
  BY <1>5
<1>7. /\ io \in Nat /\ io # 0 /\ io <= Len(bkIo') /\ Len(bkIo') \in Nat /\ Len(bkIo) <= Len(bkIo')
      /\ bkIo' = [i \in 1..Len(bkIo') |-> bkIo'[i]] /\ \A i \in 1..Len(bkIo') : IsIo(bkIo'[i])
      /\ \A i \in 1..Len(bkIo) : bkIo'[i] = bkIo[i]
      /\ \A i \in 1..Len(bkIo') : i \in 1..Len(bkIo) \/ bkIo'[i].open
  <2>1. CASE reuse
    <3>1. io \in 1..Len(bkIo) /\ UNCHANGED bkIo
      BY <1>1, <1>2, <1>4, <2>1 DEF BkHeldOnce
    <3> HIDE DEF io
    <3> QED BY <1>2, <3>1 DEF BkTypeOK
  <2>2. CASE ~reuse
    <3> DEFINE new == BkNewIo(bkCase)
               S == {bkIo[k] : k \in 1..Len(bkIo)} \cup {new}
    <3>1. bkIo \in Seq(S) /\ new \in S
      BY <1>2, IsSequence DEF BkTypeOK
    <3>2. IsIo(new) /\ new.open
      BY DEF BkNewIo, IsIo
    <3>3. io = Len(bkIo) + 1 /\ bkIo' = Append(bkIo, new)
      BY <1>1, <2>2
    <3> HIDE DEF new, S, io
    <3>4. /\ bkIo' \in Seq(S) /\ Len(bkIo') = Len(bkIo) + 1
          /\ bkIo'[Len(bkIo) + 1] = new /\ \A i \in 1..Len(bkIo) : bkIo'[i] = bkIo[i]
      BY <3>1, <3>3, AppendProperties
    <3>5. bkIo' = [i \in 1..Len(bkIo') |-> bkIo'[i]]
      BY <3>4
    <3>6. \A i \in 1..Len(bkIo') : i \in 1..Len(bkIo) \/ i = Len(bkIo) + 1
      BY <1>3, <3>4
    <3> QED BY <1>2, <1>3, <3>2, <3>3, <3>4, <3>5, <3>6 DEF BkTypeOK
  <2> QED BY <2>1, <2>2
<1>8. \A u \in DOMAIN bkThread : bkThread[u].io # io
  <2>1. CASE reuse
    BY <1>2, <1>4, <2>1 DEF BkHeldOnce
  <2>2. CASE ~reuse
    BY <1>2, <1>3, <2>2 DEF BkHeldOnce, BkTypeOK, IsThread
  <2> QED BY <2>1, <2>2
<1>9. BkMoved(t, "adding", io, 0)
  <2> DEFINE comp == bkThread[t].comp + 1
             res == [h \in {} |-> <<>>]
  <2>1. BkIdle = Computation("idle", 0, 0, 0, 1, 0, 0, res)
    BY DEF BkIdle, Computation
  <2> HIDE DEF io, comp, res
  <2>2. [Computation("idle", 0, 0, 0, 1, 0, 0, res) EXCEPT !.pc = "adding", !.comp = comp, !.io = io]
          = Computation("adding", comp, io, 0, 1, 0, 0, res)
    <3>1. [Computation("idle", 0, 0, 0, 1, 0, 0, res) EXCEPT !.pc = "adding"]
          = Computation("adding", 0, 0, 0, 1, 0, 0, res)
      BY DEF Computation
    <3>2. [Computation("adding", 0, 0, 0, 1, 0, 0, res) EXCEPT !.comp = comp]
          = Computation("adding", comp, 0, 0, 1, 0, 0, res)
      BY DEF Computation
    <3>3. [Computation("adding", comp, 0, 0, 1, 0, 0, res) EXCEPT !.io = io]
          = Computation("adding", comp, io, 0, 1, 0, 0, res)
      BY DEF Computation
    <3> QED BY <3>1, <3>2, <3>3
  <2>3. bkThread' = [bkThread EXCEPT ![t] = Computation("adding", comp, io, 0, 1, 0, 0, res)]
    BY <1>1, <2>1, <2>2 DEF comp
  <2> QED BY <1>2, <1>7, <2>3, ThreadSet
<1> HIDE DEF io, reuse
<1>10. /\ DOMAIN bkThread' = DOMAIN bkThread /\ bkThread'[t].pc = "adding" /\ bkThread'[t].io = io
       /\ \A u \in DOMAIN bkThread \ {t} : bkThread'[u] = bkThread[u]
  BY <1>9 DEF BkMoved
<1>11. \A u \in DOMAIN bkThread : (BkSubmitted(u)' <=> BkSubmitted(u)) /\ (BkSubmitted(u) => u # t)
  BY <1>1, <1>10 DEF BkSubmitted
<1>12. BkTypeOK'
  <2>1. \A u \in DOMAIN bkThread' : IsThread(bkThread'[u])
    BY <1>2, <1>9, <1>10 DEF BkMoved, BkTypeOK
  <2> QED BY <1>1, <1>2, <1>5, <1>7, <1>9, <2>1 DEF BkTypeOK, BkMoved
<1>13. BkHeldOnce'
  <2>1. \A u \in DOMAIN bkThread' : /\ bkThread'[u].io <= Len(bkIo') /\ (bkThread'[u].pc = "idle" <=> bkThread'[u].io = 0)
    <3>1. \A u \in DOMAIN bkThread : bkThread[u].io \in Nat
      BY <1>2 DEF BkTypeOK, IsThread
    <3> QED BY <1>2, <1>3, <1>7, <1>10, <3>1 DEF BkHeldOnce
  <2>2. \A u \in DOMAIN bkThread' : \A i \in 1..Len(bkFree') : bkFree'[i] # bkThread'[u].io
    <3>1. ASSUME NEW u \in DOMAIN bkThread, u # t, NEW i \in 1..Len(bkFree') PROVE bkFree'[i] # bkThread'[u].io
      <4>1. PICK j \in 1..Len(bkFree) : bkFree'[i] = bkFree[j]
        BY <1>6
      <4> QED BY <1>2, <1>10, <3>1, <4>1 DEF BkHeldOnce
    <3> QED BY <1>6, <1>10, <3>1
  <2>3. \A u, v \in DOMAIN bkThread' : bkThread'[u].io = bkThread'[v].io /\ bkThread'[u].io # 0 => u = v
    BY <1>2, <1>8, <1>10 DEF BkHeldOnce
  <2>4. ASSUME NEW i \in 1..Len(bkFree') PROVE bkFree'[i] \in 1..Len(bkIo')
    <3>1. PICK j \in 1..Len(bkFree) : bkFree'[i] = bkFree[j]
      BY <1>6
    <3>2. bkFree[j] \in 1..Len(bkIo)
      BY <1>2 DEF BkHeldOnce
    <3> QED BY <1>3, <1>7, <3>1, <3>2
  <2> QED BY <1>5, <2>1, <2>2, <2>3, <2>4 DEF BkHeldOnce
<1>14. BkListsAwaited'
  <2>1. \A i \in 1..Len(bkQueue) : bkQueue[i].kind = "list" => bkQueue[i].t # t
    BY <1>1, <1>2 DEF BkListsAwaited, BkSubmitted
  <2> QED BY <1>1, <1>2, <1>10, <1>11, <2>1 DEF BkListsAwaited
<1>15. BkReopens'
  <2>1. ASSUME NEW i \in 1..Len(bkIo')
        PROVE  \/ bkIo'[i].open \/ bkIo'[i].needs_reset
               \/ \E u \in DOMAIN bkThread' : BkSubmitted(u)' /\ bkThread'[u].io = i
    BY <1>2, <1>7, <1>10, <1>11 DEF BkReopens
  <2>2. ASSUME NEW u \in DOMAIN bkThread', bkThread'[u].pc = "record" PROVE bkIo'[bkThread'[u].io].open
    <3>1. u # t /\ bkThread'[u] = bkThread[u]
      BY <1>10, <2>2
    <3>2. bkThread[u].io \in 1..Len(bkIo)
      BY <1>10, <2>2, <3>1, HoldsIo
    <3> QED BY <1>2, <1>7, <1>10, <2>2, <3>1, <3>2 DEF BkReopens
  <2> QED BY <2>1, <2>2 DEF BkReopens
<1> QED BY <1>12, <1>13, <1>14, <1>15 DEF BkInv

\* The members of a computation's buffers.
Buffers(mem, needs_reset, open) == [mem |-> mem, needs_reset |-> needs_reset, open |-> open]

\* Closing or reopening a command list changes nothing else of the buffers.
LEMMA OpenSet == ASSUME NEW b, IsIo(b), NEW o PROVE [b EXCEPT !.open = o] = Buffers(b.mem, b.needs_reset, o)
BY DEF IsIo, Buffers

\* Setting needs_reset_ changes nothing else of the buffers.
LEMMA ResetSet == ASSUME NEW b, IsIo(b), NEW o PROVE [b EXCEPT !.needs_reset = o] = Buffers(b.mem, o, b.open)
BY DEF IsIo, Buffers

\* The list of one computation is closed, reopened or marked for a reset.
LEMMA IoListSet ==
  ASSUME BkTypeOK, NEW i \in 1..Len(bkIo), NEW r \in BOOLEAN, NEW o \in BOOLEAN,
         bkIo' = [bkIo EXCEPT ![i] = Buffers(bkIo[i].mem, r, o)]
  PROVE  /\ Len(bkIo') = Len(bkIo) /\ bkIo' = [k \in 1..Len(bkIo') |-> bkIo'[k]]
         /\ \A k \in 1..Len(bkIo') : IsIo(bkIo'[k])
         /\ bkIo'[i].open = o /\ bkIo'[i].needs_reset = r /\ \A k \in 1..Len(bkIo) \ {i} : bkIo'[k] = bkIo[k]
<1> DEFINE b == Buffers(bkIo[i].mem, r, o)
<1>1. IsIo(b) /\ b.open = o /\ b.needs_reset = r
  BY DEF IsIo, Buffers
<1> HIDE DEF b
<1>2. bkIo' = [bkIo EXCEPT ![i] = b]
  BY DEF b
<1>3. /\ Len(bkIo') = Len(bkIo) /\ bkIo' = [k \in 1..Len(bkIo') |-> bkIo'[k]]
      /\ bkIo'[i] = b /\ \A k \in 1..Len(bkIo) \ {i} : bkIo'[k] = bkIo[k]
  BY <1>1, <1>2, IoSet
<1> QED BY <1>1, <1>3 DEF BkTypeOK

\* The types after a step of one thread.
LEMMA TypesKept ==
  ASSUME BkTypeOK, NEW t \in DOMAIN bkThread, NEW pc, NEW io, NEW fence, BkMoved(t, pc, io, fence),
         Len(bkIo') = Len(bkIo), bkIo' = [k \in 1..Len(bkIo') |-> bkIo'[k]],
         \A k \in 1..Len(bkIo') : IsIo(bkIo'[k]), bkFree' \in Seq(Nat),
         Len(bkQueue') \in Nat, bkQueue' = [i \in 1..Len(bkQueue') |-> bkQueue'[i]],
         \A i \in 1..Len(bkQueue') : IsEntry(bkQueue'[i]), bkFence' \in Nat, bkDone' \in Nat
  PROVE  BkTypeOK'
BY DEF BkTypeOK, BkMoved

\* A thread that keeps its buffers leaves the pool as it is.
LEMMA HeldKept ==
  ASSUME BkInv, NEW t \in DOMAIN bkThread, NEW pc, NEW fence, BkMoved(t, pc, bkThread[t].io, fence),
         bkThread[t].pc # "idle", pc # "idle", Len(bkIo') = Len(bkIo), UNCHANGED bkFree
  PROVE  BkHeldOnce'
<1>1. DOMAIN bkThread' = DOMAIN bkThread /\ \A u \in DOMAIN bkThread : bkThread'[u].io = bkThread[u].io
  BY DEF BkMoved
<1>2. \A u \in DOMAIN bkThread : bkThread'[u].pc = "idle" <=> bkThread[u].pc = "idle"
  BY DEF BkMoved
<1> QED BY <1>1, <1>2 DEF BkInv, BkHeldOnce

\* Lists are awaited as before when the queue and the threads that wait stay.
LEMMA AwaitedKept ==
  ASSUME BkInv, NEW t \in DOMAIN bkThread, NEW pc, NEW io, NEW fence, BkMoved(t, pc, io, fence),
         \A i \in 1..Len(bkQueue) : bkQueue[i].kind = "list" => bkQueue[i].t # t,
         UNCHANGED <<bkQueue, bkFence, bkDone>>
  PROVE  BkListsAwaited'
<1>1. \A i \in 1..Len(bkQueue) : bkQueue[i].kind = "list" => bkQueue[i].t # t
  OBVIOUS
<1>2. /\ DOMAIN bkThread' = DOMAIN bkThread
      /\ \A u \in DOMAIN bkThread \ {t} : bkThread'[u] = bkThread[u] /\ (BkSubmitted(u)' <=> BkSubmitted(u))
  BY DEF BkMoved, BkSubmitted
<1> QED BY <1>1, <1>2 DEF BkInv, BkListsAwaited

\* ResetCL: the list of a computation that records is open.
LEMMA RecordKeeps == ASSUME BkInv, NEW t \in DOMAIN bkThread, BkRecord(t) PROVE BkInv'
<1> DEFINE s == bkThread[t]
<1>1. s.pc = "adding" /\ UNCHANGED <<bkFree, bkQueue, bkFence, bkDone>>
  BY DEF BkRecord
<1>2. BkTypeOK /\ IsThread(s) /\ s.io \in 1..Len(bkIo) /\ s.io \in Nat /\ s.fence \in Nat
  BY <1>1, HoldsIo DEF BkInv, BkTypeOK, IsThread
<1>3. CASE s.n > kMaxSupportedBatchSize
  <2>1. bkThread' = [bkThread EXCEPT ![t].pc = "thrown"] /\ UNCHANGED bkIo
    BY <1>3 DEF BkRecord
  <2>2. bkThread' = [bkThread EXCEPT ![t]
        = Computation("thrown", s.comp, s.io, s.n, s.ip, s.chunk, s.fence, s.res)]
    <3>1. [s EXCEPT !.pc = "thrown"] = Computation("thrown", s.comp, s.io, s.n, s.ip, s.chunk, s.fence, s.res)
      BY <1>2 DEF IsThread, Computation
    <3>2. [s EXCEPT !.pc = "thrown"] = Computation("thrown", s.comp, s.io, s.n, s.ip, s.chunk, s.fence, s.res)
      BY <3>1
    <3>3. bkThread' = [bkThread EXCEPT ![t] = [s EXCEPT !.pc = "thrown"]]
      BY <2>1, <1>2 DEF BkTypeOK
    <3> QED BY <3>2, <3>3
  <2>3. BkMoved(t, "thrown", s.io, s.fence)
    BY <1>2, <2>2, ThreadSet
  <2>4. BkIoKept
    BY <1>2, <2>1, IoUnchanged
  <2> QED BY <1>1, <2>3, <2>4, QuietKeeps
<1>4. CASE ~(s.n > kMaxSupportedBatchSize)
  <2>1. /\ bkThread' = [bkThread EXCEPT ![t].pc = "record", ![t].chunk = 1]
        /\ bkIo' = [bkIo EXCEPT ![s.io].open = @ \/ bkIo[s.io].needs_reset]
    BY <1>4 DEF BkRecord
  <2>2. bkThread' = [bkThread EXCEPT ![t] = Computation("record", s.comp, s.io, s.n, s.ip, 1, s.fence, s.res)]
    <3>1. [s EXCEPT !.pc = "record"] = Computation("record", s.comp, s.io, s.n, s.ip, s.chunk, s.fence, s.res)
      BY <1>2 DEF IsThread, Computation
    <3>2. [Computation("record", s.comp, s.io, s.n, s.ip, s.chunk, s.fence, s.res) EXCEPT !.chunk = 1]
          = Computation("record", s.comp, s.io, s.n, s.ip, 1, s.fence, s.res)
      BY DEF Computation
    <3>3. [s EXCEPT !.pc = "record", !.chunk = 1]
          = Computation("record", s.comp, s.io, s.n, s.ip, 1, s.fence, s.res)
      BY <3>1, <3>2
    <3>4. bkThread' = [bkThread EXCEPT ![t] = [s EXCEPT !.pc = "record", !.chunk = 1]]
      BY <2>1, <1>2 DEF BkTypeOK
    <3> QED BY <3>3, <3>4
  <2>3. BkMoved(t, "record", s.io, s.fence)
    BY <1>2, <2>2, ThreadSet
  <2>4. IsIo(bkIo[s.io])
    BY <1>2 DEF BkTypeOK
  <2>5. bkIo[s.io].open \/ bkIo[s.io].needs_reset
    <3>1. \A u \in DOMAIN bkThread : BkSubmitted(u) => bkThread[u].io # s.io
      BY <1>1, <1>2 DEF BkInv, BkHeldOnce, BkSubmitted
    <3> QED BY <1>2, <3>1 DEF BkInv, BkReopens
  <2>6. bkIo' = [bkIo EXCEPT ![s.io] = Buffers(bkIo[s.io].mem, bkIo[s.io].needs_reset, TRUE)]
    <3>1. [bkIo[s.io] EXCEPT !.open = TRUE] = Buffers(bkIo[s.io].mem, bkIo[s.io].needs_reset, TRUE)
      BY <2>4, OpenSet, Zenon
    <3>2. (bkIo[s.io].open \/ bkIo[s.io].needs_reset) = TRUE
      BY <2>5
    <3>3. bkIo' = [bkIo EXCEPT ![s.io] = [bkIo[s.io] EXCEPT !.open = TRUE]]
      BY <2>1, <3>2
    <3> QED BY <3>1, <3>3
  <2>7. bkIo[s.io].needs_reset \in BOOLEAN
    BY <2>4 DEF IsIo
  <2>8. /\ Len(bkIo') = Len(bkIo) /\ bkIo' = [k \in 1..Len(bkIo') |-> bkIo'[k]]
        /\ \A k \in 1..Len(bkIo') : IsIo(bkIo'[k])
        /\ bkIo'[s.io].open /\ \A k \in 1..Len(bkIo) \ {s.io} : bkIo'[k] = bkIo[k]
    BY <1>2, <2>6, <2>7, IoListSet
  <2>9. BkTypeOK'
    BY <1>1, <1>2, <2>3, <2>8, TypesKept DEF BkTypeOK
  <2>10. BkHeldOnce'
    BY <1>1, <2>3, <2>8, HeldKept
  <2>11. BkListsAwaited'
    BY <1>1, <2>3, AwaitedKept DEF BkInv, BkListsAwaited, BkSubmitted
  <2>12. BkReopens'
    <3>1. /\ DOMAIN bkThread' = DOMAIN bkThread /\ bkThread'[t].pc = "record" /\ bkThread'[t].io = s.io
          /\ \A u \in DOMAIN bkThread \ {t} : bkThread'[u] = bkThread[u]
      BY <2>3 DEF BkMoved
    <3>2. \A u \in DOMAIN bkThread : (BkSubmitted(u)' <=> BkSubmitted(u)) /\ bkThread'[u].io = bkThread[u].io
      BY <1>1, <3>1 DEF BkSubmitted
    <3>3. ASSUME NEW u \in DOMAIN bkThread', bkThread'[u].pc = "record" PROVE bkIo'[bkThread'[u].io].open
      <4>1. CASE u = t
        BY <2>8, <3>1, <4>1
      <4>2. CASE u # t
        <5>1. bkThread'[u] = bkThread[u] /\ bkThread[u].pc = "record" /\ u \in DOMAIN bkThread
          BY <3>1, <3>3, <4>2
        <5>2. bkThread[u].io \in 1..Len(bkIo) /\ bkThread[u].io # s.io
          BY <1>2, <4>2, <5>1, HoldsIo DEF BkInv, BkHeldOnce
        <5> QED BY <2>8, <5>1, <5>2 DEF BkInv, BkReopens
      <4> QED BY <4>1, <4>2
    <3>4. ASSUME NEW i \in 1..Len(bkIo')
          PROVE  \/ bkIo'[i].open \/ bkIo'[i].needs_reset
                 \/ \E u \in DOMAIN bkThread' : BkSubmitted(u)' /\ bkThread'[u].io = i
      BY <2>8, <3>1, <3>2 DEF BkInv, BkReopens
    <3> QED BY <3>3, <3>4 DEF BkReopens
  <2> QED BY <2>9, <2>10, <2>11, <2>12 DEF BkInv
<1> QED BY <1>3, <1>4

\* The queue of the GPU grows at its end.
LEMMA QueueAppended ==
  ASSUME BkTypeOK, NEW q, IsEntry(q), bkQueue' = Append(bkQueue, q)
  PROVE  /\ Len(bkQueue) \in Nat /\ Len(bkQueue') = Len(bkQueue) + 1
         /\ bkQueue' = [i \in 1..Len(bkQueue') |-> bkQueue'[i]] /\ \A i \in 1..Len(bkQueue') : IsEntry(bkQueue'[i])
         /\ bkQueue'[Len(bkQueue) + 1] = q /\ \A i \in 1..Len(bkQueue) : bkQueue'[i] = bkQueue[i]
         /\ \A i \in 1..Len(bkQueue') : i \in 1..Len(bkQueue) \/ i = Len(bkQueue) + 1
<1> DEFINE S == {bkQueue[k] : k \in 1..Len(bkQueue)} \cup {q}
<1>1. bkQueue \in Seq(S) /\ q \in S /\ Len(bkQueue) \in Nat
  BY IsSequence DEF BkTypeOK
<1> HIDE DEF S
<1>2. /\ bkQueue' \in Seq(S) /\ Len(bkQueue') = Len(bkQueue) + 1
      /\ bkQueue'[Len(bkQueue) + 1] = q /\ \A i \in 1..Len(bkQueue) : bkQueue'[i] = bkQueue[i]
  BY <1>1, AppendProperties
<1>3. bkQueue' = [i \in 1..Len(bkQueue') |-> bkQueue'[i]]
  <2>1. bkQueue' \in [1..Len(bkQueue') -> S]
    BY <1>2, LenProperties
  <2> QED BY <2>1
<1>4. \A i \in 1..Len(bkQueue') : i \in 1..Len(bkQueue) \/ i = Len(bkQueue) + 1
  BY <1>1, <1>2
<1> QED BY <1>1, <1>2, <1>3, <1>4 DEF BkTypeOK

\* FlushCL queues the list.
LEMMA ExecuteListKeeps == ASSUME BkInv, NEW t \in DOMAIN bkThread, BkExecuteList(t) PROVE BkInv'
<1> DEFINE s == bkThread[t]
           q == [kind |-> "list", t |-> t, io |-> s.io, n |-> s.n, ip |-> 1]
<1>1. /\ s.pc = "record" /\ UNCHANGED <<bkFree, bkFence, bkDone>>
      /\ bkIo' = [bkIo EXCEPT ![s.io].open = FALSE] /\ bkQueue' = Append(bkQueue, q)
      /\ bkThread' = [bkThread EXCEPT ![t].pc = "signal"]
  BY DEF BkExecuteList
<1>2. BkTypeOK /\ IsThread(s) /\ s.io \in 1..Len(bkIo) /\ s.io \in Nat /\ s.fence \in Nat
  BY <1>1, HoldsIo DEF BkInv, BkTypeOK, IsThread
<1>3. bkThread' = [bkThread EXCEPT ![t]
      = Computation("signal", s.comp, s.io, s.n, s.ip, s.chunk, s.fence, s.res)]
  <2>1. [s EXCEPT !.pc = "signal"] = Computation("signal", s.comp, s.io, s.n, s.ip, s.chunk, s.fence, s.res)
    BY <1>2 DEF IsThread, Computation
  <2>2. [s EXCEPT !.pc = "signal"] = Computation("signal", s.comp, s.io, s.n, s.ip, s.chunk, s.fence, s.res)
    BY <2>1
  <2>3. bkThread' = [bkThread EXCEPT ![t] = [s EXCEPT !.pc = "signal"]]
    BY <1>1, <1>2 DEF BkTypeOK
  <2> QED BY <2>2, <2>3
<1>4. BkMoved(t, "signal", s.io, s.fence)
  BY <1>2, <1>3, ThreadSet
<1>5. IsEntry(q) /\ q.kind = "list" /\ q.t = t /\ q.io = s.io
  BY <1>2 DEF IsEntry
<1> HIDE DEF q
<1>6. /\ Len(bkQueue) \in Nat /\ Len(bkQueue') = Len(bkQueue) + 1
      /\ bkQueue' = [i \in 1..Len(bkQueue') |-> bkQueue'[i]] /\ \A i \in 1..Len(bkQueue') : IsEntry(bkQueue'[i])
      /\ bkQueue'[Len(bkQueue) + 1] = q /\ \A i \in 1..Len(bkQueue) : bkQueue'[i] = bkQueue[i]
      /\ \A i \in 1..Len(bkQueue') : i \in 1..Len(bkQueue) \/ i = Len(bkQueue) + 1
  BY <1>1, <1>2, <1>5, QueueAppended
<1>7. IsIo(bkIo[s.io]) /\ bkIo[s.io].needs_reset \in BOOLEAN
  BY <1>2 DEF BkTypeOK, IsIo
<1>8. bkIo' = [bkIo EXCEPT ![s.io] = Buffers(bkIo[s.io].mem, bkIo[s.io].needs_reset, FALSE)]
  <2>1. [bkIo[s.io] EXCEPT !.open = FALSE] = Buffers(bkIo[s.io].mem, bkIo[s.io].needs_reset, FALSE)
    BY <1>7, OpenSet, Zenon
  <2> QED BY <1>1, <2>1
<1>9. /\ Len(bkIo') = Len(bkIo) /\ bkIo' = [k \in 1..Len(bkIo') |-> bkIo'[k]]
      /\ \A k \in 1..Len(bkIo') : IsIo(bkIo'[k])
      /\ \A k \in 1..Len(bkIo) \ {s.io} : bkIo'[k] = bkIo[k]
  BY <1>2, <1>7, <1>8, IoListSet
<1>10. BkTypeOK'
  <2>1. bkFree' \in Seq(Nat) /\ bkFence' \in Nat /\ bkDone' \in Nat /\ Len(bkQueue') \in Nat
    BY <1>1, <1>2, <1>6 DEF BkTypeOK
  <2> QED BY <1>2, <1>4, <1>6, <1>9, <2>1, TypesKept
<1>11. BkHeldOnce'
  BY <1>1, <1>4, <1>9, HeldKept
<1>12. /\ DOMAIN bkThread' = DOMAIN bkThread /\ bkThread'[t].pc = "signal" /\ bkThread'[t].io = s.io
       /\ \A u \in DOMAIN bkThread \ {t} : bkThread'[u] = bkThread[u]
  BY <1>4 DEF BkMoved
<1>13. \A u \in DOMAIN bkThread : BkSubmitted(u)' <=> BkSubmitted(u) \/ u = t
  BY <1>12 DEF BkSubmitted
<1>14. BkListsAwaited'
  <2>1. \A i \in 1..Len(bkQueue) : bkQueue[i].kind = "list" => bkQueue[i].t # t
    BY <1>1 DEF BkInv, BkListsAwaited, BkSubmitted
  <2>2. ASSUME NEW i \in 1..Len(bkQueue'), bkQueue'[i].kind = "list"
        PROVE  /\ bkQueue'[i].t \in DOMAIN bkThread' /\ bkThread'[bkQueue'[i].t].pc \in {"signal", "wait"}
               /\ bkQueue'[i].io = bkThread'[bkQueue'[i].t].io
               /\ bkThread'[bkQueue'[i].t].pc = "wait" =>
                    \E j \in 1..Len(bkQueue') : i < j /\ bkQueue'[j].kind = "signal"
                                         /\ bkQueue'[j].fence = bkThread'[bkQueue'[i].t].fence
    <3>1. CASE i = Len(bkQueue) + 1
      <4>1. bkQueue'[i].t = t /\ bkQueue'[i].io = s.io
        BY <1>5, <1>6, <3>1
      <4> QED BY <1>12, <4>1
    <3>2. CASE i \in 1..Len(bkQueue)
      <4>1. PICK u \in DOMAIN bkThread : /\ u = bkQueue[i].t /\ u # t /\ bkQueue'[i] = bkQueue[i] /\ BkSubmitted(u)
                                         /\ bkQueue[i].io = bkThread[u].io /\ bkThread'[u] = bkThread[u]
        BY <1>6, <1>12, <2>1, <2>2, <3>2 DEF BkInv, BkListsAwaited
      <4>2. ASSUME bkThread[u].pc = "wait"
            PROVE  \E j \in 1..Len(bkQueue') : i < j /\ bkQueue'[j].kind = "signal" /\ bkQueue'[j].fence = bkThread[u].fence
        <5>1. PICK j \in 1..Len(bkQueue) : i < j /\ bkQueue[j].kind = "signal" /\ bkQueue[j].fence = bkThread[u].fence
          BY <1>6, <2>2, <3>2, <4>1, <4>2 DEF BkInv, BkListsAwaited
        <5> QED BY <1>6, <5>1
      <4>3. bkThread[u].pc \in {"signal", "wait"}
        BY <4>1 DEF BkSubmitted
      <4>4. bkQueue'[i].t = u /\ bkQueue'[i].io = bkThread[u].io
        BY <4>1
      <4> QED BY <1>12, <4>1, <4>2, <4>3, <4>4
    <3> QED BY <1>6, <3>1, <3>2
  <2>3. \A i \in 1..Len(bkQueue') : bkQueue'[i].kind = "signal" =>
          i \in 1..Len(bkQueue) /\ bkQueue'[i] = bkQueue[i] /\ bkQueue[i].kind = "signal"
    BY <1>5, <1>6
  <2>4. \A i \in 1..Len(bkQueue') : bkQueue'[i].kind = "signal" =>
          bkDone' < bkQueue'[i].fence /\ bkQueue'[i].fence <= bkFence'
    BY <1>1, <2>3 DEF BkInv, BkListsAwaited
  <2>5. \A i, j \in 1..Len(bkQueue') : i < j /\ bkQueue'[i].kind = "signal" /\ bkQueue'[j].kind = "signal" =>
          bkQueue'[i].fence < bkQueue'[j].fence
    BY <2>3 DEF BkInv, BkListsAwaited
  <2>6. bkDone' <= bkFence'
    BY <1>1 DEF BkInv, BkListsAwaited
  <2> QED BY <2>2, <2>4, <2>5, <2>6 DEF BkListsAwaited, BkSubmitted
<1>15. BkReopens'
  <2>1. ASSUME NEW i \in 1..Len(bkIo')
        PROVE  \/ bkIo'[i].open \/ bkIo'[i].needs_reset
               \/ \E u \in DOMAIN bkThread' : BkSubmitted(u)' /\ bkThread'[u].io = i
    <3>1. CASE i = s.io
      BY <1>12, <1>13, <3>1
    <3>2. CASE i # s.io
      <4>1. i \in 1..Len(bkIo) /\ bkIo'[i] = bkIo[i]
        BY <1>9, <3>2
      <4>2. \A u \in DOMAIN bkThread : BkSubmitted(u) => BkSubmitted(u)' /\ bkThread'[u].io = bkThread[u].io
        BY <1>12, <1>13
      <4> QED BY <1>12, <4>1, <4>2 DEF BkInv, BkReopens
    <3> QED BY <3>1, <3>2
  <2>2. ASSUME NEW u \in DOMAIN bkThread', bkThread'[u].pc = "record" PROVE bkIo'[bkThread'[u].io].open
    <3>1. u # t /\ bkThread'[u] = bkThread[u] /\ u \in DOMAIN bkThread
      BY <1>12, <2>2
    <3>2. bkThread[u].io \in 1..Len(bkIo) /\ bkThread[u].io # s.io
      BY <1>2, <2>2, <3>1, HoldsIo DEF BkInv, BkHeldOnce
    <3> QED BY <1>9, <2>2, <3>1, <3>2 DEF BkInv, BkReopens
  <2> QED BY <2>1, <2>2 DEF BkReopens
<1> QED BY <1>10, <1>11, <1>14, <1>15 DEF BkInv

\* The signal comes behind the list the thread has queued.
LEMMA SignalKeeps == ASSUME BkInv, NEW t \in DOMAIN bkThread, BkSignal(t) PROVE BkInv'
<1> DEFINE s == bkThread[t]
           q == [kind |-> "signal", fence |-> bkFence + 1]
<1>1. /\ s.pc = "signal" /\ UNCHANGED <<bkIo, bkFree, bkDone>>
      /\ bkFence' = bkFence + 1 /\ bkQueue' = Append(bkQueue, q)
      /\ bkThread' = [bkThread EXCEPT ![t].pc = "wait", ![t].fence = bkFence + 1]
  BY DEF BkSignal
<1>2. BkTypeOK /\ IsThread(s) /\ s.io \in 1..Len(bkIo) /\ s.io \in Nat /\ bkFence \in Nat /\ bkFence + 1 \in Nat
  BY <1>1, HoldsIo DEF BkInv, BkTypeOK, IsThread
<1>3. bkThread' = [bkThread EXCEPT ![t]
      = Computation("wait", s.comp, s.io, s.n, s.ip, s.chunk, (bkFence + 1), s.res)]
  <2>1. [s EXCEPT !.pc = "wait"] = Computation("wait", s.comp, s.io, s.n, s.ip, s.chunk, s.fence, s.res)
    BY <1>2 DEF IsThread, Computation
  <2>2. [Computation("wait", s.comp, s.io, s.n, s.ip, s.chunk, s.fence, s.res) EXCEPT !.fence = (bkFence + 1)]
        = Computation("wait", s.comp, s.io, s.n, s.ip, s.chunk, (bkFence + 1), s.res)
    BY DEF Computation
  <2>3. [s EXCEPT !.pc = "wait", !.fence = (bkFence + 1)]
        = Computation("wait", s.comp, s.io, s.n, s.ip, s.chunk, (bkFence + 1), s.res)
    BY <2>1, <2>2
  <2>4. bkThread' = [bkThread EXCEPT ![t] = [s EXCEPT !.pc = "wait", !.fence = (bkFence + 1)]]
    BY <1>1, <1>2 DEF BkTypeOK
  <2> QED BY <2>3, <2>4
<1>4. BkMoved(t, "wait", s.io, bkFence + 1)
  BY <1>2, <1>3, ThreadSet
<1>5. IsEntry(q) /\ q.kind = "signal" /\ q.fence = bkFence + 1
  BY <1>2 DEF IsEntry
<1> HIDE DEF q
<1>6. /\ Len(bkQueue) \in Nat /\ Len(bkQueue') = Len(bkQueue) + 1
      /\ bkQueue' = [i \in 1..Len(bkQueue') |-> bkQueue'[i]] /\ \A i \in 1..Len(bkQueue') : IsEntry(bkQueue'[i])
      /\ bkQueue'[Len(bkQueue) + 1] = q /\ \A i \in 1..Len(bkQueue) : bkQueue'[i] = bkQueue[i]
      /\ \A i \in 1..Len(bkQueue') : i \in 1..Len(bkQueue) \/ i = Len(bkQueue) + 1
  BY <1>1, <1>2, <1>5, QueueAppended
<1>7. BkTypeOK'
  <2>1. /\ bkFree' \in Seq(Nat) /\ bkFence' \in Nat /\ bkDone' \in Nat /\ Len(bkQueue') \in Nat
        /\ Len(bkIo') = Len(bkIo) /\ bkIo' = [k \in 1..Len(bkIo') |-> bkIo'[k]]
        /\ \A k \in 1..Len(bkIo') : IsIo(bkIo'[k])
    BY <1>1, <1>2, <1>6 DEF BkTypeOK
  <2> QED BY <1>2, <1>4, <1>6, <2>1, TypesKept
<1>8. BkHeldOnce'
  BY <1>1, <1>4, HeldKept
<1>9. /\ DOMAIN bkThread' = DOMAIN bkThread /\ bkThread'[t].pc = "wait" /\ bkThread'[t].io = s.io
      /\ bkThread'[t].fence = bkFence + 1 /\ \A u \in DOMAIN bkThread \ {t} : bkThread'[u] = bkThread[u]
  BY <1>4 DEF BkMoved
<1>10. \A u \in DOMAIN bkThread : (BkSubmitted(u)' <=> BkSubmitted(u)) /\ bkThread'[u].io = bkThread[u].io
  BY <1>1, <1>9 DEF BkSubmitted
<1>11. BkListsAwaited'
  <2>1. ASSUME NEW i \in 1..Len(bkQueue'), bkQueue'[i].kind = "list"
        PROVE  /\ bkQueue'[i].t \in DOMAIN bkThread' /\ bkThread'[bkQueue'[i].t].pc \in {"signal", "wait"}
               /\ bkQueue'[i].io = bkThread'[bkQueue'[i].t].io
               /\ bkThread'[bkQueue'[i].t].pc = "wait" =>
                    \E j \in 1..Len(bkQueue') : i < j /\ bkQueue'[j].kind = "signal"
                                         /\ bkQueue'[j].fence = bkThread'[bkQueue'[i].t].fence
    <3>1. i \in 1..Len(bkQueue) /\ bkQueue'[i] = bkQueue[i] /\ i < Len(bkQueue) + 1
      BY <1>5, <1>6, <2>1
    <3>2. PICK u \in DOMAIN bkThread : u = bkQueue[i].t /\ BkSubmitted(u) /\ bkQueue[i].io = bkThread[u].io
      BY <2>1, <3>1 DEF BkInv, BkListsAwaited
    <3>3. ASSUME bkThread'[u].pc = "wait"
          PROVE  \E j \in 1..Len(bkQueue') : i < j /\ bkQueue'[j].kind = "signal" /\ bkQueue'[j].fence = bkThread'[u].fence
      <4>1. CASE u = t
        BY <1>5, <1>6, <1>9, <3>1, <4>1
      <4>2. CASE u # t
        <5>1. PICK j \in 1..Len(bkQueue) : i < j /\ bkQueue[j].kind = "signal" /\ bkQueue[j].fence = bkThread[u].fence
          BY <1>9, <2>1, <3>1, <3>2, <3>3, <4>2 DEF BkInv, BkListsAwaited
        <5> QED BY <1>6, <1>9, <4>2, <5>1
      <4> QED BY <4>1, <4>2
    <3>4. bkThread'[u].pc \in {"signal", "wait"} /\ bkThread'[u].io = bkThread[u].io
      BY <1>10, <3>2 DEF BkSubmitted
    <3>5. bkQueue'[i].t = u /\ bkQueue'[i].io = bkThread[u].io
      BY <3>1, <3>2
    <3> QED BY <1>9, <3>2, <3>3, <3>4, <3>5
  <2>2. \A i \in 1..Len(bkQueue') : bkQueue'[i].kind = "signal" =>
          \/ i \in 1..Len(bkQueue) /\ bkQueue'[i] = bkQueue[i] /\ bkQueue[i].kind = "signal"
          \/ i = Len(bkQueue) + 1 /\ bkQueue'[i].fence = bkFence + 1
    BY <1>5, <1>6
  <2>3. bkDone \in Nat /\ bkDone <= bkFence
    BY DEF BkInv, BkTypeOK, BkListsAwaited
  <2>4. \A i \in 1..Len(bkQueue) : bkQueue[i].kind = "signal" =>
          bkQueue[i].fence \in Nat /\ bkDone < bkQueue[i].fence /\ bkQueue[i].fence <= bkFence
    BY DEF BkInv, BkTypeOK, BkListsAwaited, IsEntry
  <2>5. \A i \in 1..Len(bkQueue') : bkQueue'[i].kind = "signal" =>
          bkDone' < bkQueue'[i].fence /\ bkQueue'[i].fence <= bkFence'
    BY <1>1, <1>2, <2>2, <2>3, <2>4
  <2>6. ASSUME NEW i \in 1..Len(bkQueue'), NEW j \in 1..Len(bkQueue'), i < j,
               bkQueue'[i].kind = "signal", bkQueue'[j].kind = "signal"
        PROVE  bkQueue'[i].fence < bkQueue'[j].fence
    <3>1. i \in 1..Len(bkQueue) /\ bkQueue'[i] = bkQueue[i] /\ bkQueue[i].kind = "signal"
      BY <1>6, <2>2, <2>6
    <3>2. CASE j = Len(bkQueue) + 1
      BY <1>2, <2>2, <2>4, <2>6, <3>1, <3>2
    <3>3. CASE j \in 1..Len(bkQueue)
      BY <1>6, <2>6, <3>1, <3>3 DEF BkInv, BkListsAwaited
    <3> QED BY <1>6, <3>2, <3>3
  <2>7. bkDone' <= bkFence'
    BY <1>1, <1>2, <2>3
  <2> QED BY <2>1, <2>5, <2>6, <2>7 DEF BkListsAwaited, BkSubmitted
<1>12. BkReopens'
  <2>1. \A u \in DOMAIN bkThread : bkThread'[u].pc = "record" => bkThread[u].pc = "record"
    BY <1>9
  <2> QED BY <1>1, <1>9, <1>10, <2>1 DEF BkInv, BkReopens
<1> QED BY <1>7, <1>8, <1>11, <1>12 DEF BkInv

\* When the fence has passed, nothing of the thread is left in the queue.
LEMMA WaitForGpuKeeps == ASSUME BkInv, NEW t \in DOMAIN bkThread, BkWaitForGpu(t) PROVE BkInv'
<1> DEFINE s == bkThread[t]
<1>1. /\ s.pc = "wait" /\ bkDone >= s.fence /\ UNCHANGED <<bkFree, bkQueue, bkFence, bkDone>>
      /\ bkIo' = [bkIo EXCEPT ![s.io].needs_reset = TRUE]
      /\ bkThread' = [bkThread EXCEPT ![t].pc = "post", ![t].ip = 1]
  BY DEF BkWaitForGpu
<1>2. BkTypeOK /\ IsThread(s) /\ s.io \in 1..Len(bkIo) /\ s.io \in Nat /\ s.fence \in Nat
  BY <1>1, HoldsIo DEF BkInv, BkTypeOK, IsThread
<1>3. bkThread' = [bkThread EXCEPT ![t] = Computation("post", s.comp, s.io, s.n, 1, s.chunk, s.fence, s.res)]
  <2>1. [s EXCEPT !.pc = "post"] = Computation("post", s.comp, s.io, s.n, s.ip, s.chunk, s.fence, s.res)
    BY <1>2 DEF IsThread, Computation
  <2>2. [Computation("post", s.comp, s.io, s.n, s.ip, s.chunk, s.fence, s.res) EXCEPT !.ip = 1]
        = Computation("post", s.comp, s.io, s.n, 1, s.chunk, s.fence, s.res)
    BY DEF Computation
  <2>3. [s EXCEPT !.pc = "post", !.ip = 1] = Computation("post", s.comp, s.io, s.n, 1, s.chunk, s.fence, s.res)
    BY <2>1, <2>2
  <2>4. bkThread' = [bkThread EXCEPT ![t] = [s EXCEPT !.pc = "post", !.ip = 1]]
    BY <1>1, <1>2 DEF BkTypeOK
  <2> QED BY <2>3, <2>4
<1>4. BkMoved(t, "post", s.io, s.fence)
  BY <1>2, <1>3, ThreadSet
<1>5. IsIo(bkIo[s.io]) /\ bkIo[s.io].open \in BOOLEAN
  BY <1>2 DEF BkTypeOK, IsIo
<1>6. bkIo' = [bkIo EXCEPT ![s.io] = Buffers(bkIo[s.io].mem, TRUE, bkIo[s.io].open)]
  <2>1. [bkIo[s.io] EXCEPT !.needs_reset = TRUE] = Buffers(bkIo[s.io].mem, TRUE, bkIo[s.io].open)
    BY <1>5, ResetSet, Zenon
  <2> QED BY <1>1, <2>1
<1>7. /\ Len(bkIo') = Len(bkIo) /\ bkIo' = [k \in 1..Len(bkIo') |-> bkIo'[k]]
      /\ \A k \in 1..Len(bkIo') : IsIo(bkIo'[k]) 
      /\ bkIo'[s.io].needs_reset /\ \A k \in 1..Len(bkIo) \ {s.io} : bkIo'[k] = bkIo[k]
  BY <1>2, <1>5, <1>6, IoListSet
<1>8. BkTypeOK'
  BY <1>1, <1>2, <1>4, <1>7, TypesKept DEF BkTypeOK
<1>9. BkHeldOnce'
  BY <1>1, <1>4, <1>7, HeldKept
<1>10. BkListsAwaited'
  <2>1. ASSUME NEW i \in 1..Len(bkQueue), bkQueue[i].kind = "list", bkQueue[i].t = t PROVE FALSE
    <3>1. PICK j \in 1..Len(bkQueue) : bkQueue[j].kind = "signal" /\ bkQueue[j].fence = s.fence
      BY <1>1, <2>1 DEF BkInv, BkListsAwaited
    <3>2. bkDone < s.fence /\ bkDone \in Nat
      BY <3>1 DEF BkInv, BkListsAwaited, BkTypeOK
    <3> QED BY <1>1, <1>2, <3>2
  <2> QED BY <1>1, <1>4, <2>1, AwaitedKept
<1>11. /\ DOMAIN bkThread' = DOMAIN bkThread /\ bkThread'[t].pc = "post" /\ bkThread'[t].io = s.io
       /\ \A u \in DOMAIN bkThread \ {t} : bkThread'[u] = bkThread[u]
  BY <1>4 DEF BkMoved
<1>12. \A u \in DOMAIN bkThread \ {t} : BkSubmitted(u)' <=> BkSubmitted(u)
  BY <1>11 DEF BkSubmitted
<1>13. BkReopens'
  <2>1. ASSUME NEW i \in 1..Len(bkIo')
        PROVE  \/ bkIo'[i].open \/ bkIo'[i].needs_reset
               \/ \E u \in DOMAIN bkThread' : BkSubmitted(u)' /\ bkThread'[u].io = i
    <3>1. CASE i = s.io
      BY <1>7, <3>1
    <3>2. CASE i # s.io
      <4>1. i \in 1..Len(bkIo) /\ bkIo'[i] = bkIo[i]
        BY <1>7, <3>2
      <4> QED BY <1>11, <1>12, <3>2, <4>1 DEF BkInv, BkReopens
    <3> QED BY <3>1, <3>2
  <2>2. ASSUME NEW u \in DOMAIN bkThread', bkThread'[u].pc = "record" PROVE bkIo'[bkThread'[u].io].open
    <3>1. u # t /\ bkThread'[u] = bkThread[u] /\ u \in DOMAIN bkThread
      BY <1>11, <2>2
    <3>2. bkThread[u].io \in 1..Len(bkIo) /\ bkThread[u].io # s.io
      BY <1>2, <2>2, <3>1, HoldsIo DEF BkInv, BkHeldOnce
    <3> QED BY <1>7, <2>2, <3>1, <3>2 DEF BkInv, BkReopens
  <2> QED BY <2>1, <2>2 DEF BkReopens
<1> QED BY <1>8, <1>9, <1>10, <1>13 DEF BkInv

\* The destructor puts the buffers back: nobody holds them any more.
LEMMA DestroyKeeps == ASSUME BkInv, NEW t \in DOMAIN bkThread, BkDestroy(t) PROVE BkInv'
<1> DEFINE s == bkThread[t]
<1>1. /\ s.pc \in {"read", "thrown"} /\ UNCHANGED <<bkIo, bkQueue, bkFence, bkDone>>
      /\ bkFree' = (IF BkPooled(bkCase) THEN Append(bkFree, s.io) ELSE bkFree)
      /\ bkThread' = [bkThread EXCEPT ![t] = [BkIdle EXCEPT !.comp = s.comp]]
  BY DEF BkDestroy
<1>2. BkTypeOK /\ IsThread(s) /\ s.io \in 1..Len(bkIo) /\ s.io \in Nat
  BY <1>1, HoldsIo DEF BkInv, BkTypeOK, IsThread
<1>3. BkMoved(t, "idle", 0, 0)
  <2> DEFINE res == [h \in {} |-> <<>>]
             comp == s.comp
  <2>1. BkIdle = Computation("idle", 0, 0, 0, 1, 0, 0, res)
    BY DEF BkIdle, Computation
  <2> HIDE DEF res, comp
  <2>2. [Computation("idle", 0, 0, 0, 1, 0, 0, res) EXCEPT !.comp = comp]
        = Computation("idle", comp, 0, 0, 1, 0, 0, res)
    BY DEF Computation
  <2>3. bkThread' = [bkThread EXCEPT ![t] = Computation("idle", comp, 0, 0, 1, 0, 0, res)]
    BY <1>1, <2>1, <2>2 DEF comp
  <2> QED BY <1>2, <2>3, ThreadSet
<1>4. /\ DOMAIN bkThread' = DOMAIN bkThread /\ bkThread'[t].pc = "idle" /\ bkThread'[t].io = 0
      /\ \A u \in DOMAIN bkThread \ {t} : bkThread'[u] = bkThread[u]
  BY <1>3 DEF BkMoved
<1>5. /\ bkFree \in Seq(Nat) /\ Len(bkFree) \in Nat /\ Len(bkIo) \in Nat
      /\ \A i \in 1..Len(bkFree) : bkFree[i] \in 1..Len(bkIo) /\ bkFree[i] # s.io
  BY <1>2 DEF BkInv, BkHeldOnce, BkTypeOK
<1>6. /\ bkFree' \in Seq(Nat) /\ Len(bkFree') \in Nat /\ Len(bkFree) <= Len(bkFree')
      /\ \A i \in 1..Len(bkFree) : bkFree'[i] = bkFree[i]
      /\ \A i \in 1..Len(bkFree') : i \in 1..Len(bkFree) \/ (i = Len(bkFree) + 1 /\ bkFree'[i] = s.io)
  <2>1. CASE BkPooled(bkCase)
    <3>1. bkFree' = Append(bkFree, s.io)
      BY <1>1, <2>1
    <3>2. /\ bkFree' \in Seq(Nat) /\ Len(bkFree') = Len(bkFree) + 1
          /\ bkFree'[Len(bkFree) + 1] = s.io /\ \A i \in 1..Len(bkFree) : bkFree'[i] = bkFree[i]
      BY <1>2, <1>5, <3>1, AppendProperties
    <3> QED BY <1>5, <3>2
  <2>2. CASE ~BkPooled(bkCase)
    BY <1>1, <1>5, <2>2
  <2> QED BY <2>1, <2>2
<1>7. BkTypeOK'
  <2>1. /\ bkFence' \in Nat /\ bkDone' \in Nat /\ Len(bkQueue') \in Nat
        /\ Len(bkIo') = Len(bkIo) /\ bkIo' = [k \in 1..Len(bkIo') |-> bkIo'[k]]
        /\ \A k \in 1..Len(bkIo') : IsIo(bkIo'[k])
        /\ bkQueue' = [i \in 1..Len(bkQueue') |-> bkQueue'[i]] /\ \A i \in 1..Len(bkQueue') : IsEntry(bkQueue'[i])
    BY <1>1, <1>2 DEF BkTypeOK
  <2> QED BY <1>2, <1>3, <1>6, <2>1, TypesKept
<1>8. BkHeldOnce'
  <2>1. \A u \in DOMAIN bkThread : bkThread[u].io \in Nat /\ (u # t => bkThread[u].io # s.io)
    BY <1>2 DEF BkInv, BkHeldOnce, BkTypeOK, IsThread
  <2>2. \A u \in DOMAIN bkThread' : /\ bkThread'[u].io <= Len(bkIo') /\ (bkThread'[u].pc = "idle" <=> bkThread'[u].io = 0)
    <3>1. Len(bkIo') = Len(bkIo) /\ 0 <= Len(bkIo)
      BY <1>1, <1>5
    <3>2. \A u \in DOMAIN bkThread : /\ bkThread[u].io <= Len(bkIo) /\ (bkThread[u].pc = "idle" <=> bkThread[u].io = 0)
      BY DEF BkInv, BkHeldOnce
    <3> QED BY <1>4, <3>1, <3>2
  <2>3. \A i \in 1..Len(bkFree') : bkFree'[i] \in 1..Len(bkIo')
    BY <1>1, <1>2, <1>5, <1>6
  <2>4. ASSUME NEW u \in DOMAIN bkThread', NEW i \in 1..Len(bkFree') PROVE bkFree'[i] # bkThread'[u].io
    <3>1. CASE u = t
      BY <1>4, <2>3, <3>1
    <3>2. CASE u # t
      <4>1. u \in DOMAIN bkThread /\ bkThread'[u] = bkThread[u]
        BY <1>4, <3>2
      <4>2. CASE i \in 1..Len(bkFree)
        BY <1>6, <4>1, <4>2 DEF BkInv, BkHeldOnce
      <4>3. CASE bkFree'[i] = s.io
        BY <2>1, <3>2, <4>1, <4>3
      <4> QED BY <1>6, <4>2, <4>3
    <3> QED BY <3>1, <3>2
  <2>5. \A u, v \in DOMAIN bkThread' : bkThread'[u].io = bkThread'[v].io /\ bkThread'[u].io # 0 => u = v
    BY <1>4 DEF BkInv, BkHeldOnce
  <2>6. ASSUME NEW i \in 1..Len(bkFree'), NEW j \in 1..Len(bkFree'), bkFree'[i] = bkFree'[j] PROVE i = j
    <3>1. CASE i \in 1..Len(bkFree) /\ j \in 1..Len(bkFree)
      BY <1>6, <2>6, <3>1 DEF BkInv, BkHeldOnce
    <3>2. CASE i = Len(bkFree) + 1 /\ j = Len(bkFree) + 1
      BY <3>2
    <3>3. CASE i = Len(bkFree) + 1 /\ bkFree'[i] = s.io /\ j \in 1..Len(bkFree)
      BY <1>5, <1>6, <2>6, <3>3
    <3>4. CASE j = Len(bkFree) + 1 /\ bkFree'[j] = s.io /\ i \in 1..Len(bkFree)
      BY <1>5, <1>6, <2>6, <3>4
    <3> QED BY <1>6, <3>1, <3>2, <3>3, <3>4
  <2> QED BY <2>2, <2>3, <2>4, <2>5, <2>6 DEF BkHeldOnce
<1>9. BkListsAwaited'
  BY <1>1, <1>3, AwaitedKept DEF BkInv, BkListsAwaited, BkSubmitted
<1>10. BkReopens'
  <2>1. \A u \in DOMAIN bkThread : BkSubmitted(u) => BkSubmitted(u)' /\ bkThread'[u].io = bkThread[u].io
    BY <1>1, <1>4 DEF BkSubmitted
  <2>2. \A u \in DOMAIN bkThread : bkThread'[u].pc = "record" => bkThread[u].pc = "record" /\ bkThread'[u].io = bkThread[u].io
    BY <1>4
  <2> QED BY <1>1, <1>4, <2>1, <2>2 DEF BkInv, BkReopens
<1> QED BY <1>7, <1>8, <1>9, <1>10 DEF BkInv

\* A step of the GPU: the threads stay where they are and the lists as they were.
LEMMA GpuKeepsRest ==
  ASSUME BkInv, BkIoKept, UNCHANGED <<bkFree, bkFence, bkThread>>, bkDone' \in Nat,
         Len(bkQueue') \in Nat, bkQueue' = [i \in 1..Len(bkQueue') |-> bkQueue'[i]],
         \A i \in 1..Len(bkQueue') : IsEntry(bkQueue'[i])
  PROVE  BkTypeOK' /\ BkHeldOnce' /\ BkReopens'
<1>1. BkTypeOK /\ bkThread' = bkThread /\ bkFree' = bkFree /\ bkFence' = bkFence
  BY DEF BkInv
<1>2. /\ Len(bkIo') = Len(bkIo) /\ bkIo' = [i \in 1..Len(bkIo') |-> bkIo'[i]]
      /\ \A i \in 1..Len(bkIo) :
           IsIo(bkIo'[i]) /\ bkIo'[i].open = bkIo[i].open /\ bkIo'[i].needs_reset = bkIo[i].needs_reset
  BY DEF BkIoKept
<1>3. BkTypeOK'
  BY <1>1, <1>2 DEF BkTypeOK
<1>4. BkHeldOnce'
  BY <1>1, <1>2 DEF BkInv, BkHeldOnce
<1>5. BkReopens'
  <2>1. \A u \in DOMAIN bkThread : bkThread[u].pc = "record" => bkThread[u].io \in 1..Len(bkIo)
    BY HoldsIo
  <2> QED BY <1>1, <1>2, <2>1 DEF BkInv, BkReopens, BkSubmitted
<1> QED BY <1>3, <1>4, <1>5

\* The queue without its first entry.
LEMMA QueueShifted ==
  ASSUME BkTypeOK, bkQueue # << >>, bkQueue' = Tail(bkQueue)
  PROVE  /\ Len(bkQueue) \in Nat /\ Len(bkQueue) # 0 /\ Len(bkQueue') = Len(bkQueue) - 1 /\ Len(bkQueue') \in Nat
         /\ bkQueue' = [i \in 1..Len(bkQueue') |-> bkQueue'[i]]
         /\ \A i \in 1..Len(bkQueue') : /\ i + 1 \in 1..Len(bkQueue) /\ bkQueue'[i] = bkQueue[i + 1]
                                        /\ IsEntry(bkQueue'[i])
<1> DEFINE S == {bkQueue[k] : k \in 1..Len(bkQueue)}
<1>1. bkQueue \in Seq(S) /\ Len(bkQueue) \in Nat
  BY IsSequence DEF BkTypeOK
<1> HIDE DEF S
<1>2. Len(bkQueue) # 0
  BY <1>1, EmptySeq
<1>3. /\ bkQueue' \in Seq(S) /\ Len(bkQueue') = Len(bkQueue) - 1
      /\ \A i \in 1..Len(bkQueue') : bkQueue'[i] = bkQueue[i + 1]
  BY <1>1, <1>2, HeadTailProperties
<1>4. bkQueue' = [i \in 1..Len(bkQueue') |-> bkQueue'[i]]
  <2>1. bkQueue' \in [1..Len(bkQueue') -> S]
    BY <1>3, LenProperties
  <2> QED BY <2>1
<1>5. \A i \in 1..Len(bkQueue') : i + 1 \in 1..Len(bkQueue)
  BY <1>1, <1>2, <1>3
<1> QED BY <1>1, <1>2, <1>3, <1>4, <1>5 DEF BkTypeOK

\* The GPU leaves the first entry of the queue: a signal passes its fence.
LEMMA LeaveKeeps ==
  ASSUME BkInv, bkQueue # << >>, bkQueue' = Tail(bkQueue), UNCHANGED <<bkIo, bkFree, bkFence, bkThread>>,
         bkDone' = IF bkQueue[1].kind = "signal" THEN bkQueue[1].fence ELSE bkDone
  PROVE  BkInv'
<1>1. BkTypeOK /\ BkListsAwaited
  BY DEF BkInv
<1>2. /\ Len(bkQueue) \in Nat /\ Len(bkQueue) # 0 /\ Len(bkQueue') = Len(bkQueue) - 1 /\ Len(bkQueue') \in Nat
      /\ bkQueue' = [i \in 1..Len(bkQueue') |-> bkQueue'[i]]
      /\ \A i \in 1..Len(bkQueue') : /\ i + 1 \in 1..Len(bkQueue) /\ bkQueue'[i] = bkQueue[i + 1]
                                     /\ IsEntry(bkQueue'[i])
  BY <1>1, QueueShifted
<1>3. 1 \in 1..Len(bkQueue) /\ IsEntry(bkQueue[1])
  BY <1>1, <1>2 DEF BkTypeOK
<1>4. bkDone' \in Nat /\ bkDone \in Nat /\ bkFence \in Nat
  <2>1. bkDone \in Nat /\ bkFence \in Nat
    BY <1>1 DEF BkTypeOK
  <2>2. bkQueue[1].kind = "signal" => bkQueue[1].fence \in Nat
    BY <1>3 DEF IsEntry
  <2> QED BY <2>1, <2>2
<1>5. BkTypeOK' /\ BkHeldOnce' /\ BkReopens'
  <2>1. BkIoKept
    BY <1>1, IoUnchanged
  <2> QED BY <1>2, <1>4, <2>1, GpuKeepsRest
<1>6. BkListsAwaited'
  <2>1. ASSUME NEW i \in 1..Len(bkQueue'), bkQueue'[i].kind = "list"
        PROVE  /\ bkQueue'[i].t \in DOMAIN bkThread' /\ bkThread'[bkQueue'[i].t].pc \in {"signal", "wait"}
               /\ bkQueue'[i].io = bkThread'[bkQueue'[i].t].io
               /\ bkThread'[bkQueue'[i].t].pc = "wait" =>
                    \E j \in 1..Len(bkQueue') : i < j /\ bkQueue'[j].kind = "signal"
                                         /\ bkQueue'[j].fence = bkThread'[bkQueue'[i].t].fence
    <3>1. i + 1 \in 1..Len(bkQueue) /\ bkQueue'[i] = bkQueue[i + 1] /\ bkQueue[i + 1].kind = "list" /\ i \in Nat
      BY <1>2, <2>1
    <3>2. PICK u \in DOMAIN bkThread : /\ u = bkQueue[i + 1].t /\ bkThread[u].pc \in {"signal", "wait"}
                                       /\ bkQueue[i + 1].io = bkThread[u].io
      BY <1>1, <3>1 DEF BkListsAwaited, BkSubmitted
    <3>3. ASSUME bkThread[u].pc = "wait"
          PROVE  \E j \in 1..Len(bkQueue') : i < j /\ bkQueue'[j].kind = "signal" /\ bkQueue'[j].fence = bkThread[u].fence
      <4>1. PICK j \in 1..Len(bkQueue) : i + 1 < j /\ bkQueue[j].kind = "signal" /\ bkQueue[j].fence = bkThread[u].fence
        BY <1>1, <3>1, <3>2, <3>3 DEF BkListsAwaited
      <4>2. j - 1 \in 1..Len(bkQueue') /\ i < j - 1 /\ (j - 1) + 1 = j
        BY <1>2, <3>1, <4>1
      <4>3. bkQueue'[j - 1] = bkQueue[j]
        BY <1>2, <4>2
      <4> QED BY <4>1, <4>2, <4>3
    <3>4. bkQueue'[i].t = u /\ bkQueue'[i].io = bkThread[u].io /\ bkThread' = bkThread
      BY <3>1, <3>2
    <3> QED BY <3>2, <3>3, <3>4
  <2>2. ASSUME NEW i \in 1..Len(bkQueue'), bkQueue'[i].kind = "signal"
        PROVE  bkDone' < bkQueue'[i].fence /\ bkQueue'[i].fence <= bkFence'
    <3>1. i + 1 \in 1..Len(bkQueue) /\ bkQueue'[i] = bkQueue[i + 1] /\ bkQueue[i + 1].kind = "signal" /\ 1 < i + 1
      BY <1>2, <2>2
    <3>2. bkDone < bkQueue[i + 1].fence /\ bkQueue[i + 1].fence <= bkFence
      BY <1>1, <3>1 DEF BkListsAwaited
    <3>3. bkQueue[1].kind = "signal" => bkQueue[1].fence < bkQueue[i + 1].fence
      BY <1>1, <1>3, <3>1 DEF BkListsAwaited
    <3> QED BY <3>1, <3>2, <3>3
  <2>3. ASSUME NEW i \in 1..Len(bkQueue'), NEW j \in 1..Len(bkQueue'), i < j,
               bkQueue'[i].kind = "signal", bkQueue'[j].kind = "signal"
        PROVE  bkQueue'[i].fence < bkQueue'[j].fence
    <3>1. /\ i + 1 \in 1..Len(bkQueue) /\ bkQueue'[i] = bkQueue[i + 1]
          /\ j + 1 \in 1..Len(bkQueue) /\ bkQueue'[j] = bkQueue[j + 1] /\ i + 1 < j + 1
      BY <1>2, <2>3
    <3> QED BY <1>1, <2>3, <3>1 DEF BkListsAwaited
  <2>4. bkDone' <= bkFence'
    BY <1>1, <1>3 DEF BkListsAwaited
  <2> QED BY <2>1, <2>2, <2>3, <2>4 DEF BkListsAwaited, BkSubmitted
<1> QED BY <1>5, <1>6 DEF BkInv

\* The members of a list in the queue.
QueuedList(t, io, n, ip) == [kind |-> "list", t |-> t, io |-> io, n |-> n, ip |-> ip]

\* The GPU goes on in the first list.
LEMMA QueueCounts ==
  ASSUME BkTypeOK, bkQueue # << >>, bkQueue[1].kind = "list", NEW ip, bkQueue' = [bkQueue EXCEPT ![1].ip = ip]
  PROVE  /\ 1 \in 1..Len(bkQueue) /\ Len(bkQueue) \in Nat /\ Len(bkQueue') = Len(bkQueue)
         /\ bkQueue' = [i \in 1..Len(bkQueue') |-> bkQueue'[i]] /\ \A i \in 1..Len(bkQueue') : IsEntry(bkQueue'[i])
         /\ bkQueue'[1].kind = "list" /\ bkQueue'[1].t = bkQueue[1].t /\ bkQueue'[1].io = bkQueue[1].io
         /\ \A i \in 1..Len(bkQueue) \ {1} : bkQueue'[i] = bkQueue[i]
<1> DEFINE q == bkQueue[1]
           r == QueuedList(q.t, q.io, q.n, ip)
           S == {bkQueue[k] : k \in 1..Len(bkQueue)} \cup {r}
<1>1. bkQueue \in Seq(S) /\ Len(bkQueue) \in Nat /\ r \in S
  BY IsSequence DEF BkTypeOK
<1>2. 1 \in 1..Len(bkQueue)
  <2> HIDE DEF S
  <2>1. Len(bkQueue) # 0
    BY <1>1, EmptySeq
  <2> QED BY <1>1, <2>1
<1>3. q \in [kind : {"list"}, t : {q.t}, io : Nat, n : {q.n}, ip : {q.ip}]
  BY <1>2 DEF BkTypeOK, IsEntry
<1>4. [q EXCEPT !.ip = ip] = r
  BY <1>3 DEF QueuedList
<1>5. bkQueue' = [bkQueue EXCEPT ![1] = r]
  BY <1>4, Zenon
<1>6. IsEntry(r) /\ r.kind = "list" /\ r.t = q.t /\ r.io = q.io
  BY <1>3 DEF IsEntry, QueuedList
<1> HIDE DEF r, S
<1>7. bkQueue' \in Seq(S) /\ Len(bkQueue') = Len(bkQueue)
  BY <1>1, <1>2, <1>5, ExceptSeq
<1>8. bkQueue' = [i \in 1..Len(bkQueue') |-> bkQueue'[i]]
  <2>1. bkQueue' \in [1..Len(bkQueue') -> S]
    BY <1>7, LenProperties
  <2> QED BY <2>1
<1>9. bkQueue'[1] = r /\ \A i \in 1..Len(bkQueue) \ {1} : bkQueue'[i] = bkQueue[i]
  BY <1>2, <1>5 DEF BkTypeOK
<1>10. \A i \in 1..Len(bkQueue') : IsEntry(bkQueue'[i])
  BY <1>6, <1>7, <1>9 DEF BkTypeOK
<1> QED BY <1>1, <1>2, <1>6, <1>7, <1>8, <1>9, <1>10

\* A step of the GPU.
LEMMA GpuKeeps == ASSUME BkInv, BkGpu PROVE BkInv'
<1> DEFINE q == bkQueue[1]
           prog == BkPrograms[bkCase][1].main
<1>1. bkQueue # << >> /\ UNCHANGED <<bkFree, bkFence, bkThread>> /\ BkTypeOK /\ BkListsAwaited
  BY DEF BkGpu, BkInv
<1>2. CASE /\ q.kind = "list" /\ BkStep(prog[q.ip], q.io, q.n)
           /\ bkQueue' = [bkQueue EXCEPT ![1].ip = q.ip + 1] /\ UNCHANGED bkDone
  <2>1. /\ 1 \in 1..Len(bkQueue) /\ Len(bkQueue) \in Nat /\ Len(bkQueue') = Len(bkQueue)
        /\ bkQueue' = [i \in 1..Len(bkQueue') |-> bkQueue'[i]] /\ \A i \in 1..Len(bkQueue') : IsEntry(bkQueue'[i])
        /\ bkQueue'[1].kind = "list" /\ bkQueue'[1].t = bkQueue[1].t /\ bkQueue'[1].io = bkQueue[1].io
        /\ \A i \in 1..Len(bkQueue) \ {1} : bkQueue'[i] = bkQueue[i]
    BY <1>1, <1>2, QueueCounts
  <2>2. PICK u \in DOMAIN bkThread : bkThread[u].pc # "idle" /\ q.io = bkThread[u].io
    BY <1>1, <1>2, <2>1 DEF BkListsAwaited, BkSubmitted
  <2>3. BkIoKept
    <3> DEFINE c == prog[q.ip]
               n == q.n
    <3>1. BkStep(c, bkThread[u].io, n)
      BY <1>2, <2>2
    <3> HIDE DEF c, n
    <3> QED BY <2>2, <3>1, StepIo
  <2>4. bkDone' \in Nat /\ Len(bkQueue') \in Nat
    BY <1>1, <1>2, <2>1 DEF BkTypeOK
  <2>5. BkTypeOK' /\ BkHeldOnce' /\ BkReopens'
    BY <1>1, <2>1, <2>3, <2>4, GpuKeepsRest
  <2>6. \A i \in 1..Len(bkQueue) : /\ bkQueue'[i].kind = bkQueue[i].kind
                                   /\ bkQueue[i].kind = "list" => bkQueue'[i].t = bkQueue[i].t /\ bkQueue'[i].io = bkQueue[i].io
                                   /\ bkQueue[i].kind = "signal" => bkQueue'[i].fence = bkQueue[i].fence
    BY <1>2, <2>1
  <2>7. BkListsAwaited'
    <3>1. ASSUME NEW i \in 1..Len(bkQueue'), bkQueue'[i].kind = "list"
          PROVE  /\ bkQueue'[i].t \in DOMAIN bkThread' /\ bkThread'[bkQueue'[i].t].pc \in {"signal", "wait"}
                 /\ bkQueue'[i].io = bkThread'[bkQueue'[i].t].io
                 /\ bkThread'[bkQueue'[i].t].pc = "wait" =>
                      \E j \in 1..Len(bkQueue') : i < j /\ bkQueue'[j].kind = "signal"
                                           /\ bkQueue'[j].fence = bkThread'[bkQueue'[i].t].fence
      <4>1. i \in 1..Len(bkQueue) /\ bkQueue[i].kind = "list" /\ bkQueue'[i].t = bkQueue[i].t /\ bkQueue'[i].io = bkQueue[i].io
        BY <2>1, <2>6, <3>1
      <4>2. PICK v \in DOMAIN bkThread : /\ v = bkQueue[i].t /\ bkThread[v].pc \in {"signal", "wait"}
                                         /\ bkQueue[i].io = bkThread[v].io
        BY <1>1, <4>1 DEF BkListsAwaited, BkSubmitted
      <4>3. ASSUME bkThread[v].pc = "wait"
            PROVE  \E j \in 1..Len(bkQueue') : i < j /\ bkQueue'[j].kind = "signal" /\ bkQueue'[j].fence = bkThread[v].fence
        <5>1. PICK j \in 1..Len(bkQueue) : i < j /\ bkQueue[j].kind = "signal" /\ bkQueue[j].fence = bkThread[v].fence
          BY <1>1, <4>1, <4>2, <4>3 DEF BkListsAwaited
        <5> QED BY <2>1, <2>6, <5>1
      <4>4. bkQueue'[i].t = v /\ bkQueue'[i].io = bkThread[v].io /\ bkThread' = bkThread
        BY <1>1, <4>1, <4>2
      <4> QED BY <4>2, <4>3, <4>4
    <3>2. \A i \in 1..Len(bkQueue') : bkQueue'[i].kind = "signal" =>
            bkDone' < bkQueue'[i].fence /\ bkQueue'[i].fence <= bkFence'
      BY <1>1, <1>2, <2>1, <2>6 DEF BkListsAwaited
    <3>3. \A i, j \in 1..Len(bkQueue') : i < j /\ bkQueue'[i].kind = "signal" /\ bkQueue'[j].kind = "signal" =>
            bkQueue'[i].fence < bkQueue'[j].fence
      BY <1>1, <2>1, <2>6 DEF BkListsAwaited
    <3>4. bkDone' <= bkFence'
      BY <1>1, <1>2 DEF BkListsAwaited
    <3> QED BY <3>1, <3>2, <3>3, <3>4 DEF BkListsAwaited, BkSubmitted
  <2> QED BY <2>5, <2>7 DEF BkInv
<1>3. CASE q.kind = "list" /\ bkQueue' = Tail(bkQueue) /\ UNCHANGED <<bkIo, bkDone>>
  BY <1>1, <1>3, LeaveKeeps
<1>4. CASE q.kind = "signal" /\ bkDone' = q.fence /\ bkQueue' = Tail(bkQueue) /\ UNCHANGED bkIo
  BY <1>1, <1>4, LeaveKeeps
<1> QED BY <1>2, <1>3, <1>4 DEF BkGpu

\* Before a network is built nothing is there.
BkUnbuilt == ~BkBuilt => DOMAIN bkThread = {} /\ bkIo = << >> /\ bkFree = << >> /\ bkQueue = << >>

\* A constructor makes the threads' computations possible: all are idle.
LEMMA ConstructKeeps ==
  ASSUME BkInv, BkUnbuilt, ~BkBuilt, NEW k \in BkCases, BkConstruct(k)
  PROVE  BkInv' /\ BkUnbuilt'
<1>1. /\ bkIo = << >> /\ bkFree = << >> /\ bkQueue = << >> /\ bkCase' = k
      /\ bkThread' = [t \in 1..k.threads |-> BkIdle] /\ UNCHANGED <<bkIo, bkFree, bkQueue, bkFence, bkDone>>
  BY DEF BkUnbuilt, BkConstruct
<1>2. IsThread(BkIdle) /\ BkIdle.pc = "idle" /\ BkIdle.io = 0
  BY DEF BkIdle, IsThread
<1>3. bkThread' = [t \in DOMAIN bkThread' |-> bkThread'[t]] /\ \A t \in DOMAIN bkThread' : bkThread'[t] = BkIdle
  BY <1>1
<1>4. Len(bkIo') = 0 /\ Len(bkFree') = 0 /\ Len(bkQueue') = 0 /\ 1..0 = {}
  BY <1>1
<1>5. BkTypeOK'
  BY <1>1, <1>2, <1>3 DEF BkInv, BkTypeOK
<1>6. BkHeldOnce'
  BY <1>2, <1>3, <1>4 DEF BkHeldOnce
<1>7. BkListsAwaited'
  BY <1>1, <1>4 DEF BkInv, BkListsAwaited
<1>8. BkReopens'
  BY <1>2, <1>3, <1>4 DEF BkReopens
<1>9. BkUnbuilt'
  BY <1>1, BkAssumption DEF BkUnbuilt, BkBuilt, BkLibraries
<1> QED BY <1>5, <1>6, <1>7, <1>8, <1>9 DEF BkInv

\* Every step of a thread keeps the invariant.
LEMMA ThreadStepKeeps == ASSUME BkInv, NEW t \in DOMAIN bkThread, BkThreadStep(t) PROVE BkInv'
BY NewComputationKeeps, AddInputKeeps, LockToEvalKeeps, RunCommandKeeps, FinishMainKeeps, RecordKeeps,
   ExecuteListKeeps, SignalKeeps, WaitForGpuKeeps, NextChunkKeeps, LastChunkKeeps, PostKeeps, DestroyKeeps
   DEF BkThreadStep

\* Only a constructor builds.
LEMMA CaseKept ==
  /\ \A t \in DOMAIN bkThread : BkThreadStep(t) => UNCHANGED bkCase
  /\ BkGpu => UNCHANGED bkCase
<1>1. ASSUME NEW t \in DOMAIN bkThread, BkThreadStep(t) PROVE UNCHANGED bkCase
  BY <1>1 DEF BkThreadStep, BkNewComputation, BkAddInput, BkLockToEval, BkRunCommand, BkFinishMain, BkRecord,
     BkExecuteList, BkSignal, BkWaitForGpu, BkNextChunk, BkLastChunk, BkPost, BkDestroy
<1>2. BkGpu => UNCHANGED bkCase
  BY DEF BkGpu
<1> QED BY <1>1, <1>2

\* Every step of the system keeps the invariant.
LEMMA BkStepKeeps == BkInv /\ BkUnbuilt /\ [BkNext]_bkVars => BkInv' /\ BkUnbuilt'
<1> SUFFICES ASSUME BkInv, BkUnbuilt, [BkNext]_bkVars PROVE BkInv' /\ BkUnbuilt'
  OBVIOUS
<1>1. CASE ~BkBuilt /\ \E k \in BkCases : BkConstruct(k)
  BY <1>1, ConstructKeeps
<1>2. ASSUME NEW t \in DOMAIN bkThread, BkThreadStep(t) PROVE BkInv' /\ BkUnbuilt'
  <2>1. BkInv'
    BY <1>2, ThreadStepKeeps
  <2>2. BkBuilt /\ UNCHANGED bkCase
    BY <1>2, CaseKept DEF BkUnbuilt
  <2> QED BY <2>1, <2>2 DEF BkUnbuilt, BkBuilt
<1>3. CASE BkGpu
  <2>1. BkInv'
    BY <1>3, GpuKeeps
  <2>2. bkQueue # << >> /\ UNCHANGED bkCase
    BY <1>3, CaseKept DEF BkGpu
  <2> QED BY <2>1, <2>2 DEF BkUnbuilt, BkBuilt
<1>4. CASE UNCHANGED bkVars
  <2>1. UNCHANGED <<bkCase, bkIo, bkFree, bkQueue, bkFence, bkDone, bkThread>>
    BY <1>4 DEF bkVars
  <2>2. BkTypeOK'
    BY <2>1 DEF BkInv, BkTypeOK
  <2>3. BkHeldOnce' /\ BkReopens' /\ BkListsAwaited'
    BY <2>1 DEF BkInv, BkHeldOnce, BkReopens, BkListsAwaited, BkSubmitted
  <2>4. BkUnbuilt'
    BY <2>1 DEF BkUnbuilt, BkBuilt
  <2> QED BY <2>2, <2>3, <2>4 DEF BkInv
<1> QED BY <1>1, <1>2, <1>3, <1>4 DEF BkNext

\* A pool without repetitions holds as many buffers as it is long.
LEMMA PoolCounted ==
  ASSUME BkTypeOK, BkHeldOnce
  PROVE  Cardinality(Range(bkFree)) = Len(bkFree) /\ \A x \in Range(bkFree) : \E i \in 1..Len(bkFree) : x = bkFree[i]
<1>1. bkFree \in Seq(Nat) /\ Len(bkFree) \in Nat /\ DOMAIN bkFree = 1..Len(bkFree)
  BY DEF BkTypeOK
<1>2. Range(bkFree) = {bkFree[i] : i \in 1..Len(bkFree)}
  BY <1>1 DEF Range
<1>3. IsFiniteSet(1..Len(bkFree)) /\ Cardinality(1..Len(bkFree)) = Len(bkFree)
  BY <1>1, FS_Interval
<1>4. bkFree \in Bijection(1..Len(bkFree), Range(bkFree))
  <2>1. bkFree \in [1..Len(bkFree) -> Range(bkFree)]
    BY <1>1, <1>2
  <2>2. \A i, j \in 1..Len(bkFree) : bkFree[i] = bkFree[j] => i = j
    BY DEF BkHeldOnce
  <2>3. \A x \in Range(bkFree) : \E i \in 1..Len(bkFree) : bkFree[i] = x
    BY <1>2
  <2> QED BY <2>1, <2>2, <2>3 DEF Bijection, Injection, Surjection, IsInjective
<1>5. Cardinality(Range(bkFree)) = Len(bkFree)
  BY <1>3, <1>4, FS_Bijection DEF ExistsBijection
<1> QED BY <1>2, <1>5

\* What the inductive invariant says of the buffers.
LEMMA InOrder == BkInv => BkBuffersInOrder
<1> SUFFICES ASSUME BkInv PROVE BkBuffersInOrder
  OBVIOUS
<1>1. BkTypeOK /\ BkHeldOnce /\ BkListsAwaited /\ BkReopens
  BY DEF BkInv
<1>2. \A s, t \in DOMAIN bkThread : s # t /\ bkThread[s].io # 0 => bkThread[s].io # bkThread[t].io
  BY <1>1 DEF BkHeldOnce
<1>3. Cardinality(Range(bkFree)) = Len(bkFree) /\ \A x \in Range(bkFree) : \E i \in 1..Len(bkFree) : x = bkFree[i]
  BY <1>1, PoolCounted
<1>4. \A t \in DOMAIN bkThread : bkThread[t].io \notin Range(bkFree)
  BY <1>1, <1>3 DEF BkHeldOnce
<1>5. ASSUME NEW t \in DOMAIN bkThread, bkThread[t].pc = "record", NEW i \in DOMAIN bkQueue, bkQueue[i].kind = "list"
      PROVE  bkQueue[i].io # bkThread[t].io
  <2>1. i \in 1..Len(bkQueue)
    BY <1>1 DEF BkTypeOK
  <2>2. PICK u \in DOMAIN bkThread : bkThread[u].pc \in {"signal", "wait"} /\ bkQueue[i].io = bkThread[u].io
    BY <1>1, <1>5, <2>1 DEF BkListsAwaited, BkSubmitted
  <2>3. bkThread[t].io # 0
    BY <1>1, <1>5 DEF BkHeldOnce
  <2> QED BY <1>1, <1>5, <2>2, <2>3 DEF BkHeldOnce
<1>6. \A t \in DOMAIN bkThread : bkThread[t].pc = "record" => bkIo[bkThread[t].io].open
  BY <1>1 DEF BkReopens
<1> QED BY <1>2, <1>3, <1>4, <1>5, <1>6 DEF BkBuffersInOrder

\* In every behaviour of the backends the buffers are in order: GetInputsOutputs and
\* acquire_buffers never hand out buffers that another computation holds, a destructor never
\* puts the same ones back twice, and ResetCL never reopens a list the GPU still has to run
\* (network_cudnn.cc, network_dx.cc, OpenCL.cc).
THEOREM BuffersKeptInOrder == BkSpec => []BkBuffersInOrder
<1>1. BkInit => BkInv /\ BkUnbuilt
  <2>1. BkInit => BkUnbuilt
    BY DEF BkInit, BkUnbuilt, BkBuilt
  <2> QED BY <2>1, BkInitially
<1>2. BkInv /\ BkUnbuilt /\ [BkNext]_bkVars => BkInv' /\ BkUnbuilt'
  BY BkStepKeeps
<1>3. BkInv => BkBuffersInOrder
  BY InOrder
<1> QED BY <1>1, <1>2, <1>3, PTL DEF BkSpec

(***************************************************************************)
(* The lock.                                                               *)
(***************************************************************************)
\* Whoever runs commands on the tensors of a cudnn or cuda network, or is between the list
\* and the signal of a DirectX network, holds lock_.
BkUnderLock(t) == \/ bkThread[t].pc = "run" /\ BkLocked(bkCase)
                  \/ bkThread[t].pc = "signal"
BkLockHeld == \A t \in DOMAIN bkThread : BkUnderLock(t) => bkLock = t
BkLockInv == BkLockHeld /\ 0 \notin DOMAIN bkThread

\* Where a step brings its thread; the others stay.
BkComesTo(t, pcs) ==
  /\ DOMAIN bkThread' = DOMAIN bkThread /\ bkThread'[t].pc \in pcs
  /\ \A u \in DOMAIN bkThread \ {t} : bkThread'[u].pc = bkThread[u].pc

\* A thread that leaves the lock alone does not come under it.
LEMMA LockKept ==
  ASSUME BkLockInv, NEW t \in DOMAIN bkThread, NEW pcs, BkComesTo(t, pcs), UNCHANGED <<bkCase, bkLock>>,
         pcs \cap {"run", "signal"} = {}
  PROVE  BkLockInv'
<1>1. \A u \in DOMAIN bkThread : BkUnderLock(u)' => BkUnderLock(u)
  BY DEF BkUnderLock, BkComesTo, BkLocked
<1> QED BY <1>1 DEF BkLockInv, BkLockHeld, BkComesTo

\* The lock is taken when it is free.
LEMMA LockTaken ==
  ASSUME BkLockInv, NEW t \in DOMAIN bkThread, NEW pcs, BkComesTo(t, pcs), UNCHANGED bkCase, bkLock = 0, bkLock' = t
  PROVE  BkLockInv'
<1>1. \A u \in DOMAIN bkThread \ {t} : BkUnderLock(u)' => BkUnderLock(u)
  BY DEF BkUnderLock, BkComesTo, BkLocked
<1>2. \A u \in DOMAIN bkThread : ~BkUnderLock(u)
  BY DEF BkLockInv, BkLockHeld
<1> QED BY <1>1, <1>2 DEF BkLockInv, BkLockHeld, BkComesTo

\* The holder gives the lock back.
LEMMA LockReleased ==
  ASSUME BkLockInv, NEW t \in DOMAIN bkThread, NEW pcs, BkComesTo(t, pcs), UNCHANGED bkCase, BkUnderLock(t), bkLock' = 0,
         pcs \cap {"run", "signal"} = {}
  PROVE  BkLockInv'
<1>1. \A u \in DOMAIN bkThread \ {t} : BkUnderLock(u)' => BkUnderLock(u)
  BY DEF BkUnderLock, BkComesTo, BkLocked
<1>2. \A u \in DOMAIN bkThread \ {t} : ~BkUnderLock(u)
  BY DEF BkLockInv, BkLockHeld
<1>3. ~BkUnderLock(t)'
  BY DEF BkUnderLock, BkComesTo
<1> QED BY <1>1, <1>2, <1>3 DEF BkLockInv, BkLockHeld, BkComesTo

\* Every step of a thread keeps the lock with its holder.
LEMMA ThreadStepKeepsLock ==
  ASSUME BkInv, BkLockInv, NEW t \in DOMAIN bkThread, BkThreadStep(t)
  PROVE  BkLockInv'
<1> USE DEF IsThread
<1>0. BkTypeOK /\ IsThread(bkThread[t]) /\ UNCHANGED bkCase
  BY CaseKept DEF BkInv, BkTypeOK
<1>1. CASE BkNewComputation(t)
  <2>1. BkComesTo(t, {"adding"})
    BY <1>0, <1>1 DEF BkNewComputation, BkComesTo, BkTypeOK, BkIdle
  <2>2. UNCHANGED bkLock
    BY <1>1 DEF BkNewComputation
  <2>3. {"adding"} \cap {"run", "signal"} = {}
    OBVIOUS
  <2> QED BY <1>0, <2>1, <2>2, <2>3, LockKept
<1>2. CASE BkAddInput(t)
  <2>1. BkComesTo(t, {"adding"})
    BY <1>0, <1>2 DEF BkAddInput, BkComesTo, BkTypeOK
  <2>2. UNCHANGED bkLock
    BY <1>2 DEF BkAddInput
  <2>3. {"adding"} \cap {"run", "signal"} = {}
    OBVIOUS
  <2> QED BY <1>0, <2>1, <2>2, <2>3, LockKept
<1>3. CASE BkLockToEval(t)
  <2>1. BkComesTo(t, {"run"})
    BY <1>0, <1>3 DEF BkLockToEval, BkComesTo, BkTypeOK
  <2>2. bkLock = 0 /\ bkLock' = t
    BY <1>3 DEF BkLockToEval
  <2> QED BY <1>0, <2>1, <2>2, LockTaken
<1>4. CASE BkRunCommand(t)
  <2>1. BkComesTo(t, {"run"})
    BY <1>0, <1>4 DEF BkRunCommand, BkComesTo, BkTypeOK
  <2>2. UNCHANGED bkLock /\ bkThread[t].pc = "run"
    BY <1>4 DEF BkRunCommand
  <2>3. \A u \in DOMAIN bkThread : bkThread'[u].pc = bkThread[u].pc
    BY <2>1, <2>2 DEF BkComesTo
  <2> QED BY <1>0, <2>1, <2>2, <2>3 DEF BkLockInv, BkLockHeld, BkUnderLock, BkComesTo, BkLocked
<1>5. CASE BkFinishMain(t)
  <2>1. BkComesTo(t, {"post"})
    BY <1>0, <1>5 DEF BkFinishMain, BkComesTo, BkTypeOK
  <2>2. bkThread[t].pc = "run" /\ bkLock' = (IF BkLocked(bkCase) THEN 0 ELSE bkLock)
    BY <1>5 DEF BkFinishMain
  <2>3. {"post"} \cap {"run", "signal"} = {}
    OBVIOUS
  <2>4. CASE BkLocked(bkCase)
    <3>1. BkUnderLock(t) /\ bkLock' = 0
      BY <2>2, <2>4 DEF BkUnderLock
    <3> QED BY <1>0, <2>1, <2>3, <3>1, LockReleased
  <2>5. CASE ~BkLocked(bkCase)
    <3>1. UNCHANGED bkLock
      BY <2>2, <2>5
    <3> QED BY <1>0, <2>1, <2>3, <3>1, LockKept
  <2> QED BY <2>4, <2>5
<1>6. CASE BkRecord(t)
  <2>1. BkComesTo(t, {"record", "thrown"})
    BY <1>0, <1>6 DEF BkRecord, BkComesTo, BkTypeOK
  <2>2. UNCHANGED bkLock
    BY <1>6 DEF BkRecord
  <2>3. {"record", "thrown"} \cap {"run", "signal"} = {}
    OBVIOUS
  <2> QED BY <1>0, <2>1, <2>2, <2>3, LockKept
<1>7. CASE BkExecuteList(t)
  <2>1. BkComesTo(t, {"signal"})
    BY <1>0, <1>7 DEF BkExecuteList, BkComesTo, BkTypeOK
  <2>2. bkLock = 0 /\ bkLock' = t
    BY <1>7 DEF BkExecuteList
  <2> QED BY <1>0, <2>1, <2>2, LockTaken
<1>8. CASE BkSignal(t)
  <2>1. BkComesTo(t, {"wait"})
    BY <1>0, <1>8 DEF BkSignal, BkComesTo, BkTypeOK
  <2>2. BkUnderLock(t) /\ bkLock' = 0
    BY <1>8 DEF BkSignal, BkUnderLock
  <2>3. {"wait"} \cap {"run", "signal"} = {}
    OBVIOUS
  <2> QED BY <1>0, <2>1, <2>2, <2>3, LockReleased
<1>9. CASE BkWaitForGpu(t)
  <2>1. BkComesTo(t, {"post"})
    BY <1>0, <1>9 DEF BkWaitForGpu, BkComesTo, BkTypeOK
  <2>2. UNCHANGED bkLock
    BY <1>9 DEF BkWaitForGpu
  <2>3. {"post"} \cap {"run", "signal"} = {}
    OBVIOUS
  <2> QED BY <1>0, <2>1, <2>2, <2>3, LockKept
<1>10. CASE BkNextChunk(t)
  <2>1. BkComesTo(t, {"run"})
    BY <1>0, <1>10 DEF BkNextChunk, BkComesTo, BkTypeOK
  <2>2. UNCHANGED bkLock /\ ~BkLocked(bkCase)
    BY <1>10 DEF BkNextChunk, BkLocked, BkChunked
  <2>3. \A u \in DOMAIN bkThread : BkUnderLock(u)' => BkUnderLock(u)
    BY <1>0, <2>1, <2>2 DEF BkUnderLock, BkComesTo, BkLocked
  <2> QED BY <1>0, <2>1, <2>2, <2>3 DEF BkLockInv, BkLockHeld, BkComesTo
<1>11. CASE BkLastChunk(t)
  <2>1. BkComesTo(t, {"read"})
    BY <1>0, <1>11 DEF BkLastChunk, BkComesTo, BkTypeOK
  <2>2. UNCHANGED bkLock
    BY <1>11 DEF BkLastChunk
  <2>3. {"read"} \cap {"run", "signal"} = {}
    OBVIOUS
  <2> QED BY <1>0, <2>1, <2>2, <2>3, LockKept
<1>12. CASE BkPost(t)
  <2>1. BkComesTo(t, {"post", "chunk", "read"})
    BY <1>0, <1>12 DEF BkPost, BkComesTo, BkTypeOK
  <2>2. UNCHANGED bkLock
    BY <1>12 DEF BkPost
  <2>3. {"post", "chunk", "read"} \cap {"run", "signal"} = {}
    OBVIOUS
  <2> QED BY <1>0, <2>1, <2>2, <2>3, LockKept
<1>13. CASE BkDestroy(t)
  <2>1. BkComesTo(t, {"idle"})
    BY <1>0, <1>13 DEF BkDestroy, BkComesTo, BkTypeOK, BkIdle
  <2>2. UNCHANGED bkLock
    BY <1>13 DEF BkDestroy
  <2>3. {"idle"} \cap {"run", "signal"} = {}
    OBVIOUS
  <2> QED BY <1>0, <2>1, <2>2, <2>3, LockKept
<1> QED BY <1>1, <1>2, <1>3, <1>4, <1>5, <1>6, <1>7, <1>8, <1>9, <1>10, <1>11, <1>12, <1>13 DEF BkThreadStep

\* In every behaviour of the backends, forwardEval of a cudnn or cuda network runs its commands
\* on the shared tensors, and FlushCL of a DirectX network puts the list and its signal into the
\* queue, only while the thread holds lock_, so that at most one thread does so at a time.
THEOREM TensorsUnderLock == BkSpec => []BkLockHeld
<1>1. BkInit => BkInv /\ BkUnbuilt /\ BkLockInv
  <2>1. BkInit => DOMAIN bkThread = {} /\ BkUnbuilt
    BY DEF BkInit, BkUnbuilt, BkBuilt
  <2> QED BY <2>1, BkInitially DEF BkLockInv, BkLockHeld
<1>2. BkInv /\ BkUnbuilt /\ BkLockInv /\ [BkNext]_bkVars => BkInv' /\ BkUnbuilt' /\ BkLockInv'
  <2> SUFFICES ASSUME BkInv, BkUnbuilt, BkLockInv, [BkNext]_bkVars PROVE BkLockInv'
    BY BkStepKeeps
  <2>1. ASSUME NEW k \in BkCases, BkConstruct(k) PROVE BkLockInv'
    <3>1. bkThread' = [t \in 1..k.threads |-> BkIdle]
      BY <2>1 DEF BkConstruct
    <3>2. 0 \notin DOMAIN bkThread' /\ \A t \in DOMAIN bkThread' : bkThread'[t].pc = "idle"
      BY <3>1 DEF BkIdle
    <3> QED BY <3>2 DEF BkLockInv, BkLockHeld, BkUnderLock
  <2>2. ASSUME NEW t \in DOMAIN bkThread, BkThreadStep(t) PROVE BkLockInv'
    BY <2>2, ThreadStepKeepsLock
  <2>3. CASE BkGpu \/ UNCHANGED bkVars
    <3>1. UNCHANGED <<bkCase, bkThread, bkLock>>
      BY <2>3 DEF BkGpu, bkVars
    <3> QED BY <3>1 DEF BkLockInv, BkLockHeld, BkUnderLock, BkLocked
  <2> QED BY <2>1, <2>2, <2>3 DEF BkNext
<1>3. BkLockInv => BkLockHeld
  BY DEF BkLockInv
<1> QED BY <1>1, <1>2, <1>3, PTL DEF BkSpec

===============================================================================
