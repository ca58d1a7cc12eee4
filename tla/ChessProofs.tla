---------------------------- MODULE ChessProofs ----------------------------
(***************************************************************************)
(* The tree of the game between searches (NodeTree): the head is the node  *)
(* of the position, and no node is lost, freed twice or freed while in     *)
(* use, for any number of addresses, moves, positions and resets, with the *)
(* collector running at any time.                                          *)
(*                                                                         *)
(* The tablebases (SyzygyLoad): a table is loaded at most once and read    *)
(* only when complete, for any number of probing threads.                  *)
(***************************************************************************)
EXTENDS NodeTree, SyzygyLoad, FiniteSetTheorems, SequenceTheorems, TLAPS

-----------------------------------------------------------------------------
(* The game tree: the inductive invariant. *)

\* What a well-formed heap holds; a freed address holds nothing.
NtOwners == NtAddr \cup {"free", "begin", "gc"}
NtNodes == [owner : NtOwners, fen : NtFens \cup {NtNull}, path : Seq(NtMoves),
            edges : NtMoves \cup {"none", "all"}, solid : BOOLEAN, lost : BOOLEAN]

NtHeapOK(h) == h \in [NtAddr -> NtNodes] /\ \A x \in NtAddr : h[x].owner = "free" => h[x] = NtFree

NtOwner(x) == ntHeap[x].owner
NtPathTo(x) == ntHeap[x].path
NtDepth(x) == Len(NtPathTo(x))
NtHere == Len(ntPath)

\* Neither line of moves leaves the other.
NtAlong(p, q) == \A i \in 1..Len(p) : i <= Len(q) => p[i] = q[i]

NtTypeOK ==
  /\ NtHeapOK(ntHeap)
  /\ ntHead \in NtAddr \cup {NtNull} /\ ntFen \in NtFens /\ ntPath \in Seq(NtMoves)
  /\ ntQueue \in Seq(SUBSET NtAddr) /\ ntPc \in {"idle", "release", "enter", "finish"}
  /\ ntTodo \in Seq(NtMoves) /\ ntOld \in NtAddr \cup {NtNull} /\ ntSeen \in BOOLEAN
  /\ ntWas \in [fen : NtFens \cup {NtNull}, path : Seq(NtMoves)]
  /\ ntPc # "idle" => ntHead # NtNull
  /\ ntPc \in {"release", "enter"} => ntTodo # <<>>

\* A node as NtNode makes it is well-formed.
LEMMA NodeOK ==
  ASSUME NEW o \in NtOwners, NEW f \in NtFens \cup {NtNull}, NEW p \in Seq(NtMoves)
  PROVE  NtNode(o, f, p) \in NtNodes
BY DEF NtNode, NtNodes

\* A node with another owner keeps everything else.
LEMMA Reowned ==
  ASSUME NEW r \in NtNodes, NEW o \in NtOwners
  PROVE  /\ [r EXCEPT !.owner = o] \in NtNodes
         /\ [r EXCEPT !.owner = o].owner = o
         /\ [r EXCEPT !.owner = o].path = r.path
         /\ [r EXCEPT !.owner = o].fen = r.fen
         /\ [r EXCEPT !.owner = o].lost = r.lost
         /\ [r EXCEPT !.owner = o].edges = r.edges
         /\ [r EXCEPT !.owner = o].solid = r.solid
BY DEF NtNodes

\* The nodes of the game hang below its first node by their paths, the others below the
\* roots handed to the collector.
NtRooted(G) ==
  /\ \A x \in G :
       /\ ntHeap[x].fen = ntFen
       /\ \/ NtOwner(x) = "begin" /\ NtDepth(x) = 0
          \/ /\ NtOwner(x) \in G /\ NtDepth(x) = NtDepth(NtOwner(x)) + 1
             /\ NtAlong(NtPathTo(x), NtPathTo(NtOwner(x)))
  /\ \A x \in NtLive(ntHeap) \ G : NtOwner(x) = "gc" \/ NtOwner(x) \in NtLive(ntHeap) \ G

NtUnique(G) == \A x, y \in G : NtDepth(x) = NtDepth(y) /\ NtAlong(NtPathTo(x), NtPathTo(y)) => x = y

\* Above the head there is one node for every position of the game, and nothing beside them.
NtLine(G) ==
  IF ntHead = NtNull THEN G = {}
  ELSE /\ ntHead \in G /\ NtDepth(ntHead) = NtHere
       /\ \A k \in 0..NtHere : \E x \in G : NtDepth(x) = k
       /\ \A x \in G : NtAlong(NtPathTo(x), ntPath)

NtEntering(G) ==
  ntPc = "enter" =>
    /\ \A x \in G : NtDepth(x) > NtHere => NtPathTo(x)[NtHere + 1] = Head(ntTodo)
    /\ (\A x \in NtAddr : NtOwner(x) # ntHead) => ntHeap[ntHead].edges = "none"

\* Nodes without their children are above the head, or above the head before the command
\* as long as that one is still in the tree.
NtLostAbove(G) ==
  \A x \in G : ntHeap[x].lost =>
    \/ NtDepth(x) < NtHere
    \/ ntPc = "enter" /\ NtDepth(x) = NtHere
    \/ /\ ntPc # "idle" /\ ~ntSeen
       /\ \/ NtDepth(x) = NtHere
          \/ /\ NtDepth(x) < Len(ntWas.path) /\ NtAlong(NtPathTo(x), ntWas.path)
             /\ ntOld \in G /\ NtDepth(ntOld) = Len(ntWas.path) /\ NtAlong(NtPathTo(ntOld), ntWas.path)

NtGame(G) ==
  /\ G \subseteq NtLive(ntHeap)
  /\ NtRooted(G) /\ NtUnique(G) /\ NtLine(G) /\ NtEntering(G) /\ NtLostAbove(G)

NtQueued ==
  /\ \A i \in 1..Len(ntQueue) : \A x \in ntQueue[i] : NtOwner(x) = "gc"
  /\ \A x \in NtAddr : NtOwner(x) = "gc" => \E i \in 1..Len(ntQueue) : x \in ntQueue[i]
  /\ \A i, j \in 1..Len(ntQueue) : \A x \in ntQueue[i] : x \in ntQueue[j] => i = j

NtInv == NtTypeOK /\ NtQueued /\ \E G \in SUBSET NtAddr : NtGame(G)

-----------------------------------------------------------------------------
\* In a well-formed heap the owner alone says what is alive, first or a child.
LEMMA HeapIs ==
  ASSUME NEW h, NtHeapOK(h)
  PROVE  /\ NtLive(h) = {x \in NtAddr : h[x].owner # "free"}
         /\ NtBegin(h) = {x \in NtAddr : h[x].owner = "begin"}
         /\ \A y \in NtAddr : NtChildren(h, y) = {x \in NtAddr : h[x].owner = y}
<1>1. \A x \in NtAddr : h[x] \in NtNodes /\ (h[x].owner = "free" => h[x] = NtFree)
  BY DEF NtHeapOK
<1>2. NtFree.owner = "free"
  BY DEF NtFree, NtNode
<1>3. NtLive(h) = {x \in NtAddr : h[x].owner # "free"}
  BY <1>1, <1>2 DEF NtLive
<1>4. \A y \in NtAddr : y # "free"
  BY NtAssumption
<1> QED BY <1>3, <1>4 DEF NtBegin, NtChildren

\* A line of moves played one move on goes along with the line it came from.
LEMMA Steps ==
  ASSUME NEW p \in Seq(NtMoves), NEW m \in NtMoves
  PROVE  /\ Append(p, m) \in Seq(NtMoves) /\ Len(Append(p, m)) = Len(p) + 1
         /\ NtAlong(p, Append(p, m)) /\ Append(p, m)[Len(p) + 1] = m /\ NtAlong(Append(p, m), p)
BY DEF NtAlong

\* Going along is symmetric.
LEMMA AlongBack ==
  ASSUME NEW p \in Seq(NtMoves), NEW q \in Seq(NtMoves), NtAlong(p, q)
  PROVE  NtAlong(q, p)
BY DEF NtAlong

\* It is transitive as long as the line between is not the shortest.
LEMMA AlongOn ==
  ASSUME NEW p \in Seq(NtMoves), NEW q \in Seq(NtMoves), NEW r \in Seq(NtMoves),
         NtAlong(p, q), NtAlong(q, r), Len(p) <= Len(q) \/ Len(r) <= Len(q)
  PROVE  NtAlong(p, r)
BY DEF NtAlong

\* Facts about the nodes of the game that every step uses.
LEMMA GameFacts ==
  ASSUME NtTypeOK, NEW G \in SUBSET NtAddr, NtGame(G)
  PROVE  /\ \A x \in NtAddr : NtPathTo(x) \in Seq(NtMoves) /\ NtDepth(x) \in Nat
         /\ \A x \in G : NtOwner(x) = "begin" \/ NtOwner(x) \in G
         /\ \A x \in NtAddr : NtOwner(x) \in G => x \in G
         /\ \A x \in NtAddr : NtOwner(x) = "begin" => x \in G
         /\ \A x \in NtAddr : NtOwner(x) \in {"free", "begin", "gc"} \/ NtOwner(x) \in NtLive(ntHeap)
<1>1. \A x \in NtAddr : NtPathTo(x) \in Seq(NtMoves) /\ NtDepth(x) \in Nat
  BY DEF NtTypeOK, NtHeapOK, NtNodes, NtPathTo, NtDepth
<1>2. NtLive(ntHeap) = {x \in NtAddr : NtOwner(x) # "free"}
  BY HeapIs DEF NtTypeOK, NtOwner
<1>3. \A x \in NtAddr : NtOwner(x) \in NtOwners
  BY DEF NtTypeOK, NtHeapOK, NtNodes, NtOwner
<1>4. \A x \in NtAddr : x \notin {"free", "begin", "gc"}
  BY NtAssumption
<1>5. \A x \in G : NtOwner(x) = "begin" \/ NtOwner(x) \in G
  BY DEF NtGame, NtRooted
<1>6. \A x \in NtLive(ntHeap) \ G : NtOwner(x) = "gc" \/ NtOwner(x) \in NtLive(ntHeap) \ G
  BY DEF NtGame, NtRooted
<1>7. G \subseteq NtLive(ntHeap)
  BY DEF NtGame
<1> QED BY <1>1, <1>2, <1>3, <1>4, <1>5, <1>6, <1>7 DEF NtOwners

\* The head is the node of its depth on the way; every other node is above or below it.
LEMMA AtHead ==
  ASSUME NtTypeOK, NEW G \in SUBSET NtAddr, NtGame(G), ntHead # NtNull
  PROVE  /\ ntHead \in G /\ NtHere \in Nat
         /\ \A x \in G : NtDepth(x) = NtHere => x = ntHead
<1>1. ntHead \in G /\ NtDepth(ntHead) = NtHere /\ \A x \in G : NtAlong(NtPathTo(x), ntPath)
  BY DEF NtGame, NtLine
<1>2. ntPath \in Seq(NtMoves) /\ NtHere \in Nat
  BY DEF NtTypeOK, NtHere
<1>3. ASSUME NEW x \in G, NtDepth(x) = NtHere
      PROVE  x = ntHead
  <2>1. NtPathTo(x) \in Seq(NtMoves) /\ NtPathTo(ntHead) \in Seq(NtMoves)
    BY <1>1, GameFacts
  <2>2. NtAlong(NtPathTo(x), ntPath) /\ NtAlong(ntPath, NtPathTo(ntHead))
    BY <1>1, <1>2, <2>1, AlongBack
  <2>3. NtAlong(NtPathTo(x), NtPathTo(ntHead))
    BY <1>2, <1>3, <2>1, <2>2, AlongOn DEF NtDepth, NtHere
  <2> QED BY <1>1, <1>3, <2>3 DEF NtGame, NtUnique
<1> QED BY <1>1, <1>2, <1>3

\* The collector's queue grows by the roots a step gives up.
LEMMA QueueGrows ==
  ASSUME NtTypeOK, NtQueued, NEW xs \in SUBSET NtAddr,
         ntQueue' = NtEnqueue(xs) \/ ntQueue' = Append(ntQueue, xs),
         \A x \in xs : NtOwner(x) # "gc" /\ NtOwner(x)' = "gc",
         \A x \in NtAddr \ xs : NtOwner(x)' = "gc" <=> NtOwner(x) = "gc"
  PROVE  NtQueued' /\ ntQueue' \in Seq(SUBSET NtAddr)
<1>1. ntQueue \in Seq(SUBSET NtAddr)
  BY DEF NtTypeOK
<1>2. CASE ntQueue' = ntQueue /\ xs = {}
  BY <1>1, <1>2 DEF NtQueued
<1>3. CASE ntQueue' = Append(ntQueue, xs)
  <2>1. /\ ntQueue' \in Seq(SUBSET NtAddr) /\ Len(ntQueue') = Len(ntQueue) + 1 /\ Len(ntQueue) \in Nat
        /\ ntQueue'[Len(ntQueue) + 1] = xs /\ \A i \in 1..Len(ntQueue) : ntQueue'[i] = ntQueue[i]
    BY <1>1, <1>3
  <2>2. \A i \in 1..Len(ntQueue) : ntQueue[i] \in SUBSET NtAddr
    BY <1>1
  <2>3. \A i \in 1..Len(ntQueue') : i \in 1..Len(ntQueue) \/ i = Len(ntQueue) + 1
    BY <2>1
  <2>4. \A i \in 1..Len(ntQueue) : \A x \in ntQueue[i] : x \in NtAddr \ xs /\ NtOwner(x) = "gc"
    BY <2>2 DEF NtQueued
  <2>5. \A i \in 1..Len(ntQueue') : \A x \in ntQueue'[i] : NtOwner(x)' = "gc"
    BY <2>1, <2>3, <2>4
  <2>6. ASSUME NEW x \in NtAddr, NtOwner(x)' = "gc"
        PROVE  \E i \in 1..Len(ntQueue') : x \in ntQueue'[i]
    <3>1. CASE x \in xs
      BY <2>1, <3>1
    <3>2. CASE x \notin xs
      <4>1. PICK i \in 1..Len(ntQueue) : x \in ntQueue[i]
        BY <2>6, <3>2 DEF NtQueued
      <4> QED BY <2>1, <4>1
    <3> QED BY <3>1, <3>2
  <2>7. \A i, j \in 1..Len(ntQueue') : \A x \in ntQueue'[i] : x \in ntQueue'[j] => i = j
    BY <2>1, <2>3, <2>4 DEF NtQueued
  <2> QED BY <2>1, <2>5, <2>6, <2>7 DEF NtQueued
<1> QED BY <1>2, <1>3 DEF NtEnqueue

\* Nodes handed to the collector keep everything but their owner.
LEMMA Released ==
  ASSUME NEW h, NtHeapOK(h), NEW xs \in SUBSET NtLive(h)
  PROVE  /\ NtHeapOK(NtRelease(h, xs))
         /\ \A x \in NtAddr :
              /\ NtRelease(h, xs)[x].owner = (IF x \in xs THEN "gc" ELSE h[x].owner)
              /\ NtRelease(h, xs)[x].path = h[x].path /\ NtRelease(h, xs)[x].fen = h[x].fen
              /\ NtRelease(h, xs)[x].lost = h[x].lost /\ NtRelease(h, xs)[x].edges = h[x].edges
              /\ x \notin xs => NtRelease(h, xs)[x] = h[x]
<1> DEFINE g == NtRelease(h, xs)
<1>1. "gc" \in NtOwners /\ "gc" # "free"
  BY DEF NtOwners
<1>2. ASSUME NEW x \in NtAddr
      PROVE  /\ g[x] \in NtNodes /\ (g[x].owner = "free" => g[x] = NtFree)
             /\ g[x].owner = (IF x \in xs THEN "gc" ELSE h[x].owner)
             /\ g[x].path = h[x].path /\ g[x].fen = h[x].fen
             /\ g[x].lost = h[x].lost /\ g[x].edges = h[x].edges
             /\ x \notin xs => g[x] = h[x]
  <2>1. h[x] \in NtNodes /\ (h[x].owner = "free" => h[x] = NtFree)
    BY DEF NtHeapOK
  <2>2. CASE x \in xs
    <3>1. g[x] = [h[x] EXCEPT !.owner = "gc"]
      BY <2>2, Zenon DEF NtRelease
    <3> QED BY <1>1, <2>1, <2>2, <3>1, Reowned
  <2>3. CASE x \notin xs
    <3>1. g[x] = h[x]
      BY <2>3 DEF NtRelease
    <3> QED BY <2>1, <2>3, <3>1
  <2> QED BY <2>2, <2>3
<1>3. g \in [NtAddr -> NtNodes]
  <2>1. g = [x \in NtAddr |-> g[x]]
    BY Zenon DEF NtRelease
  <2> QED BY <1>2, <2>1, Zenon
<1> QED BY <1>2, <1>3 DEF NtHeapOK

\* Nothing but the first node of a game in the tree.
LEMMA NewGame ==
  ASSUME NtTypeOK, NtTypeOK', NEW y \in NtAddr,
         NtOwner(y)' = "begin", NtDepth(y)' = 0, ntHeap'[y].fen = ntFen', ~ntHeap'[y].lost,
         ntHead' = y, ntPath' = <<>>, ntPc' # "enter",
         \A x \in NtLive(ntHeap)' \ {y} : NtOwner(x)' = "gc" \/ NtOwner(x)' \in NtLive(ntHeap)' \ {y}
  PROVE  NtGame({y})'
<1>1. NtLive(ntHeap') = {x \in NtAddr : NtOwner(x)' # "free"}
  BY HeapIs DEF NtTypeOK, NtOwner
<1>2. {y} \subseteq NtLive(ntHeap)'
  BY <1>1
<1>3. NtHere' = 0
  BY DEF NtHere
<1>4. NtAlong(NtPathTo(y)', ntPath')
  BY DEF NtAlong
<1>5. NtLine({y})'
  BY <1>3, <1>4, NtAssumption DEF NtLine
<1>6. NtRooted({y})' /\ NtUnique({y})' /\ NtEntering({y})' /\ NtLostAbove({y})'
  BY DEF NtRooted, NtUnique, NtEntering, NtLostAbove
<1> QED BY <1>2, <1>5, <1>6 DEF NtGame

\* ResetToPosition up to its loop: the same game goes back to its first node, another one
\* starts from a new node, its tree handed over.
LEMMA ResetKeeps ==
  ASSUME NtInv, NEW fen \in NtFens, NEW moves \in Seq(NtMoves), NtResetToPosition(fen, moves)
  PROVE  NtInv'
<1>1. NtTypeOK /\ NtQueued
  BY DEF NtInv
<1>2. PICK G \in SUBSET NtAddr : NtGame(G)
  BY DEF NtInv
<1> DEFINE drop == ntFen # fen
           h == IF drop THEN NtRelease(ntHeap, NtBegin(ntHeap)) ELSE ntHeap
<1>3. /\ ntPc = "idle" /\ ntFen' = fen /\ ntPath' = <<>> /\ ntTodo' = moves
      /\ ntPc' = IF moves = <<>> THEN "finish" ELSE "release"
      /\ ntWas' = [fen |-> IF ntHead = NtNull THEN NtNull ELSE ntFen, path |-> ntPath]
      /\ ntQueue' = (IF drop THEN NtEnqueue(NtBegin(ntHeap)) ELSE ntQueue)
      /\ ntOld' = (IF drop THEN NtNull ELSE ntHead) /\ ntSeen' = (ntHead' = ntOld')
  BY DEF NtResetToPosition
<1>4. NtBegin(ntHeap) = {x \in NtAddr : NtOwner(x) = "begin"} /\ NtLive(ntHeap) = {x \in NtAddr : NtOwner(x) # "free"}
  BY <1>1, HeapIs DEF NtTypeOK, NtOwner
<1>5. /\ NtHeapOK(ntHeap) /\ ntFen \in NtFens /\ ntPath \in Seq(NtMoves) /\ ntHead \in NtAddr \cup {NtNull}
      /\ ntQueue \in Seq(SUBSET NtAddr)
  BY <1>1 DEF NtTypeOK
<1>6. /\ ntFen' \in NtFens /\ ntPath' \in Seq(NtMoves) /\ ntPc' \in {"idle", "release", "enter", "finish"}
      /\ ntTodo' \in Seq(NtMoves) /\ ntOld' \in NtAddr \cup {NtNull} /\ ntSeen' \in BOOLEAN
      /\ ntWas' \in [fen : NtFens \cup {NtNull}, path : Seq(NtMoves)]
      /\ ntPc' # "idle" /\ ntPc' # "enter" /\ (ntPc' \in {"release", "enter"} => ntTodo' # <<>>)
  BY <1>3, <1>5
<1>7. CASE ~drop /\ NtBegin(ntHeap) # {}
  <2>1. ntHead' \in NtBegin(ntHeap) /\ UNCHANGED ntHeap /\ UNCHANGED ntQueue
    BY <1>3, <1>7 DEF NtResetToPosition
  <2>2. NtTypeOK'
    BY <1>4, <1>5, <1>6, <2>1, NtAssumption DEF NtTypeOK
  <2>3. NtQueued'
    BY <1>1, <2>1 DEF NtQueued, NtOwner
  <2>4. ntHead' \in G /\ NtDepth(ntHead') = 0 /\ ntHead' # NtNull
    <3>1. ntHead' \in G /\ ntHead' \in NtAddr /\ NtOwner(ntHead') = "begin"
      BY <1>1, <1>2, <1>4, <2>1, GameFacts
    <3>2. "begin" \notin NtAddr /\ NtNull \notin NtAddr
      BY NtAssumption
    <3> QED BY <1>2, <3>1, <3>2 DEF NtGame, NtRooted
  <2>5. ntHead # NtNull
    BY <1>2, <2>4 DEF NtGame, NtLine
  <2>6. /\ \A x \in G : NtDepth(x)' = NtDepth(x) /\ NtPathTo(x)' = NtPathTo(x) /\ ntHeap'[x] = ntHeap[x]
        /\ NtDepth(ntHead') = NtDepth(ntHead)'
    BY <2>1 DEF NtDepth, NtPathTo
  <2>7. NtRooted(G)' /\ NtUnique(G)'
    BY <1>2, <1>3, <1>7, <2>1 DEF NtGame, NtRooted, NtUnique, NtOwner, NtDepth, NtPathTo
  <2>8. NtLine(G)' /\ NtEntering(G)'
    <3>1. NtHere' = 0
      BY <1>3 DEF NtHere
    <3>2. \A x \in G : NtAlong(NtPathTo(x), <<>>)
      BY DEF NtAlong
    <3> QED BY <1>3, <1>6, <2>4, <2>6, <3>1, <3>2 DEF NtLine, NtEntering
  <2>9. NtLostAbove(G)'
    <3>1. ntOld' = ntHead /\ ntWas'.path = ntPath /\ ntSeen' = (ntHead' = ntHead)
      BY <1>3, <1>7
    <3>2. ntHead \in G /\ NtDepth(ntHead) = Len(ntPath) /\ \A x \in G : NtAlong(NtPathTo(x), ntPath)
      BY <1>2, <2>5 DEF NtGame, NtLine, NtHere
    <3>3. \A x \in G : ntHeap[x].lost => NtDepth(x) < Len(ntPath)
      BY <1>2, <1>3 DEF NtGame, NtLostAbove, NtHere
    <3>4. \A x \in G : NtDepth(x) \in Nat
      BY <1>1, <1>2, GameFacts
    <3>5. ntSeen' => Len(ntPath) = 0
      BY <2>4, <3>1, <3>2
    <3>6. ASSUME NEW x \in G, ntHeap'[x].lost
          PROVE  /\ ntPc' # "idle" /\ ~ntSeen'
                 /\ NtDepth(x)' < Len(ntWas'.path) /\ NtAlong(NtPathTo(x)', ntWas'.path)
                 /\ ntOld' \in G /\ NtDepth(ntOld)' = Len(ntWas'.path) /\ NtAlong(NtPathTo(ntOld)', ntWas'.path)
      <4>1. NtDepth(x) < Len(ntPath) /\ ~ntSeen'
        BY <2>6, <3>3, <3>4, <3>5, <3>6
      <4>2. NtDepth(ntOld)' = NtDepth(ntHead) /\ NtPathTo(ntOld)' = NtPathTo(ntHead)
        BY <2>1, <3>1 DEF NtDepth, NtPathTo
      <4> QED BY <1>6, <2>6, <3>1, <3>2, <4>1, <4>2
    <3> QED BY <3>6 DEF NtLostAbove
  <2>10. G \subseteq NtLive(ntHeap)'
    BY <1>2, <2>1 DEF NtGame
  <2>11. NtGame(G)'
    BY <2>7, <2>8, <2>9, <2>10 DEF NtGame
  <2> QED BY <2>2, <2>3, <2>11 DEF NtInv
<1>8. CASE drop \/ NtBegin(ntHeap) = {}
  <2> DEFINE xs == IF drop THEN NtBegin(ntHeap) ELSE {}
  <2>1. NtHeapOK(h) /\ \A x \in NtAddr : h[x].owner = (IF x \in xs THEN "gc" ELSE NtOwner(x))
    <3>1. NtBegin(ntHeap) \in SUBSET NtLive(ntHeap)
      BY <1>4
    <3> QED BY <1>5, <3>1, Released DEF NtOwner
  <2>2. NtLive(h) = NtLive(ntHeap) /\ NtBegin(h) = {}
    BY <1>4, <1>8, <2>1, HeapIs
  <2>3. PICK y \in NtAddr \ NtLive(h) : ntHead' = y /\ ntHeap' = [h EXCEPT ![y] = NtNode("begin", fen, <<>>)]
    BY <2>2 DEF NtResetToPosition
  <2>4. /\ NtHeapOK(ntHeap') /\ ntHeap'[y] = NtNode("begin", fen, <<>>)
        /\ \A x \in NtAddr \ {y} : ntHeap'[x] = h[x]
    <3> DEFINE r == NtNode("begin", fen, <<>>)
    <3>1. <<>> \in Seq(NtMoves) /\ "begin" \in NtOwners
      BY DEF NtOwners
    <3>2. r \in NtNodes
      BY <3>1, NodeOK
    <3>3. r.owner # "free"
      BY DEF NtNode
    <3>4. y \in NtAddr /\ ntHeap' = [h EXCEPT ![y] = r]
      BY <2>3
    <3> HIDE DEF h, r
    <3>5. NtHeapOK(ntHeap') /\ ntHeap'[y] = r /\ \A x \in NtAddr \ {y} : ntHeap'[x] = h[x]
      <4> HIDE DEF drop, xs
      <4> QED BY <2>1, <3>2, <3>3, <3>4 DEF NtHeapOK
    <3> QED BY <3>5 DEF r
  <2>5. /\ NtOwner(y)' = "begin" /\ NtDepth(y)' = 0 /\ ntHeap'[y].fen = ntFen' /\ ~ntHeap'[y].lost
    BY <1>3, <2>4 DEF NtOwner, NtDepth, NtPathTo, NtNode
  <2>6. \A x \in NtAddr \ {y} : NtOwner(x)' = IF x \in xs THEN "gc" ELSE NtOwner(x)
    BY <2>1, <2>4 DEF NtOwner
  <2>7. NtOwner(y) = "free" /\ y \notin xs /\ xs \in SUBSET NtAddr
    BY <1>4, <2>2
  <2>8. NtQueued' /\ ntQueue' \in Seq(SUBSET NtAddr)
    <3>1. ntQueue' = NtEnqueue(xs)
      BY <1>3 DEF NtEnqueue
    <3>2. \A x \in xs : NtOwner(x) # "gc" /\ NtOwner(x)' = "gc"
      BY <1>4, <2>6, <2>7
    <3>3. \A x \in NtAddr \ xs : NtOwner(x)' = "gc" <=> NtOwner(x) = "gc"
      BY <2>5, <2>6, <2>7
    <3> HIDE DEF xs
    <3> QED BY <1>1, <2>7, <3>1, <3>2, <3>3, QueueGrows
  <2>9. NtTypeOK'
    BY <1>6, <2>3, <2>4, <2>8, NtAssumption DEF NtTypeOK
  <2>10. NtLive(ntHeap') = {x \in NtAddr : NtOwner(x)' # "free"}
    BY <2>4, HeapIs DEF NtOwner
  <2>11. \A x \in NtLive(ntHeap') \ {y} : NtOwner(x)' = "gc" \/ NtOwner(x)' \in NtLive(ntHeap') \ {y}
    <3>1. \A x \in NtAddr : NtOwner(x) \in {"free", "begin", "gc"} \/ NtOwner(x) \in NtLive(ntHeap)
      BY <1>1, <1>2, GameFacts
    <3>2. \A x \in NtAddr : NtOwner(x) = "begin" => x \in xs
      BY <1>4, <1>8
    <3> HIDE DEF xs
    <3> QED BY <1>4, <2>6, <2>7, <2>10, <3>1, <3>2
  <2>12. NtGame({y})'
    <3>1. ntHead' = y /\ ntPath' = <<>> /\ ntPc' # "enter"
      BY <1>3, <1>6, <2>3
    <3> QED BY <1>1, <2>5, <2>9, <2>11, <3>1, NewGame
  <2> QED BY <2>8, <2>9, <2>12 DEF NtInv
<1> QED BY <1>7, <1>8

\* A step that keeps the nodes of K, adds those of Y below o and gives up the others.
LEMMA Pruned ==
  ASSUME NtTypeOK, NtTypeOK', ntFen' = ntFen, NEW G \in SUBSET NtAddr, NtGame(G),
         NEW K \in SUBSET G, NEW Y \in SUBSET NtAddr, NEW o,
         \A x \in K : /\ NtOwner(x)' = NtOwner(x) /\ NtPathTo(x)' = NtPathTo(x)
                      /\ ntHeap'[x].fen = ntHeap[x].fen
                      /\ NtOwner(x) = "begin" \/ NtOwner(x) \in K,
         \A x \in NtAddr \ (K \cup Y) :
            NtOwner(x)' = "gc" \/ (NtOwner(x)' = NtOwner(x) /\ NtOwner(x) \notin K \cup {"begin"}),
         \A y \in Y : /\ o \in K /\ NtOwner(y) = "free" /\ NtOwner(y)' = o /\ ntHeap'[y].fen = ntFen
                      /\ NtDepth(y)' = NtDepth(o) + 1 /\ NtAlong(NtPathTo(y)', NtPathTo(o))
                      /\ \A x \in K : NtDepth(x) = NtDepth(o) + 1 => ~NtAlong(NtPathTo(x), NtPathTo(y)'),
         \A x, y \in Y : x = y
  PROVE  (K \cup Y) \subseteq NtLive(ntHeap)' /\ NtRooted(K \cup Y)' /\ NtUnique(K \cup Y)'
<1>1. NtLive(ntHeap) = {x \in NtAddr : NtOwner(x) # "free"} /\ NtLive(ntHeap') = {x \in NtAddr : NtOwner(x)' # "free"}
  BY HeapIs DEF NtTypeOK, NtOwner
<1>2. G \subseteq NtLive(ntHeap) /\ NtRooted(G) /\ NtUnique(G)
  BY DEF NtGame
<1>3. \A x \in NtAddr : x \notin {"free", "begin", "gc"}
  BY NtAssumption
<1>4. \A x \in K : NtDepth(x)' = NtDepth(x)
  BY DEF NtDepth
<1>5. (K \cup Y) \subseteq NtLive(ntHeap)'
  BY <1>1, <1>2, <1>3
<1>6. \A x \in NtAddr : NtOwner(x) \in {"free", "begin", "gc"} \/ NtOwner(x) \in NtLive(ntHeap)
  BY GameFacts
<1>7. NtRooted(K \cup Y)'
  <2>1. ASSUME NEW x \in K
        PROVE  /\ ntHeap'[x].fen = ntFen'
               /\ \/ NtOwner(x)' = "begin" /\ NtDepth(x)' = 0
                  \/ /\ NtOwner(x)' \in K /\ NtDepth(x)' = NtDepth(NtOwner(x))' + 1
                     /\ NtAlong(NtPathTo(x)', NtPathTo(NtOwner(x))')
    <3>1. CASE NtOwner(x) = "begin"
      BY <1>2, <1>3, <1>4, <3>1 DEF NtRooted
    <3>2. CASE NtOwner(x) \in K
      <4>1. NtDepth(x) = NtDepth(NtOwner(x)) + 1 /\ NtAlong(NtPathTo(x), NtPathTo(NtOwner(x)))
        BY <1>2, <1>3, <3>2 DEF NtRooted
      <4>2. PICK z \in K : z = NtOwner(x) /\ z = NtOwner(x)'
        BY <3>2
      <4>3. NtDepth(z)' = NtDepth(z) /\ NtPathTo(z)' = NtPathTo(z)
        BY <1>4
      <4>4. NtDepth(NtOwner(x))' = NtDepth(z)' /\ NtPathTo(NtOwner(x))' = NtPathTo(z)'
        BY <4>2 DEF NtDepth, NtPathTo
      <4> QED BY <1>2, <1>4, <4>1, <4>2, <4>3, <4>4 DEF NtRooted
    <3> QED BY <3>1, <3>2
  <2>2. ASSUME NEW y \in Y
        PROVE  /\ ntHeap'[y].fen = ntFen' /\ NtOwner(y)' \in K /\ NtDepth(y)' = NtDepth(NtOwner(y))' + 1
               /\ NtAlong(NtPathTo(y)', NtPathTo(NtOwner(y))')
    <3>1. o \in K /\ NtOwner(y)' = o
      OBVIOUS
    <3>2. NtDepth(NtOwner(y))' = NtDepth(o) /\ NtPathTo(NtOwner(y))' = NtPathTo(o)
      BY <1>4, <3>1 DEF NtDepth, NtPathTo
    <3> QED BY <3>1, <3>2
  <2>3. ASSUME NEW x \in NtLive(ntHeap') \ (K \cup Y), NtOwner(x)' # "gc"
        PROVE  NtOwner(x)' \in NtLive(ntHeap') \ (K \cup Y)
    <3>1. x \in NtAddr /\ NtOwner(x)' = NtOwner(x) /\ NtOwner(x) \notin K \cup {"begin"} /\ NtOwner(x)' # "free"
      BY <1>1, <2>3
    <3>2. NtOwner(x) \in NtLive(ntHeap) \ K
      BY <1>6, <2>3, <3>1
    <3>3. NtOwner(x) \in NtAddr \ (K \cup Y) /\ NtOwner(NtOwner(x)) # "free"
      BY <1>1, <3>2
    <3>4. PICK z \in NtAddr \ (K \cup Y) : z = NtOwner(x)
      BY <3>3
    <3>5. NtOwner(z)' # "free"
      BY <3>3, <3>4
    <3> QED BY <1>1, <3>1, <3>4, <3>5
  <2> HIDE DEF NtOwner, NtDepth, NtPathTo
  <2> QED BY <2>1, <2>2, <2>3 DEF NtRooted
<1>8. NtUnique(K \cup Y)'
  <2>1. \A x \in K : NtPathTo(x) \in Seq(NtMoves) /\ NtDepth(x) \in Nat
    BY GameFacts
  <2>2. \A y \in Y : NtPathTo(y)' \in Seq(NtMoves)
    BY DEF NtTypeOK, NtHeapOK, NtNodes, NtPathTo
  <2>3. ASSUME NEW x \in K, NEW y \in Y, NtDepth(x)' = NtDepth(y)'
        PROVE  ~NtAlong(NtPathTo(x)', NtPathTo(y)') /\ ~NtAlong(NtPathTo(y)', NtPathTo(x)')
    <3>1. ~NtAlong(NtPathTo(x), NtPathTo(y)') /\ NtPathTo(x)' = NtPathTo(x)
      BY <1>4, <2>3
    <3> QED BY <2>1, <2>2, <3>1, AlongBack
  <2>4. \A x, y \in K : NtDepth(x)' = NtDepth(y)' /\ NtAlong(NtPathTo(x)', NtPathTo(y)') => x = y
    BY <1>2, <1>4 DEF NtUnique
  <2>5. ASSUME NEW x \in K \cup Y, NEW y \in K \cup Y, NtDepth(x)' = NtDepth(y)', NtAlong(NtPathTo(x)', NtPathTo(y)')
        PROVE  x = y
    BY <2>3, <2>4, <2>5
  <2> QED BY <2>5 DEF NtUnique
<1> QED BY <1>5, <1>7, <1>8

\* A node whose children changed.
NtUpdated(h, x, b, found) ==
  [h EXCEPT ![x].lost = @ \/ b, ![x].solid = FALSE, ![x].edges = NtEdgesLeft(@, found)]

\* What MakeMove writes into the node it leaves.
LEMMA Updated ==
  ASSUME NEW h \in [NtAddr -> NtNodes], NEW x \in NtAddr, NEW b \in BOOLEAN, NEW found \in BOOLEAN
  PROVE  /\ NtUpdated(h, x, b, found) \in [NtAddr -> NtNodes]
         /\ \A y \in NtAddr \ {x} : NtUpdated(h, x, b, found)[y] = h[y]
         /\ NtUpdated(h, x, b, found)[x].owner = h[x].owner
         /\ NtUpdated(h, x, b, found)[x].path = h[x].path
         /\ NtUpdated(h, x, b, found)[x].fen = h[x].fen
         /\ ~found => NtUpdated(h, x, b, found)[x].edges = "none"
<1>1. h[x] \in NtNodes
  OBVIOUS
<1>2. PICK l \in BOOLEAN : l = (h[x].lost \/ b)
  OBVIOUS
<1>3. PICK e \in NtMoves \cup {"none", "all"} : e = NtEdgesLeft(h[x].edges, found)
  BY <1>1 DEF NtNodes, NtEdgesLeft
<1>4. NtUpdated(h, x, b, found) = [h EXCEPT ![x].lost = l, ![x].solid = FALSE, ![x].edges = e]
  BY <1>2, <1>3 DEF NtUpdated
<1> DEFINE r == [owner |-> h[x].owner, fen |-> h[x].fen, path |-> h[x].path,
                 edges |-> e, solid |-> FALSE, lost |-> l]
<1>5. r \in NtNodes /\ (~found => r.edges = "none")
  BY <1>1, <1>3 DEF NtNodes, NtEdgesLeft
<1>6. NtUpdated(h, x, b, found) = [h EXCEPT ![x] = r]
  BY <1>1, <1>4 DEF NtNodes
<1>7. r.owner = h[x].owner /\ r.path = h[x].path /\ r.fen = h[x].fen
  OBVIOUS
<1> HIDE DEF r
<1> QED BY <1>5, <1>6, <1>7

\* MakeMove gives up the children of the head that the game did not take.
LEMMA ReleaseKeeps == ASSUME NtInv, NtMoveRelease PROVE NtInv'
<1> DEFINE m == Head(ntTodo)
           found == NtHasEdge(ntHeap, ntHead, m)
           kept == IF found THEN NtChildAt(ntHeap, ntHead, m) ELSE {}
           moved == ntHeap[ntHead].solid /\ kept # {}
           rest == NtChildren(ntHeap, ntHead) \ (IF moved THEN {} ELSE kept)
           g == NtRelease(ntHeap, rest)
           b == NtChildren(ntHeap, ntHead) # kept
           h == NtUpdated(g, ntHead, b, found)
<1>1. NtTypeOK /\ NtQueued
  BY DEF NtInv
<1>2. PICK G \in SUBSET NtAddr : NtGame(G)
  BY DEF NtInv
<1>3. /\ ntPc = "release" /\ ntPc' = "enter" /\ ntQueue' = NtEnqueue(rest)
      /\ UNCHANGED <<ntHead, ntFen, ntPath, ntTodo, ntOld, ntSeen, ntWas, ntResets>>
  BY DEF NtMoveRelease
<1>4. /\ NtHeapOK(ntHeap) /\ ntHead \in NtAddr /\ ntHead # NtNull /\ m \in NtMoves /\ ntPath \in Seq(NtMoves)
      /\ ntTodo \in Seq(NtMoves) /\ ntTodo # <<>>
  BY <1>1, <1>3 DEF NtTypeOK
<1>5. /\ ntHead \in G /\ NtHere \in Nat /\ NtDepth(ntHead) = NtHere
      /\ \A x \in G : NtDepth(x) = NtHere => x = ntHead
  BY <1>1, <1>2, <1>4, AtHead DEF NtGame, NtLine
<1>6. /\ NtChildren(ntHeap, ntHead) = {x \in NtAddr : NtOwner(x) = ntHead}
      /\ NtLive(ntHeap) = {x \in NtAddr : NtOwner(x) # "free"}
  BY <1>4, HeapIs DEF NtOwner
<1>7. \A x \in NtAddr : x \notin {"free", "begin", "gc"}
  BY NtAssumption
<1>8. \A x \in NtAddr : NtOwner(x) = ntHead =>
         /\ x \in G /\ NtDepth(x) = NtHere + 1 /\ NtAlong(NtPathTo(x), NtPathTo(ntHead))
         /\ x \in NtChildAt(ntHeap, ntHead, m) <=> NtPathTo(x)[NtHere + 1] = m
  <2>1. ASSUME NEW x \in NtAddr, NtOwner(x) = ntHead
        PROVE  x \in G /\ NtDepth(x) = NtHere + 1 /\ NtAlong(NtPathTo(x), NtPathTo(ntHead))
    <3>1. x \in G
      BY <1>1, <1>2, <1>5, <2>1, GameFacts
    <3>2. NtDepth(x) = NtDepth(NtOwner(x)) + 1 /\ NtAlong(NtPathTo(x), NtPathTo(NtOwner(x)))
      BY <1>2, <1>4, <1>7, <2>1, <3>1 DEF NtGame, NtRooted
    <3> QED BY <1>5, <2>1, <3>1, <3>2
  <2>2. ASSUME NEW x \in NtAddr, NtOwner(x) = ntHead
        PROVE  x \in NtChildAt(ntHeap, ntHead, m) <=> NtPathTo(x)[NtHere + 1] = m
    BY <1>6, <2>1, <2>2 DEF NtChildAt, Last, NtDepth, NtPathTo
  <2> QED BY <2>1, <2>2
<1>9. /\ NtHeapOK(g)
      /\ \A x \in NtAddr :
           /\ g[x].owner = (IF x \in rest THEN "gc" ELSE NtOwner(x)) /\ g[x].path = NtPathTo(x)
           /\ g[x].fen = ntHeap[x].fen /\ g[x].lost = ntHeap[x].lost /\ g[x].edges = ntHeap[x].edges
           /\ x \notin rest => g[x] = ntHeap[x]
  <2>1. rest \in SUBSET NtLive(ntHeap)
    BY DEF NtChildren
  <2> HIDE DEF rest
  <2> QED BY <1>4, <2>1, Released DEF NtOwner, NtPathTo
<1>10. rest \in SUBSET NtAddr /\ \A x \in rest : NtOwner(x) = ntHead
  BY <1>6
<1>11. found \in BOOLEAN /\ b \in BOOLEAN /\ moved \in BOOLEAN
  <2>1. ntHeap[ntHead].solid \in BOOLEAN
    BY <1>4 DEF NtHeapOK, NtNodes
  <2>2. (found <=> TRUE) \/ (found <=> FALSE)
    OBVIOUS
  <2> QED BY <2>1 DEF NtHasEdge
<1>12. ntHead \notin rest
  BY <1>5, <1>8, <1>10
<1>13. /\ NtHeapOK(h)
       /\ \A x \in NtAddr :
            /\ h[x].owner = (IF x \in rest THEN "gc" ELSE NtOwner(x)) /\ h[x].path = NtPathTo(x)
            /\ h[x].fen = ntHeap[x].fen
            /\ x # ntHead => h[x].lost = ntHeap[x].lost
            /\ x # ntHead /\ x \notin rest => h[x] = ntHeap[x]
       /\ ~found => h[ntHead].edges = "none"
  <2>1. g[ntHead].owner # "free"
    BY <1>5, <1>2, <1>6, <1>9, <1>12 DEF NtGame
  <2>2. g \in [NtAddr -> NtNodes]
    BY <1>9 DEF NtHeapOK
  <2> HIDE DEF g, b, found, rest
  <2>3. /\ h \in [NtAddr -> NtNodes]
        /\ \A y \in NtAddr \ {ntHead} : h[y] = g[y]
        /\ h[ntHead].owner = g[ntHead].owner /\ h[ntHead].path = g[ntHead].path /\ h[ntHead].fen = g[ntHead].fen
        /\ ~found => h[ntHead].edges = "none"
    BY <1>4, <1>11, <2>2, Updated
  <2>4. NtHeapOK(h)
    BY <1>9, <2>1, <2>3 DEF NtHeapOK
  <2> HIDE DEF h
  <2> QED BY <1>4, <1>9, <1>12, <2>3, <2>4
<1>14. PICK K \in SUBSET G : K = {x \in G : NtDepth(x) <= NtHere \/ (kept # {} /\ NtPathTo(x)[NtHere + 1] = m)}
  OBVIOUS
<1>15. \A x \in NtAddr : NtPathTo(x) \in Seq(NtMoves) /\ NtDepth(x) \in Nat
  BY <1>1, <1>2, GameFacts
<1>16. kept \subseteq {x \in NtAddr : NtOwner(x) = ntHead /\ NtPathTo(x)[NtHere + 1] = m}
  BY <1>6, <1>8 DEF NtChildAt
<1>17. kept # {} => kept = {x \in NtAddr : NtOwner(x) = ntHead /\ NtPathTo(x)[NtHere + 1] = m}
  <2>1. kept # {} => kept = NtChildAt(ntHeap, ntHead, m)
    OBVIOUS
  <2>2. NtChildAt(ntHeap, ntHead, m) \subseteq NtAddr /\ \A x \in NtChildAt(ntHeap, ntHead, m) : NtOwner(x) = ntHead
    BY <1>6 DEF NtChildAt
  <2> QED BY <1>8, <2>1, <2>2
<1>18. \A x \in G : NtOwner(x) = "begin" \/
          (NtOwner(x) \in G /\ NtDepth(x) = NtDepth(NtOwner(x)) + 1 /\ NtAlong(NtPathTo(x), NtPathTo(NtOwner(x))))
  BY <1>2 DEF NtGame, NtRooted
<1>19. \A x \in G : NtOwner(x) \in G /\ NtDepth(NtOwner(x)) > NtHere =>
           NtPathTo(x)[NtHere + 1] = NtPathTo(NtOwner(x))[NtHere + 1]
  <2>1. ASSUME NEW x \in G, NtOwner(x) \in G, NtDepth(NtOwner(x)) > NtHere
        PROVE  NtPathTo(x)[NtHere + 1] = NtPathTo(NtOwner(x))[NtHere + 1]
    <3>1. NtDepth(x) = NtDepth(NtOwner(x)) + 1 /\ NtAlong(NtPathTo(x), NtPathTo(NtOwner(x)))
      BY <1>7, <1>18, <2>1
    <3>2. NtDepth(x) \in Nat /\ NtDepth(NtOwner(x)) \in Nat
      BY <1>15, <2>1
    <3> QED BY <1>5, <2>1, <3>1, <3>2 DEF NtAlong, NtDepth
  <2> QED BY <2>1
<1>20. \A x \in K : NtOwner(x) = "begin" \/ NtOwner(x) \in K
  <2>1. ASSUME NEW x \in K, NtOwner(x) # "begin"
        PROVE  NtOwner(x) \in K
    <3>1. NtOwner(x) \in G /\ NtDepth(x) = NtDepth(NtOwner(x)) + 1 /\ NtDepth(NtOwner(x)) \in Nat
      BY <1>15, <1>18, <2>1
    <3>2. CASE NtDepth(NtOwner(x)) <= NtHere
      BY <1>14, <3>1, <3>2
    <3>3. CASE NtDepth(NtOwner(x)) > NtHere
      <4>1. NtPathTo(NtOwner(x))[NtHere + 1] = m /\ kept # {}
        BY <1>5, <1>14, <1>19, <3>1, <3>3
      <4> QED BY <1>14, <3>1, <4>1
    <3> QED BY <1>5, <3>1, <3>2, <3>3
  <2> QED BY <2>1
<1>21. \A x \in NtAddr \ K : x \in rest \/ NtOwner(x) \notin K \cup {"begin"}
  <2>1. ASSUME NEW x \in NtAddr \ K, NtOwner(x) \in K \cup {"begin"}
        PROVE  x \in rest
    <3>1. x \in G
      BY <1>1, <1>2, <2>1, GameFacts
    <3>2. NtDepth(x) > NtHere /\ (kept = {} \/ NtPathTo(x)[NtHere + 1] # m) /\ NtDepth(x) \in Nat
      BY <1>5, <1>14, <1>15, <2>1, <3>1
    <3>3. NtOwner(x) \in K
      BY <1>2, <1>5, <1>7, <2>1, <3>1, <3>2 DEF NtGame, NtRooted
    <3>4. NtDepth(x) = NtDepth(NtOwner(x)) + 1 /\ NtDepth(NtOwner(x)) \in Nat
      BY <1>7, <1>15, <1>18, <3>1, <3>3
    <3>5. ~(NtDepth(NtOwner(x)) > NtHere)
      BY <1>5, <1>14, <1>19, <3>1, <3>2, <3>3, <3>4
    <3>6. NtOwner(x) = ntHead
      BY <1>5, <3>2, <3>3, <3>4, <3>5
    <3>7. x \notin kept
      BY <1>16, <3>2
    <3> QED BY <1>6, <3>6, <3>7
  <2> QED BY <2>1
<1>22. ~moved => \A x \in K : x \notin rest
  <2>1. ASSUME NEW x \in K, x \in rest, ~moved
        PROVE  FALSE
    <3>1. NtOwner(x) = ntHead /\ NtDepth(x) = NtHere + 1 /\ x \notin kept
      BY <1>8, <1>10, <2>1
    <3>2. kept # {} /\ NtPathTo(x)[NtHere + 1] = m
      BY <1>5, <1>14, <3>1
    <3> QED BY <1>17, <3>1, <3>2
  <2> QED BY <2>1
<1>23. \A x \in K : ntHeap[x].lost =>
         \/ NtDepth(x) <= NtHere
         \/ /\ ~ntSeen /\ NtDepth(x) < Len(ntWas.path) /\ NtAlong(NtPathTo(x), ntWas.path)
            /\ ntOld \in K /\ NtDepth(ntOld) = Len(ntWas.path) /\ NtAlong(NtPathTo(ntOld), ntWas.path)
            /\ NtDepth(ntOld) > NtHere + 1
  <2>1. ASSUME NEW x \in K, ntHeap[x].lost, ~(NtDepth(x) <= NtHere)
        PROVE  /\ ~ntSeen /\ NtDepth(x) < Len(ntWas.path) /\ NtAlong(NtPathTo(x), ntWas.path)
               /\ ntOld \in K /\ NtDepth(ntOld) = Len(ntWas.path) /\ NtAlong(NtPathTo(ntOld), ntWas.path)
               /\ NtDepth(ntOld) > NtHere + 1
    <3>1. /\ ~ntSeen /\ NtDepth(x) < Len(ntWas.path) /\ NtAlong(NtPathTo(x), ntWas.path)
          /\ ntOld \in G /\ NtDepth(ntOld) = Len(ntWas.path) /\ NtAlong(NtPathTo(ntOld), ntWas.path)
      BY <1>2, <1>3, <1>5, <1>15, <2>1 DEF NtGame, NtLostAbove
    <3>2. NtDepth(x) \in Nat /\ NtDepth(ntOld) \in Nat /\ ntWas.path \in Seq(NtMoves)
      BY <1>1, <1>15, <3>1 DEF NtTypeOK
    <3>3. NtDepth(ntOld) > NtHere + 1 /\ NtDepth(x) >= NtHere + 1
      BY <1>5, <2>1, <3>1, <3>2
    <3>4. kept # {} /\ NtPathTo(x)[NtHere + 1] = m
      BY <1>14, <2>1
    <3>5. ntWas.path[NtHere + 1] = m
      BY <1>5, <3>1, <3>2, <3>3, <3>4 DEF NtAlong, NtDepth
    <3>6. NtPathTo(ntOld)[NtHere + 1] = m
      BY <1>5, <3>1, <3>2, <3>3, <3>5 DEF NtAlong, NtDepth
    <3> QED BY <1>14, <3>1, <3>3, <3>4, <3>6
  <2> QED BY <2>1
<1>24. ntPath' = ntPath /\ NtHere' = NtHere /\ NtHere >= 0 /\ ntHead \in K /\ Head(ntTodo)' = m
  BY <1>3, <1>5, <1>14 DEF NtHere
<1>25. \A k \in 0..NtHere : \E x \in K : NtDepth(x) = k
  <2>1. ASSUME NEW k \in 0..NtHere
        PROVE  \E x \in K : NtDepth(x) = k
    <3>1. PICK x \in G : NtDepth(x) = k
      BY <1>2, <1>4 DEF NtGame, NtLine
    <3> QED BY <1>14, <3>1, <1>5
  <2> QED BY <2>1
<1>26. NtPathTo(ntHead) \in Seq(NtMoves) /\ NtAlong(NtPathTo(ntHead), ntPath) /\ Len(NtPathTo(ntHead)) = Len(ntPath)
  BY <1>2, <1>4, <1>5, <1>15 DEF NtGame, NtLine, NtDepth, NtHere
<1>27. ASSUME NtHeapOK(ntHeap'), ntQueue' \in Seq(SUBSET NtAddr) PROVE NtTypeOK'
  BY <1>1, <1>3, <1>27 DEF NtTypeOK
<1>28. ASSUME ~moved, NEW Y \in SUBSET NtAddr, NtHeapOK(ntHeap'),
              \A x \in NtAddr \ Y : ntHeap'[x] = h[x],
              \A y \in Y : /\ ntHeap'[y] = NtNode(ntHead, ntFen, Append(ntPath, m))
                           /\ NtOwner(y) = "free" /\ kept = {},
              \A x, y \in Y : x = y, Y = {} /\ found => kept # {}
       PROVE  NtInv'
  <2> HIDE DEF m, found, kept, moved, rest, g, b, h
  <2>1. \A x \in K : x \notin Y /\ x \in NtAddr
    BY <1>2, <1>6, <1>28 DEF NtGame
  <2>2. \A x \in NtAddr \ Y :
          /\ NtOwner(x)' = (IF x \in rest THEN "gc" ELSE NtOwner(x)) /\ NtPathTo(x)' = NtPathTo(x)
          /\ ntHeap'[x].fen = ntHeap[x].fen /\ NtDepth(x)' = NtDepth(x)
          /\ x # ntHead => ntHeap'[x].lost = ntHeap[x].lost
    BY <1>13, <1>28 DEF NtOwner, NtPathTo, NtDepth
  <2>3. \A y \in Y : /\ NtOwner(y)' = ntHead /\ ntHeap'[y].fen = ntFen /\ NtPathTo(y)' = Append(ntPath, m)
                     /\ ~ntHeap'[y].lost
    BY <1>28 DEF NtOwner, NtPathTo, NtNode
  <2>4. \A y \in Y : /\ NtDepth(y)' = NtHere + 1 /\ NtAlong(NtPathTo(y)', ntPath)
                     /\ NtPathTo(y)'[NtHere + 1] = m /\ NtPathTo(y)' \in Seq(NtMoves)
    BY <1>4, <2>3, Steps DEF NtDepth, NtHere
  <2>5. \A y \in Y : NtAlong(NtPathTo(y)', NtPathTo(ntHead))
    <3>1. NtAlong(ntPath, NtPathTo(ntHead))
      BY <1>4, <1>26, AlongBack
    <3> QED BY <1>4, <1>26, <2>4, <3>1, AlongOn
  <2>6. NtQueued' /\ ntQueue' \in Seq(SUBSET NtAddr)
    <3>1. \A x \in rest : NtOwner(x) # "gc" /\ NtOwner(x)' = "gc"
      BY <1>4, <1>7, <1>10, <1>28, <2>2
    <3>2. \A x \in NtAddr \ rest : NtOwner(x)' = "gc" <=> NtOwner(x) = "gc"
      BY <1>4, <1>7, <1>28, <2>2, <2>3
    <3> QED BY <1>1, <1>3, <1>10, <3>1, <3>2, QueueGrows
  <2>7. NtTypeOK'
    BY <1>27, <1>28, <2>6
  <2>8. (K \cup Y) \subseteq NtLive(ntHeap)' /\ NtRooted(K \cup Y)' /\ NtUnique(K \cup Y)'
    <3>1. \A x \in K : /\ NtOwner(x)' = NtOwner(x) /\ NtPathTo(x)' = NtPathTo(x)
                       /\ ntHeap'[x].fen = ntHeap[x].fen
                       /\ NtOwner(x) = "begin" \/ NtOwner(x) \in K
      BY <1>20, <1>22, <1>28, <2>1, <2>2
    <3>2. \A x \in NtAddr \ (K \cup Y) :
             NtOwner(x)' = "gc" \/ (NtOwner(x)' = NtOwner(x) /\ NtOwner(x) \notin K \cup {"begin"})
      BY <1>21, <2>2
    <3>3. \A y \in Y : /\ ntHead \in K /\ NtOwner(y) = "free" /\ NtOwner(y)' = ntHead /\ ntHeap'[y].fen = ntFen
                       /\ NtDepth(y)' = NtDepth(ntHead) + 1 /\ NtAlong(NtPathTo(y)', NtPathTo(ntHead))
                       /\ \A x \in K : NtDepth(x) = NtDepth(ntHead) + 1 => ~NtAlong(NtPathTo(x), NtPathTo(y)')
      <4>1. \A y \in Y : \A x \in K : NtDepth(x) # NtDepth(ntHead) + 1
        BY <1>5, <1>14, <1>28
      <4> QED BY <1>5, <1>24, <1>28, <2>3, <2>4, <2>5, <4>1
    <3> QED BY <1>1, <1>2, <1>3, <1>28, <2>7, <3>1, <3>2, <3>3, Pruned
  <2>9. NtLine(K \cup Y)'
    <3>1. \A x \in K : NtAlong(NtPathTo(x)', ntPath') /\ NtDepth(x)' = NtDepth(x)
      BY <1>2, <1>4, <1>24, <2>1, <2>2 DEF NtGame, NtLine
    <3>2. NtDepth(ntHead)' = NtHere'
      BY <1>3, <1>5, <1>24, <3>1 DEF NtDepth, NtPathTo
    <3>3. \A k \in 0..NtHere' : \E x \in K \cup Y : NtDepth(x)' = k
      BY <1>24, <1>25, <3>1
    <3> QED BY <1>3, <1>4, <1>24, <2>4, <3>1, <3>2, <3>3 DEF NtLine
  <2>10. NtEntering(K \cup Y)'
    <3>1. \A x \in K \cup Y : NtDepth(x)' > NtHere' => NtPathTo(x)'[NtHere' + 1] = m
      BY <1>5, <1>14, <1>15, <1>24, <2>1, <2>2, <2>4
    <3>2. ASSUME \A x \in NtAddr : NtOwner(x)' # ntHead' PROVE ntHeap'[ntHead'].edges = "none"
      <4>1. ~found
        <5>1. SUFFICES ASSUME found PROVE FALSE
          OBVIOUS
        <5>2. Y = {}
          BY <1>3, <2>3, <3>2
        <5>3. PICK x \in kept : TRUE
          BY <1>28, <5>1, <5>2
        <5>4. NtOwner(x) = ntHead /\ x \in NtAddr /\ x \notin rest
          BY <1>16, <1>28, <5>3 DEF rest
        <5> QED BY <1>3, <2>2, <3>2, <5>2, <5>4
      <4>2. ntHead \in NtAddr \ Y
        BY <1>4, <1>24, <2>1
      <4> QED BY <1>3, <1>13, <1>28, <4>1, <4>2
    <3> QED BY <1>24, <3>1, <3>2 DEF NtEntering
  <2>11. NtLostAbove(K \cup Y)'
    <3>1. ASSUME NEW x \in K \cup Y, ntHeap'[x].lost
          PROVE  \/ NtDepth(x)' < NtHere'
                 \/ ntPc' = "enter" /\ NtDepth(x)' = NtHere'
                 \/ /\ ntPc' # "idle" /\ ~ntSeen'
                    /\ NtDepth(x)' < Len(ntWas'.path) /\ NtAlong(NtPathTo(x)', ntWas'.path)
                    /\ ntOld' \in K \cup Y /\ NtDepth(ntOld)' = Len(ntWas'.path)
                    /\ NtAlong(NtPathTo(ntOld)', ntWas'.path)
      <4>1. x \in K /\ x \notin Y /\ x \in NtAddr /\ NtDepth(x) \in Nat
        BY <1>15, <2>1, <2>3, <3>1
      <4>2. CASE NtDepth(x) <= NtHere
        BY <1>3, <1>5, <1>24, <2>2, <4>1, <4>2
      <4>3. CASE ~(NtDepth(x) <= NtHere)
        <5>1. ntHeap[x].lost
          BY <1>5, <2>2, <3>1, <4>1, <4>3
        <5>2. /\ ~ntSeen /\ NtDepth(x) < Len(ntWas.path) /\ NtAlong(NtPathTo(x), ntWas.path)
              /\ ntOld \in K /\ NtDepth(ntOld) = Len(ntWas.path) /\ NtAlong(NtPathTo(ntOld), ntWas.path)
          BY <1>23, <4>1, <4>3, <5>1
        <5>3. NtDepth(ntOld)' = NtDepth(ntOld) /\ NtPathTo(ntOld)' = NtPathTo(ntOld)
          <6>1. ntOld' = ntOld /\ ntHeap'[ntOld].path = ntHeap[ntOld].path
            BY <1>3, <2>1, <2>2, <5>2 DEF NtPathTo
          <6> QED BY <6>1 DEF NtDepth, NtPathTo
        <5> QED BY <1>3, <2>2, <4>1, <5>2, <5>3
      <4> QED BY <4>2, <4>3
    <3> QED BY <3>1 DEF NtLostAbove
  <2>12. NtGame(K \cup Y)'
    BY <2>8, <2>9, <2>10, <2>11 DEF NtGame
  <2> QED BY <2>6, <2>7, <2>12 DEF NtInv
<1>29. CASE ~found \/ (kept # {} /\ ~moved)
  <2>1. ntHeap' = h
    BY <1>29 DEF NtMoveRelease, NtUpdated
  <2>2. ~moved
    BY <1>29
  <2>3. NtHeapOK(ntHeap') /\ {} \in SUBSET NtAddr /\ (\A x \in NtAddr \ {} : ntHeap'[x] = h[x]) /\ (found => kept # {})
    BY <1>13, <1>29, <2>1
  <2> HIDE DEF m, found, kept, moved, rest, g, b, h
  <2> QED BY <1>28, <2>2, <2>3
<1>30. CASE found /\ ~moved /\ kept = {}
  <2>1. PICK y \in NtAddr \ NtLive(h) : ntHeap' = [h EXCEPT ![y] = NtNode(ntHead, ntFen, Append(ntPath, m))]
    BY <1>30 DEF NtMoveRelease, NtUpdated
  <2>2. NtNode(ntHead, ntFen, Append(ntPath, m)) \in NtNodes /\ NtNode(ntHead, ntFen, Append(ntPath, m)).owner = ntHead
    <3>1. Append(ntPath, m) \in Seq(NtMoves) /\ ntHead \in NtOwners /\ ntFen \in NtFens
      BY <1>1, <1>4 DEF NtOwners, NtTypeOK
    <3>2. NtNode(ntHead, ntFen, Append(ntPath, m)) \in NtNodes
      BY <3>1, NodeOK
    <3> QED BY <3>2 DEF NtNode
  <2>3. h[y].owner = "free" /\ y \in NtAddr /\ y \notin rest /\ NtOwner(y) = "free"
    <3>1. h[y].owner = "free" /\ y \in NtAddr
      <4> HIDE DEF h
      <4> QED BY <1>13, <2>1, HeapIs
    <3> QED BY <1>13, <3>1
  <2> HIDE DEF m, found, kept, moved, rest, g, b, h
  <2>4. /\ NtHeapOK(ntHeap') /\ ntHeap'[y] = NtNode(ntHead, ntFen, Append(ntPath, m))
        /\ \A x \in NtAddr \ {y} : ntHeap'[x] = h[x]
    <3> DEFINE r == NtNode(ntHead, ntFen, Append(ntPath, m))
    <3>1. r \in NtNodes /\ r.owner # "free" /\ ntHeap' = [h EXCEPT ![y] = r]
      BY <1>4, <1>7, <2>1, <2>2
    <3> HIDE DEF r
    <3>2. NtHeapOK(h)
      BY <1>13
    <3>3. NtHeapOK(ntHeap') /\ ntHeap'[y] = r /\ \A x \in NtAddr \ {y} : ntHeap'[x] = h[x]
      BY <2>3, <3>1, <3>2 DEF NtHeapOK
    <3> QED BY <3>3 DEF r
  <2>5. /\ {y} \in SUBSET NtAddr /\ (\A x, z \in {y} : x = z)
        /\ \A z \in {y} : /\ ntHeap'[z] = NtNode(ntHead, ntFen, Append(ntPath, m))
                          /\ NtOwner(z) = "free" /\ kept = {}
    BY <1>30, <2>3, <2>4
  <2> QED BY <1>28, <1>30, <2>4, <2>5
<1>31. CASE moved
  <2>1. PICK k \in kept : k = CHOOSE z \in kept : TRUE
    BY <1>31
  <2>2. /\ k \in NtAddr /\ NtOwner(k) = ntHead /\ NtPathTo(k)[NtHere + 1] = m /\ k \in G
        /\ NtDepth(k) = NtHere + 1 /\ NtAlong(NtPathTo(k), NtPathTo(ntHead)) /\ k # ntHead
    BY <1>5, <1>8, <1>16, <2>1
  <2>3. rest = {x \in NtAddr : NtOwner(x) = ntHead}
    BY <1>6, <1>31
  <2>4. PICK y \in NtAddr \ NtLive(h) :
          ntHeap' = [x \in NtAddr |->
                       IF x = y THEN ntHeap[k]
                       ELSE IF x = k THEN NtNode("gc", ntFen, Append(ntPath, m))
                       ELSE IF h[x] # NtFree /\ h[x].owner = k THEN [h[x] EXCEPT !.owner = y]
                       ELSE h[x]]
    <3>1. found /\ kept # {} /\ ~(~found \/ (kept # {} /\ ~moved)) /\ k = CHOOSE z \in kept : TRUE
      BY <1>31, <2>1
    <3>2. IF ~found \/ (kept # {} /\ ~moved) THEN ntHeap' = h
          ELSE \E y \in NtAddr \ NtLive(h) :
                  ntHeap' = IF ~moved THEN [h EXCEPT ![y] = NtNode(ntHead, ntFen, Append(ntPath, m))]
                            ELSE [x \in NtAddr |->
                                        IF x = y THEN ntHeap[CHOOSE z \in kept : TRUE]
                                        ELSE IF x = (CHOOSE z \in kept : TRUE) THEN NtNode("gc", ntFen, Append(ntPath, m))
                                        ELSE IF h[x] # NtFree /\ h[x].owner = (CHOOSE z \in kept : TRUE) THEN [h[x] EXCEPT !.owner = y]
                                        ELSE h[x]]
      BY Zenon DEF NtMoveRelease, NtUpdated
    <3> HIDE DEF m, found, kept, moved, rest, g, b, h
    <3> QED BY <1>31, <3>1, <3>2, Zenon
  <2>5. y \in NtAddr /\ NtOwner(y) = "free" /\ y \notin G /\ y # k /\ y # ntHead
    <3>1. h[y].owner = "free" /\ y \in NtAddr
      <4> HIDE DEF h
      <4> QED BY <1>13, <2>4, HeapIs
    <3>2. NtOwner(y) = "free"
      BY <1>13, <3>1
    <3> QED BY <1>2, <1>5, <1>6, <2>2, <3>1, <3>2 DEF NtGame
  <2>6. kept # {} /\ k \in K /\ K = {x \in G : NtDepth(x) <= NtHere \/ NtPathTo(x)[NtHere + 1] = m}
    BY <1>14, <2>1, <2>2
  <2>7. \A x \in K : NtOwner(x) = ntHead => x = k
    <3>1. ASSUME NEW x \in K, NtOwner(x) = ntHead
          PROVE  x = k
      <4>1. NtDepth(x) = NtHere + 1 /\ NtAlong(NtPathTo(x), NtPathTo(ntHead)) /\ x \in G /\ x \in NtAddr
        BY <1>8, <3>1
      <4>2. NtPathTo(x)[NtHere + 1] = m
        BY <1>5, <2>6, <4>1
      <4>3. NtAlong(NtPathTo(x), NtPathTo(k))
        <5>1. NtPathTo(x) \in Seq(NtMoves) /\ NtPathTo(k) \in Seq(NtMoves) /\ NtPathTo(ntHead) \in Seq(NtMoves)
          BY <1>4, <1>15, <2>2, <4>1
        <5> QED BY <1>5, <2>2, <4>1, <4>2, <5>1 DEF NtAlong, NtDepth
      <4> QED BY <1>2, <2>2, <4>1, <4>3 DEF NtGame, NtUnique
    <3> QED BY <3>1
  <2> HIDE DEF m, found, kept, moved, rest, g, b, h
  <2>8. \A x \in NtAddr \ {y, k} :
          /\ ntHeap'[x] \in NtNodes /\ (ntHeap'[x].owner = "free" => ntHeap'[x] = NtFree)
          /\ NtOwner(x)' = (IF NtOwner(x) = ntHead THEN "gc" ELSE IF NtOwner(x) = k THEN y ELSE NtOwner(x))
          /\ NtPathTo(x)' = NtPathTo(x) /\ NtDepth(x)' = NtDepth(x) /\ ntHeap'[x].fen = ntHeap[x].fen
          /\ x # ntHead => ntHeap'[x].lost = ntHeap[x].lost
    <3>1. ASSUME NEW x \in NtAddr \ {y, k}
          PROVE  /\ ntHeap'[x] \in NtNodes /\ (ntHeap'[x].owner = "free" => ntHeap'[x] = NtFree)
                 /\ ntHeap'[x].owner = (IF NtOwner(x) = ntHead THEN "gc" ELSE IF NtOwner(x) = k THEN y ELSE NtOwner(x))
                 /\ ntHeap'[x].path = ntHeap[x].path /\ ntHeap'[x].fen = ntHeap[x].fen
                 /\ x # ntHead => ntHeap'[x].lost = ntHeap[x].lost
      <4>1. /\ h[x] \in NtNodes /\ (h[x].owner = "free" => h[x] = NtFree)
            /\ h[x].owner = (IF NtOwner(x) = ntHead THEN "gc" ELSE NtOwner(x)) /\ h[x].path = ntHeap[x].path
            /\ h[x].fen = ntHeap[x].fen /\ (x # ntHead => h[x].lost = ntHeap[x].lost)
        BY <1>13, <2>3 DEF NtHeapOK, NtPathTo
      <4>2. CASE h[x] # NtFree /\ h[x].owner = k
        <5>1. ntHeap'[x] = [h[x] EXCEPT !.owner = y]
          BY <2>4, <3>1, <4>2, Zenon
        <5>2. y \in NtOwners /\ y # "free" /\ k # "gc"
          BY <1>7, <2>2, <2>5 DEF NtOwners
        <5>3. /\ ntHeap'[x] \in NtNodes /\ ntHeap'[x].owner = y /\ ntHeap'[x].path = h[x].path
              /\ ntHeap'[x].fen = h[x].fen /\ ntHeap'[x].lost = h[x].lost
          BY <4>1, <5>1, <5>2, Reowned
        <5>4. NtOwner(x) = k /\ NtOwner(x) # ntHead
          BY <2>2, <4>1, <4>2, <5>2
        <5> QED BY <4>1, <5>2, <5>3, <5>4
      <4>3. CASE ~(h[x] # NtFree /\ h[x].owner = k)
        <5>1. ntHeap'[x] = h[x]
          BY <2>4, <3>1, <4>3, Zenon
        <5>2. NtFree.owner = "free" /\ k # "free"
          BY <1>7, <2>2 DEF NtFree, NtNode
        <5>3. h[x].owner # k
          BY <4>3, <5>2
        <5>4. NtOwner(x) # ntHead => NtOwner(x) # k
          BY <4>1, <5>3
        <5> QED BY <4>1, <5>1, <5>4
      <4> QED BY <4>2, <4>3
    <3> QED BY <3>1 DEF NtOwner, NtPathTo, NtDepth
  <2>9. /\ ntHeap'[y] = ntHeap[k] /\ NtOwner(y)' = ntHead /\ NtPathTo(y)' = NtPathTo(k) /\ NtDepth(y)' = NtDepth(k)
        /\ ntHeap'[y].fen = ntHeap[k].fen /\ ntHeap'[y].lost = ntHeap[k].lost
    <3>1. ntHeap'[y] = ntHeap[k]
      BY <2>4, <2>5, Zenon
    <3> QED BY <2>2, <3>1 DEF NtOwner, NtPathTo, NtDepth
  <2>10. ntHeap'[k] = NtNode("gc", ntFen, Append(ntPath, m)) /\ NtOwner(k)' = "gc"
    <3>1. ntHeap'[k] = NtNode("gc", ntFen, Append(ntPath, m))
      BY <2>2, <2>4, <2>5, Zenon
    <3> QED BY <3>1 DEF NtOwner, NtNode
  <2>11. NtHeapOK(ntHeap')
    <3>1. ntHeap[k] \in NtNodes
      BY <1>4, <2>2 DEF NtHeapOK
    <3>2. NtNode("gc", ntFen, Append(ntPath, m)) \in NtNodes
      <4>1. Append(ntPath, m) \in Seq(NtMoves) /\ "gc" \in NtOwners /\ ntFen \in NtFens
        BY <1>1, <1>4 DEF NtOwners, NtTypeOK
      <4> QED BY <4>1, NodeOK
    <3>3. \A x \in NtAddr : ntHeap'[x] \in NtNodes /\ (ntHeap'[x].owner = "free" => ntHeap'[x] = NtFree)
      <4>1. ntHeap'[y].owner # "free" /\ ntHeap'[k].owner # "free"
        BY <1>4, <1>7, <2>9, <2>10 DEF NtOwner
      <4> QED BY <2>8, <2>9, <2>10, <3>1, <3>2, <4>1
    <3>4. ntHeap' = [x \in NtAddr |-> ntHeap'[x]]
      BY <2>4, Zenon
    <3>5. ntHeap' \in [NtAddr -> NtNodes]
      BY <3>3, <3>4, Zenon
    <3> QED BY <3>3, <3>5 DEF NtHeapOK
  <2>12. NtQueued' /\ ntQueue' \in Seq(SUBSET NtAddr)
    <3>1. \A x \in rest : NtOwner(x) # "gc" /\ NtOwner(x)' = "gc"
      BY <1>4, <1>7, <1>10, <2>5, <2>8, <2>10
    <3>2. \A x \in NtAddr \ rest : NtOwner(x)' = "gc" <=> NtOwner(x) = "gc"
      <4>1. ASSUME NEW x \in NtAddr \ rest
            PROVE  NtOwner(x)' = "gc" <=> NtOwner(x) = "gc"
        <5>1. x # k /\ NtOwner(x) # ntHead /\ k # "gc" /\ y # "gc" /\ ntHead # "gc"
          BY <1>4, <1>7, <2>2, <2>3, <2>5
        <5>2. CASE x = y
          BY <2>5, <2>9, <5>1, <5>2
        <5>3. CASE x # y
          BY <2>8, <5>1, <5>3
        <5> QED BY <5>2, <5>3
      <4> QED BY <4>1
    <3> QED BY <1>1, <1>3, <1>10, <3>1, <3>2, QueueGrows
  <2>13. NtTypeOK'
    BY <1>27, <2>11, <2>12
  <2>14. PICK H \in SUBSET NtAddr : H = (K \ {k}) \cup {y}
    BY <2>5
  <2>15. \A x \in H : x = y \/ (x \in K /\ x \in NtAddr \ {y, k} /\ x \in G)
    BY <2>5, <2>14
  <2>16. \A x \in K \ {k} :
           /\ NtOwner(x)' = (IF NtOwner(x) = k THEN y ELSE NtOwner(x)) /\ NtPathTo(x)' = NtPathTo(x)
           /\ NtDepth(x)' = NtDepth(x) /\ ntHeap'[x].fen = ntHeap[x].fen
           /\ x # ntHead => ntHeap'[x].lost = ntHeap[x].lost
    BY <2>2, <2>5, <2>7, <2>8
  <2>17. \A x \in NtAddr : NtOwner(x)' = "free" => NtOwner(x) = "free" \/ x = y
    <3>1. ASSUME NEW x \in NtAddr, NtOwner(x)' = "free", x # y
          PROVE  NtOwner(x) = "free"
      <4>1. x # k
        BY <2>10, <3>1
      <4> QED BY <1>7, <2>5, <2>8, <3>1, <4>1
    <3> QED BY <3>1
  <2>18. NtLive(ntHeap') = {x \in NtAddr : NtOwner(x)' # "free"}
    BY <2>11, HeapIs DEF NtOwner
  <2>19. H \subseteq NtLive(ntHeap)'
    <3>1. \A x \in G : NtOwner(x) # "free"
      BY <1>2, <1>6 DEF NtGame
    <3>2. NtOwner(y)' # "free"
      BY <1>4, <1>7, <2>9
    <3> QED BY <2>15, <2>17, <2>18, <3>1, <3>2, <2>14
  <2>20. NtRooted(H)'
    <3>1. ASSUME NEW x \in H
          PROVE  /\ ntHeap'[x].fen = ntFen'
                 /\ \/ NtOwner(x)' = "begin" /\ NtDepth(x)' = 0
                    \/ \E o \in H : /\ NtOwner(x)' = o /\ NtDepth(x)' = NtDepth(o)' + 1
                                    /\ NtAlong(NtPathTo(x)', NtPathTo(o)')
      <4>1. \A z \in G : ntHeap[z].fen = ntFen /\ (NtOwner(z) = "begin" => NtDepth(z) = 0)
        BY <1>2, <1>7 DEF NtGame, NtRooted
      <4>2. CASE x = y
        <5>1. ntHead \in K \ {k} /\ ntHead \in H
          BY <1>24, <2>2, <2>14
        <5> QED BY <1>3, <1>5, <2>2, <2>9, <2>16, <4>1, <4>2, <5>1
      <4>3. CASE x # y
        <5>1. x \in K \ {k} /\ x \in G
          BY <2>14, <2>15, <4>3
        <5>2. CASE NtOwner(x) = "begin"
          BY <1>3, <1>7, <2>2, <2>16, <4>1, <5>1, <5>2
        <5>3. CASE NtOwner(x) # "begin"
          <6>1. NtOwner(x) \in K /\ NtDepth(x) = NtDepth(NtOwner(x)) + 1 /\ NtAlong(NtPathTo(x), NtPathTo(NtOwner(x)))
            BY <1>18, <1>20, <5>1, <5>3
          <6>2. CASE NtOwner(x) = k
            BY <1>3, <2>9, <2>14, <2>16, <4>1, <5>1, <6>1, <6>2
          <6>3. CASE NtOwner(x) # k
            <7>1. PICK o \in K \ {k} : o = NtOwner(x)
              BY <6>1, <6>3
            <7>2. NtOwner(x)' = o /\ NtDepth(o)' = NtDepth(o) /\ NtPathTo(o)' = NtPathTo(o) /\ o \in H
              BY <2>14, <2>16, <5>1, <6>3, <7>1
            <7> QED BY <1>3, <2>16, <4>1, <5>1, <6>1, <7>1, <7>2
          <6> QED BY <6>2, <6>3
        <5> QED BY <5>2, <5>3
      <4> QED BY <4>2, <4>3
    <3>2. ASSUME NEW x \in H, NEW o, NtOwner(x)' = o
          PROVE  NtDepth(NtOwner(x))' = NtDepth(o)' /\ NtPathTo(NtOwner(x))' = NtPathTo(o)'
      BY <3>2 DEF NtDepth, NtPathTo
    <3>3. ASSUME NEW x \in NtLive(ntHeap') \ H, NtOwner(x)' # "gc"
          PROVE  NtOwner(x)' \in NtLive(ntHeap') \ H
      <4>1. x \in NtAddr \ K /\ x # y /\ x # k /\ NtOwner(x)' # "free"
        BY <2>6, <2>10, <2>14, <2>18, <3>3
      <4>2. x \notin rest /\ NtOwner(x) \notin K \cup {"begin"}
        BY <1>21, <2>3, <2>8, <3>3, <4>1
      <4>3. NtOwner(x)' = NtOwner(x) /\ NtOwner(x) # ntHead /\ NtOwner(x) # k
        BY <1>24, <2>6, <2>8, <4>1, <4>2
      <4>4. NtOwner(x) \in NtLive(ntHeap)
        BY <1>1, <1>2, <3>3, <4>1, <4>2, <4>3, GameFacts
      <4>5. PICK z \in NtAddr : z = NtOwner(x)
        BY <1>6, <4>4
      <4>6. NtOwner(z) # "free" /\ z # y
        BY <1>6, <2>5, <4>4, <4>5
      <4>7. z \in NtLive(ntHeap') /\ z \notin H
        BY <2>14, <2>17, <2>18, <4>2, <4>5, <4>6
      <4> QED BY <4>3, <4>5, <4>7
    <3> HIDE DEF NtOwner, NtDepth, NtPathTo
    <3> QED BY <3>1, <3>2, <3>3 DEF NtRooted
  <2>21. NtUnique(H)'
    <3>1. ASSUME NEW x \in H, NEW z \in H, NtDepth(x)' = NtDepth(z)', NtAlong(NtPathTo(x)', NtPathTo(z)')
          PROVE  x = z
      <4> DEFINE Old(w) == IF w = y THEN k ELSE w
      <4>1. \A w \in H : Old(w) \in G /\ NtDepth(w)' = NtDepth(Old(w)) /\ NtPathTo(w)' = NtPathTo(Old(w))
        BY <2>2, <2>9, <2>14, <2>15, <2>16
      <4>2. Old(x) = Old(z)
        <5> HIDE DEF Old
        <5> QED BY <1>2, <3>1, <4>1 DEF NtGame, NtUnique
      <4>3. \A w \in H : w # k
        BY <2>5, <2>14
      <4> QED BY <3>1, <4>2, <4>3
    <3> QED BY <3>1 DEF NtUnique
  <2>22. NtLine(H)'
    <3>1. ntHead \in K \ {k} /\ ntHead \in H
      BY <1>24, <2>2, <2>14
    <3>2. NtDepth(ntHead)' = NtHere'
      <4>1. ntHead' = ntHead /\ ntHeap'[ntHead].path = ntHeap[ntHead].path
        BY <1>3, <2>16, <3>1 DEF NtPathTo
      <4> QED BY <1>5, <1>24, <4>1 DEF NtDepth, NtPathTo
    <3>3. \A x \in G : NtAlong(NtPathTo(x), ntPath)
      BY <1>2, <1>4 DEF NtGame, NtLine
    <3>4. \A x \in H : NtAlong(NtPathTo(x)', ntPath')
      BY <1>24, <2>2, <2>9, <2>14, <2>15, <2>16, <3>3
    <3>5. ASSUME NEW d \in 0..NtHere' PROVE \E x \in H : NtDepth(x)' = d
      <4>1. PICK x \in K : NtDepth(x) = d
        BY <1>24, <1>25
      <4>2. x \in K \ {k}
        BY <1>5, <1>24, <2>2, <4>1
      <4> QED BY <2>14, <2>16, <4>1, <4>2
    <3> QED BY <1>3, <1>4, <3>1, <3>2, <3>4, <3>5 DEF NtLine
  <2>23. NtEntering(H)'
    <3>1. ASSUME NEW x \in H, NtDepth(x)' > NtHere' PROVE NtPathTo(x)'[NtHere' + 1] = m
      <4>1. CASE x = y
        BY <1>24, <2>2, <2>9, <4>1
      <4>2. CASE x # y
        <5>1. x \in K \ {k} /\ NtDepth(x) \in Nat
          BY <1>15, <2>14, <2>15, <4>2
        <5>2. NtDepth(x) > NtHere
          BY <1>24, <2>16, <3>1, <5>1
        <5> QED BY <1>5, <1>24, <2>6, <2>16, <5>1, <5>2
      <4> QED BY <4>1, <4>2
    <3> QED BY <1>3, <1>24, <2>5, <2>9, <3>1 DEF NtEntering
  <2>24. NtLostAbove(H)'
    <3>1. ASSUME NEW x \in H, ntHeap'[x].lost
          PROVE  \/ NtDepth(x)' < NtHere'
                 \/ ntPc' = "enter" /\ NtDepth(x)' = NtHere'
                 \/ /\ ntPc' # "idle" /\ ~ntSeen'
                    /\ NtDepth(x)' < Len(ntWas'.path) /\ NtAlong(NtPathTo(x)', ntWas'.path)
                    /\ ntOld' \in H /\ NtDepth(ntOld)' = Len(ntWas'.path)
                    /\ NtAlong(NtPathTo(ntOld)', ntWas'.path)
      <4> DEFINE w == IF x = y THEN k ELSE x
      <4>1. w \in K /\ NtDepth(x)' = NtDepth(w) /\ NtPathTo(x)' = NtPathTo(w) /\ (x # y => w = x)
        BY <2>6, <2>9, <2>14, <2>15, <2>16
      <4>2. w # ntHead => ntHeap[w].lost
        BY <2>2, <2>9, <2>14, <2>15, <2>16, <3>1
      <4> HIDE DEF w
      <4>3. NtDepth(w) \in Nat
        BY <1>15, <4>1
      <4>4. CASE NtDepth(w) <= NtHere
        BY <1>3, <1>5, <1>24, <4>1, <4>3, <4>4
      <4>5. CASE ~(NtDepth(w) <= NtHere)
        <5>1. /\ ~ntSeen /\ NtDepth(w) < Len(ntWas.path) /\ NtAlong(NtPathTo(w), ntWas.path)
              /\ ntOld \in K /\ NtDepth(ntOld) = Len(ntWas.path) /\ NtAlong(NtPathTo(ntOld), ntWas.path)
              /\ NtDepth(ntOld) > NtHere + 1
          BY <1>5, <1>23, <4>1, <4>2, <4>5
        <5>2. ntOld \in K \ {k} /\ ntOld \in H
          BY <1>5, <2>2, <2>14, <5>1
        <5>3. NtDepth(ntOld)' = NtDepth(ntOld) /\ NtPathTo(ntOld)' = NtPathTo(ntOld)
          <6>1. ntOld' = ntOld /\ ntHeap'[ntOld].path = ntHeap[ntOld].path
            BY <1>3, <2>16, <5>2 DEF NtPathTo
          <6> QED BY <6>1 DEF NtDepth, NtPathTo
        <5> QED BY <1>3, <4>1, <5>1, <5>2, <5>3
      <4> QED BY <4>4, <4>5
    <3> QED BY <3>1 DEF NtLostAbove
  <2>25. NtGame(H)'
    BY <2>19, <2>20, <2>21, <2>22, <2>23, <2>24 DEF NtGame
  <2> QED BY <2>12, <2>13, <2>25 DEF NtInv
<1>32. (~found \/ (kept # {} /\ ~moved)) \/ (found /\ ~moved /\ kept = {}) \/ moved
  OBVIOUS
<1> QED BY <1>29, <1>30, <1>31, <1>32

\* A node that gets other edges.
NtEdges(h, x, e) == [h EXCEPT ![x].edges = e]

\* A node that gets its edges keeps everything else.
LEMMA EdgesSet ==
  ASSUME NEW h \in [NtAddr -> NtNodes], NEW x \in NtAddr, NEW e \in NtMoves \cup {"none", "all"}
  PROVE  /\ NtEdges(h, x, e) \in [NtAddr -> NtNodes] /\ \A y \in NtAddr \ {x} : NtEdges(h, x, e)[y] = h[y]
         /\ NtEdges(h, x, e)[x].owner = h[x].owner /\ NtEdges(h, x, e)[x].path = h[x].path
         /\ NtEdges(h, x, e)[x].fen = h[x].fen /\ NtEdges(h, x, e)[x].lost = h[x].lost
BY DEF NtNodes, NtEdges

\* A line of moves is empty when it has no length.
LEMMA NoMoves == \A s \in Seq(NtMoves) : Len(s) \in Nat /\ (s = <<>> <=> Len(s) = 0)
OBVIOUS

\* A move leads to the child that was kept or to a single new one.
LEMMA EnterKeeps == ASSUME NtInv, NtMoveEnter PROVE NtInv'
<1> DEFINE m == Head(ntTodo)
<1>1. NtTypeOK /\ NtQueued
  BY DEF NtInv
<1>2. PICK G \in SUBSET NtAddr : NtGame(G)
  BY DEF NtInv
<1>3. /\ ntPc = "enter" /\ ntPath' = Append(ntPath, m) /\ ntSeen' = (ntSeen \/ ntHead' = ntOld)
      /\ ntTodo' = Tail(ntTodo) /\ ntPc' = (IF Len(ntTodo) = 1 THEN "finish" ELSE "release")
      /\ UNCHANGED <<ntFen, ntQueue, ntOld, ntWas, ntResets>>
  BY DEF NtMoveEnter
<1>4. /\ NtHeapOK(ntHeap) /\ ntHead \in NtAddr /\ ntHead # NtNull /\ m \in NtMoves /\ ntPath \in Seq(NtMoves)
      /\ ntTodo \in Seq(NtMoves) /\ ntTodo # <<>> /\ ntQueue \in Seq(SUBSET NtAddr)
  BY <1>1, <1>3 DEF NtTypeOK
<1>5. /\ ntHead \in G /\ NtHere \in Nat /\ NtDepth(ntHead) = NtHere
      /\ \A x \in G : NtDepth(x) = NtHere => x = ntHead
  BY <1>1, <1>2, <1>4, AtHead DEF NtGame, NtLine
<1>6. /\ NtChildren(ntHeap, ntHead) = {x \in NtAddr : NtOwner(x) = ntHead}
      /\ NtLive(ntHeap) = {x \in NtAddr : NtOwner(x) # "free"}
  BY <1>4, HeapIs DEF NtOwner
<1>7. \A x \in NtAddr : x \notin {"free", "begin", "gc"} /\ x # NtNull
  BY NtAssumption
<1>8. \A x \in NtAddr : NtPathTo(x) \in Seq(NtMoves) /\ NtDepth(x) \in Nat
  BY <1>1, <1>2, GameFacts
<1>9. /\ ntPath' \in Seq(NtMoves) /\ NtHere' = NtHere + 1 /\ NtAlong(ntPath, ntPath')
      /\ NtAlong(ntPath', ntPath) /\ ntPath'[NtHere + 1] = m
  BY <1>3, <1>4, Steps DEF NtHere
<1>10. \A x \in G : NtAlong(NtPathTo(x), ntPath')
  <2>1. ASSUME NEW x \in G PROVE NtAlong(NtPathTo(x), ntPath')
    <3>1. NtAlong(NtPathTo(x), ntPath) /\ (NtDepth(x) > NtHere => NtPathTo(x)[NtHere + 1] = m)
      BY <1>2, <1>3, <1>4 DEF NtGame, NtLine, NtEntering
    <3>2. CASE NtDepth(x) <= NtHere
      BY <1>4, <1>8, <1>9, <3>1, <3>2, AlongOn DEF NtDepth, NtHere
    <3>3. CASE NtDepth(x) > NtHere
      <4>1. NtPathTo(x)[NtHere + 1] = ntPath'[NtHere + 1]
        BY <1>9, <3>1, <3>3
      <4>2. \A i \in 1..Len(NtPathTo(x)) : i <= NtHere => NtPathTo(x)[i] = ntPath'[i]
        BY <1>3, <1>4, <3>1 DEF NtAlong, NtHere
      <4>3. Len(ntPath') = NtHere + 1
        BY <1>9 DEF NtHere
      <4> QED BY <1>5, <4>1, <4>2, <4>3 DEF NtAlong
    <3> QED BY <1>5, <1>8, <3>2, <3>3
  <2> QED BY <2>1
<1>11. \A k \in 0..NtHere : \E x \in G : NtDepth(x) = k
  BY <1>2, <1>4 DEF NtGame, NtLine
<1>12. \A x \in G : ntHeap[x].lost =>
         \/ NtDepth(x) <= NtHere
         \/ /\ ~ntSeen /\ NtDepth(x) < Len(ntWas.path) /\ NtAlong(NtPathTo(x), ntWas.path)
            /\ ntOld \in G /\ NtDepth(ntOld) = Len(ntWas.path) /\ NtAlong(NtPathTo(ntOld), ntWas.path)
  BY <1>2, <1>5, <1>8 DEF NtGame, NtLostAbove
<1>13. ASSUME NtHeapOK(ntHeap'), ntHead' \in NtAddr PROVE NtTypeOK'
  <2>1. ntTodo' \in Seq(NtMoves) /\ (ntPc' \in {"release", "enter"} => ntTodo' # <<>>)
    <3>1. ntTodo \in Seq(NtMoves) /\ Len(ntTodo) \in Nat /\ Len(ntTodo) >= 1
      BY <1>4, NoMoves
    <3>2. Tail(ntTodo) \in Seq(NtMoves) /\ Len(Tail(ntTodo)) = Len(ntTodo) - 1
      BY <3>1
    <3>3. Len(ntTodo) # 1 => Tail(ntTodo) # <<>>
      <4> DEFINE t == Tail(ntTodo)
      <4>1. t \in Seq(NtMoves) /\ Len(t) = Len(ntTodo) - 1
        BY <3>2
      <4> HIDE DEF t
      <4>2. Len(ntTodo) # 1 => t # <<>>
        BY <3>1, <4>1, NoMoves
      <4> QED BY <4>2 DEF t
    <3> QED BY <1>3, <3>2, <3>3
  <2>2. ntSeen' \in BOOLEAN /\ ntPc' \in {"idle", "release", "enter", "finish"}
    BY <1>1, <1>3 DEF NtTypeOK
  <2> QED BY <1>1, <1>3, <1>7, <1>9, <1>13, <2>1, <2>2 DEF NtTypeOK
<1>14. CASE NtChildren(ntHeap, ntHead) # {}
  <2>1. PICK c \in NtAddr : ntHead' = c /\ NtOwner(c) = ntHead /\ UNCHANGED ntHeap
    BY <1>6, <1>14 DEF NtMoveEnter
  <2>2. c \in G
    BY <1>1, <1>2, <1>5, <2>1, GameFacts
  <2>3. NtDepth(c) = NtHere + 1
    BY <1>2, <1>4, <1>5, <1>7, <2>1, <2>2 DEF NtGame, NtRooted
  <2>4. NtTypeOK'
    BY <1>4, <1>13, <2>1
  <2>5. NtQueued'
    BY <1>1, <1>3, <2>1 DEF NtQueued, NtOwner
  <2>6. \A x \in NtAddr : NtDepth(x)' = NtDepth(x) /\ NtPathTo(x)' = NtPathTo(x) /\ ntHeap'[x] = ntHeap[x]
    BY <2>1 DEF NtDepth, NtPathTo
  <2>7. G \subseteq NtLive(ntHeap)' /\ NtRooted(G)' /\ NtUnique(G)'
    BY <1>2, <1>3, <2>1 DEF NtGame, NtRooted, NtUnique, NtOwner, NtDepth, NtPathTo
  <2>8. NtLine(G)'
    <3>1. ntHead' \in G /\ NtDepth(ntHead)' = NtHere' /\ ntHead' # NtNull
      <4>1. NtDepth(ntHead)' = NtDepth(c)
        BY <2>1 DEF NtDepth, NtPathTo
      <4> QED BY <1>7, <1>9, <2>1, <2>2, <2>3, <4>1
    <3>2. \A k \in 0..NtHere' : \E x \in G : NtDepth(x)' = k
      <4>1. \A k \in 0..NtHere' : k \in 0..NtHere \/ k = NtHere + 1
        BY <1>5, <1>9
      <4> QED BY <1>11, <2>2, <2>3, <2>6, <4>1
    <3> QED BY <1>10, <2>6, <3>1, <3>2 DEF NtLine
  <2>9. NtEntering(G)'
    BY <1>3 DEF NtEntering
  <2>10. NtLostAbove(G)'
    <3>1. ASSUME NEW x \in G, ntHeap'[x].lost
          PROVE  \/ NtDepth(x)' < NtHere'
                 \/ /\ ntPc' # "idle" /\ ~ntSeen'
                    /\ NtDepth(x)' < Len(ntWas'.path) /\ NtAlong(NtPathTo(x)', ntWas'.path)
                    /\ ntOld' \in G /\ NtDepth(ntOld)' = Len(ntWas'.path)
                    /\ NtAlong(NtPathTo(ntOld)', ntWas'.path)
      <4>1. ntHeap[x].lost /\ NtDepth(x)' = NtDepth(x) /\ NtPathTo(x)' = NtPathTo(x) /\ NtDepth(x) \in Nat
        BY <1>8, <2>6, <3>1
      <4>2. CASE NtDepth(x) <= NtHere
        BY <1>5, <1>9, <4>1, <4>2
      <4>3. CASE ~(NtDepth(x) <= NtHere)
        <5>1. /\ ~ntSeen /\ NtDepth(x) < Len(ntWas.path) /\ NtAlong(NtPathTo(x), ntWas.path)
              /\ ntOld \in G /\ NtDepth(ntOld) = Len(ntWas.path) /\ NtAlong(NtPathTo(ntOld), ntWas.path)
          BY <1>12, <4>1, <4>3
        <5>2. CASE c = ntOld
          BY <1>9, <2>3, <4>1, <5>1, <5>2
        <5>3. CASE c # ntOld
          <6>1. NtDepth(ntOld)' = NtDepth(ntOld) /\ NtPathTo(ntOld)' = NtPathTo(ntOld) /\ ntOld' = ntOld
            BY <1>3, <2>1 DEF NtDepth, NtPathTo
          <6> QED BY <1>3, <2>1, <4>1, <5>1, <5>3, <6>1
        <5> QED BY <5>2, <5>3
      <4> QED BY <4>2, <4>3
    <3> QED BY <3>1 DEF NtLostAbove
  <2>11. NtGame(G)'
    BY <2>7, <2>8, <2>9, <2>10 DEF NtGame
  <2> QED BY <2>4, <2>5, <2>11 DEF NtInv
<1>15. CASE NtChildren(ntHeap, ntHead) = {}
  <2>1. PICK y \in NtAddr \ NtLive(ntHeap) : ntHead' = y /\
            ntHeap' = [ntHeap EXCEPT ![ntHead].edges = m, ![y] = NtNode(ntHead, ntFen, Append(ntPath, m))]
    BY <1>15 DEF NtMoveEnter
  <2>2. y \in NtAddr /\ NtOwner(y) = "free" /\ y \notin G /\ y # ntHead
    BY <1>2, <1>5, <1>6, <2>1 DEF NtGame
  <2> DEFINE r == NtNode(ntHead, ntFen, Append(ntPath, m))
  <2>3. r \in NtNodes /\ r.owner = ntHead /\ r.path = ntPath' /\ r.fen = ntFen /\ ~r.lost
    <3>1. Append(ntPath, m) \in Seq(NtMoves) /\ ntHead \in NtOwners /\ ntFen \in NtFens
      BY <1>1, <1>4 DEF NtOwners, NtTypeOK
    <3>2. r \in NtNodes
      BY <3>1, NodeOK
    <3> QED BY <1>3, <3>2 DEF NtNode
  <2>4. /\ NtHeapOK(ntHeap') /\ ntHeap'[y] = r
        /\ \A x \in NtAddr \ {y} : /\ ntHeap'[x].owner = ntHeap[x].owner /\ ntHeap'[x].path = ntHeap[x].path
                                   /\ ntHeap'[x].fen = ntHeap[x].fen /\ ntHeap'[x].lost = ntHeap[x].lost
    <3>1. ntHeap' = [ntHeap EXCEPT ![ntHead].edges = m, ![y] = r]
      BY <2>1
    <3> HIDE DEF r, m
    <3>2. ntHeap \in [NtAddr -> NtNodes] /\ \A x \in NtAddr : ntHeap[x].owner = "free" => ntHeap[x] = NtFree
      BY <1>4 DEF NtHeapOK
    <3>3. NtOwner(ntHead) # "free"
      BY <1>2, <1>5, <1>6 DEF NtGame
    <3> DEFINE hh == NtEdges(ntHeap, ntHead, m)
    <3>4. /\ hh \in [NtAddr -> NtNodes] /\ \A x \in NtAddr \ {ntHead} : hh[x] = ntHeap[x]
          /\ hh[ntHead].owner = ntHeap[ntHead].owner /\ hh[ntHead].path = ntHeap[ntHead].path
          /\ hh[ntHead].fen = ntHeap[ntHead].fen /\ hh[ntHead].lost = ntHeap[ntHead].lost
      BY <1>4, <3>2, EdgesSet
    <3>5. ntHeap' = [hh EXCEPT ![y] = r]
      BY <3>1, Zenon DEF NtEdges
    <3> HIDE DEF hh
    <3>6. /\ ntHeap' \in [NtAddr -> NtNodes] /\ ntHeap'[y] = r /\ \A x \in NtAddr \ {y} : ntHeap'[x] = hh[x]
      BY <2>2, <2>3, <3>4, <3>5
    <3>7. \A x \in NtAddr \ {y} : /\ ntHeap'[x].owner = ntHeap[x].owner /\ ntHeap'[x].path = ntHeap[x].path
                                   /\ ntHeap'[x].fen = ntHeap[x].fen /\ ntHeap'[x].lost = ntHeap[x].lost
      BY <1>4, <3>4, <3>6
    <3>8. \A x \in NtAddr : ntHeap'[x].owner = "free" => ntHeap'[x] = NtFree
      <4>1. ASSUME NEW x \in NtAddr, ntHeap'[x].owner = "free" PROVE ntHeap'[x] = NtFree
        <5>1. x # y /\ x # ntHead
          BY <1>4, <1>7, <2>2, <2>3, <3>3, <3>6, <3>7, <4>1 DEF NtOwner
        <5> QED BY <3>2, <3>4, <3>6, <4>1, <5>1
      <4> QED BY <4>1
    <3> QED BY <3>6, <3>7, <3>8 DEF NtHeapOK
  <2>5. \A x \in NtAddr \ {y} : /\ NtOwner(x)' = NtOwner(x) /\ NtPathTo(x)' = NtPathTo(x) /\ NtDepth(x)' = NtDepth(x)
                                /\ ntHeap'[x].fen = ntHeap[x].fen /\ ntHeap'[x].lost = ntHeap[x].lost
    BY <2>4 DEF NtOwner, NtPathTo, NtDepth
  <2>6. /\ NtOwner(y)' = ntHead /\ NtPathTo(y)' = ntPath' /\ NtDepth(y)' = NtHere' /\ ntHeap'[y].fen = ntFen
        /\ ~ntHeap'[y].lost
    BY <2>3, <2>4 DEF NtOwner, NtPathTo, NtDepth, NtHere
  <2> HIDE DEF r, m
  <2>7. NtTypeOK'
    BY <1>13, <2>1, <2>2, <2>4
  <2>8. NtQueued'
    <3>1. \A x \in NtAddr : NtOwner(x)' = "gc" <=> NtOwner(x) = "gc"
      BY <1>4, <1>7, <2>2, <2>5, <2>6
    <3>2. \A i \in 1..Len(ntQueue) : ntQueue[i] \in SUBSET NtAddr
      BY <1>4
    <3> QED BY <1>1, <1>3, <3>1, <3>2 DEF NtQueued
  <2>9. PICK K \in SUBSET G : K = {x \in G : NtDepth(x) <= NtHere}
    OBVIOUS
  <2>10. \A x \in G : NtOwner(x) = "begin" \/
          (NtOwner(x) \in G /\ NtDepth(x) = NtDepth(NtOwner(x)) + 1 /\ NtAlong(NtPathTo(x), NtPathTo(NtOwner(x))))
    BY <1>2 DEF NtGame, NtRooted
  <2>11. ntHead \in K /\ \A x \in K : x \in NtAddr \ {y}
    BY <1>5, <2>2, <2>9
  <2>12. (K \cup {y}) \subseteq NtLive(ntHeap)' /\ NtRooted(K \cup {y})' /\ NtUnique(K \cup {y})'
    <3>1. ASSUME NEW x \in K
          PROVE  /\ NtOwner(x)' = NtOwner(x) /\ NtPathTo(x)' = NtPathTo(x)
                 /\ ntHeap'[x].fen = ntHeap[x].fen
                 /\ NtOwner(x) = "begin" \/ NtOwner(x) \in K
      <4>1. NtOwner(x) \in G => NtDepth(NtOwner(x)) \in Nat /\ NtDepth(x) \in Nat
        BY <1>8
      <4> QED BY <1>5, <1>7, <2>5, <2>9, <2>10, <2>11, <4>1
    <3>2. ASSUME NEW x \in NtAddr \ (K \cup {y})
          PROVE  NtOwner(x)' = "gc" \/ (NtOwner(x)' = NtOwner(x) /\ NtOwner(x) \notin K \cup {"begin"})
      <4>1. NtOwner(x)' = NtOwner(x)
        BY <2>5
      <4>2. SUFFICES ASSUME NtOwner(x) \in K \cup {"begin"} PROVE FALSE
        BY <4>1
      <4>3. x \in G
        BY <1>1, <1>2, <4>2, GameFacts
      <4>4. NtDepth(x) > NtHere /\ NtDepth(x) \in Nat
        BY <1>5, <1>8, <2>9, <4>3
      <4>5. NtOwner(x) \in K
        BY <1>2, <1>5, <1>7, <4>2, <4>3, <4>4 DEF NtGame, NtRooted
      <4>6. NtDepth(x) = NtDepth(NtOwner(x)) + 1 /\ NtDepth(NtOwner(x)) \in Nat /\ NtDepth(NtOwner(x)) <= NtHere
        BY <1>7, <1>8, <2>9, <2>10, <4>3, <4>5
      <4>7. NtOwner(x) = ntHead
        BY <1>5, <4>4, <4>5, <4>6
      <4> QED BY <1>6, <1>15, <4>7
    <3>3. /\ ntHead \in K /\ NtOwner(y) = "free" /\ NtOwner(y)' = ntHead /\ ntHeap'[y].fen = ntFen
          /\ NtDepth(y)' = NtDepth(ntHead) + 1 /\ NtAlong(NtPathTo(y)', NtPathTo(ntHead))
          /\ \A x \in K : NtDepth(x) # NtDepth(ntHead) + 1
      <4>1. NtAlong(ntPath, NtPathTo(ntHead)) /\ NtPathTo(ntHead) \in Seq(NtMoves) /\ Len(NtPathTo(ntHead)) = Len(ntPath)
        BY <1>2, <1>4, <1>5, <1>8, AlongBack DEF NtGame, NtLine, NtDepth, NtHere
      <4>2. NtAlong(ntPath', NtPathTo(ntHead))
        BY <1>4, <1>9, <4>1, AlongOn
      <4> QED BY <1>5, <1>9, <2>2, <2>6, <2>9, <2>11, <4>2
    <3>4. {y} \in SUBSET NtAddr /\ \A x, z \in {y} : x = z
      BY <2>2
    <3>5. \A z \in {y} : /\ ntHead \in K /\ NtOwner(z) = "free" /\ NtOwner(z)' = ntHead /\ ntHeap'[z].fen = ntFen
                         /\ NtDepth(z)' = NtDepth(ntHead) + 1 /\ NtAlong(NtPathTo(z)', NtPathTo(ntHead))
                         /\ \A x \in K : NtDepth(x) = NtDepth(ntHead) + 1 => ~NtAlong(NtPathTo(x), NtPathTo(z)')
      BY <3>3
    <3> QED BY <1>1, <1>2, <1>3, <2>7, <3>1, <3>2, <3>4, <3>5, Pruned
  <2>13. NtLine(K \cup {y})'
    <3>1. \A x \in K : NtAlong(NtPathTo(x)', ntPath') /\ NtDepth(x)' = NtDepth(x)
      BY <1>10, <2>5, <2>11
    <3>2. NtAlong(NtPathTo(y)', ntPath')
      BY <2>6 DEF NtAlong
    <3>3. ntHead' = y /\ NtDepth(ntHead)' = NtHere' /\ ntHead' # NtNull
      BY <1>7, <2>1, <2>2, <2>6 DEF NtDepth, NtPathTo
    <3>4. ASSUME NEW k \in 0..NtHere' PROVE \E x \in K \cup {y} : NtDepth(x)' = k
      <4>1. CASE k = NtHere'
        BY <2>6, <4>1
      <4>2. CASE k # NtHere'
        <5>1. k \in 0..NtHere
          BY <1>5, <1>9, <4>2
        <5>2. PICK x \in G : NtDepth(x) = k
          BY <1>11, <5>1
        <5>3. x \in K
          BY <1>5, <2>9, <5>1, <5>2
        <5> QED BY <3>1, <5>2, <5>3
      <4> QED BY <4>1, <4>2
    <3> QED BY <3>1, <3>2, <3>3, <3>4 DEF NtLine
  <2>14. NtEntering(K \cup {y})'
    BY <1>3 DEF NtEntering
  <2>15. NtLostAbove(K \cup {y})'
    <3>1. \A x \in K \cup {y} : ntHeap'[x].lost => NtDepth(x)' < NtHere'
      BY <1>5, <1>8, <1>9, <2>5, <2>6, <2>9, <2>11
    <3> QED BY <3>1 DEF NtLostAbove
  <2>16. NtGame(K \cup {y})'
    BY <2>12, <2>13, <2>14, <2>15 DEF NtGame
  <2>17. K \cup {y} \in SUBSET NtAddr
    BY <2>2
  <2> QED BY <2>7, <2>8, <2>16, <2>17 DEF NtInv
<1> QED BY <1>14, <1>15

\* The nodes down to the head hang below the first node of the game; all below it hang below
\* its children.
LEMMA UpToHead ==
  ASSUME NtTypeOK, NEW G \in SUBSET NtAddr, NtGame(G), ntHead # NtNull,
         NEW K \in SUBSET G, K = {x \in G : NtDepth(x) <= NtHere}
  PROVE  /\ ntHead \in K
         /\ \A x \in K : NtOwner(x) = "begin" \/ NtOwner(x) \in K
         /\ \A x \in NtAddr \ K : NtOwner(x) = ntHead \/ NtOwner(x) \notin K \cup {"begin"}
         /\ \A k \in 0..NtHere : \E x \in K : NtDepth(x) = k
         /\ \A x \in NtAddr : NtOwner(x) = ntHead => x \notin K
<1>1. /\ ntHead \in G /\ NtHere \in Nat /\ NtDepth(ntHead) = NtHere
      /\ \A x \in G : NtDepth(x) = NtHere => x = ntHead
  BY AtHead DEF NtGame, NtLine
<1>2. \A x \in NtAddr : x \notin {"free", "begin", "gc"}
  BY NtAssumption
<1>3. \A x \in NtAddr : NtPathTo(x) \in Seq(NtMoves) /\ NtDepth(x) \in Nat
  BY GameFacts
<1>4. \A x \in G : \/ NtOwner(x) = "begin" /\ NtDepth(x) = 0
                   \/ NtOwner(x) \in G /\ NtDepth(x) = NtDepth(NtOwner(x)) + 1
  BY DEF NtGame, NtRooted
<1>5. ASSUME NEW x \in K PROVE NtOwner(x) = "begin" \/ NtOwner(x) \in K
  <2>1. NtOwner(x) \in G => NtDepth(NtOwner(x)) \in Nat /\ NtDepth(x) \in Nat
    BY <1>3
  <2> QED BY <1>1, <1>2, <1>4, <2>1
<1>6. ASSUME NEW x \in NtAddr \ K, NtOwner(x) \in K \cup {"begin"} PROVE NtOwner(x) = ntHead
  <2>1. x \in G
    BY <1>6, GameFacts
  <2>2. NtDepth(x) > NtHere /\ NtDepth(x) \in Nat
    BY <1>1, <1>3, <2>1
  <2>3. NtOwner(x) \in K
    BY <1>1, <1>2, <1>4, <1>6, <2>1, <2>2
  <2>4. NtDepth(x) = NtDepth(NtOwner(x)) + 1 /\ NtDepth(NtOwner(x)) \in Nat /\ NtDepth(NtOwner(x)) <= NtHere
    BY <1>2, <1>3, <1>4, <2>1, <2>3
  <2> QED BY <1>1, <2>2, <2>3, <2>4
<1>7. ASSUME NEW k \in 0..NtHere PROVE \E x \in K : NtDepth(x) = k
  <2>1. PICK x \in G : NtDepth(x) = k
    BY DEF NtGame, NtLine
  <2> QED BY <1>1, <2>1
<1>8. ASSUME NEW x \in NtAddr, NtOwner(x) = ntHead PROVE x \notin K
  <2>1. x \in G
    BY <1>1, <1>8, GameFacts
  <2>2. NtDepth(x) = NtHere + 1
    BY <1>1, <1>2, <1>4, <1>8, <2>1
  <2> QED BY <1>1, <2>2
<1> QED BY <1>1, <1>5, <1>6, <1>7, <1>8

\* The end of a command trims the head unless the old head was passed.
LEMMA FinishKeeps == ASSUME NtInv, NtFinish PROVE NtInv'
<1>1. NtTypeOK /\ NtQueued
  BY DEF NtInv
<1>2. PICK G \in SUBSET NtAddr : NtGame(G)
  BY DEF NtInv
<1>3. ntPc = "finish" /\ ntPc' = "idle" /\ UNCHANGED <<ntHead, ntFen, ntPath, ntTodo, ntOld, ntSeen, ntWas, ntResets>>
  BY DEF NtFinish
<1>4. NtHere' = NtHere /\ ntPath' = ntPath
  BY <1>3 DEF NtHere
<1>5. CASE ntSeen
  <2>1. UNCHANGED <<ntHeap, ntQueue>>
    BY <1>5 DEF NtFinish, NtNeedsTrim
  <2>2. NtTypeOK' /\ NtQueued'
    BY <1>1, <1>3, <2>1 DEF NtTypeOK, NtQueued, NtOwner
  <2>3. \A x : NtOwner(x)' = NtOwner(x) /\ NtPathTo(x)' = NtPathTo(x) /\ NtDepth(x)' = NtDepth(x)
    BY <2>1 DEF NtOwner, NtPathTo, NtDepth
  <2>4. G \subseteq NtLive(ntHeap)' /\ NtRooted(G)' /\ NtUnique(G)'
    BY <1>2, <1>3, <2>1 DEF NtGame, NtRooted, NtUnique, NtOwner, NtDepth, NtPathTo
  <2>5. NtLine(G)' /\ NtEntering(G)'
    BY <1>2, <1>3, <2>1 DEF NtGame, NtLine, NtEntering, NtHere, NtDepth, NtPathTo
  <2>6. \A x \in G : ntHeap'[x].lost => NtDepth(x)' < NtHere'
    BY <1>2, <1>3, <1>4, <1>5, <2>1, <2>3 DEF NtGame, NtLostAbove
  <2>7. NtLostAbove(G)'
    BY <2>6 DEF NtLostAbove
  <2>8. NtGame(G)'
    BY <2>4, <2>5, <2>7 DEF NtGame
  <2> QED BY <2>2, <2>8 DEF NtInv
<1>6. CASE ~ntSeen
  <2> DEFINE rest == NtChildren(ntHeap, ntHead)
             r == NtNode(ntHeap[ntHead].owner, ntHeap[ntHead].fen, ntHeap[ntHead].path)
             g == NtRelease(ntHeap, rest)
  <2>1. ntHeap' = [g EXCEPT ![ntHead] = r] /\ ntQueue' = NtEnqueue(rest)
    BY <1>6, Zenon DEF NtFinish, NtNeedsTrim, NtTrimTreeAtHead
  <2>2. NtHeapOK(ntHeap) /\ ntHead \in NtAddr /\ ntHead # NtNull /\ ntPath \in Seq(NtMoves)
    BY <1>1, <1>3 DEF NtTypeOK
  <2>3. rest = {x \in NtAddr : NtOwner(x) = ntHead} /\ NtLive(ntHeap) = {x \in NtAddr : NtOwner(x) # "free"}
    BY <2>2, HeapIs DEF NtOwner
  <2>4. PICK K \in SUBSET G : K = {x \in G : NtDepth(x) <= NtHere}
    OBVIOUS
  <2>5. /\ ntHead \in K
        /\ \A x \in K : NtOwner(x) = "begin" \/ NtOwner(x) \in K
        /\ \A x \in NtAddr \ K : NtOwner(x) = ntHead \/ NtOwner(x) \notin K \cup {"begin"}
        /\ \A k \in 0..NtHere : \E x \in K : NtDepth(x) = k
        /\ \A x \in NtAddr : NtOwner(x) = ntHead => x \notin K
    BY <1>1, <1>2, <2>2, <2>4, UpToHead
  <2>6. \A x \in NtAddr : x \notin {"free", "begin", "gc"}
    BY NtAssumption
  <2>7. /\ NtHeapOK(g)
        /\ \A x \in NtAddr :
             /\ g[x].owner = (IF x \in rest THEN "gc" ELSE NtOwner(x)) /\ g[x].path = NtPathTo(x)
             /\ g[x].fen = ntHeap[x].fen /\ g[x].lost = ntHeap[x].lost
    <3>1. rest \in SUBSET NtLive(ntHeap)
      BY DEF NtChildren
    <3> HIDE DEF rest
    <3> QED BY <2>2, <3>1, Released DEF NtOwner, NtPathTo
  <2>8. ntHead \notin rest /\ NtOwner(ntHead) # "free"
    BY <1>2, <2>2, <2>3, <2>5 DEF NtGame
  <2>9. r \in NtNodes /\ r.owner = NtOwner(ntHead) /\ r.path = NtPathTo(ntHead) /\ r.fen = ntHeap[ntHead].fen /\ ~r.lost
    <3>1. ntHeap[ntHead] \in NtNodes
      BY <2>2 DEF NtHeapOK
    <3>2. ntHeap[ntHead].owner \in NtOwners /\ ntHeap[ntHead].fen \in NtFens \cup {NtNull} /\ ntHeap[ntHead].path \in Seq(NtMoves)
      BY <3>1 DEF NtNodes
    <3>3. r \in NtNodes
      BY <3>2, NodeOK
    <3> QED BY <3>3 DEF NtNode, NtOwner, NtPathTo
  <2> HIDE DEF rest, g, r
  <2>10. NtHeapOK(ntHeap') /\ ntHeap'[ntHead] = r /\ \A x \in NtAddr \ {ntHead} : ntHeap'[x] = g[x]
    BY <2>1, <2>2, <2>7, <2>8, <2>9 DEF NtHeapOK
  <2>11. \A x \in NtAddr : /\ NtOwner(x)' = (IF NtOwner(x) = ntHead THEN "gc" ELSE NtOwner(x))
                           /\ NtPathTo(x)' = NtPathTo(x) /\ NtDepth(x)' = NtDepth(x)
                           /\ ntHeap'[x].fen = ntHeap[x].fen
                           /\ IF x = ntHead THEN ~ntHeap'[x].lost ELSE ntHeap'[x].lost = ntHeap[x].lost
    <3>1. ASSUME NEW x \in NtAddr
          PROVE  /\ ntHeap'[x].owner = (IF NtOwner(x) = ntHead THEN "gc" ELSE NtOwner(x))
                 /\ ntHeap'[x].path = ntHeap[x].path /\ ntHeap'[x].fen = ntHeap[x].fen
                 /\ IF x = ntHead THEN ~ntHeap'[x].lost ELSE ntHeap'[x].lost = ntHeap[x].lost
      BY <2>3, <2>7, <2>8, <2>9, <2>10 DEF NtPathTo
    <3> QED BY <3>1 DEF NtOwner, NtPathTo, NtDepth
  <2>12. NtQueued' /\ ntQueue' \in Seq(SUBSET NtAddr)
    <3>1. \A x \in rest : NtOwner(x) # "gc" /\ NtOwner(x)' = "gc"
      BY <2>2, <2>3, <2>6, <2>11
    <3>2. \A x \in NtAddr \ rest : NtOwner(x)' = "gc" <=> NtOwner(x) = "gc"
      BY <2>3, <2>11
    <3>3. rest \in SUBSET NtAddr
      BY <2>3
    <3> QED BY <1>1, <2>1, <3>1, <3>2, <3>3, QueueGrows
  <2>13. NtTypeOK'
    BY <1>1, <1>3, <2>10, <2>12 DEF NtTypeOK
  <2>14. (K \cup {}) \subseteq NtLive(ntHeap)' /\ NtRooted(K \cup {})' /\ NtUnique(K \cup {})'
    <3>1. \A x \in K : /\ NtOwner(x)' = NtOwner(x) /\ NtPathTo(x)' = NtPathTo(x)
                       /\ ntHeap'[x].fen = ntHeap[x].fen
                       /\ NtOwner(x) = "begin" \/ NtOwner(x) \in K
      BY <2>5, <2>11
    <3>2. \A x \in NtAddr \ (K \cup {}) :
             NtOwner(x)' = "gc" \/ (NtOwner(x)' = NtOwner(x) /\ NtOwner(x) \notin K \cup {"begin"})
      BY <2>5, <2>11
    <3>3. {} \in SUBSET NtAddr /\ ntFen' = ntFen
      BY <1>3
    <3> QED BY <1>1, <1>2, <2>13, <3>1, <3>2, <3>3, Pruned
  <2>15. K \cup {} = K
    OBVIOUS
  <2>16. NtLine(K)'
    <3>1. \A x \in K : NtAlong(NtPathTo(x)', ntPath') /\ NtDepth(x)' = NtDepth(x)
      BY <1>2, <1>4, <2>2, <2>11 DEF NtGame, NtLine
    <3>2. NtDepth(ntHead)' = NtHere'
      <4>1. NtDepth(ntHead) = NtHere /\ ntHead' = ntHead /\ ntHeap'[ntHead].path = ntHeap[ntHead].path
        BY <1>2, <1>3, <2>2, <2>11 DEF NtGame, NtLine, NtPathTo
      <4> QED BY <1>4, <4>1 DEF NtDepth, NtPathTo
    <3> QED BY <1>3, <1>4, <2>2, <2>5, <3>1, <3>2 DEF NtLine
  <2>17. NtEntering(K)'
    BY <1>3 DEF NtEntering
  <2>18. NtLostAbove(K)'
    <3>1. ASSUME NEW x \in K, ntHeap'[x].lost PROVE NtDepth(x)' < NtHere'
      <4>1. x # ntHead /\ x \in G /\ NtDepth(x)' = NtDepth(x) /\ NtDepth(x) <= NtHere
        BY <2>4, <2>11, <3>1
      <4>2. NtDepth(x) # NtHere /\ NtDepth(x) \in Nat /\ NtHere \in Nat
        BY <1>1, <1>2, <2>2, <4>1, AtHead, GameFacts
      <4> QED BY <1>4, <4>1, <4>2
    <3> QED BY <3>1 DEF NtLostAbove
  <2>19. NtGame(K)'
    BY <2>14, <2>15, <2>16, <2>17, <2>18 DEF NtGame
  <2> QED BY <2>12, <2>13, <2>19 DEF NtInv
<1> QED BY <1>5, <1>6

\* The tree of the game is handed over as a whole.
LEMMA DeallocateKeeps == ASSUME NtInv, NtDeallocate PROVE NtInv'
<1>1. NtTypeOK /\ NtQueued
  BY DEF NtInv
<1>2. PICK G \in SUBSET NtAddr : NtGame(G)
  BY DEF NtInv
<1> DEFINE xs == NtBegin(ntHeap)
<1>3. /\ ntPc = "idle" /\ ntHead' = NtNull /\ ntHeap' = NtRelease(ntHeap, xs) /\ ntQueue' = NtEnqueue(xs)
      /\ ntPath' = <<>> /\ UNCHANGED <<ntFen, ntPc, ntTodo, ntOld, ntSeen, ntWas, ntResets>>
  BY DEF NtDeallocate
<1>4. /\ xs = {x \in NtAddr : NtOwner(x) = "begin"} /\ NtLive(ntHeap) = {x \in NtAddr : NtOwner(x) # "free"}
      /\ NtHeapOK(ntHeap)
  BY <1>1, HeapIs DEF NtTypeOK, NtOwner
<1>5. NtHeapOK(ntHeap') /\ \A x \in NtAddr : NtOwner(x)' = IF x \in xs THEN "gc" ELSE NtOwner(x)
  <2>1. xs \in SUBSET NtLive(ntHeap)
    BY <1>4
  <2> HIDE DEF xs
  <2> QED BY <1>3, <1>4, <2>1, Released DEF NtOwner
<1>6. NtQueued' /\ ntQueue' \in Seq(SUBSET NtAddr)
  <2>1. /\ xs \in SUBSET NtAddr /\ \A x \in xs : NtOwner(x) # "gc" /\ NtOwner(x)' = "gc"
        /\ \A x \in NtAddr \ xs : NtOwner(x)' = "gc" <=> NtOwner(x) = "gc"
    BY <1>4, <1>5
  <2> HIDE DEF xs
  <2> QED BY <1>1, <1>3, <2>1, QueueGrows
<1>7. NtTypeOK'
  BY <1>1, <1>3, <1>5, <1>6 DEF NtTypeOK
<1>8. NtLive(ntHeap') = {x \in NtAddr : NtOwner(x)' # "free"}
  BY <1>5, HeapIs DEF NtOwner
<1>9. NtRooted({})'
  <2>1. \A x \in NtAddr : NtOwner(x) \in {"free", "begin", "gc"} \/ NtOwner(x) \in NtLive(ntHeap)
    BY <1>1, <1>2, GameFacts
  <2>2. \A x \in NtLive(ntHeap') \ {} : NtOwner(x)' = "gc" \/ NtOwner(x)' \in NtLive(ntHeap') \ {}
    BY <1>4, <1>5, <1>8, <2>1
  <2> QED BY <2>2 DEF NtRooted
<1>10. NtUnique({})' /\ NtLine({})' /\ NtEntering({})' /\ NtLostAbove({})'
  BY <1>3 DEF NtUnique, NtLine, NtEntering, NtLostAbove
<1>11. NtGame({})'
  BY <1>9, <1>10 DEF NtGame
<1> QED BY <1>6, <1>7, <1>11 DEF NtInv

\* A search touches nodes of the game at or below the head only.
LEMMA SearchBelow ==
  ASSUME NtTypeOK, NEW G \in SUBSET NtAddr, NtGame(G), NEW x \in NtSearchable
  PROVE  /\ ntPc = "idle" /\ ntHead # NtNull /\ x \in G /\ NtDepth(x) >= NtHere /\ NtHere \in Nat
         /\ \A z \in G : NtDepth(z) >= NtHere => ~ntHeap[z].lost
<1>1. ntPc = "idle" /\ ntHead # NtNull /\ x \in NtSubtree(ntHeap, ntHead)
  BY DEF NtSearchable
<1>2. ntHead \in G /\ NtDepth(ntHead) = NtHere /\ NtHere \in Nat
  BY <1>1, AtHead DEF NtGame, NtLine
<1>3. PICK S \in SUBSET NtAddr : S = {z \in G : NtDepth(z) >= NtHere}
  OBVIOUS
<1>4. \A z \in NtAddr : NtDepth(z) \in Nat
  BY GameFacts
<1>5. NtClosed(ntHeap, S)
  <2>1. ASSUME NEW z \in S, NEW c \in NtChildren(ntHeap, z)
        PROVE  c \in S
    <3>1. c \in NtAddr /\ NtOwner(c) = z /\ z \in G /\ NtDepth(z) >= NtHere
      BY <1>3 DEF NtChildren, NtLive, NtOwner
    <3>2. c \in G
      BY <3>1, GameFacts
    <3>3. z # "begin"
      BY NtAssumption
    <3>4. NtDepth(c) = NtDepth(z) + 1
      BY <3>1, <3>2, <3>3 DEF NtGame, NtRooted
    <3> QED BY <1>2, <1>3, <1>4, <3>1, <3>2, <3>4
  <2> QED BY <2>1 DEF NtClosed
<1>6. x \in S
  BY <1>1, <1>2, <1>3, <1>5 DEF NtSubtree
<1>7. \A z \in G : NtDepth(z) >= NtHere => ~ntHeap[z].lost
  BY <1>1, <1>2, <1>4 DEF NtGame, NtLostAbove
<1> QED BY <1>1, <1>2, <1>3, <1>6, <1>7

\* A search gives a node its edges.
LEMMA ExtendKeeps == ASSUME NtInv, NEW x \in NtSearchable, NtSearchExtend(x) PROVE NtInv'
<1>1. NtTypeOK /\ NtQueued
  BY DEF NtInv
<1>2. PICK G \in SUBSET NtAddr : NtGame(G)
  BY DEF NtInv
<1>3. /\ ntHeap' = NtEdges(ntHeap, x, "all")
      /\ UNCHANGED <<ntHead, ntFen, ntPath, ntQueue, ntPc, ntTodo, ntOld, ntSeen, ntWas, ntResets>>
  BY DEF NtSearchExtend, NtEdges
<1>4. ntPc = "idle" /\ x \in G /\ x \in NtAddr
  BY <1>1, <1>2, SearchBelow
<1>5. NtLive(ntHeap) = {y \in NtAddr : NtOwner(y) # "free"}
  BY <1>1, HeapIs DEF NtTypeOK, NtOwner
<1>6. NtHeapOK(ntHeap') /\ \A y \in NtAddr : /\ NtOwner(y)' = NtOwner(y) /\ NtPathTo(y)' = NtPathTo(y)
                                             /\ NtDepth(y)' = NtDepth(y) /\ ntHeap'[y].fen = ntHeap[y].fen
                                             /\ ntHeap'[y].lost = ntHeap[y].lost
  <2>1. ntHeap \in [NtAddr -> NtNodes] /\ \A y \in NtAddr : ntHeap[y].owner = "free" => ntHeap[y] = NtFree
    BY <1>1 DEF NtTypeOK, NtHeapOK
  <2>2. /\ ntHeap' \in [NtAddr -> NtNodes] /\ (\A y \in NtAddr \ {x} : ntHeap'[y] = ntHeap[y])
        /\ ntHeap'[x].owner = ntHeap[x].owner /\ ntHeap'[x].path = ntHeap[x].path
        /\ ntHeap'[x].fen = ntHeap[x].fen /\ ntHeap'[x].lost = ntHeap[x].lost
    BY <1>3, <1>4, <2>1, EdgesSet
  <2>3. NtOwner(x) # "free"
    BY <1>2, <1>4, <1>5 DEF NtGame
  <2> QED BY <2>1, <2>2, <2>3 DEF NtHeapOK, NtOwner, NtPathTo, NtDepth
<1>7. NtTypeOK'
  BY <1>1, <1>3, <1>6 DEF NtTypeOK
<1>8. NtQueued'
  <2>1. \A i \in 1..Len(ntQueue) : ntQueue[i] \in SUBSET NtAddr
    BY <1>1 DEF NtTypeOK
  <2> QED BY <1>1, <1>3, <1>6, <2>1 DEF NtQueued
<1>9. G \subseteq NtLive(ntHeap)' /\ NtRooted(G)' /\ NtUnique(G)'
  <2>1. \A y \in G : /\ NtOwner(y)' = NtOwner(y) /\ NtPathTo(y)' = NtPathTo(y) /\ ntHeap'[y].fen = ntHeap[y].fen
                     /\ NtOwner(y) = "begin" \/ NtOwner(y) \in G
    BY <1>1, <1>2, <1>6, GameFacts
  <2>2. \A y \in NtAddr \ (G \cup {}) :
           NtOwner(y)' = "gc" \/ (NtOwner(y)' = NtOwner(y) /\ NtOwner(y) \notin G \cup {"begin"})
    BY <1>1, <1>2, <1>6, GameFacts
  <2>3. {} \in SUBSET NtAddr /\ ntFen' = ntFen /\ G \in SUBSET G /\ G \cup {} = G
    BY <1>3
  <2>4. (G \cup {}) \subseteq NtLive(ntHeap)' /\ NtRooted(G \cup {})' /\ NtUnique(G \cup {})'
    BY <1>1, <1>2, <1>7, <2>1, <2>2, <2>3, Pruned
  <2> QED BY <2>3, <2>4
<1>10. NtLine(G)'
  <2>1. ntHead \in NtAddr => NtDepth(ntHead)' = NtDepth(ntHead)
    BY <1>3, <1>6 DEF NtDepth, NtPathTo
  <2>2. NtHere' = NtHere /\ ntPath' = ntPath /\ ntHead' = ntHead
    BY <1>3 DEF NtHere
  <2> QED BY <1>2, <1>6, <2>1, <2>2 DEF NtGame, NtLine
<1>11. NtEntering(G)'
  BY <1>3, <1>4 DEF NtEntering
<1>12. NtLostAbove(G)'
  <2>1. NtHere' = NtHere
    BY <1>3 DEF NtHere
  <2>2. \A y \in G : ntHeap'[y].lost => NtDepth(y)' < NtHere'
    BY <1>2, <1>4, <1>6, <2>1 DEF NtGame, NtLostAbove
  <2> QED BY <2>2 DEF NtLostAbove
<1>13. NtGame(G)'
  BY <1>9, <1>10, <1>11, <1>12 DEF NtGame
<1> QED BY <1>7, <1>8, <1>13 DEF NtInv

\* A search spawns the child of an edge that has none.
LEMMA SpawnKeeps == ASSUME NtInv, NEW x \in NtSearchable, NEW m \in NtMoves, NtSearchSpawn(x, m) PROVE NtInv'
<1>1. NtTypeOK /\ NtQueued
  BY DEF NtInv
<1>2. PICK G \in SUBSET NtAddr : NtGame(G)
  BY DEF NtInv
<1> DEFINE r == NtNode(x, ntFen, Append(ntHeap[x].path, m))
<1>3. /\ NtChildAt(ntHeap, x, m) = {}
      /\ UNCHANGED <<ntHead, ntFen, ntPath, ntQueue, ntPc, ntTodo, ntOld, ntSeen, ntWas, ntResets>>
  BY DEF NtSearchSpawn
<1>4. PICK y \in NtAddr \ NtLive(ntHeap) : ntHeap' = [ntHeap EXCEPT ![y] = r]
  BY DEF NtSearchSpawn
<1>5. /\ ntPc = "idle" /\ ntHead # NtNull /\ x \in G /\ NtDepth(x) >= NtHere /\ NtHere \in Nat
      /\ \A z \in G : NtDepth(z) >= NtHere => ~ntHeap[z].lost
  BY <1>1, <1>2, SearchBelow
<1>6. NtHeapOK(ntHeap) /\ NtLive(ntHeap) = {z \in NtAddr : NtOwner(z) # "free"}
      /\ NtChildren(ntHeap, x) = {z \in NtAddr : NtOwner(z) = x}
  BY <1>1, <1>5, HeapIs DEF NtTypeOK, NtOwner
<1>7. y \in NtAddr /\ NtOwner(y) = "free" /\ y \notin G
  BY <1>2, <1>4, <1>6 DEF NtGame
<1>8. \A z \in NtAddr : z \notin {"free", "begin", "gc"}
  BY NtAssumption
<1>9. \A z \in NtAddr : NtPathTo(z) \in Seq(NtMoves) /\ NtDepth(z) \in Nat
  BY <1>1, <1>2, GameFacts
<1>10. /\ r \in NtNodes /\ r.owner = x /\ r.fen = ntFen /\ r.path = Append(NtPathTo(x), m) /\ ~r.lost
  <2>1. Append(ntHeap[x].path, m) \in Seq(NtMoves) /\ x \in NtOwners /\ ntFen \in NtFens
    BY <1>1, <1>5, <1>9 DEF NtOwners, NtTypeOK, NtPathTo
  <2>2. r \in NtNodes
    BY <2>1, NodeOK
  <2> QED BY <2>2 DEF NtNode, NtPathTo
<1> HIDE DEF r
<1>11. NtHeapOK(ntHeap') /\ ntHeap'[y] = r /\ \A z \in NtAddr \ {y} : ntHeap'[z] = ntHeap[z]
  BY <1>4, <1>5, <1>6, <1>7, <1>8, <1>10 DEF NtHeapOK
<1>12. \A z \in NtAddr \ {y} : /\ NtOwner(z)' = NtOwner(z) /\ NtPathTo(z)' = NtPathTo(z) /\ NtDepth(z)' = NtDepth(z)
                               /\ ntHeap'[z] = ntHeap[z]
  BY <1>11 DEF NtOwner, NtPathTo, NtDepth
<1>13. /\ NtOwner(y)' = x /\ ntHeap'[y].fen = ntFen /\ NtPathTo(y)' = Append(NtPathTo(x), m) /\ ~ntHeap'[y].lost
       /\ NtDepth(y)' = NtDepth(x) + 1 /\ NtAlong(NtPathTo(y)', NtPathTo(x)) /\ NtPathTo(y)'[NtDepth(x) + 1] = m
       /\ NtPathTo(y)' \in Seq(NtMoves)
  <2>1. /\ NtOwner(y)' = x /\ ntHeap'[y].fen = ntFen /\ NtPathTo(y)' = Append(NtPathTo(x), m) /\ ~ntHeap'[y].lost
    BY <1>10, <1>11 DEF NtOwner, NtPathTo
  <2> QED BY <1>5, <1>9, <2>1, Steps DEF NtDepth
<1>14. NtTypeOK'
  BY <1>1, <1>3, <1>11 DEF NtTypeOK
<1>15. NtQueued'
  <2>1. \A i \in 1..Len(ntQueue) : ntQueue[i] \in SUBSET NtAddr
    BY <1>1 DEF NtTypeOK
  <2>2. \A z \in NtAddr : NtOwner(z)' = "gc" <=> NtOwner(z) = "gc"
    BY <1>5, <1>7, <1>8, <1>12, <1>13
  <2> QED BY <1>1, <1>3, <2>1, <2>2 DEF NtQueued
<1>16. \A z \in G : NtDepth(z) = NtDepth(x) + 1 => ~NtAlong(NtPathTo(z), NtPathTo(y)')
  <2>1. ASSUME NEW z \in G, NtDepth(z) = NtDepth(x) + 1, NtAlong(NtPathTo(z), NtPathTo(y)')
        PROVE  FALSE
    <3>1. /\ NtOwner(z) \in G /\ NtDepth(z) = NtDepth(NtOwner(z)) + 1
          /\ NtAlong(NtPathTo(z), NtPathTo(NtOwner(z)))
      BY <1>2, <1>5, <1>9, <2>1 DEF NtGame, NtRooted
    <3>2. PICK o \in G : o = NtOwner(z)
      BY <3>1
    <3>3. NtDepth(o) = NtDepth(x) /\ NtAlong(NtPathTo(z), NtPathTo(o)) /\ NtDepth(x) \in Nat
      BY <1>5, <1>9, <2>1, <3>1, <3>2
    <3>4. NtAlong(NtPathTo(o), NtPathTo(x))
      <4>1. /\ NtPathTo(o) \in Seq(NtMoves) /\ NtPathTo(x) \in Seq(NtMoves) /\ NtPathTo(z) \in Seq(NtMoves)
            /\ NtPathTo(y)' \in Seq(NtMoves)
        BY <1>5, <1>9, <1>13
      <4>2. NtAlong(NtPathTo(o), NtPathTo(z))
        BY <3>3, <4>1, AlongBack
      <4>3. NtAlong(NtPathTo(z), NtPathTo(x))
        <5>1. Len(NtPathTo(z)) <= Len(NtPathTo(y)')
          BY <1>13, <2>1, <3>3 DEF NtDepth
        <5> QED BY <1>13, <2>1, <4>1, <5>1, AlongOn
      <4>4. Len(NtPathTo(o)) <= Len(NtPathTo(z))
        BY <2>1, <3>3 DEF NtDepth
      <4> QED BY <4>1, <4>2, <4>3, <4>4, AlongOn
    <3>5. o = x
      BY <1>2, <1>5, <3>3, <3>4 DEF NtGame, NtUnique
    <3>6. NtPathTo(z)[NtDepth(z)] = m
      BY <1>13, <2>1, <3>3 DEF NtAlong, NtDepth
    <3>7. z \in NtChildAt(ntHeap, x, m)
      BY <1>6, <3>2, <3>5, <3>6 DEF NtChildAt, Last, NtDepth, NtPathTo
    <3> QED BY <1>3, <3>7
  <2> QED BY <2>1
<1>17. (G \cup {y}) \subseteq NtLive(ntHeap)' /\ NtRooted(G \cup {y})' /\ NtUnique(G \cup {y})'
  <2>1. \A z \in G : /\ NtOwner(z)' = NtOwner(z) /\ NtPathTo(z)' = NtPathTo(z) /\ ntHeap'[z].fen = ntHeap[z].fen
                     /\ NtOwner(z) = "begin" \/ NtOwner(z) \in G
    BY <1>1, <1>2, <1>7, <1>12, GameFacts
  <2>2. \A z \in NtAddr \ (G \cup {y}) :
           NtOwner(z)' = "gc" \/ (NtOwner(z)' = NtOwner(z) /\ NtOwner(z) \notin G \cup {"begin"})
    BY <1>1, <1>2, <1>12, GameFacts
  <2>3. \A z \in {y} : /\ x \in G /\ NtOwner(z) = "free" /\ NtOwner(z)' = x /\ ntHeap'[z].fen = ntFen
                       /\ NtDepth(z)' = NtDepth(x) + 1 /\ NtAlong(NtPathTo(z)', NtPathTo(x))
                       /\ \A w \in G : NtDepth(w) = NtDepth(x) + 1 => ~NtAlong(NtPathTo(w), NtPathTo(z)')
    BY <1>5, <1>7, <1>13, <1>16
  <2>4. {y} \in SUBSET NtAddr /\ (\A w, z \in {y} : w = z) /\ G \in SUBSET G /\ ntFen' = ntFen
    BY <1>3, <1>7
  <2> QED BY <1>1, <1>2, <1>14, <2>1, <2>2, <2>3, <2>4, Pruned
<1>18. NtLine(G \cup {y})'
  <2>1. ntHead \in G /\ NtDepth(ntHead) = NtHere /\ (\A k \in 0..NtHere : \E z \in G : NtDepth(z) = k)
        /\ \A z \in G : NtAlong(NtPathTo(z), ntPath)
    BY <1>2, <1>5 DEF NtGame, NtLine
  <2>2. NtHere' = NtHere /\ ntPath' = ntPath /\ ntHead' = ntHead /\ ntPath \in Seq(NtMoves)
    BY <1>1, <1>3 DEF NtHere, NtTypeOK
  <2>3. NtDepth(ntHead)' = NtDepth(ntHead)
    <3>1. ntHeap'[ntHead] = ntHeap[ntHead]
      BY <1>7, <1>12, <2>1
    <3> QED BY <2>2, <3>1 DEF NtDepth, NtPathTo
  <2>4. NtAlong(NtPathTo(y)', ntPath)
    BY <1>5, <1>9, <1>13, <2>1, <2>2, AlongOn DEF NtDepth, NtHere
  <2>5. \A z \in G : NtDepth(z)' = NtDepth(z) /\ NtPathTo(z)' = NtPathTo(z)
    BY <1>7, <1>12
  <2> QED BY <1>5, <2>1, <2>2, <2>3, <2>4, <2>5 DEF NtLine
<1>19. NtEntering(G \cup {y})'
  BY <1>3, <1>5 DEF NtEntering
<1>20. NtLostAbove(G \cup {y})'
  <2>1. NtHere' = NtHere
    BY <1>3 DEF NtHere
  <2>2. \A z \in G \cup {y} : ntHeap'[z].lost => NtDepth(z)' < NtHere'
    BY <1>5, <1>7, <1>9, <1>12, <1>13, <2>1
  <2> QED BY <2>2 DEF NtLostAbove
<1>21. NtGame(G \cup {y})' /\ G \cup {y} \in SUBSET NtAddr
  BY <1>7, <1>17, <1>18, <1>19, <1>20 DEF NtGame
<1> QED BY <1>14, <1>15, <1>21 DEF NtInv

\* The collector frees nothing of the game, and no root that is still queued.
LEMMA CollectKeeps == ASSUME NtInv, NtGarbageCollect PROVE NtInv'
<1>1. NtTypeOK /\ NtQueued
  BY DEF NtInv
<1>2. PICK G \in SUBSET NtAddr : NtGame(G)
  BY DEF NtInv
<1> DEFINE n == Len(ntQueue)
           roots == Last(ntQueue)
           gone == UNION {NtSubtree(ntHeap, x) : x \in roots}
<1>3. /\ ntQueue # <<>> /\ ntQueue' = Front(ntQueue)
      /\ ntHeap' = [x \in NtAddr |-> IF x \in gone THEN NtFree ELSE ntHeap[x]]
      /\ UNCHANGED <<ntHead, ntFen, ntPath, ntPc, ntTodo, ntOld, ntSeen, ntWas, ntResets>>
  BY DEF NtGarbageCollect
<1>4. /\ n \in Nat \ {0} /\ roots = ntQueue[n] /\ ntQueue' \in Seq(SUBSET NtAddr) /\ Len(ntQueue') = n - 1
      /\ (\A i \in 1..(n - 1) : ntQueue'[i] = ntQueue[i]) /\ (\A i \in 1..n : ntQueue[i] \in SUBSET NtAddr)
  <2>1. ntQueue \in Seq(SUBSET NtAddr)
    BY <1>1 DEF NtTypeOK
  <2>2. n \in Nat \ {0}
    BY <1>3, <2>1
  <2>3. /\ Front(ntQueue) \in Seq(SUBSET NtAddr) /\ Len(Front(ntQueue)) = n - 1
        /\ \A i \in 1..(n - 1) : Front(ntQueue)[i] = ntQueue[i]
    <3>1. n - 1 \in Int /\ \A i \in 1..(n - 1) : ntQueue[i] \in SUBSET NtAddr
      BY <2>1, <2>2
    <3> HIDE DEF n
    <3>2. /\ SubSeq(ntQueue, 1, n - 1) \in Seq(SUBSET NtAddr)
          /\ Len(SubSeq(ntQueue, 1, n - 1)) = (IF 1 <= n - 1 THEN n - 1 - 1 + 1 ELSE 0)
          /\ \A i \in 1..(n - 1 - 1 + 1) : SubSeq(ntQueue, 1, n - 1)[i] = ntQueue[1 + i - 1]
      BY <3>1, SubSeqProperties
    <3>3. /\ SubSeq(ntQueue, 1, n - 1) \in Seq(SUBSET NtAddr) /\ Len(SubSeq(ntQueue, 1, n - 1)) = n - 1
          /\ \A i \in 1..(n - 1) : SubSeq(ntQueue, 1, n - 1)[i] = ntQueue[i]
      BY <2>2, <3>2
    <3> QED BY <3>3 DEF Front, n
  <2> QED BY <1>3, <2>1, <2>2, <2>3 DEF Last
<1>5. NtLive(ntHeap) = {z \in NtAddr : NtOwner(z) # "free"} /\ NtHeapOK(ntHeap)
      /\ \A y \in NtAddr : NtChildren(ntHeap, y) = {z \in NtAddr : NtOwner(z) = y}
  BY <1>1, HeapIs DEF NtTypeOK, NtOwner
<1>6. \A z \in NtAddr : z \notin {"free", "begin", "gc"}
  BY NtAssumption
<1>7. /\ \A z \in G : NtOwner(z) = "begin" \/ NtOwner(z) \in G
      /\ \A z \in NtAddr : NtOwner(z) \in G => z \in G
      /\ \A z \in NtAddr : NtOwner(z) \in {"free", "begin", "gc"} \/ NtOwner(z) \in NtLive(ntHeap)
      /\ \A z \in NtAddr : NtOwner(z) = "begin" => z \in G
  BY <1>1, <1>2, GameFacts
<1>8. \A x \in roots : x \in NtAddr /\ NtOwner(x) = "gc"
  BY <1>1, <1>4 DEF NtQueued
<1>9. gone \subseteq NtLive(ntHeap) \ G
  <2>1. PICK D \in SUBSET NtAddr : D = NtLive(ntHeap) \ G
    BY <1>5
  <2>2. NtClosed(ntHeap, D)
    <3>1. ASSUME NEW z \in D, NEW c \in NtChildren(ntHeap, z) PROVE c \in D
      <4>1. c \in NtAddr /\ NtOwner(c) = z /\ z \in NtAddr /\ z \notin G
        BY <1>5, <2>1
      <4> QED BY <1>5, <1>6, <1>7, <2>1, <4>1
    <3> QED BY <3>1 DEF NtClosed
  <2>3. ASSUME NEW x \in roots PROVE NtSubtree(ntHeap, x) \subseteq D
    <3>1. x \in D
      BY <1>5, <1>6, <1>7, <1>8, <2>1, <2>3
    <3> QED BY <2>2, <3>1 DEF NtSubtree
  <2> QED BY <2>1, <2>3
<1>10. \A x \in roots : x \in gone
  <2>1. \A x \in roots : x \in NtSubtree(ntHeap, x)
    BY <1>8 DEF NtSubtree
  <2> QED BY <2>1
<1>11. \A c \in NtAddr : NtOwner(c) \in gone => c \in gone
  <2>1. ASSUME NEW c \in NtAddr, NEW x \in roots, NtOwner(c) \in NtSubtree(ntHeap, x)
        PROVE  c \in NtSubtree(ntHeap, x)
    <3>1. NtOwner(c) \in NtAddr
      BY <2>1 DEF NtSubtree
    <3>2. c \in NtChildren(ntHeap, NtOwner(c))
      BY <1>5, <3>1
    <3>3. ASSUME NEW S \in SUBSET NtAddr, x \in S, NtClosed(ntHeap, S) PROVE c \in S
      <4>1. NtOwner(c) \in S
        BY <2>1, <3>3 DEF NtSubtree
      <4> QED BY <3>2, <3>3, <4>1 DEF NtClosed
    <3> QED BY <3>3 DEF NtSubtree
  <2> QED BY <2>1
<1>12. ASSUME NEW i \in 1..(n - 1), NEW z \in ntQueue[i] PROVE z \notin gone
  <2>1. i \in 1..n /\ n \in 1..n /\ i # n
    BY <1>4
  <2>2. z \in NtAddr /\ NtOwner(z) = "gc" /\ z \notin roots
    BY <1>1, <1>4, <2>1 DEF NtQueued
  <2>3. PICK S \in SUBSET NtAddr : S = NtAddr \ {z}
    OBVIOUS
  <2>4. NtClosed(ntHeap, S)
    BY <1>5, <1>6, <2>2, <2>3 DEF NtClosed
  <2>5. \A x \in roots : x \in S
    BY <1>8, <2>2, <2>3
  <2>6. \A x \in roots : z \notin NtSubtree(ntHeap, x)
    BY <2>3, <2>4, <2>5 DEF NtSubtree
  <2> QED BY <2>6
<1> HIDE DEF gone, roots, n
<1>13. /\ NtHeapOK(ntHeap')
       /\ \A z \in NtAddr : z \notin gone => /\ ntHeap'[z] = ntHeap[z] /\ NtOwner(z)' = NtOwner(z)
                                             /\ NtPathTo(z)' = NtPathTo(z) /\ NtDepth(z)' = NtDepth(z)
       /\ \A z \in gone : NtOwner(z)' = "free" /\ z \in NtAddr
  <2>1. NtFree \in NtNodes /\ NtFree.owner = "free"
    <3>1. "free" \in NtOwners /\ NtNull \in NtFens \cup {NtNull} /\ <<>> \in Seq(NtMoves)
      BY DEF NtOwners
    <3>2. NtFree \in NtNodes
      BY <3>1, NodeOK DEF NtFree
    <3> QED BY <3>2 DEF NtFree, NtNode
  <2>2. gone \subseteq NtAddr
    BY <1>5, <1>9
  <2>3. \A z \in NtAddr : ntHeap'[z] = IF z \in gone THEN NtFree ELSE ntHeap[z]
    BY <1>3
  <2>4. NtHeapOK(ntHeap')
    BY <1>3, <1>5, <2>1 DEF NtHeapOK
  <2> QED BY <2>1, <2>2, <2>3, <2>4 DEF NtOwner, NtPathTo, NtDepth
<1>14. NtTypeOK'
  BY <1>1, <1>3, <1>4, <1>13 DEF NtTypeOK
<1>15. NtQueued'
  <2>1. \A i \in 1..Len(ntQueue') : i \in 1..n /\ i \in 1..(n - 1) /\ ntQueue'[i] = ntQueue[i]
    BY <1>4
  <2>2. ASSUME NEW i \in 1..Len(ntQueue'), NEW z \in ntQueue'[i] PROVE NtOwner(z)' = "gc"
    <3>1. z \notin gone /\ z \in NtAddr /\ NtOwner(z) = "gc"
      BY <1>1, <1>4, <1>12, <2>1 DEF NtQueued, n
    <3> QED BY <1>13, <3>1
  <2>3. ASSUME NEW z \in NtAddr, NtOwner(z)' = "gc" PROVE \E i \in 1..Len(ntQueue') : z \in ntQueue'[i]
    <3>1. z \notin gone /\ NtOwner(z) = "gc"
      BY <1>13, <2>3
    <3>2. PICK i \in 1..n : z \in ntQueue[i]
      BY <1>1, <3>1 DEF NtQueued, n
    <3>3. i # n
      BY <1>4, <1>10, <3>1, <3>2
    <3> QED BY <1>4, <3>2, <3>3
  <2>4. \A i, j \in 1..Len(ntQueue') : \A z \in ntQueue'[i] : z \in ntQueue'[j] => i = j
    BY <1>1, <2>1 DEF NtQueued, n
  <2> QED BY <2>2, <2>3, <2>4 DEF NtQueued
<1>16. \A z \in G : /\ z \in NtAddr /\ ntHeap'[z] = ntHeap[z] /\ NtOwner(z)' = NtOwner(z)
                    /\ NtPathTo(z)' = NtPathTo(z) /\ NtDepth(z)' = NtDepth(z)
  BY <1>9, <1>13
<1>17. NtLive(ntHeap') = {z \in NtAddr : NtOwner(z)' # "free"}
  BY <1>13, HeapIs DEF NtOwner
<1>18. G \subseteq NtLive(ntHeap)'
  BY <1>2, <1>5, <1>16, <1>17 DEF NtGame
<1>19. NtRooted(G)'
  <2>1. ASSUME NEW x \in G
        PROVE  /\ ntHeap'[x].fen = ntFen'
               /\ \/ NtOwner(x)' = "begin" /\ NtDepth(x)' = 0
                  \/ /\ NtOwner(x)' \in G /\ NtDepth(x)' = NtDepth(NtOwner(x))' + 1
                     /\ NtAlong(NtPathTo(x)', NtPathTo(NtOwner(x))')
    <3>1. /\ ntHeap[x].fen = ntFen
          /\ \/ NtOwner(x) = "begin" /\ NtDepth(x) = 0
             \/ /\ NtOwner(x) \in G /\ NtDepth(x) = NtDepth(NtOwner(x)) + 1
                /\ NtAlong(NtPathTo(x), NtPathTo(NtOwner(x)))
      BY <1>2 DEF NtGame, NtRooted
    <3>2. NtOwner(x) \in G => NtDepth(NtOwner(x))' = NtDepth(NtOwner(x)) /\ NtPathTo(NtOwner(x))' = NtPathTo(NtOwner(x))
      <4>1. ASSUME NEW o \in G, o = NtOwner(x)
            PROVE  NtDepth(NtOwner(x))' = NtDepth(o) /\ NtPathTo(NtOwner(x))' = NtPathTo(o)
        <5>1. NtOwner(x)' = o /\ ntHeap'[o] = ntHeap[o]
          BY <1>16, <4>1
        <5> QED BY <5>1 DEF NtDepth, NtPathTo
      <4> QED BY <4>1
    <3> QED BY <1>3, <1>16, <3>1, <3>2
  <2>2. ASSUME NEW x \in NtLive(ntHeap') \ G, NtOwner(x)' # "gc" PROVE NtOwner(x)' \in NtLive(ntHeap') \ G
    <3>1. x \in NtAddr /\ x \notin gone /\ NtOwner(x)' = NtOwner(x) /\ NtOwner(x) # "free" /\ NtOwner(x) # "gc"
      BY <1>13, <1>17, <2>2
    <3>2. NtOwner(x) \in NtLive(ntHeap) \ G
      BY <1>7, <2>2, <3>1
    <3>3. NtOwner(x) \notin gone /\ NtOwner(x) \in NtAddr
      BY <1>5, <1>11, <3>1, <3>2
    <3>4. PICK o \in NtAddr : o = NtOwner(x)
      BY <3>3
    <3>5. NtOwner(o)' = NtOwner(o) /\ NtOwner(o) # "free"
      BY <1>5, <1>13, <3>2, <3>3, <3>4
    <3> QED BY <1>17, <3>1, <3>2, <3>4, <3>5
  <2> QED BY <2>1, <2>2 DEF NtRooted
<1>20. NtUnique(G)'
  BY <1>2, <1>16 DEF NtGame, NtUnique
<1>21. NtHere' = NtHere /\ ntPath' = ntPath
  BY <1>3 DEF NtHere
<1>22. NtLine(G)'
  <2>1. ntHead \in G => NtDepth(ntHead)' = NtDepth(ntHead)
    BY <1>3, <1>16 DEF NtDepth, NtPathTo
  <2> QED BY <1>2, <1>3, <1>16, <1>21, <2>1 DEF NtGame, NtLine
<1>23. NtEntering(G)'
  <2>1. SUFFICES ASSUME ntPc = "enter" PROVE NtEntering(G)'
    BY <1>3 DEF NtEntering
  <2>2. ntHead \in G
    BY <1>1, <1>2, <2>1 DEF NtTypeOK, NtGame, NtLine
  <2>3. ASSUME \A x \in NtAddr : NtOwner(x)' # ntHead PROVE ntHeap[ntHead].edges = "none"
    <3>1. ASSUME NEW x \in NtAddr PROVE NtOwner(x) # ntHead
      <4>1. SUFFICES ASSUME NtOwner(x) = ntHead PROVE FALSE
        OBVIOUS
      <4>2. x \in G
        BY <1>7, <2>2, <4>1
      <4> QED BY <1>16, <2>3, <4>1, <4>2
    <3> QED BY <1>2, <2>1, <3>1 DEF NtGame, NtEntering
  <2>4. \A x \in G : NtDepth(x) > NtHere => NtPathTo(x)[NtHere + 1] = Head(ntTodo)
    BY <1>2, <2>1 DEF NtGame, NtEntering
  <2>5. Head(ntTodo)' = Head(ntTodo) /\ ntHead' = ntHead /\ ntHeap'[ntHead] = ntHeap[ntHead]
    BY <1>3, <1>16, <2>2
  <2> QED BY <1>16, <1>21, <2>3, <2>4, <2>5 DEF NtEntering
<1>24. NtLostAbove(G)'
  <2>1. ntOld \in G => NtDepth(ntOld)' = NtDepth(ntOld) /\ NtPathTo(ntOld)' = NtPathTo(ntOld)
    BY <1>3, <1>16 DEF NtDepth, NtPathTo
  <2>2. ntOld' = ntOld /\ ntPc' = ntPc /\ ntSeen' = ntSeen /\ ntWas' = ntWas
    BY <1>3
  <2>3. NtLostAbove(G)
    BY <1>2 DEF NtGame
  <2> QED BY <1>16, <1>21, <2>1, <2>2, <2>3 DEF NtLostAbove
<1>25. NtGame(G)'
  BY <1>18, <1>19, <1>20, <1>22, <1>23, <1>24 DEF NtGame
<1> QED BY <1>14, <1>15, <1>25 DEF NtInv

\* A node whose children become solid keeps everything else.
LEMMA MadeSolid ==
  ASSUME NEW r \in NtNodes
  PROVE  /\ [r EXCEPT !.solid = TRUE] \in NtNodes
         /\ [r EXCEPT !.solid = TRUE].owner = r.owner
         /\ [r EXCEPT !.solid = TRUE].path = r.path
         /\ [r EXCEPT !.solid = TRUE].fen = r.fen
         /\ [r EXCEPT !.solid = TRUE].lost = r.lost
BY DEF NtNodes

\* Whoever is one move below x is a child of x.
LEMMA BelowIsChild ==
  ASSUME NtTypeOK, NEW G \in SUBSET NtAddr, NtGame(G), NEW x \in G, NEW z \in G,
         NtDepth(z) = NtDepth(x) + 1, NtAlong(NtPathTo(z), NtPathTo(x))
  PROVE  NtOwner(z) = x
<1>1. NtDepth(x) \in Nat /\ NtPathTo(x) \in Seq(NtMoves) /\ NtPathTo(z) \in Seq(NtMoves)
  BY GameFacts
<1>2. NtOwner(z) \in G /\ NtDepth(z) = NtDepth(NtOwner(z)) + 1 /\ NtAlong(NtPathTo(z), NtPathTo(NtOwner(z)))
  BY <1>1 DEF NtGame, NtRooted
<1>3. PICK o \in G : o = NtOwner(z)
  BY <1>2
<1>4. NtDepth(o) \in Nat /\ NtPathTo(o) \in Seq(NtMoves)
  BY GameFacts
<1>5. NtDepth(o) = NtDepth(x) /\ NtAlong(NtPathTo(o), NtPathTo(z))
  BY <1>1, <1>2, <1>3, <1>4, AlongBack
<1>6. NtAlong(NtPathTo(o), NtPathTo(x))
  BY <1>1, <1>4, <1>5, AlongOn DEF NtDepth
<1> QED BY <1>3, <1>5, <1>6 DEF NtGame, NtUnique

\* Two paths that leave p by the same move.
LEMMA SameMove ==
  ASSUME NEW p \in Seq(NtMoves), NEW q \in Seq(NtMoves), NEW r \in Seq(NtMoves),
         Len(q) = Len(p) + 1, Len(r) = Len(p) + 1, NtAlong(q, p), NtAlong(r, p)
  PROVE  q[Len(p) + 1] = r[Len(p) + 1] <=> NtAlong(q, r)
BY DEF NtAlong

\* The children of a node move to an array of their own.
LEMMA SolidKeeps == ASSUME NtInv, NEW x \in NtSearchable, NtMakeSolid(x) PROVE NtInv'
<1>1. NtTypeOK /\ NtQueued
  BY DEF NtInv
<1>2. PICK G \in SUBSET NtAddr : NtGame(G)
  BY DEF NtInv
<1> DEFINE olds == NtChildren(ntHeap, x)
           For(m) == NtChildAt(ntHeap, x, m)
           Content(m) == IF For(m) = {} THEN NtNode(x, ntFen, Append(ntHeap[x].path, m))
                         ELSE ntHeap[CHOOSE y \in For(m) : TRUE]
<1>3. UNCHANGED <<ntHead, ntFen, ntPath, ntPc, ntTodo, ntOld, ntSeen, ntWas, ntResets>>
  BY DEF NtMakeSolid
<1>4. PICK array \in [NtMoves -> NtAddr \ NtLive(ntHeap)] :
        /\ IsInjective(array) /\ ntQueue' = Append(ntQueue, olds)
        /\ ntHeap' = [y \in NtAddr |->
              CASE y \in Range(array) -> Content(CHOOSE m \in NtMoves : array[m] = y)
                [] y \in olds -> [ntHeap[y] EXCEPT !.owner = "gc"]
                [] y = x -> [ntHeap[y] EXCEPT !.solid = TRUE]
                [] y \in NtLive(ntHeap) /\ ntHeap[y].owner \in olds ->
                       [ntHeap[y] EXCEPT !.owner = array[Last(ntHeap[@].path)]]
                [] OTHER -> ntHeap[y]]
  BY Zenon DEF NtMakeSolid
<1>5. /\ ntPc = "idle" /\ ntHead # NtNull /\ x \in G /\ NtDepth(x) >= NtHere /\ NtHere \in Nat
      /\ \A z \in G : NtDepth(z) >= NtHere => ~ntHeap[z].lost
  BY <1>1, <1>2, SearchBelow
<1>6. /\ NtHeapOK(ntHeap) /\ NtLive(ntHeap) = {z \in NtAddr : NtOwner(z) # "free"}
      /\ olds = {z \in NtAddr : NtOwner(z) = x}
  BY <1>1, <1>5, HeapIs DEF NtTypeOK, NtOwner
<1>7. \A z \in NtAddr : z \notin {"free", "begin", "gc"}
  BY NtAssumption
<1>8. \A z \in NtAddr : NtPathTo(z) \in Seq(NtMoves) /\ NtDepth(z) \in Nat
  BY <1>1, <1>2, GameFacts
<1>9. \A z \in olds : /\ z \in G /\ z \in NtAddr /\ NtOwner(z) = x /\ NtDepth(z) = NtDepth(x) + 1
                      /\ NtAlong(NtPathTo(z), NtPathTo(x)) /\ ntHeap[z].fen = ntFen /\ ~ntHeap[z].lost
  <2>1. ASSUME NEW z \in olds
        PROVE  /\ z \in G /\ z \in NtAddr /\ NtOwner(z) = x /\ NtDepth(z) = NtDepth(x) + 1
               /\ NtAlong(NtPathTo(z), NtPathTo(x)) /\ ntHeap[z].fen = ntFen /\ ~ntHeap[z].lost
    <3>1. z \in NtAddr /\ NtOwner(z) = x
      BY <1>6
    <3>2. z \in G
      BY <1>1, <1>2, <1>5, <3>1, GameFacts
    <3>3. NtDepth(z) = NtDepth(x) + 1 /\ NtAlong(NtPathTo(z), NtPathTo(x)) /\ ntHeap[z].fen = ntFen
      BY <1>2, <1>5, <1>7, <3>1, <3>2 DEF NtGame, NtRooted
    <3>4. NtDepth(x) \in Nat
      BY <1>5, <1>8
    <3> QED BY <1>5, <3>1, <3>2, <3>3, <3>4
  <2> QED BY <2>1
<1>10. x \notin olds /\ NtOwner(x) \notin olds /\ NtOwner(x) # "free" /\ NtDepth(x) \in Nat /\ x \in NtAddr
  <2>1. NtDepth(x) \in Nat /\ x \in NtAddr
    BY <1>5, <1>8
  <2>2. x \notin olds
    BY <1>9, <2>1
  <2>3. NtOwner(x) \notin olds
    <3>1. SUFFICES ASSUME NtOwner(x) \in olds PROVE FALSE
      OBVIOUS
    <3>2. NtDepth(NtOwner(x)) = NtDepth(x) + 1 /\ NtOwner(x) \in NtAddr
      BY <1>9, <3>1
    <3>3. NtDepth(x) = NtDepth(NtOwner(x)) + 1
      BY <1>2, <1>5, <1>7, <3>2 DEF NtGame, NtRooted
    <3> QED BY <2>1, <3>2, <3>3
  <2> QED BY <1>2, <1>5, <1>6, <2>1, <2>2, <2>3 DEF NtGame
<1>11. PICK A \in SUBSET NtAddr : A = Range(array)
  BY DEF Range
<1>12. /\ \A m \in NtMoves : array[m] \in A
       /\ \A y \in A : \E m \in NtMoves : y = array[m]
       /\ \A y \in A : y \in NtAddr /\ NtOwner(y) = "free" /\ y \notin G /\ y \notin olds /\ y # x
       /\ \A m, k \in NtMoves : array[m] = array[k] => m = k
  <2>1. \A m \in NtMoves : array[m] \in A
    BY <1>4, <1>11 DEF Range
  <2>2. \A y \in A : \E m \in NtMoves : y = array[m]
    BY <1>4, <1>11 DEF Range
  <2>3. \A y \in A : y \in NtAddr /\ y \notin NtLive(ntHeap)
    BY <1>4, <2>2
  <2>4. \A m, k \in NtMoves : array[m] = array[k] => m = k
    BY <1>4 DEF IsInjective
  <2> QED BY <1>2, <1>5, <1>6, <1>9, <2>1, <2>2, <2>3, <2>4 DEF NtGame
<1>13. \A z \in olds : Last(NtPathTo(z)) \in NtMoves /\ Last(NtPathTo(z)) = NtPathTo(z)[NtDepth(x) + 1]
                        /\ \A m \in NtMoves : z \in For(m) <=> NtPathTo(z)[NtDepth(x) + 1] = m
  <2>1. ASSUME NEW z \in olds
        PROVE  Last(NtPathTo(z)) \in NtMoves /\ Last(NtPathTo(z)) = NtPathTo(z)[NtDepth(x) + 1]
    <3>1. Last(NtPathTo(z)) = NtPathTo(z)[NtDepth(x) + 1]
      BY <1>9 DEF Last, NtDepth
    <3>2. NtPathTo(z) \in Seq(NtMoves) /\ Len(NtPathTo(z)) = NtDepth(x) + 1
      BY <1>8, <1>9 DEF NtDepth
    <3> QED BY <1>10, <3>1, <3>2
  <2>2. ASSUME NEW z \in olds, NEW m \in NtMoves PROVE z \in For(m) <=> Last(NtPathTo(z)) = m
    BY DEF NtChildAt, NtPathTo
  <2> QED BY <2>1, <2>2
<1>14. \A m \in NtMoves : /\ Content(m) \in NtNodes /\ Content(m).owner = x /\ Content(m).fen = ntFen
                          /\ ~Content(m).lost /\ Len(Content(m).path) = NtDepth(x) + 1
                          /\ NtAlong(Content(m).path, NtPathTo(x)) /\ Content(m).path[NtDepth(x) + 1] = m
  <2>1. ASSUME NEW m \in NtMoves
        PROVE  /\ Content(m) \in NtNodes /\ Content(m).owner = x /\ Content(m).fen = ntFen
               /\ ~Content(m).lost /\ Len(Content(m).path) = NtDepth(x) + 1
               /\ NtAlong(Content(m).path, NtPathTo(x)) /\ Content(m).path[NtDepth(x) + 1] = m
    <3>1. CASE For(m) = {}
      <4> DEFINE r == NtNode(x, ntFen, Append(ntHeap[x].path, m))
      <4>1. Content(m) = r
        BY <3>1
      <4>2. Append(NtPathTo(x), m) \in Seq(NtMoves) /\ x \in NtOwners /\ ntFen \in NtFens
        BY <1>1, <1>8, <1>10 DEF NtOwners, NtTypeOK
      <4>3. r \in NtNodes
        BY <4>2, NodeOK DEF NtPathTo
      <4>4. r.owner = x /\ r.fen = ntFen /\ ~r.lost /\ r.path = Append(NtPathTo(x), m)
        BY DEF NtNode, NtPathTo
      <4>5. /\ Len(Append(NtPathTo(x), m)) = NtDepth(x) + 1 /\ NtAlong(Append(NtPathTo(x), m), NtPathTo(x))
            /\ Append(NtPathTo(x), m)[NtDepth(x) + 1] = m
        BY <1>8, <1>10, Steps DEF NtDepth
      <4> HIDE DEF r, Content
      <4> QED BY <4>1, <4>3, <4>4, <4>5
    <3>2. CASE For(m) # {}
      <4>1. PICK c \in For(m) : Content(m) = ntHeap[c]
        BY <3>2
      <4>2. c \in olds
        BY DEF NtChildAt
      <4>3. ntHeap[c] \in NtNodes
        BY <1>6, <1>9, <4>2 DEF NtHeapOK
      <4>4. /\ ntHeap[c].owner = x /\ ntHeap[c].fen = ntFen /\ ~ntHeap[c].lost
            /\ Len(ntHeap[c].path) = NtDepth(x) + 1 /\ NtAlong(ntHeap[c].path, NtPathTo(x))
        BY <1>9, <4>2 DEF NtOwner, NtDepth, NtPathTo
      <4>5. ntHeap[c].path[NtDepth(x) + 1] = m
        BY <1>13, <4>1, <4>2 DEF NtPathTo
      <4> HIDE DEF Content
      <4> QED BY <4>1, <4>3, <4>4, <4>5
    <3> QED BY <3>1, <3>2
  <2> QED BY <2>1
<1>15. \A y \in A : \E m \in NtMoves : y = array[m] /\ ntHeap'[y] = Content(m)
  <2>1. ASSUME NEW y \in A PROVE \E m \in NtMoves : y = array[m] /\ ntHeap'[y] = Content(m)
    <3> DEFINE k == CHOOSE m \in NtMoves : array[m] = y
    <3>1. k \in NtMoves /\ array[k] = y
      BY <1>12
    <3> HIDE DEF Content
    <3>2. y \in NtAddr /\ y \in Range(array) /\ y \notin olds /\ y # x /\ y \notin NtLive(ntHeap)
      BY <1>6, <1>11, <1>12
    <3> HIDE DEF olds
    <3>3. ntHeap'[y] = Content(CHOOSE m \in NtMoves : array[m] = y)
      BY <1>4, <3>2
    <3> QED BY <3>1, <3>3
  <2> QED BY <2>1
<1>16. \A y \in olds : ntHeap'[y] = [ntHeap[y] EXCEPT !.owner = "gc"]
  <2>1. ASSUME NEW y \in olds PROVE ntHeap'[y] = [ntHeap[y] EXCEPT !.owner = "gc"]
    <3>1. y \in NtAddr /\ y \notin Range(array) /\ y # x /\ ntHeap[y].owner \notin olds
      BY <1>9, <1>10, <1>11, <1>12 DEF NtOwner
    <3> HIDE DEF Content, olds
    <3> QED BY <1>4, <2>1, <3>1, Zenon
  <2> QED BY <2>1
<1>17. ntHeap'[x] = [ntHeap[x] EXCEPT !.solid = TRUE]
  <2>1. x \in NtAddr /\ x \notin Range(array) /\ x \notin olds /\ ntHeap[x].owner \notin olds
    BY <1>10, <1>11, <1>12 DEF NtOwner
  <2> HIDE DEF Content, olds
  <2> QED BY <1>4, <2>1, Zenon
<1>18. \A y \in NtAddr : y \notin A /\ NtOwner(y) \in olds => 
          ntHeap'[y] = [ntHeap[y] EXCEPT !.owner = array[Last(ntHeap[@].path)]]
  <2>1. ASSUME NEW y \in NtAddr, y \notin A, ntHeap[y].owner \in olds
        PROVE  ntHeap'[y] = [ntHeap[y] EXCEPT !.owner = array[Last(ntHeap[@].path)]]
    <3>1. y \notin Range(array) /\ y # x /\ y \notin olds
      BY <1>9, <1>10, <1>11, <2>1 DEF NtOwner
    <3>2. y \in NtLive(ntHeap)
      BY <1>6, <1>7, <1>9, <2>1 DEF NtOwner
    <3> HIDE DEF Content, olds
    <3> QED BY <1>4, <2>1, <3>1, <3>2, Zenon
  <2> QED BY <2>1 DEF NtOwner
<1>19. \A y \in NtAddr : y \notin A /\ y \notin olds /\ y # x /\ NtOwner(y) \notin olds => ntHeap'[y] = ntHeap[y]
  <2>1. ASSUME NEW y \in NtAddr, y \notin A, y \notin olds, y # x, ntHeap[y].owner \notin olds
        PROVE  ntHeap'[y] = ntHeap[y]
    <3>1. y \notin Range(array)
      BY <1>11, <2>1
    <3> HIDE DEF Content, olds
    <3> QED BY <1>4, <2>1, <3>1, Zenon
  <2> QED BY <2>1 DEF NtOwner
<1>20. \A y \in A : /\ ntHeap'[y] \in NtNodes /\ NtOwner(y)' = x /\ ntHeap'[y].fen = ntFen
                    /\ ~ntHeap'[y].lost /\ NtDepth(y)' = NtDepth(x) + 1
                    /\ NtAlong(NtPathTo(y)', NtPathTo(x)) /\ array[NtPathTo(y)'[NtDepth(x) + 1]] = y
                    /\ NtPathTo(y)' \in Seq(NtMoves) /\ NtPathTo(y)'[NtDepth(x) + 1] \in NtMoves
  <2>1. ASSUME NEW y \in A
        PROVE  /\ ntHeap'[y] \in NtNodes /\ NtOwner(y)' = x /\ ntHeap'[y].fen = ntFen
               /\ ~ntHeap'[y].lost /\ NtDepth(y)' = NtDepth(x) + 1
               /\ NtAlong(NtPathTo(y)', NtPathTo(x)) /\ array[NtPathTo(y)'[NtDepth(x) + 1]] = y
               /\ NtPathTo(y)' \in Seq(NtMoves) /\ NtPathTo(y)'[NtDepth(x) + 1] \in NtMoves
    <3>1. PICK m \in NtMoves : y = array[m] /\ ntHeap'[y] = Content(m)
      BY <1>15
    <3> HIDE DEF Content
    <3>2. /\ ntHeap'[y] \in NtNodes /\ ntHeap'[y].owner = x /\ ntHeap'[y].fen = ntFen
          /\ ~ntHeap'[y].lost /\ Len(ntHeap'[y].path) = NtDepth(x) + 1
          /\ NtAlong(ntHeap'[y].path, NtPathTo(x)) /\ ntHeap'[y].path[NtDepth(x) + 1] = m
      BY <1>14, <3>1
    <3>3. ntHeap'[y].path \in Seq(NtMoves)
      BY <3>2 DEF NtNodes
    <3> QED BY <3>1, <3>2, <3>3 DEF NtOwner, NtDepth, NtPathTo
  <2> QED BY <2>1
<1>21. \A y \in olds : ntHeap'[y] \in NtNodes /\ NtOwner(y)' = "gc"
  <2>1. ASSUME NEW y \in olds PROVE ntHeap'[y] \in NtNodes /\ ntHeap'[y].owner = "gc"
    <3>1. ntHeap[y] \in NtNodes /\ "gc" \in NtOwners
      BY <1>6, <1>9 DEF NtHeapOK, NtOwners
    <3>2. ntHeap'[y] = [ntHeap[y] EXCEPT !.owner = "gc"]
      BY <1>16, Zenon
    <3> HIDE DEF olds
    <3> QED BY <3>1, <3>2, Reowned
  <2> QED BY <2>1 DEF NtOwner
<1>22. \A y \in NtAddr : y \notin A /\ y \notin olds =>
         /\ ntHeap'[y] \in NtNodes /\ (ntHeap'[y].owner = "free" => ntHeap'[y] = NtFree)
         /\ NtOwner(y)' = (IF NtOwner(y) \in olds THEN array[Last(NtPathTo(NtOwner(y)))] ELSE NtOwner(y))
         /\ NtPathTo(y)' = NtPathTo(y) /\ NtDepth(y)' = NtDepth(y)
         /\ ntHeap'[y].fen = ntHeap[y].fen /\ ntHeap'[y].lost = ntHeap[y].lost
  <2>1. ASSUME NEW y \in NtAddr, y \notin A, y \notin olds
        PROVE  /\ ntHeap'[y] \in NtNodes /\ (ntHeap'[y].owner = "free" => ntHeap'[y] = NtFree)
               /\ ntHeap'[y].owner = (IF NtOwner(y) \in olds THEN array[Last(NtPathTo(NtOwner(y)))] ELSE NtOwner(y))
               /\ ntHeap'[y].path = ntHeap[y].path
               /\ ntHeap'[y].fen = ntHeap[y].fen /\ ntHeap'[y].lost = ntHeap[y].lost
    <3>1. ntHeap[y] \in NtNodes /\ (ntHeap[y].owner = "free" => ntHeap[y] = NtFree)
      BY <1>6 DEF NtHeapOK
    <3>2. CASE y = x
      <4>1. /\ [ntHeap[x] EXCEPT !.solid = TRUE] \in NtNodes
            /\ [ntHeap[x] EXCEPT !.solid = TRUE].owner = ntHeap[x].owner
            /\ [ntHeap[x] EXCEPT !.solid = TRUE].path = ntHeap[x].path
            /\ [ntHeap[x] EXCEPT !.solid = TRUE].fen = ntHeap[x].fen
            /\ [ntHeap[x] EXCEPT !.solid = TRUE].lost = ntHeap[x].lost
        BY <3>1, <3>2, MadeSolid
      <4>2. NtOwner(x) \notin olds /\ ntHeap[x].owner # "free" /\ NtOwner(x) = ntHeap[x].owner
        BY <1>10 DEF NtOwner
      <4> HIDE DEF olds
      <4> QED BY <1>17, <3>2, <4>1, <4>2
    <3>3. CASE y # x /\ NtOwner(y) \in olds
      <4>1. NtOwner(y) = ntHeap[y].owner
        BY DEF NtOwner
      <4>2. Last(NtPathTo(NtOwner(y))) \in NtMoves /\ ntHeap[ntHeap[y].owner].path = NtPathTo(NtOwner(y))
        BY <1>13, <3>3 DEF NtPathTo, NtOwner
      <4>3. array[Last(NtPathTo(NtOwner(y)))] \in A
        BY <1>12, <4>2
      <4>4. array[Last(NtPathTo(NtOwner(y)))] \in NtOwners /\ array[Last(NtPathTo(NtOwner(y)))] # "free"
        BY <1>7, <1>12, <4>3 DEF NtOwners
      <4>5. ntHeap'[y] = [ntHeap[y] EXCEPT !.owner = array[Last(ntHeap[ntHeap[y].owner].path)]]
        BY <1>18, <2>1, <3>3, Zenon
      <4>6. ntHeap'[y] = [ntHeap[y] EXCEPT !.owner = array[Last(NtPathTo(NtOwner(y)))]]
        BY <4>2, <4>5, Zenon
      <4> DEFINE w == array[Last(NtPathTo(NtOwner(y)))]
      <4>7. w \in NtOwners /\ w # "free" /\ ntHeap'[y] = [ntHeap[y] EXCEPT !.owner = w]
        BY <4>4, <4>6
      <4> HIDE DEF w
      <4>8. /\ ntHeap'[y] \in NtNodes /\ ntHeap'[y].owner = w /\ ntHeap'[y].path = ntHeap[y].path
            /\ ntHeap'[y].fen = ntHeap[y].fen /\ ntHeap'[y].lost = ntHeap[y].lost
        BY <3>1, <4>7, Reowned
      <4> QED BY <3>3, <4>7, <4>8 DEF w
    <3>4. CASE y # x /\ NtOwner(y) \notin olds
      <4> HIDE DEF olds
      <4> QED BY <1>19, <2>1, <3>1, <3>4 DEF NtOwner
    <3> QED BY <3>2, <3>3, <3>4
  <2> QED BY <2>1 DEF NtOwner, NtPathTo, NtDepth
<1> HIDE DEF olds, For, Content
<1>23. NtHeapOK(ntHeap')
  <2>1. \A y \in NtAddr : ntHeap'[y] \in NtNodes /\ (ntHeap'[y].owner = "free" => ntHeap'[y] = NtFree)
    <3>1. \A y \in A : ntHeap'[y].owner # "free"
      BY <1>7, <1>10, <1>20 DEF NtOwner
    <3>2. \A y \in olds : ntHeap'[y].owner # "free"
      BY <1>21 DEF NtOwner
    <3> QED BY <1>20, <1>21, <1>22, <3>1, <3>2
  <2>2. ntHeap' = [y \in NtAddr |-> ntHeap'[y]]
    <3> DEFINE Cell(y) ==
              CASE y \in Range(array) -> Content(CHOOSE m \in NtMoves : array[m] = y)
                [] y \in olds -> [ntHeap[y] EXCEPT !.owner = "gc"]
                [] y = x -> [ntHeap[y] EXCEPT !.solid = TRUE]
                [] y \in NtLive(ntHeap) /\ ntHeap[y].owner \in olds ->
                       [ntHeap[y] EXCEPT !.owner = array[Last(ntHeap[@].path)]]
                [] OTHER -> ntHeap[y]
    <3>1. ntHeap' = [y \in NtAddr |-> Cell(y)]
      BY <1>4
    <3> HIDE DEF Cell
    <3> QED BY <3>1, Zenon
  <2>3. ntHeap' \in [NtAddr -> NtNodes]
    BY <2>1, <2>2, Zenon
  <2> QED BY <2>1, <2>3 DEF NtHeapOK
<1>24. \A y \in NtAddr : NtOwner(y) \in olds => array[Last(NtPathTo(NtOwner(y)))] \in A
  BY <1>12, <1>13
<1>25. NtQueued' /\ ntQueue' \in Seq(SUBSET NtAddr)
  <2>1. olds \in SUBSET NtAddr
    BY <1>9
  <2>2. \A y \in olds : NtOwner(y) # "gc" /\ NtOwner(y)' = "gc"
    BY <1>7, <1>9, <1>10, <1>21
  <2>3. ASSUME NEW y \in NtAddr \ olds PROVE NtOwner(y)' = "gc" <=> NtOwner(y) = "gc"
    <3>1. CASE y \in A
      BY <1>7, <1>10, <1>12, <1>20, <3>1
    <3>2. CASE y \notin A
      <4>1. NtOwner(y) \in olds => NtOwner(y) # "gc" /\ array[Last(NtPathTo(NtOwner(y)))] # "gc"
        BY <1>7, <1>9, <1>12, <1>24
      <4> QED BY <1>22, <3>2, <4>1
    <3> QED BY <3>1, <3>2
  <2> QED BY <1>1, <1>4, <2>1, <2>2, <2>3, QueueGrows
<1>26. NtTypeOK'
  BY <1>1, <1>3, <1>23, <1>25 DEF NtTypeOK
<1>27. PICK H \in SUBSET NtAddr : H = (G \ olds) \cup A
  OBVIOUS
<1>28. \A z \in G \ olds : /\ z \in NtAddr /\ z \notin A /\ NtPathTo(z)' = NtPathTo(z) /\ NtDepth(z)' = NtDepth(z)
                           /\ NtOwner(z)' = (IF NtOwner(z) \in olds THEN array[Last(NtPathTo(NtOwner(z)))] ELSE NtOwner(z))
                           /\ ntHeap'[z].fen = ntHeap[z].fen /\ ntHeap'[z].lost = ntHeap[z].lost
  BY <1>12, <1>22
<1>29. NtLive(ntHeap') = {z \in NtAddr : NtOwner(z)' # "free"}
  BY <1>23, HeapIs DEF NtOwner
<1>30. \A z \in NtAddr : NtOwner(z) # "free" => NtOwner(z)' # "free"
  <2>1. ASSUME NEW z \in NtAddr, NtOwner(z) # "free" PROVE NtOwner(z)' # "free"
    <3>1. CASE z \in A
      BY <1>12, <2>1, <3>1
    <3>2. CASE z \in olds
      BY <1>21, <3>2
    <3>3. CASE z \notin A /\ z \notin olds
      <4>1. NtOwner(z) \in olds => array[Last(NtPathTo(NtOwner(z)))] # "free"
        BY <1>7, <1>12, <1>24
      <4> QED BY <1>22, <2>1, <3>3, <4>1
    <3> QED BY <3>1, <3>2, <3>3
  <2> QED BY <2>1
<1>31. H \subseteq NtLive(ntHeap)'
  <2>1. \A z \in G : NtOwner(z) # "free"
    BY <1>2, <1>6 DEF NtGame
  <2>2. \A z \in A : NtOwner(z)' # "free"
    BY <1>7, <1>10, <1>20
  <2> QED BY <1>27, <1>28, <1>29, <1>30, <2>1, <2>2
<1>32. NtRooted(H)'
  <2>1. ASSUME NEW z \in H
        PROVE  /\ ntHeap'[z].fen = ntFen'
               /\ \/ NtOwner(z)' = "begin" /\ NtDepth(z)' = 0
                  \/ \E o \in H : /\ NtOwner(z)' = o /\ NtDepth(z)' = NtDepth(o)' + 1
                                  /\ NtAlong(NtPathTo(z)', NtPathTo(o)')
    <3>1. CASE z \in A
      <4>1. x \in G \ olds /\ x \in H
        BY <1>5, <1>10, <1>27
      <4> QED BY <1>3, <1>20, <1>28, <3>1, <4>1
    <3>2. CASE z \in G \ olds
      <4>1. /\ ntHeap[z].fen = ntFen
            /\ \/ NtOwner(z) = "begin" /\ NtDepth(z) = 0
               \/ /\ NtOwner(z) \in G /\ NtDepth(z) = NtDepth(NtOwner(z)) + 1
                  /\ NtAlong(NtPathTo(z), NtPathTo(NtOwner(z)))
        BY <1>2, <3>2 DEF NtGame, NtRooted
      <4>2. CASE NtOwner(z) = "begin"
        <5>1. NtOwner(z) \notin olds /\ NtDepth(z) = 0
          BY <1>7, <1>9, <4>1, <4>2
        <5> QED BY <1>3, <1>28, <3>2, <4>1, <4>2, <5>1
      <4>3. CASE NtOwner(z) \in olds
        <5>1. PICK c \in olds : c = NtOwner(z)
          BY <4>3
        <5>2. NtDepth(z) = NtDepth(c) + 1 /\ NtAlong(NtPathTo(z), NtPathTo(c))
          BY <1>7, <1>9, <4>1, <5>1
        <5>3. PICK o \in A : o = array[Last(NtPathTo(c))]
          BY <1>9, <1>12, <1>13, <5>1
        <5>4. NtPathTo(o)'[NtDepth(x) + 1] = NtPathTo(c)[NtDepth(x) + 1]
          BY <1>12, <1>13, <1>20, <5>3
        <5>5. NtDepth(o)' = NtDepth(x) + 1 /\ NtDepth(c) = NtDepth(x) + 1
          BY <1>9, <1>20
        <5>6. NtAlong(NtPathTo(c), NtPathTo(o)')
          <6>1. /\ NtPathTo(x) \in Seq(NtMoves) /\ NtPathTo(c) \in Seq(NtMoves) /\ NtPathTo(o)' \in Seq(NtMoves)
                /\ NtAlong(NtPathTo(c), NtPathTo(x)) /\ NtAlong(NtPathTo(o)', NtPathTo(x))
            BY <1>8, <1>9, <1>10, <1>20
          <6> QED BY <5>4, <5>5, <6>1, SameMove DEF NtDepth
        <5>7. NtAlong(NtPathTo(z), NtPathTo(o)')
          <6>1. NtPathTo(z) \in Seq(NtMoves) /\ NtPathTo(c) \in Seq(NtMoves) /\ NtPathTo(o)' \in Seq(NtMoves)
            BY <1>8, <1>9, <1>20, <3>2
          <6>2. Len(NtPathTo(o)') <= Len(NtPathTo(c))
            BY <1>10, <5>5 DEF NtDepth
          <6> QED BY <5>2, <5>6, <6>1, <6>2, AlongOn
        <5>8. NtOwner(z)' = o /\ o \in H
          BY <1>27, <1>28, <3>2, <4>3, <5>1, <5>3
        <5> QED BY <1>3, <1>28, <3>2, <4>1, <5>2, <5>5, <5>7, <5>8
      <4>4. CASE NtOwner(z) \in G \ olds
        <5>1. PICK o \in G \ olds : o = NtOwner(z)
          BY <4>4
        <5>2. NtOwner(z)' = o /\ NtDepth(o)' = NtDepth(o) /\ NtPathTo(o)' = NtPathTo(o) /\ o \in H
          BY <1>27, <1>28, <3>2, <4>4, <5>1
        <5>3. NtDepth(z) = NtDepth(o) + 1 /\ NtAlong(NtPathTo(z), NtPathTo(o))
          BY <1>7, <4>1, <5>1
        <5> QED BY <1>3, <1>28, <3>2, <4>1, <5>2, <5>3
      <4> QED BY <4>1, <4>2, <4>3, <4>4
    <3> QED BY <1>27, <3>1, <3>2
  <2>2. ASSUME NEW z \in H, NEW o, NtOwner(z)' = o
        PROVE  NtDepth(NtOwner(z))' = NtDepth(o)' /\ NtPathTo(NtOwner(z))' = NtPathTo(o)'
    BY <2>2 DEF NtDepth, NtPathTo
  <2>3. ASSUME NEW z \in NtLive(ntHeap') \ H, NtOwner(z)' # "gc" PROVE NtOwner(z)' \in NtLive(ntHeap') \ H
    <3>1. z \in NtAddr /\ z \notin A /\ z \notin olds /\ z \notin G /\ NtOwner(z)' # "free"
      BY <1>21, <1>27, <1>29, <2>3
    <3>2. NtOwner(z) \notin G /\ NtOwner(z) # "begin"
      BY <1>1, <1>2, <3>1, GameFacts
    <3>3. NtOwner(z)' = NtOwner(z)
      BY <1>9, <1>22, <3>1, <3>2
    <3>4. NtOwner(z) \in NtLive(ntHeap)
      BY <1>1, <1>2, <2>3, <3>1, <3>2, <3>3, GameFacts
    <3>5. PICK o \in NtAddr : o = NtOwner(z)
      BY <1>6, <3>4
    <3>6. NtOwner(o) # "free" /\ o \notin G
      BY <1>6, <3>2, <3>4, <3>5
    <3>7. o \in NtLive(ntHeap') \ H
      BY <1>12, <1>27, <1>29, <1>30, <3>6
    <3> QED BY <3>3, <3>5, <3>7
  <2> QED BY <2>1, <2>2, <2>3 DEF NtRooted
<1>33. NtUnique(H)'
  <2>1. ASSUME NEW z \in A, NEW w \in A, NtAlong(NtPathTo(z)', NtPathTo(w)') PROVE z = w
    <3>1. NtPathTo(z)'[NtDepth(x) + 1] = NtPathTo(w)'[NtDepth(x) + 1]
      <4>1. /\ NtPathTo(x) \in Seq(NtMoves) /\ NtPathTo(z)' \in Seq(NtMoves) /\ NtPathTo(w)' \in Seq(NtMoves)
            /\ NtAlong(NtPathTo(z)', NtPathTo(x)) /\ NtAlong(NtPathTo(w)', NtPathTo(x))
            /\ Len(NtPathTo(z)') = Len(NtPathTo(x)) + 1 /\ Len(NtPathTo(w)') = Len(NtPathTo(x)) + 1
        BY <1>8, <1>10, <1>20 DEF NtDepth
      <4> QED BY <2>1, <4>1, SameMove DEF NtDepth
    <3> QED BY <1>20, <3>1
  <2>2. ASSUME NEW z \in G \ olds, NEW w \in A, NtDepth(z)' = NtDepth(w)',
               NtAlong(NtPathTo(z)', NtPathTo(w)') \/ NtAlong(NtPathTo(w)', NtPathTo(z)')
        PROVE  FALSE
    <3>1. NtDepth(z) = NtDepth(x) + 1 /\ NtPathTo(z)' = NtPathTo(z) /\ z \in NtAddr
      BY <1>20, <1>28, <2>2
    <3>2. /\ NtPathTo(z) \in Seq(NtMoves) /\ NtPathTo(w)' \in Seq(NtMoves) /\ NtPathTo(x) \in Seq(NtMoves)
          /\ Len(NtPathTo(z)) = Len(NtPathTo(w)') /\ NtAlong(NtPathTo(w)', NtPathTo(x))
      BY <1>8, <1>10, <1>20, <3>1 DEF NtDepth
    <3>3. NtAlong(NtPathTo(z), NtPathTo(w)')
      BY <2>2, <3>1, <3>2, AlongBack
    <3>4. NtAlong(NtPathTo(z), NtPathTo(x))
      <4>1. Len(NtPathTo(z)) <= Len(NtPathTo(w)')
        BY <3>2
      <4> QED BY <3>2, <3>3, <4>1, AlongOn
    <3>5. NtOwner(z) = x
      BY <1>1, <1>2, <1>5, <2>2, <3>1, <3>4, BelowIsChild
    <3> QED BY <1>6, <3>1, <3>5
  <2>3. \A z, w \in G \ olds : NtDepth(z)' = NtDepth(w)' /\ NtAlong(NtPathTo(z)', NtPathTo(w)') => z = w
    BY <1>2, <1>28 DEF NtGame, NtUnique
  <2>4. ASSUME NEW z \in H, NEW w \in H, NtDepth(z)' = NtDepth(w)', NtAlong(NtPathTo(z)', NtPathTo(w)')
        PROVE  z = w
    BY <1>27, <2>1, <2>2, <2>3, <2>4
  <2> QED BY <2>4 DEF NtUnique
<1>34. NtHere' = NtHere /\ ntPath' = ntPath /\ ntHead' = ntHead /\ ntPath \in Seq(NtMoves)
  BY <1>1, <1>3 DEF NtHere, NtTypeOK
<1>35. NtLine(H)'
  <2>1. ntHead \in G /\ NtDepth(ntHead) = NtHere /\ (\A k \in 0..NtHere : \E z \in G : NtDepth(z) = k)
        /\ \A z \in G : NtAlong(NtPathTo(z), ntPath)
    BY <1>2, <1>5 DEF NtGame, NtLine
  <2>2. \A z \in G : NtDepth(z) <= NtHere => z \notin olds
    BY <1>5, <1>9, <1>10
  <2>3. ntHead \in G \ olds /\ ntHead \in H
    BY <1>5, <1>27, <2>1, <2>2
  <2>4. NtDepth(ntHead)' = NtHere'
    <3>1. ntHeap'[ntHead].path = ntHeap[ntHead].path
      BY <1>28, <2>3 DEF NtPathTo
    <3> QED BY <1>34, <2>1, <3>1 DEF NtDepth, NtPathTo
  <2>5. ASSUME NEW k \in 0..NtHere' PROVE \E z \in H : NtDepth(z)' = k
    <3>1. PICK z \in G : NtDepth(z) = k
      BY <1>34, <2>1
    <3>2. z \in G \ olds
      BY <1>5, <1>34, <2>2, <3>1
    <3> QED BY <1>27, <1>28, <3>1, <3>2
  <2>6. ASSUME NEW z \in H PROVE NtAlong(NtPathTo(z)', ntPath')
    <3>1. CASE z \in A
      <4>1. NtPathTo(z)' \in Seq(NtMoves) /\ NtPathTo(x) \in Seq(NtMoves) /\ NtAlong(NtPathTo(x), ntPath)
        BY <1>5, <1>8, <1>10, <1>20, <2>1, <3>1
      <4>2. NtAlong(NtPathTo(z)', NtPathTo(x)) /\ Len(ntPath) <= Len(NtPathTo(x))
        BY <1>5, <1>20, <3>1 DEF NtDepth, NtHere
      <4> QED BY <1>34, <4>1, <4>2, AlongOn
    <3>2. CASE z \in G \ olds
      BY <1>28, <1>34, <2>1, <3>2
    <3> QED BY <1>27, <3>1, <3>2
  <2> QED BY <1>5, <1>34, <2>3, <2>4, <2>5, <2>6 DEF NtLine
<1>36. NtEntering(H)'
  BY <1>3, <1>5 DEF NtEntering
<1>37. NtLostAbove(H)'
  <2>1. \A z \in H : ntHeap'[z].lost => NtDepth(z)' < NtHere'
    <3>1. \A z \in G \ olds : ntHeap'[z].lost => NtDepth(z)' < NtHere'
      <4>1. ASSUME NEW z \in G \ olds, ntHeap'[z].lost PROVE NtDepth(z)' < NtHere'
        <5>1. ntHeap[z].lost /\ NtDepth(z)' = NtDepth(z) /\ NtDepth(z) \in Nat
          BY <1>8, <1>28, <4>1
        <5>2. ~(NtDepth(z) >= NtHere)
          BY <1>5, <5>1
        <5> QED BY <1>5, <1>34, <5>1, <5>2
      <4> QED BY <4>1
    <3> QED BY <1>20, <1>27, <3>1
  <2> QED BY <2>1 DEF NtLostAbove
<1>38. NtGame(H)'
  BY <1>31, <1>32, <1>33, <1>35, <1>36, <1>37 DEF NtGame
<1> QED BY <1>25, <1>26, <1>38 DEF NtInv

\* The invariant holds before the first command, with no node in the game.
LEMMA NtInitially == NtInit => NtInv
<1> SUFFICES ASSUME NtInit PROVE NtInv
  OBVIOUS
<1>1. /\ ntHeap = [x \in NtAddr |-> NtFree] /\ ntHead = NtNull /\ ntFen \in NtFens /\ ntPath = <<>>
      /\ ntQueue = <<>> /\ ntPc = "idle" /\ ntTodo = <<>> /\ ntOld = NtNull /\ ntSeen = FALSE
      /\ ntWas = [fen |-> NtNull, path |-> <<>>]
  BY DEF NtInit
<1>2. NtFree \in NtNodes /\ NtFree.owner = "free"
  BY NodeOK DEF NtFree, NtNode, NtNodes, NtOwners
<1>3. \A x \in NtAddr : NtOwner(x) = "free"
  BY <1>1, <1>2 DEF NtOwner
<1>4. NtTypeOK
  <2>1. NtHeapOK(ntHeap)
    BY <1>1, <1>2 DEF NtHeapOK
  <2>2. ntQueue \in Seq(SUBSET NtAddr) /\ ntPath \in Seq(NtMoves) /\ ntTodo \in Seq(NtMoves)
    BY <1>1
  <2>3. ntWas \in [fen : NtFens \cup {NtNull}, path : Seq(NtMoves)]
    BY <1>1
  <2>4. ntSeen \in BOOLEAN /\ ntFen \in NtFens
    BY <1>1
  <2> QED BY <1>1, <2>1, <2>2, <2>3, <2>4 DEF NtTypeOK
<1>5. NtQueued
  BY <1>1, <1>3 DEF NtQueued
<1>6. NtLive(ntHeap) = {}
  BY <1>1 DEF NtLive
<1>7. NtGame({})
  BY <1>1, <1>6 DEF NtGame, NtRooted, NtUnique, NtLine, NtEntering, NtLostAbove
<1> QED BY <1>4, <1>5, <1>7 DEF NtInv

\* It does not depend on what a step leaves alone.
LEMMA NtStutters == ASSUME NtInv, UNCHANGED ntVars PROVE NtInv'
<1>1. PICK G \in SUBSET NtAddr : NtGame(G)
  BY DEF NtInv
<1>2. /\ ntHeap' = ntHeap /\ ntHead' = ntHead /\ ntFen' = ntFen /\ ntPath' = ntPath /\ ntQueue' = ntQueue
      /\ ntPc' = ntPc /\ ntTodo' = ntTodo /\ ntOld' = ntOld /\ ntSeen' = ntSeen /\ ntWas' = ntWas
  BY DEF ntVars
<1>3. NtTypeOK'
  BY <1>2 DEF NtInv, NtTypeOK
<1>4. NtQueued'
  BY <1>2 DEF NtInv, NtQueued, NtOwner
<1>5. NtHere' = NtHere /\ \A x : NtOwner(x)' = NtOwner(x) /\ NtPathTo(x)' = NtPathTo(x) /\ NtDepth(x)' = NtDepth(x)
  BY <1>2 DEF NtHere, NtOwner, NtPathTo, NtDepth
<1>6. NtRooted(G)' /\ NtUnique(G)'
  BY <1>1, <1>2 DEF NtGame, NtRooted, NtUnique, NtOwner, NtPathTo, NtDepth
<1>7. NtLine(G)' /\ NtEntering(G)'
  BY <1>1, <1>2 DEF NtGame, NtLine, NtEntering, NtHere, NtOwner, NtPathTo, NtDepth
<1>8. NtLostAbove(G)'
  BY <1>1, <1>2 DEF NtGame, NtLostAbove, NtHere, NtOwner, NtPathTo, NtDepth
<1>9. NtGame(G)'
  BY <1>1, <1>2, <1>6, <1>7, <1>8 DEF NtGame
<1> QED BY <1>3, <1>4, <1>9 DEF NtInv

\* Every step of the engine, of a search and of the collector keeps it.
LEMMA NtStepKeeps == NtInv /\ [NtNext]_ntVars => NtInv'
<1> SUFFICES ASSUME NtInv, [NtNext]_ntVars PROVE NtInv'
  OBVIOUS
<1>1. ASSUME NEW fen \in NtFens, NEW moves \in SeqOf(NtMoves, NtMaxPly), NtResetToPosition(fen, moves)
      PROVE  NtInv'
  <2>1. moves \in Seq(NtMoves)
    BY NtAssumption DEF SeqOf
  <2> QED BY <1>1, <2>1, ResetKeeps
<1>2. CASE NtMoveRelease
  BY <1>2, ReleaseKeeps
<1>3. CASE NtMoveEnter
  BY <1>3, EnterKeeps
<1>4. CASE NtFinish
  BY <1>4, FinishKeeps
<1>5. CASE NtDeallocate
  BY <1>5, DeallocateKeeps
<1>6. CASE NtGarbageCollect
  BY <1>6, CollectKeeps
<1>7. ASSUME NEW x \in NtSearchable, NtSearchExtend(x) PROVE NtInv'
  BY <1>7, ExtendKeeps
<1>8. ASSUME NEW x \in NtSearchable, NtMakeSolid(x) PROVE NtInv'
  BY <1>8, SolidKeeps
<1>9. ASSUME NEW x \in NtSearchable, NEW m \in NtMoves, NtSearchSpawn(x, m) PROVE NtInv'
  BY <1>9, SpawnKeeps
<1>10. CASE UNCHANGED ntVars
  BY <1>10, NtStutters
<1> QED BY <1>1, <1>2, <1>3, <1>4, <1>5, <1>6, <1>7, <1>8, <1>9, <1>10 DEF NtNext

\* With one node of the game for every depth up to the head, the way to the head is found.
LEMMA HeadIsPosition ==
  ASSUME NtTypeOK, NEW G \in SUBSET NtAddr, NtGame(G), ntHead # NtNull
  PROVE  NtHeadIsPosition
<1>1. /\ ntHead \in G /\ NtDepth(ntHead) = NtHere /\ (\A k \in 0..NtHere : \E x \in G : NtDepth(x) = k)
      /\ \A x \in G : NtAlong(NtPathTo(x), ntPath)
  BY DEF NtGame, NtLine
<1>2. NtHere \in Nat /\ ntPath \in Seq(NtMoves)
  BY AtHead DEF NtTypeOK
<1>3. \A x \in G : NtPathTo(x) \in Seq(NtMoves) /\ NtDepth(x) \in Nat
  BY GameFacts
<1> DEFINE up == [k \in 0..NtHere |-> CHOOSE x \in G : NtDepth(x) = k]
<1>4. \A k \in 0..NtHere : up[k] \in G /\ NtDepth(up[k]) = k
  BY <1>1
<1>5. up \in [0..NtHere -> NtAddr]
  BY <1>4
<1> HIDE DEF up
<1>6. up[NtHere] = ntHead
  BY <1>2, <1>4, AtHead
<1>7. ntHeap[up[0]].owner = "begin"
  <2>1. up[0] \in G /\ NtDepth(up[0]) = 0
    BY <1>2, <1>4
  <2> QED BY <1>3, <2>1 DEF NtGame, NtRooted, NtOwner
<1>8. ASSUME NEW k \in 1..NtHere PROVE ntHeap[up[k]].owner = up[k - 1]
  <2>1. k \in 0..NtHere /\ k - 1 \in 0..NtHere
    BY <1>2
  <2>2. PICK x \in G : x = up[k - 1] /\ NtDepth(x) = k - 1
    BY <1>4, <2>1
  <2>3. PICK z \in G : z = up[k] /\ NtDepth(z) = k
    BY <1>4, <2>1
  <2>4. NtDepth(z) = NtDepth(x) + 1 /\ Len(NtPathTo(x)) <= Len(ntPath)
    BY <1>2, <2>2, <2>3 DEF NtDepth, NtHere
  <2>5. NtAlong(NtPathTo(z), NtPathTo(x))
    <3>1. NtAlong(NtPathTo(z), ntPath) /\ NtAlong(ntPath, NtPathTo(x))
      BY <1>1, <1>2, <1>3, AlongBack
    <3> QED BY <1>2, <1>3, <2>4, <3>1, AlongOn
  <2> QED BY <2>2, <2>3, <2>4, <2>5, BelowIsChild DEF NtOwner
<1>9. ASSUME NEW k \in 0..NtHere
      PROVE  /\ up[k] \in NtLive(ntHeap) /\ ntHeap[up[k]].fen = ntFen
             /\ ntHeap[up[k]].path = SubSeq(ntPath, 1, k)
  <2>1. PICK x \in G : x = up[k] /\ NtDepth(x) = k
    BY <1>4
  <2>2. x \in NtLive(ntHeap) /\ ntHeap[x].fen = ntFen
    BY DEF NtGame, NtRooted
  <2>3. k \in Nat /\ k <= Len(ntPath) /\ Len(NtPathTo(x)) = k
    BY <1>2, <2>1 DEF NtDepth, NtHere
  <2>4. /\ SubSeq(ntPath, 1, k) \in Seq(NtMoves) /\ Len(SubSeq(ntPath, 1, k)) = k
        /\ \A i \in 1..k : SubSeq(ntPath, 1, k)[i] = ntPath[i]
    BY <1>2, <2>3
  <2>5. \A i \in 1..k : NtPathTo(x)[i] = ntPath[i]
    BY <1>1, <1>2, <2>3 DEF NtAlong
  <2>6. NtPathTo(x) = SubSeq(ntPath, 1, k)
    BY <1>3, <2>3, <2>4, <2>5, SeqEqual
  <2> QED BY <2>1, <2>2, <2>6 DEF NtPathTo
<1> QED BY <1>5, <1>6, <1>7, <1>8, <1>9 DEF NtHeadIsPosition, NtHere

\* Every node of the heap has one owner, and the collector has each of its roots once.
LEMMA OwnedOnce ==
  ASSUME NtTypeOK, NtQueued, NEW G \in SUBSET NtAddr, NtGame(G)
  PROVE  NtOwnedOnce
<1>1. /\ NtLive(ntHeap) = {x \in NtAddr : NtOwner(x) # "free"} /\ NtBegin(ntHeap) = {x \in NtAddr : NtOwner(x) = "begin"}
      /\ \A y \in NtAddr : NtChildren(ntHeap, y) = {x \in NtAddr : NtOwner(x) = y}
  BY HeapIs DEF NtTypeOK, NtOwner
<1>2. ntQueue \in Seq(SUBSET NtAddr) /\ DOMAIN ntQueue = 1..Len(ntQueue)
  BY DEF NtTypeOK
<1>3. ASSUME NEW x \in NtLive(ntHeap)
      PROVE  \/ ntHeap[x].owner = "begin"
             \/ /\ ntHeap[x].owner \in NtLive(ntHeap)
                /\ x \in NtChildAt(ntHeap, ntHeap[x].owner, Last(ntHeap[x].path))
             \/ ntHeap[x].owner = "gc" /\ Cardinality({i \in DOMAIN ntQueue : x \in ntQueue[i]}) = 1
  <2>1. x \in NtAddr /\ NtOwner(x) # "free"
    BY <1>1
  <2>2. CASE NtOwner(x) \in NtLive(ntHeap)
    <3>1. x \in NtChildren(ntHeap, NtOwner(x))
      BY <1>1, <2>1, <2>2
    <3> QED BY <2>2, <3>1 DEF NtChildAt, NtOwner
  <2>3. CASE NtOwner(x) = "gc"
    <3>1. PICK i \in DOMAIN ntQueue : x \in ntQueue[i]
      BY <1>2, <2>1, <2>3 DEF NtQueued
    <3>2. {j \in DOMAIN ntQueue : x \in ntQueue[j]} = {i}
      BY <1>2, <3>1 DEF NtQueued
    <3> QED BY <2>3, <3>2, FS_Singleton DEF NtOwner
  <2> QED BY <2>1, <2>2, <2>3, GameFacts DEF NtOwner
<1>4. ASSUME NEW i \in DOMAIN ntQueue, NEW x \in ntQueue[i] PROVE x \in NtLive(ntHeap) /\ ntHeap[x].owner = "gc"
  BY <1>1, <1>2 DEF NtQueued, NtOwner
<1>5. Cardinality(NtBegin(ntHeap)) = IF ntHead = NtNull THEN 0 ELSE 1
  <2>1. \A x \in NtAddr : NtOwner(x) = "begin" => x \in G
    BY GameFacts
  <2>2. CASE ntHead = NtNull
    <3>1. NtBegin(ntHeap) = {}
      BY <1>1, <2>1, <2>2 DEF NtGame, NtLine
    <3> QED BY <2>2, <3>1, FS_EmptySet
  <2>3. CASE ntHead # NtNull
    <3>1. \A x \in G : NtPathTo(x) \in Seq(NtMoves) /\ NtDepth(x) \in Nat
      BY GameFacts
    <3>2. NtHere \in Nat
      BY <2>3, AtHead
    <3>3. PICK r \in G : NtDepth(r) = 0
      BY <2>3, <3>2 DEF NtGame, NtLine
    <3>4. NtOwner(r) = "begin" /\ r \in NtAddr
      BY <3>1, <3>3 DEF NtGame, NtRooted
    <3>5. ASSUME NEW x \in NtAddr, NtOwner(x) = "begin" PROVE x = r
      <4>1. x \in G
        BY <2>1, <3>5
      <4>2. "begin" \notin NtAddr
        BY NtAssumption
      <4>3. NtDepth(x) = 0
        BY <3>5, <4>1, <4>2 DEF NtGame, NtRooted
      <4>4. NtAlong(NtPathTo(x), NtPathTo(r))
        BY <3>1, <4>1, <4>3 DEF NtAlong, NtDepth
      <4> QED BY <3>3, <4>1, <4>3, <4>4 DEF NtGame, NtUnique
    <3>6. NtBegin(ntHeap) = {r}
      BY <1>1, <3>4, <3>5
    <3> QED BY <2>3, <3>6, FS_Singleton
  <2> QED BY <2>2, <2>3
<1> QED BY <1>3, <1>4, <1>5 DEF NtOwnedOnce

\* The invariant implies the property the run checks.
LEMMA NtSound == NtInv => NtTreeSound
<1> SUFFICES ASSUME NtInv PROVE NtTreeSound
  OBVIOUS
<1>1. NtTypeOK /\ NtQueued
  BY DEF NtInv
<1>2. PICK G \in SUBSET NtAddr : NtGame(G)
  BY DEF NtInv
<1>3. NtHeadIsPosition
  <2>1. CASE ntHead = NtNull
    BY <2>1 DEF NtHeadIsPosition
  <2>2. CASE ntHead # NtNull
    BY <1>1, <1>2, <2>2, HeadIsPosition
  <2> QED BY <2>1, <2>2
<1>4. NtHeadKeepsChildren
  <2>1. SUFFICES ASSUME ntPc = "idle", ntHead # NtNull PROVE ~ntHeap[ntHead].lost
    BY DEF NtHeadKeepsChildren
  <2>2. ntHead \in G /\ NtDepth(ntHead) = NtHere /\ NtHere \in Nat
    BY <1>1, <1>2, <2>1, AtHead DEF NtGame, NtLine
  <2> QED BY <1>2, <2>1, <2>2 DEF NtGame, NtLostAbove
<1>5. NtOwnedOnce
  BY <1>1, <1>2, OwnedOnce
<1>6. NtSingleChildAssertion
  <2>1. SUFFICES ASSUME ntPc = "enter", NtChildren(ntHeap, ntHead) = {} PROVE ntHeap[ntHead].edges = "none"
    BY DEF NtSingleChildAssertion
  <2>2. ntHead \in NtAddr
    BY <1>1, <2>1 DEF NtTypeOK
  <2>3. \A x \in NtAddr : NtOwner(x) # ntHead
    BY <1>1, <2>1, <2>2, HeapIs DEF NtTypeOK, NtOwner
  <2> QED BY <1>2, <2>1, <2>3 DEF NtGame, NtEntering
<1> QED BY <1>3, <1>4, <1>5, <1>6 DEF NtTreeSound

\* However resets, moves, searches and the collector interleave, on any number of addresses:
\* the head stands for the position and keeps its children, every node is owned once, and
\* the assertion of CreateSingleChildNode holds.
THEOREM TreeKeptSound == NtSpec => []NtTreeSound
<1>1. NtInit => NtInv
  BY NtInitially
<1>2. NtInv /\ [NtNext]_ntVars => NtInv'
  BY NtStepKeeps
<1>3. NtInv => NtTreeSound
  BY NtSound
<1> QED BY <1>1, <1>2, <1>3, PTL DEF NtSpec

-----------------------------------------------------------------------------
(* Loading of tablebases: the inductive invariant. *)

SzPlaces == {"idle", "tested", "entry", "lock", "load", "loaded", "decompress"}

SzTypeOK ==
  /\ szProbe \in [SzThreads -> [pc : SzPlaces, key : SzKeys, type : SzTypes]]
  /\ szReady \in [SzTypes -> BOOLEAN]
  /\ szLoads \in [SzTypes -> Nat]

SzAt(th, places) == szProbe[th].pc \in places

\* Whoever loads a table holds ready_mutex_.
SzExclusive == \A th \in SzThreads : SzAt(th, {"load", "loaded"}) => szLock = th

\* The flag is stored after the table was filled, once, by the thread that filled it.
SzFlagTrue ==
  /\ \A t \in SzTypes : szReady[t] => szLoads[t] = 1
  /\ \A th \in SzThreads :
       /\ SzAt(th, {"load"}) => ~szReady[szProbe[th].type] /\ szLoads[szProbe[th].type] = 0
       /\ SzAt(th, {"loaded"}) => ~szReady[szProbe[th].type] /\ szLoads[szProbe[th].type] = 1
       /\ SzAt(th, {"decompress"}) => szReady[szProbe[th].type]
  /\ \A t \in SzTypes : \/ szLoads[t] = 0 \/ szReady[t]
                        \/ \E th \in SzThreads : SzAt(th, {"loaded"}) /\ szProbe[th].type = t

SzInv == SzTypeOK /\ SzExclusive /\ SzFlagTrue

\* What is left of a step for the other threads, and where it brings its own.
SzMoved(th, pc) ==
  /\ szProbe' \in [SzThreads -> [pc : SzPlaces, key : SzKeys, type : SzTypes]]
  /\ szProbe'[th].pc = pc /\ szProbe'[th].type = szProbe[th].type
  /\ \A u \in SzThreads \ {th} : szProbe'[u] = szProbe[u]

\* A step of one thread leaves the probes of the others alone.
LEMMA GotoMoves ==
  ASSUME SzTypeOK, NEW th \in SzThreads, NEW pc \in SzPlaces, SzGoto(th, pc)
  PROVE  SzMoved(th, pc)
<1> DEFINE r == [pc |-> pc, key |-> szProbe[th].key, type |-> szProbe[th].type]
<1>1. szProbe[th] \in [pc : SzPlaces, key : SzKeys, type : SzTypes]
  BY DEF SzTypeOK
<1>2. [szProbe[th] EXCEPT !.pc = pc] = r
  BY <1>1
<1>3. szProbe' = [szProbe EXCEPT ![th] = r]
  BY <1>2, Zenon DEF SzGoto
<1>4. r \in [pc : SzPlaces, key : SzKeys, type : SzTypes]
  BY <1>1
<1> QED BY <1>3, <1>4 DEF SzTypeOK, SzMoved

\* The invariant holds before the first probe.
LEMMA SzInitially == SzInit => SzInv
  BY DEF SzInit, SzInv, SzTypeOK, SzExclusive, SzFlagTrue, SzAt, SzIdle, SzPlaces, SzKeys, SzTypes

\* Every step of a probe keeps it, one action after the other.
LEMMA SzStepKeeps == ASSUME SzInv, NEW th \in SzThreads, SzStep(th) PROVE SzInv'
<1> USE DEF SzAt
<1>1. CASE SlotTested(th)
  BY <1>1 DEF SzInv, SzTypeOK, SzExclusive, SzFlagTrue, SlotTested, SzPlaces
<1>2. CASE EntryRead(th)
  <2>1. CASE UNCHANGED szProbe
    BY <1>2, <2>1 DEF SzInv, SzTypeOK, SzExclusive, SzFlagTrue, EntryRead
  <2>2. CASE SzGoto(th, "entry")
    <3>1. SzMoved(th, "entry")
      BY <2>2, GotoMoves DEF SzInv, SzPlaces
    <3>2. UNCHANGED <<szReady, szLoads, szLock>> /\ szProbe[th].pc = "tested"
      BY <1>2 DEF EntryRead
    <3>3. SzTypeOK' /\ SzExclusive'
      BY <3>1, <3>2 DEF SzInv, SzTypeOK, SzExclusive, SzMoved
    <3>4. SzFlagTrue'
      BY <3>1, <3>2 DEF SzInv, SzTypeOK, SzFlagTrue, SzMoved
    <3> QED BY <3>3, <3>4 DEF SzInv
  <2> QED BY <1>2, <2>1, <2>2 DEF EntryRead
<1>3. CASE ReadyTested(th)
  <2> DEFINE pc == IF szReady[szProbe[th].type] THEN "decompress" ELSE "lock"
  <2>1. SzMoved(th, pc)
    <3>1. pc \in SzPlaces
      BY DEF SzPlaces
    <3>2. SzGoto(th, pc)
      BY <1>3 DEF ReadyTested
    <3> HIDE DEF pc
    <3> QED BY <3>1, <3>2, GotoMoves DEF SzInv
  <2>2. UNCHANGED <<szReady, szLoads, szLock>> /\ szProbe[th].pc = "entry"
    BY <1>3 DEF ReadyTested
  <2>3. SzTypeOK' /\ SzExclusive'
    BY <2>1, <2>2 DEF SzInv, SzTypeOK, SzExclusive, SzMoved
  <2>4. SzFlagTrue'
    BY <2>1, <2>2 DEF SzInv, SzTypeOK, SzFlagTrue, SzMoved
  <2> QED BY <2>3, <2>4 DEF SzInv
<1>4. CASE ReadyLocked(th)
  <2> DEFINE pc == IF MustLoad(th) THEN "load" ELSE "decompress"
  <2>1. SzMoved(th, pc)
    <3>1. pc \in SzPlaces
      BY DEF SzPlaces
    <3>2. SzGoto(th, pc)
      BY <1>4 DEF ReadyLocked
    <3> HIDE DEF pc
    <3> QED BY <3>1, <3>2, GotoMoves DEF SzInv
  <2> QED BY <1>4, <2>1, SzAssumption DEF SzInv, SzTypeOK, SzExclusive, SzFlagTrue, ReadyLocked, SzMoved, MustLoad
<1>5. CASE TableLoaded(th)
  <2> DEFINE pc == "loaded"
  <2>1. SzMoved(th, pc)
    <3>1. pc \in SzPlaces
      BY DEF SzPlaces
    <3>2. SzGoto(th, pc)
      BY <1>5 DEF TableLoaded
    <3> HIDE DEF pc
    <3> QED BY <3>1, <3>2, GotoMoves DEF SzInv
  <2> QED BY <1>5, <2>1 DEF SzInv, SzTypeOK, SzExclusive, SzFlagTrue, TableLoaded, SzMoved, MustLoad
<1>6. CASE LoadFailed(th)
  BY <1>6 DEF SzInv, SzTypeOK, SzExclusive, SzFlagTrue, LoadFailed, LockAfterFailure, SzIdle, SzPlaces, SzKeys, SzTypes
<1>7. CASE LoadThrew(th)
  BY <1>7 DEF SzInv, SzTypeOK, SzExclusive, SzFlagTrue, LoadThrew
<1>8. CASE ReadyStored(th)
  <2> DEFINE pc == "decompress"
  <2>1. SzMoved(th, pc)
    <3>1. pc \in SzPlaces
      BY DEF SzPlaces
    <3>2. SzGoto(th, pc)
      BY <1>8 DEF ReadyStored
    <3> HIDE DEF pc
    <3> QED BY <3>1, <3>2, GotoMoves DEF SzInv
  <2> QED BY <1>8, <2>1 DEF SzInv, SzTypeOK, SzExclusive, SzFlagTrue, ReadyStored, SzMoved, MustLoad
<1>9. CASE Decompressed(th)
  BY <1>9 DEF SzInv, SzTypeOK, SzExclusive, SzFlagTrue, Decompressed, SzIdle, SzPlaces, SzKeys, SzTypes
<1> QED BY <1>1, <1>2, <1>3, <1>4, <1>5, <1>6, <1>7, <1>8, <1>9 DEF SzStep

\* A table is loaded at most once, and never read before it is complete, by any number
\* of threads.
THEOREM LoadedOnceBeforeUse == SzSpec => []SzLoadOnceBeforeUse
<1>1. SzInv /\ [SzNext]_szVars => SzInv'
  <2>1. CASE UNCHANGED szVars
    BY <2>1 DEF szVars, SzInv, SzTypeOK, SzExclusive, SzFlagTrue, SzAt
  <2> QED BY <2>1, SzStepKeeps DEF SzNext
<1>2. SzInv => SzLoadOnceBeforeUse
  BY DEF SzInv, SzTypeOK, SzFlagTrue, SzAt, SzLoadOnceBeforeUse
<1> QED BY SzInitially, <1>1, <1>2, PTL DEF SzSpec
=============================================================================
