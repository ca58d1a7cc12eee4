------------------------------ MODULE NodeTree ------------------------------
(* The tree of the game between searches (NodeTree) and the garbage collector that
   frees what it gives up.  Nodes live at addresses; the collector's thread frees
   queued subtrees while the engine's thread moves the head, and a freed address
   may be used again. *)
EXTENDS Naturals, Sequences, SequencesExt, FiniteSets

CONSTANTS NtAddr, NtFens, NtMoves, NtMaxPly,
          NtNull,         \* nullptr
          NtMaxResets     \* bound: number of ResetToPosition calls

ASSUME NtAssumption ==
    /\ NtMaxPly \in Nat /\ NtMaxResets \in Nat /\ NtNull \notin NtAddr
    /\ NtAddr \cap {"free", "begin", "gc"} = {} /\ NtMoves \cap {"none", "all"} = {}

(* ntHeap: what is at each address.  A node knows its owner (the node whose child_
   list it is in; "begin" for gamebegin_node_, "gc" for a root of a queued subtree),
   the move of its own edge, whether it has edges and how it got them, whether its
   children are one solid array, whether some of its children were given up while
   it kept its counts (lost), and, as a history variable, for which position it was made. *)
VARIABLES ntHeap, ntHead, ntFen, ntPath, ntQueue, ntPc, ntTodo, ntOld, ntSeen, ntWas, ntResets
ntVars == <<ntHeap, ntHead, ntFen, ntPath, ntQueue, ntPc, ntTodo, ntOld, ntSeen, ntWas, ntResets>>

NtNode(owner, fen, path) ==
    [owner |-> owner, fen |-> fen, path |-> path, edges |-> "none", solid |-> FALSE, lost |-> FALSE]
NtFree == NtNode("free", NtNull, <<>>)
NtLive(h) == {x \in NtAddr : h[x] # NtFree}
NtChildren(h, x) == {y \in NtLive(h) : h[y].owner = x}
NtBegin(h) == {x \in NtLive(h) : h[x].owner = "begin"}

\* x and everything below it: what is in every set with x that has all children of its
\* members.
NtClosed(h, S) == \A y \in S : NtChildren(h, y) \subseteq S
NtSubtree(h, x) ==
    {y \in NtAddr : \A S \in SUBSET NtAddr : x \in S /\ NtClosed(h, S) => y \in S}

NtInit ==
    /\ ntHeap = [x \in NtAddr |-> NtFree] /\ ntHead = NtNull
    /\ ntFen \in NtFens /\ ntPath = <<>> /\ ntQueue = <<>>
    /\ ntPc = "idle" /\ ntTodo = <<>> /\ ntOld = NtNull /\ ntSeen = FALSE
    /\ ntWas = [fen |-> NtNull, path |-> <<>>] /\ ntResets = 0

-----------------------------------------------------------------------------
\* Hands the subtrees of xs over to the collector. Nothing is queued for none.
NtRelease(h, xs) == [x \in NtAddr |-> IF x \in xs THEN [h[x] EXCEPT !.owner = "gc"] ELSE h[x]]
NtEnqueue(xs) == IF xs = {} THEN ntQueue ELSE Append(ntQueue, xs)

\* ResetToPosition up to its loop: another starting position drops the tree.
NtResetToPosition(fen, moves) ==
    /\ ntPc = "idle" /\ ntResets < NtMaxResets /\ ntResets' = ntResets + 1
    /\ LET drop == ntFen # fen
           h == IF drop THEN NtRelease(ntHeap, NtBegin(ntHeap)) ELSE ntHeap
       IN  /\ ntQueue' = IF drop THEN NtEnqueue(NtBegin(ntHeap)) ELSE ntQueue
           /\ ntOld' = IF drop THEN NtNull ELSE ntHead
           /\ IF NtBegin(h) # {}
              THEN ntHead' \in NtBegin(h) /\ ntHeap' = h
              ELSE /\ ntHead' \in NtAddr \ NtLive(h)
                   /\ ntHeap' = [h EXCEPT ![ntHead'] = NtNode("begin", fen, <<>>)]
           /\ ntSeen' = (ntHead' = ntOld')
    /\ ntWas' = [fen |-> IF ntHead = NtNull THEN NtNull ELSE ntFen, path |-> ntPath]
    /\ ntFen' = fen /\ ntPath' = <<>> /\ ntTodo' = moves
    /\ ntPc' = IF moves = <<>> THEN "finish" ELSE "release"

\* The edge of x for move m leads to this child, if it was spawned.
NtChildAt(h, x, m) == {y \in NtChildren(h, x) : Last(h[y].path) = m}
NtHasEdge(h, x, m) == h[x].edges = "all" \/ h[x].edges = m

\* With no child left the list of edges goes too.
NtEdgesLeft(edges, found) == IF found THEN edges ELSE "none"

\* MakeMove, first part: find or spawn the child, give up all other children.  The
\* one that stays moves out of a solid array to an address of its own.
NtMoveRelease ==
    /\ ntPc = "release" /\ ntPc' = "enter"
    /\ LET m == Head(ntTodo)
           found == NtHasEdge(ntHeap, ntHead, m)
           kept == IF found THEN NtChildAt(ntHeap, ntHead, m) ELSE {}
           moved == ntHeap[ntHead].solid /\ kept # {}
           rest == NtChildren(ntHeap, ntHead) \ (IF moved THEN {} ELSE kept)
           h == [NtRelease(ntHeap, rest) EXCEPT
                    ![ntHead].lost = @ \/ NtChildren(ntHeap, ntHead) # kept,
                    ![ntHead].solid = FALSE, ![ntHead].edges = NtEdgesLeft(@, found)]
       IN  /\ ntQueue' = NtEnqueue(rest)
           /\ IF ~found \/ (kept # {} /\ ~moved) THEN ntHeap' = h
              ELSE \E y \in NtAddr \ NtLive(h) :
                  ntHeap' = IF ~moved THEN [h EXCEPT ![y] = NtNode(ntHead, ntFen, Append(ntPath, m))]
                            ELSE LET k == CHOOSE k \in kept : TRUE
                                 IN  [x \in NtAddr |->
                                        IF x = y THEN ntHeap[k]
                                        ELSE IF x = k THEN NtNode("gc", ntFen, Append(ntPath, m))
                                        ELSE IF h[x] # NtFree /\ h[x].owner = k THEN [h[x] EXCEPT !.owner = y]
                                        ELSE h[x]]
    /\ UNCHANGED <<ntHead, ntFen, ntPath, ntTodo, ntOld, ntSeen, ntWas, ntResets>>

\* MakeMove, second part: go to the child that was kept, or to the single child
\* that CreateSingleChildNode makes.
NtMoveEnter ==
    /\ ntPc = "enter"
    /\ LET m == Head(ntTodo) IN
       /\ \/ /\ NtChildren(ntHeap, ntHead) # {}
             /\ ntHead' \in NtChildren(ntHeap, ntHead) /\ UNCHANGED ntHeap
          \/ /\ NtChildren(ntHeap, ntHead) = {}
             /\ ntHead' \in NtAddr \ NtLive(ntHeap)
             /\ ntHeap' = [ntHeap EXCEPT ![ntHead].edges = m,
                                         ![ntHead'] = NtNode(ntHead, ntFen, Append(ntPath, m))]
       /\ ntPath' = Append(ntPath, m)
    /\ ntSeen' = (ntSeen \/ ntHead' = ntOld)
    /\ ntTodo' = Tail(ntTodo)
    /\ ntPc' = IF Len(ntTodo) = 1 THEN "finish" ELSE "release"
    /\ UNCHANGED <<ntFen, ntQueue, ntOld, ntWas, ntResets>>

NtTrimTreeAtHead(h) ==
    [NtRelease(h, NtChildren(h, ntHead)) EXCEPT
        ![ntHead] = NtNode(h[ntHead].owner, h[ntHead].fen, h[ntHead].path)]

NtNeverTrims == FALSE
NtNeedsTrim == ~ntSeen

\* The end of ResetToPosition.
NtFinish ==
    /\ ntPc = "finish" /\ ntPc' = "idle"
    /\ IF ~NtNeedsTrim THEN UNCHANGED <<ntHeap, ntQueue>>
       ELSE ntHeap' = NtTrimTreeAtHead(ntHeap) /\ ntQueue' = NtEnqueue(NtChildren(ntHeap, ntHead))
    /\ UNCHANGED <<ntHead, ntFen, ntPath, ntTodo, ntOld, ntSeen, ntWas, ntResets>>

\* The tree is destroyed (ucinewgame): DeallocateTree.
NtDeallocate ==
    /\ ntPc = "idle" /\ ntHead # NtNull /\ ntHead' = NtNull
    /\ ntHeap' = NtRelease(ntHeap, NtBegin(ntHeap)) /\ ntQueue' = NtEnqueue(NtBegin(ntHeap))
    /\ ntPath' = <<>>
    /\ UNCHANGED <<ntFen, ntPc, ntTodo, ntOld, ntSeen, ntWas, ntResets>>

-----------------------------------------------------------------------------
(* A search runs between the commands: it gives nodes below the head their edges,
   spawns children, and makes the children of a node solid. *)
NtSearchable == IF ntPc = "idle" /\ ntHead # NtNull THEN NtSubtree(ntHeap, ntHead) ELSE {}

NtSearchExtend(x) ==
    /\ ntHeap[x].edges # "all" /\ ntHeap' = [ntHeap EXCEPT ![x].edges = "all"]
    /\ UNCHANGED <<ntHead, ntFen, ntPath, ntQueue, ntPc, ntTodo, ntOld, ntSeen, ntWas, ntResets>>

NtSearchSpawn(x, m) ==
    /\ ntHeap[x].edges = "all" /\ Len(ntHeap[x].path) < NtMaxPly
    /\ NtChildAt(ntHeap, x, m) = {}
    /\ \E y \in NtAddr \ NtLive(ntHeap) :
          ntHeap' = [ntHeap EXCEPT ![y] = NtNode(x, ntFen, Append(ntHeap[x].path, m))]
    /\ UNCHANGED <<ntHead, ntFen, ntPath, ntQueue, ntPc, ntTodo, ntOld, ntSeen, ntWas, ntResets>>

\* MakeSolid: a new array with a node for every edge; the nodes it replaces, empty
\* now, are queued.
NtMakeSolid(x) ==
    /\ ntHeap[x].edges = "all" /\ ~ntHeap[x].solid /\ NtChildren(ntHeap, x) # {}
    /\ \E array \in [NtMoves -> NtAddr \ NtLive(ntHeap)] :
         LET olds == NtChildren(ntHeap, x)
             For(m) == NtChildAt(ntHeap, x, m)
             Content(m) == IF For(m) = {} THEN NtNode(x, ntFen, Append(ntHeap[x].path, m))
                           ELSE ntHeap[CHOOSE y \in For(m) : TRUE]
             NewOwner(o) == array[Last(ntHeap[o].path)]
         IN  /\ IsInjective(array)
             /\ ntHeap' = [y \in NtAddr |->
                    CASE y \in Range(array) -> Content(CHOOSE m \in NtMoves : array[m] = y)
                      [] y \in olds -> [ntHeap[y] EXCEPT !.owner = "gc"]
                      [] y = x -> [ntHeap[y] EXCEPT !.solid = TRUE]
                      [] y \in NtLive(ntHeap) /\ ntHeap[y].owner \in olds ->
                             [ntHeap[y] EXCEPT !.owner = NewOwner(@)]
                      [] OTHER -> ntHeap[y]]
             /\ ntQueue' = Append(ntQueue, olds)
    /\ UNCHANGED <<ntHead, ntFen, ntPath, ntPc, ntTodo, ntOld, ntSeen, ntWas, ntResets>>

\* The collector's thread takes the last queued subtrees and frees them.
NtGarbageCollect ==
    /\ ntQueue # <<>> /\ ntQueue' = Front(ntQueue)
    /\ LET gone == UNION {NtSubtree(ntHeap, x) : x \in Last(ntQueue)}
       IN  ntHeap' = [x \in NtAddr |-> IF x \in gone THEN NtFree ELSE ntHeap[x]]
    /\ UNCHANGED <<ntHead, ntFen, ntPath, ntPc, ntTodo, ntOld, ntSeen, ntWas, ntResets>>

NtNext ==
    \/ \E fen \in NtFens, moves \in SeqOf(NtMoves, NtMaxPly) : NtResetToPosition(fen, moves)
    \/ NtMoveRelease \/ NtMoveEnter \/ NtFinish \/ NtDeallocate \/ NtGarbageCollect
    \/ \E x \in NtSearchable : NtSearchExtend(x) \/ NtMakeSolid(x) \/ \E m \in NtMoves : NtSearchSpawn(x, m)

NtSpec == NtInit /\ [][NtNext]_ntVars

-----------------------------------------------------------------------------
(* The head is the node of the position in the history, and it hangs below the first
   node of the game by the nodes of the positions before it. *)
NtHeadIsPosition ==
    ntHead # NtNull =>
        \E above \in [0..Len(ntPath) -> NtAddr] :
            /\ above[Len(ntPath)] = ntHead /\ ntHeap[above[0]].owner = "begin"
            /\ \A k \in 1..Len(ntPath) : ntHeap[above[k]].owner = above[k - 1]
            /\ \A k \in 0..Len(ntPath) :
                  /\ above[k] \in NtLive(ntHeap) /\ ntHeap[above[k]].fen = ntFen
                  /\ ntHeap[above[k]].path = SubSeq(ntPath, 1, k)

(* A search never starts at a node whose children were given up while it kept what it
   had counted for them: going back to an earlier position resets the node. *)
NtHeadKeepsChildren == ntPc = "idle" /\ ntHead # NtNull => ~ntHeap[ntHead].lost

(* Every node has exactly one owner, alive: a node of the game, the game itself or the
   collector's queue, once. So nothing is leaked, freed twice or freed while in use. *)
NtOwnedOnce ==
    /\ \A x \in NtLive(ntHeap) :
          LET o == ntHeap[x].owner IN
          \/ o = "begin" \/ (o \in NtLive(ntHeap) /\ x \in NtChildAt(ntHeap, o, Last(ntHeap[x].path)))
          \/ o = "gc" /\ Cardinality({i \in DOMAIN ntQueue : x \in ntQueue[i]}) = 1
    /\ \A i \in DOMAIN ntQueue : \A x \in ntQueue[i] : x \in NtLive(ntHeap) /\ ntHeap[x].owner = "gc"
    /\ Cardinality(NtBegin(ntHeap)) = IF ntHead = NtNull THEN 0 ELSE 1

(* The assertion of CreateSingleChildNode (node.cc): a node that gets its single child
   has no edges left, whichever moves were played from it before. *)
NtSingleChildAssertion ==
    ntPc = "enter" /\ NtChildren(ntHeap, ntHead) = {} => ntHeap[ntHead].edges = "none"

(* The tree kept between searches, while the collector runs at any time: the head stands
   for the position and keeps its children, every node is owned once, and the assertion
   of CreateSingleChildNode holds. *)
NtTreeSound == NtHeadIsPosition /\ NtHeadKeepsChildren /\ NtOwnedOnce /\ NtSingleChildAssertion
=============================================================================
