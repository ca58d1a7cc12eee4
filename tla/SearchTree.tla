----------------------------- MODULE SearchTree -----------------------------
(***************************************************************************)
(* The tree that the workers of one Search share (mcts/search.cc and       *)
(* mcts/node.cc): picking nodes under nodes_mutex_, virtual visits         *)
(* (n_in_flight_), collisions that are cancelled by whoever backs up next, *)
(* and the pointers that workers keep while MakeSolid moves nodes.         *)
(*                                                                         *)
(* The scores are left out: which child a descent prefers, how far a       *)
(* collision counts and which ancestors a proven result makes terminal are *)
(* free choices.                                                           *)
(***************************************************************************)
EXTENDS Integers, Sequences, FiniteSets

CONSTANTS
    Nodes, Root, Parent,   \* the game tree below the root; Parent on Nodes \ {Root}
    Above,                 \* the strict ancestors of every node, up to the root
    GameOver,              \* leaves that ExtendNode makes terminal
    TablebaseWins,         \* those of them that it makes BLACK_WON
    TwoFold,               \* leaves an earlier search took for two-fold draws
    Workers,
    MiniBatchSize,
    MaxCollisionVisits,
    SolidTreeThreshold,
    InitialVisits,         \* bound: visits of the root in the initial trees
    MaxPlayouts,           \* bound: playouts done when a node is claimed
    MaxShared              \* bound: visits shared per pointer, with a new collision

ASSUME TreeAssumption ==
    /\ Root \in Nodes /\ IsFiniteSet(Nodes)
    /\ Parent \in [Nodes \ {Root} -> Nodes]
    /\ Above \in [Nodes -> SUBSET Nodes] /\ Above[Root] = {}
    /\ \A x \in Nodes \ {Root} : Above[x] = {Parent[x]} \cup Above[Parent[x]]
    /\ \A x \in Nodes : x \notin Above[x]
    /\ "no one" \notin Workers /\ IsFiniteSet(Workers)
    /\ TablebaseWins \subseteq GameOver
    /\ GameOver \cap TwoFold = {}
    /\ {GameOver, TwoFold} \subseteq SUBSET (Nodes \ {Root})
    /\ {MiniBatchSize, MaxCollisionVisits, SolidTreeThreshold} \subseteq Nat \ {0}

VARIABLES
    n, n_in_flight_,     \* per node: visits, and visits on their way
    edges,               \* nodes that have their edges
    terminal,            \* nodes whose terminal_type_ is set
    solid,               \* nodes with solid_children_
    initial_visits_, total_playouts_,
    shared_collisions_,  \* per pointer, the visits to cancel
    nodes_mutex_,        \* the worker that holds it over several steps
    pc, minibatch,       \* per worker: its place and its minibatch_
    budget,              \* per worker: collisions_left
    work_done,           \* per worker: it evaluates something in this iteration
    parent_seen,         \* per worker: the parent pointer MakeTerminal has read
    destroyed

counts == <<n, n_in_flight_, initial_visits_, total_playouts_>>
shape == <<edges, terminal, solid>>
local == <<minibatch, budget, work_done, parent_seen>>
vars == <<counts, shape, shared_collisions_, nodes_mutex_, pc, local, destroyed>>

NoOne == "no one"

Children(x) == {c \in Nodes \ {Root} : Parent[c] = x}

UpFrom(x) == {x} \cup Above[x]

\* The sum of the natural numbers that f assigns, counted in units.
Units(f) == UNION {{s} \X (1 .. f[s]) : s \in DOMAIN f}

Total(f) == Cardinality(Units(f))

\* MakeSolid of the parent moves a node once: before or after it.
Where(x) == IF x # Root /\ Parent[x] \in solid THEN "solid" ELSE "linked"

Pointers == Nodes \X {"linked", "solid"}

Pointer(x) == <<x, Where(x)>>

Live(p) == p[2] = Where(p[1])

\* Trees an earlier search may have left, of those with up to InitialVisits visits
\* and no node made terminal by its children: the children of a node account for
\* all visits of it but its own first, and nothing is on its way.
ReusedTree ==
    /\ n \in [Nodes -> 0 .. InitialVisits]
    /\ terminal = {x \in GameOver \cup TwoFold : n[x] > 0}
    /\ edges = {x \in Nodes : n[x] > 0} \ terminal
    /\ \A x \in edges : n[x] = 1 + Total([c \in Children(x) |-> n[c]])
    /\ \A x \in Nodes \ edges : \A c \in Children(x) : n[c] = 0

Init ==
    /\ ReusedTree
    /\ solid \in SUBSET {x \in edges : Children(x) # {}}
    /\ \A x \in solid : n[x] >= SolidTreeThreshold
    /\ n_in_flight_ = [x \in Nodes |-> 0]
    /\ initial_visits_ = n[Root]
    /\ total_playouts_ = 0
    /\ shared_collisions_ = [p \in Pointers |-> 0]
    /\ nodes_mutex_ = NoOne
    /\ pc = [w \in Workers |-> "gather"]
    /\ minibatch = [w \in Workers |-> << >>]
    /\ budget = [w \in Workers |-> MaxCollisionVisits]
    /\ work_done = [w \in Workers |-> FALSE]
    /\ parent_seen = [w \in Workers |-> Pointer(Root)]
    /\ destroyed = FALSE

Goto(w, where) == pc' = [pc EXCEPT ![w] = where]

Free == nodes_mutex_ = NoOne

\* NodeToProcess::Visit and NodeToProcess::Collision
Entry(x, visits, kind) == [pointer |-> Pointer(x), visits |-> visits, kind |-> kind]

IsCollision(entry) == entry.kind = "Collision"

Added(f, S, k) == [x \in Nodes |-> IF x \in S THEN f[x] + k ELSE f[x]]

-----------------------------------------------------------------------------
(* GatherMinibatch. *)

\* TryStartScoreUpdate refuses a node that is being evaluated for the first time.
Refused(x) == n[x] = 0 /\ n_in_flight_[x] > 0

\* A descent may pass through a node and go to one of its children.
Passable(x) == ~Refused(x) /\ x \notin terminal /\ x \in edges

Reachable(x) == \A a \in Above[x] : Passable(a)

Gathers(w) ==
    /\ pc[w] = "gather" /\ Free
    /\ Len(SelectSeq(minibatch[w], LAMBDA e : ~IsCollision(e))) < MiniBatchSize
    /\ budget[w] > 0

\* PickNodeToExtend ends at a refused node.  The visits of the collision are on
\* their way for the node's strict ancestors only.
Collide(w) ==
    \E x \in Nodes, visits \in 1 .. budget[w] :
        /\ Gathers(w) /\ Reachable(x) /\ Refused(x)
        /\ \A p \in Pointers : shared_collisions_[p] + visits <= MaxShared
        /\ n_in_flight_' = Added(n_in_flight_, Above[x], visits)
        /\ minibatch' = [minibatch EXCEPT ![w] = Append(@, Entry(x, visits, "Collision"))]
        /\ budget' = [budget EXCEPT ![w] = @ - visits]
        /\ UNCHANGED <<n, initial_visits_, total_playouts_, shape, shared_collisions_,
                       nodes_mutex_, pc, work_done, parent_seen, destroyed>>

\* A two-fold draw of an earlier search; a node that a proven result has made
\* terminal has its edges.
IsTwoFoldTerminal(x) == x \in (TwoFold \cap terminal) \ edges

\* Its visits are taken back on the way to the root and from initial_visits_.
Reverted(x) == IF IsTwoFoldTerminal(x) THEN n[x] ELSE 0

\* Mutant: only the node itself is reverted.
RevertedNodesSelf(x) == {x}

RevertedNodes(x) == UpFrom(x)

InitialAfter(x) == initial_visits_ - Reverted(x)

AtBound == total_playouts_ >= MaxPlayouts

\* PickNodeToExtend claims a leaf or a terminal node.
Visit(w) ==
    \E x \in Nodes :
        /\ Gathers(w) /\ Reachable(x) /\ ~Refused(x)
        /\ x \in terminal \/ x \notin edges
        /\ ~AtBound
        /\ n_in_flight_' = Added(n_in_flight_, UpFrom(x), 1)
        /\ n' = Added(n, RevertedNodes(x), -Reverted(x))
        /\ initial_visits_' = InitialAfter(x)
        /\ terminal' = IF IsTwoFoldTerminal(x) THEN terminal \ {x} ELSE terminal
        /\ minibatch' = [minibatch EXCEPT ![w] = Append(@, Entry(x, 1, "Visit"))]
        /\ work_done' = [work_done EXCEPT ![w] = TRUE]
        /\ Goto(w, IF x \in terminal' THEN "picked" ELSE "extend")
        /\ UNCHANGED <<total_playouts_, edges, solid, shared_collisions_, nodes_mutex_,
                       budget, parent_seen, destroyed>>

Picked(w) == minibatch[w][Len(minibatch[w])].pointer[1]

\* ExtendNode, without the mutex: edges for a position to evaluate, or a
\* terminal.  BLACK_WON goes on to clear the policy of the parent's edge.
ExtendNode(w) ==
    LET x == Picked(w)
    IN  /\ pc[w] = "extend"
        /\ edges' = edges \cup ({x} \ GameOver)
        /\ terminal' = terminal \cup ({x} \cap GameOver)
        /\ parent_seen' = IF x \in TablebaseWins
                          THEN [parent_seen EXCEPT ![w] = Pointer(Parent[x])] ELSE parent_seen
        /\ Goto(w, IF x \in TablebaseWins THEN "own_edge" ELSE "picked")
        /\ UNCHANGED <<counts, solid, shared_collisions_, nodes_mutex_, minibatch, budget,
                       work_done, destroyed>>

\* GetOwnEdge()->SetP(0) through the parent pointer read above.
ClearOwnPolicy(w) ==
    /\ pc[w] = "own_edge"
    /\ parent_seen' = [parent_seen EXCEPT ![w] = Pointer(Root)]
    /\ Goto(w, "picked")
    /\ UNCHANGED <<counts, shape, shared_collisions_, nodes_mutex_, minibatch, budget,
                   work_done, destroyed>>

\* The node goes to the network, or was a terminal that is kept for later.
KeepPicked(w) ==
    /\ pc[w] = "picked"
    /\ Goto(w, "gather")
    /\ UNCHANGED <<counts, shape, shared_collisions_, nodes_mutex_, local, destroyed>>

-----------------------------------------------------------------------------
(* DoBackupUpdateSingleNode and MakeSolid. *)

\* Ancestors that MaybeSetBounds may reach from x, up to the first terminal one
\* and without the root.
BoundsReach(x) ==
    {a \in Above[x] \ {Root} : (Above[x] \ Above[a]) \cap terminal = {}}

\* The first visit of a terminal may make ancestors terminal.
ProvenBy(x) == IF x \in terminal /\ n[x] = 0 THEN SUBSET BoundsReach(x) ELSE {{}}

\* Mutant: collisions against the children are not looked for.
CanMoveCollided(x, visits, flying, ended) ==
    /\ x \notin ended /\ x \in edges /\ x \notin solid
    /\ \A c \in Children(x) : flying[c] > 0 => visits[c] > 1 /\ c \notin ended

\* MakeSolid's tests on the state that the backup has reached.
CanMoveChildren(x, visits, flying, ended) ==
    /\ x \notin ended /\ x \in edges /\ x \notin solid
    /\ \A c \in Children(x) : flying[c] > 0 => visits[c] > 1 /\ c \notin ended
    /\ Total([c \in Children(x) |-> flying[c]]) = flying[x]

BackupSingleNode(x) ==
    /\ n' = Added(n, UpFrom(x), 1)
    /\ n_in_flight_' = Added(n_in_flight_, UpFrom(x), -1)
    /\ \E proven \in ProvenBy(x) : terminal' = terminal \cup proven
    /\ solid' = solid \cup {a \in UpFrom(x) : n'[a] >= SolidTreeThreshold
                                /\ CanMoveChildren(a, n', n_in_flight_', terminal')}
    /\ total_playouts_' = total_playouts_ + 1
    /\ UNCHANGED <<edges, initial_visits_>>

\* Out of order evaluation of the entry picked last.
EvalOutOfOrder(w) ==
    /\ pc[w] = "picked" /\ Free
    /\ BackupSingleNode(Picked(w))
    /\ minibatch' = [minibatch EXCEPT ![w] = SubSeq(@, 1, Len(@) - 1)]
    /\ Goto(w, "gather")
    /\ UNCHANGED <<shared_collisions_, nodes_mutex_, budget, work_done, parent_seen, destroyed>>

\* Visits of w's collisions, per pointer.
Collected(w) ==
    [p \in Pointers |->
        Total([i \in {j \in DOMAIN minibatch[w] :
                         IsCollision(minibatch[w][j]) /\ minibatch[w][j].pointer = p}
               |-> minibatch[w][i].visits])]

\* The end of the gathering and CollectCollisions.
CollectCollisions(w) ==
    /\ pc[w] = "gather" /\ Free
    /\ minibatch[w] # << >> \/ work_done[w] \/ AtBound
    /\ shared_collisions_' = [p \in Pointers |-> shared_collisions_[p] + Collected(w)[p]]
    /\ Goto(w, "fetch")
    /\ UNCHANGED <<counts, shape, nodes_mutex_, local, destroyed>>

\* RunNNComputation and FetchMinibatchResults, which reads every entry's node.
FetchMinibatchResults(w) ==
    /\ pc[w] = "fetch"
    /\ Goto(w, "backup")
    /\ UNCHANGED <<counts, shape, shared_collisions_, nodes_mutex_, local, destroyed>>

\* One entry of DoBackupUpdate, which keeps the mutex to its end.
BackupEntry(w) ==
    /\ pc[w] = "backup" /\ minibatch[w] # << >>
    /\ Free \/ nodes_mutex_ = w
    /\ nodes_mutex_' = w
    /\ IF IsCollision(Head(minibatch[w])) THEN UNCHANGED <<counts, shape>>
       ELSE BackupSingleNode(Head(minibatch[w]).pointer[1])
    /\ minibatch' = [minibatch EXCEPT ![w] = Tail(@)]
    /\ UNCHANGED <<shared_collisions_, pc, budget, work_done, parent_seen, destroyed>>

Shared == {p \in Pointers : shared_collisions_[p] > 0}

\* Mutant: the walk ends at the parent.
SharedAtChildren(x) ==
    Total([p \in {q \in Shared : q[1] \in Children(x)} |-> shared_collisions_[p]])

\* The visits that cancelling takes from x, a strict ancestor of what collided.
SharedBelow(x) ==
    Total([p \in {q \in Shared : x \in Above[q[1]]} |-> shared_collisions_[p]])

Cancelled ==
    [x \in Nodes |-> n_in_flight_[x] - SharedBelow(x)]

CancelSharedCollisions ==
    /\ n_in_flight_' = Cancelled
    /\ shared_collisions_' = [p \in Pointers |-> 0]

\* The end of DoBackupUpdate.  The worker begins an iteration or ends.
EndBackup(w) ==
    /\ pc[w] = "backup" /\ minibatch[w] = << >>
    /\ Free \/ nodes_mutex_ = w
    /\ IF work_done[w] THEN CancelSharedCollisions
       ELSE UNCHANGED <<n_in_flight_, shared_collisions_>>
    /\ nodes_mutex_' = NoOne
    /\ budget' = [budget EXCEPT ![w] = MaxCollisionVisits]
    /\ work_done' = [work_done EXCEPT ![w] = FALSE]
    /\ \E where \in {"gather", "done"} : Goto(w, where)
    /\ UNCHANGED <<n, initial_visits_, total_playouts_, shape, minibatch, parent_seen, destroyed>>

\* ~Search after Wait.
Destroy ==
    /\ \A w \in Workers : pc[w] = "done"
    /\ destroyed' = TRUE
    /\ CancelSharedCollisions
    /\ UNCHANGED <<n, initial_visits_, total_playouts_, shape, nodes_mutex_, pc, local>>

Step(w) ==
    \/ Collide(w) \/ Visit(w) \/ ExtendNode(w) \/ ClearOwnPolicy(w) \/ KeepPicked(w)
    \/ EvalOutOfOrder(w) \/ CollectCollisions(w) \/ FetchMinibatchResults(w)
    \/ BackupEntry(w) \/ EndBackup(w)

Next == Destroy \/ \E w \in Workers : Step(w)

Spec == Init /\ [][Next]_vars

-----------------------------------------------------------------------------
(* Properties. *)

Entries == UNION {{w} \X DOMAIN minibatch[w] : w \in Workers}

At(e) == minibatch[e[1]][e[2]]

Visits == {e \in Entries : ~IsCollision(At(e))}

\* Collisions that only their worker knows of, CollectCollisions not yet done.
OwnCollisions ==
    {e \in Entries : IsCollision(At(e))
                     /\ pc[e[1]] \in {"gather", "extend", "own_edge", "picked"}}

\* n_in_flight_ of a node is what its claims and the collisions below it add up
\* to: no backup, out of order evaluation or cancellation by another worker's
\* DoBackupUpdate takes back more, or less, than was put in, and after ~Search
\* the next search of the tree starts without virtual losses.
InFlightConserved ==
    LET visits == Visits
        own == OwnCollisions
    IN  /\ \A x \in Nodes :
               n_in_flight_[x] =
                   Cardinality({e \in visits : x \in UpFrom(At(e).pointer[1])})
                   + Total([e \in {f \in own : x \in Above[At(f).pointer[1]]} |-> At(e).visits])
                   + SharedBelow(x)
        /\ destroyed => \A x \in Nodes : n_in_flight_[x] = 0

\* A node that is not terminal has one visit of its own and those of its
\* children, as MakeNotTerminal and the training data assume, and
\* total_playouts_ + initial_visits_, which decides about stopping, is the
\* root's visit count, visits of reverted two-fold draws included.
CountsAddUp ==
    /\ \A x \in Nodes \ terminal :
           n[x] = IF n[x] = 0 THEN 0 ELSE 1 + Total([c \in Children(x) |-> n[c]])
    /\ n[Root] = total_playouts_ + initial_visits_

\* The pointers that are written through are live: claimed nodes until their
\* backup, collisions until their cancellation, wherever MakeSolid moved nodes.
\* Every node above a claimed one has a visit, as MaybeSetBounds asserts of a
\* parent it makes terminal.
ClaimsLive ==
    /\ \A e \in Visits \cup OwnCollisions : Live(At(e).pointer)
    /\ \A p \in Shared : Live(p)
    /\ \A e \in Visits : \A a \in Above[At(e).pointer[1]] : n[a] > 0

\* What ExtendNode's comments rely on, for MakeTerminal's way to the own edge.
OwnEdgeLive == \A w \in Workers : pc[w] = "own_edge" => Live(parent_seen[w])
=============================================================================
