------------------------------- MODULE Bounds -------------------------------
(***************************************************************************)
(* Sticky endgames (mcts/search.cc MaybeSetBounds, mcts/node.cc): proven   *)
(* results of terminal leaves travel up the tree as lower and upper bounds *)
(* and make inner nodes terminal.                                          *)
(*                                                                         *)
(* A result is -1, 0 or 1 (BLACK_WON, DRAW, WHITE_WON), seen by the player *)
(* who moved to the node.  Workers extend leaves without the mutex, and    *)
(* one at a time climbs from a leaf to the root, or one node further.      *)
(* Between searches the game goes on, back, or to another variation.       *)
(***************************************************************************)
EXTENDS Integers

CONSTANTS
    Nodes, GameStart,
    Parent,         \* of every node but GameStart
    Above,          \* the strict ancestors of every node
    Value,          \* the game-theoretic result of every node
    GameOver,       \* nodes where ExtendNode finds the game over, or a tablebase result
    TwoFold,        \* nodes it may take for draws because a position came twice
    Workers,
    StickyEndgames  \* the option of that name

GameResult == {-1, 0, 1}

Children(x) == {c \in Nodes \ {GameStart} : Parent[c] = x}

\* Every legal move of a node, or none on the frontier, leads to a node.  Unless
\* the rules end the game the result of a node is the opposite of the best one
\* among its children.  A node that is a draw by rule has children too: they
\* matter once it is the root.
ASSUME BoundsAssumption ==
    /\ GameStart \in Nodes
    /\ Parent \in [Nodes \ {GameStart} -> Nodes]
    /\ Above \in [Nodes -> SUBSET Nodes]
    /\ Above[GameStart] = {}
    /\ \A x \in Nodes \ {GameStart} : Above[x] = {Parent[x]} \cup Above[Parent[x]]
    /\ \A x \in Nodes : x \notin Above[x] /\ \A y \in Above[x] : Above[y] \subseteq Above[x]
    /\ Value \in [Nodes -> GameResult]
    /\ "no one" \notin Workers
    /\ StickyEndgames \in BOOLEAN
    /\ \A x \in Nodes \ GameOver : Children(x) # {} =>
           /\ \A c \in Children(x) : Value[c] <= -Value[x]
           /\ \E c \in Children(x) : Value[c] = -Value[x]

VARIABLES
    root,                       \* root_node_ of the current search
    edges,                      \* nodes with an edge for every legal move; the others
                                \* above the root have one for the move played
    visited,                    \* nodes with a visit
    terminal,                   \* nodes that are EndOfGame or Tablebase
    twofold,                    \* nodes that are TwoFold
    lower_bound_, upper_bound_,
    pc, leaf,                   \* per worker: its place and the leaf it claimed
    nodes_mutex_, at,           \* who climbs, and the node it has reached
    update_parent_bounds

tree == <<root, edges, visited, terminal, twofold, lower_bound_, upper_bound_>>
climb == <<nodes_mutex_, at, update_parent_bounds>>
vars == <<tree, pc, leaf, climb>>

NoOne == "no one"

Init ==
    /\ root = GameStart
    /\ edges = {} /\ visited = {} /\ terminal = {} /\ twofold = {}
    /\ lower_bound_ = [x \in Nodes |-> -1]
    /\ upper_bound_ = [x \in Nodes |-> 1]
    /\ pc = [w \in Workers |-> "pick"]
    /\ leaf = [w \in Workers |-> GameStart]
    /\ nodes_mutex_ = NoOne /\ at = GameStart /\ update_parent_bounds = FALSE

Goto(w, where) == pc' = [pc EXCEPT ![w] = where]

IsTerminal(x) == x \in terminal \cup twofold

\* Claimed nodes: TryStartScoreUpdate refuses them to the others.
Claimed == {leaf[w] : w \in {v \in Workers : pc[v] # "pick"}}

\* Nodes that a descent goes past.
Passable(x) == x \in edges \cap visited /\ ~IsTerminal(x)

\* The nodes from the root down to the parent of x.
Path(x) == {a \in Above[x] : a = root \/ root \in Above[a]}

\* A descent from the root may come to x.
Reachable(x) ==
    /\ x = root \/ root \in Above[x]
    /\ \A a \in Path(x) : Passable(a)

\* PickNodeToExtend returns a node without a visit.  (Further visits of terminal
\* nodes set no bounds.)
Pick(w) ==
    \E x \in Nodes :
        /\ pc[w] = "pick" /\ nodes_mutex_ = NoOne
        /\ x \notin visited \cup Claimed
        /\ Reachable(x)
        /\ leaf' = [leaf EXCEPT ![w] = x]
        /\ Goto(w, "extend")
        /\ UNCHANGED <<tree, climb>>

\* PickNodeToExtend comes to a two-fold draw of a search from an earlier root:
\* its visits are reverted and it is extended again.
PickTwoFold(w) ==
    \E x \in twofold :
        /\ pc[w] = "pick" /\ nodes_mutex_ = NoOne
        /\ root # GameStart
        /\ x \in visited /\ x \notin Claimed
        /\ Reachable(x)
        /\ leaf' = [leaf EXCEPT ![w] = x]
        /\ twofold' = twofold \ {x}
        /\ visited' = visited \ {x}
        /\ Goto(w, "extend")
        /\ UNCHANGED <<root, edges, terminal, lower_bound_, upper_bound_, climb>>

\* ExtendNode makes x terminal: there is no legal move, or a draw rule or a
\* tablebase applies, which the root is exempt from.
Over(x) == x \in GameOver /\ (x # root \/ Children(x) = {})

\* ExtendNode for a position to be evaluated.
CreateEdges(w) ==
    /\ pc[w] = "extend"
    /\ ~Over(leaf[w])
    /\ edges' = edges \cup {leaf[w]}
    /\ Goto(w, "backup")
    /\ UNCHANGED <<root, visited, terminal, twofold, lower_bound_, upper_bound_, leaf, climb>>

\* ExtendNode takes a second occurrence for a draw, without setting bounds.
MakeTwoFold(w) ==
    /\ pc[w] = "extend"
    /\ leaf[w] \in TwoFold \ {root} /\ ~Over(leaf[w])
    /\ twofold' = twofold \cup {leaf[w]}
    /\ Goto(w, "backup")
    /\ UNCHANGED <<root, edges, visited, terminal, lower_bound_, upper_bound_, leaf, climb>>

\* MakeTerminal writes one bound, the other and the type, without the mutex; they
\* share a byte, so that a build stores them in this order or together.
MakeTerminalLower(w) ==
    /\ pc[w] = "extend"
    /\ Over(leaf[w])
    /\ lower_bound_' = [lower_bound_ EXCEPT ![leaf[w]] = Value[leaf[w]]]
    /\ Goto(w, "upper")
    /\ UNCHANGED <<root, edges, visited, terminal, twofold, upper_bound_, leaf, climb>>

MakeTerminalUpper(w) ==
    /\ pc[w] = "upper"
    /\ upper_bound_' = [upper_bound_ EXCEPT ![leaf[w]] = Value[leaf[w]]]
    /\ Goto(w, "type")
    /\ UNCHANGED <<root, edges, visited, terminal, twofold, lower_bound_, leaf, climb>>

MakeTerminalType(w) ==
    /\ pc[w] = "type"
    /\ terminal' = terminal \cup {leaf[w]}
    /\ Goto(w, "backup")
    /\ UNCHANGED <<root, edges, visited, twofold, lower_bound_, upper_bound_, leaf, climb>>

-----------------------------------------------------------------------------
(* DoBackupUpdateSingleNode, one step per node on the way up. *)

StartBackup(w) ==
    /\ pc[w] = "backup" /\ nodes_mutex_ = NoOne
    /\ nodes_mutex_' = w
    /\ at' = leaf[w]
    /\ visited' = visited \cup {leaf[w]}
    /\ update_parent_bounds' = (StickyEndgames /\ IsTerminal(leaf[w]))
    /\ Goto(w, "climb")
    /\ UNCHANGED <<root, edges, terminal, twofold, lower_bound_, upper_bound_, leaf>>

\* A mutant of Best: edges that were not visited do not count.
BestOfVisited(bound, S) ==
    IF \E c \in S \cap visited : bound[c] = 1 THEN 1
    ELSE IF \E c \in S \cap visited : bound[c] = 0 THEN 0 ELSE -1

\* The largest bound among the edges to S; edges without a node count with the
\* bounds every node starts with.
Best(bound, S) ==
    IF \E c \in S : bound[c] = 1 THEN 1
    ELSE IF \E c \in S : bound[c] = 0 THEN 0 ELSE -1

\* A mutant of Regular: bounds that only say what cannot be reached are ignored.
RegularByLower(S) == Best(lower_bound_, S) = -1

\* MaybeSetBounds finds nothing to set.
Regular(S) == Best(lower_bound_, S) = -1 /\ Best(upper_bound_, S) = 1

\* A mutant of NewLower: the sign is flipped, and the bounds are not swapped.
NewLowerUnswapped(S) == -Best(lower_bound_, S)

\* The bounds of a node's edges to S, seen from the node.
NewLower(S) == -Best(upper_bound_, S)
NewUpper(S) == -Best(lower_bound_, S)

\* A mutant of Decided: a node that cannot lose counts as decided.
DecidedEarly(S) == NewLower(S) # -1

\* The bounds cannot change any more.
Decided(S) == NewLower(S) = NewUpper(S)

\* MaybeSetBounds where there is something to set, on p with edges to S.
SetBounds(p, S) ==
    /\ lower_bound_' = [lower_bound_ EXCEPT ![p] = NewLower(S)]
    /\ upper_bound_' = [upper_bound_ EXCEPT ![p] = NewUpper(S)]
    /\ terminal' = IF Decided(S) THEN terminal \cup {p} ELSE terminal

\* Nodes whose bounds a climb may set: not the root, not one that is decided.
MaySet(p) == p # root /\ ~IsTerminal(p)

\* MaybeSetBounds on the parent of the node the climb has reached.
ClimbAndSet(w) ==
    LET p == Parent[at]
    IN  /\ pc[w] = "climb" /\ nodes_mutex_ = w
        /\ at # root
        /\ update_parent_bounds /\ MaySet(p) /\ ~Regular(Children(p))
        /\ SetBounds(p, Children(p))
        /\ at' = p
        /\ UNCHANGED <<root, edges, visited, twofold, pc, leaf, nodes_mutex_, update_parent_bounds>>

\* No bounds are set, here and further up.
ClimbPast(w) ==
    LET p == Parent[at]
    IN  /\ pc[w] = "climb" /\ nodes_mutex_ = w
        /\ at # root
        /\ ~(update_parent_bounds /\ MaySet(p) /\ ~Regular(Children(p)))
        /\ update_parent_bounds' = FALSE
        /\ at' = p
        /\ UNCHANGED <<tree, pc, leaf, nodes_mutex_>>

\* The edges of the root's parent: all of them, with no node but the root, or the
\* one that CreateSingleChildNode made.
ParentEdges == IF Parent[root] \in edges THEN Children(Parent[root]) ELSE {root}

\* MaybeSetBounds runs on the parent of a root without moves.  The update was not
\* given up on the way, so the root is the leaf.
SetsAboveRoot ==
    /\ update_parent_bounds /\ root # GameStart
    /\ MaySet(Parent[root]) /\ ~Regular(ParentEdges)

\* The loop ends behind the root.
Finish(w) ==
    /\ nodes_mutex_' = NoOne
    /\ at' = GameStart /\ update_parent_bounds' = FALSE
    /\ Goto(w, "pick")
    /\ leaf' = [leaf EXCEPT ![w] = GameStart]

EndAboveRoot(w) ==
    /\ pc[w] = "climb" /\ nodes_mutex_ = w
    /\ at = root /\ SetsAboveRoot
    /\ SetBounds(Parent[root], ParentEdges)
    /\ Finish(w)
    /\ UNCHANGED <<root, edges, visited, twofold>>

EndBackup(w) ==
    /\ pc[w] = "climb" /\ nodes_mutex_ = w
    /\ at = root /\ ~SetsAboveRoot
    /\ Finish(w)
    /\ UNCHANGED tree

-----------------------------------------------------------------------------
(* NodeTree::ResetToPosition between two searches, to a position of the game. *)

Below(x) == {y \in Nodes : x \in Above[y]}

\* The game goes on from the head, or stays there: seen_old_head.
Continues(x) == x = root \/ root \in Above[x]

\* A mutant of Kept: the new head is not trimmed.
KeptUntrimmed(x) == Above[x] \cup {x} \cup Below(x)

\* The nodes that neither ReleaseChildrenExceptOne nor TrimTreeAtHead gives up.
Kept(x) == Above[x] \cup IF Continues(x) THEN {x} \cup Below(x) ELSE {}

\* MakeMove makes every node it comes to not terminal: it keeps its bounds, and has
\* visits only if it has edges.
NotTerminal(x) == (Above[x] \cup {x}) \ {GameStart}

ResetToPosition ==
    \E x \in Nodes :
        /\ \A w \in Workers : pc[w] = "pick"
        /\ nodes_mutex_ = NoOne
        /\ root' = x
        /\ edges' = edges \cap Kept(x)
        /\ terminal' = (terminal \cap Kept(x)) \ NotTerminal(x)
        /\ twofold' = (twofold \cap Kept(x)) \ NotTerminal(x)
        /\ visited' = {y \in Kept(x) : IF y \in NotTerminal(x) /\ IsTerminal(y)
                                       THEN y \in edges \cup Above[root]
                                       ELSE y \in visited}
        /\ lower_bound_' = [y \in Nodes |-> IF y \in Kept(x) THEN lower_bound_[y] ELSE -1]
        /\ upper_bound_' = [y \in Nodes |-> IF y \in Kept(x) THEN upper_bound_[y] ELSE 1]
        /\ UNCHANGED <<pc, leaf, climb>>

Step(w) ==
    \/ Pick(w) \/ PickTwoFold(w) \/ CreateEdges(w) \/ MakeTwoFold(w)
    \/ MakeTerminalLower(w) \/ MakeTerminalUpper(w) \/ MakeTerminalType(w)
    \/ StartBackup(w) \/ ClimbAndSet(w) \/ ClimbPast(w)
    \/ EndAboveRoot(w) \/ EndBackup(w)

Next == ResetToPosition \/ \E w \in Workers : Step(w)

Spec == Init /\ [][Next]_vars

-----------------------------------------------------------------------------
(* Properties. *)

\* Every variable has its type.
TypeOK ==
    /\ root \in Nodes
    /\ edges \subseteq Nodes /\ visited \subseteq Nodes
    /\ terminal \subseteq Nodes /\ twofold \subseteq Nodes
    /\ lower_bound_ \in [Nodes -> GameResult]
    /\ upper_bound_ \in [Nodes -> GameResult]
    /\ pc \in [Workers -> {"pick", "extend", "upper", "type", "backup", "climb"}]
    /\ leaf \in [Workers -> Nodes]
    /\ nodes_mutex_ \in Workers \cup {NoOne}
    /\ at \in Nodes
    /\ update_parent_bounds \in BOOLEAN

\* The nodes of the current search.
Searched == {root} \cup Below(root)

\* The result of perfect play lies between the bounds of every node of the search,
\* also while a leaf is half written and read by a climb of another worker.  The
\* wrong bounds a root without moves leaves on its parent never get there: going
\* back to the parent trims it.
BoundsSound == \A x \in Searched : lower_bound_[x] <= Value[x] /\ Value[x] <= upper_bound_[x]

\* A node of the search that MaybeSetBounds or ExtendNode made terminal has the
\* result of perfect play, so the search loses nothing by never going below it.
TerminalExact ==
    \A x \in terminal \cap Searched : lower_bound_[x] = Value[x] /\ upper_bound_[x] = Value[x]

Tightens ==
    Continues(root') => \A x \in Searched' : /\ lower_bound_[x] <= lower_bound_'[x]
                                            /\ upper_bound_'[x] <= upper_bound_[x]

\* No step of any worker widens the bounds of a node of the search, and neither
\* does going on with the game: what an earlier search proved is kept.
BoundsOnlyTighten == [][Tightens]_vars

\* When no backup is due, no update got lost between workers: all nodes below
\* the root have the bounds their children imply, and those that are decided
\* are terminal.
BoundsComplete ==
    (StickyEndgames /\ \A w \in Workers : pc[w] \in {"pick", "extend"}) =>
        \A p \in edges : (root \in Above[p] /\ Children(p) # {}) =>
            /\ lower_bound_[p] = NewLower(Children(p))
            /\ upper_bound_[p] = NewUpper(Children(p))
            /\ lower_bound_[p] = upper_bound_[p] => IsTerminal(p)
=============================================================================
