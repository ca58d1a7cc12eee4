---------------------------- MODULE BoundsProofs ----------------------------
(***************************************************************************)
(* For every game tree and number of workers: bounds are sound, only       *)
(* tighten, no update of them gets lost, and what is terminal is decided.  *)
(***************************************************************************)
EXTENDS Bounds, TLAPS

\* x is below the root, past nodes with edges.
OnPath(x) ==
    /\ x = root \/ root \in Above[x]
    /\ \A a \in Above[x] : root \in Above[a] => a \in edges

\* Claimed leaves and the node a climb has reached are below the root.
Paths ==
    /\ \A w \in Workers : pc[w] # "pick" => OnPath(leaf[w])
    /\ nodes_mutex_ # NoOne => OnPath(at)

\* Below the root, no node with edges is one where the game is over.
EdgesLive == \A a \in edges : root \in Above[a] => a \notin GameOver

\* A half-written leaf is one where the game is over.
Writing ==
    \A w \in Workers :
        /\ pc[w] \in {"upper", "type"} =>
               leaf[w] \in GameOver /\ lower_bound_[leaf[w]] = Value[leaf[w]]
        /\ pc[w] = "type" => upper_bound_[leaf[w]] = Value[leaf[w]]

\* Below the root, the bounds of a node lag behind what its children imply.
Lag ==
    \A p \in Below(root) \ GameOver : Children(p) # {} =>
        lower_bound_[p] <= NewLower(Children(p)) /\ NewUpper(Children(p)) <= upper_bound_[p]

\* The inductive invariant.
IInv == TypeOK /\ BoundsSound /\ TerminalExact /\ Paths /\ EdgesLive /\ Writing /\ Lag

\* A step of a search.
Stepping == (\E w \in Workers : Step(w)) \/ UNCHANGED vars

\* What a step of a search may do to the bounds.
Tight ==
    \A x \in Searched : /\ lower_bound_[x] <= lower_bound_'[x]
                        /\ upper_bound_'[x] <= upper_bound_[x]
FromChildren ==
    \A p \in Below(root) \ GameOver : Children(p) # {} =>
        /\ lower_bound_'[p] \in {lower_bound_[p], NewLower(Children(p))}
        /\ upper_bound_'[p] \in {upper_bound_[p], NewUpper(Children(p))}

-----------------------------------------------------------------------------
(* Facts about Best. *)

\* Best is a result, at least that of every child, and that of one of them.
LEMMA BestIsMax ==
    ASSUME NEW bound \in [Nodes -> GameResult], NEW S \in SUBSET Nodes
    PROVE  /\ Best(bound, S) \in GameResult
           /\ \A c \in S : bound[c] <= Best(bound, S)
           /\ S # {} => \E c \in S : bound[c] = Best(bound, S)
<1>1. \A c \in S : c \in Nodes /\ bound[c] \in {-1, 0, 1}
  BY DEF GameResult
<1>2. CASE \E c \in S : bound[c] = 1
  BY <1>1, <1>2 DEF Best, GameResult
<1>3. CASE (~\E c \in S : bound[c] = 1) /\ \E c \in S : bound[c] = 0
  <2>1. Best(bound, S) = 0  BY <1>3 DEF Best
  <2> QED  BY <1>1, <1>3, <2>1 DEF GameResult
<1>4. CASE (~\E c \in S : bound[c] = 1) /\ ~\E c \in S : bound[c] = 0
  <2>1. Best(bound, S) = -1  BY <1>4 DEF Best
  <2> QED  BY <1>1, <1>4, <2>1 DEF GameResult
<1> QED  BY <1>2, <1>3, <1>4

\* Best is monotonic.
LEMMA BestMonotonic ==
    ASSUME NEW b \in [Nodes -> GameResult], NEW d \in [Nodes -> GameResult],
           NEW S \in SUBSET Nodes, S # {}, \A x \in S : b[x] <= d[x]
    PROVE  Best(b, S) <= Best(d, S)
<1>1. PICK c \in S : b[c] = Best(b, S)  BY BestIsMax
<1>2. d[c] <= Best(d, S)  BY BestIsMax
<1>3. c \in Nodes  OBVIOUS
<1>4. b[c] \in Int /\ d[c] \in Int /\ Best(b, S) \in Int /\ Best(d, S) \in Int
  BY <1>3, BestIsMax DEF GameResult
<1> QED  BY <1>1, <1>2, <1>3, <1>4

\* The children of a node of the search are nodes of the search, below the root.
LEMMA ChildrenSearched ==
    ASSUME NEW p \in Nodes, p = root \/ root \in Above[p], NEW c \in Children(p)
    PROVE  c \in Nodes /\ root \in Above[c] /\ c \in Searched
<1>1. c \in Nodes \ {GameStart} /\ Parent[c] = p  BY DEF Children
<1>2. Above[c] = {Parent[c]} \cup Above[Parent[c]]  BY <1>1, BoundsAssumption
<1> QED  BY <1>1, <1>2 DEF Searched, Below

\* What sound bounds of the children imply is sound.
LEMMA ImpliedSound ==
    ASSUME TypeOK, BoundsSound, NEW p \in Below(root) \ GameOver, Children(p) # {}
    PROVE  NewLower(Children(p)) <= Value[p] /\ Value[p] <= NewUpper(Children(p))
<1> Value \in [Nodes -> GameResult]  BY BoundsAssumption
<1> p \in Nodes \ GameOver /\ root \in Above[p] /\ Children(p) \in SUBSET Nodes
  BY DEF Below, Children
<1>1. PICK c \in Children(p) : Value[c] = -Value[p]  BY BoundsAssumption
<1>2. PICK e \in Children(p) : lower_bound_[e] = Best(lower_bound_, Children(p))
  BY BestIsMax DEF TypeOK
<1>3. upper_bound_[c] <= Best(upper_bound_, Children(p))  BY BestIsMax DEF TypeOK
<1>4. Value[e] <= -Value[p]  BY BoundsAssumption
<1>5. c \in Nodes /\ e \in Nodes  BY DEF Children
<1>6. Value[c] <= upper_bound_[c] /\ lower_bound_[e] <= Value[e]
  BY ChildrenSearched DEF BoundsSound
<1>7. /\ Value[c] \in Int /\ Value[e] \in Int /\ Value[p] \in Int
      /\ upper_bound_[c] \in Int /\ lower_bound_[e] \in Int
      /\ Best(upper_bound_, Children(p)) \in Int
  BY <1>5, BestIsMax DEF TypeOK, GameResult
<1> QED  BY <1>1, <1>2, <1>3, <1>4, <1>6, <1>7 DEF NewLower, NewUpper

\* NewLower and NewUpper are results.
LEMMA NewInType ==
    ASSUME TypeOK, NEW S \in SUBSET Nodes
    PROVE  NewLower(S) \in GameResult /\ NewUpper(S) \in GameResult
BY BestIsMax DEF TypeOK, NewLower, NewUpper, GameResult

-----------------------------------------------------------------------------

\* The parent of the node a climb has reached, if it is not the root, is an
\* inner node of the game.
LEMMA ParentIsInner ==
    ASSUME IInv, nodes_mutex_ # NoOne, at # root
    PROVE  /\ at \in Nodes \ {GameStart}
           /\ Parent[at] \in Nodes /\ OnPath(Parent[at])
           /\ Parent[at] # root =>
                  /\ Parent[at] \in Below(root) \ GameOver
                  /\ Children(Parent[at]) # {}
<1> USE BoundsAssumption DEF IInv
<1> DEFINE p == Parent[at]
<1>1. OnPath(at) /\ at \in Nodes  BY DEF Paths, TypeOK
<1>2. root \in Above[at]  BY <1>1 DEF OnPath
<1>3. at # GameStart  BY <1>2
<1>4. p \in Nodes /\ at \in Children(p)  BY <1>1, <1>3 DEF Children
<1>5. Above[at] = {p} \cup Above[p]  BY <1>1, <1>3
<1>6. OnPath(p)  BY <1>1, <1>2, <1>5 DEF OnPath
<1>7. ASSUME p # root PROVE p \in Below(root) \ GameOver
  <2>1. root \in Above[p]  BY <1>2, <1>5, <1>7
  <2>2. p \in edges  BY <1>1, <1>5, <2>1 DEF OnPath
  <2> QED  BY <1>4, <2>1, <2>2 DEF EdgesLive, Below
<1> QED  BY <1>1, <1>3, <1>4, <1>6, <1>7

\* No step of a worker changes the root.
LEMMA RootStays ==
    ASSUME Stepping
    PROVE  UNCHANGED root
BY DEF Stepping, Step, vars, tree, Pick, PickTwoFold, CreateEdges, MakeTwoFold,
       MakeTerminalLower, MakeTerminalUpper, MakeTerminalType, StartBackup, ClimbAndSet,
       ClimbPast, EndAboveRoot, EndBackup

\* The parent of the root is no node of the search.
LEMMA ParentAbove ==
    ASSUME root \in Nodes, root # GameStart
    PROVE  /\ Parent[root] \in Nodes \ Searched
           /\ ParentEdges \in SUBSET Nodes
<1>1. Parent[root] \in Nodes /\ Above[root] = {Parent[root]} \cup Above[Parent[root]]
  BY BoundsAssumption
<1>2. root \notin Above[root]  BY BoundsAssumption
<1>3. Parent[root] \notin Searched  BY <1>1, <1>2, BoundsAssumption DEF Searched, Below
<1> QED  BY <1>1, <1>3 DEF ParentEdges, Children

\* A step keeps the types.
LEMMA TypeStep ==
    ASSUME IInv, Stepping
    PROVE  TypeOK'
<1> GameStart \in Nodes /\ Value \in [Nodes -> GameResult] /\ NoOne \notin Workers
  BY BoundsAssumption DEF NoOne
<1> TypeOK  BY DEF IInv
<1>1. CASE UNCHANGED vars  BY <1>1 DEF vars, tree, climb, TypeOK
<1>3. ASSUME NEW w \in Workers, Pick(w) PROVE TypeOK'
  BY <1>3 DEF Pick, TypeOK, tree, climb, Goto
<1>4. ASSUME NEW w \in Workers, PickTwoFold(w) PROVE TypeOK'
  BY <1>4 DEF PickTwoFold, TypeOK, climb, Goto
<1>5. ASSUME NEW w \in Workers, CreateEdges(w) PROVE TypeOK'
  BY <1>5 DEF CreateEdges, TypeOK, climb, Goto
<1>6. ASSUME NEW w \in Workers, MakeTwoFold(w) PROVE TypeOK'
  BY <1>6 DEF MakeTwoFold, TypeOK, climb, Goto
<1>7. ASSUME NEW w \in Workers, MakeTerminalLower(w) PROVE TypeOK'
  BY <1>7 DEF MakeTerminalLower, TypeOK, climb, Goto
<1>8. ASSUME NEW w \in Workers, MakeTerminalUpper(w) PROVE TypeOK'
  BY <1>8 DEF MakeTerminalUpper, TypeOK, climb, Goto
<1>9. ASSUME NEW w \in Workers, MakeTerminalType(w) PROVE TypeOK'
  BY <1>9 DEF MakeTerminalType, TypeOK, climb, Goto
<1>10. ASSUME NEW w \in Workers, StartBackup(w) PROVE TypeOK'
  BY <1>10 DEF StartBackup, TypeOK, climb, Goto
<1>11. ASSUME NEW w \in Workers, ClimbAndSet(w) PROVE TypeOK'
  <2>1. Parent[at] \in Nodes  BY <1>11, ParentIsInner DEF ClimbAndSet
  <2>2. NewLower(Children(Parent[at])) \in GameResult /\ NewUpper(Children(Parent[at])) \in GameResult
    BY <2>1, NewInType DEF Children
  <2> QED  BY <1>11, <2>1, <2>2 DEF ClimbAndSet, SetBounds, TypeOK
<1>12. ASSUME NEW w \in Workers, ClimbPast(w) PROVE TypeOK'
  <2>1. Parent[at] \in Nodes  BY <1>12, ParentIsInner DEF ClimbPast
  <2> QED  BY <1>12, <2>1 DEF ClimbPast, TypeOK, tree
<1>13. ASSUME NEW w \in Workers, EndBackup(w) PROVE TypeOK'
  BY <1>13 DEF EndBackup, Finish, TypeOK, tree, Goto
<1>14. ASSUME NEW w \in Workers, EndAboveRoot(w) PROVE TypeOK'
  <2>1. root \in Nodes /\ root # GameStart
    BY <1>14 DEF EndAboveRoot, SetsAboveRoot, TypeOK
  <2>2. NewLower(ParentEdges) \in GameResult /\ NewUpper(ParentEdges) \in GameResult
    BY <2>1, ParentAbove, NewInType
  <2> QED
    BY <1>14, <2>1, <2>2, ParentAbove DEF EndAboveRoot, SetBounds, Finish, TypeOK, Goto
<1> QED
  BY <1>1, <1>3, <1>4, <1>5, <1>6, <1>7, <1>8, <1>9, <1>10, <1>11, <1>12, <1>13,
     <1>14
  DEF Stepping, Step

\* A step tightens bounds, soundly; it sets those of an inner node to what its
\* children imply.
LEMMA BoundsStep ==
    ASSUME IInv, Stepping
    PROVE  Tight /\ FromChildren /\ BoundsSound'
<1> Value \in [Nodes -> GameResult] /\ NoOne \notin Workers
  BY BoundsAssumption DEF NoOne
<1> TypeOK /\ BoundsSound /\ Writing  BY DEF IInv
<1> Searched \subseteq Nodes /\ Below(root) \subseteq Nodes  BY DEF TypeOK, Searched, Below
<1>0. Searched' = Searched  BY RootStays DEF Searched, Below
<1> USE <1>0
<1>1. ASSUME UNCHANGED <<lower_bound_, upper_bound_>>
      PROVE  Tight /\ FromChildren /\ BoundsSound'
  BY <1>1 DEF Tight, FromChildren, BoundsSound, TypeOK, GameResult
<1>2. ASSUME NEW w \in Workers, MakeTerminalLower(w)
      PROVE  Tight /\ FromChildren /\ BoundsSound'
  <2>1. leaf[w] \in GameOver \cap Nodes  BY <1>2 DEF MakeTerminalLower, Over, TypeOK
  <2>2. Tight  BY <1>2, <2>1 DEF MakeTerminalLower, Tight, BoundsSound, TypeOK, GameResult
  <2>3. FromChildren  BY <1>2, <2>1 DEF MakeTerminalLower, FromChildren, TypeOK
  <2>4. BoundsSound'
    BY <1>2, <2>1 DEF MakeTerminalLower, BoundsSound, TypeOK, GameResult
  <2> QED  BY <2>2, <2>3, <2>4
<1>3. ASSUME NEW w \in Workers, MakeTerminalUpper(w)
      PROVE  Tight /\ FromChildren /\ BoundsSound'
  <2>1. leaf[w] \in GameOver \cap Nodes  BY <1>3 DEF MakeTerminalUpper, Writing, TypeOK
  <2>2. Tight  BY <1>3, <2>1 DEF MakeTerminalUpper, Tight, BoundsSound, TypeOK, GameResult
  <2>3. FromChildren  BY <1>3, <2>1 DEF MakeTerminalUpper, FromChildren, TypeOK
  <2>4. BoundsSound'
    BY <1>3, <2>1 DEF MakeTerminalUpper, BoundsSound, TypeOK, GameResult
  <2> QED  BY <2>2, <2>3, <2>4
<1>4. ASSUME NEW w \in Workers, ClimbAndSet(w)
      PROVE  Tight /\ FromChildren /\ BoundsSound'
  <2> DEFINE p == Parent[at]
  <2>1. p \in Nodes /\ p \in Below(root) \ GameOver /\ Children(p) # {}
    BY <1>4, ParentIsInner DEF ClimbAndSet, MaySet
  <2>2. NewLower(Children(p)) \in GameResult /\ NewUpper(Children(p)) \in GameResult  BY <2>1, NewInType DEF Children
  <2>3. NewLower(Children(p)) <= Value[p] /\ Value[p] <= NewUpper(Children(p))  BY <2>1, ImpliedSound
  <2>4. lower_bound_[p] <= NewLower(Children(p)) /\ NewUpper(Children(p)) <= upper_bound_[p]
    BY <2>1 DEF IInv, Lag
  <2>5. /\ lower_bound_' = [lower_bound_ EXCEPT ![p] = NewLower(Children(p))]
        /\ upper_bound_' = [upper_bound_ EXCEPT ![p] = NewUpper(Children(p))]
    BY <1>4 DEF ClimbAndSet, SetBounds
  <2> HIDE DEF p
  <2>6. Tight  BY <2>1, <2>2, <2>4, <2>5 DEF Tight, TypeOK, GameResult
  <2>7. FromChildren  BY <2>1, <2>5 DEF FromChildren, TypeOK
  <2>8. BoundsSound'  BY <2>1, <2>2, <2>3, <2>5 DEF BoundsSound, TypeOK, GameResult
  <2> QED  BY <2>6, <2>7, <2>8
<1>5. CASE UNCHANGED vars  BY <1>1, <1>5 DEF vars, tree
<1>6. ASSUME NEW w \in Workers, EndAboveRoot(w)
      PROVE  Tight /\ FromChildren /\ BoundsSound'
  <2>1. root \in Nodes /\ root # GameStart
    BY <1>6 DEF EndAboveRoot, SetsAboveRoot, TypeOK
  <2>2. \A x \in Searched : lower_bound_'[x] = lower_bound_[x]
                            /\ upper_bound_'[x] = upper_bound_[x]
    BY <1>6, <2>1, ParentAbove DEF EndAboveRoot, SetBounds, TypeOK
  <2>3. Below(root) \subseteq Searched  BY DEF Searched
  <2> QED  BY <2>2, <2>3 DEF Tight, FromChildren, BoundsSound, TypeOK, GameResult
<1>7. ASSUME NEW w \in Workers,
             \/ Pick(w) \/ PickTwoFold(w) \/ CreateEdges(w) \/ MakeTwoFold(w)
             \/ MakeTerminalType(w) \/ StartBackup(w) \/ ClimbPast(w) \/ EndBackup(w)
      PROVE  UNCHANGED <<lower_bound_, upper_bound_>>
  BY <1>7 DEF Pick, PickTwoFold, CreateEdges, MakeTwoFold, MakeTerminalType, StartBackup,
              ClimbPast, EndBackup, tree
<1> QED  BY <1>1, <1>2, <1>3, <1>4, <1>5, <1>6, <1>7 DEF Stepping, Step

\* Bounds keep lagging behind, because those of the children only tighten.
LEMMA LagStep ==
    ASSUME IInv, TypeOK', Tight, FromChildren, UNCHANGED root
    PROVE  Lag'
<1> TypeOK /\ Lag  BY DEF IInv
<1> SUFFICES ASSUME NEW p \in Below(root) \ GameOver, Children(p) # {}
             PROVE  lower_bound_'[p] <= NewLower(Children(p))' /\ NewUpper(Children(p))' <= upper_bound_'[p]
  BY DEF Lag, Children, Below
<1> p \in Nodes /\ root \in Above[p] /\ Children(p) \in SUBSET Nodes  BY DEF Below, Children
<1>0. \A c \in Children(p) : c \in Searched  BY ChildrenSearched
<1>1. NewLower(Children(p))' = -Best(upper_bound_', Children(p)) /\ NewUpper(Children(p))' = -Best(lower_bound_', Children(p))
  BY DEF NewLower, NewUpper, Best, Children
<1>2. Best(upper_bound_', Children(p)) <= Best(upper_bound_, Children(p))
  BY <1>0, BestMonotonic DEF Tight, TypeOK
<1>3. Best(lower_bound_, Children(p)) <= Best(lower_bound_', Children(p))
  BY <1>0, BestMonotonic DEF Tight, TypeOK
<1>4. /\ Best(upper_bound_', Children(p)) \in Int /\ Best(upper_bound_, Children(p)) \in Int
      /\ Best(lower_bound_', Children(p)) \in Int /\ Best(lower_bound_, Children(p)) \in Int
  BY BestIsMax DEF TypeOK, GameResult
<1>5. lower_bound_[p] \in Int /\ upper_bound_[p] \in Int  BY DEF TypeOK, GameResult
<1>6. lower_bound_[p] <= NewLower(Children(p)) /\ NewUpper(Children(p)) <= upper_bound_[p]  BY DEF Lag
<1>7. /\ lower_bound_'[p] \in {lower_bound_[p], NewLower(Children(p))}
      /\ upper_bound_'[p] \in {upper_bound_[p], NewUpper(Children(p))}
  BY DEF FromChildren
<1> QED  BY <1>1, <1>2, <1>3, <1>4, <1>5, <1>6, <1>7 DEF NewLower, NewUpper

\* Bounds that are exact stay so.
LEMMA ExactStays ==
    ASSUME TypeOK, TypeOK', Tight, BoundsSound', UNCHANGED root, NEW x \in Searched
    PROVE  /\ lower_bound_[x] = Value[x] => lower_bound_'[x] = Value[x]
           /\ upper_bound_[x] = Value[x] => upper_bound_'[x] = Value[x]
<1>1. /\ lower_bound_[x] <= lower_bound_'[x] /\ upper_bound_'[x] <= upper_bound_[x]
      /\ lower_bound_'[x] <= Value[x] /\ Value[x] <= upper_bound_'[x]
  BY DEF Tight, BoundsSound, Searched, Below
<1>2. /\ lower_bound_[x] \in Int /\ lower_bound_'[x] \in Int
      /\ upper_bound_[x] \in Int /\ upper_bound_'[x] \in Int /\ Value[x] \in Int
  <2>1. x \in Nodes  BY DEF Searched, Below, TypeOK
  <2>2. Value[x] \in GameResult  BY <2>1, BoundsAssumption
  <2> QED  BY <2>1, <2>2 DEF TypeOK, GameResult
<1> QED  BY <1>1, <1>2

\* Terminal nodes and half-written leaves stay exact.
LEMMA ExactStep ==
    ASSUME IInv, Stepping, TypeOK', Tight, BoundsSound', UNCHANGED root
    PROVE  TerminalExact' /\ Writing'
<1> Value \in [Nodes -> GameResult] /\ NoOne \notin Workers
  BY BoundsAssumption DEF NoOne
<1> TypeOK /\ BoundsSound /\ TerminalExact /\ Writing  BY DEF IInv
<1> terminal \subseteq Nodes /\ \A w \in Workers : leaf[w] \in Nodes  BY DEF TypeOK
<1> Searched' = Searched /\ Searched \subseteq Nodes  BY DEF Searched, Below, TypeOK
<1>0. \A w \in Workers : pc[w] # "pick" => leaf[w] \in Searched
  BY DEF IInv, Paths, OnPath, Searched, Below
<1>1. ASSUME terminal' \subseteq terminal PROVE TerminalExact'
  BY <1>1, ExactStays DEF TerminalExact
<1>2. ASSUME NEW w \in Workers,
             leaf'[w] = leaf[w] \/ pc'[w] \notin {"upper", "type"},
             pc'[w] \in {"upper", "type"} =>
                 leaf[w] \in GameOver /\ lower_bound_'[leaf[w]] = Value[leaf[w]],
             pc'[w] = "type" => upper_bound_'[leaf[w]] = Value[leaf[w]],
             \A v \in Workers \ {w} : pc'[v] = pc[v] /\ leaf'[v] = leaf[v]
      PROVE  Writing'
  BY <1>0, <1>2, ExactStays DEF Writing
<1>3. CASE UNCHANGED vars
  BY <1>3 DEF vars, tree, climb, TerminalExact, Writing
<1>4. ASSUME NEW w \in Workers, EndAboveRoot(w) PROVE TerminalExact' /\ Writing'
  <2>1. root \in Nodes /\ root # GameStart
    BY <1>4 DEF EndAboveRoot, SetsAboveRoot, TypeOK
  <2>2. terminal' \cap Searched \subseteq terminal
    BY <1>4, <2>1, ParentAbove DEF EndAboveRoot, SetBounds
  <2>3. TerminalExact'  BY <2>2, ExactStays DEF TerminalExact
  <2>4. Writing'  BY <1>2, <1>4 DEF EndAboveRoot, Finish, Goto, TypeOK
  <2> QED  BY <2>3, <2>4
<1>5. ASSUME NEW w \in Workers, Pick(w) PROVE TerminalExact' /\ Writing'
  BY <1>1, <1>2, <1>5 DEF Pick, Goto, tree, TypeOK
<1>6. ASSUME NEW w \in Workers, PickTwoFold(w) PROVE TerminalExact' /\ Writing'
  BY <1>1, <1>2, <1>6 DEF PickTwoFold, Goto, TypeOK
<1>7. ASSUME NEW w \in Workers, CreateEdges(w) PROVE TerminalExact' /\ Writing'
  BY <1>1, <1>2, <1>7 DEF CreateEdges, Goto, TypeOK
<1>8. ASSUME NEW w \in Workers, MakeTwoFold(w) PROVE TerminalExact' /\ Writing'
  BY <1>1, <1>2, <1>8 DEF MakeTwoFold, Goto, TypeOK
<1>9. ASSUME NEW w \in Workers, MakeTerminalLower(w) PROVE TerminalExact' /\ Writing'
  <2>1. leaf[w] \in GameOver /\ lower_bound_'[leaf[w]] = Value[leaf[w]]
    BY <1>9 DEF MakeTerminalLower, Over, TypeOK
  <2> QED  BY <1>1, <1>2, <1>9, <2>1 DEF MakeTerminalLower, Goto, TypeOK
<1>10. ASSUME NEW w \in Workers, MakeTerminalUpper(w) PROVE TerminalExact' /\ Writing'
  <2>1. /\ leaf[w] \in GameOver
        /\ lower_bound_'[leaf[w]] = Value[leaf[w]] /\ upper_bound_'[leaf[w]] = Value[leaf[w]]
    BY <1>10 DEF MakeTerminalUpper, Writing, TypeOK
  <2> QED  BY <1>1, <1>2, <1>10, <2>1 DEF MakeTerminalUpper, Goto, TypeOK
<1>11. ASSUME NEW w \in Workers, MakeTerminalType(w) PROVE TerminalExact' /\ Writing'
  <2>1. TerminalExact'
    BY <1>11 DEF MakeTerminalType, TerminalExact, Writing
  <2> QED  BY <1>2, <1>11, <2>1 DEF MakeTerminalType, Goto, TypeOK
<1>12. ASSUME NEW w \in Workers, StartBackup(w) PROVE TerminalExact' /\ Writing'
  BY <1>1, <1>2, <1>12 DEF StartBackup, Goto, TypeOK
<1>13. ASSUME NEW w \in Workers, ClimbAndSet(w) PROVE TerminalExact' /\ Writing'
  <2> DEFINE p == Parent[at]
  <2>1. p \in Nodes /\ p \in Below(root) \ GameOver /\ Children(p) # {}
    BY <1>13, ParentIsInner DEF ClimbAndSet, MaySet
  <2>2. NewLower(Children(p)) <= Value[p] /\ Value[p] <= NewUpper(Children(p))  BY <2>1, ImpliedSound
  <2>3. NewLower(Children(p)) \in GameResult /\ NewUpper(Children(p)) \in GameResult  BY <2>1, NewInType DEF Children
  <2>4. Decided(Children(p)) => lower_bound_'[p] = Value[p] /\ upper_bound_'[p] = Value[p]
    BY <1>13, <2>1, <2>2, <2>3 DEF ClimbAndSet, SetBounds, Decided, TypeOK, GameResult
  <2>5. terminal' = IF Decided(Children(p)) THEN terminal \cup {p} ELSE terminal
    BY <1>13 DEF ClimbAndSet, SetBounds
  <2>6. TerminalExact'  BY <2>4, <2>5, ExactStays DEF TerminalExact
  <2>7. Writing'
    BY <1>0, <1>2, <1>13, ExactStays DEF ClimbAndSet, Writing, TypeOK
  <2> QED  BY <2>6, <2>7
<1>14. ASSUME NEW w \in Workers, ClimbPast(w) PROVE TerminalExact' /\ Writing'
  BY <1>1, <1>2, <1>14 DEF ClimbPast, tree, TypeOK
<1>15. ASSUME NEW w \in Workers, EndBackup(w) PROVE TerminalExact' /\ Writing'
  BY <1>1, <1>2, <1>15 DEF EndBackup, Finish, Goto, tree, TypeOK
<1> QED
  BY <1>3, <1>4, <1>5, <1>6, <1>7, <1>8, <1>9, <1>10, <1>11, <1>12, <1>13, <1>14, <1>15
  DEF Stepping, Step

\* What is below the root stays so while a search runs.
LEMMA PathsStep ==
    ASSUME IInv, Stepping
    PROVE  Paths' /\ EdgesLive'
<1> NoOne \notin Workers  BY BoundsAssumption DEF NoOne
<1> TypeOK /\ Paths /\ EdgesLive  BY DEF IInv
<1>1. ASSUME root' = root, edges \subseteq edges', NEW x, OnPath(x) PROVE OnPath(x)'
  BY <1>1 DEF OnPath
<1>2. ASSUME root' = root, edges' = edges PROVE EdgesLive'
  BY <1>2 DEF EdgesLive
<1>3. ASSUME root' = root, edges \subseteq edges', UNCHANGED leaf,
             UNCHANGED <<nodes_mutex_, at>>,
             \A w \in Workers : pc[w] = "pick" => pc'[w] = "pick"
      PROVE  Paths'
  BY <1>1, <1>3 DEF Paths
<1>4. ASSUME NEW w \in Workers, NEW x \in Nodes, Reachable(x),
             UNCHANGED <<root, edges>>, UNCHANGED climb,
             leaf' = [leaf EXCEPT ![w] = x], Goto(w, "extend")
      PROVE  Paths'
  <2>1. OnPath(x)  BY <1>4 DEF Reachable, Path, Passable, OnPath
  <2> QED  BY <1>1, <1>4, <2>1 DEF Paths, climb, Goto, TypeOK
<1>5. CASE UNCHANGED vars  BY <1>2, <1>3, <1>5 DEF vars, tree, climb
<1>7. ASSUME NEW w \in Workers, Pick(w) PROVE Paths' /\ EdgesLive'
  <2>1. UNCHANGED <<root, edges>>  BY <1>7 DEF Pick, tree
  <2> QED  BY <1>2, <1>4, <1>7, <2>1 DEF Pick
<1>8. ASSUME NEW w \in Workers, PickTwoFold(w) PROVE Paths' /\ EdgesLive'
  <2>1. UNCHANGED <<root, edges>>  BY <1>8 DEF PickTwoFold
  <2>2. PICK x \in twofold : Reachable(x) /\ leaf' = [leaf EXCEPT ![w] = x]
    BY <1>8 DEF PickTwoFold
  <2>3. Goto(w, "extend") /\ UNCHANGED climb  BY <1>8 DEF PickTwoFold
  <2>4. x \in Nodes  BY DEF TypeOK
  <2> QED  BY <1>2, <1>4, <2>1, <2>2, <2>3, <2>4
<1>9. ASSUME NEW w \in Workers, CreateEdges(w) PROVE Paths' /\ EdgesLive'
  <2>1. Paths'  BY <1>3, <1>9 DEF CreateEdges, climb, Goto, TypeOK
  <2>2. leaf[w] \in GameOver => leaf[w] = root  BY <1>9 DEF CreateEdges, Over
  <2>3. root \notin Above[root]  BY BoundsAssumption DEF TypeOK
  <2> QED  BY <1>9, <2>1, <2>2, <2>3 DEF CreateEdges, EdgesLive
<1>10. ASSUME NEW w \in Workers,
              \/ MakeTwoFold(w) \/ MakeTerminalLower(w) \/ MakeTerminalUpper(w)
              \/ MakeTerminalType(w)
       PROVE  Paths' /\ EdgesLive'
  BY <1>2, <1>3, <1>10 DEF MakeTwoFold, MakeTerminalLower, MakeTerminalUpper,
                           MakeTerminalType, climb, Goto, TypeOK
<1>11. ASSUME NEW w \in Workers, StartBackup(w) PROVE Paths' /\ EdgesLive'
  <2>1. OnPath(leaf[w])  BY <1>11 DEF StartBackup, Paths
  <2>2. Paths'  BY <1>1, <1>11, <2>1 DEF StartBackup, Paths, Goto, TypeOK
  <2> QED  BY <1>2, <1>11, <2>2 DEF StartBackup
<1>12. ASSUME NEW w \in Workers, ClimbAndSet(w) \/ ClimbPast(w) PROVE Paths' /\ EdgesLive'
  <2>1. /\ nodes_mutex_ # NoOne /\ at # root /\ at' = Parent[at]
        /\ UNCHANGED <<root, edges, pc, leaf, nodes_mutex_>>
    BY <1>12 DEF ClimbAndSet, ClimbPast, tree
  <2>2. OnPath(Parent[at])  BY <2>1, ParentIsInner
  <2> QED  BY <1>1, <1>2, <2>1, <2>2 DEF Paths
<1>13. ASSUME NEW w \in Workers, EndBackup(w) \/ EndAboveRoot(w) PROVE Paths' /\ EdgesLive'
  <2>1. UNCHANGED <<root, edges>>  BY <1>13 DEF EndBackup, EndAboveRoot, tree
  <2>2. Finish(w)  BY <1>13 DEF EndBackup, EndAboveRoot
  <2>3. Paths'  BY <1>1, <2>1, <2>2 DEF Finish, Paths, Goto, TypeOK
  <2> QED  BY <1>2, <2>1, <2>3
<1> QED
  BY <1>5, <1>7, <1>8, <1>9, <1>10, <1>11, <1>12, <1>13 DEF Stepping, Step

-----------------------------------------------------------------------------

\* The inductive invariant holds at the start.
LEMMA BoundsInit == Init => IInv
<1> SUFFICES ASSUME Init PROVE IInv  OBVIOUS
<1> GameStart \in Nodes /\ Value \in [Nodes -> GameResult]  BY BoundsAssumption
<1>1. TypeOK
  <2>1. lower_bound_ \in [Nodes -> GameResult] /\ upper_bound_ \in [Nodes -> GameResult]
    BY DEF Init, GameResult
  <2>2. update_parent_bounds \in BOOLEAN /\ nodes_mutex_ = NoOne  BY DEF Init
  <2> QED  BY <2>1, <2>2 DEF Init, TypeOK
<1>2. BoundsSound
  <2> SUFFICES ASSUME NEW x \in Nodes
               PROVE  lower_bound_[x] <= Value[x] /\ Value[x] <= upper_bound_[x]
    BY <1>1 DEF BoundsSound, Searched, Below, TypeOK
  <2>1. lower_bound_[x] = -1 /\ upper_bound_[x] = 1  BY DEF Init
  <2>2. Value[x] \in GameResult  OBVIOUS
  <2> QED  BY <2>1, <2>2 DEF GameResult
<1>3. TerminalExact /\ Paths /\ EdgesLive /\ Writing
  BY DEF Init, TerminalExact, Paths, EdgesLive, Writing
<1>4. Lag
  <2> SUFFICES ASSUME NEW p \in Nodes, Children(p) # {}
               PROVE  lower_bound_[p] <= NewLower(Children(p)) /\ NewUpper(Children(p)) <= upper_bound_[p]
    BY DEF Lag, Below
  <2>1. lower_bound_[p] = -1 /\ upper_bound_[p] = 1  BY DEF Init
  <2>2. NewLower(Children(p)) \in GameResult /\ NewUpper(Children(p)) \in GameResult  
    BY <1>1, NewInType DEF Children
  <2> QED  BY <2>1, <2>2 DEF GameResult
<1> QED  BY <1>1, <1>2, <1>3, <1>4 DEF IInv

\* Going on with the game keeps what the search keeps; going elsewhere leaves
\* nothing at the new head.
LEMMA ResetKeeps ==
    ASSUME TypeOK, NEW x \in Nodes
    PROVE  /\ Continues(x) =>
                  /\ {x} \cup Below(x) \subseteq Searched \cap Kept(x)
                  /\ Below(x) \subseteq Below(root)
           /\ ~Continues(x) => ({x} \cup Below(x)) \cap Kept(x) = {}
           /\ Below(x) \cap NotTerminal(x) = {}
<1> USE BoundsAssumption
<1>1. Below(x) \subseteq Nodes  BY DEF Below
<1>2. x \notin Above[x]  OBVIOUS
<1>3. ASSUME NEW y \in Below(x) PROVE y \notin Above[x] /\ y # x
  <2>1. y \in Nodes /\ x \in Above[y]  BY <1>3 DEF Below
  <2>2. y \in Above[x] => Above[y] \subseteq Above[x]  OBVIOUS
  <2> QED  BY <1>2, <2>1, <2>2
<1>4. Below(x) \cap NotTerminal(x) = {}  BY <1>3 DEF NotTerminal
<1>5. ASSUME Continues(x) PROVE Below(x) \subseteq Below(root)
  <2> SUFFICES ASSUME NEW y \in Below(x) PROVE root \in Above[y]  BY <1>1 DEF Below
  <2>1. y \in Nodes /\ x \in Above[y]  BY DEF Below
  <2>2. Above[x] \subseteq Above[y]  BY <2>1
  <2> QED  BY <1>5, <2>1, <2>2 DEF Continues
<1>6. ASSUME Continues(x) PROVE {x} \cup Below(x) \subseteq Searched \cap Kept(x)
  BY <1>5, <1>6 DEF Continues, Searched, Kept, Below
<1>7. ASSUME ~Continues(x) PROVE ({x} \cup Below(x)) \cap Kept(x) = {}
  BY <1>2, <1>3, <1>7 DEF Kept
<1> QED  BY <1>4, <1>5, <1>6, <1>7

\* Setting up a position of the game preserves the inductive invariant.
LEMMA ResetStep ==
    ASSUME IInv, ResetToPosition
    PROVE  IInv'
<1> GameStart \in Nodes /\ Value \in [Nodes -> GameResult]  BY BoundsAssumption
<1> /\ TypeOK /\ BoundsSound /\ TerminalExact /\ EdgesLive /\ Lag
    /\ lower_bound_ \in [Nodes -> GameResult] /\ upper_bound_ \in [Nodes -> GameResult]
  BY DEF IInv, TypeOK
<1>1. PICK x \in Nodes :
        /\ root' = x
        /\ edges' = edges \cap Kept(x)
        /\ terminal' = (terminal \cap Kept(x)) \ NotTerminal(x)
        /\ twofold' = (twofold \cap Kept(x)) \ NotTerminal(x)
        /\ visited' \subseteq Kept(x)
        /\ lower_bound_' = [y \in Nodes |-> IF y \in Kept(x) THEN lower_bound_[y] ELSE -1]
        /\ upper_bound_' = [y \in Nodes |-> IF y \in Kept(x) THEN upper_bound_[y] ELSE 1]
  BY DEF ResetToPosition
<1>2. (\A w \in Workers : pc[w] = "pick") /\ nodes_mutex_ = NoOne /\ UNCHANGED <<pc, leaf>>
      /\ UNCHANGED climb
  BY DEF ResetToPosition
<1>3. Kept(x) \subseteq Nodes /\ Below(x) \subseteq Nodes
  BY BoundsAssumption DEF Kept, Below
<1>4. Searched' = {x} \cup Below(x) /\ Below(root)' = Below(x)
  BY <1>1 DEF Searched, Below
<1>5. TypeOK'
  <2>1. lower_bound_' \in [Nodes -> GameResult] /\ upper_bound_' \in [Nodes -> GameResult]
    BY <1>1 DEF GameResult
  <2>2. edges' \subseteq Nodes /\ visited' \subseteq Nodes /\ terminal' \subseteq Nodes
        /\ twofold' \subseteq Nodes
    BY <1>1, <1>3 DEF TypeOK
  <2> QED  BY <1>1, <1>2, <2>1, <2>2 DEF TypeOK, climb
<1>6. Paths' /\ Writing'  BY <1>2 DEF Paths, Writing, climb
<1>7. CASE Continues(x)
  <2>1. /\ {x} \cup Below(x) \subseteq Searched \cap Kept(x) /\ Below(x) \subseteq Below(root)
    BY <1>7, ResetKeeps
  <2>2. \A y \in {x} \cup Below(x) : lower_bound_'[y] = lower_bound_[y]
                                     /\ upper_bound_'[y] = upper_bound_[y]
    BY <1>1, <1>3, <2>1
  <2>3. BoundsSound'  BY <1>4, <2>1, <2>2 DEF BoundsSound
  <2>4. TerminalExact'  BY <1>1, <1>4, <2>1, <2>2 DEF TerminalExact
  <2>5. EdgesLive'
    <3> SUFFICES ASSUME NEW y \in edges', x \in Above[y] PROVE y \notin GameOver
      BY <1>1 DEF EdgesLive
    <3>1. y \in edges /\ y \in Nodes  BY <1>1, <1>3
    <3>2. y \in Below(root)  BY <2>1, <3>1 DEF Below
    <3> QED  BY <3>1, <3>2 DEF EdgesLive, Below
  <2>6. Lag'
    <3> SUFFICES ASSUME NEW p \in Below(x) \ GameOver, Children(p) # {}
                 PROVE  lower_bound_'[p] <= NewLower(Children(p))'
                        /\ NewUpper(Children(p))' <= upper_bound_'[p]
      BY <1>4 DEF Lag, Children
    <3>1. \A c \in Children(p) : c \in Below(x)
      <4> SUFFICES ASSUME NEW c \in Children(p) PROVE c \in Below(x)  OBVIOUS
      <4>1. c \in Nodes \ {GameStart} /\ Parent[c] = p  BY DEF Children
      <4>2. Above[c] = {Parent[c]} \cup Above[Parent[c]]  BY <4>1, BoundsAssumption
      <4> QED  BY <4>1, <4>2 DEF Below
    <3>2. NewLower(Children(p))' = NewLower(Children(p))
          /\ NewUpper(Children(p))' = NewUpper(Children(p))
      BY <2>2, <3>1 DEF NewLower, NewUpper, Best, Children
    <3>3. p \in Below(root) \ GameOver  BY <2>1
    <3> QED  BY <2>2, <3>2, <3>3 DEF Lag
  <2> QED  BY <1>5, <1>6, <2>3, <2>4, <2>5, <2>6 DEF IInv
<1>8. CASE ~Continues(x)
  <2>1. ({x} \cup Below(x)) \cap Kept(x) = {}  BY <1>8, ResetKeeps
  <2>2. \A y \in {x} \cup Below(x) : lower_bound_'[y] = -1 /\ upper_bound_'[y] = 1
    BY <1>1, <1>3, <2>1
  <2>3. BoundsSound'
    <3> SUFFICES ASSUME NEW y \in {x} \cup Below(x)
                 PROVE  lower_bound_'[y] <= Value[y] /\ Value[y] <= upper_bound_'[y]
      BY <1>4 DEF BoundsSound
    <3>1. Value[y] \in GameResult  BY <1>3
    <3> QED  BY <2>2, <3>1 DEF GameResult
  <2>4. TerminalExact'  BY <1>1, <1>4, <2>1 DEF TerminalExact
  <2>5. EdgesLive'  BY <1>1, <1>3, <2>1 DEF EdgesLive, Below
  <2>6. Lag'
    <3> SUFFICES ASSUME NEW p \in Below(x)
                 PROVE  lower_bound_'[p] <= NewLower(Children(p))'
                        /\ NewUpper(Children(p))' <= upper_bound_'[p]
      BY <1>4 DEF Lag, Children
    <3>1. NewLower(Children(p))' \in GameResult /\ NewUpper(Children(p))' \in GameResult
      <4>1. Children(p) \in SUBSET Nodes  BY DEF Children
      <4>2. /\ NewLower(Children(p))' = -Best(upper_bound_', Children(p))
            /\ NewUpper(Children(p))' = -Best(lower_bound_', Children(p))
        BY DEF NewLower, NewUpper, Best, Children
      <4>3. Best(upper_bound_', Children(p)) \in GameResult
            /\ Best(lower_bound_', Children(p)) \in GameResult
        BY <1>5, <4>1, BestIsMax DEF TypeOK
      <4> QED  BY <4>2, <4>3 DEF GameResult
    <3> QED  BY <2>2, <3>1 DEF GameResult
  <2> QED  BY <1>5, <1>6, <2>3, <2>4, <2>5, <2>6 DEF IInv
<1> QED  BY <1>7, <1>8

\* A step of the specification is one of a search or sets up a position.
LEMMA NextSplit == [Next]_vars => Stepping \/ ResetToPosition
BY DEF Next, Stepping

\* Every step of a worker and every position of the game preserves the inductive
\* invariant.
THEOREM BoundsInvariance == Spec => []IInv
<1>1. IInv /\ Stepping => IInv'
  BY RootStays, TypeStep, BoundsStep, LagStep, ExactStep, PathsStep DEF IInv
<1>2. IInv /\ [Next]_vars => IInv'  BY <1>1, ResetStep, NextSplit
<1> QED  BY BoundsInit, <1>2, PTL DEF Spec

\* The variables of the search tree and of the workers keep their types.
THEOREM BoundsTypeCorrect == Spec => []TypeOK
<1>1. IInv => TypeOK  BY DEF IInv
<1> QED  BY BoundsInvariance, <1>1, PTL

\* MaybeSetBounds and MakeTerminal never exclude the result of perfect play at or
\* below the root, whatever a root without moves left above it.
THEOREM Soundness == Spec => []BoundsSound
<1>1. IInv => BoundsSound  BY DEF IInv
<1> QED  BY BoundsInvariance, <1>1, PTL

\* What MaybeSetBounds or ExtendNode makes terminal at or below the root is decided.
THEOREM TerminalsAreExact == Spec => []TerminalExact
<1>1. IInv => TerminalExact  BY DEF IInv
<1> QED  BY BoundsInvariance, <1>1, PTL

\* Neither a half-written leaf nor a climb by another worker nor a move of the game
\* widens bounds of the search.
THEOREM Tightening == Spec => BoundsOnlyTighten
<1>1. IInv /\ Stepping => Tightens
  <2> SUFFICES ASSUME IInv, Stepping PROVE Tightens  OBVIOUS
  <2>1. Searched' = Searched  BY RootStays DEF Searched, Below
  <2> QED  BY <2>1, BoundsStep DEF Tight, Tightens
<1>2. IInv /\ ResetToPosition => Tightens
  <2> SUFFICES ASSUME IInv, ResetToPosition, Continues(root'), NEW y \in Searched'
               PROVE  lower_bound_[y] <= lower_bound_'[y] /\ upper_bound_'[y] <= upper_bound_[y]
    BY DEF Tightens
  <2>1. PICK x \in Nodes :
          /\ root' = x
          /\ lower_bound_' = [z \in Nodes |-> IF z \in Kept(x) THEN lower_bound_[z] ELSE -1]
          /\ upper_bound_' = [z \in Nodes |-> IF z \in Kept(x) THEN upper_bound_[z] ELSE 1]
    BY DEF ResetToPosition
  <2>2. y \in {x} \cup Below(x) /\ y \in Nodes  BY <2>1 DEF Searched, Below
  <2>3. y \in Kept(x)  BY <2>1, <2>2, ResetKeeps DEF IInv
  <2>4. lower_bound_[y] \in Int /\ upper_bound_[y] \in Int
    BY <2>2 DEF IInv, TypeOK, GameResult
  <2> QED  BY <2>1, <2>2, <2>3, <2>4
<1>3. IInv /\ [Next]_vars => [Tightens]_vars  BY <1>1, <1>2, NextSplit
<1> QED  BY BoundsInvariance, <1>3, PTL DEF Spec, BoundsOnlyTighten

-----------------------------------------------------------------------------
(* No update gets lost. *)

\* A node that is claimed is claimed by one worker.
Claims ==
    \A v, w \in Workers : (pc[v] # "pick" /\ pc[w] # "pick" /\ leaf[v] = leaf[w]) => v = w

\* The mutex is held by the worker that climbs.
MutexHeld == nodes_mutex_ # NoOne => pc[nodes_mutex_] = "climb"

\* A node with edges or taken for a two-fold draw has been visited or is about to
\* be, is not extended again and not both.
EdgesVisited ==
    /\ \A x \in edges \cup twofold :
           x \in visited \/ \E w \in Workers : pc[w] = "backup" /\ leaf[w] = x
    /\ edges \cap twofold = {}
    /\ \A w \in Workers : pc[w] = "extend" => leaf[w] \notin edges \cup twofold

\* Nothing is known yet below a node without edges.
Untouched ==
    \A p \in Nodes \ edges : root \in Above[p] =>
        \A c \in Children(p) : lower_bound_[c] = -1 /\ upper_bound_[c] = 1

\* The node p is up to date with its children.
Complete(p) ==
    /\ lower_bound_[p] = NewLower(Children(p)) /\ upper_bound_[p] = NewUpper(Children(p))
    /\ lower_bound_[p] = upper_bound_[p] => IsTerminal(p)

\* A worker that makes a child of p terminal has not backed it up yet.
LeafDue(p) ==
    \E w \in Workers :
        /\ leaf[w] \in Children(p)
        /\ pc[w] \in {"upper", "type"} \/ (pc[w] = "backup" /\ leaf[w] \in terminal)

\* The climb will come to p and look at its children.
ClimbDue(p) == nodes_mutex_ # NoOne /\ at \in Children(p) /\ update_parent_bounds

\* A node below the root is up to date, or somebody is about to see to it.
NothingLost ==
    StickyEndgames =>
        \A p \in edges : (root \in Above[p] /\ Children(p) # {}) =>
            Complete(p) \/ LeafDue(p) \/ ClimbDue(p)

\* What BoundsComplete rests on.
UpToDate == Claims /\ MutexHeld /\ EdgesVisited /\ Untouched /\ NothingLost

\* A worker claims what no other has claimed, and the climber keeps the mutex.
LEMMA ClaimsStep ==
    ASSUME IInv, UpToDate, Stepping
    PROVE  Claims' /\ MutexHeld'
<1> NoOne \notin Workers  BY BoundsAssumption DEF NoOne
<1> TypeOK /\ Claims /\ MutexHeld  BY DEF IInv, UpToDate
<1> pc \in [Workers -> {"pick", "extend", "upper", "type", "backup", "climb"}]
    /\ leaf \in [Workers -> Nodes]
  BY DEF TypeOK
<1>1. ASSUME NEW w \in Workers, UNCHANGED leaf, pc[w] # "pick", NEW to, Goto(w, to)
      PROVE  Claims'
  BY <1>1 DEF Claims, Goto
<1>2. ASSUME NEW w \in Workers, pc[w] \notin {"pick", "climb"}, NEW to, Goto(w, to),
             UNCHANGED nodes_mutex_
      PROVE  MutexHeld'
  BY <1>2 DEF MutexHeld, Goto, TypeOK
<1>3. ASSUME NEW w \in Workers, NEW x \in Nodes \ Claimed, leaf' = [leaf EXCEPT ![w] = x],
             pc[w] = "pick", Goto(w, "extend"), UNCHANGED nodes_mutex_
      PROVE  Claims' /\ MutexHeld'
  <2>1. \A v \in Workers \ {w} : pc'[v] = pc[v] /\ leaf'[v] = leaf[v]
    BY <1>3 DEF Goto
  <2>2. leaf'[w] = x  BY <1>3
  <2>3. \A v \in Workers : pc[v] # "pick" => leaf[v] # x  BY <1>3 DEF Claimed
  <2>4. Claims'  BY <2>1, <2>2, <2>3 DEF Claims
  <2>5. MutexHeld'  BY <1>3, <2>1 DEF MutexHeld, TypeOK
  <2> QED  BY <2>4, <2>5
<1>4. CASE UNCHANGED vars  BY <1>4 DEF vars, climb, Claims, MutexHeld
<1>6. ASSUME NEW w \in Workers, Pick(w) PROVE Claims' /\ MutexHeld'
  BY <1>3, <1>6 DEF Pick, climb
<1>7. ASSUME NEW w \in Workers, PickTwoFold(w) PROVE Claims' /\ MutexHeld'
  <2>1. twofold \subseteq Nodes  BY DEF TypeOK
  <2> QED  BY <1>3, <1>7, <2>1 DEF PickTwoFold, climb
<1>8. ASSUME NEW w \in Workers,
             \/ CreateEdges(w) \/ MakeTwoFold(w) \/ MakeTerminalLower(w)
             \/ MakeTerminalUpper(w) \/ MakeTerminalType(w)
      PROVE  Claims' /\ MutexHeld'
  <2>1. /\ UNCHANGED <<leaf, nodes_mutex_>> /\ pc[w] \notin {"pick", "climb"}
        /\ Goto(w, "backup") \/ Goto(w, "upper") \/ Goto(w, "type")
    BY <1>8 DEF CreateEdges, MakeTwoFold, MakeTerminalLower, MakeTerminalUpper,
                MakeTerminalType, climb
  <2> QED  BY <1>1, <1>2, <2>1
<1>9. ASSUME NEW w \in Workers, StartBackup(w) PROVE Claims' /\ MutexHeld'
  <2>1. Claims'  BY <1>1, <1>9 DEF StartBackup
  <2>2. MutexHeld'  BY <1>9 DEF StartBackup, MutexHeld, Goto
  <2> QED  BY <2>1, <2>2
<1>10. ASSUME NEW w \in Workers, ClimbAndSet(w) \/ ClimbPast(w) PROVE Claims' /\ MutexHeld'
  BY <1>10 DEF ClimbAndSet, ClimbPast, Claims, MutexHeld
<1>11. ASSUME NEW w \in Workers, EndBackup(w) \/ EndAboveRoot(w) PROVE Claims' /\ MutexHeld'
  <2>1. Finish(w)  BY <1>11 DEF EndBackup, EndAboveRoot
  <2> QED  BY <2>1 DEF Finish, Claims, MutexHeld, Goto
<1> QED
  BY <1>4, <1>6, <1>7, <1>8, <1>9, <1>10, <1>11 DEF Stepping, Step

\* Edges are made once, for a node that is backed up next.
LEMMA EdgesVisitedStep ==
    ASSUME IInv, UpToDate, Stepping
    PROVE  EdgesVisited'
<1> TypeOK /\ Claims /\ EdgesVisited  BY DEF IInv, UpToDate
<1> pc \in [Workers -> {"pick", "extend", "upper", "type", "backup", "climb"}]
    /\ leaf \in [Workers -> Nodes]
  BY DEF TypeOK
<1>1. ASSUME edges' = edges, visited \subseteq visited', twofold' \subseteq twofold,
             UNCHANGED leaf, NEW w \in Workers, NEW to, Goto(w, to), to # "extend",
             pc[w] # "backup" \/ leaf[w] \in visited'
      PROVE  EdgesVisited'
  <2>1. \A v \in Workers \ {w} : pc'[v] = pc[v]  BY <1>1 DEF Goto
  <2>2. pc'[w] # "extend"  BY <1>1 DEF Goto
  <2> QED  BY <1>1, <2>1, <2>2 DEF EdgesVisited
<1>2. ASSUME NEW w \in Workers, NEW x \in Nodes \ (edges \cup twofold'),
             leaf' = [leaf EXCEPT ![w] = x],
             pc[w] = "pick", Goto(w, "extend"), edges' = edges, twofold' \subseteq twofold,
             \A e \in edges \cup twofold' : e \in visited => e \in visited'
      PROVE  EdgesVisited'
  <2>1. \A v \in Workers \ {w} : pc'[v] = pc[v] /\ leaf'[v] = leaf[v]
    BY <1>2 DEF Goto
  <2>2. leaf'[w] = x  BY <1>2
  <2> QED  BY <1>2, <2>1, <2>2 DEF EdgesVisited
<1>3. CASE UNCHANGED vars  BY <1>3 DEF vars, tree, EdgesVisited
<1>5. ASSUME NEW w \in Workers, Pick(w) PROVE EdgesVisited'
  <2>1. PICK x \in Nodes : x \notin visited \cup Claimed /\ leaf' = [leaf EXCEPT ![w] = x]
    BY <1>5 DEF Pick
  <2>2. pc[w] = "pick" /\ Goto(w, "extend") /\ UNCHANGED tree  BY <1>5 DEF Pick
  <2>3. x \notin edges \cup twofold  BY <2>1 DEF EdgesVisited, Claimed
  <2> QED  BY <1>2, <2>1, <2>2, <2>3 DEF tree
<1>6. ASSUME NEW w \in Workers, PickTwoFold(w) PROVE EdgesVisited'
  <2>1. PICK x \in twofold : /\ leaf' = [leaf EXCEPT ![w] = x]
                             /\ twofold' = twofold \ {x} /\ visited' = visited \ {x}
    BY <1>6 DEF PickTwoFold
  <2>2. pc[w] = "pick" /\ Goto(w, "extend") /\ UNCHANGED edges  BY <1>6 DEF PickTwoFold
  <2>3. x \in Nodes \ edges  BY <2>1 DEF EdgesVisited, TypeOK
  <2> QED  BY <1>2, <2>1, <2>2, <2>3
<1>7. ASSUME NEW w \in Workers, CreateEdges(w) PROVE EdgesVisited'
  <2>1. /\ edges' = edges \cup {leaf[w]} /\ UNCHANGED <<leaf, visited, twofold>>
        /\ pc[w] = "extend" /\ pc' = [pc EXCEPT ![w] = "backup"]
    BY <1>7 DEF CreateEdges, Goto
  <2>2. pc'[w] = "backup" /\ \A v \in Workers \ {w} : pc'[v] = pc[v]  BY <2>1
  <2>3. leaf[w] \notin twofold'  BY <2>1 DEF EdgesVisited
  <2>4. \A v \in Workers \ {w} : pc[v] = "extend" => leaf[v] # leaf[w]
    BY <2>1 DEF Claims
  <2> QED  BY <2>1, <2>2, <2>3, <2>4 DEF EdgesVisited
<1>8. ASSUME NEW w \in Workers, MakeTwoFold(w) PROVE EdgesVisited'
  <2>1. /\ twofold' = twofold \cup {leaf[w]} /\ UNCHANGED <<leaf, visited, edges>>
        /\ pc[w] = "extend" /\ pc' = [pc EXCEPT ![w] = "backup"]
    BY <1>8 DEF MakeTwoFold, Goto
  <2>2. pc'[w] = "backup" /\ \A v \in Workers \ {w} : pc'[v] = pc[v]  BY <2>1
  <2>3. leaf[w] \notin edges  BY <2>1 DEF EdgesVisited
  <2>4. \A v \in Workers \ {w} : pc[v] = "extend" => leaf[v] # leaf[w]
    BY <2>1 DEF Claims
  <2> QED  BY <2>1, <2>2, <2>3, <2>4 DEF EdgesVisited
<1>9. ASSUME NEW w \in Workers,
             MakeTerminalLower(w) \/ MakeTerminalUpper(w) \/ MakeTerminalType(w)
      PROVE  EdgesVisited'
  <2>1. /\ UNCHANGED <<edges, visited, twofold, leaf>> /\ pc[w] # "backup"
        /\ Goto(w, "upper") \/ Goto(w, "type") \/ Goto(w, "backup")
    BY <1>9 DEF MakeTerminalLower, MakeTerminalUpper, MakeTerminalType
  <2> QED  BY <1>1, <2>1
<1>10. ASSUME NEW w \in Workers, StartBackup(w) PROVE EdgesVisited'
  BY <1>1, <1>10 DEF StartBackup
<1>11. ASSUME NEW w \in Workers, ClimbAndSet(w) \/ ClimbPast(w) PROVE EdgesVisited'
  BY <1>11 DEF ClimbAndSet, ClimbPast, tree, EdgesVisited
<1>12. ASSUME NEW w \in Workers, EndBackup(w) \/ EndAboveRoot(w) PROVE EdgesVisited'
  <2>1. /\ UNCHANGED <<edges, visited, twofold>>
        /\ pc[w] = "climb" /\ pc' = [pc EXCEPT ![w] = "pick"]
        /\ leaf' = [leaf EXCEPT ![w] = GameStart]
    BY <1>12 DEF EndBackup, EndAboveRoot, Finish, Goto, tree
  <2>2. pc'[w] = "pick" /\ \A v \in Workers \ {w} : pc'[v] = pc[v] /\ leaf'[v] = leaf[v]
    BY <2>1
  <2> QED  BY <2>1, <2>2 DEF EdgesVisited
<1> QED
  BY <1>3, <1>5, <1>6, <1>7, <1>8, <1>9, <1>10, <1>11, <1>12 DEF Stepping, Step

\* The parent of a node on the path to a leaf has edges, if it is below the root.
LEMMA ParentHasEdges ==
    ASSUME TypeOK, NEW x \in Nodes, OnPath(x), NEW p \in Nodes, x \in Children(p),
           root \in Above[p]
    PROVE  p \in edges
<1>1. x \in Nodes \ {GameStart} /\ Parent[x] = p  BY DEF Children
<1>2. Above[x] = {Parent[x]} \cup Above[Parent[x]]  BY <1>1, BoundsAssumption
<1> QED  BY <1>1, <1>2 DEF OnPath

\* Only nodes on a path of nodes with edges get bounds.
LEMMA UntouchedStep ==
    ASSUME IInv, UpToDate, Stepping
    PROVE  Untouched'
<1> NoOne \notin Workers  BY BoundsAssumption DEF NoOne
<1> TypeOK /\ Untouched /\ Paths  BY DEF IInv, UpToDate
<1> lower_bound_ \in [Nodes -> GameResult] /\ upper_bound_ \in [Nodes -> GameResult]
    /\ leaf \in [Workers -> Nodes]
  BY DEF TypeOK
<1>1. ASSUME UNCHANGED <<root, lower_bound_, upper_bound_>>, edges \subseteq edges'
      PROVE  Untouched'
  BY <1>1 DEF Untouched, Children
<1>2. ASSUME NEW x \in Nodes, OnPath(x), UNCHANGED <<root, edges>>,
             \A y \in Nodes \ {x} : lower_bound_'[y] = lower_bound_[y]
                                    /\ upper_bound_'[y] = upper_bound_[y]
      PROVE  Untouched'
  <2> SUFFICES ASSUME NEW p \in Nodes \ edges, root \in Above[p], NEW c \in Children(p)
               PROVE  lower_bound_'[c] = -1 /\ upper_bound_'[c] = 1
    BY <1>2 DEF Untouched, Children
  <2>1. c # x  BY <1>2, ParentHasEdges
  <2>2. c \in Nodes  BY DEF Children
  <2> QED  BY <1>2, <2>1, <2>2 DEF Untouched
<1>3. CASE UNCHANGED vars  BY <1>1, <1>3 DEF vars, tree
<1>4. ASSUME NEW w \in Workers, EndAboveRoot(w) PROVE Untouched'
  <2>1. root \in Nodes /\ root # GameStart
    BY <1>4 DEF EndAboveRoot, SetsAboveRoot, TypeOK
  <2>2. /\ UNCHANGED <<root, edges>>
        /\ \A y \in Nodes \ {Parent[root]} : lower_bound_'[y] = lower_bound_[y]
                                             /\ upper_bound_'[y] = upper_bound_[y]
    BY <1>4 DEF EndAboveRoot, SetBounds
  <2> SUFFICES ASSUME NEW p \in Nodes \ edges, root \in Above[p], NEW c \in Children(p)
               PROVE  lower_bound_'[c] = -1 /\ upper_bound_'[c] = 1
    BY <2>2 DEF Untouched, Children
  <2>3. c \in Nodes /\ c \in Searched  BY ChildrenSearched
  <2>4. c # Parent[root]  BY <2>1, <2>3, ParentAbove
  <2> QED  BY <2>2, <2>3, <2>4 DEF Untouched
<1>5. ASSUME NEW w \in Workers,
             \/ Pick(w) \/ PickTwoFold(w) \/ CreateEdges(w) \/ MakeTwoFold(w)
             \/ MakeTerminalType(w) \/ StartBackup(w) \/ ClimbPast(w) \/ EndBackup(w)
      PROVE  Untouched'
  <2>1. UNCHANGED <<root, lower_bound_, upper_bound_>> /\ edges \subseteq edges'
    BY <1>5 DEF Pick, PickTwoFold, CreateEdges, MakeTwoFold, MakeTerminalType, StartBackup,
                ClimbPast, EndBackup, tree
  <2> QED  BY <1>1, <2>1
<1>6. ASSUME NEW w \in Workers, MakeTerminalLower(w) \/ MakeTerminalUpper(w)
      PROVE  Untouched'
  <2>1. leaf[w] \in Nodes /\ OnPath(leaf[w])
    BY <1>6 DEF MakeTerminalLower, MakeTerminalUpper, Paths
  <2>2. \A y \in Nodes \ {leaf[w]} : lower_bound_'[y] = lower_bound_[y]
                                     /\ upper_bound_'[y] = upper_bound_[y]
    BY <1>6 DEF MakeTerminalLower, MakeTerminalUpper
  <2> QED  BY <1>2, <1>6, <2>1, <2>2 DEF MakeTerminalLower, MakeTerminalUpper
<1>7. ASSUME NEW w \in Workers, ClimbAndSet(w) PROVE Untouched'
  <2>1. Parent[at] \in Nodes /\ OnPath(Parent[at])
    BY <1>7, ParentIsInner DEF ClimbAndSet
  <2>2. \A y \in Nodes \ {Parent[at]} : lower_bound_'[y] = lower_bound_[y]
                                        /\ upper_bound_'[y] = upper_bound_[y]
    BY <1>7 DEF ClimbAndSet, SetBounds
  <2> QED  BY <1>2, <1>7, <2>1, <2>2 DEF ClimbAndSet
<1> QED  BY <1>3, <1>4, <1>5, <1>6, <1>7 DEF Stepping, Step

-----------------------------------------------------------------------------

\* p depends on the bounds of its children only.
LEMMA CompleteStays ==
    ASSUME NEW p, Complete(p), IsTerminal(p) => IsTerminal(p)',
           lower_bound_'[p] = lower_bound_[p], upper_bound_'[p] = upper_bound_[p],
           \A c \in Children(p) : lower_bound_'[c] = lower_bound_[c]
                                  /\ upper_bound_'[c] = upper_bound_[c]
    PROVE  Complete(p)'
<1>1. NewLower(Children(p))' = NewLower(Children(p)) /\ NewUpper(Children(p))' = NewUpper(Children(p))
  BY DEF NewLower, NewUpper, Best, Children
<1> QED  BY <1>1 DEF Complete

\* Children of which nothing is known imply nothing.
LEMMA NothingImplied ==
    ASSUME NEW p, Best(lower_bound_, Children(p)) = -1, Best(upper_bound_, Children(p)) = 1
    PROVE  NewLower(Children(p)) = -1 /\ NewUpper(Children(p)) = 1
<1>1. PICK l \in Int : l = Best(lower_bound_, Children(p)) /\ l = -1  OBVIOUS
<1>2. PICK u \in Int : u = Best(upper_bound_, Children(p)) /\ u = 1  OBVIOUS
<1>3. -l = 1
  <2>1. l + 1 = 0  BY <1>1
  <2> HIDE <1>1
  <2> QED  BY <2>1
<1>4. -u = -1  BY <1>2
<1> QED  BY <1>1, <1>2, <1>3, <1>4 DEF NewLower, NewUpper

\* An inner node with nothing to set, or decided before, is up to date.
LEMMA NothingToSet ==
    ASSUME IInv, EdgesVisited, NEW p \in edges, root \in Above[p], Children(p) # {},
           IsTerminal(p) \/ Regular(Children(p))
    PROVE  Complete(p)
<1> TypeOK /\ BoundsSound /\ TerminalExact /\ EdgesLive /\ Lag  BY DEF IInv
<1>1. p \in Nodes \ GameOver /\ p \in Below(root)  BY DEF TypeOK, EdgesLive, Below
<1>2. /\ lower_bound_[p] <= NewLower(Children(p)) /\ NewUpper(Children(p)) <= upper_bound_[p]
      /\ NewLower(Children(p)) <= Value[p] /\ Value[p] <= NewUpper(Children(p))
  BY <1>1, ImpliedSound DEF Lag
<1>3. /\ NewLower(Children(p)) \in GameResult /\ NewUpper(Children(p)) \in GameResult
      /\ lower_bound_[p] \in GameResult /\ upper_bound_[p] \in GameResult
      /\ Value[p] \in GameResult
  BY <1>1, NewInType, BoundsAssumption DEF TypeOK, Children
<1>4. CASE IsTerminal(p)
  <2>1. lower_bound_[p] = Value[p] /\ upper_bound_[p] = Value[p]
    BY <1>1, <1>4 DEF IsTerminal, EdgesVisited, TerminalExact, Searched
  <2>2. lower_bound_[p] = NewLower(Children(p)) /\ upper_bound_[p] = NewUpper(Children(p))
    BY <1>2, <1>3, <2>1 DEF GameResult
  <2> QED  BY <1>4, <2>2 DEF Complete
<1>5. CASE Regular(Children(p))
  <2>1. NewLower(Children(p)) = -1 /\ NewUpper(Children(p)) = 1  BY <1>5, NothingImplied DEF Regular
  <2>2. lower_bound_[p] = -1 /\ upper_bound_[p] = 1  BY <1>2, <1>3, <2>1 DEF GameResult
  <2> QED  BY <2>1, <2>2 DEF Complete
<1> QED  BY <1>4, <1>5

\* A node that gets edges has nothing to learn from its children yet.
LEMMA FreshComplete ==
    ASSUME IInv, Untouched, NEW p \in Nodes \ (edges \cup GameOver), root \in Above[p],
           Children(p) # {}
    PROVE  Complete(p)
<1> TypeOK /\ Lag /\ p \in Below(root) \ GameOver  BY DEF IInv, Below
<1>1. \A c \in Children(p) : lower_bound_[c] = -1 /\ upper_bound_[c] = 1
  BY DEF Untouched
<1>2. Best(lower_bound_, Children(p)) = -1 /\ Best(upper_bound_, Children(p)) = 1  BY <1>1 DEF Best
<1>3. NewLower(Children(p)) = -1 /\ NewUpper(Children(p)) = 1  BY <1>2, NothingImplied
<1>4. lower_bound_[p] <= NewLower(Children(p)) /\ NewUpper(Children(p)) <= upper_bound_[p]  BY DEF Lag
<1>5. lower_bound_[p] \in GameResult /\ upper_bound_[p] \in GameResult  BY DEF TypeOK
<1>6. lower_bound_[p] = -1 /\ upper_bound_[p] = 1  BY <1>3, <1>4, <1>5 DEF GameResult
<1> QED  BY <1>3, <1>6 DEF Complete

\* What NothingLost says of a node.
SeenTo(p) == Complete(p) \/ LeafDue(p) \/ ClimbDue(p)

\* Nobody forgets a node whose children have changed.
LEMMA NothingLostStep ==
    ASSUME IInv, UpToDate, Stepping
    PROVE  NothingLost'
<1> NoOne \notin Workers  BY BoundsAssumption DEF NoOne
<1> /\ TypeOK /\ Claims /\ MutexHeld /\ EdgesVisited /\ Untouched /\ NothingLost
    /\ Paths /\ EdgesLive
  BY DEF IInv, UpToDate
<1> /\ pc \in [Workers -> {"pick", "extend", "upper", "type", "backup", "climb"}]
    /\ leaf \in [Workers -> Nodes] /\ edges \subseteq Nodes /\ root \in Nodes
    /\ lower_bound_ \in [Nodes -> GameResult] /\ upper_bound_ \in [Nodes -> GameResult]
  BY DEF TypeOK
<1> SUFFICES ASSUME StickyEndgames, NEW p \in edges', root' \in Above[p], Children(p) # {}
             PROVE  SeenTo(p)'
  BY DEF NothingLost, SeenTo, Children
<1> DEFINE Same == \A c \in Children(p) : lower_bound_'[c] = lower_bound_[c]
                                          /\ upper_bound_'[c] = upper_bound_[c]
<1>0. root \in Above[p] /\ p \in edges => SeenTo(p)  BY DEF NothingLost, SeenTo
<1>1. ASSUME UNCHANGED <<root, edges, lower_bound_, upper_bound_, terminal, leaf>>,
             IsTerminal(p) => IsTerminal(p)',
             \A w \in Workers : pc[w] \in {"upper", "type", "backup"} => pc'[w] = pc[w],
             ClimbDue(p) => ClimbDue(p)' \/ Complete(p)
      PROVE  SeenTo(p)'
  <2>1. SeenTo(p)  BY <1>0, <1>1
  <2>2. LeafDue(p) => LeafDue(p)'  BY <1>1 DEF LeafDue, Children
  <2>3. Complete(p) => Complete(p)'  BY <1>1, CompleteStays
  <2> QED  BY <1>1, <2>1, <2>2, <2>3 DEF SeenTo
<1>2. CASE UNCHANGED vars
  BY <1>1, <1>2 DEF vars, tree, climb, ClimbDue, Children, IsTerminal
<1>4. ASSUME NEW w \in Workers, NEW x \in Nodes, leaf' = [leaf EXCEPT ![w] = x],
             pc[w] \notin {"upper", "type", "backup"}, NEW to, Goto(w, to),
             UNCHANGED <<root, edges, lower_bound_, upper_bound_, terminal>>,
             IsTerminal(p) => IsTerminal(p)', ClimbDue(p) => ClimbDue(p)' \/ Complete(p)
      PROVE  SeenTo(p)'
  <2>1. SeenTo(p)  BY <1>0, <1>4
  <2>2. \A v \in Workers \ {w} : pc'[v] = pc[v] /\ leaf'[v] = leaf[v]  BY <1>4 DEF Goto
  <2>3. LeafDue(p) => LeafDue(p)'  BY <1>4, <2>2 DEF LeafDue, Children
  <2>4. Complete(p) => Complete(p)'  BY <1>4, CompleteStays
  <2> QED  BY <1>4, <2>1, <2>3, <2>4 DEF SeenTo
<1>5. ASSUME NEW w \in Workers, Pick(w) PROVE SeenTo(p)'
  BY <1>4, <1>5 DEF Pick, tree, climb, IsTerminal, ClimbDue, Children
<1>6. ASSUME NEW w \in Workers, PickTwoFold(w) PROVE SeenTo(p)'
  <2>1. PICK x \in twofold : leaf' = [leaf EXCEPT ![w] = x] /\ twofold' = twofold \ {x}
    BY <1>6 DEF PickTwoFold
  <2>2. /\ UNCHANGED <<root, edges, terminal, lower_bound_, upper_bound_>>
        /\ UNCHANGED climb /\ pc[w] = "pick" /\ Goto(w, "extend")
    BY <1>6 DEF PickTwoFold
  <2>3. x \in Nodes /\ x # p  BY <2>1, <2>2 DEF EdgesVisited, TypeOK
  <2>4. IsTerminal(p) => IsTerminal(p)'  BY <2>1, <2>2, <2>3 DEF IsTerminal
  <2>5. ClimbDue(p) => ClimbDue(p)'  BY <2>2 DEF ClimbDue, climb, Children
  <2> QED  BY <1>4, <2>1, <2>2, <2>3, <2>4, <2>5
<1>7. ASSUME NEW w \in Workers, CreateEdges(w) PROVE SeenTo(p)'
  <2>1. /\ edges' = edges \cup {leaf[w]} /\ pc[w] = "extend" /\ Goto(w, "backup")
        /\ UNCHANGED <<root, terminal, twofold, lower_bound_, upper_bound_, leaf>>
        /\ UNCHANGED climb /\ ~Over(leaf[w])
    BY <1>7 DEF CreateEdges
  <2>2. \A v \in Workers \ {w} : pc'[v] = pc[v]  BY <2>1 DEF Goto
  <2>3. Complete(p) => Complete(p)'  BY <2>1, CompleteStays DEF IsTerminal
  <2>4. CASE p \in edges
    <3>1. SeenTo(p)  BY <1>0, <2>1, <2>4
    <3>2. LeafDue(p) => LeafDue(p)'  BY <2>1, <2>2 DEF LeafDue, Children
    <3>3. ClimbDue(p) => ClimbDue(p)'  BY <2>1 DEF ClimbDue, climb, Children
    <3> QED  BY <2>3, <3>1, <3>2, <3>3 DEF SeenTo
  <2>5. CASE p \notin edges
    <3>1. p = leaf[w] /\ root \in Above[p] /\ p \in Nodes  BY <2>1, <2>5
    <3>2. p # root  BY <3>1, BoundsAssumption
    <3>3. p \notin GameOver  BY <2>1, <3>1, <3>2 DEF Over
    <3>4. Complete(p)  BY <2>5, <3>1, <3>3, FreshComplete
    <3> QED  BY <2>3, <3>4 DEF SeenTo
  <2> QED  BY <2>4, <2>5
<1>8. ASSUME NEW w \in Workers, MakeTwoFold(w) PROVE SeenTo(p)'
  <2>1. /\ twofold' = twofold \cup {leaf[w]} /\ pc[w] = "extend" /\ Goto(w, "backup")
        /\ UNCHANGED <<root, edges, terminal, lower_bound_, upper_bound_, leaf>>
        /\ UNCHANGED climb
    BY <1>8 DEF MakeTwoFold
  <2>2. \A v \in Workers : pc[v] \in {"upper", "type", "backup"} => pc'[v] = pc[v]
    BY <2>1 DEF Goto
  <2>3. IsTerminal(p) => IsTerminal(p)'  BY <2>1 DEF IsTerminal
  <2>4. ClimbDue(p) => ClimbDue(p)'  BY <2>1 DEF ClimbDue, climb, Children
  <2> QED  BY <1>1, <2>1, <2>2, <2>3, <2>4
<1>9. ASSUME NEW w \in Workers, MakeTerminalLower(w) \/ MakeTerminalUpper(w)
      PROVE  SeenTo(p)'
  <2>1. /\ UNCHANGED <<root, edges, terminal, twofold, leaf>> /\ UNCHANGED climb
        /\ \A y \in Nodes \ {leaf[w]} : lower_bound_'[y] = lower_bound_[y]
                                        /\ upper_bound_'[y] = upper_bound_[y]
    BY <1>9 DEF MakeTerminalLower, MakeTerminalUpper
  <2>2. pc'[w] \in {"upper", "type"} /\ \A v \in Workers \ {w} : pc'[v] = pc[v]
    BY <1>9 DEF MakeTerminalLower, MakeTerminalUpper, Goto
  <2>3. leaf[w] \in GameOver
    BY <1>9 DEF MakeTerminalLower, MakeTerminalUpper, Over, IInv, Writing
  <2>4. p # leaf[w] /\ p \in Nodes /\ SeenTo(p)  BY <1>0, <2>1, <2>3 DEF EdgesLive
  <2>5. CASE leaf[w] \in Children(p)
    <3>1. LeafDue(p)'  BY <2>1, <2>2, <2>5 DEF LeafDue, Children
    <3> QED  BY <3>1 DEF SeenTo
  <2>6. CASE leaf[w] \notin Children(p)
    <3>1. Same  BY <2>1, <2>6 DEF Children
    <3>2. Complete(p) => Complete(p)'  BY <2>1, <2>4, <3>1, CompleteStays DEF IsTerminal
    <3>3. LeafDue(p) => LeafDue(p)'  BY <2>1, <2>2, <2>6 DEF LeafDue, Children
    <3>4. ClimbDue(p) => ClimbDue(p)'  BY <2>1 DEF ClimbDue, climb, Children
    <3> QED  BY <2>4, <3>2, <3>3, <3>4 DEF SeenTo
  <2> QED  BY <2>5, <2>6
<1>10. ASSUME NEW w \in Workers, MakeTerminalType(w) PROVE SeenTo(p)'
  <2>1. /\ UNCHANGED <<root, edges, twofold, leaf, lower_bound_, upper_bound_>>
        /\ UNCHANGED climb /\ terminal' = terminal \cup {leaf[w]}
        /\ pc' = [pc EXCEPT ![w] = "backup"]
    BY <1>10 DEF MakeTerminalType, Goto
  <2>2. pc'[w] = "backup" /\ \A v \in Workers \ {w} : pc'[v] = pc[v]  BY <2>1
  <2>3. SeenTo(p)  BY <1>0, <2>1
  <2>4. Complete(p) => Complete(p)'  BY <2>1, CompleteStays DEF IsTerminal
  <2>5. LeafDue(p) => LeafDue(p)'
    <3> SUFFICES ASSUME LeafDue(p) PROVE LeafDue(p)'  OBVIOUS
    <3>1. PICK v \in Workers :
             /\ leaf[v] \in Children(p)
             /\ pc[v] \in {"upper", "type"} \/ (pc[v] = "backup" /\ leaf[v] \in terminal)
      BY DEF LeafDue
    <3>2. /\ leaf'[v] \in Children(p)
          /\ pc'[v] \in {"upper", "type"} \/ (pc'[v] = "backup" /\ leaf'[v] \in terminal')
      BY <2>1, <2>2, <3>1
    <3> QED  BY <3>2 DEF LeafDue, Children
  <2>6. ClimbDue(p) => ClimbDue(p)'  BY <2>1 DEF ClimbDue, climb, Children
  <2> QED  BY <2>3, <2>4, <2>5, <2>6 DEF SeenTo
<1>11. ASSUME NEW w \in Workers, StartBackup(w) PROVE SeenTo(p)'
  <2>1. /\ UNCHANGED <<root, edges, terminal, twofold, leaf, lower_bound_, upper_bound_>>
        /\ nodes_mutex_ = NoOne /\ nodes_mutex_' = w /\ at' = leaf[w]
        /\ pc[w] = "backup" /\ pc' = [pc EXCEPT ![w] = "climb"]
        /\ IsTerminal(leaf[w]) => update_parent_bounds'
    BY <1>11 DEF StartBackup, Goto
  <2>2. \A v \in Workers \ {w} : pc'[v] = pc[v]  BY <2>1
  <2>3. SeenTo(p) /\ ~ClimbDue(p)  BY <1>0, <2>1 DEF ClimbDue
  <2>4. Complete(p) => Complete(p)'  BY <2>1, CompleteStays DEF IsTerminal
  <2>5. ASSUME LeafDue(p) PROVE LeafDue(p)' \/ ClimbDue(p)'
    <3>1. PICK v \in Workers :
             /\ leaf[v] \in Children(p)
             /\ pc[v] \in {"upper", "type"} \/ (pc[v] = "backup" /\ leaf[v] \in terminal)
      BY <2>5 DEF LeafDue
    <3>2. CASE v = w
      <4>1. leaf[w] \in terminal /\ leaf[w] \in Children(p)  BY <2>1, <3>1, <3>2
      <4>2. update_parent_bounds' /\ at' \in Children(p) /\ nodes_mutex_' # NoOne
        BY <2>1, <4>1 DEF IsTerminal
      <4> QED  BY <4>2 DEF ClimbDue, Children
    <3>3. CASE v # w  BY <2>1, <2>2, <3>1, <3>3 DEF LeafDue, Children
    <3> QED  BY <3>2, <3>3
  <2> QED  BY <2>3, <2>4, <2>5 DEF SeenTo
<1>12. ASSUME NEW w \in Workers, ClimbAndSet(w) PROVE SeenTo(p)'
  <2> DEFINE q == Parent[at]
  <2>1. /\ UNCHANGED <<root, edges, twofold, pc, leaf, nodes_mutex_, update_parent_bounds>>
        /\ nodes_mutex_ # NoOne /\ update_parent_bounds /\ at # root /\ at' = q
        /\ lower_bound_' = [lower_bound_ EXCEPT ![q] = NewLower(Children(q))]
        /\ upper_bound_' = [upper_bound_ EXCEPT ![q] = NewUpper(Children(q))]
        /\ terminal' = IF Decided(Children(q)) THEN terminal \cup {q} ELSE terminal
    BY <1>12 DEF ClimbAndSet, SetBounds
  <2>2. q \in Nodes /\ at \in Nodes \ {GameStart}  BY <2>1, ParentIsInner
  <2> HIDE DEF q
  <2>3. \A y \in Nodes \ {q} : lower_bound_'[y] = lower_bound_[y]
                               /\ upper_bound_'[y] = upper_bound_[y]
    BY <2>1
  <2>4. SeenTo(p) /\ p \in Nodes  BY <1>0, <2>1
  <2>5. \A x \in Children(p) : x # p
    <3> SUFFICES ASSUME p \in Children(p) PROVE FALSE  OBVIOUS
    <3>1. p \in Nodes \ {GameStart} /\ Parent[p] = p  BY DEF Children
    <3> QED  BY <3>1, BoundsAssumption
  <2>6. CASE p = q
    <3>1. Same  BY <2>3, <2>5, <2>6 DEF Children
    <3>2. NewLower(Children(p))' = NewLower(Children(p)) /\ NewUpper(Children(p))' = NewUpper(Children(p))
      BY <3>1 DEF NewLower, NewUpper, Best, Children
    <3>3. lower_bound_'[p] = NewLower(Children(p)) /\ upper_bound_'[p] = NewUpper(Children(p))
      BY <2>1, <2>2, <2>6
    <3>4. lower_bound_'[p] = upper_bound_'[p] => IsTerminal(p)'
      BY <2>1, <2>6, <3>3 DEF Decided, IsTerminal
    <3>5. Complete(p)'  BY <3>2, <3>3, <3>4 DEF Complete
    <3> QED  BY <3>5 DEF SeenTo
  <2>7. CASE q \in Children(p)
    <3>1. ClimbDue(p)'  BY <2>1, <2>7 DEF ClimbDue, Children
    <3> QED  BY <3>1 DEF SeenTo
  <2>8. CASE p # q /\ q \notin Children(p)
    <3>1. Same  BY <2>3, <2>8 DEF Children
    <3>2. IsTerminal(p) => IsTerminal(p)'  BY <2>1 DEF IsTerminal
    <3>3. Complete(p) => Complete(p)'
      BY <2>3, <2>4, <2>8, <3>1, <3>2, CompleteStays
    <3>4. LeafDue(p) => LeafDue(p)'
      <4>1. terminal \subseteq terminal'  BY <2>1
      <4> QED  BY <2>1, <4>1 DEF LeafDue, Children
    <3>5. ~ClimbDue(p)  BY <2>8 DEF ClimbDue, Children, q
    <3> QED  BY <2>4, <3>3, <3>4, <3>5 DEF SeenTo
  <2> QED  BY <2>6, <2>7, <2>8
<1>13. ASSUME NEW w \in Workers, ClimbPast(w) PROVE SeenTo(p)'
  <2>1. /\ UNCHANGED tree /\ UNCHANGED <<pc, leaf, nodes_mutex_>>
        /\ ~(update_parent_bounds /\ MaySet(Parent[at]) /\ ~Regular(Children(Parent[at])))
    BY <1>13 DEF ClimbPast
  <2>2. p \in edges /\ root \in Above[p]  BY <2>1 DEF tree
  <2>3. p # root  BY <2>2, BoundsAssumption
  <2>4. ASSUME ClimbDue(p) PROVE Complete(p)
    <3>1. Parent[at] = p /\ update_parent_bounds  BY <2>4 DEF ClimbDue, Children
    <3>2. IsTerminal(p) \/ Regular(Children(p))  BY <2>1, <2>3, <3>1 DEF MaySet
    <3> QED  BY <2>2, <3>2, NothingToSet
  <2>5. IsTerminal(p) => IsTerminal(p)'  BY <2>1 DEF IsTerminal, tree
  <2> QED  BY <1>1, <2>1, <2>4, <2>5 DEF tree
<1>14. ASSUME at = root PROVE ~ClimbDue(p)
  <2> SUFFICES ASSUME root \in Children(p) PROVE FALSE  BY <1>14 DEF ClimbDue
  <2>1. root \in Nodes \ {GameStart} /\ Parent[root] = p  BY DEF Children
  <2>2. p \in Nodes /\ root \in Above[p]
    BY <2>1, RootStays, BoundsAssumption
  <2> QED  BY <2>1, <2>2, ParentAbove DEF Searched, Below
<1>15. ASSUME NEW w \in Workers, EndBackup(w) PROVE SeenTo(p)'
  <2>1. /\ UNCHANGED tree /\ at = root /\ pc[w] = "climb" /\ Goto(w, "pick")
        /\ leaf' = [leaf EXCEPT ![w] = GameStart]
    BY <1>15 DEF EndBackup, Finish
  <2>2. GameStart \in Nodes  BY BoundsAssumption
  <2>3. IsTerminal(p) => IsTerminal(p)'  BY <2>1 DEF IsTerminal, tree
  <2> QED  BY <1>4, <1>14, <2>1, <2>2, <2>3 DEF tree
<1>16. ASSUME NEW w \in Workers, EndAboveRoot(w) PROVE SeenTo(p)'
  <2>1. /\ UNCHANGED <<root, edges, twofold>> /\ terminal \subseteq terminal'
        /\ at = root /\ pc[w] = "climb" /\ Goto(w, "pick")
        /\ leaf' = [leaf EXCEPT ![w] = GameStart]
        /\ \A y \in Nodes \ {Parent[root]} : lower_bound_'[y] = lower_bound_[y]
                                             /\ upper_bound_'[y] = upper_bound_[y]
    BY <1>16 DEF EndAboveRoot, SetBounds, Finish
  <2>2. root \in Nodes /\ root # GameStart
    BY <1>16 DEF EndAboveRoot, SetsAboveRoot
  <2>3. p \in Nodes /\ root \in Above[p] /\ p \in edges  BY <2>1
  <2>4. p \in Searched  BY <2>3 DEF Searched, Below
  <2>5. p # Parent[root]  BY <2>2, <2>4, ParentAbove
  <2>6. Same
    <3> SUFFICES ASSUME NEW c \in Children(p)
                 PROVE  lower_bound_'[c] = lower_bound_[c] /\ upper_bound_'[c] = upper_bound_[c]
      OBVIOUS
    <3>1. c \in Nodes /\ c \in Searched  BY <2>3, ChildrenSearched
    <3> QED  BY <2>1, <2>2, <3>1, ParentAbove
  <2>7. IsTerminal(p) => IsTerminal(p)'  BY <2>1 DEF IsTerminal
  <2>8. Complete(p) => Complete(p)'  BY <2>1, <2>3, <2>5, <2>6, <2>7, CompleteStays
  <2>9. \A v \in Workers \ {w} : pc'[v] = pc[v] /\ leaf'[v] = leaf[v]  BY <2>1 DEF Goto
  <2>10. LeafDue(p) => LeafDue(p)'  BY <2>1, <2>9 DEF LeafDue, Children
  <2>11. ~ClimbDue(p)  BY <1>14, <2>1
  <2>12. SeenTo(p)  BY <1>0, <2>3
  <2> QED  BY <2>8, <2>10, <2>11, <2>12 DEF SeenTo
<1> QED
  BY <1>2, <1>5, <1>6, <1>7, <1>8, <1>9, <1>10, <1>11, <1>12, <1>13, <1>15, <1>16
  DEF Stepping, Step

\* Setting up a position loses no update: the nodes below the head stay as they are.
LEMMA ResetUpToDate ==
    ASSUME IInv, UpToDate, ResetToPosition
    PROVE  UpToDate'
<1> /\ TypeOK /\ EdgesVisited /\ Untouched /\ NothingLost /\ edges \subseteq Nodes
    /\ twofold \subseteq Nodes
  BY DEF IInv, UpToDate, TypeOK
<1>1. PICK x \in Nodes :
        /\ root' = x
        /\ edges' = edges \cap Kept(x)
        /\ terminal' = (terminal \cap Kept(x)) \ NotTerminal(x)
        /\ twofold' = (twofold \cap Kept(x)) \ NotTerminal(x)
        /\ visited' = {y \in Kept(x) : IF y \in NotTerminal(x) /\ IsTerminal(y)
                                       THEN y \in edges \cup Above[root]
                                       ELSE y \in visited}
        /\ lower_bound_' = [y \in Nodes |-> IF y \in Kept(x) THEN lower_bound_[y] ELSE -1]
        /\ upper_bound_' = [y \in Nodes |-> IF y \in Kept(x) THEN upper_bound_[y] ELSE 1]
  BY DEF ResetToPosition
<1>2. (\A w \in Workers : pc[w] = "pick") /\ nodes_mutex_ = NoOne /\ UNCHANGED <<pc, leaf>>
      /\ UNCHANGED climb
  BY DEF ResetToPosition
<1>3. Claims' /\ MutexHeld'  BY <1>2 DEF Claims, MutexHeld, climb
<1>4. EdgesVisited'
  <2>1. \A y \in edges \cup twofold : y \in visited  BY <1>2 DEF EdgesVisited
  <2>2. \A y \in edges' \cup twofold' : y \in visited'  BY <1>1, <2>1
  <2>3. edges' \cap twofold' = {}  BY <1>1 DEF EdgesVisited
  <2> QED  BY <1>2, <2>2, <2>3 DEF EdgesVisited
<1>5. ASSUME NEW p \in Below(x), NEW c \in Children(p) PROVE c \in Below(x) /\ c \in Nodes
  <2>1. c \in Nodes \ {GameStart} /\ Parent[c] = p /\ p \in Nodes
    BY <1>5 DEF Children, Below
  <2>2. Above[c] = {Parent[c]} \cup Above[Parent[c]]  BY <2>1, BoundsAssumption
  <2> QED  BY <1>5, <2>1, <2>2 DEF Below
<1>6. CASE Continues(x)
  <2>1. {x} \cup Below(x) \subseteq Kept(x) /\ Below(x) \subseteq Below(root)
    BY <1>6, ResetKeeps
  <2>2. \A y \in Below(x) : /\ y \in Nodes
                            /\ lower_bound_'[y] = lower_bound_[y]
                            /\ upper_bound_'[y] = upper_bound_[y]
    BY <1>1, <2>1 DEF Below
  <2>3. Untouched'
    <3> SUFFICES ASSUME NEW p \in Nodes \ edges', x \in Above[p], NEW c \in Children(p)
                 PROVE  lower_bound_'[c] = -1 /\ upper_bound_'[c] = 1
      BY <1>1 DEF Untouched, Children
    <3>1. p \in Below(x) /\ p \in Below(root) /\ p \notin edges  BY <1>1, <2>1 DEF Below
    <3>2. root \in Above[p]  BY <3>1 DEF Below
    <3> QED  BY <1>5, <2>2, <3>1, <3>2 DEF Untouched
  <2>4. NothingLost'
    <3> SUFFICES ASSUME StickyEndgames, NEW p \in edges', x \in Above[p], Children(p) # {}
                 PROVE  Complete(p)'
      BY <1>1 DEF NothingLost, Children
    <3>1. p \in edges /\ p \in Below(x) /\ p \in Below(root)  BY <1>1, <2>1 DEF Below
    <3>2. Complete(p)
      BY <1>2, <3>1 DEF NothingLost, LeafDue, ClimbDue, Below
    <3>3. IsTerminal(p) => IsTerminal(p)'
      <4>1. p \notin NotTerminal(x) /\ p \in Kept(x)  BY <2>1, <3>1, ResetKeeps
      <4> QED  BY <1>1, <4>1 DEF IsTerminal
    <3> QED  BY <1>5, <2>2, <3>1, <3>2, <3>3, CompleteStays
  <2> QED  BY <1>3, <1>4, <2>3, <2>4 DEF UpToDate
<1>7. CASE ~Continues(x)
  <2>1. ({x} \cup Below(x)) \cap Kept(x) = {}  BY <1>7, ResetKeeps
  <2>2. \A y \in Below(x) : lower_bound_'[y] = -1 /\ upper_bound_'[y] = 1
    BY <1>1, <2>1 DEF Below
  <2>3. Untouched'  BY <1>1, <1>5, <2>2 DEF Untouched, Children, Below
  <2>4. NothingLost'  BY <1>1, <2>1 DEF NothingLost, Below
  <2> QED  BY <1>3, <1>4, <2>3, <2>4 DEF UpToDate
<1> QED  BY <1>6, <1>7

\* However the backups of the workers interleave, no proven result stops on its
\* way up (DoBackupUpdateSingleNode, MaybeSetBounds).
THEOREM NoUpdateLost == Spec => []BoundsComplete
<1>1. Init => UpToDate
  <2>1. Init => Claims /\ MutexHeld /\ EdgesVisited /\ NothingLost
    BY DEF Init, Claims, MutexHeld, EdgesVisited, NothingLost
  <2>2. Init => Untouched  BY DEF Init, Untouched, Children
  <2> QED  BY <2>1, <2>2 DEF UpToDate
<1>2. IInv /\ UpToDate /\ [Next]_vars => UpToDate'
  <2>1. IInv /\ UpToDate /\ Stepping => UpToDate'
    BY ClaimsStep, EdgesVisitedStep, UntouchedStep, NothingLostStep DEF UpToDate
  <2> QED  BY <2>1, ResetUpToDate, NextSplit
<1>3. IInv /\ UpToDate => BoundsComplete
  <2> SUFFICES ASSUME IInv, UpToDate, StickyEndgames,
                      \A w \in Workers : pc[w] \in {"pick", "extend"},
                      NEW p \in edges, root \in Above[p], Children(p) # {}
               PROVE  Complete(p)
    BY DEF BoundsComplete, Complete
  <2>1. ~LeafDue(p)  BY DEF LeafDue
  <2>2. nodes_mutex_ = NoOne  BY DEF UpToDate, MutexHeld, IInv, TypeOK
  <2> QED  BY <2>1, <2>2 DEF UpToDate, NothingLost, ClimbDue
<1> QED  BY BoundsInvariance, <1>1, <1>2, <1>3, PTL DEF Spec
=============================================================================
