-------------------------- MODULE SearchTreeProofs --------------------------
(***************************************************************************)
(* For any tree and any number of workers: virtual visits are conserved,   *)
(* visit counts add up, and the pointers that are written through are live. *)
(***************************************************************************)
EXTENDS SearchTree, FiniteSetTheorems, SequenceTheorems, TLAPS

-----------------------------------------------------------------------------
(* The inductive invariant. *)

Ats == [pointer : Pointers, visits : Nat \ {0}, kind : {"Visit", "Collision"}]

Types ==
    /\ n \in [Nodes -> Nat] /\ n_in_flight_ \in [Nodes -> Int]
    /\ edges \subseteq Nodes /\ terminal \subseteq Nodes /\ solid \subseteq Nodes
    /\ initial_visits_ \in Int /\ total_playouts_ \in Int
    /\ shared_collisions_ \in [Pointers -> Nat]
    /\ pc \in [Workers -> {"gather", "extend", "own_edge", "picked", "fetch", "backup", "done"}]
    /\ minibatch \in [Workers -> Seq(Ats)]

NodeOf(e) == At(e).pointer[1]

\* A worker that is busy with the node it picked last has it at the end of its
\* minibatch; one that has ended has an empty minibatch.
BatchFits(w) ==
    /\ pc[w] \in {"extend", "own_edge", "picked"} =>
           minibatch[w] # << >> /\ ~IsCollision(minibatch[w][Len(minibatch[w])])
    /\ pc[w] = "done" => minibatch[w] = << >>

\* After ~Search nobody works and nothing is shared.
Ended ==
    destroyed => /\ \A w \in Workers : pc[w] = "done"
                 /\ \A p \in Pointers : shared_collisions_[p] = 0

\* What is on its way through x.
ClaimsOver(x) == {e \in Visits : x \in UpFrom(NodeOf(e))}
OwnOver(x) == [e \in {f \in OwnCollisions : x \in Above[NodeOf(f)]} |-> At(e).visits]
SharedOver(x) == [p \in {q \in Shared : x \in Above[q[1]]} |-> shared_collisions_[p]]

InFlight(x) == n_in_flight_[x] = Cardinality(ClaimsOver(x)) + Total(OwnOver(x)) + Total(SharedOver(x))

\* ExtendNode has not been done for claim e.
ToExtend(e) == pc[e[1]] = "extend" /\ e[2] = Len(minibatch[e[1]])

\* A claimed node stays where it is, is terminal or has no visits yet, and all
\* nodes above it have visits and edges.  Only a terminal is claimed twice.
ClaimRight(e) ==
    /\ Live(At(e).pointer)
    /\ NodeOf(e) \in terminal \/ n[NodeOf(e)] = 0
    /\ \A a \in Above[NodeOf(e)] : n[a] > 0 /\ a \in edges
    /\ NodeOf(e) \in edges \cup terminal \/ ToExtend(e)
    /\ ~IsTwoFoldTerminal(NodeOf(e))
    /\ \A f \in Visits : f # e /\ NodeOf(f) = NodeOf(e) => NodeOf(e) \in terminal

CollisionsLive ==
    /\ \A e \in OwnCollisions : Live(At(e).pointer)
    /\ \A p \in Shared : Live(p)

\* Visits come from above; a node has its edges or is terminal when it has visits,
\* and when it has edges without visits it is claimed.
VisitsFit ==
    /\ \A c \in Nodes \ {Root} : n[c] > 0 => n[Parent[c]] > 0 /\ Parent[c] \in edges
    /\ \A x \in Nodes : n[x] > 0 => x \in edges \cup terminal
    /\ \A x \in edges : n[x] = 0 => \E e \in Visits : NodeOf(e) = x

TreeInv ==
    /\ Types
    /\ \A w \in Workers : BatchFits(w)
    /\ Ended
    /\ \A x \in Nodes : InFlight(x)
    /\ \A e \in Visits : ClaimRight(e)
    /\ CollisionsLive
    /\ VisitsFit
    /\ CountsAddUp

-----------------------------------------------------------------------------
(* The tree. *)

\* A set of nodes has one whose parent is not in it.
LEMMA Topmost ==
    ASSUME NEW B \in SUBSET Nodes, B # {}
    PROVE  \E x \in B : x = Root \/ Parent[x] \notin B
<1> DEFINE T == {Above[x] : x \in B}
<1>1. IsWellFoundedOn(StrictSubsetOrdering(Nodes), FiniteSubsetsOf(Nodes))
  BY FS_StrictSubsetOrderingWellFounded
<1>2. T \subseteq FiniteSubsetsOf(Nodes) /\ T # {}
  <2>1. ASSUME NEW x \in B PROVE Above[x] \in SUBSET Nodes /\ IsFiniteSet(Above[x])
    <3>1. Above[x] \in SUBSET Nodes
      BY TreeAssumption
    <3> QED BY <3>1, TreeAssumption, FS_Subset
  <2> QED BY <2>1 DEF FiniteSubsetsOf
<1>3. PICK S \in T : \A U \in T : ~(<<U, S>> \in StrictSubsetOrdering(Nodes))
  <2> HIDE DEF T
  <2> QED BY <1>1, <1>2, WFMin
<1>4. PICK x \in B : S = Above[x]
  BY <1>3
<1>5. ASSUME x # Root, Parent[x] \in B PROVE FALSE
  <2>1. Above[x] = {Parent[x]} \cup Above[Parent[x]] /\ Parent[x] \notin Above[Parent[x]]
    BY <1>5, TreeAssumption
  <2>2. Above[Parent[x]] \in T /\ Above[Parent[x]] \subseteq Above[x] /\ Above[Parent[x]] # Above[x]
    BY <1>5, <2>1
  <2>3. Above[x] \subseteq Nodes /\ Above[Parent[x]] \subseteq Nodes
    BY <1>5, TreeAssumption
  <2>4. <<Above[Parent[x]], Above[x]>> \in StrictSubsetOrdering(Nodes)
    BY <2>2, <2>3 DEF StrictSubsetOrdering
  <2> QED BY <1>3, <1>4, <2>2, <2>4
<1> QED BY <1>5

\* What is above a node above x is above x.
LEMMA AboveAbove ==
    ASSUME NEW x \in Nodes, NEW y \in Above[x]
    PROVE  y \in Nodes /\ Above[y] \subseteq Above[x]
<1>1. y \in Nodes
  BY TreeAssumption
<1> DEFINE B == {z \in Nodes : y \in Above[z] /\ ~(Above[y] \subseteq Above[z])}
<1>2. ASSUME B # {} PROVE FALSE
  <2>1. PICK z \in B : z = Root \/ Parent[z] \notin B
    BY <1>2, Topmost
  <2>2. z # Root
    BY TreeAssumption
  <2>3. Above[z] = {Parent[z]} \cup Above[Parent[z]] /\ Parent[z] \in Nodes
    BY <2>2, TreeAssumption
  <2> QED BY <2>1, <2>2, <2>3
<1> QED BY <1>1, <1>2

\* The root is above every other node.
LEMMA RootAbove ==
    ASSUME NEW x \in Nodes
    PROVE  Root \in UpFrom(x) /\ UpFrom(x) \subseteq Nodes /\ IsFiniteSet(UpFrom(x))
<1> DEFINE B == {z \in Nodes : Root \notin UpFrom(z)}
<1>1. ASSUME B # {} PROVE FALSE
  <2>1. PICK z \in B : z = Root \/ Parent[z] \notin B
    BY <1>1, Topmost
  <2>2. z # Root
    BY DEF UpFrom
  <2>3. Above[z] = {Parent[z]} \cup Above[Parent[z]] /\ Parent[z] \in Nodes
    BY <2>2, TreeAssumption
  <2> QED BY <2>1, <2>2, <2>3 DEF UpFrom
<1>2. UpFrom(x) \subseteq Nodes
  BY TreeAssumption DEF UpFrom
<1>3. IsFiniteSet(UpFrom(x))
  BY <1>2, TreeAssumption, FS_Subset
<1> QED BY <1>1, <1>2, <1>3

\* The way up to a node above x comes from one of its children.
LEMMA ChildOnWay ==
    ASSUME NEW x \in Nodes, NEW a \in Above[x]
    PROVE  \E b \in UpFrom(x) : b \in Children(a)
<1> DEFINE B == {z \in UpFrom(x) : a \in Above[z]}
<1>1. B \in SUBSET Nodes /\ B # {}
  BY RootAbove DEF UpFrom
<1>2. PICK z \in B : z = Root \/ Parent[z] \notin B
  <2> HIDE DEF B
  <2> QED BY <1>1, Topmost
<1>3. z # Root /\ z \in Nodes
  BY <1>1, TreeAssumption
<1>4. Above[z] = {Parent[z]} \cup Above[Parent[z]]
  BY <1>3, TreeAssumption
<1>5. Parent[z] \in UpFrom(x)
  <2>1. CASE z = x
    BY <1>4, <2>1 DEF UpFrom
  <2>2. CASE z # x
    BY <1>4, <2>2, AboveAbove DEF UpFrom
  <2> QED BY <2>1, <2>2
<1>6. Parent[z] = a
  BY <1>2, <1>3, <1>4, <1>5
<1> QED BY <1>3, <1>6 DEF Children

\* The nodes from x up are in a line.
LEMMA InLine ==
    ASSUME NEW x \in Nodes, NEW a \in UpFrom(x), NEW b \in UpFrom(x)
    PROVE  a = b \/ a \in Above[b] \/ b \in Above[a]
<1> DEFINE B == {z \in Nodes : /\ a \in UpFrom(z) /\ b \in UpFrom(z)
                              /\ ~(a = b \/ a \in Above[b] \/ b \in Above[a])}
<1>1. ASSUME B # {} PROVE FALSE
  <2>1. PICK z \in B : z = Root \/ Parent[z] \notin B
    BY <1>1, Topmost
  <2>2. a # z /\ b # z /\ a \in Above[z] /\ b \in Above[z]
    BY DEF UpFrom
  <2>3. z # Root
    BY <2>2, TreeAssumption
  <2>4. Above[z] = {Parent[z]} \cup Above[Parent[z]] /\ Parent[z] \in Nodes
    BY <2>3, TreeAssumption
  <2>5. a \in UpFrom(Parent[z]) /\ b \in UpFrom(Parent[z])
    BY <2>2, <2>4 DEF UpFrom
  <2> QED BY <2>1, <2>3, <2>4, <2>5
<1> QED BY <1>1

\* It goes through one child of every node.
LEMMA OneChildOnWay ==
    ASSUME NEW x \in Nodes, NEW a, NEW b \in UpFrom(x), NEW c \in UpFrom(x),
           b \in Children(a), c \in Children(a)
    PROVE  b = c
<1>1. b \in Nodes /\ c \in Nodes /\ b # Root /\ c # Root /\ Parent[b] = a /\ Parent[c] = a
  BY DEF Children
<1>2. /\ Above[b] = {a} \cup Above[a] /\ Above[c] = {a} \cup Above[a]
      /\ a \in Nodes /\ a \notin Above[a] /\ b \notin Above[b] /\ c \notin Above[c]
  BY <1>1, TreeAssumption
<1>3. Above[b] = Above[c]
  BY <1>2
<1>4. c \notin Above[b] /\ b \notin Above[c]
  BY <1>2, <1>3
<1> QED BY <1>3, <1>4, InLine

\* A child of a node above x, or of x, on the way from x up.
LEMMA ParentOnWay ==
    ASSUME NEW x \in Nodes, NEW c \in UpFrom(x), c # Root
    PROVE  Parent[c] \in Above[x]
<1>1. c \in Nodes
  BY RootAbove
<1>2. Above[c] = {Parent[c]} \cup Above[Parent[c]]
  BY <1>1, TreeAssumption
<1>3. Parent[c] \in Above[c]
  BY <1>2
<1> QED BY <1>3, AboveAbove DEF UpFrom

-----------------------------------------------------------------------------
(* Sums. *)

\* f assigns natural numbers to finitely many things.
Summable(f) == IsFiniteSet(DOMAIN f) /\ \A s \in DOMAIN f : f[s] \in Nat

\* One thing's units are as many as its number.
LEMMA UnitsOfOne ==
    ASSUME NEW t, NEW k \in Nat
    PROVE  IsFiniteSet({t} \X (1 .. k)) /\ Cardinality({t} \X (1 .. k)) = k
<1>1. IsFiniteSet(1 .. k) /\ Cardinality(1 .. k) = k
  BY FS_Interval
<1>2. IsFiniteSet({t}) /\ Cardinality({t}) = 1
  BY FS_Singleton
<1>3. /\ IsFiniteSet({t} \X (1 .. k))
      /\ Cardinality({t} \X (1 .. k)) = Cardinality({t}) * Cardinality(1 .. k)
  BY <1>1, <1>2, FS_Product
<1> QED BY <1>1, <1>2, <1>3

\* A sum is a natural number.
LEMMA TotalType ==
    ASSUME NEW f, Summable(f)
    PROVE  IsFiniteSet(Units(f)) /\ Total(f) \in Nat
<1> DEFINE D == DOMAIN f
           P == {{s} \X (1 .. f[s]) : s \in D}
           g == [s \in D |-> {s} \X (1 .. f[s])]
<1>1. IsFiniteSet(D)
  BY DEF Summable
<1>2. g \in Surjection(D, P)
  BY DEF Surjection
<1>3. IsFiniteSet(P)
  <2> HIDE DEF D, P, g
  <2> QED BY <1>1, <1>2, FS_Surjection
<1>4. ASSUME NEW S \in P PROVE IsFiniteSet(S)
  <2>1. PICK s \in D : S = {s} \X (1 .. f[s])
    BY <1>4
  <2>2. f[s] \in Nat
    BY DEF Summable
  <2> QED BY <2>1, <2>2, UnitsOfOne
<1>5. IsFiniteSet(UNION P)
  <2> HIDE DEF P
  <2> QED BY <1>3, <1>4, FS_UNION
<1>6. IsFiniteSet(Units(f))
  BY <1>5 DEF Units
<1> QED BY <1>6, FS_CardinalityType DEF Total

\* The cardinality of two disjoint sets.
LEMMA CardDisjoint ==
    ASSUME NEW S, NEW T, IsFiniteSet(S), IsFiniteSet(T), S \cap T = {}
    PROVE  IsFiniteSet(S \cup T) /\ Cardinality(S \cup T) = Cardinality(S) + Cardinality(T)
<1>1. /\ IsFiniteSet(S \cup T)
      /\ Cardinality(S \cup T) = Cardinality(S) + Cardinality(T) - Cardinality(S \cap T)
  BY FS_Union
<1>2. Cardinality(S \cap T) = 0
  BY FS_EmptySet
<1>3. Cardinality(S) \in Nat /\ Cardinality(T) \in Nat
  BY FS_CardinalityType
<1> QED BY <1>1, <1>2, <1>3

\* A sum is taken over two disjoint parts.
LEMMA TotalDisjoint ==
    ASSUME NEW f, Summable(f), NEW A, NEW B, DOMAIN f = A \cup B, A \cap B = {},
           NEW g, NEW h, g = [s \in A |-> f[s]], h = [s \in B |-> f[s]]
    PROVE  /\ Summable(g) /\ Summable(h) /\ Total(f) = Total(g) + Total(h)
           /\ Total(g) \in Nat /\ Total(h) \in Nat
<1>1. Summable(g) /\ Summable(h)
  <2>1. IsFiniteSet(A) /\ IsFiniteSet(B)
    <3>1. IsFiniteSet(A \cup B)
      BY DEF Summable
    <3> QED BY <3>1, FS_Subset
  <2> QED BY <2>1 DEF Summable
<1>2. Units(f) = Units(g) \cup Units(h)
  BY DEF Units
<1>3. Units(g) \cap Units(h) = {}
  BY DEF Units
<1>4. IsFiniteSet(Units(g)) /\ IsFiniteSet(Units(h)) /\ Total(g) \in Nat /\ Total(h) \in Nat
  BY <1>1, TotalType
<1> QED BY <1>1, <1>2, <1>3, <1>4, CardDisjoint DEF Total

\* One thing and the rest.
LEMMA TotalOneApart ==
    ASSUME NEW f, Summable(f), NEW t \in DOMAIN f,
           NEW g, g = [s \in DOMAIN f \ {t} |-> f[s]]
    PROVE  Summable(g) /\ Total(f) = Total(g) + f[t] /\ Total(g) \in Nat /\ f[t] \in Nat
<1> DEFINE h == [s \in {t} |-> f[s]]
           A == DOMAIN f \ {t}
<1>1. DOMAIN f = A \cup {t} /\ A \cap {t} = {}
  OBVIOUS
<1>2. Summable(g) /\ Total(f) = Total(g) + Total(h) /\ Total(g) \in Nat
  <2>1. PICK k : k = h
    OBVIOUS
  <2> HIDE DEF h
  <2>2. k = [s \in {t} |-> f[s]]
    BY <2>1 DEF h
  <2>3. g = [s \in A |-> f[s]]
    OBVIOUS
  <2> HIDE DEF A
  <2> QED BY <1>1, <2>1, <2>2, <2>3, TotalDisjoint
<1>3. Units(h) = {t} \X (1 .. f[t])
  BY DEF Units
<1>4. f[t] \in Nat
  BY DEF Summable
<1>5. Total(h) = f[t]
  BY <1>3, <1>4, UnitsOfOne DEF Total
<1> QED BY <1>2, <1>4, <1>5

\* A change of one number.
LEMMA TotalChange ==
    ASSUME NEW f, Summable(f), NEW t \in DOMAIN f, NEW g, Summable(g), DOMAIN g = DOMAIN f,
           \A s \in DOMAIN f \ {t} : g[s] = f[s]
    PROVE  /\ Total(f) \in Nat /\ Total(g) \in Nat /\ f[t] \in Nat /\ g[t] \in Nat
           /\ f[t] <= Total(f)
           /\ Total(g) = Total(f) - f[t] + g[t]
<1>1. PICK h : h = [s \in DOMAIN f \ {t} |-> f[s]]
  OBVIOUS
<1>2. h = [s \in DOMAIN g \ {t} |-> g[s]]
  BY <1>1
<1>3. Total(f) = Total(h) + f[t] /\ Total(h) \in Nat /\ f[t] \in Nat
  BY <1>1, TotalOneApart
<1>4. Total(g) = Total(h) + g[t] /\ g[t] \in Nat
  BY <1>2, TotalOneApart
<1> QED BY <1>3, <1>4

\* A sum of zeros.
LEMMA TotalZero ==
    ASSUME NEW f, \A s \in DOMAIN f : f[s] = 0
    PROVE  Total(f) = 0
<1>1. Units(f) = {}
  BY DEF Units
<1> QED BY <1>1, FS_EmptySet DEF Total

\* A marked copy of a set.
LEMMA TagCard ==
    ASSUME NEW t, NEW S, IsFiniteSet(S)
    PROVE  IsFiniteSet({t} \X S) /\ Cardinality({t} \X S) = Cardinality(S)
<1>1. IsFiniteSet({t}) /\ Cardinality({t}) = 1
  BY FS_Singleton
<1>2. /\ IsFiniteSet({t} \X S)
      /\ Cardinality({t} \X S) = Cardinality({t}) * Cardinality(S)
  BY <1>1, FS_Product
<1>3. Cardinality(S) \in Nat
  BY FS_CardinalityType
<1> QED BY <1>1, <1>2, <1>3

\* Counting by one-to-one correspondence.
LEMMA BijCard ==
    ASSUME NEW S, NEW T, IsFiniteSet(S), NEW b \in [S -> T],
           \A u, v \in S : b[u] = b[v] => u = v,
           \A y \in T : \E u \in S : b[u] = y
    PROVE  IsFiniteSet(T) /\ Cardinality(T) = Cardinality(S)
<1>1. b \in Bijection(S, T)
  BY DEF Bijection, Injection, Surjection, IsInjective
<1>2. ExistsBijection(S, T)
  BY <1>1 DEF ExistsBijection
<1> QED BY <1>2, FS_Bijection

LEMMA BijFacts ==
    ASSUME NEW S, NEW T, NEW b \in Bijection(S, T)
    PROVE  /\ b \in [S -> T]
           /\ \A u, v \in S : b[u] = b[v] => u = v
           /\ \A y \in T : \E u \in S : b[u] = y
  BY DEF Bijection, Injection, Surjection, IsInjective

\* The numbers of elements of disjoint sets add up to that of their union.
LEMMA TotalOfCards ==
    ASSUME NEW C, IsFiniteSet(C), NEW U, \A c \in C : IsFiniteSet(U[c]),
           \A c, d \in C : c # d => U[c] \cap U[d] = {},
           NEW f, f = [c \in C |-> Cardinality(U[c])],
           NEW V, V = UNION {U[c] : c \in C}
    PROVE  Summable(f) /\ IsFiniteSet(V) /\ Total(f) = Cardinality(V)
<1>1. \A c \in C : f[c] \in Nat /\ f[c] = Cardinality(U[c])
  BY FS_CardinalityType
<1>2. Summable(f)
  BY <1>1 DEF Summable
<1>3. IsFiniteSet(Units(f)) /\ Total(f) = Cardinality(Units(f))
  BY <1>2, TotalType DEF Total
<1>4. PICK g : g = [c \in C |-> CHOOSE b : b \in Bijection(1 .. f[c], U[c])]
  OBVIOUS
<1>5. ASSUME NEW c \in C PROVE g[c] \in Bijection(1 .. f[c], U[c])
  <2>1. ExistsBijection(1 .. f[c], U[c])
    BY <1>1, FS_CardinalityType
  <2>2. \E b : b \in Bijection(1 .. f[c], U[c])
    BY <2>1 DEF ExistsBijection
  <2> QED BY <1>4, <2>2
<1>6. ASSUME NEW c \in C
      PROVE  /\ \A i \in 1 .. f[c] : g[c][i] \in U[c]
             /\ \A i, j \in 1 .. f[c] : g[c][i] = g[c][j] => i = j
             /\ \A y \in U[c] : \E i \in 1 .. f[c] : g[c][i] = y
  <2>1. /\ g[c] \in [1 .. f[c] -> U[c]]
        /\ \A i, j \in 1 .. f[c] : g[c][i] = g[c][j] => i = j
        /\ \A y \in U[c] : \E i \in 1 .. f[c] : g[c][i] = y
    <3>1. PICK b : b = g[c]
      OBVIOUS
    <3>2. PICK S : S = 1 .. f[c]
      OBVIOUS
    <3>3. b \in Bijection(S, U[c])
      BY <1>5, <3>1, <3>2
    <3>4. /\ b \in [S -> U[c]]
          /\ \A u, v \in S : b[u] = b[v] => u = v
          /\ \A y \in U[c] : \E u \in S : b[u] = y
      BY ONLY <3>3, BijFacts
    <3> QED BY ONLY <3>1, <3>2, <3>4
  <2> QED BY <2>1
<1>7. PICK h : h = [u \in Units(f) |-> g[u[1]][u[2]]]
  OBVIOUS
<1>8. ASSUME NEW u
      PROVE  u \in Units(f) <=> \E c \in C : \E i \in 1 .. f[c] : u = <<c, i>>
  BY DEF Units
<1>9. h \in [Units(f) -> V]
  <2>1. ASSUME NEW u \in Units(f) PROVE g[u[1]][u[2]] \in V
    <3>1. PICK c \in C : \E i \in 1 .. f[c] : u = <<c, i>>
      BY <1>8
    <3>2. PICK i \in 1 .. f[c] : u = <<c, i>>
      BY <3>1
    <3>3. g[u[1]][u[2]] \in U[c]
      BY <1>6, <3>2
    <3> QED BY <3>3
  <2> QED BY <1>7, <2>1
<1>10. ASSUME NEW u \in Units(f), NEW v \in Units(f), h[u] = h[v] PROVE u = v
  <2>1. PICK c \in C : \E i \in 1 .. f[c] : u = <<c, i>>
    BY <1>8
  <2>2. PICK i \in 1 .. f[c] : u = <<c, i>>
    BY <2>1
  <2>3. PICK d \in C : \E j \in 1 .. f[d] : v = <<d, j>>
    BY <1>8
  <2>4. PICK j \in 1 .. f[d] : v = <<d, j>>
    BY <2>3
  <2>5. h[u] = g[c][i] /\ h[v] = g[d][j]
    BY <1>7, <2>2, <2>4
  <2>6. g[c][i] \in U[c] /\ g[d][j] \in U[d]
    BY <1>6
  <2>7. c = d
    BY <1>10, <2>5, <2>6
  <2> QED BY <1>6, <1>10, <2>2, <2>4, <2>5, <2>7
<1>11. ASSUME NEW y \in V PROVE \E u \in Units(f) : h[u] = y
  <2>1. PICK c \in C : y \in U[c]
    OBVIOUS
  <2>2. PICK i \in 1 .. f[c] : g[c][i] = y
    BY <1>6, <2>1
  <2>3. <<c, i>> \in Units(f)
    BY <1>8
  <2> QED BY <1>7, <2>2, <2>3
<1>12. IsFiniteSet(V) /\ Cardinality(V) = Cardinality(Units(f))
  BY ONLY <1>3, <1>9, <1>10, <1>11, BijCard
<1> QED BY <1>2, <1>3, <1>12

\* A sum over other names for the same things.
LEMMA TotalReindex ==
    ASSUME NEW f, Summable(f), NEW g, NEW b \in [DOMAIN f -> DOMAIN g],
           \A s, t \in DOMAIN f : b[s] = b[t] => s = t,
           \A y \in DOMAIN g : \E s \in DOMAIN f : b[s] = y,
           \A s \in DOMAIN f : f[s] = g[b[s]]
    PROVE  Summable(g) /\ Total(g) = Total(f)
<1>1. IsFiniteSet(DOMAIN f)
  BY DEF Summable
<1>2. IsFiniteSet(DOMAIN g)
  BY <1>1, BijCard
<1>3. Summable(g)
  BY <1>2 DEF Summable
<1>4. PICK h : h = [u \in Units(f) |-> <<b[u[1]], u[2]>>]
  OBVIOUS
<1>5. ASSUME NEW u
      PROVE  u \in Units(f) <=> \E s \in DOMAIN f : \E i \in 1 .. f[s] : u = <<s, i>>
  BY DEF Units
<1>6. ASSUME NEW u
      PROVE  u \in Units(g) <=> \E s \in DOMAIN g : \E i \in 1 .. g[s] : u = <<s, i>>
  BY DEF Units
<1>7. h \in [Units(f) -> Units(g)]
  <2>1. ASSUME NEW u \in Units(f) PROVE <<b[u[1]], u[2]>> \in Units(g)
    <3>1. PICK s \in DOMAIN f : \E i \in 1 .. f[s] : u = <<s, i>>
      BY <1>5
    <3>2. u[1] = s /\ u[2] \in 1 .. f[s]
      BY <3>1
    <3>3. b[s] \in DOMAIN g /\ f[s] = g[b[s]]
      OBVIOUS
    <3> QED BY <1>6, <3>2, <3>3
  <2> QED BY <1>4, <2>1
<1>8. ASSUME NEW u \in Units(f), NEW v \in Units(f), h[u] = h[v] PROVE u = v
  <2>1. u[1] \in DOMAIN f /\ v[1] \in DOMAIN f /\ u = <<u[1], u[2]>> /\ v = <<v[1], v[2]>>
    BY <1>5
  <2>2. b[u[1]] = b[v[1]] /\ u[2] = v[2]
    BY <1>4, <1>8
  <2> QED BY <2>1, <2>2
<1>9. ASSUME NEW y \in Units(g) PROVE \E u \in Units(f) : h[u] = y
  <2>1. PICK t \in DOMAIN g : \E i \in 1 .. g[t] : y = <<t, i>>
    BY <1>6
  <2>2. PICK i \in 1 .. g[t] : y = <<t, i>>
    BY <2>1
  <2>3. PICK s \in DOMAIN f : b[s] = t
    OBVIOUS
  <2>4. <<s, i>> \in Units(f)
    BY <1>5, <2>2, <2>3
  <2> QED BY <1>4, <2>2, <2>3, <2>4
<1>10. IsFiniteSet(Units(f))
  BY TotalType
<1>11. Cardinality(Units(g)) = Cardinality(Units(f))
  BY <1>7, <1>8, <1>9, <1>10, BijCard
<1> QED BY <1>3, <1>11 DEF Total

\* Two numbers for each thing.
LEMMA TotalPlus ==
    ASSUME NEW f, Summable(f), NEW g, Summable(g), DOMAIN g = DOMAIN f,
           NEW h, h = [s \in DOMAIN f |-> f[s] + g[s]]
    PROVE  Summable(h) /\ Total(h) = Total(f) + Total(g)
<1>1. PICK D : D = DOMAIN f
  OBVIOUS
<1>2. IsFiniteSet(D) /\ \A s \in D : f[s] \in Nat /\ g[s] \in Nat
  BY <1>1 DEF Summable
<1>3. PICK U : U = [s \in D |-> ({1} \X ({s} \X (1 .. f[s]))) \cup ({2} \X ({s} \X (1 .. g[s])))]
  OBVIOUS
<1>4. ASSUME NEW s \in D PROVE IsFiniteSet(U[s]) /\ Cardinality(U[s]) = f[s] + g[s]
  <2>1. PICK A : A = {1} \X ({s} \X (1 .. f[s]))
    OBVIOUS
  <2>2. PICK B : B = {2} \X ({s} \X (1 .. g[s]))
    OBVIOUS
  <2>3. IsFiniteSet(A) /\ Cardinality(A) = f[s]
    <3>1. PICK E : E = {s} \X (1 .. f[s])
      OBVIOUS
    <3>2. IsFiniteSet(E) /\ Cardinality(E) = f[s]
      BY <1>2, <3>1, UnitsOfOne
    <3>3. A = {1} \X E
      BY <2>1, <3>1
    <3> QED BY ONLY <3>2, <3>3, TagCard
  <2>4. IsFiniteSet(B) /\ Cardinality(B) = g[s]
    <3>1. PICK E : E = {s} \X (1 .. g[s])
      OBVIOUS
    <3>2. IsFiniteSet(E) /\ Cardinality(E) = g[s]
      BY <1>2, <3>1, UnitsOfOne
    <3>3. B = {2} \X E
      BY <2>2, <3>1
    <3> QED BY ONLY <3>2, <3>3, TagCard
  <2>5. A \cap B = {}
    BY <2>1, <2>2
  <2>6. U[s] = A \cup B
    BY <1>3, <2>1, <2>2
  <2> QED BY ONLY <2>3, <2>4, <2>5, <2>6, CardDisjoint
<1>5. ASSUME NEW s \in D, NEW t \in D, s # t PROVE U[s] \cap U[t] = {}
  BY <1>3, <1>5
<1>6. h = [s \in D |-> Cardinality(U[s])]
  BY <1>1, <1>4
<1>7. PICK V : V = UNION {U[s] : s \in D}
  OBVIOUS
<1>8. Summable(h) /\ Total(h) = Cardinality(V)
  <2>1. \A s \in D : IsFiniteSet(U[s])
    BY <1>4
  <2>2. \A s, t \in D : s # t => U[s] \cap U[t] = {}
    BY <1>5
  <2> QED BY ONLY <1>2, <1>6, <1>7, <2>1, <2>2, TotalOfCards
<1>9. V = ({1} \X Units(f)) \cup ({2} \X Units(g))
  <2>1. V \subseteq ({1} \X Units(f)) \cup ({2} \X Units(g))
    BY <1>1, <1>3, <1>7 DEF Units
  <2>2. ({1} \X Units(f)) \cup ({2} \X Units(g)) \subseteq V
    BY <1>1, <1>3, <1>7 DEF Units
  <2> QED BY <2>1, <2>2
<1>10. PICK A : A = {1} \X Units(f)
  OBVIOUS
<1>11. PICK B : B = {2} \X Units(g)
  OBVIOUS
<1>12. IsFiniteSet(A) /\ Cardinality(A) = Total(f) /\ IsFiniteSet(B) /\ Cardinality(B) = Total(g)
  BY <1>10, <1>11, TotalType, TagCard DEF Total
<1>13. A \cap B = {}
  BY <1>10, <1>11
<1>14. Cardinality(V) = Total(f) + Total(g)
  <2>1. V = A \cup B
    BY <1>9, <1>10, <1>11
  <2> QED BY ONLY <1>12, <1>13, <2>1, CardDisjoint
<1> QED BY <1>8, <1>14

\* A sum is taken group by group.
LEMMA TotalByGroups ==
    ASSUME NEW f, Summable(f), NEW P, IsFiniteSet(P), NEW k \in [DOMAIN f -> P],
           NEW h, h = [p \in P |-> Total([s \in {t \in DOMAIN f : k[t] = p} |-> f[s]])]
    PROVE  Summable(h) /\ Total(h) = Total(f)
<1> DEFINE G(p) == [s \in {t \in DOMAIN f : k[t] = p} |-> f[s]]
<1>1. PICK U : U = [p \in P |-> Units(G(p))]
  OBVIOUS
<1>2. ASSUME NEW p \in P PROVE IsFiniteSet(U[p]) /\ Cardinality(U[p]) = Total(G(p))
  <2>1. PICK g : g = G(p)
    OBVIOUS
  <2>2. Summable(g)
    <3>1. {t \in DOMAIN f : k[t] = p} \in SUBSET DOMAIN f /\ IsFiniteSet(DOMAIN f)
      BY DEF Summable
    <3>2. IsFiniteSet({t \in DOMAIN f : k[t] = p})
      BY <3>1, FS_Subset
    <3> QED BY <2>1, <3>2 DEF Summable
  <2>3. IsFiniteSet(Units(g))
    BY <2>2, TotalType
  <2>4. U[p] = Units(g)
    BY <1>1, <2>1
  <2> QED BY <2>1, <2>3, <2>4 DEF Total
<1>a. ASSUME NEW p \in P, NEW u \in U[p]
      PROVE  \E s \in DOMAIN f : k[s] = p /\ u \in {s} \X (1 .. f[s])
  <2>1. u \in Units(G(p))
    BY <1>1, <1>a
  <2> QED BY <2>1 DEF Units
<1>3. ASSUME NEW p \in P, NEW q \in P, p # q PROVE U[p] \cap U[q] = {}
  <2>1. ASSUME NEW u \in U[p], u \in U[q] PROVE FALSE
    <3>1. PICK s \in DOMAIN f : k[s] = p /\ u \in {s} \X (1 .. f[s])
      BY <1>a
    <3>2. PICK t \in DOMAIN f : k[t] = q /\ u \in {t} \X (1 .. f[t])
      BY <1>a, <2>1
    <3> QED BY <1>3, <3>1, <3>2
  <2> QED BY <2>1
<1>4. PICK V : V = UNION {U[p] : p \in P}
  OBVIOUS
<1>5. V = Units(f)
  <2>1. ASSUME NEW u \in V PROVE u \in Units(f)
    <3>1. PICK p \in P : u \in U[p]
      BY <1>4, <2>1
    <3>2. PICK s \in DOMAIN f : k[s] = p /\ u \in {s} \X (1 .. f[s])
      BY <1>a, <3>1
    <3> QED BY <3>2 DEF Units
  <2>2. ASSUME NEW u \in Units(f) PROVE u \in V
    <3>1. PICK s \in DOMAIN f : u \in {s} \X (1 .. f[s])
      BY DEF Units
    <3>2. k[s] \in P
      OBVIOUS
    <3>3. u \in Units(G(k[s]))
      BY <3>1 DEF Units
    <3> QED BY <1>1, <1>4, <3>2, <3>3
  <2> QED BY <2>1, <2>2
<1>6. h = [p \in P |-> Cardinality(U[p])]
  BY <1>2
<1>7. Summable(h) /\ Total(h) = Cardinality(V)
  <2>1. \A p \in P : IsFiniteSet(U[p])
    BY <1>2
  <2>2. \A p, q \in P : p # q => U[p] \cap U[q] = {}
    BY <1>3
  <2>3. IsFiniteSet(P)
    OBVIOUS
  <2> QED BY ONLY <1>4, <1>6, <2>1, <2>2, <2>3, TotalOfCards
<1> QED BY <1>5, <1>7 DEF Total

-----------------------------------------------------------------------------
(* What the types say. *)

\* Minibatch entries are well-formed.
LEMMA EntryTypes ==
    ASSUME Types, NEW e \in Entries
    PROVE  /\ e = <<e[1], e[2]>> /\ e[1] \in Workers /\ e[2] \in 1 .. Len(minibatch[e[1]])
           /\ At(e) \in Ats /\ NodeOf(e) \in Nodes
           /\ At(e).visits \in Nat \ {0} /\ At(e).pointer \in Pointers
<1>1. PICK w \in Workers : e \in {w} \X DOMAIN minibatch[w]
  BY DEF Entries
<1>2. minibatch[w] \in Seq(Ats)
  BY DEF Types
<1>3. DOMAIN minibatch[w] = 1 .. Len(minibatch[w])
  BY <1>2
<1>4. e = <<e[1], e[2]>> /\ e[1] = w /\ e[2] \in 1 .. Len(minibatch[w])
  BY <1>1, <1>3
<1>5. At(e) \in Ats
  BY <1>2, <1>4, ElementOfSeq DEF At
<1>6. At(e).visits \in Nat \ {0} /\ At(e).pointer \in Pointers
  BY <1>5 DEF Ats
<1> QED BY <1>4, <1>5, <1>6 DEF NodeOf, Pointers

LEMMA FiniteEntries ==
    ASSUME Types
    PROVE  IsFiniteSet(Entries) /\ IsFiniteSet(Pointers)
<1> DEFINE P == {{w} \X DOMAIN minibatch[w] : w \in Workers}
           b == [w \in Workers |-> {w} \X DOMAIN minibatch[w]]
<1>1. b \in Surjection(Workers, P)
  BY DEF Surjection
<1>2. IsFiniteSet(P)
  <2> HIDE DEF P, b
  <2> QED BY <1>1, FS_Surjection, TreeAssumption
<1>3. ASSUME NEW S \in P PROVE IsFiniteSet(S)
  <2>1. PICK w \in Workers : S = {w} \X DOMAIN minibatch[w]
    OBVIOUS
  <2>2. minibatch[w] \in Seq(Ats)
    BY DEF Types
  <2>3. DOMAIN minibatch[w] = 1 .. Len(minibatch[w]) /\ Len(minibatch[w]) \in Nat
    BY <2>2
  <2> QED BY <2>1, <2>3, UnitsOfOne
<1>4. IsFiniteSet(UNION P)
  <2> HIDE DEF P
  <2> QED BY <1>2, <1>3, FS_UNION
<1>5. IsFiniteSet({"linked", "solid"})
  <2>1. IsFiniteSet({"linked"})
    BY FS_Singleton
  <2>2. IsFiniteSet({"linked"} \cup {"solid"})
    BY <2>1, FS_AddElement
  <2>3. {"linked", "solid"} = {"linked"} \cup {"solid"}
    OBVIOUS
  <2> QED BY <2>2, <2>3
<1>6. IsFiniteSet(Pointers)
  BY <1>5, FS_Product, TreeAssumption DEF Pointers
<1> QED BY <1>4, <1>6 DEF Entries

\* Everything on its way can be summed.
LEMMA FlowTypes ==
    ASSUME Types, NEW x \in Nodes
    PROVE  /\ IsFiniteSet(ClaimsOver(x)) /\ Cardinality(ClaimsOver(x)) \in Nat
           /\ Summable(OwnOver(x)) /\ Total(OwnOver(x)) \in Nat
           /\ Summable(SharedOver(x)) /\ Total(SharedOver(x)) \in Nat
<1>1. ClaimsOver(x) \in SUBSET Entries
  BY DEF ClaimsOver, Visits
<1>2. IsFiniteSet(ClaimsOver(x))
  BY <1>1, FiniteEntries, FS_Subset
<1>3. Summable(OwnOver(x))
  <2>1. DOMAIN OwnOver(x) \in SUBSET Entries
    BY DEF OwnOver, OwnCollisions
  <2>2. IsFiniteSet(DOMAIN OwnOver(x))
    BY <2>1, FiniteEntries, FS_Subset
  <2>3. ASSUME NEW e \in DOMAIN OwnOver(x) PROVE OwnOver(x)[e] \in Nat
    <3>1. At(e).visits \in Nat
      BY <2>1, EntryTypes
    <3> QED BY <3>1 DEF OwnOver
  <2> QED BY <2>2, <2>3 DEF Summable
<1>4. Summable(SharedOver(x))
  <2>1. DOMAIN SharedOver(x) \in SUBSET Pointers
    BY DEF SharedOver, Shared
  <2>2. IsFiniteSet(DOMAIN SharedOver(x))
    BY <2>1, FiniteEntries, FS_Subset
  <2>3. ASSUME NEW p \in DOMAIN SharedOver(x) PROVE SharedOver(x)[p] \in Nat
    BY <2>1 DEF SharedOver, Types
  <2> QED BY <2>2, <2>3 DEF Summable
<1> QED BY <1>2, <1>3, <1>4, FS_CardinalityType, TotalType

LEMMA FlowTypesAll ==
    Types => \A x \in Nodes :
        /\ IsFiniteSet(ClaimsOver(x)) /\ Cardinality(ClaimsOver(x)) \in Nat
        /\ Summable(OwnOver(x)) /\ Total(OwnOver(x)) \in Nat
        /\ Summable(SharedOver(x)) /\ Total(SharedOver(x)) \in Nat
  BY FlowTypes

\* The same in the state after a step.
LEMMA FlowTypesAfter ==
    (Types => \A x \in Nodes :
        /\ IsFiniteSet(ClaimsOver(x)) /\ Cardinality(ClaimsOver(x)) \in Nat
        /\ Summable(OwnOver(x)) /\ Total(OwnOver(x)) \in Nat
        /\ Summable(SharedOver(x)) /\ Total(SharedOver(x)) \in Nat)'
  BY FlowTypesAll, PTL

-----------------------------------------------------------------------------
(* What happens to the minibatches. *)

LEMMA EntryOf ==
    ASSUME Types, NEW e
    PROVE  e \in Entries <=> \E w \in Workers : \E i \in 1 .. Len(minibatch[w]) : e = <<w, i>>
<1>1. ASSUME NEW w \in Workers PROVE DOMAIN minibatch[w] = 1 .. Len(minibatch[w])
  <2>1. minibatch[w] \in Seq(Ats)
    BY DEF Types
  <2> QED BY <2>1
<1> QED BY <1>1 DEF Entries

LEMMA EntryTyped ==
    ASSUME NEW x \in Nodes, NEW visits \in Nat \ {0}, NEW kind \in {"Visit", "Collision"}
    PROVE  /\ Entry(x, visits, kind) \in Ats
           /\ Entry(x, visits, kind).pointer = Pointer(x) /\ Pointer(x)[1] = x
           /\ Entry(x, visits, kind).visits = visits
           /\ IsCollision(Entry(x, visits, kind)) <=> kind = "Collision"
<1>1. Pointer(x) \in Pointers /\ Pointer(x)[1] = x
  BY DEF Pointer, Pointers, Where
<1> QED BY <1>1 DEF Entry, Ats, IsCollision

\* Collide and Visit append an entry.
LEMMA Appended ==
    ASSUME Types, NEW w \in Workers, NEW v \in Ats,
           minibatch' = [minibatch EXCEPT ![w] = Append(@, v)],
           NEW new, new = <<w, Len(minibatch[w]) + 1>>
    PROVE  /\ minibatch' \in [Workers -> Seq(Ats)]
           /\ Entries' = Entries \cup {new} /\ new \notin Entries
           /\ At(new)' = v
           /\ \A e \in Entries : At(e)' = At(e)
           /\ \A u \in Workers \ {w} : minibatch'[u] = minibatch[u]
           /\ minibatch'[w] # << >>
           /\ Len(minibatch'[w]) = Len(minibatch[w]) + 1
           /\ minibatch'[w][Len(minibatch'[w])] = v
<1>1. PICK m : m = minibatch[w]
  OBVIOUS
<1>2. m \in Seq(Ats) /\ minibatch \in [Workers -> Seq(Ats)]
  BY <1>1 DEF Types
<1>3. /\ Append(m, v) \in Seq(Ats) /\ Append(m, v) # << >>
      /\ Len(Append(m, v)) = Len(m) + 1
      /\ \A i \in 1 .. Len(m) : Append(m, v)[i] = m[i]
      /\ Append(m, v)[Len(m) + 1] = v
  BY <1>2, AppendProperties
<1>4. Len(m) \in Nat
  BY <1>2
<1>5. minibatch'[w] = Append(m, v) /\ \A u \in Workers \ {w} : minibatch'[u] = minibatch[u]
  BY <1>1, <1>2
<1>6. minibatch' \in [Workers -> Seq(Ats)]
  BY <1>1, <1>2, <1>3
<1>7. ASSUME NEW u \in Workers, NEW i
      PROVE  i \in DOMAIN minibatch'[u] <=> i \in DOMAIN minibatch[u] \/ <<u, i>> = new
  <2>1. CASE u = w
    <3>1. DOMAIN minibatch'[u] = 1 .. Len(m) + 1 /\ DOMAIN minibatch[u] = 1 .. Len(m)
      BY <1>1, <1>2, <1>3, <1>5, <2>1
    <3> QED BY <1>1, <1>4, <2>1, <3>1
  <2>2. CASE u # w
    BY <1>5, <2>2
  <2> QED BY <2>1, <2>2
<1>8. Entries' = Entries \cup {new}
  BY <1>7 DEF Entries
<1>9. new \notin Entries
  <2>1. DOMAIN minibatch[w] = 1 .. Len(m)
    BY <1>1, <1>2
  <2> QED BY <1>1, <1>4, <2>1 DEF Entries
<1>10. At(new)' = v
  BY <1>1, <1>3, <1>5 DEF At
<1>11. ASSUME NEW e \in Entries PROVE At(e)' = At(e)
  <2>1. e[1] \in Workers /\ e[2] \in 1 .. Len(minibatch[e[1]])
    BY EntryTypes
  <2> QED BY <1>1, <1>3, <1>5, <2>1 DEF At
<1> QED BY <1>1, <1>3, <1>5, <1>6, <1>8, <1>9, <1>10, <1>11

\* Out of order evaluation takes the last entry off.
LEMMA RemovedLast ==
    ASSUME Types, NEW w \in Workers, minibatch[w] # << >>,
           minibatch' = [minibatch EXCEPT ![w] = SubSeq(@, 1, Len(@) - 1)],
           NEW last, last = <<w, Len(minibatch[w])>>
    PROVE  /\ minibatch' \in [Workers -> Seq(Ats)]
           /\ Entries' = Entries \ {last} /\ last \in Entries
           /\ \A e \in Entries' : At(e)' = At(e)
           /\ \A u \in Workers \ {w} : minibatch'[u] = minibatch[u]
<1>1. PICK m : m = minibatch[w]
  OBVIOUS
<1>2. m \in Seq(Ats) /\ minibatch \in [Workers -> Seq(Ats)] /\ m # << >>
  BY <1>1 DEF Types
<1>3. Len(m) \in Nat /\ Len(m) > 0 /\ \A i \in 1 .. Len(m) : m[i] \in Ats
  BY <1>2, EmptySeq
<1>4. PICK r : r = SubSeq(m, 1, Len(m) - 1)
  OBVIOUS
<1>5. /\ r \in Seq(Ats) /\ Len(r) = Len(m) - 1
      /\ \A i \in 1 .. Len(m) - 1 : r[i] = m[i]
  <2>0. Len(m) - 1 \in Int
    BY <1>3
  <2>1. PICK k \in Int : k = Len(m) - 1
    BY ONLY <2>0
  <2>2. \A i \in 1 .. k : m[i] \in Ats
    BY <1>3, <2>1
  <2>3. /\ SubSeq(m, 1, k) \in Seq(Ats)
        /\ Len(SubSeq(m, 1, k)) = IF 1 <= k THEN k - 1 + 1 ELSE 0
        /\ \A i \in 1 .. k - 1 + 1 : SubSeq(m, 1, k)[i] = m[1 + i - 1]
    BY ONLY <2>2, SubSeqProperties
  <2> QED BY <1>3, <1>4, <2>1, <2>3
<1>6. minibatch'[w] = r /\ \A u \in Workers \ {w} : minibatch'[u] = minibatch[u]
  BY <1>1, <1>2, <1>4
<1>7. minibatch' \in [Workers -> Seq(Ats)]
  BY <1>1, <1>2, <1>4, <1>5
<1>8. ASSUME NEW u \in Workers, NEW i
      PROVE  i \in DOMAIN minibatch'[u] <=> i \in DOMAIN minibatch[u] /\ <<u, i>> # last
  <2>1. CASE u = w
    <3>1. DOMAIN minibatch'[u] = 1 .. Len(m) - 1 /\ DOMAIN minibatch[u] = 1 .. Len(m)
      BY <1>1, <1>2, <1>5, <1>6, <2>1
    <3> QED BY <1>1, <1>3, <2>1, <3>1
  <2>2. CASE u # w
    BY <1>6, <2>2
  <2> QED BY <2>1, <2>2
<1>9. Entries' = Entries \ {last}
  BY <1>8 DEF Entries
<1>10. last \in Entries
  <2>1. DOMAIN minibatch[w] = 1 .. Len(m)
    BY <1>1, <1>2
  <2> QED BY <1>1, <1>3, <2>1 DEF Entries
<1>11. ASSUME NEW e \in Entries' PROVE At(e)' = At(e)
  <2>1. e \in Entries /\ e # last
    BY <1>9
  <2>2. e[1] \in Workers /\ e[2] \in 1 .. Len(minibatch[e[1]]) /\ e = <<e[1], e[2]>>
    BY <2>1, EntryTypes
  <2>3. CASE e[1] = w
    <3>1. e[2] \in 1 .. Len(m) - 1
      BY <1>1, <1>3, <2>1, <2>2, <2>3
    <3> QED BY <1>1, <1>5, <1>6, <2>3, <3>1 DEF At
  <2>4. CASE e[1] # w
    BY <1>6, <2>2, <2>4 DEF At
  <2> QED BY <2>3, <2>4
<1> QED BY <1>6, <1>7, <1>9, <1>10, <1>11

\* b gives the place before the step of what has a place after it.
Shifted(b, w, first) ==
    /\ b \in [Entries' -> Entries \ {first}]
    /\ \A e, f \in Entries' : b[e] = b[f] => e = f
    /\ \A y \in Entries \ {first} : \E e \in Entries' : b[e] = y
    /\ \A e \in Entries' : At(e)' = At(b[e]) /\ e[1] = b[e][1]
    /\ \A e \in Entries' : e[1] # w => b[e] = e

\* DoBackupUpdate takes the first entry off: what was in place i + 1 is in place i.
LEMMA RemovedFirst ==
    ASSUME Types, NEW w \in Workers, minibatch[w] # << >>,
           minibatch' = [minibatch EXCEPT ![w] = Tail(@)],
           NEW first, first = <<w, 1>>
    PROVE  /\ minibatch' \in [Workers -> Seq(Ats)]
           /\ first \in Entries /\ At(first) = Head(minibatch[w])
           /\ \E d : Shifted(d, w, first)
           /\ \A e \in Entries : e[1] # w => e \in Entries' /\ At(e)' = At(e)
           /\ \A u \in Workers \ {w} : minibatch'[u] = minibatch[u]
<1>b. PICK b : b = [e \in Entries' |-> IF e[1] = w THEN <<w, e[2] + 1>> ELSE e]
  OBVIOUS
<1>1. PICK m : m = minibatch[w]
  OBVIOUS
<1>2. m \in Seq(Ats) /\ minibatch \in [Workers -> Seq(Ats)] /\ m # << >>
  BY <1>1 DEF Types
<1>3. Len(m) \in Nat /\ Len(m) > 0
  BY <1>2, EmptySeq
<1>4. PICK r : r = Tail(m)
  OBVIOUS
<1>5. /\ r \in Seq(Ats) /\ Len(r) = Len(m) - 1
      /\ \A i \in 1 .. Len(m) - 1 : r[i] = m[i + 1]
  <2>1. /\ Tail(m) \in Seq(Ats) /\ Len(Tail(m)) = Len(m) - 1
        /\ \A i \in 1 .. Len(Tail(m)) : Tail(m)[i] = m[i + 1]
    BY ONLY <1>2, HeadTailProperties
  <2> QED BY <1>4, <2>1
<1>6. minibatch'[w] = r /\ \A u \in Workers \ {w} : minibatch'[u] = minibatch[u]
  BY <1>1, <1>2, <1>4
<1>7. minibatch' \in [Workers -> Seq(Ats)]
  BY <1>1, <1>2, <1>4, <1>5
<1>8. DOMAIN minibatch'[w] = 1 .. Len(m) - 1 /\ DOMAIN minibatch[w] = 1 .. Len(m)
  BY <1>1, <1>2, <1>5, <1>6
<1>9. ASSUME NEW e
      PROVE  e \in Entries <=> \/ \E i \in 1 .. Len(m) : e = <<w, i>>
                               \/ \E u \in Workers \ {w} : e \in {u} \X DOMAIN minibatch[u]
  BY <1>8 DEF Entries
<1>10. ASSUME NEW e
       PROVE  e \in Entries' <=> \/ \E i \in 1 .. Len(m) - 1 : e = <<w, i>>
                                 \/ \E u \in Workers \ {w} : e \in {u} \X DOMAIN minibatch[u]
  BY <1>6, <1>8 DEF Entries
<1>11. first \in Entries /\ At(first) = Head(minibatch[w])
  <2>1. 1 \in 1 .. Len(m)
    BY <1>3
  <2>2. first \in Entries
    BY <1>9, <2>1
  <2>3. At(first) = m[1] /\ Head(m) = m[1]
    BY <1>1, <1>2 DEF At
  <2> QED BY <1>1, <2>2, <2>3
<1>12. ASSUME NEW e \in Entries'
       PROVE  /\ b[e] \in Entries \ {first} /\ At(e)' = At(b[e]) /\ e[1] = b[e][1]
              /\ e[1] # w => b[e] = e
  <2>1. CASE \E i \in 1 .. Len(m) - 1 : e = <<w, i>>
    <3>1. PICK i \in 1 .. Len(m) - 1 : e = <<w, i>>
      BY <2>1
    <3>2. b[e] = <<w, i + 1>>
      BY <1>b, <3>1
    <3>3. i + 1 \in 1 .. Len(m) /\ i + 1 # 1 /\ i \in Int
      BY <1>3
    <3>4. b[e] \in Entries \ {first}
      BY <1>9, <3>2, <3>3
    <3>5. At(e)' = r[i] /\ At(b[e]) = m[i + 1]
      BY <1>1, <1>6, <3>1, <3>2 DEF At
    <3>6. At(e)' = At(b[e])
      BY <1>5, <3>5
    <3> QED BY <3>1, <3>2, <3>4, <3>6
  <2>2. CASE \E u \in Workers \ {w} : e \in {u} \X DOMAIN minibatch[u]
    <3>1. PICK u \in Workers \ {w} : e \in {u} \X DOMAIN minibatch[u]
      BY <2>2
    <3>2. e[1] = u /\ u # w /\ b[e] = e
      BY <1>b, <3>1
    <3>3. e \in Entries
      BY <1>9, <2>2
    <3> QED BY <1>6, <3>1, <3>2, <3>3 DEF At
  <2> QED BY <1>10, <2>1, <2>2
<1>a. ASSUME NEW e \in Entries', e[1] = w PROVE \E i \in 1 .. Len(m) - 1 : e = <<w, i>>
  BY <1>10, <1>a
<1>13. ASSUME NEW e \in Entries', NEW f \in Entries', b[e] = b[f] PROVE e = f
  <2>1. e[1] = f[1]
    BY <1>12, <1>13
  <2>2. CASE e[1] = w
    <3>1. PICK i \in 1 .. Len(m) - 1 : e = <<w, i>>
      BY <1>a, <2>2
    <3>2. PICK j \in 1 .. Len(m) - 1 : f = <<w, j>>
      BY <1>a, <2>1, <2>2
    <3>3. b[e] = <<w, i + 1>> /\ b[f] = <<w, j + 1>>
      BY <1>b, <3>1, <3>2
    <3>4. <<w, i + 1>> = <<w, j + 1>>
      BY ONLY <1>13, <3>3
    <3>5. i + 1 = j + 1
      BY ONLY <3>4
    <3>6. i \in Int /\ j \in Int
      BY <1>3
    <3> QED BY <3>1, <3>2, <3>5, <3>6
  <2>3. CASE e[1] # w
    BY <1>12, <1>13, <2>1, <2>3
  <2> QED BY <2>2, <2>3
<1>14. ASSUME NEW e \in Entries, e[1] # w PROVE e \in Entries' /\ At(e)' = At(e)
  <2>1. PICK u \in Workers \ {w} : e \in {u} \X DOMAIN minibatch[u]
    BY <1>9, <1>14
  <2>2. e \in Entries'
    BY <1>10, <2>1
  <2> QED BY <1>6, <2>1, <2>2 DEF At
<1>15. ASSUME NEW y \in Entries \ {first} PROVE \E e \in Entries' : b[e] = y
  <2>1. CASE y[1] = w
    <3>1. PICK i \in 1 .. Len(m) : y = <<w, i>>
      BY <1>9, <2>1
    <3>2. i - 1 \in 1 .. Len(m) - 1 /\ i - 1 + 1 = i
      BY <1>3, <3>1
    <3>3. <<w, i - 1>> \in Entries'
      BY <1>10, <3>2
    <3>4. b[<<w, i - 1>>] = <<w, i - 1 + 1>>
      BY <1>b, <3>3
    <3> QED BY <3>1, <3>2, <3>3, <3>4
  <2>2. CASE y[1] # w
    BY <1>12, <1>14, <2>2
  <2> QED BY <2>1, <2>2
<1>16. b \in [Entries' -> Entries \ {first}]
  BY <1>12, <1>b
<1>17. /\ b \in [Entries' -> Entries \ {first}]
       /\ \A e, f \in Entries' : b[e] = b[f] => e = f
       /\ \A y \in Entries \ {first} : \E e \in Entries' : b[e] = y
       /\ \A e \in Entries' : At(e)' = At(b[e]) /\ e[1] = b[e][1]
       /\ \A e \in Entries' : e[1] # w => b[e] = e
  BY <1>12, <1>13, <1>15, <1>16
<1>18. \E d : Shifted(d, w, first)
  BY <1>17 DEF Shifted
<1> QED BY <1>6, <1>7, <1>11, <1>14, <1>18

-----------------------------------------------------------------------------
(* Steps that leave the counts alone. *)

Gathering(w) == pc[w] \in {"gather", "extend", "own_edge", "picked"}

\* The minibatches stay, and nobody begins or ends gathering.
LEMMA BatchesStay ==
    ASSUME UNCHANGED <<minibatch, shared_collisions_>>,
           \A w \in Workers : Gathering(w)' <=> Gathering(w), Types
    PROVE  /\ Entries' = Entries /\ Visits' = Visits /\ OwnCollisions' = OwnCollisions
           /\ Shared' = Shared
           /\ \A e : At(e)' = At(e) /\ NodeOf(e)' = NodeOf(e)
           /\ \A x \in Nodes : /\ ClaimsOver(x)' = ClaimsOver(x)
                               /\ OwnOver(x)' = OwnOver(x)
                               /\ SharedOver(x)' = SharedOver(x)
<1>1. Entries' = Entries
  BY DEF Entries
<1>2. ASSUME NEW e PROVE At(e)' = At(e) /\ NodeOf(e)' = NodeOf(e)
  BY DEF At, NodeOf
<1>3. Visits' = Visits
  BY <1>1, <1>2 DEF Visits
<1>4. OwnCollisions' = OwnCollisions
  <2>1. ASSUME NEW e \in Entries
        PROVE  /\ pc'[e[1]] \in {"gather", "extend", "own_edge", "picked"}
                  <=> pc[e[1]] \in {"gather", "extend", "own_edge", "picked"}
               /\ IsCollision(At(e))' <=> IsCollision(At(e))
    <3>1. e[1] \in Workers
      BY EntryTypes
    <3> QED BY <1>2, <3>1 DEF Gathering, IsCollision
  <2> QED BY <1>1, <2>1 DEF OwnCollisions, IsCollision
<1>5. Shared' = Shared
  BY DEF Shared
<1>6. ASSUME NEW x \in Nodes
      PROVE  ClaimsOver(x)' = ClaimsOver(x) /\ OwnOver(x)' = OwnOver(x) /\ SharedOver(x)' = SharedOver(x)
  <2>1. ClaimsOver(x)' = ClaimsOver(x)
    BY <1>2, <1>3 DEF ClaimsOver, UpFrom
  <2>2. OwnOver(x)' = OwnOver(x)
    BY <1>2, <1>4 DEF OwnOver
  <2>3. SharedOver(x)' = SharedOver(x)
    BY <1>5 DEF SharedOver
  <2> QED BY <2>1, <2>2, <2>3
<1> QED BY <1>1, <1>2, <1>3, <1>4, <1>5, <1>6

\* A worker goes on, and only edges and terminals may be added.
LEMMA LocalStep ==
    ASSUME TreeInv, NEW w \in Workers, NEW where,
           Goto(w, where), UNCHANGED <<counts, solid, minibatch, shared_collisions_, destroyed>>,
           \/ pc[w] \in {"extend", "own_edge", "picked"}
              /\ where \in {"gather", "own_edge", "picked"}
           \/ pc[w] = "fetch" /\ where = "backup",
           edges' \in SUBSET Nodes, terminal' \in SUBSET Nodes,
           edges \subseteq edges', terminal \subseteq terminal',
           (terminal' \ terminal) \cap TwoFold = {},
           \A x \in edges' \ edges : n[x] = 0 => \E e \in Visits : NodeOf(e) = x,
           \A e \in Visits : e[1] = w /\ ToExtend(e) => NodeOf(e) \in edges' \cup terminal'
    PROVE  TreeInv'
<1> USE DEF counts
<1>1. Types /\ Types'
  BY DEF TreeInv, Types, Goto
<1>2. pc'[w] = where /\ \A u \in Workers \ {w} : pc'[u] = pc[u]
  BY <1>1 DEF Types, Goto
<1>3. \A u \in Workers : Gathering(u)' <=> Gathering(u)
  BY <1>2 DEF Gathering
<1>4. /\ Entries' = Entries /\ Visits' = Visits /\ OwnCollisions' = OwnCollisions
      /\ Shared' = Shared
      /\ \A e : At(e)' = At(e) /\ NodeOf(e)' = NodeOf(e)
      /\ \A x \in Nodes : /\ ClaimsOver(x)' = ClaimsOver(x)
                          /\ OwnOver(x)' = OwnOver(x)
                          /\ SharedOver(x)' = SharedOver(x)
  BY <1>1, <1>3, BatchesStay
<1>5. \A u \in Workers : BatchFits(u)'
  BY <1>2 DEF TreeInv, BatchFits, IsCollision
<1>6. Ended'
  BY <1>2 DEF TreeInv, Ended
<1>7. \A x \in Nodes : InFlight(x)'
  BY <1>4 DEF TreeInv, InFlight
<1>8. ASSUME NEW p PROVE Live(p)' <=> Live(p)
  BY DEF Live, Where
<1>9. CollisionsLive'
  BY <1>4, <1>8 DEF TreeInv, CollisionsLive, Live, Where
<1>10. ASSUME NEW e \in Visits PROVE ClaimRight(e)'
  <2>1. ClaimRight(e)
    BY DEF TreeInv
  <2>2. Live(At(e).pointer)'
    BY <1>4, <2>1 DEF ClaimRight, Live, Where
  <2>3. e \in Entries /\ e[1] \in Workers /\ NodeOf(e) \in Nodes
    BY <1>1, EntryTypes DEF Visits
  <2>4. NodeOf(e) \in edges' \cup terminal' \/ ToExtend(e)'
    <3>1. CASE e[1] = w
      BY <2>1, <3>1 DEF ClaimRight
    <3>2. CASE e[1] # w
      BY <1>2, <2>1, <2>3, <3>2 DEF ClaimRight, ToExtend
    <3> QED BY <3>1, <3>2
  <2>5. ~IsTwoFoldTerminal(NodeOf(e))'
    BY <1>4, <2>1 DEF ClaimRight, IsTwoFoldTerminal
  <2>6. \A f \in Visits : f # e /\ NodeOf(f) = NodeOf(e) => NodeOf(e) \in terminal'
    BY <2>1 DEF ClaimRight
  <2>7. /\ NodeOf(e) \in terminal' \/ n[NodeOf(e)] = 0
        /\ \A a \in Above[NodeOf(e)] : n[a] > 0 /\ a \in edges'
    BY <2>1 DEF ClaimRight
  <2> QED BY <1>4, <2>2, <2>4, <2>5, <2>6, <2>7 DEF ClaimRight
<1>11. VisitsFit'
  BY <1>4 DEF TreeInv, VisitsFit
<1>12. CountsAddUp'
  BY DEF TreeInv, CountsAddUp, Children
<1> QED BY <1>1, <1>4, <1>5, <1>6, <1>7, <1>9, <1>10, <1>11, <1>12 DEF TreeInv

\* The node that a worker is busy with is its last claim.
LEMMA LastClaim ==
    ASSUME TreeInv, NEW w \in Workers, pc[w] \in {"extend", "own_edge", "picked"},
           NEW last, last = <<w, Len(minibatch[w])>>
    PROVE  last \in Visits /\ NodeOf(last) = Picked(w) /\ Picked(w) \in Nodes
<1>1. minibatch[w] # << >> /\ ~IsCollision(minibatch[w][Len(minibatch[w])])
  BY DEF TreeInv, BatchFits
<1>2. minibatch[w] \in Seq(Ats)
  BY DEF TreeInv, Types
<1>3. Len(minibatch[w]) \in 1 .. Len(minibatch[w])
  <2>1. Len(minibatch[w]) \in Nat \ {0}
    BY <1>1, <1>2, EmptySeq
  <2> QED BY <2>1
<1>4. Types
  BY DEF TreeInv
<1>5. last \in Entries
  BY <1>3, <1>4, EntryOf
<1>6. At(last) = minibatch[w][Len(minibatch[w])]
  BY DEF At
<1>7. last \in Visits
  BY <1>1, <1>5, <1>6 DEF Visits
<1> QED BY <1>4, <1>5, <1>6, <1>7, EntryTypes DEF NodeOf, Picked

LEMMA ExtendNodeKeeps ==
    ASSUME TreeInv, NEW w \in Workers, ExtendNode(w)
    PROVE  TreeInv'
<1>1. pc[w] = "extend"
  BY DEF ExtendNode
<1>2. PICK last : last = <<w, Len(minibatch[w])>>
  OBVIOUS
<1>3. last \in Visits /\ NodeOf(last) = Picked(w) /\ Picked(w) \in Nodes
  BY <1>1, <1>2, LastClaim
<1>4. PICK x \in Nodes : x = Picked(w)
  BY <1>3
<1>5. /\ edges' = edges \cup ({x} \ GameOver) /\ terminal' = terminal \cup ({x} \cap GameOver)
      /\ UNCHANGED <<counts, solid, minibatch, shared_collisions_, destroyed>>
  BY <1>4 DEF ExtendNode
<1>6. PICK where \in {"own_edge", "picked"} : Goto(w, where)
  <2>1. CASE Picked(w) \in TablebaseWins
    BY <2>1 DEF ExtendNode
  <2>2. CASE Picked(w) \notin TablebaseWins
    BY <2>2 DEF ExtendNode
  <2> QED BY <2>1, <2>2
<1>7. edges \subseteq Nodes /\ terminal \subseteq Nodes
  BY DEF TreeInv, Types
<1>8. (terminal' \ terminal) \cap TwoFold = {}
  BY <1>5, TreeAssumption
<1>9. \A y \in edges' \ edges : n[y] = 0 => \E e \in Visits : NodeOf(e) = y
  BY <1>3, <1>4, <1>5
<1>10. ASSUME NEW e \in Visits, e[1] = w, ToExtend(e) PROVE NodeOf(e) \in edges' \cup terminal'
  <2>1. e \in Entries /\ e = <<e[1], e[2]>>
    BY EntryTypes DEF TreeInv, Visits
  <2>2. e = last
    BY <1>2, <1>10, <2>1 DEF ToExtend
  <2> QED BY <1>3, <1>4, <1>5, <2>2
<1>11. edges' \in SUBSET Nodes /\ terminal' \in SUBSET Nodes /\ edges \subseteq edges'
       /\ terminal \subseteq terminal'
  BY <1>5, <1>7
<1> QED BY <1>1, <1>5, <1>6, <1>8, <1>9, <1>10, <1>11, LocalStep

\* ClearOwnPolicy, KeepPicked and FetchMinibatchResults leave the tree alone.
LEMMA GoOnKeeps ==
    ASSUME TreeInv, NEW w \in Workers,
           ClearOwnPolicy(w) \/ KeepPicked(w) \/ FetchMinibatchResults(w)
    PROVE  TreeInv'
<1>1. PICK where : /\ Goto(w, where)
                   /\ \/ pc[w] \in {"extend", "own_edge", "picked"}
                         /\ where \in {"gather", "own_edge", "picked"}
                      \/ pc[w] = "fetch" /\ where = "backup"
  <2>1. CASE ClearOwnPolicy(w)
    BY <2>1 DEF ClearOwnPolicy
  <2>2. CASE KeepPicked(w)
    BY <2>2 DEF KeepPicked
  <2>3. CASE FetchMinibatchResults(w)
    BY <2>3 DEF FetchMinibatchResults
  <2> QED BY <2>1, <2>2, <2>3
<1>2. pc[w] # "extend"
  BY DEF ClearOwnPolicy, KeepPicked, FetchMinibatchResults
<1>3. UNCHANGED <<counts, edges, terminal, solid, minibatch, shared_collisions_, destroyed>>
  BY DEF ClearOwnPolicy, KeepPicked, FetchMinibatchResults, shape, local
<1>4. edges \in SUBSET Nodes /\ terminal \in SUBSET Nodes
  BY DEF TreeInv, Types
<1>5. \A e \in Visits : e[1] = w /\ ToExtend(e) => NodeOf(e) \in edges' \cup terminal'
  BY <1>2 DEF ToExtend
<1>6. /\ edges' \in SUBSET Nodes /\ terminal' \in SUBSET Nodes
      /\ edges \subseteq edges' /\ terminal \subseteq terminal'
      /\ (terminal' \ terminal) \cap TwoFold = {}
      /\ \A x \in edges' \ edges : n[x] = 0 => \E e \in Visits : NodeOf(e) = x
  BY <1>3, <1>4
<1>7. UNCHANGED <<counts, solid, minibatch, shared_collisions_, destroyed>>
  BY <1>3
<1> QED BY <1>1, <1>5, <1>6, <1>7, LocalStep

-----------------------------------------------------------------------------
(* GatherMinibatch. *)

\* What an appended entry adds to the flow.
LEMMA AppendedFlow ==
    ASSUME Types, NEW w \in Workers, NEW v \in Ats,
           minibatch' = [minibatch EXCEPT ![w] = Append(@, v)],
           Gathering(w), Gathering(w)', \A u \in Workers \ {w} : pc'[u] = pc[u],
           shared_collisions_' = shared_collisions_,
           NEW new, new = <<w, Len(minibatch[w]) + 1>>
    PROVE  /\ new \notin Entries /\ At(new)' = v /\ NodeOf(new)' = v.pointer[1]
           /\ \A e \in Entries : At(e)' = At(e) /\ NodeOf(e)' = NodeOf(e)
           /\ IsCollision(v) => /\ Visits' = Visits /\ OwnCollisions' = OwnCollisions \cup {new}
           /\ ~IsCollision(v) => /\ Visits' = Visits \cup {new} /\ OwnCollisions' = OwnCollisions
           /\ Shared' = Shared
<1>1. /\ Entries' = Entries \cup {new} /\ new \notin Entries /\ At(new)' = v
      /\ \A e \in Entries : At(e)' = At(e)
  BY Appended
<1>2. ASSUME NEW e \in Entries PROVE IsCollision(At(e))' <=> IsCollision(At(e))
  BY <1>1 DEF IsCollision
<1>3. IsCollision(At(new))' <=> IsCollision(v)
  BY <1>1 DEF IsCollision
<1>4. ASSUME NEW e \in Entries PROVE Gathering(e[1])' <=> Gathering(e[1])
  <2>1. e[1] \in Workers
    BY EntryTypes
  <2> QED BY <2>1 DEF Gathering
<1>5. Gathering(new[1])'
  OBVIOUS
<1>6. Visits' = {e \in Entries' : ~IsCollision(At(e))'}
  BY DEF Visits
<1>7. OwnCollisions' = {e \in Entries' : IsCollision(At(e))' /\ Gathering(e[1])'}
  BY DEF OwnCollisions, Gathering
<1>8. OwnCollisions = {e \in Entries : IsCollision(At(e)) /\ Gathering(e[1])}
  BY DEF OwnCollisions, Gathering
<1>9. ASSUME IsCollision(v)
      PROVE  Visits' = Visits /\ OwnCollisions' = OwnCollisions \cup {new}
  <2>1. Visits' = Visits
    BY <1>1, <1>2, <1>3, <1>6, <1>9 DEF Visits
  <2>2. OwnCollisions' = OwnCollisions \cup {new}
    BY <1>1, <1>2, <1>3, <1>4, <1>5, <1>7, <1>8, <1>9
  <2> QED BY <2>1, <2>2
<1>10. ASSUME ~IsCollision(v)
       PROVE  Visits' = Visits \cup {new} /\ OwnCollisions' = OwnCollisions
  <2>1. Visits' = Visits \cup {new}
    BY <1>1, <1>2, <1>3, <1>6, <1>10 DEF Visits
  <2>2. OwnCollisions' = OwnCollisions
    BY <1>1, <1>2, <1>3, <1>4, <1>7, <1>8, <1>10
  <2> QED BY <2>1, <2>2
<1>11. Shared' = Shared
  BY DEF Shared
<1>12. NodeOf(new)' = v.pointer[1] /\ \A e \in Entries : NodeOf(e)' = NodeOf(e)
  BY <1>1 DEF NodeOf
<1> QED BY <1>1, <1>9, <1>10, <1>11, <1>12

\* A function with one more thing in its domain.
LEMMA TotalOneMore ==
    ASSUME NEW f, Summable(f), NEW g, NEW t, t \notin DOMAIN f, DOMAIN g = DOMAIN f \cup {t},
           \A s \in DOMAIN f : g[s] = f[s], g[t] \in Nat, f = [s \in DOMAIN f |-> f[s]]
    PROVE  Total(g) = Total(f) + g[t]
<1>1. IsFiniteSet(DOMAIN f \cup {t})
  BY FS_AddElement DEF Summable
<1>2. Summable(g)
  BY <1>1 DEF Summable
<1>3. DOMAIN g \ {t} = DOMAIN f
  OBVIOUS
<1>4. f = [s \in DOMAIN g \ {t} |-> g[s]]
  BY <1>3
<1> QED BY <1>2, <1>4, TotalOneApart

LEMMA CollideFlow ==
    ASSUME Types, Types', NEW x \in Nodes, NEW new, new \notin Entries,
           At(new)'.visits \in Nat,
           OwnCollisions' = OwnCollisions \cup {new},
           \A e \in Entries : At(e)' = At(e) /\ NodeOf(e)' = NodeOf(e)
    PROVE  Total(OwnOver(x)') = Total(OwnOver(x))
                                + (IF x \in Above[NodeOf(new)'] THEN At(new)'.visits ELSE 0)
<1>1. Summable(OwnOver(x)) /\ Total(OwnOver(x)) \in Nat
  BY FlowTypes
<1>2. OwnCollisions \subseteq Entries
  BY DEF OwnCollisions
<1>3. PICK f : f = OwnOver(x)
  OBVIOUS
<1>4. PICK g : g = OwnOver(x)'
  OBVIOUS
<1>5. f = [e \in {d \in OwnCollisions : x \in Above[NodeOf(d)]} |-> At(e).visits]
  BY <1>3 DEF OwnOver
<1>6. g = [e \in {d \in OwnCollisions' : x \in Above[NodeOf(d)']} |-> At(e)'.visits]
  BY <1>4 DEF OwnOver
<1>7. f = [s \in DOMAIN f |-> f[s]]
  BY <1>5
<1>8. CASE x \in Above[NodeOf(new)']
  <2>1. DOMAIN g = DOMAIN f \cup {new}
    BY <1>2, <1>5, <1>6, <1>8
  <2>2. new \notin DOMAIN f
    BY <1>2, <1>5
  <2>3. \A s \in DOMAIN f : g[s] = f[s]
    BY <1>2, <1>5, <1>6, <2>1
  <2>4. g[new] = At(new)'.visits
    BY <1>6, <2>1
  <2>5. Total(g) = Total(f) + g[new]
    BY <1>1, <1>3, <1>7, <2>1, <2>2, <2>3, <2>4, TotalOneMore
  <2> QED BY <1>3, <1>4, <1>8, <2>4, <2>5
<1>9. CASE x \notin Above[NodeOf(new)']
  <2>1. DOMAIN g = DOMAIN f
    BY <1>2, <1>5, <1>6, <1>9
  <2>2. g = f
    BY <1>2, <1>5, <1>6, <2>1
  <2> QED BY <1>1, <1>3, <1>4, <1>9, <2>2
<1> QED BY <1>8, <1>9

LEMMA CollideKeeps ==
    ASSUME TreeInv, NEW w \in Workers, Collide(w)
    PROVE  TreeInv'
<1>1. PICK x \in Nodes, visits \in 1 .. budget[w] :
          /\ Gathers(w)
          /\ n_in_flight_' = Added(n_in_flight_, Above[x], visits)
          /\ minibatch' = [minibatch EXCEPT ![w] = Append(@, Entry(x, visits, "Collision"))]
          /\ UNCHANGED <<n, initial_visits_, total_playouts_, shape, shared_collisions_, pc, destroyed>>
  BY DEF Collide
<1>2. visits \in Nat \ {0}
  OBVIOUS
<1>3. PICK v : v = Entry(x, visits, "Collision")
  OBVIOUS
<1>4. v \in Ats /\ v.pointer = Pointer(x) /\ Pointer(x)[1] = x /\ v.visits = visits /\ IsCollision(v)
  BY <1>2, <1>3, EntryTyped
<1>5. PICK new : new = <<w, Len(minibatch[w]) + 1>>
  OBVIOUS
<1>6. Types /\ pc[w] = "gather" /\ minibatch' = [minibatch EXCEPT ![w] = Append(@, v)]
  BY <1>1, <1>3 DEF TreeInv, Gathers
<1>7. UNCHANGED <<n, initial_visits_, total_playouts_, edges, terminal, solid, shared_collisions_,
                  pc, destroyed>>
  BY <1>1 DEF shape
<1>8. /\ new \notin Entries /\ At(new)' = v /\ NodeOf(new)' = x
      /\ \A e \in Entries : At(e)' = At(e) /\ NodeOf(e)' = NodeOf(e)
      /\ Visits' = Visits /\ OwnCollisions' = OwnCollisions \cup {new} /\ Shared' = Shared
  <2>1. Gathering(w) /\ Gathering(w)'
    BY <1>6, <1>7 DEF Gathering
  <2>2. \A u \in Workers \ {w} : pc'[u] = pc[u]
    BY <1>7
  <2>3. Types /\ v \in Ats /\ shared_collisions_' = shared_collisions_
    BY <1>4, <1>6, <1>7
  <2>4. minibatch' = [minibatch EXCEPT ![w] = Append(@, v)]
    BY <1>6
  <2>5. /\ new \notin Entries /\ At(new)' = v /\ NodeOf(new)' = v.pointer[1]
        /\ \A e \in Entries : At(e)' = At(e) /\ NodeOf(e)' = NodeOf(e)
        /\ IsCollision(v) => /\ Visits' = Visits /\ OwnCollisions' = OwnCollisions \cup {new}
        /\ Shared' = Shared
    BY <1>5, <2>1, <2>2, <2>3, <2>4, AppendedFlow
  <2> QED BY <1>4, <2>5
<1>9. /\ minibatch' \in [Workers -> Seq(Ats)]
      /\ \A u \in Workers \ {w} : minibatch'[u] = minibatch[u]
  BY <1>4, <1>5, <1>6, Appended
<1>10. n_in_flight_ \in [Nodes -> Int]
  BY DEF TreeInv, Types
<1>11. n_in_flight_' \in [Nodes -> Int]
  BY <1>1, <1>2, <1>10 DEF Added
<1>12. Types'
  BY <1>6, <1>7, <1>9, <1>11 DEF Types
<1>13. \A u \in Workers : BatchFits(u)'
  BY <1>6, <1>7, <1>9 DEF TreeInv, BatchFits, IsCollision
<1>14. Ended'
  BY <1>7 DEF TreeInv, Ended
<1>15. Visits \subseteq Entries /\ OwnCollisions \subseteq Entries
  BY DEF Visits, OwnCollisions
<1>16. ASSUME NEW y \in Nodes PROVE InFlight(y)'
  <2>1. ClaimsOver(y)' = ClaimsOver(y)
    BY <1>8, <1>15 DEF ClaimsOver, UpFrom
  <2>2. SharedOver(y)' = SharedOver(y)
    BY <1>7, <1>8 DEF SharedOver
  <2>3. Total(OwnOver(y)') = Total(OwnOver(y)) + (IF y \in Above[x] THEN visits ELSE 0)
    BY <1>2, <1>4, <1>6, <1>8, <1>12, CollideFlow
  <2>4. n_in_flight_'[y] = n_in_flight_[y] + (IF y \in Above[x] THEN visits ELSE 0)
    BY <1>1, <1>2, <1>10 DEF Added
  <2>5. InFlight(y)
    BY DEF TreeInv
  <2>6. Cardinality(ClaimsOver(y)) \in Nat /\ Total(OwnOver(y)) \in Nat /\ Total(SharedOver(y)) \in Nat
    BY <1>6, FlowTypes
  <2>7. n_in_flight_'[y] = Cardinality(ClaimsOver(y)) + Total(OwnOver(y)') + Total(SharedOver(y))
    BY <1>2, <2>3, <2>4, <2>5, <2>6 DEF InFlight
  <2> QED BY <2>1, <2>2, <2>7 DEF InFlight
<1>17. CollisionsLive'
  <2>1. ASSUME NEW e \in OwnCollisions PROVE Live(At(e).pointer)'
    BY <1>7, <1>8, <1>15 DEF TreeInv, CollisionsLive, Live, Where
  <2>2. Live(At(new).pointer)'
    BY <1>4, <1>7, <1>8 DEF Live, Where, Pointer
  <2>3. ASSUME NEW p \in Shared PROVE Live(p)'
    BY <1>7 DEF TreeInv, CollisionsLive, Live, Where
  <2> QED BY <1>8, <2>1, <2>2, <2>3 DEF CollisionsLive
<1>18. ASSUME NEW e \in Visits PROVE ClaimRight(e)'
  <2>1. ClaimRight(e)
    BY DEF TreeInv
  <2>2. At(e)' = At(e) /\ NodeOf(e)' = NodeOf(e)
    BY <1>8, <1>15
  <2>3. Live(At(e).pointer)'
    BY <1>7, <2>1, <2>2 DEF ClaimRight, Live, Where
  <2>4. e[1] \in Workers
    BY <1>6, <1>15, EntryTypes
  <2>5. ToExtend(e) => ToExtend(e)'
    BY <1>6, <1>7, <1>9, <2>4 DEF ToExtend
  <2>6. ~IsTwoFoldTerminal(NodeOf(e))'
    BY <1>7, <2>1, <2>2 DEF ClaimRight, IsTwoFoldTerminal
  <2>7. (\A f \in Visits : f # e /\ NodeOf(f) = NodeOf(e) => NodeOf(e) \in terminal)'
    <3>1. ASSUME NEW f \in Visits', f # e, NodeOf(f)' = NodeOf(e)' PROVE NodeOf(e)' \in terminal'
      BY <1>7, <1>8, <1>15, <2>1, <2>2, <3>1 DEF ClaimRight
    <3> QED BY <3>1
  <2>8. /\ NodeOf(e)' \in terminal' \/ n'[NodeOf(e)'] = 0
        /\ \A a \in Above[NodeOf(e)'] : n'[a] > 0 /\ a \in edges'
        /\ NodeOf(e)' \in edges' \cup terminal' \/ ToExtend(e)
    BY <1>7, <2>1, <2>2 DEF ClaimRight
  <2> QED BY <1>8, <2>3, <2>5, <2>6, <2>7, <2>8 DEF ClaimRight
<1>19. VisitsFit'
  BY <1>7, <1>8, <1>15 DEF TreeInv, VisitsFit
<1>20. CountsAddUp'
  BY <1>7 DEF TreeInv, CountsAddUp, Children
<1> QED BY <1>8, <1>12, <1>13, <1>14, <1>16, <1>17, <1>18, <1>19, <1>20 DEF TreeInv

\* A claimed node, and whatever is above it, is on the way of a visit.
LEMMA ClaimedInFlight ==
    ASSUME Types, NEW x \in Nodes, InFlight(x), NEW e \in Visits, x \in UpFrom(NodeOf(e))
    PROVE  n_in_flight_[x] > 0
<1>1. /\ IsFiniteSet(ClaimsOver(x)) /\ Cardinality(ClaimsOver(x)) \in Nat
      /\ Total(OwnOver(x)) \in Nat /\ Total(SharedOver(x)) \in Nat
  BY FlowTypes
<1>2. ClaimsOver(x) # {}
  BY DEF ClaimsOver
<1>3. Cardinality(ClaimsOver(x)) # 0
  BY <1>1, <1>2, FS_EmptySet
<1> QED BY <1>1, <1>3 DEF InFlight

\* Where a descent passes, nodes have been visited and are not claimed.
LEMMA PassedNodes ==
    ASSUME TreeInv, NEW x \in Nodes, Reachable(x), NEW a \in Above[x]
    PROVE  n[a] > 0 /\ a \in edges /\ a \notin terminal /\ \A e \in Visits : NodeOf(e) # a
<1>1. a \in Nodes
  BY AboveAbove
<1>2. ~Refused(a) /\ a \in edges /\ a \notin terminal
  BY DEF Reachable, Passable
<1>3. n[a] \in Nat /\ Types /\ InFlight(a)
  BY <1>1 DEF TreeInv, Types
<1>4. ASSUME NEW e \in Visits, NodeOf(e) = a PROVE n[a] > 0
  <2>1. n_in_flight_[a] > 0
    BY <1>1, <1>3, <1>4, ClaimedInFlight DEF UpFrom
  <2> QED BY <1>2, <1>3, <2>1 DEF Refused
<1>5. n[a] > 0
  <2>1. n[a] = 0 => \E e \in Visits : NodeOf(e) = a
    BY <1>2 DEF TreeInv, VisitsFit
  <2> QED BY <1>3, <1>4, <2>1
<1>6. ASSUME NEW e \in Visits, NodeOf(e) = a PROVE FALSE
  <2>1. NodeOf(e) \in terminal \/ n[NodeOf(e)] = 0
    BY DEF TreeInv, ClaimRight
  <2> QED BY <1>2, <1>5, <1>6, <2>1
<1> QED BY <1>2, <1>5, <1>6

\* The counts of a node's children can be summed.
LEMMA ChildrenSum ==
    ASSUME NEW m \in [Nodes -> Nat], NEW a,
           NEW f, f = [c \in Children(a) |-> m[c]]
    PROVE  /\ Children(a) \subseteq Nodes /\ Summable(f) /\ Total(f) \in Nat
           /\ \A c \in Children(a) : m[c] <= Total(f)
<1>1. Children(a) \in SUBSET Nodes
  BY DEF Children
<1>2. IsFiniteSet(Children(a))
  BY <1>1, TreeAssumption, FS_Subset
<1>3. Summable(f)
  BY <1>1, <1>2 DEF Summable
<1>4. ASSUME NEW c \in Children(a) PROVE m[c] <= Total(f)
  <2>1. c \in DOMAIN f /\ f[c] = m[c]
    OBVIOUS
  <2>2. f[c] <= Total(f)
    BY <1>3, <2>1, TotalChange
  <2> QED BY <2>1, <2>2
<1> QED BY <1>1, <1>3, <1>4, TotalType

\* A visited node below nodes that are not terminal has fewer visits than they.
LEMMA PathCounts ==
    ASSUME TreeInv, NEW x \in Nodes, n[x] > 0, Above[x] \cap terminal = {}
    PROVE  \A a \in Above[x] : n[a] >= n[x] + 1
<1> DEFINE B == {z \in Nodes : n[z] > 0 /\ Above[z] \cap terminal = {}
                                /\ ~ \A a \in Above[z] : n[a] >= n[z] + 1}
<1>1. ASSUME B # {} PROVE FALSE
  <2>1. PICK z \in B : z = Root \/ Parent[z] \notin B
    BY <1>1, Topmost
  <2>2. z \in Nodes /\ z # Root
    BY TreeAssumption
  <2>3. PICK p \in Nodes : p = Parent[z]
    BY <2>2, TreeAssumption
  <2>4. Above[z] = {p} \cup Above[p]
    BY <2>2, <2>3, TreeAssumption
  <2>5. p \notin terminal /\ Above[p] \cap terminal = {}
    BY <2>4
  <2>6. n[p] > 0
    BY <2>2, <2>3 DEF TreeInv, VisitsFit
  <2>7. \A a \in Above[p] : n[a] >= n[p] + 1
    BY <2>1, <2>2, <2>3, <2>5, <2>6
  <2>8. n \in [Nodes -> Nat]
    BY DEF TreeInv, Types
  <2>9. PICK f : f = [c \in Children(p) |-> n[c]]
    OBVIOUS
  <2>10. n[p] = 1 + Total(f)
    BY <2>5, <2>6, <2>9 DEF TreeInv, CountsAddUp
  <2>11. z \in Children(p)
    BY <2>2, <2>3 DEF Children
  <2>12. n[z] <= Total(f) /\ Total(f) \in Nat
    BY <2>8, <2>9, <2>11, ChildrenSum
  <2>13. n[p] >= n[z] + 1
    BY <2>2, <2>8, <2>10, <2>12
  <2>14. ASSUME NEW a \in Above[z] PROVE n[a] >= n[z] + 1
    <3>1. CASE a = p
      BY <2>13, <3>1
    <3>2. CASE a \in Above[p]
      <4>1. a \in Nodes
        BY <3>2, AboveAbove
      <4>2. n[a] \in Nat /\ n[p] \in Nat /\ n[z] \in Nat
        BY <2>2, <2>8, <4>1
      <4> QED BY <2>7, <2>13, <3>2, <4>2
    <3> QED BY <2>4, <3>1, <3>2
  <2> QED BY <2>14
<1> QED BY <1>1

\* A change along the way from y up changes the sums of the nodes above y by as much.
CountsBelow(m, a) == [c \in Children(a) |-> m[c]]

LEMMA SumsShift ==
    ASSUME NEW m \in [Nodes -> Nat], NEW y \in Nodes, NEW k \in Int,
           NEW r \in [Nodes -> Nat], r = Added(m, UpFrom(y), k), NEW a \in Nodes
    PROVE  /\ Total(CountsBelow(m, a)) \in Nat /\ Total(CountsBelow(r, a)) \in Nat
           /\ a \in Above[y] => Total(CountsBelow(r, a)) = Total(CountsBelow(m, a)) + k
           /\ a \notin Above[y] => CountsBelow(r, a) = CountsBelow(m, a)
<1>a. PICK f : f = [c \in Children(a) |-> m[c]]
  OBVIOUS
<1>b. PICK g : g = [c \in Children(a) |-> r[c]]
  OBVIOUS
<1>c. f = CountsBelow(m, a) /\ g = CountsBelow(r, a)
  BY <1>a, <1>b DEF CountsBelow
<1>1. Summable(f) /\ Summable(g) /\ Total(f) \in Nat /\ Total(g) \in Nat /\ Children(a) \subseteq Nodes
  BY <1>a, <1>b, ChildrenSum
<1>2. \A c \in Nodes : r[c] = IF c \in UpFrom(y) THEN m[c] + k ELSE m[c]
  BY DEF Added
<1>3. ASSUME a \in Above[y] PROVE Total(g) = Total(f) + k
  <2>1. PICK b \in UpFrom(y) : b \in Children(a)
    BY <1>3, ChildOnWay
  <2>2. ASSUME NEW c \in Children(a) \ {b} PROVE g[c] = f[c]
    <3>1. c \notin UpFrom(y)
      BY <2>1, OneChildOnWay
    <3> QED BY <1>1, <1>2, <1>a, <1>b, <3>1
  <2>3. DOMAIN f = Children(a) /\ DOMAIN g = Children(a) /\ b \in DOMAIN f
    BY <1>a, <1>b, <2>1
  <2>4. f[b] \in Nat /\ g[b] = f[b] + k
    BY <1>1, <1>2, <1>a, <1>b, <2>1
  <2>5. Total(g) = Total(f) - f[b] + g[b]
    BY <1>1, <2>2, <2>3, TotalChange
  <2> QED BY <1>1, <2>4, <2>5
<1>4. ASSUME a \notin Above[y] PROVE g = f
  <2>1. ASSUME NEW c \in Children(a) PROVE r[c] = m[c]
    <3>1. c # Root /\ Parent[c] = a /\ c \in Nodes
      BY DEF Children
    <3>2. c \notin UpFrom(y)
      BY <1>4, <3>1, ParentOnWay
    <3> QED BY <1>2, <3>1, <3>2
  <2> QED BY <1>a, <1>b, <2>1
<1> QED BY <1>1, <1>3, <1>4, <1>c

LEMMA VisitKeeps ==
    ASSUME TreeInv, NEW w \in Workers, Visit(w)
    PROVE  TreeInv'
<1>1. PICK x \in Nodes :
          /\ Gathers(w) /\ Reachable(x) /\ ~Refused(x)
          /\ x \in terminal \/ x \notin edges
          /\ n_in_flight_' = Added(n_in_flight_, UpFrom(x), 1)
          /\ n' = Added(n, RevertedNodes(x), -Reverted(x))
          /\ initial_visits_' = InitialAfter(x)
          /\ terminal' = IF IsTwoFoldTerminal(x) THEN terminal \ {x} ELSE terminal
          /\ minibatch' = [minibatch EXCEPT ![w] = Append(@, Entry(x, 1, "Visit"))]
          /\ Goto(w, IF x \in terminal' THEN "picked" ELSE "extend")
          /\ UNCHANGED <<total_playouts_, edges, solid, shared_collisions_, destroyed>>
  BY DEF Visit
<1>2. PICK v : v = Entry(x, 1, "Visit")
  OBVIOUS
<1>3. v \in Ats /\ v.pointer = Pointer(x) /\ Pointer(x)[1] = x /\ ~IsCollision(v)
  BY <1>2, EntryTyped
<1>4. PICK new : new = <<w, Len(minibatch[w]) + 1>>
  OBVIOUS
<1>5. /\ Types /\ pc[w] = "gather" /\ minibatch' = [minibatch EXCEPT ![w] = Append(@, v)]
      /\ pc \in [Workers -> {"gather", "extend", "own_edge", "picked", "fetch", "backup", "done"}]
      /\ n \in [Nodes -> Nat] /\ n_in_flight_ \in [Nodes -> Int] /\ initial_visits_ \in Int
  BY <1>1, <1>2 DEF TreeInv, Gathers, Types
<1>6. /\ pc'[w] \in {"extend", "picked"} /\ \A u \in Workers \ {w} : pc'[u] = pc[u]
      /\ x \notin terminal' => pc'[w] = "extend"
      /\ pc' \in [Workers -> {"gather", "extend", "own_edge", "picked", "fetch", "backup", "done"}]
  <2>1. PICK where \in {"extend", "picked"} :
            pc' = [pc EXCEPT ![w] = where] /\ (x \notin terminal' => where = "extend")
    BY <1>1 DEF Goto
  <2> QED BY <1>5, <2>1
<1>7. /\ new \notin Entries /\ At(new)' = v /\ NodeOf(new)' = x
      /\ \A e \in Entries : At(e)' = At(e) /\ NodeOf(e)' = NodeOf(e)
      /\ Visits' = Visits \cup {new} /\ OwnCollisions' = OwnCollisions /\ Shared' = Shared
  <2>1. Gathering(w) /\ Gathering(w)'
    BY <1>5, <1>6 DEF Gathering
  <2>3. Types /\ v \in Ats /\ shared_collisions_' = shared_collisions_
    BY <1>1, <1>3, <1>5
  <2>4. minibatch' = [minibatch EXCEPT ![w] = Append(@, v)]
    BY <1>5
  <2>5. /\ new \notin Entries /\ At(new)' = v /\ NodeOf(new)' = v.pointer[1]
        /\ \A e \in Entries : At(e)' = At(e) /\ NodeOf(e)' = NodeOf(e)
        /\ ~IsCollision(v) => /\ Visits' = Visits \cup {new} /\ OwnCollisions' = OwnCollisions
        /\ Shared' = Shared
    BY <1>4, <1>6, <2>1, <2>3, <2>4, AppendedFlow
  <2> QED BY <1>3, <2>5
<1>8. /\ minibatch' \in [Workers -> Seq(Ats)]
      /\ \A u \in Workers \ {w} : minibatch'[u] = minibatch[u]
      /\ minibatch'[w] # << >> /\ Len(minibatch'[w]) = Len(minibatch[w]) + 1
      /\ minibatch'[w][Len(minibatch'[w])] = v
  BY <1>3, <1>4, <1>5, Appended
<1>9. Visits \subseteq Entries /\ OwnCollisions \subseteq Entries
  BY DEF Visits, OwnCollisions
<1>10. \A a \in Above[x] : n[a] > 0 /\ a \in edges /\ a \notin terminal /\ \A e \in Visits : NodeOf(e) # a
  BY <1>1, PassedNodes
<1>11. UpFrom(x) = {x} \cup Above[x] /\ UpFrom(x) \subseteq Nodes /\ x \notin Above[x]
  BY RootAbove, TreeAssumption DEF UpFrom
<1>12. PICK k \in Nat : k = Reverted(x)
  BY <1>5 DEF Reverted
<1>13. (IsTwoFoldTerminal(x) => k = n[x]) /\ (~IsTwoFoldTerminal(x) => k = 0)
  BY <1>12 DEF Reverted
<1>14. \A a \in Nodes : n'[a] = IF a \in UpFrom(x) THEN n[a] - k ELSE n[a]
  BY <1>1, <1>5, <1>12 DEF Added, RevertedNodes
<1>15. ASSUME NEW a \in Above[x] PROVE n[a] - k \in Nat /\ n[a] - k > 0
  <2>1. n[a] \in Nat /\ n[a] > 0 /\ n[x] \in Nat
    BY <1>5, <1>10, <1>11
  <2>2. CASE k = 0
    BY <2>1, <2>2
  <2>3. CASE k # 0
    <3>1. n[x] = k /\ n[x] > 0
      BY <1>13, <2>1, <2>3
    <3>2. Above[x] \cap terminal = {}
      BY <1>10
    <3>3. n[a] >= n[x] + 1
      BY <3>1, <3>2, PathCounts
    <3> QED BY <2>1, <3>1, <3>3
  <2> QED BY <2>2, <2>3
<1>16. n[x] - k \in Nat
  BY <1>5, <1>13
<1>17. n' \in [Nodes -> Nat]
  <2>1. n' = [a \in Nodes |-> n'[a]]
    BY <1>1 DEF Added
  <2>2. ASSUME NEW a \in Nodes PROVE n'[a] \in Nat
    BY <1>5, <1>11, <1>14, <1>15, <1>16
  <2> QED BY <2>1, <2>2
<1>18. \A a \in Above[x] : n'[a] > 0
  BY <1>11, <1>14, <1>15
<1>19. \A a \in Nodes : n[a] = 0 => n'[a] = 0
  BY <1>5, <1>10, <1>11, <1>13, <1>14
<1>20. Types'
  <2>1. n_in_flight_' \in [Nodes -> Int]
    BY <1>1, <1>5 DEF Added
  <2>2. initial_visits_' \in Int
    BY <1>1, <1>5, <1>12 DEF InitialAfter
  <2>3. terminal' \subseteq Nodes
    <3>1. terminal \subseteq Nodes
      BY <1>5 DEF Types
    <3> QED BY <1>1, <3>1
  <2>4. edges' \subseteq Nodes /\ solid' \subseteq Nodes /\ total_playouts_' \in Int
        /\ shared_collisions_' \in [Pointers -> Nat]
    BY <1>1, <1>5 DEF Types
  <2> QED BY <1>6, <1>8, <1>17, <2>1, <2>2, <2>3, <2>4 DEF Types
<1>21. ASSUME NEW u \in Workers PROVE BatchFits(u)'
  <2>1. CASE u = w
    <3>1. pc'[w] # "done" /\ minibatch'[w] # << >> /\ ~IsCollision(minibatch[w][Len(minibatch[w])])'
      BY <1>3, <1>6, <1>8 DEF IsCollision
    <3> QED BY <2>1, <3>1 DEF BatchFits
  <2>2. CASE u # w
    BY <1>6, <1>8, <2>2 DEF TreeInv, BatchFits, IsCollision
  <2> QED BY <2>1, <2>2
<1>22. Ended'
  BY <1>1, <1>5 DEF TreeInv, Ended
<1>23. ASSUME NEW y \in Nodes PROVE InFlight(y)'
  <2>1. SharedOver(y)' = SharedOver(y)
    BY <1>1, <1>7 DEF SharedOver
  <2>2. OwnOver(y)' = OwnOver(y)
    BY <1>7, <1>9 DEF OwnOver
  <2>3. /\ IsFiniteSet(ClaimsOver(y)) /\ Cardinality(ClaimsOver(y)) \in Nat
        /\ Total(OwnOver(y)) \in Nat /\ Total(SharedOver(y)) \in Nat
    BY <1>5, FlowTypes
  <2>4. InFlight(y)
    BY DEF TreeInv
  <2>5. CASE y \in UpFrom(x)
    <3>1. ClaimsOver(y)' = ClaimsOver(y) \cup {new}
      BY <1>7, <1>9, <2>5 DEF ClaimsOver, UpFrom
    <3>2. new \notin ClaimsOver(y)
      BY <1>7, <1>9 DEF ClaimsOver
    <3>3. Cardinality(ClaimsOver(y)') = Cardinality(ClaimsOver(y)) + 1
      BY <2>3, <3>1, <3>2, FS_AddElement
    <3>4. n_in_flight_'[y] = n_in_flight_[y] + 1
      BY <1>1, <2>5 DEF Added
    <3>5. n_in_flight_'[y] = Cardinality(ClaimsOver(y)') + Total(OwnOver(y)) + Total(SharedOver(y))
      BY <2>3, <2>4, <3>3, <3>4 DEF InFlight
    <3> QED BY <2>1, <2>2, <3>5 DEF InFlight
  <2>6. CASE y \notin UpFrom(x)
    <3>1. ClaimsOver(y)' = ClaimsOver(y)
      BY <1>7, <1>9, <2>6 DEF ClaimsOver, UpFrom
    <3>2. n_in_flight_'[y] = n_in_flight_[y]
      BY <1>1, <2>6 DEF Added
    <3> QED BY <2>1, <2>2, <2>4, <3>1, <3>2 DEF InFlight
  <2> QED BY <2>5, <2>6
<1>24. CollisionsLive'
  <2>1. ASSUME NEW e \in OwnCollisions PROVE Live(At(e).pointer)'
    BY <1>1, <1>7, <1>9 DEF TreeInv, CollisionsLive, Live, Where
  <2>2. ASSUME NEW p \in Shared PROVE Live(p)'
    BY <1>1 DEF TreeInv, CollisionsLive, Live, Where
  <2> QED BY <1>7, <2>1, <2>2 DEF CollisionsLive
<1>25. ASSUME x \notin terminal' PROVE n'[x] = 0 /\ \A e \in Visits : NodeOf(e) # x
  <2>1. CASE IsTwoFoldTerminal(x)
    <3>1. n'[x] = 0
      BY <1>5, <1>11, <1>13, <1>14, <2>1
    <3>2. ASSUME NEW e \in Visits, NodeOf(e) = x PROVE FALSE
      <4>1. ~IsTwoFoldTerminal(NodeOf(e))
        BY DEF TreeInv, ClaimRight
      <4> QED BY <2>1, <3>2, <4>1
    <3> QED BY <3>1, <3>2
  <2>2. CASE ~IsTwoFoldTerminal(x)
    <3>1. x \notin terminal /\ x \notin edges
      BY <1>1, <1>25, <2>2
    <3>2. n[x] \in Nat /\ (n[x] > 0 => x \in edges \cup terminal)
      BY <1>5 DEF TreeInv, VisitsFit
    <3>3. n[x] = 0
      BY <3>1, <3>2
    <3>4. ASSUME NEW e \in Visits, NodeOf(e) = x PROVE FALSE
      <4>1. InFlight(x)
        BY DEF TreeInv
      <4>2. n_in_flight_[x] > 0
        BY <1>5, <3>4, <4>1, ClaimedInFlight DEF UpFrom
      <4> QED BY <1>1, <3>3, <4>2 DEF Refused
    <3> QED BY <1>19, <3>3, <3>4
  <2> QED BY <2>1, <2>2
<1>26. \A y : y \in terminal /\ y # x => y \in terminal'
  BY <1>1
<1>27. terminal' \subseteq terminal
  BY <1>1
<1>28. ASSUME NEW e \in Visits, NodeOf(e) \in terminal PROVE NodeOf(e) \in terminal'
  BY <1>25, <1>26, <1>28
<1>29. ASSUME NEW e \in Visits PROVE ClaimRight(e)'
  <2>1. ClaimRight(e)
    BY DEF TreeInv
  <2>2. At(e)' = At(e) /\ NodeOf(e)' = NodeOf(e)
    BY <1>7, <1>9
  <2>3. Live(At(e).pointer)'
    BY <1>1, <2>1, <2>2 DEF ClaimRight, Live, Where
  <2>4. e[1] \in Workers /\ NodeOf(e) \in Nodes
    BY <1>5, <1>9, EntryTypes
  <2>5. NodeOf(e)' \in edges' \cup terminal' \/ ToExtend(e)'
    <3>1. CASE ToExtend(e)
      <4>1. e[1] # w
        BY <1>5, <3>1 DEF ToExtend
      <4>2. pc'[e[1]] = pc[e[1]] /\ minibatch'[e[1]] = minibatch[e[1]]
        BY <1>6, <1>8, <2>4, <4>1
      <4> QED BY <3>1, <4>2 DEF ToExtend
    <3>2. CASE NodeOf(e) \in edges
      BY <1>1, <2>2, <3>2
    <3>3. CASE NodeOf(e) \in terminal
      BY <1>28, <2>2, <3>3
    <3> QED BY <2>1, <3>1, <3>2, <3>3 DEF ClaimRight
  <2>6. ~IsTwoFoldTerminal(NodeOf(e))'
    BY <1>1, <1>27, <2>1, <2>2 DEF ClaimRight, IsTwoFoldTerminal
  <2>7. (\A f \in Visits : f # e /\ NodeOf(f) = NodeOf(e) => NodeOf(e) \in terminal)'
    <3>1. ASSUME NEW f \in Visits', f # e, NodeOf(f)' = NodeOf(e)' PROVE NodeOf(e)' \in terminal'
      <4>1. CASE f = new
        BY <1>7, <1>25, <2>2, <3>1, <4>1
      <4>2. CASE f \in Visits
        <5>1. NodeOf(f) = NodeOf(e)
          BY <1>7, <1>9, <2>2, <3>1, <4>2
        <5>2. NodeOf(e) \in terminal
          BY <2>1, <3>1, <4>2, <5>1 DEF ClaimRight
        <5> QED BY <1>28, <2>2, <5>2
      <4> QED BY <1>7, <4>1, <4>2
    <3> QED BY <3>1
  <2>8. NodeOf(e)' \in terminal' \/ n'[NodeOf(e)'] = 0
    BY <1>19, <1>28, <2>1, <2>2, <2>4 DEF ClaimRight
  <2>9. ASSUME NEW a \in Above[NodeOf(e)] PROVE n'[a] > 0 /\ a \in edges'
    <3>1. n[a] > 0 /\ a \in edges /\ a \in Nodes
      BY <2>1, <2>4, AboveAbove DEF ClaimRight
    <3>2. CASE a = x
      <4>1. k = 0
        BY <1>13, <3>1, <3>2 DEF IsTwoFoldTerminal
      <4> QED BY <1>1, <1>5, <1>14, <3>1, <4>1
    <3>3. CASE a # x
      BY <1>1, <1>11, <1>14, <1>18, <3>1, <3>3
    <3> QED BY <3>2, <3>3
  <2>10. (\A a \in Above[NodeOf(e)] : n[a] > 0 /\ a \in edges)'
    BY <2>2, <2>9
  <2> QED BY <2>3, <2>5, <2>6, <2>7, <2>8, <2>10 DEF ClaimRight
<1>30. ClaimRight(new)'
  <2>1. NodeOf(new)' = x
    BY <1>7
  <2>2. Live(At(new).pointer)'
    BY <1>1, <1>3, <1>7 DEF Live, Where, Pointer
  <2>3. NodeOf(new)' \in edges' \cup terminal' \/ ToExtend(new)'
    <3>1. new[1] = w /\ new[2] = Len(minibatch'[w])
      BY <1>4, <1>8
    <3> QED BY <1>6, <2>1, <3>1 DEF ToExtend
  <2>4. ~IsTwoFoldTerminal(NodeOf(new))'
    BY <1>1, <2>1 DEF IsTwoFoldTerminal
  <2>5. NodeOf(new)' \in terminal' \/ n'[NodeOf(new)'] = 0
    BY <1>25, <2>1
  <2>6. (\A a \in Above[NodeOf(new)] : n[a] > 0 /\ a \in edges)'
    BY <1>1, <1>10, <1>18, <2>1
  <2>7. (\A f \in Visits : f # new /\ NodeOf(f) = NodeOf(new) => NodeOf(new) \in terminal)'
    <3>1. ASSUME NEW f \in Visits', f # new, NodeOf(f)' = NodeOf(new)' PROVE NodeOf(new)' \in terminal'
      <4>1. f \in Visits
        BY <1>7, <3>1
      <4>2. NodeOf(f) = x
        BY <1>7, <1>9, <2>1, <3>1, <4>1
      <4> QED BY <1>25, <2>1, <4>1, <4>2
    <3> QED BY <3>1
  <2> QED BY <2>2, <2>3, <2>4, <2>5, <2>6, <2>7 DEF ClaimRight
<1>31. VisitsFit'
  <2>1. ASSUME NEW c \in Nodes \ {Root}, n'[c] > 0 PROVE n'[Parent[c]] > 0 /\ Parent[c] \in edges'
    <3>1. n[c] \in Nat /\ n[c] > 0
      BY <1>5, <1>19, <2>1
    <3>2. n[Parent[c]] > 0 /\ Parent[c] \in edges /\ Parent[c] \in Nodes
      BY <3>1, TreeAssumption DEF TreeInv, VisitsFit
    <3>3. CASE Parent[c] = x
      <4>1. k = 0
        BY <1>13, <3>2, <3>3 DEF IsTwoFoldTerminal
      <4> QED BY <1>1, <1>5, <1>14, <3>2, <4>1
    <3>4. CASE Parent[c] # x
      BY <1>1, <1>11, <1>14, <1>18, <3>2, <3>4
    <3> QED BY <3>3, <3>4
  <2>2. ASSUME NEW y \in Nodes, n'[y] > 0 PROVE y \in edges' \cup terminal'
    <3>1. n[y] \in Nat /\ n[y] > 0
      BY <1>5, <1>19, <2>2
    <3>2. y \in edges \cup terminal
      BY <3>1 DEF TreeInv, VisitsFit
    <3>3. y = x => x \in terminal'
      BY <1>25, <2>2
    <3> QED BY <1>1, <1>26, <3>2, <3>3
  <2>3. ASSUME NEW y \in edges', n'[y] = 0 PROVE \E e \in Visits' : NodeOf(e)' = y
    <3>1. y \in edges /\ y \in Nodes
      BY <1>1, <1>5 DEF Types
    <3>2. y # x \/ k = 0
      BY <1>13, <3>1 DEF IsTwoFoldTerminal
    <3>3. n[y] = 0
      <4>1. y \notin Above[x]
        BY <1>18, <2>3
      <4>2. n'[y] = n[y] \/ n'[y] = n[y] - 0
        BY <1>11, <1>14, <3>1, <3>2, <4>1
      <4> QED BY <1>5, <2>3, <3>1, <4>2
    <3>4. PICK e \in Visits : NodeOf(e) = y
      BY <3>1, <3>3 DEF TreeInv, VisitsFit
    <3> QED BY <1>7, <1>9, <3>4
  <2> QED BY <2>1, <2>2, <2>3 DEF VisitsFit
<1>32. CountsAddUp'
  <2>1. ASSUME NEW y \in Nodes \ terminal'
        PROVE  n'[y] = IF n'[y] = 0 THEN 0 ELSE 1 + Total([c \in Children(y) |-> n'[c]])
    <3>1. PICK f : f = [c \in Children(y) |-> n[c]]
      OBVIOUS
    <3>2. PICK g : g = [c \in Children(y) |-> n'[c]]
      OBVIOUS
    <3>3. -k \in Int /\ n' = Added(n, UpFrom(x), -k) /\ y \in Nodes
      BY <1>1, <1>12 DEF RevertedNodes
    <3>4. PICK j \in Int : j = -k
      BY <3>3
    <3>5. /\ Total(f) \in Nat /\ Total(g) \in Nat
          /\ y \in Above[x] => Total(g) = Total(f) + j
          /\ y \notin Above[x] => g = f
      <4>1. f = CountsBelow(n, y) /\ g = CountsBelow(n', y)
        BY <3>1, <3>2 DEF CountsBelow
      <4>2. n' = Added(n, UpFrom(x), j)
        BY <3>3, <3>4
      <4>3. n \in [Nodes -> Nat] /\ n' \in [Nodes -> Nat] /\ x \in Nodes /\ y \in Nodes /\ j \in Int
        BY <1>5, <1>17, <3>3
      <4>4. /\ Total(CountsBelow(n, y)) \in Nat /\ Total(CountsBelow(n', y)) \in Nat
            /\ y \in Above[x] => Total(CountsBelow(n', y)) = Total(CountsBelow(n, y)) + j
            /\ y \notin Above[x] => CountsBelow(n', y) = CountsBelow(n, y)
        BY ONLY <4>2, <4>3, SumsShift
      <4> QED BY ONLY <4>1, <4>4
    <3>6. CASE y = x
      BY <1>25, <2>1, <3>6
    <3>7. CASE y \in Above[x]
      <4>1. y \notin terminal /\ n[y] > 0 /\ n'[y] > 0 /\ n'[y] = n[y] - k
        BY <1>10, <1>11, <1>14, <1>18, <3>7
      <4>2. n[y] = 1 + Total(f) /\ n[y] \in Nat
        <5>1. n[y] = IF n[y] = 0 THEN 0 ELSE 1 + Total([c \in Children(y) |-> n[c]])
          BY <2>1, <4>1, Zenon DEF TreeInv, CountsAddUp
        <5>2. n[y] \in Nat
          BY <1>5, <2>1
        <5> QED BY ONLY <3>1, <4>1, <5>1, <5>2
      <4>3. Total(f) \in Nat /\ Total(g) \in Nat /\ Total(g) = Total(f) + j
        BY <3>5, <3>7
      <4>4. k \in Int /\ j \in Int /\ j = -k
        BY <1>1, <3>3, <3>4 DEF RevertedNodes
      <4>5. n'[y] = 1 + Total(g)
        BY ONLY <4>1, <4>2, <4>3, <4>4
      <4> QED BY <3>2, <4>1, <4>5
    <3>8. CASE y \notin UpFrom(x)
      <4>1. y \notin terminal /\ n'[y] = n[y] /\ g = f
        BY <1>11, <1>14, <1>26, <2>1, <3>5, <3>8
      <4>2. n[y] = IF n[y] = 0 THEN 0 ELSE 1 + Total(f)
        BY <2>1, <3>1, <4>1 DEF TreeInv, CountsAddUp
      <4> QED BY <3>2, <4>1, <4>2
    <3> QED BY <1>11, <3>6, <3>7, <3>8
  <2>2. n'[Root] = total_playouts_' + initial_visits_'
    <3>1. Root \in UpFrom(x) /\ Root \in Nodes
      BY RootAbove, TreeAssumption
    <3>2. n'[Root] = n[Root] - k /\ initial_visits_' = initial_visits_ - k
      BY <1>1, <1>12, <1>14, <3>1 DEF InitialAfter
    <3>3. n[Root] = total_playouts_ + initial_visits_ /\ total_playouts_ \in Int /\ n[Root] \in Nat
      BY <1>5, <3>1 DEF TreeInv, CountsAddUp, Types
    <3> QED BY <1>1, <1>5, <3>2, <3>3
  <2> QED BY <2>1, <2>2 DEF CountsAddUp, Children
<1>33. (\A e \in Visits : ClaimRight(e))'
  BY <1>7, <1>29, <1>30
<1> QED BY <1>20, <1>21, <1>22, <1>23, <1>24, <1>31, <1>32, <1>33 DEF TreeInv

-----------------------------------------------------------------------------
(* CollectCollisions. *)

\* Pointers without shared visits do not matter for the sum.
SharedSum(s, y) == [p \in {q \in Pointers : y \in Above[q[1]]} |-> s[p]]

LEMMA SharedSums ==
    Types => \A y \in Nodes : /\ Summable(SharedSum(shared_collisions_, y))
                              /\ Total(SharedOver(y)) = Total(SharedSum(shared_collisions_, y))
<1> SUFFICES ASSUME Types, NEW y \in Nodes
             PROVE  /\ Summable(SharedSum(shared_collisions_, y))
                    /\ Total(SharedOver(y)) = Total(SharedSum(shared_collisions_, y))
  OBVIOUS
<1>1. PICK s \in [Pointers -> Nat] : s = shared_collisions_
  BY DEF Types
<1>2. PICK f : f = [p \in {q \in Pointers : y \in Above[q[1]]} |-> s[p]]
  OBVIOUS
<1>3. PICK g : g = [p \in {q \in Pointers : s[q] > 0 /\ y \in Above[q[1]]} |-> s[p]]
  OBVIOUS
<1>4. f = SharedSum(shared_collisions_, y) /\ g = SharedOver(y)
  BY <1>1, <1>2, <1>3 DEF SharedSum, SharedOver, Shared
<1>5. ASSUME NEW u PROVE u \in Units(f) <=> u \in Units(g)
  <2>1. u \in Units(f) <=> \E p \in DOMAIN f : u \in {p} \X (1 .. f[p])
    BY DEF Units
  <2>2. u \in Units(g) <=> \E p \in DOMAIN g : u \in {p} \X (1 .. g[p])
    BY DEF Units
  <2>3. ASSUME NEW p \in DOMAIN f, u \in {p} \X (1 .. f[p]) PROVE p \in DOMAIN g /\ g[p] = f[p]
    <3>1. p \in Pointers /\ y \in Above[p[1]] /\ f[p] = s[p] /\ s[p] \in Nat
      BY <1>2
    <3>2. u[2] \in 1 .. f[p]
      BY <2>3
    <3>3. s[p] > 0
      BY <3>1, <3>2
    <3> QED BY <1>3, <3>1, <3>3
  <2>4. ASSUME NEW p \in DOMAIN g PROVE p \in DOMAIN f /\ g[p] = f[p]
    BY <1>2, <1>3
  <2>5. ASSUME NEW p \in DOMAIN f, u \in {p} \X (1 .. f[p]) PROVE u \in Units(g)
    BY <2>2, <2>3, <2>5
  <2>6. ASSUME NEW p \in DOMAIN g, u \in {p} \X (1 .. g[p]) PROVE u \in Units(f)
    BY <2>1, <2>4, <2>6
  <2> QED BY <2>1, <2>2, <2>5, <2>6
<1>6. Units(f) = Units(g)
  BY <1>5
<1>7. Summable(f)
  <2>1. DOMAIN f \in SUBSET Pointers
    BY <1>2
  <2>2. IsFiniteSet(DOMAIN f)
    BY <2>1, FiniteEntries, FS_Subset
  <2> QED BY <1>2, <2>2 DEF Summable
<1> QED BY <1>4, <1>6, <1>7 DEF Total

LEMMA SharedSumsAfter ==
    (Types => \A y \in Nodes : /\ Summable(SharedSum(shared_collisions_, y))
                               /\ Total(SharedOver(y)) = Total(SharedSum(shared_collisions_, y)))'
  BY SharedSums, PTL

\* w's own collisions below y.
OwnOf(w, y) ==
    [i \in {j \in DOMAIN minibatch[w] : /\ IsCollision(minibatch[w][j])
                                         /\ y \in Above[minibatch[w][j].pointer[1]]}
     |-> minibatch[w][i].visits]

\* They are collected pointer by pointer.
LEMMA CollectedSum ==
    ASSUME Types, NEW w \in Workers, NEW y \in Nodes
    PROVE  /\ Summable(OwnOf(w, y)) /\ Summable(SharedSum(Collected(w), y))
           /\ Total(SharedSum(Collected(w), y)) = Total(OwnOf(w, y))
<1>1. PICK m : m = minibatch[w]
  OBVIOUS
<1>2. m \in Seq(Ats)
  BY <1>1 DEF Types
<1>3. DOMAIN m = 1 .. Len(m) /\ Len(m) \in Nat
  BY <1>2
<1>4. ASSUME NEW i \in DOMAIN m PROVE m[i].visits \in Nat /\ m[i].pointer \in Pointers
  <2>1. m[i] \in Ats
    BY <1>2, <1>3, ElementOfSeq
  <2> QED BY <2>1 DEF Ats
<1>5. PICK J : J = {j \in DOMAIN m : IsCollision(m[j]) /\ y \in Above[m[j].pointer[1]]}
  OBVIOUS
<1>6. PICK f : f = [i \in J |-> m[i].visits]
  OBVIOUS
<1>7. f = OwnOf(w, y)
  BY <1>1, <1>5, <1>6 DEF OwnOf
<1>8. Summable(f)
  <2>1. IsFiniteSet(1 .. Len(m)) /\ J \in SUBSET (1 .. Len(m))
    BY <1>3, <1>5, FS_Interval
  <2>2. IsFiniteSet(J)
    BY <2>1, FS_Subset
  <2> QED BY <1>4, <1>5, <1>6, <2>2 DEF Summable
<1>9. PICK P : P = {q \in Pointers : y \in Above[q[1]]}
  OBVIOUS
<1>10. IsFiniteSet(P)
  <2>1. P \in SUBSET Pointers
    BY <1>9
  <2> QED BY <2>1, FiniteEntries, FS_Subset
<1>11. PICK k : k = [i \in J |-> m[i].pointer]
  OBVIOUS
<1>12. k \in [DOMAIN f -> P]
  BY <1>4, <1>5, <1>6, <1>9, <1>11
<1>13. PICK h : h = [p \in P |-> Total([s \in {t \in DOMAIN f : k[t] = p} |-> f[s]])]
  OBVIOUS
<1>14. Summable(h) /\ Total(h) = Total(f)
  BY ONLY <1>8, <1>10, <1>12, <1>13, TotalByGroups
<1>15. ASSUME NEW p \in P PROVE h[p] = Collected(w)[p]
  <2>1. PICK A : A = {t \in DOMAIN f : k[t] = p}
    OBVIOUS
  <2>2. A = {j \in DOMAIN m : IsCollision(m[j]) /\ m[j].pointer = p}
    BY <1>5, <1>6, <1>9, <1>11, <2>1
  <2>3. [s \in A |-> f[s]] = [i \in A |-> m[i].visits]
    BY <1>6, <2>1
  <2>4. h[p] = Total([s \in A |-> f[s]])
    BY <1>13, <2>1
  <2>5. Collected(w)[p] = Total([i \in A |-> m[i].visits])
    BY <1>1, <1>9, <2>2 DEF Collected
  <2> QED BY <2>3, <2>4, <2>5
<1>16. h = SharedSum(Collected(w), y)
  BY <1>9, <1>13, <1>15 DEF SharedSum
<1> QED BY <1>7, <1>8, <1>14, <1>16

\* What w has not collected yet is part of what is on its way.
LEMMA OwnParts ==
    ASSUME Types, NEW w \in Workers, NEW y \in Nodes, Gathering(w),
           NEW f, f = [e \in {d \in OwnCollisions : y \in Above[NodeOf(d)] /\ d[1] # w} |-> At(e).visits]
    PROVE  /\ Total(f) \in Nat /\ Total(OwnOf(w, y)) \in Nat
           /\ Total(OwnOver(y)) = Total(f) + Total(OwnOf(w, y))
<1>1. PICK g : g = OwnOver(y)
  OBVIOUS
<1>2. Summable(g)
  BY <1>1, FlowTypes
<1>3. g = [e \in {d \in OwnCollisions : y \in Above[NodeOf(d)]} |-> At(e).visits]
  BY <1>1 DEF OwnOver
<1>4. PICK A : A = {d \in DOMAIN g : d[1] # w}
  OBVIOUS
<1>5. PICK B : B = {d \in DOMAIN g : d[1] = w}
  OBVIOUS
<1>6. DOMAIN g = A \cup B /\ A \cap B = {}
  BY <1>4, <1>5
<1>7. f = [s \in A |-> g[s]]
  BY <1>3, <1>4
<1>8. PICK h : h = [s \in B |-> g[s]]
  OBVIOUS
<1>9. Summable(h) /\ Total(g) = Total(f) + Total(h) /\ Total(f) \in Nat /\ Total(h) \in Nat
  BY ONLY <1>2, <1>6, <1>7, <1>8, TotalDisjoint
<1>10. PICK r : r = OwnOf(w, y)
  OBVIOUS
<1>11. r = [i \in {j \in DOMAIN minibatch[w] : /\ IsCollision(minibatch[w][j])
                                               /\ y \in Above[minibatch[w][j].pointer[1]]}
            |-> minibatch[w][i].visits]
  BY <1>10 DEF OwnOf
<1>12. PICK b : b = [i \in DOMAIN r |-> <<w, i>>]
  OBVIOUS
<1>13. ASSUME NEW i PROVE i \in DOMAIN r <=> <<w, i>> \in B
  <2>1. <<w, i>> \in Entries <=> i \in DOMAIN minibatch[w]
    BY DEF Entries
  <2>2. At(<<w, i>>) = minibatch[w][i] /\ NodeOf(<<w, i>>) = minibatch[w][i].pointer[1]
    BY DEF At, NodeOf
  <2>3. <<w, i>> \in OwnCollisions <=> i \in DOMAIN minibatch[w] /\ IsCollision(minibatch[w][i])
    BY <2>1, <2>2 DEF OwnCollisions, Gathering
  <2>4. <<w, i>> \in B <=> <<w, i>> \in OwnCollisions /\ y \in Above[NodeOf(<<w, i>>)]
    BY <1>3, <1>5
  <2> QED BY <1>11, <2>2, <2>3, <2>4
<1>14. DOMAIN h = B
  BY <1>8
<1>15. b \in [DOMAIN r -> DOMAIN h] /\ \A s, t \in DOMAIN r : b[s] = b[t] => s = t
  BY <1>12, <1>13, <1>14
<1>16. ASSUME NEW e \in DOMAIN h PROVE \E i \in DOMAIN r : b[i] = e
  <2>1. e \in B /\ e \in OwnCollisions /\ e[1] = w
    BY <1>3, <1>5, <1>14
  <2>2. e = <<e[1], e[2]>>
    BY <2>1, EntryTypes DEF OwnCollisions
  <2>3. e = <<w, e[2]>>
    BY <2>1, <2>2
  <2>4. e[2] \in DOMAIN r
    BY <1>13, <2>1, <2>3
  <2> QED BY <1>12, <2>3, <2>4
<1>17. ASSUME NEW i \in DOMAIN r PROVE r[i] = h[b[i]]
  <2>1. b[i] = <<w, i>> /\ <<w, i>> \in B
    BY <1>12, <1>13
  <2>2. h[<<w, i>>] = At(<<w, i>>).visits
    BY <1>3, <1>5, <1>8, <2>1
  <2>3. r[i] = minibatch[w][i].visits
    BY <1>11
  <2> QED BY <2>1, <2>2, <2>3 DEF At
<1>18. Summable(r)
  BY <1>10, CollectedSum
<1>19. Total(h) = Total(r)
  BY ONLY <1>15, <1>16, <1>17, <1>18, TotalReindex
<1> QED BY <1>1, <1>9, <1>10, <1>19

LEMMA CollectFlow ==
    ASSUME Types, Types', NEW w \in Workers, Gathering(w), ~Gathering(w)',
           \A u \in Workers \ {w} : pc'[u] = pc[u], minibatch' = minibatch,
           shared_collisions_' = [p \in Pointers |-> shared_collisions_[p] + Collected(w)[p]],
           NEW y \in Nodes
    PROVE  Total(OwnOver(y)') + Total(SharedOver(y)') = Total(OwnOver(y)) + Total(SharedOver(y))
<1>1. PICK f : f = [e \in {d \in OwnCollisions : y \in Above[NodeOf(d)] /\ d[1] # w} |-> At(e).visits]
  OBVIOUS
<1>2. /\ Total(f) \in Nat /\ Total(OwnOf(w, y)) \in Nat
      /\ Total(OwnOver(y)) = Total(f) + Total(OwnOf(w, y))
  BY <1>1, OwnParts
<1>3. OwnCollisions' = {e \in OwnCollisions : e[1] # w}
  <2>1. Entries' = Entries /\ \A e : At(e)' = At(e)
    BY DEF Entries, At
  <2>2. OwnCollisions' = {e \in Entries' : IsCollision(At(e))' /\ Gathering(e[1])'}
    BY DEF OwnCollisions, Gathering
  <2>3. OwnCollisions = {e \in Entries : IsCollision(At(e)) /\ Gathering(e[1])}
    BY DEF OwnCollisions, Gathering
  <2>4. ASSUME NEW e \in Entries
        PROVE  /\ Gathering(e[1])' <=> Gathering(e[1]) /\ e[1] # w
               /\ IsCollision(At(e))' <=> IsCollision(At(e))
    <3>1. e[1] \in Workers
      BY EntryTypes
    <3> QED BY <2>1, <3>1 DEF Gathering, IsCollision
  <2> QED BY <2>1, <2>2, <2>3, <2>4
<1>4. OwnOver(y)' = f
  <2>1. \A e : At(e)' = At(e) /\ NodeOf(e)' = NodeOf(e)
    BY DEF At, NodeOf
  <2> QED BY <1>1, <1>3, <2>1 DEF OwnOver
<1>5. PICK s : s = SharedSum(shared_collisions_, y)
  OBVIOUS
<1>6. PICK c : c = SharedSum(Collected(w), y)
  OBVIOUS
<1>7. PICK r : r = SharedSum(shared_collisions_', y)
  OBVIOUS
<1>8. Summable(s) /\ Total(SharedOver(y)) = Total(s) /\ Total(SharedOver(y)) \in Nat
  BY <1>5, SharedSums, FlowTypes
<1>9. Total(SharedOver(y)') = Total(r)
  BY <1>7, SharedSumsAfter
<1>10. Summable(c) /\ Total(c) = Total(OwnOf(w, y))
  BY <1>6, CollectedSum
<1>11. r = [p \in DOMAIN s |-> s[p] + c[p]] /\ DOMAIN c = DOMAIN s
  BY <1>5, <1>6, <1>7 DEF SharedSum
<1>12. Total(r) = Total(s) + Total(c)
  BY ONLY <1>8, <1>10, <1>11, TotalPlus
<1> QED BY <1>2, <1>4, <1>8, <1>9, <1>10, <1>12

LEMMA CollectedType ==
    ASSUME Types, NEW w \in Workers, NEW p \in Pointers
    PROVE  /\ Collected(w)[p] \in Nat
           /\ Collected(w)[p] # 0 => \E i \in DOMAIN minibatch[w] :
                  IsCollision(minibatch[w][i]) /\ minibatch[w][i].pointer = p
<1>1. PICK m : m = minibatch[w]
  OBVIOUS
<1>2. m \in Seq(Ats)
  BY <1>1 DEF Types
<1>3. DOMAIN m = 1 .. Len(m) /\ Len(m) \in Nat
  BY <1>2
<1>4. ASSUME NEW i \in DOMAIN m PROVE m[i].visits \in Nat
  <2>1. m[i] \in Ats
    BY <1>2, <1>3, ElementOfSeq
  <2> QED BY <2>1 DEF Ats
<1>5. PICK A : A = {j \in DOMAIN m : IsCollision(m[j]) /\ m[j].pointer = p}
  OBVIOUS
<1>6. PICK f : f = [i \in A |-> m[i].visits]
  OBVIOUS
<1>7. Collected(w)[p] = Total(f)
  BY <1>1, <1>5, <1>6 DEF Collected
<1>8. Summable(f)
  <2>1. IsFiniteSet(1 .. Len(m)) /\ A \in SUBSET (1 .. Len(m))
    BY <1>3, <1>5, FS_Interval
  <2>2. IsFiniteSet(A)
    BY <2>1, FS_Subset
  <2> QED BY <1>4, <1>5, <1>6, <2>2 DEF Summable
<1>9. A = {} => Total(f) = 0
  BY <1>6, TotalZero
<1> QED BY <1>1, <1>5, <1>7, <1>8, <1>9, TotalType

LEMMA CollectKeeps ==
    ASSUME TreeInv, NEW w \in Workers, CollectCollisions(w)
    PROVE  TreeInv'
<1>1. /\ pc[w] = "gather"
      /\ shared_collisions_' = [p \in Pointers |-> shared_collisions_[p] + Collected(w)[p]]
      /\ pc' = [pc EXCEPT ![w] = "fetch"]
      /\ UNCHANGED <<n, n_in_flight_, initial_visits_, total_playouts_, edges, terminal, solid,
                     minibatch, destroyed>>
  BY DEF CollectCollisions, Goto, counts, shape, local
<1>2. Types
  BY DEF TreeInv
<1>3. shared_collisions_ \in [Pointers -> Nat]
  BY <1>2 DEF Types
<1>4. shared_collisions_' \in [Pointers -> Nat]
  BY <1>1, <1>2, <1>3, CollectedType
<1>5. Types'
  BY <1>1, <1>2, <1>4 DEF Types
<1>6. pc'[w] = "fetch" /\ \A u \in Workers \ {w} : pc'[u] = pc[u]
  BY <1>1, <1>2 DEF Types
<1>7. Gathering(w) /\ ~Gathering(w)'
  BY <1>1, <1>6 DEF Gathering
<1>8. /\ Entries' = Entries /\ Visits' = Visits
      /\ \A e : At(e)' = At(e) /\ NodeOf(e)' = NodeOf(e)
  <2>1. Entries' = Entries
    BY <1>1 DEF Entries
  <2>2. ASSUME NEW e PROVE At(e)' = At(e) /\ NodeOf(e)' = NodeOf(e)
    BY <1>1 DEF At, NodeOf
  <2>3. Visits' = Visits
    BY <2>1, <2>2 DEF Visits, IsCollision
  <2> QED BY <2>1, <2>2, <2>3
<1>9. \A u \in Workers : BatchFits(u)'
  BY <1>1, <1>6 DEF TreeInv, BatchFits, IsCollision
<1>10. Ended'
  BY <1>1 DEF TreeInv, Ended
<1>11. ASSUME NEW y \in Nodes PROVE InFlight(y)'
  <2>1. ClaimsOver(y)' = ClaimsOver(y)
    BY <1>8 DEF ClaimsOver, UpFrom
  <2>2. Total(OwnOver(y)') + Total(SharedOver(y)') = Total(OwnOver(y)) + Total(SharedOver(y))
    BY <1>1, <1>2, <1>5, <1>6, <1>7, CollectFlow
  <2>3. /\ Cardinality(ClaimsOver(y)) \in Nat /\ Total(OwnOver(y)) \in Nat /\ Total(SharedOver(y)) \in Nat
    BY <1>2, FlowTypes
  <2>4. Total(OwnOver(y)') \in Nat /\ Total(SharedOver(y)') \in Nat
    BY <1>5, FlowTypesAfter
  <2>5. n_in_flight_'[y] = Cardinality(ClaimsOver(y)) + Total(OwnOver(y)) + Total(SharedOver(y))
    BY <1>1 DEF TreeInv, InFlight
  <2>6. n_in_flight_'[y] = Cardinality(ClaimsOver(y)) + Total(OwnOver(y)') + Total(SharedOver(y)')
    BY <2>2, <2>3, <2>4, <2>5
  <2> QED BY <2>1, <2>6 DEF InFlight
<1>12. CollisionsLive'
  <2>1. ASSUME NEW e \in OwnCollisions' PROVE Live(At(e).pointer)'
    <3>1. e \in Entries /\ IsCollision(At(e)) /\ Gathering(e[1])'
      BY <1>8 DEF OwnCollisions, Gathering, IsCollision
    <3>2. e[1] \in Workers
      BY <1>2, <3>1, EntryTypes
    <3>3. e[1] # w
      BY <1>7, <3>1
    <3>4. e \in OwnCollisions
      BY <1>6, <3>1, <3>2, <3>3 DEF OwnCollisions, Gathering
    <3> QED BY <1>1, <1>8, <3>4 DEF TreeInv, CollisionsLive, Live, Where
  <2>2. ASSUME NEW p \in Shared' PROVE Live(p)'
    <3>1. p \in Pointers /\ shared_collisions_[p] + Collected(w)[p] > 0
      BY <1>1 DEF Shared
    <3>2. shared_collisions_[p] \in Nat /\ Collected(w)[p] \in Nat
      BY <1>2, <1>3, <3>1, CollectedType
    <3>3. CASE shared_collisions_[p] > 0
      BY <1>1, <3>1, <3>3 DEF TreeInv, CollisionsLive, Live, Where, Shared
    <3>4. CASE Collected(w)[p] # 0
      <4>1. PICK i \in DOMAIN minibatch[w] : IsCollision(minibatch[w][i]) /\ minibatch[w][i].pointer = p
        BY <1>2, <3>1, <3>4, CollectedType
      <4>2. <<w, i>> \in Entries /\ At(<<w, i>>) = minibatch[w][i]
        BY DEF Entries, At
      <4>3. <<w, i>> \in OwnCollisions
        BY <1>7, <4>1, <4>2 DEF OwnCollisions, Gathering
      <4>4. Live(p)
        BY <4>1, <4>2, <4>3 DEF TreeInv, CollisionsLive
      <4> QED BY <1>1, <4>4 DEF Live, Where
    <3> QED BY <3>1, <3>2, <3>3, <3>4
  <2> QED BY <2>1, <2>2 DEF CollisionsLive
<1>13. ASSUME NEW e \in Visits PROVE ClaimRight(e)'
  <2>1. ClaimRight(e)
    BY DEF TreeInv
  <2>2. Live(At(e).pointer)'
    BY <1>1, <1>8, <2>1 DEF ClaimRight, Live, Where
  <2>3. e[1] \in Workers
    BY <1>2, EntryTypes DEF Visits
  <2>4. ToExtend(e) => ToExtend(e)'
    BY <1>1, <1>6, <2>3 DEF ToExtend
  <2>5. ~IsTwoFoldTerminal(NodeOf(e))'
    BY <1>1, <1>8, <2>1 DEF ClaimRight, IsTwoFoldTerminal
  <2>6. /\ NodeOf(e) \in terminal' \/ n'[NodeOf(e)] = 0
        /\ \A a \in Above[NodeOf(e)] : n'[a] > 0 /\ a \in edges'
        /\ NodeOf(e) \in edges' \cup terminal' \/ ToExtend(e)
        /\ \A f \in Visits : f # e /\ NodeOf(f) = NodeOf(e) => NodeOf(e) \in terminal'
    BY <1>1, <2>1 DEF ClaimRight
  <2> QED BY <1>8, <2>2, <2>4, <2>5, <2>6 DEF ClaimRight
<1>14. VisitsFit'
  BY <1>1, <1>8 DEF TreeInv, VisitsFit
<1>15. CountsAddUp'
  BY <1>1 DEF TreeInv, CountsAddUp, Children
<1>16. (\A e \in Visits : ClaimRight(e))'
  BY <1>8, <1>13
<1> QED BY <1>5, <1>9, <1>10, <1>11, <1>12, <1>14, <1>15, <1>16 DEF TreeInv

-----------------------------------------------------------------------------
(* CancelSharedCollisions. *)

\* The minibatches stay and what is shared may be cancelled.
LEMMA CancelStep ==
    ASSUME TreeInv,
           UNCHANGED <<n, initial_visits_, total_playouts_, edges, terminal, solid, minibatch>>,
           CancelSharedCollisions \/ UNCHANGED <<n_in_flight_, shared_collisions_>>,
           pc' \in [Workers -> {"gather", "extend", "own_edge", "picked", "fetch", "backup", "done"}],
           \A e \in Entries : /\ Gathering(e[1])' <=> Gathering(e[1])
                              /\ ToExtend(e) => ToExtend(e)',
           (\A u \in Workers : BatchFits(u))', Ended'
    PROVE  TreeInv'
<1>1. Types /\ shared_collisions_ \in [Pointers -> Nat] /\ n_in_flight_ \in [Nodes -> Int]
  BY DEF TreeInv, Types
<1>2. ASSUME NEW x \in Nodes PROVE SharedBelow(x) = Total(SharedOver(x)) /\ Total(SharedOver(x)) \in Nat
  BY <1>1, FlowTypes DEF SharedBelow, SharedOver
<1>3. n_in_flight_' \in [Nodes -> Int] /\ shared_collisions_' \in [Pointers -> Nat]
  BY <1>1, <1>2 DEF CancelSharedCollisions, Cancelled
<1>4. Types'
  BY <1>1, <1>3 DEF Types
<1>5. Entries' = Entries /\ \A e : At(e)' = At(e) /\ NodeOf(e)' = NodeOf(e)
  BY DEF Entries, At, NodeOf
<1>6. Visits' = Visits
  BY <1>5 DEF Visits, IsCollision
<1>7. OwnCollisions' = OwnCollisions
  <2>1. OwnCollisions' = {e \in Entries' : IsCollision(At(e))' /\ Gathering(e[1])'}
    BY DEF OwnCollisions, Gathering
  <2>2. OwnCollisions = {e \in Entries : IsCollision(At(e)) /\ Gathering(e[1])}
    BY DEF OwnCollisions, Gathering
  <2>3. \A e \in Entries : IsCollision(At(e))' <=> IsCollision(At(e))
    BY <1>5 DEF IsCollision
  <2> QED BY <1>5, <2>1, <2>2, <2>3
<1>8. ASSUME NEW x \in Nodes PROVE InFlight(x)'
  <2>1. ClaimsOver(x)' = ClaimsOver(x)
    BY <1>5, <1>6 DEF ClaimsOver, UpFrom
  <2>2. OwnOver(x)' = OwnOver(x)
    BY <1>5, <1>7 DEF OwnOver
  <2>3. InFlight(x)
    BY DEF TreeInv
  <2>4. CASE UNCHANGED <<n_in_flight_, shared_collisions_>>
    <3>1. SharedOver(x)' = SharedOver(x)
      BY <2>4 DEF SharedOver, Shared
    <3> QED BY <2>1, <2>2, <2>3, <2>4, <3>1 DEF InFlight
  <2>5. CASE CancelSharedCollisions
    <3>1. \A p \in Pointers : shared_collisions_'[p] = 0
      BY <2>5 DEF CancelSharedCollisions
    <3>2. Shared' = {}
      BY <3>1 DEF Shared
    <3>3. DOMAIN SharedOver(x)' = {}
      BY <3>2 DEF SharedOver
    <3>4. Total(SharedOver(x)') = 0
      BY <3>3, TotalZero
    <3>5. n_in_flight_'[x] = n_in_flight_[x] - Total(SharedOver(x))
      BY <1>2, <2>5 DEF CancelSharedCollisions, Cancelled
    <3>6. Cardinality(ClaimsOver(x)) \in Nat /\ Total(OwnOver(x)) \in Nat /\ Total(SharedOver(x)) \in Nat
      BY <1>1, FlowTypes
    <3>7. n_in_flight_'[x] = Cardinality(ClaimsOver(x)) + Total(OwnOver(x)) + Total(SharedOver(x)')
      BY <2>3, <3>4, <3>5, <3>6 DEF InFlight
    <3> QED BY <2>1, <2>2, <3>7 DEF InFlight
  <2> QED BY <2>4, <2>5
<1>9. CollisionsLive'
  <2>1. ASSUME NEW e \in OwnCollisions PROVE Live(At(e).pointer)'
    BY <1>5 DEF TreeInv, CollisionsLive, Live, Where
  <2>2. Shared' \subseteq Shared
    BY DEF CancelSharedCollisions, Shared
  <2>3. ASSUME NEW p \in Shared' PROVE Live(p)'
    BY <2>2 DEF TreeInv, CollisionsLive, Live, Where
  <2> QED BY <1>7, <2>1, <2>3 DEF CollisionsLive
<1>10. ASSUME NEW e \in Visits PROVE ClaimRight(e)'
  <2>1. ClaimRight(e) /\ e \in Entries
    BY DEF TreeInv, Visits
  <2>2. Live(At(e).pointer)'
    BY <1>5, <2>1 DEF ClaimRight, Live, Where
  <2>3. ToExtend(e) => ToExtend(e)'
    BY <2>1
  <2>4. ~IsTwoFoldTerminal(NodeOf(e))'
    BY <1>5, <2>1 DEF ClaimRight, IsTwoFoldTerminal
  <2>5. /\ NodeOf(e) \in terminal' \/ n'[NodeOf(e)] = 0
        /\ \A a \in Above[NodeOf(e)] : n'[a] > 0 /\ a \in edges'
        /\ NodeOf(e) \in edges' \cup terminal' \/ ToExtend(e)
        /\ \A f \in Visits : f # e /\ NodeOf(f) = NodeOf(e) => NodeOf(e) \in terminal'
    BY <2>1 DEF ClaimRight
  <2> QED BY <1>5, <1>6, <2>2, <2>3, <2>4, <2>5 DEF ClaimRight
<1>11. VisitsFit'
  BY <1>5, <1>6 DEF TreeInv, VisitsFit
<1>12. CountsAddUp'
  BY DEF TreeInv, CountsAddUp, Children
<1>13. (\A e \in Visits : ClaimRight(e))'
  BY <1>6, <1>10
<1> QED BY <1>4, <1>8, <1>9, <1>11, <1>12, <1>13 DEF TreeInv

LEMMA EndBackupKeeps ==
    ASSUME TreeInv, NEW w \in Workers, EndBackup(w)
    PROVE  TreeInv'
<1>1. /\ pc[w] = "backup" /\ minibatch[w] = << >>
      /\ CancelSharedCollisions \/ UNCHANGED <<n_in_flight_, shared_collisions_>>
      /\ UNCHANGED <<n, initial_visits_, total_playouts_, edges, terminal, solid, minibatch, destroyed>>
  BY DEF EndBackup, shape
<1>2. PICK where \in {"gather", "done"} : pc' = [pc EXCEPT ![w] = where]
  BY DEF EndBackup, Goto
<1>3. Types
  BY DEF TreeInv
<1>4. pc' \in [Workers -> {"gather", "extend", "own_edge", "picked", "fetch", "backup", "done"}]
  BY <1>2, <1>3 DEF Types
<1>5. pc'[w] = where /\ \A u \in Workers \ {w} : pc'[u] = pc[u]
  BY <1>2, <1>3 DEF Types
<1>6. ASSUME NEW e \in Entries
      PROVE  (Gathering(e[1])' <=> Gathering(e[1])) /\ (ToExtend(e) => ToExtend(e)')
  <2>1. e[1] \in Workers /\ e[2] \in 1 .. Len(minibatch[e[1]])
    BY <1>3, EntryTypes
  <2>2. e[1] # w
    <3>1. ASSUME e[1] = w PROVE FALSE
      <4>1. Len(minibatch[w]) = 0
        BY <1>1
      <4> QED BY <2>1, <3>1, <4>1
    <3> QED BY <3>1
  <2> QED BY <1>1, <1>5, <2>1, <2>2 DEF Gathering, ToExtend
<1>7. (\A u \in Workers : BatchFits(u))'
  <2>1. ASSUME NEW u \in Workers PROVE BatchFits(u)'
    BY <1>1, <1>5 DEF TreeInv, BatchFits, IsCollision
  <2> QED BY <2>1
<1>8. Ended'
  BY <1>1 DEF TreeInv, Ended
<1> QED BY <1>1, <1>4, <1>6, <1>7, <1>8, CancelStep

LEMMA DestroyKeeps ==
    ASSUME TreeInv, Destroy
    PROVE  TreeInv'
<1>1. /\ \A w \in Workers : pc[w] = "done"
      /\ CancelSharedCollisions
      /\ UNCHANGED <<n, initial_visits_, total_playouts_, edges, terminal, solid, minibatch, pc>>
  BY DEF Destroy, shape, local
<1>2. pc' \in [Workers -> {"gather", "extend", "own_edge", "picked", "fetch", "backup", "done"}]
  BY <1>1 DEF TreeInv, Types
<1>3. \A e \in Entries : (Gathering(e[1])' <=> Gathering(e[1])) /\ (ToExtend(e) => ToExtend(e)')
  BY <1>1 DEF Gathering, ToExtend
<1>4. (\A u \in Workers : BatchFits(u))'
  BY <1>1 DEF TreeInv, BatchFits, IsCollision
<1>5. Ended'
  BY <1>1 DEF Ended, CancelSharedCollisions
<1> QED BY <1>1, <1>2, <1>3, <1>4, <1>5, CancelStep

-----------------------------------------------------------------------------
(* MakeSolid. *)

\* The virtual visits through x, one by one.
Flow(x) ==
    ({1} \X ClaimsOver(x)) \cup ({2} \X Units(OwnOver(x))) \cup ({3} \X Units(SharedOver(x)))

LEMMA FlowCounted ==
    ASSUME Types, NEW x \in Nodes, InFlight(x)
    PROVE  IsFiniteSet(Flow(x)) /\ Cardinality(Flow(x)) = n_in_flight_[x]
<1>1. PICK A : A = {1} \X ClaimsOver(x)
  OBVIOUS
<1>2. PICK B : B = {2} \X Units(OwnOver(x))
  OBVIOUS
<1>3. PICK C : C = {3} \X Units(SharedOver(x))
  OBVIOUS
<1>4. /\ IsFiniteSet(ClaimsOver(x)) /\ Cardinality(ClaimsOver(x)) \in Nat
      /\ IsFiniteSet(Units(OwnOver(x))) /\ IsFiniteSet(Units(SharedOver(x)))
  BY FlowTypes, TotalType
<1>5. /\ IsFiniteSet(A) /\ Cardinality(A) = Cardinality(ClaimsOver(x))
      /\ IsFiniteSet(B) /\ Cardinality(B) = Total(OwnOver(x))
      /\ IsFiniteSet(C) /\ Cardinality(C) = Total(SharedOver(x))
  BY <1>1, <1>2, <1>3, <1>4, TagCard DEF Total
<1>6. A \cap B = {} /\ (A \cup B) \cap C = {}
  BY <1>1, <1>2, <1>3
<1>7. IsFiniteSet(A \cup B) /\ Cardinality(A \cup B) = Cardinality(A) + Cardinality(B)
  BY <1>5, <1>6, CardDisjoint
<1>8. PICK D : D = A \cup B
  OBVIOUS
<1>9. IsFiniteSet(D \cup C) /\ Cardinality(D \cup C) = Cardinality(D) + Cardinality(C)
  BY <1>5, <1>6, <1>7, <1>8, CardDisjoint
<1>10. Flow(x) = D \cup C
  BY <1>1, <1>2, <1>3, <1>8 DEF Flow
<1> QED BY <1>5, <1>7, <1>8, <1>9, <1>10 DEF InFlight

\* What passes through a child passes through its parent.
LEMMA ChildFlow ==
    ASSUME Types, NEW z \in Nodes, NEW c \in Children(z), NEW u \in Nodes
    PROVE  (c \in UpFrom(u) => z \in UpFrom(u)) /\ (c \in Above[u] => z \in Above[u])
<1>1. c \in Nodes /\ c # Root /\ Parent[c] = z
  BY DEF Children
<1>2. c \in UpFrom(u) => z \in Above[u]
  BY <1>1, ParentOnWay
<1> QED BY <1>2 DEF UpFrom

\* The children of a node are not above one another.
LEMMA SiblingsApart ==
    ASSUME NEW z \in Nodes, NEW c \in Children(z), NEW d \in Children(z)
    PROVE  d \notin Above[c] /\ z \in Above[c]
<1>1. c \in Nodes /\ d \in Nodes /\ Above[c] = {z} \cup Above[z] /\ Above[d] = {z} \cup Above[z]
  BY TreeAssumption DEF Children
<1>2. z \notin Above[z] /\ d \notin Above[d]
  BY <1>1, TreeAssumption
<1> QED BY <1>1, <1>2

\* When the children account for all that passes through z, nothing has collided
\* with a child of z.
LEMMA NoCollisionBelow ==
    ASSUME Types, \A x \in Nodes : InFlight(x), NEW z \in Nodes,
           Total(CountsBelow(n_in_flight_, z)) = n_in_flight_[z]
    PROVE  /\ \A e \in OwnCollisions : NodeOf(e) \notin Children(z)
           /\ \A p \in Shared : p[1] \notin Children(z)
<1>1. PICK C : C = Children(z)
  OBVIOUS
<1>2. C \in SUBSET Nodes /\ IsFiniteSet(C)
  <2>1. C \in SUBSET Nodes
    BY <1>1 DEF Children
  <2> QED BY <2>1, TreeAssumption, FS_Subset
<1>3. PICK U : U = [c \in C |-> Flow(c)]
  OBVIOUS
<1>4. \A c \in C : IsFiniteSet(U[c]) /\ Cardinality(U[c]) = n_in_flight_[c]
  BY <1>2, <1>3, FlowCounted
<1>5. PICK f : f = [c \in C |-> Cardinality(U[c])]
  OBVIOUS
<1>6. f = CountsBelow(n_in_flight_, z)
  BY <1>1, <1>4, <1>5 DEF CountsBelow
<1>7. ASSUME NEW c \in C, NEW t \in Flow(c)
      PROVE  \/ \E e \in Visits : t = <<1, e>> /\ c \in UpFrom(NodeOf(e))
             \/ \E e \in OwnCollisions : c \in Above[NodeOf(e)] /\ t[1] = 2 /\ t[2][1] = e
             \/ \E p \in Shared : c \in Above[p[1]] /\ t[1] = 3 /\ t[2][1] = p
  <2>1. CASE t \in {1} \X ClaimsOver(c)
    BY <2>1 DEF ClaimsOver
  <2>2. CASE t \in {2} \X Units(OwnOver(c))
    <3>1. t[1] = 2 /\ t[2] \in Units(OwnOver(c))
      BY <2>2
    <3>2. PICK e \in DOMAIN OwnOver(c) : t[2] \in {e} \X (1 .. OwnOver(c)[e])
      BY <3>1 DEF Units
    <3>3. t[2][1] = e
      BY <3>2
    <3>4. e \in OwnCollisions /\ c \in Above[NodeOf(e)]
      BY <3>2 DEF OwnOver
    <3> QED BY <3>1, <3>3, <3>4
  <2>3. CASE t \in {3} \X Units(SharedOver(c))
    <3>1. t[1] = 3 /\ t[2] \in Units(SharedOver(c))
      BY <2>3
    <3>2. PICK p \in DOMAIN SharedOver(c) : t[2] \in {p} \X (1 .. SharedOver(c)[p])
      BY <3>1 DEF Units
    <3>3. t[2][1] = p
      BY <3>2
    <3>4. p \in Shared /\ c \in Above[p[1]]
      BY <3>2 DEF SharedOver
    <3> QED BY <3>1, <3>3, <3>4
  <2> QED BY <1>7, <2>1, <2>2, <2>3 DEF Flow
<1>8. /\ \A e \in Visits : NodeOf(e) \in Nodes
      /\ \A e \in OwnCollisions : NodeOf(e) \in Nodes /\ At(e).visits \in Nat \ {0}
      /\ \A p \in Shared : p[1] \in Nodes /\ p \in Pointers
  BY EntryTypes DEF Visits, OwnCollisions, Shared, Pointers
<1>9. ASSUME NEW c \in C, NEW d \in C, c # d PROVE U[c] \cap U[d] = {}
  <2>1. ASSUME NEW t \in Flow(c), t \in Flow(d) PROVE FALSE
    <3>1. ASSUME NEW u \in Nodes, c \in UpFrom(u), d \in UpFrom(u) PROVE FALSE
      BY <1>1, <1>9, <3>1, OneChildOnWay
    <3>2. ASSUME NEW u \in Nodes, c \in Above[u], d \in Above[u] PROVE FALSE
      BY <3>1, <3>2 DEF UpFrom
    <3>3. CASE \E e \in Visits : t = <<1, e>> /\ c \in UpFrom(NodeOf(e))
      <4>1. PICK e \in Visits : t = <<1, e>> /\ c \in UpFrom(NodeOf(e))
        BY <3>3
      <4>2. t[1] = 1
        BY <4>1
      <4>3. PICK g \in Visits : t = <<1, g>> /\ d \in UpFrom(NodeOf(g))
        BY <1>7, <2>1, <4>2
      <4>4. e = g
        BY <4>1, <4>3
      <4> QED BY <1>8, <3>1, <4>1, <4>3, <4>4
    <3>4. CASE \E e \in OwnCollisions : c \in Above[NodeOf(e)] /\ t[1] = 2 /\ t[2][1] = e
      <4>1. PICK e \in OwnCollisions : c \in Above[NodeOf(e)] /\ t[1] = 2 /\ t[2][1] = e
        BY <3>4
      <4>2. ~ \E g \in Visits : t = <<1, g>>
        BY <4>1
      <4>3. PICK g \in OwnCollisions : d \in Above[NodeOf(g)] /\ t[2][1] = g
        BY <1>7, <2>1, <4>1, <4>2
      <4> QED BY <1>8, <3>2, <4>1, <4>3
    <3>5. CASE \E p \in Shared : c \in Above[p[1]] /\ t[1] = 3 /\ t[2][1] = p
      <4>1. PICK p \in Shared : c \in Above[p[1]] /\ t[1] = 3 /\ t[2][1] = p
        BY <3>5
      <4>2. ~ \E g \in Visits : t = <<1, g>>
        BY <4>1
      <4>3. PICK q \in Shared : d \in Above[q[1]] /\ t[2][1] = q
        BY <1>7, <2>1, <4>1, <4>2
      <4> QED BY <1>8, <3>2, <4>1, <4>3
    <3> QED BY <1>7, <3>3, <3>4, <3>5
  <2> QED BY <1>3, <2>1
<1>10. PICK V : V = UNION {U[c] : c \in C}
  OBVIOUS
<1>11. IsFiniteSet(V) /\ Cardinality(V) = n_in_flight_[z]
  <2>1. \A c \in C : IsFiniteSet(U[c])
    BY <1>4
  <2>2. \A c, d \in C : c # d => U[c] \cap U[d] = {}
    BY <1>9
  <2>3. IsFiniteSet(V) /\ Total(f) = Cardinality(V)
    BY ONLY <1>2, <1>5, <1>10, <2>1, <2>2, TotalOfCards
  <2> QED BY <1>6, <2>3
<1>12. IsFiniteSet(Flow(z)) /\ Cardinality(Flow(z)) = n_in_flight_[z]
  BY FlowCounted
<1>13. ASSUME NEW c \in C PROVE Flow(c) \subseteq Flow(z)
  <2>1. ClaimsOver(c) \subseteq ClaimsOver(z)
    BY <1>1, <1>8, ChildFlow DEF ClaimsOver
  <2>2. ASSUME NEW t \in Units(OwnOver(c)) PROVE t \in Units(OwnOver(z))
    <3>1. PICK e \in DOMAIN OwnOver(c) : t \in {e} \X (1 .. OwnOver(c)[e])
      BY DEF Units
    <3>2. e \in OwnCollisions /\ c \in Above[NodeOf(e)] /\ OwnOver(c)[e] = At(e).visits
      BY <3>1 DEF OwnOver
    <3>3. z \in Above[NodeOf(e)]
      BY <1>1, <1>8, <3>2, ChildFlow
    <3>4. e \in DOMAIN OwnOver(z) /\ OwnOver(z)[e] = OwnOver(c)[e]
      BY <3>2, <3>3 DEF OwnOver
    <3> QED BY <3>1, <3>4 DEF Units
  <2>3. ASSUME NEW t \in Units(SharedOver(c)) PROVE t \in Units(SharedOver(z))
    <3>1. PICK p \in DOMAIN SharedOver(c) : t \in {p} \X (1 .. SharedOver(c)[p])
      BY DEF Units
    <3>2. p \in Shared /\ c \in Above[p[1]] /\ SharedOver(c)[p] = shared_collisions_[p]
      BY <3>1 DEF SharedOver
    <3>3. z \in Above[p[1]]
      BY <1>1, <1>8, <3>2, ChildFlow
    <3>4. p \in DOMAIN SharedOver(z) /\ SharedOver(z)[p] = SharedOver(c)[p]
      BY <3>2, <3>3 DEF SharedOver
    <3> QED BY <3>1, <3>4 DEF Units
  <2> QED BY <2>1, <2>2, <2>3 DEF Flow
<1>14. V = Flow(z)
  <2>1. V \in SUBSET Flow(z)
    BY <1>3, <1>10, <1>13
  <2> QED BY <1>11, <1>12, <2>1, FS_Subset
<1>15. ASSUME NEW e \in OwnCollisions, NodeOf(e) \in Children(z) PROVE FALSE
  <2>1. z \in Above[NodeOf(e)] /\ \A d \in C : d \notin Above[NodeOf(e)]
    BY <1>1, <1>15, SiblingsApart
  <2>2. e \in DOMAIN OwnOver(z) /\ OwnOver(z)[e] = At(e).visits
    BY <2>1 DEF OwnOver
  <2>3. 1 \in 1 .. OwnOver(z)[e]
    BY <1>8, <2>2
  <2>4. <<e, 1>> \in Units(OwnOver(z))
    BY <2>2, <2>3 DEF Units
  <2>5. PICK t : t = <<2, <<e, 1>>>>
    OBVIOUS
  <2>6. t \in V
    BY <1>14, <2>4, <2>5 DEF Flow
  <2>7. PICK d \in C : t \in Flow(d)
    BY <1>3, <1>10, <2>6
  <2>8. t[1] = 2 /\ t[2][1] = e
    BY <2>5
  <2>9. ~ \E g \in Visits : t = <<1, g>>
    BY <2>8
  <2> QED BY <1>7, <2>1, <2>7, <2>8, <2>9
<1>16. ASSUME NEW p \in Shared, p[1] \in Children(z) PROVE FALSE
  <2>1. z \in Above[p[1]] /\ \A d \in C : d \notin Above[p[1]]
    BY <1>1, <1>16, SiblingsApart
  <2>2. p \in DOMAIN SharedOver(z) /\ SharedOver(z)[p] = shared_collisions_[p]
    BY <2>1 DEF SharedOver
  <2>3. shared_collisions_[p] \in Nat /\ shared_collisions_[p] > 0
    BY DEF Shared, Types
  <2>4. 1 \in 1 .. SharedOver(z)[p]
    BY <2>2, <2>3
  <2>5. <<p, 1>> \in Units(SharedOver(z))
    BY <2>2, <2>4 DEF Units
  <2>6. PICK t : t = <<3, <<p, 1>>>>
    OBVIOUS
  <2>7. t \in V
    BY <1>14, <2>5, <2>6 DEF Flow
  <2>8. PICK d \in C : t \in Flow(d)
    BY <1>3, <1>10, <2>7
  <2>9. t[1] = 3 /\ t[2][1] = p
    BY <2>6
  <2>10. ~ \E g \in Visits : t = <<1, g>>
    BY <2>9
  <2> QED BY <1>7, <2>1, <2>8, <2>9, <2>10
<1> QED BY <1>15, <1>16

LEMMA FlowFacts ==
    Types /\ (\A x \in Nodes : InFlight(x)) =>
        /\ \A e \in Visits : n_in_flight_[NodeOf(e)] > 0
        /\ \A z \in Nodes : Total(CountsBelow(n_in_flight_, z)) = n_in_flight_[z] =>
               /\ \A e \in OwnCollisions : NodeOf(e) \notin Children(z)
               /\ \A p \in Shared : p[1] \notin Children(z)
<1> SUFFICES ASSUME Types, \A x \in Nodes : InFlight(x)
             PROVE  /\ \A e \in Visits : n_in_flight_[NodeOf(e)] > 0
                    /\ \A z \in Nodes : Total(CountsBelow(n_in_flight_, z)) = n_in_flight_[z] =>
                           /\ \A e \in OwnCollisions : NodeOf(e) \notin Children(z)
                           /\ \A p \in Shared : p[1] \notin Children(z)
  OBVIOUS
<1>1. ASSUME NEW e \in Visits PROVE n_in_flight_[NodeOf(e)] > 0
  <2>1. NodeOf(e) \in Nodes /\ NodeOf(e) \in UpFrom(NodeOf(e))
    BY EntryTypes DEF Visits, UpFrom
  <2> QED BY <2>1, ClaimedInFlight
<1> QED BY <1>1, NoCollisionBelow

LEMMA FlowFactsAfter ==
    (Types /\ (\A x \in Nodes : InFlight(x)) =>
        /\ \A e \in Visits : n_in_flight_[NodeOf(e)] > 0
        /\ \A z \in Nodes : Total(CountsBelow(n_in_flight_, z)) = n_in_flight_[z] =>
               /\ \A e \in OwnCollisions : NodeOf(e) \notin Children(z)
               /\ \A p \in Shared : p[1] \notin Children(z))'
  BY FlowFacts, PTL

-----------------------------------------------------------------------------
(* DoBackupUpdateSingleNode. *)

\* The claims that stay, all but those in R, are renumbered by b.
Renumbered(b, R) ==
    /\ b \in [Visits' -> Visits \ R]
    /\ \A e, f \in Visits' : b[e] = b[f] => e = f
    /\ \A f \in Visits \ R : \E e \in Visits' : b[e] = f
    /\ \A e \in Visits' : At(e)' = At(b[e]) /\ NodeOf(e)' = NodeOf(b[e])
    /\ \A e \in Visits' : ToExtend(b[e]) => ToExtend(e)'

LEMMA RenumberedFlow ==
    ASSUME Types, NEW R, NEW b, Renumbered(b, R), NEW x \in Nodes, Types'
    PROVE  Cardinality(ClaimsOver(x)') = Cardinality(ClaimsOver(x) \ R)
<1>1. PICK S : S = ClaimsOver(x)'
  OBVIOUS
<1>2. PICK T : T = ClaimsOver(x) \ R
  OBVIOUS
<1>3. ASSUME NEW e PROVE e \in S <=> e \in Visits' /\ x \in UpFrom(NodeOf(b[e]))
  BY <1>1 DEF ClaimsOver, Renumbered, UpFrom
<1>4. ASSUME NEW e PROVE e \in T <=> e \in Visits \ R /\ x \in UpFrom(NodeOf(e))
  BY <1>2 DEF ClaimsOver
<1>5. PICK g : g = [e \in S |-> b[e]]
  OBVIOUS
<1>6. /\ \A e \in Visits' : b[e] \in Visits \ R
      /\ \A e, f \in Visits' : b[e] = b[f] => e = f
      /\ \A f \in Visits \ R : \E e \in Visits' : b[e] = f
  BY DEF Renumbered
<1>7. g \in [S -> T] /\ \A e, f \in S : g[e] = g[f] => e = f
  BY <1>3, <1>4, <1>5, <1>6
<1>8. \A f \in T : \E e \in S : g[e] = f
  BY <1>3, <1>4, <1>5, <1>6
<1>9. IsFiniteSet(S)
  BY <1>1, FlowTypesAfter
<1>10. Cardinality(T) = Cardinality(S)
  BY ONLY <1>7, <1>8, <1>9, BijCard
<1> QED BY <1>1, <1>2, <1>10

LEMMA BackupFlow ==
    ASSUME Types, NEW e0 \in Visits, NEW b, Renumbered(b, {e0}), NEW x \in Nodes, Types'
    PROVE  Cardinality(ClaimsOver(x)') = Cardinality(ClaimsOver(x))
                                         - (IF x \in UpFrom(NodeOf(e0)) THEN 1 ELSE 0)
<1>1. Cardinality(ClaimsOver(x)') = Cardinality(ClaimsOver(x) \ {e0})
  BY RenumberedFlow
<1>2. IsFiniteSet(ClaimsOver(x)) /\ Cardinality(ClaimsOver(x)) \in Nat
  BY FlowTypes
<1>3. Cardinality(ClaimsOver(x) \ {e0}) = IF e0 \in ClaimsOver(x) THEN Cardinality(ClaimsOver(x)) - 1
                                                               ELSE Cardinality(ClaimsOver(x))
  BY <1>2, FS_RemoveElement
<1>4. e0 \in ClaimsOver(x) <=> x \in UpFrom(NodeOf(e0))
  BY DEF ClaimsOver
<1> QED BY <1>1, <1>2, <1>3, <1>4

LEMMA BackupKeeps ==
    ASSUME TreeInv, NEW e0 \in Visits, ~ToExtend(e0), BackupSingleNode(NodeOf(e0)),
           NEW b, Renumbered(b, {e0}),
           OwnCollisions' = OwnCollisions, \A e \in OwnCollisions : At(e)' = At(e),
           shared_collisions_' = shared_collisions_,
           minibatch' \in [Workers -> Seq(Ats)],
           pc' \in [Workers -> {"gather", "extend", "own_edge", "picked", "fetch", "backup", "done"}],
           (\A u \in Workers : BatchFits(u))', Ended'
    PROVE  TreeInv'
<1>1. Types
  BY DEF TreeInv
<1>2. PICK y \in Nodes : y = NodeOf(e0)
  BY <1>1, EntryTypes DEF Visits
<1>3. /\ n' = Added(n, UpFrom(y), 1) /\ n_in_flight_' = Added(n_in_flight_, UpFrom(y), -1)
      /\ total_playouts_' = total_playouts_ + 1 /\ UNCHANGED <<edges, initial_visits_>>
  BY <1>2 DEF BackupSingleNode
<1>4. PICK proven \in ProvenBy(y) : terminal' = terminal \cup proven
  BY <1>2 DEF BackupSingleNode
<1>5. PICK moved : /\ solid' = solid \cup moved /\ moved \subseteq UpFrom(y)
                   /\ \A z \in moved : CanMoveChildren(z, n', n_in_flight_', terminal')
  <2>1. PICK m : m = {a \in UpFrom(y) : n'[a] >= SolidTreeThreshold
                                        /\ CanMoveChildren(a, n', n_in_flight_', terminal')}
    OBVIOUS
  <2>2. solid' = solid \cup m
    BY <1>2, <2>1 DEF BackupSingleNode
  <2>3. m \subseteq UpFrom(y) /\ \A z \in m : CanMoveChildren(z, n', n_in_flight_', terminal')
    BY <2>1
  <2> QED BY <2>2, <2>3
<1>6. /\ n \in [Nodes -> Nat] /\ n_in_flight_ \in [Nodes -> Int]
      /\ edges \subseteq Nodes /\ terminal \subseteq Nodes /\ solid \subseteq Nodes
  BY <1>1 DEF Types
<1>7. UpFrom(y) = {y} \cup Above[y] /\ UpFrom(y) \subseteq Nodes /\ y \notin Above[y]
  BY RootAbove, TreeAssumption DEF UpFrom
<1>8. \A a \in Nodes : n'[a] = IF a \in UpFrom(y) THEN n[a] + 1 ELSE n[a]
  BY <1>3, <1>6 DEF Added
<1>9. \A a \in Nodes : n_in_flight_'[a] = n_in_flight_[a] - (IF a \in UpFrom(y) THEN 1 ELSE 0)
  BY <1>3, <1>6 DEF Added
<1>10. proven \subseteq Above[y]
  BY <1>4 DEF ProvenBy, BoundsReach
<1>11. /\ y \in terminal \/ n[y] = 0
       /\ \A a \in Above[y] : n[a] > 0 /\ a \in edges
       /\ y \in edges \cup terminal
       /\ ~IsTwoFoldTerminal(y)
       /\ \A f \in Visits : f # e0 /\ NodeOf(f) = y => y \in terminal
  BY <1>2 DEF TreeInv, ClaimRight
<1>12. Types'
  <2>1. n' \in [Nodes -> Nat] /\ n_in_flight_' \in [Nodes -> Int]
    BY <1>3, <1>6 DEF Added
  <2>2. terminal' \subseteq Nodes /\ solid' \subseteq Nodes /\ edges' \subseteq Nodes
    BY <1>3, <1>4, <1>5, <1>6, <1>7, <1>10
  <2>3. initial_visits_' \in Int /\ total_playouts_' \in Int /\ shared_collisions_' \in [Pointers -> Nat]
    BY <1>1, <1>3 DEF Types
  <2> QED BY <2>1, <2>2, <2>3 DEF Types
<1>13. ASSUME NEW x \in Nodes PROVE InFlight(x)'
  <2>1. SharedOver(x)' = SharedOver(x)
    BY DEF SharedOver, Shared
  <2>2. OwnOver(x)' = OwnOver(x)
    <3>1. \A e \in OwnCollisions : NodeOf(e)' = NodeOf(e)
      BY DEF NodeOf
    <3> QED BY <3>1 DEF OwnOver
  <2>3. Cardinality(ClaimsOver(x)') = Cardinality(ClaimsOver(x)) - (IF x \in UpFrom(y) THEN 1 ELSE 0)
    BY <1>1, <1>2, <1>12, BackupFlow
  <2>4. InFlight(x)
    BY DEF TreeInv
  <2>5. /\ Cardinality(ClaimsOver(x)) \in Nat /\ Total(OwnOver(x)) \in Nat /\ Total(SharedOver(x)) \in Nat
    BY <1>1, FlowTypes
  <2>6. n_in_flight_'[x] = Cardinality(ClaimsOver(x)') + Total(OwnOver(x)) + Total(SharedOver(x))
    BY <1>9, <2>3, <2>4, <2>5 DEF InFlight
  <2> QED BY <2>1, <2>2, <2>6 DEF InFlight
<1>14. \A e \in Visits' : b[e] \in Visits \ {e0} /\ At(e)' = At(b[e]) /\ NodeOf(e)' = NodeOf(b[e])
  BY DEF Renumbered
<1>15. ASSUME NEW f \in Visits \ {e0} PROVE NodeOf(f) \in terminal' \/ n'[NodeOf(f)] = 0
  <2>1. (NodeOf(f) \in terminal \/ n[NodeOf(f)] = 0) /\ NodeOf(f) \in Nodes
    BY <1>1, EntryTypes DEF TreeInv, ClaimRight, Visits
  <2>2. CASE NodeOf(f) = y
    BY <1>4, <1>11, <2>2
  <2>3. CASE NodeOf(f) \in Above[y]
    <3>1. n[NodeOf(f)] > 0
      BY <1>11, <2>3
    <3> QED BY <1>4, <2>1, <3>1
  <2>4. CASE NodeOf(f) \notin UpFrom(y)
    BY <1>4, <1>8, <2>1, <2>4
  <2> QED BY <1>7, <2>2, <2>3, <2>4
<1>16. \A a \in Nodes : n'[a] \in Nat /\ n[a] \in Nat /\ n'[a] >= n[a]
  BY <1>6, <1>8
<1>17. ASSUME NEW c \in Nodes, (Where(c))' # Where(c)
       PROVE  c # Root /\ Parent[c] \in moved /\ Parent[c] \in Nodes /\ c \in Children(Parent[c])
  <2>1. c # Root /\ Parent[c] \in moved
    BY <1>5, <1>17 DEF Where
  <2>2. Parent[c] \in Nodes
    BY <2>1, TreeAssumption
  <2> QED BY <2>1, <2>2 DEF Children
<1>18. /\ \A e \in Visits' : n_in_flight_'[NodeOf(e)'] > 0
       /\ \A z \in Nodes : Total(CountsBelow(n_in_flight_', z)) = n_in_flight_'[z] =>
              /\ \A e \in OwnCollisions' : NodeOf(e)' \notin Children(z)
              /\ \A p \in Shared' : p[1] \notin Children(z)
  <2>1. (Types /\ (\A x \in Nodes : InFlight(x)))'
    BY <1>12, <1>13
  <2>2. \A z : Children(z)' = Children(z) /\ CountsBelow(n_in_flight_, z)' = CountsBelow(n_in_flight_', z)
    BY DEF Children, CountsBelow
  <2> QED BY <2>1, <2>2, FlowFactsAfter
<1>19. ASSUME NEW z \in moved
       PROVE  /\ \A c \in Children(z) : n_in_flight_'[c] > 0 => n'[c] > 1 /\ c \notin terminal'
              /\ Total(CountsBelow(n_in_flight_', z)) = n_in_flight_'[z]
  BY <1>5 DEF CanMoveChildren, CountsBelow
<1>20. ASSUME NEW e \in Visits' PROVE Live(At(e).pointer)'
  <2>1. PICK c : c = NodeOf(b[e])
    OBVIOUS
  <2>2. b[e] \in Visits \ {e0} /\ At(e)' = At(b[e]) /\ NodeOf(e)' = c
    BY <1>14, <2>1
  <2>3. Live(At(b[e]).pointer)
    BY <2>2 DEF TreeInv, ClaimRight
  <2>4. c \in Nodes /\ At(b[e]).pointer[1] = c
    BY <1>1, <2>1, <2>2, EntryTypes DEF Visits, NodeOf
  <2>5. (Where(c))' = Where(c)
    <3>1. ASSUME (Where(c))' # Where(c) PROVE FALSE
      <4>1. Parent[c] \in moved /\ c \in Children(Parent[c])
        BY <1>17, <2>4, <3>1
      <4>2. n_in_flight_'[c] > 0
        BY <1>18, <2>2
      <4>3. n'[c] > 1 /\ c \notin terminal'
        BY <1>19, <4>1, <4>2
      <4>4. c \in terminal' \/ n'[c] = 0
        BY <1>15, <2>1, <2>2
      <4> QED BY <4>3, <4>4
    <3> QED BY <3>1
  <2> QED BY <2>2, <2>3, <2>4, <2>5 DEF Live
<1>21. CollisionsLive'
  <2>1. ASSUME NEW e \in OwnCollisions PROVE Live(At(e).pointer)'
    <3>1. PICK c : c = NodeOf(e)
      OBVIOUS
    <3>2. c \in Nodes /\ At(e).pointer[1] = c /\ At(e)' = At(e) /\ NodeOf(e)' = c
      BY <1>1, <3>1, EntryTypes DEF OwnCollisions, NodeOf
    <3>3. Live(At(e).pointer)
      BY DEF TreeInv, CollisionsLive
    <3>4. (Where(c))' = Where(c)
      BY <1>17, <1>18, <1>19, <3>2
    <3> QED BY <3>2, <3>3, <3>4 DEF Live
  <2>2. Shared' = Shared
    BY DEF Shared
  <2>3. ASSUME NEW p \in Shared PROVE Live(p)'
    <3>1. PICK c \in Nodes : c = p[1]
      BY DEF Shared, Pointers
    <3>2. Live(p)
      BY DEF TreeInv, CollisionsLive
    <3>3. (Where(c))' = Where(c)
      BY <1>17, <1>18, <1>19, <2>2, <3>1
    <3> QED BY <3>1, <3>2, <3>3 DEF Live
  <2> QED BY <2>1, <2>2, <2>3 DEF CollisionsLive
<1>22. ASSUME NEW e \in Visits' PROVE ClaimRight(e)'
  <2>1. PICK f : f = b[e]
    OBVIOUS
  <2>2. f \in Visits /\ f # e0 /\ At(e)' = At(f) /\ NodeOf(e)' = NodeOf(f)
    BY <1>14, <2>1
  <2>3. ClaimRight(f) /\ NodeOf(f) \in Nodes
    BY <1>1, <2>2, EntryTypes DEF TreeInv, Visits
  <2>4. NodeOf(e)' \in terminal' \/ n'[NodeOf(e)'] = 0
    BY <1>15, <2>2
  <2>5. (\A a \in Above[NodeOf(e)] : n[a] > 0 /\ a \in edges)'
    <3>1. ASSUME NEW a \in Above[NodeOf(f)] PROVE n'[a] > 0 /\ a \in edges'
      <4>1. a \in Nodes /\ n[a] > 0 /\ a \in edges
        BY <2>3, AboveAbove DEF ClaimRight
      <4> QED BY <1>3, <1>16, <4>1
    <3> QED BY <2>2, <3>1
  <2>6. NodeOf(e)' \in edges' \cup terminal' \/ ToExtend(e)'
    <3>1. ToExtend(f) => ToExtend(e)'
      BY <2>1 DEF Renumbered
    <3> QED BY <1>3, <1>4, <2>2, <2>3, <3>1 DEF ClaimRight
  <2>7. ~IsTwoFoldTerminal(NodeOf(e))'
    <3>1. ~IsTwoFoldTerminal(NodeOf(f))
      BY <2>3 DEF ClaimRight
    <3>2. proven \subseteq edges
      BY <1>10, <1>11
    <3> QED BY <1>3, <1>4, <2>2, <3>1, <3>2 DEF IsTwoFoldTerminal
  <2>8. (\A d \in Visits : d # e /\ NodeOf(d) = NodeOf(e) => NodeOf(e) \in terminal)'
    <3>1. ASSUME NEW d \in Visits', d # e, NodeOf(d)' = NodeOf(e)' PROVE NodeOf(e)' \in terminal'
      <4>1. b[d] \in Visits /\ b[d] # f /\ NodeOf(b[d]) = NodeOf(f)
        BY <1>14, <2>1, <2>2, <3>1 DEF Renumbered
      <4>2. NodeOf(f) \in terminal
        BY <2>3, <4>1 DEF ClaimRight
      <4> QED BY <1>4, <2>2, <4>2
    <3> QED BY <3>1
  <2>9. Live(At(e).pointer)'
    BY <1>20
  <2> QED BY <2>4, <2>5, <2>6, <2>7, <2>8, <2>9 DEF ClaimRight
<1>23. VisitsFit'
  <2>1. ASSUME NEW c \in Nodes \ {Root}, n'[c] > 0 PROVE n'[Parent[c]] > 0 /\ Parent[c] \in edges'
    <3>1. n[Parent[c]] > 0 /\ Parent[c] \in edges /\ Parent[c] \in Nodes
      <4>1. CASE c \in UpFrom(y)
        <5>1. Parent[c] \in Above[y]
          BY <4>1, ParentOnWay
        <5> QED BY <1>7, <1>11, <5>1
      <4>2. CASE c \notin UpFrom(y)
        <5>1. n[c] > 0
          BY <1>8, <2>1, <4>2
        <5> QED BY <5>1, TreeAssumption DEF TreeInv, VisitsFit
      <4> QED BY <4>1, <4>2
    <3> QED BY <1>3, <1>16, <3>1
  <2>2. ASSUME NEW x \in Nodes, n'[x] > 0 PROVE x \in edges' \cup terminal'
    <3>1. CASE x \in UpFrom(y)
      BY <1>3, <1>4, <1>7, <1>11, <3>1
    <3>2. CASE x \notin UpFrom(y)
      <4>1. n[x] > 0
        BY <1>8, <2>2, <3>2
      <4> QED BY <1>3, <1>4, <4>1 DEF TreeInv, VisitsFit
    <3> QED BY <3>1, <3>2
  <2>3. ASSUME NEW x \in edges', n'[x] = 0 PROVE \E e \in Visits' : NodeOf(e)' = x
    <3>1. x \in edges /\ x \in Nodes
      BY <1>3, <1>6
    <3>2. n[x] \in Nat /\ n'[x] >= n[x]
      BY <1>16, <3>1
    <3>3. n[x] = 0 /\ x \notin UpFrom(y)
      BY <1>8, <2>3, <3>1, <3>2
    <3>4. PICK f \in Visits : NodeOf(f) = x
      BY <3>1, <3>3 DEF TreeInv, VisitsFit
    <3>5. f # e0
      BY <1>2, <1>7, <3>3, <3>4
    <3>6. PICK e \in Visits' : b[e] = f
      BY <3>5 DEF Renumbered
    <3> QED BY <1>14, <3>4, <3>6
  <2> QED BY <2>1, <2>2, <2>3 DEF VisitsFit
<1>24. CountsAddUp'
  <2>1. n' \in [Nodes -> Nat]
    BY <1>12 DEF Types
  <2>2. ASSUME NEW z \in Nodes \ terminal'
        PROVE  n'[z] = IF n'[z] = 0 THEN 0 ELSE 1 + Total(CountsBelow(n', z))
    <3>1. z \in Nodes /\ z \notin terminal
      BY <1>4, <2>2
    <3>2. /\ Total(CountsBelow(n, z)) \in Nat /\ Total(CountsBelow(n', z)) \in Nat
          /\ z \in Above[y] => Total(CountsBelow(n', z)) = Total(CountsBelow(n, z)) + 1
          /\ z \notin Above[y] => CountsBelow(n', z) = CountsBelow(n, z)
      <4>1. /\ n \in [Nodes -> Nat] /\ n' \in [Nodes -> Nat] /\ y \in Nodes /\ z \in Nodes
            /\ 1 \in Int /\ n' = Added(n, UpFrom(y), 1)
        BY <1>3, <1>6, <2>1, <3>1
      <4> QED BY ONLY <4>1, SumsShift
    <3>3. n[z] = (IF n[z] = 0 THEN 0 ELSE 1 + Total(CountsBelow(n, z))) /\ n[z] \in Nat
      BY <1>6, <3>1 DEF TreeInv, CountsAddUp, CountsBelow
    <3>4. CASE z = y
      <4>1. n[z] = 0 /\ n'[z] = 1
        BY <1>7, <1>8, <1>11, <3>1, <3>4
      <4>2. ASSUME NEW c \in Children(z) PROVE n[c] = 0
        <5>1. c \in Nodes \ {Root} /\ Parent[c] = z
          BY DEF Children
        <5>2. n[c] > 0 => n[z] > 0
          BY <5>1 DEF TreeInv, VisitsFit
        <5>3. n[c] \in Nat
          BY <1>6, <5>1
        <5> QED BY <4>1, <5>2, <5>3
      <4>3. Total(CountsBelow(n, z)) = 0
        <5>1. PICK f : f = CountsBelow(n, z)
          OBVIOUS
        <5>2. \A c \in DOMAIN f : f[c] = 0
          BY <4>2, <5>1 DEF CountsBelow
        <5> QED BY <5>1, <5>2, TotalZero
      <4> QED BY <1>7, <3>2, <3>4, <4>1, <4>3
    <3>5. CASE z \in Above[y]
      <4>1. n[z] > 0 /\ n'[z] = n[z] + 1
        BY <1>7, <1>8, <1>11, <3>5
      <4> QED BY <3>2, <3>3, <3>5, <4>1
    <3>6. CASE z \notin UpFrom(y)
      <4>1. n'[z] = n[z]
        BY <1>8, <3>1, <3>6
      <4> QED BY <1>7, <3>2, <3>3, <3>6, <4>1
    <3> QED BY <1>7, <3>4, <3>5, <3>6
  <2>3. n'[Root] = total_playouts_' + initial_visits_'
    <3>1. Root \in UpFrom(y) /\ Root \in Nodes
      BY RootAbove, TreeAssumption
    <3>2. n'[Root] = n[Root] + 1
      BY <1>8, <3>1
    <3>3. n[Root] = total_playouts_ + initial_visits_ /\ total_playouts_ \in Int /\ initial_visits_ \in Int
      BY <1>1 DEF TreeInv, CountsAddUp, Types
    <3> QED BY <1>3, <3>2, <3>3
  <2> QED BY <2>2, <2>3 DEF CountsAddUp, CountsBelow, Children
<1>25. (\A e \in Visits : ClaimRight(e))'
  BY <1>22
<1> QED BY <1>12, <1>13, <1>21, <1>23, <1>24, <1>25 DEF TreeInv

\* A collision in the minibatch is passed over: others have cancelled it, or will.
LEMMA SkipKeeps ==
    ASSUME TreeInv, UNCHANGED <<n, n_in_flight_, initial_visits_, total_playouts_,
                                edges, terminal, solid>>,
           NEW b, Renumbered(b, {}),
           OwnCollisions' = OwnCollisions, \A e \in OwnCollisions : At(e)' = At(e),
           shared_collisions_' = shared_collisions_,
           minibatch' \in [Workers -> Seq(Ats)],
           pc' \in [Workers -> {"gather", "extend", "own_edge", "picked", "fetch", "backup", "done"}],
           (\A u \in Workers : BatchFits(u))', Ended'
    PROVE  TreeInv'
<1>1. Types
  BY DEF TreeInv
<1>2. Types'
  BY <1>1 DEF Types
<1>3. ASSUME NEW x \in Nodes PROVE InFlight(x)'
  <2>1. SharedOver(x)' = SharedOver(x)
    BY DEF SharedOver, Shared
  <2>2. OwnOver(x)' = OwnOver(x)
    <3>1. \A e \in OwnCollisions : NodeOf(e)' = NodeOf(e)
      BY DEF NodeOf
    <3> QED BY <3>1 DEF OwnOver
  <2>3. Cardinality(ClaimsOver(x)') = Cardinality(ClaimsOver(x) \ {})
    BY <1>1, <1>2, RenumberedFlow
  <2>4. Cardinality(ClaimsOver(x)') = Cardinality(ClaimsOver(x))
    <3>1. ClaimsOver(x) \ {} = ClaimsOver(x)
      OBVIOUS
    <3> QED BY <2>3, <3>1
  <2>5. n_in_flight_'[x] = Cardinality(ClaimsOver(x)) + Total(OwnOver(x)) + Total(SharedOver(x))
    BY DEF TreeInv, InFlight
  <2> QED BY <2>1, <2>2, <2>4, <2>5 DEF InFlight
<1>4. \A e \in Visits' : b[e] \in Visits /\ At(e)' = At(b[e]) /\ NodeOf(e)' = NodeOf(b[e])
  BY DEF Renumbered
<1>5. CollisionsLive'
  <2>1. Shared' = Shared
    BY DEF Shared
  <2>2. ASSUME NEW e \in OwnCollisions PROVE Live(At(e).pointer)'
    BY DEF TreeInv, CollisionsLive, Live, Where
  <2>3. ASSUME NEW p \in Shared PROVE Live(p)'
    BY DEF TreeInv, CollisionsLive, Live, Where
  <2> QED BY <2>1, <2>2, <2>3 DEF CollisionsLive
<1>6. ASSUME NEW e \in Visits' PROVE ClaimRight(e)'
  <2>1. PICK f : f = b[e]
    OBVIOUS
  <2>2. f \in Visits /\ At(e)' = At(f) /\ NodeOf(e)' = NodeOf(f)
    BY <1>4, <2>1
  <2>3. ClaimRight(f)
    BY <2>2 DEF TreeInv
  <2>4. Live(At(e).pointer)'
    BY <2>2, <2>3 DEF ClaimRight, Live, Where
  <2>5. ToExtend(f) => ToExtend(e)'
    BY <2>1 DEF Renumbered
  <2>6. ~IsTwoFoldTerminal(NodeOf(e))'
    BY <2>2, <2>3 DEF ClaimRight, IsTwoFoldTerminal
  <2>7. (\A d \in Visits : d # e /\ NodeOf(d) = NodeOf(e) => NodeOf(e) \in terminal)'
    <3>1. ASSUME NEW d \in Visits', d # e, NodeOf(d)' = NodeOf(e)' PROVE NodeOf(e)' \in terminal'
      <4>1. b[d] \in Visits /\ b[d] # f /\ NodeOf(b[d]) = NodeOf(f)
        BY <1>4, <2>1, <2>2, <3>1 DEF Renumbered
      <4>2. NodeOf(f) \in terminal
        BY <2>3, <4>1 DEF ClaimRight
      <4> QED BY <2>2, <4>2
    <3> QED BY <3>1
  <2>8. /\ NodeOf(f) \in terminal' \/ n'[NodeOf(f)] = 0
        /\ \A a \in Above[NodeOf(f)] : n'[a] > 0 /\ a \in edges'
        /\ NodeOf(f) \in edges' \cup terminal' \/ ToExtend(f)
    BY <2>3 DEF ClaimRight
  <2> QED BY <2>2, <2>4, <2>5, <2>6, <2>7, <2>8 DEF ClaimRight
<1>7. VisitsFit'
  <2>1. ASSUME NEW x \in edges', n'[x] = 0 PROVE \E e \in Visits' : NodeOf(e)' = x
    <3>1. PICK f \in Visits : NodeOf(f) = x
      BY <2>1 DEF TreeInv, VisitsFit
    <3>2. PICK e \in Visits' : b[e] = f
      BY DEF Renumbered
    <3> QED BY <1>4, <3>1, <3>2
  <2>2. /\ \A c \in Nodes \ {Root} : n'[c] > 0 => n'[Parent[c]] > 0 /\ Parent[c] \in edges'
        /\ \A x \in Nodes : n'[x] > 0 => x \in edges' \cup terminal'
    BY DEF TreeInv, VisitsFit
  <2> QED BY <2>1, <2>2 DEF VisitsFit
<1>8. CountsAddUp'
  BY DEF TreeInv, CountsAddUp, Children
<1>9. (\A e \in Visits : ClaimRight(e))'
  BY <1>6
<1> QED BY <1>2, <1>3, <1>5, <1>7, <1>8, <1>9 DEF TreeInv

LEMMA EvalOutOfOrderKeeps ==
    ASSUME TreeInv, NEW w \in Workers, EvalOutOfOrder(w)
    PROVE  TreeInv'
<1>1. /\ pc[w] = "picked" /\ BackupSingleNode(Picked(w))
      /\ minibatch' = [minibatch EXCEPT ![w] = SubSeq(@, 1, Len(@) - 1)]
      /\ pc' = [pc EXCEPT ![w] = "gather"]
      /\ UNCHANGED <<shared_collisions_, destroyed>>
  BY DEF EvalOutOfOrder, Goto
<1>2. PICK last : last = <<w, Len(minibatch[w])>>
  OBVIOUS
<1>3. last \in Visits /\ NodeOf(last) = Picked(w)
  BY <1>1, <1>2, LastClaim
<1>4. Types /\ minibatch[w] # << >>
  BY <1>1 DEF TreeInv, BatchFits
<1>5. /\ minibatch' \in [Workers -> Seq(Ats)]
      /\ Entries' = Entries \ {last} /\ last \in Entries
      /\ \A e \in Entries' : At(e)' = At(e)
      /\ \A u \in Workers \ {w} : minibatch'[u] = minibatch[u]
  BY <1>1, <1>2, <1>4, RemovedLast
<1>6. /\ pc' \in [Workers -> {"gather", "extend", "own_edge", "picked", "fetch", "backup", "done"}]
      /\ pc'[w] = "gather" /\ \A u \in Workers \ {w} : pc'[u] = pc[u]
  BY <1>1, <1>4 DEF Types
<1>7. Visits' = Visits \ {last}
  BY <1>5 DEF Visits, IsCollision
<1>8. OwnCollisions' = OwnCollisions
  <2>1. OwnCollisions' = {e \in Entries' : IsCollision(At(e))' /\ Gathering(e[1])'}
    BY DEF OwnCollisions, Gathering
  <2>2. OwnCollisions = {e \in Entries : IsCollision(At(e)) /\ Gathering(e[1])}
    BY DEF OwnCollisions, Gathering
  <2>3. ASSUME NEW e \in Entries'
        PROVE  (IsCollision(At(e))' <=> IsCollision(At(e))) /\ (Gathering(e[1])' <=> Gathering(e[1]))
    <3>1. e[1] \in Workers
      BY <1>4, <1>5, EntryTypes
    <3>2. IsCollision(At(e))' <=> IsCollision(At(e))
      BY <1>5 DEF IsCollision
    <3>3. Gathering(w) /\ Gathering(w)'
      BY <1>1, <1>6 DEF Gathering
    <3>4. ASSUME NEW u \in Workers \ {w} PROVE Gathering(u)' <=> Gathering(u)
      BY <1>6 DEF Gathering
    <3>5. PICK u \in Workers : e[1] = u
      BY <3>1
    <3>6. CASE u = w
      <4>1. Gathering(u) /\ Gathering(u)'
        BY <3>3, <3>6
      <4> QED BY <3>2, <3>5, <4>1
    <3>7. CASE u # w
      <4>1. Gathering(u)' <=> Gathering(u)
        BY <3>4, <3>7
      <4> QED BY <3>2, <3>5, <4>1
    <3> QED BY <3>6, <3>7
  <2>4. ~IsCollision(At(last))
    BY <1>3 DEF Visits
  <2> QED BY <1>5, <2>1, <2>2, <2>3, <2>4
<1>9. \A e \in OwnCollisions : At(e)' = At(e)
  BY <1>5, <1>8 DEF OwnCollisions
<1>10. PICK b : b = [e \in Visits' |-> e]
  OBVIOUS
<1>11. Renumbered(b, {last})
  <2>1. ASSUME NEW e \in Visits' PROVE At(e)' = At(e) /\ NodeOf(e)' = NodeOf(e) /\ e \in Entries
    BY <1>5, <1>7 DEF Visits, NodeOf
  <2>2. ASSUME NEW e \in Visits', ToExtend(e) PROVE ToExtend(e)'
    <3>1. e[1] \in Workers /\ e[1] # w
      BY <1>1, <1>4, <2>1, <2>2, EntryTypes DEF ToExtend
    <3>2. pc'[e[1]] = pc[e[1]] /\ minibatch'[e[1]] = minibatch[e[1]]
      BY <1>5, <1>6, <3>1
    <3> QED BY <2>2, <3>2 DEF ToExtend
  <2>3. \A e \in Visits' : b[e] = e /\ e \in Visits \ {last}
    BY <1>7, <1>10
  <2>4. b \in [Visits' -> Visits \ {last}]
    BY <1>7, <1>10
  <2>5. \A e \in Visits' : At(e)' = At(b[e]) /\ NodeOf(e)' = NodeOf(b[e])
    BY <2>1, <2>3
  <2>6. \A e \in Visits' : ToExtend(b[e]) => ToExtend(e)'
    <3>1. ASSUME NEW e \in Visits', ToExtend(b[e]) PROVE ToExtend(e)'
      <4>1. ToExtend(e)
        BY <2>3, <3>1
      <4> QED BY <2>2, <4>1
    <3> QED BY <3>1
  <2>7. \A f \in Visits \ {last} : \E e \in Visits' : b[e] = f
    BY <1>7, <2>3
  <2>8. \A e, f \in Visits' : b[e] = b[f] => e = f
    BY <2>3
  <2> QED BY <2>4, <2>5, <2>6, <2>7, <2>8 DEF Renumbered
<1>12. (\A u \in Workers : BatchFits(u))'
  <2>1. ASSUME NEW u \in Workers PROVE BatchFits(u)'
    BY <1>5, <1>6 DEF TreeInv, BatchFits, IsCollision
  <2> QED BY <2>1
<1>13. Ended'
  BY <1>1 DEF TreeInv, Ended
<1>14. ~ToExtend(last)
  BY <1>1, <1>2 DEF ToExtend
<1>15. BackupSingleNode(NodeOf(last))
  BY <1>1, <1>3
<1> QED BY <1>1, <1>3, <1>5, <1>6, <1>8, <1>9, <1>11, <1>12, <1>13, <1>14, <1>15, BackupKeeps

LEMMA BackupEntryKeeps ==
    ASSUME TreeInv, NEW w \in Workers, BackupEntry(w)
    PROVE  TreeInv'
<1>1. /\ pc[w] = "backup" /\ minibatch[w] # << >>
      /\ minibatch' = [minibatch EXCEPT ![w] = Tail(@)]
      /\ UNCHANGED <<shared_collisions_, pc, destroyed>>
  BY DEF BackupEntry
<1>2. PICK first : first = <<w, 1>>
  OBVIOUS
<1>4. Types
  BY DEF TreeInv
<1>3. /\ minibatch' \in [Workers -> Seq(Ats)]
      /\ first \in Entries /\ At(first) = Head(minibatch[w])
      /\ \E d : Shifted(d, w, first)
      /\ \A e \in Entries : e[1] # w => e \in Entries' /\ At(e)' = At(e)
      /\ \A u \in Workers \ {w} : minibatch'[u] = minibatch[u]
  BY <1>1, <1>2, <1>4, RemovedFirst
<1>a. PICK c : Shifted(c, w, first)
  BY <1>3
<1>5. /\ minibatch' \in [Workers -> Seq(Ats)]
      /\ first \in Entries /\ At(first) = Head(minibatch[w])
      /\ c \in [Entries' -> Entries \ {first}]
      /\ \A e, f \in Entries' : c[e] = c[f] => e = f
      /\ \A y \in Entries \ {first} : \E e \in Entries' : c[e] = y
      /\ \A e \in Entries' : At(e)' = At(c[e]) /\ e[1] = c[e][1]
      /\ \A e \in Entries' : e[1] # w => c[e] = e
      /\ \A e \in Entries : e[1] # w => e \in Entries' /\ At(e)' = At(e)
      /\ \A u \in Workers \ {w} : minibatch'[u] = minibatch[u]
  BY <1>3, <1>a DEF Shifted
<1>6. pc' \in [Workers -> {"gather", "extend", "own_edge", "picked", "fetch", "backup", "done"}]
  BY <1>1, <1>4 DEF Types
<1>7. \A e \in Entries' : c[e] \in Entries \ {first} /\ (IsCollision(At(e))' <=> IsCollision(At(c[e])))
  BY <1>5 DEF IsCollision
<1>8. OwnCollisions = {e \in Entries : IsCollision(At(e)) /\ Gathering(e[1])}
  BY DEF OwnCollisions, Gathering
<1>9. OwnCollisions' = {e \in Entries' : IsCollision(At(e))' /\ Gathering(e[1])}
  BY <1>1 DEF OwnCollisions, Gathering
<1>10. ~Gathering(w)
  BY <1>1 DEF Gathering
<1>11. OwnCollisions' = OwnCollisions /\ \A e \in OwnCollisions : At(e)' = At(e)
  <2>1. ASSUME NEW e \in OwnCollisions' PROVE e \in OwnCollisions
    <3>1. e \in Entries' /\ IsCollision(At(e))' /\ Gathering(e[1])
      BY <1>9
    <3>2. e[1] # w
      BY <1>10, <3>1
    <3>3. c[e] = e /\ e \in Entries /\ IsCollision(At(e))
      BY <1>5, <1>7, <3>1, <3>2
    <3> QED BY <1>8, <3>1, <3>3
  <2>2. ASSUME NEW e \in OwnCollisions PROVE e \in OwnCollisions' /\ At(e)' = At(e)
    <3>1. e \in Entries /\ IsCollision(At(e)) /\ Gathering(e[1])
      BY <1>8
    <3>2. e[1] # w
      BY <1>10, <3>1
    <3>3. e \in Entries' /\ At(e)' = At(e)
      BY <1>5, <3>1, <3>2
    <3> QED BY <1>9, <3>1, <3>3 DEF IsCollision
  <2> QED BY <2>1, <2>2
<1>12. (\A u \in Workers : BatchFits(u))'
  <2>1. ASSUME NEW u \in Workers PROVE BatchFits(u)'
    BY <1>1, <1>5 DEF TreeInv, BatchFits, IsCollision
  <2> QED BY <2>1
<1>13. Ended'
  BY <1>1 DEF TreeInv, Ended
<1>14. PICK b : b = [e \in Visits' |-> c[e]]
  OBVIOUS
<1>15. Visits' = {e \in Entries' : ~IsCollision(At(e))'} /\ Visits = {e \in Entries : ~IsCollision(At(e))}
  BY DEF Visits
<1>16. ASSUME NEW R, R = Visits \cap {first} PROVE Renumbered(b, R)
  <2>1. ASSUME NEW e \in Visits' PROVE /\ b[e] = c[e] /\ b[e] \in Visits \ R /\ e \in Entries'
                                       /\ At(e)' = At(b[e]) /\ NodeOf(e)' = NodeOf(b[e])
    BY <1>5, <1>7, <1>14, <1>15, <1>16 DEF NodeOf
  <2>2. b \in [Visits' -> Visits \ R]
    BY <1>14, <2>1
  <2>3. \A e, f \in Visits' : b[e] = b[f] => e = f
    BY <1>5, <2>1
  <2>4. ASSUME NEW f \in Visits \ R PROVE \E e \in Visits' : b[e] = f
    <3>1. f \in Entries \ {first} /\ ~IsCollision(At(f))
      BY <1>15, <1>16
    <3>2. PICK e \in Entries' : c[e] = f
      BY <1>5, <3>1
    <3>3. e \in Visits'
      BY <1>7, <1>15, <3>1, <3>2
    <3> QED BY <2>1, <3>2, <3>3
  <2>5. ASSUME NEW e \in Visits', ToExtend(b[e]) PROVE ToExtend(e)'
    <3>1. e \in Entries' /\ e[1] = c[e][1] /\ b[e] = c[e] /\ c[e] \in Entries
      BY <1>5, <1>7, <2>1
    <3>2. e[1] \in Workers /\ e[1] # w
      BY <1>1, <1>4, <2>5, <3>1, EntryTypes DEF ToExtend
    <3>3. b[e] = e /\ minibatch'[e[1]] = minibatch[e[1]]
      BY <1>5, <3>1, <3>2
    <3>4. ToExtend(e)
      BY <2>5, <3>3
    <3> QED BY <1>1, <3>3, <3>4 DEF ToExtend
  <2> QED BY <2>1, <2>2, <2>3, <2>4, <2>5 DEF Renumbered
<1>17. CASE IsCollision(Head(minibatch[w]))
  <2>1. UNCHANGED <<n, n_in_flight_, initial_visits_, total_playouts_, edges, terminal, solid>>
    BY <1>17 DEF BackupEntry, counts, shape
  <2>2. Visits \cap {first} = {}
    BY <1>5, <1>15, <1>17
  <2>3. Renumbered(b, {})
    BY <1>16, <2>2
  <2> QED BY <1>1, <1>5, <1>6, <1>11, <1>12, <1>13, <2>1, <2>3, SkipKeeps
<1>18. CASE ~IsCollision(Head(minibatch[w]))
  <2>1. first \in Visits
    BY <1>5, <1>15, <1>18
  <2>2. Renumbered(b, {first})
    <3>1. Visits \cap {first} = {first}
      BY <2>1
    <3> QED BY <1>16, <3>1
  <2>3. BackupSingleNode(NodeOf(first))
    BY <1>5, <1>18 DEF BackupEntry, NodeOf
  <2>4. ~ToExtend(first)
    BY <1>1, <1>2 DEF ToExtend
  <2> QED BY <1>1, <1>5, <1>6, <1>11, <1>12, <1>13, <2>1, <2>2, <2>3, <2>4, BackupKeeps
<1> QED BY <1>17, <1>18

-----------------------------------------------------------------------------
(* The theorems. *)

\* A tree that an earlier search left, with nothing on its way, fits.
LEMMA InitKeeps ==
    ASSUME Init
    PROVE  TreeInv
<1>1. Types
  <2>1. n \in [Nodes -> Nat] /\ n_in_flight_ \in [Nodes -> Int]
    BY DEF Init, ReusedTree
  <2>2. n[Root] \in Nat
    BY <2>1, TreeAssumption
  <2>3. terminal \subseteq Nodes /\ edges \subseteq Nodes /\ solid \subseteq Nodes
    <3>1. GameOver \subseteq Nodes /\ TwoFold \subseteq Nodes
      BY TreeAssumption
    <3> QED BY <3>1 DEF Init, ReusedTree
  <2>4. initial_visits_ \in Int /\ total_playouts_ \in Int
    BY <2>2 DEF Init
  <2>5. shared_collisions_ \in [Pointers -> Nat]
    BY DEF Init
  <2>6. pc \in [Workers -> {"gather", "extend", "own_edge", "picked", "fetch", "backup", "done"}]
    BY DEF Init
  <2>7. minibatch \in [Workers -> Seq(Ats)]
    <3>1. << >> \in Seq(Ats)
      OBVIOUS
    <3> QED BY <3>1, Zenon DEF Init
  <2> QED BY <2>1, <2>3, <2>4, <2>5, <2>6, <2>7 DEF Types
<1>2. Entries = {}
  <2>1. ASSUME NEW w \in Workers PROVE DOMAIN minibatch[w] = {}
    BY DEF Init
  <2> QED BY <2>1 DEF Entries
<1>3. Visits = {} /\ OwnCollisions = {}
  BY <1>2 DEF Visits, OwnCollisions
<1>4. Shared = {}
  BY DEF Init, Shared
<1>5. \A w \in Workers : BatchFits(w)
  BY DEF Init, BatchFits
<1>6. Ended
  BY DEF Init, Ended
<1>7. ASSUME NEW x \in Nodes PROVE InFlight(x)
  <2>1. Cardinality(ClaimsOver(x)) = 0
    <3>1. ClaimsOver(x) = {}
      BY <1>3 DEF ClaimsOver
    <3> QED BY <3>1, FS_EmptySet
  <2>2. Total(OwnOver(x)) = 0
    <3>1. \A s \in DOMAIN OwnOver(x) : OwnOver(x)[s] = 0
      BY <1>3 DEF OwnOver
    <3> QED BY <3>1, TotalZero
  <2>3. Total(SharedOver(x)) = 0
    <3>1. \A s \in DOMAIN SharedOver(x) : SharedOver(x)[s] = 0
      BY <1>4 DEF SharedOver
    <3> QED BY <3>1, TotalZero
  <2>4. n_in_flight_[x] = 0
    BY DEF Init
  <2> QED BY <2>1, <2>2, <2>3, <2>4 DEF InFlight
<1>8. CollisionsLive
  BY <1>3, <1>4 DEF CollisionsLive
<1>9. /\ n \in [Nodes -> Nat]
      /\ terminal = {x \in GameOver \cup TwoFold : n[x] > 0}
      /\ edges = {x \in Nodes : n[x] > 0} \ terminal
      /\ \A x \in Nodes \ edges : \A c \in Children(x) : n[c] = 0
  BY <1>1 DEF Types, Init, ReusedTree
<1>10. VisitsFit
  <2>1. ASSUME NEW c \in Nodes \ {Root}, n[c] > 0 PROVE n[Parent[c]] > 0 /\ Parent[c] \in edges
    <3>1. Parent[c] \in Nodes /\ c \in Children(Parent[c])
      BY TreeAssumption DEF Children
    <3>2. n[c] # 0
      BY <1>9, <2>1
    <3>3. Parent[c] \in edges
      BY <1>9, <3>1, <3>2
    <3> QED BY <1>9, <3>3
  <2> QED BY <1>3, <1>9, <2>1 DEF VisitsFit
<1>11. CountsAddUp
  <2>1. ASSUME NEW x \in Nodes \ terminal
        PROVE  n[x] = IF n[x] = 0 THEN 0 ELSE 1 + Total([c \in Children(x) |-> n[c]])
    <3>1. CASE n[x] = 0
      BY <3>1
    <3>2. CASE n[x] # 0
      <4>1. x \in edges
        BY <1>9, <3>2
      <4>2. n[x] = 1 + Total([c \in Children(x) |-> n[c]])
        BY <4>1 DEF Init, ReusedTree
      <4> QED BY <3>2, <4>2
    <3> QED BY <3>1, <3>2
  <2>2. n[Root] = total_playouts_ + initial_visits_
    <3>1. n[Root] \in Nat
      BY <1>9, TreeAssumption
    <3> QED BY <3>1 DEF Init
  <2> QED BY <2>1, <2>2 DEF CountsAddUp
<1>12. \A e \in Visits : ClaimRight(e)
  BY <1>3
<1> QED BY <1>1, <1>5, <1>6, <1>7, <1>8, <1>10, <1>11, <1>12 DEF TreeInv

\* Every step keeps the invariant.
LEMMA StepKeeps ==
    ASSUME TreeInv, [Next]_vars
    PROVE  TreeInv'
<1>1. CASE Destroy
  BY <1>1, DestroyKeeps
<1>2. ASSUME NEW w \in Workers, Step(w) PROVE TreeInv'
  <2>1. CASE Collide(w)
    BY <2>1, CollideKeeps
  <2>2. CASE Visit(w)
    BY <2>2, VisitKeeps
  <2>3. CASE ExtendNode(w)
    BY <2>3, ExtendNodeKeeps
  <2>4. CASE ClearOwnPolicy(w) \/ KeepPicked(w) \/ FetchMinibatchResults(w)
    BY <2>4, GoOnKeeps
  <2>5. CASE EvalOutOfOrder(w)
    BY <2>5, EvalOutOfOrderKeeps
  <2>6. CASE CollectCollisions(w)
    BY <2>6, CollectKeeps
  <2>7. CASE BackupEntry(w)
    BY <2>7, BackupEntryKeeps
  <2>8. CASE EndBackup(w)
    BY <2>8, EndBackupKeeps
  <2> QED BY <1>2, <2>1, <2>2, <2>3, <2>4, <2>5, <2>6, <2>7, <2>8 DEF Step
<1>3. CASE UNCHANGED vars
  <2>1. /\ UNCHANGED <<n, initial_visits_, total_playouts_, edges, terminal, solid, minibatch>>
        /\ UNCHANGED <<n_in_flight_, shared_collisions_, pc, destroyed>>
    BY <1>3 DEF vars, counts, shape, local
  <2>2. pc' \in [Workers -> {"gather", "extend", "own_edge", "picked", "fetch", "backup", "done"}]
    BY <2>1 DEF TreeInv, Types
  <2>3. \A e \in Entries : (Gathering(e[1])' <=> Gathering(e[1])) /\ (ToExtend(e) => ToExtend(e)')
    BY <2>1 DEF Gathering, ToExtend
  <2>4. (\A u \in Workers : BatchFits(u))'
    BY <2>1 DEF TreeInv, BatchFits, IsCollision
  <2>5. Ended'
    BY <2>1 DEF TreeInv, Ended
  <2> QED BY <2>1, <2>2, <2>3, <2>4, <2>5, CancelStep
<1> QED BY <1>1, <1>2, <1>3 DEF Next

\* Whatever the workers do, TreeInv holds.
THEOREM TreeInvariance == Spec => []TreeInv
  BY InitKeeps, StepKeeps, PTL DEF Spec

\* Nothing is on its way in a tree whose Search is destroyed.
LEMMA NothingLeft ==
    ASSUME TreeInv, destroyed, NEW x \in Nodes
    PROVE  n_in_flight_[x] = 0
<1>1. \A w \in Workers : minibatch[w] = << >>
  BY DEF TreeInv, Ended, BatchFits
<1>2. Entries = {}
  BY <1>1 DEF Entries
<1>3. Shared = {}
  BY DEF TreeInv, Ended, Shared
<1>4. ClaimsOver(x) = {} /\ \A s \in DOMAIN OwnOver(x) : OwnOver(x)[s] = 0
  BY <1>2 DEF ClaimsOver, OwnOver, Visits, OwnCollisions
<1>5. \A s \in DOMAIN SharedOver(x) : SharedOver(x)[s] = 0
  BY <1>3 DEF SharedOver
<1>6. Cardinality(ClaimsOver(x)) = 0 /\ Total(OwnOver(x)) = 0 /\ Total(SharedOver(x)) = 0
  BY <1>4, <1>5, FS_EmptySet, TotalZero
<1>7. InFlight(x)
  BY DEF TreeInv
<1> QED BY <1>6, <1>7 DEF InFlight

\* Virtual visits are conserved: n_in_flight_ of every node is what the claims
\* and the collisions below it add up to, whoever takes them back, and nothing
\* remains after ~Search.
THEOREM VirtualVisitsConserved == Spec => []InFlightConserved
<1>1. ASSUME TreeInv PROVE InFlightConserved
  <2>1. ASSUME NEW x \in Nodes
        PROVE  n_in_flight_[x] =
                   Cardinality({e \in Visits : x \in UpFrom(At(e).pointer[1])})
                   + Total([e \in {f \in OwnCollisions : x \in Above[At(f).pointer[1]]} |-> At(e).visits])
                   + SharedBelow(x)
    <3>1. InFlight(x)
      BY <1>1 DEF TreeInv
    <3> QED BY <3>1 DEF InFlight, ClaimsOver, OwnOver, SharedOver, SharedBelow, NodeOf
  <2>2. destroyed => \A x \in Nodes : n_in_flight_[x] = 0
    BY <1>1, NothingLeft
  <2> QED BY <2>1, <2>2 DEF InFlightConserved
<1> QED BY <1>1, TreeInvariance, PTL

\* The visits of a node that is not terminal are its own and its children's, and
\* the root's are total_playouts_ + initial_visits_.
THEOREM VisitsAddUp == Spec => []CountsAddUp
<1>1. TreeInv => CountsAddUp
  BY DEF TreeInv
<1> QED BY <1>1, TreeInvariance, PTL

\* MakeSolid moves no node that a worker's claim or a collision points to, and
\* every node above a claimed one has visits.
THEOREM PointersLive == Spec => []ClaimsLive
<1>1. ASSUME TreeInv PROVE ClaimsLive
  <2>1. /\ \A e \in Visits : Live(At(e).pointer) /\ \A a \in Above[NodeOf(e)] : n[a] > 0
        /\ \A e \in OwnCollisions : Live(At(e).pointer)
        /\ \A p \in Shared : Live(p)
    BY <1>1 DEF TreeInv, ClaimRight, CollisionsLive
  <2> QED BY <2>1 DEF ClaimsLive, NodeOf
<1> QED BY <1>1, TreeInvariance, PTL

=============================================================================
