--------------------------- MODULE LruCacheProofs ---------------------------
(***************************************************************************)
(* Proofs about LruCache for every set of threads, locks, keys and items,  *)
(* every hash function and every capacity, as long as SetCapacity is only  *)
(* called on an empty cache.                                               *)
(***************************************************************************)
EXTENDS LruCache, FiniteSetTheorems, SequenceTheorems, TLAPS

Injective(q) == \A p, r \in DOMAIN q : q[p] = q[r] => p = r

\* ShrinkToCapacity keeps a prefix of the queue that fits the capacity.
LEMMA ShrunkIsPrefix ==
    ASSUME NEW S, NEW q \in Seq(S), NEW c \in Int
    PROVE  /\ Shrunk(q, Len(q), c) \in Seq(S)
           /\ Len(Shrunk(q, Len(q), c)) <= Len(q)
           /\ Len(Shrunk(q, Len(q), c)) = 0 \/ Len(Shrunk(q, Len(q), c)) <= c
           /\ \A p \in 1 .. Len(Shrunk(q, Len(q), c)) :
                  Shrunk(q, Len(q), c)[p] = q[p]
<1> DEFINE c0 == IF c < 0 THEN 0 ELSE c
           gone == IF Len(q) <= c0 THEN 0 ELSE Len(q) - c0
<1>1. Len(q) \in Nat /\ c0 \in Nat /\ gone \in Nat
  OBVIOUS
<1>2. Shrunk(q, Len(q), c) =
        IF gone >= Len(q) THEN << >> ELSE SubSeq(q, 1, Len(q) - gone)
  BY DEF Shrunk
<1>3. CASE gone >= Len(q)
  BY <1>1, <1>2, <1>3
<1>4. CASE gone < Len(q)
  <2> DEFINE m == Len(q) - gone
  <2>1. m \in 1 .. Len(q)
    BY <1>1, <1>4
  <2>2. /\ SubSeq(q, 1, m) \in Seq(S)
        /\ Len(SubSeq(q, 1, m)) = m
        /\ \A i \in 1 .. m : SubSeq(q, 1, m)[i] = q[i]
    BY <2>1, SubSeqProperties, Z3
  <2>3. Shrunk(q, Len(q), c) = SubSeq(q, 1, m)
    BY <1>1, <1>2, <1>4
  <2>4. m <= Len(q) /\ m <= c
    BY <1>1, <1>4, <2>1
  <2> QED
    BY <2>2, <2>3, <2>4
<1> QED
  BY <1>1, <1>3, <1>4

\* Hence it keeps the items apart and adds none.
LEMMA ShrunkRange ==
    ASSUME NEW S, NEW q \in Seq(S), NEW c \in Int
    PROVE  /\ Range(Shrunk(q, Len(q), c)) \subseteq Range(q)
           /\ Injective(q) => Injective(Shrunk(q, Len(q), c))
<1> DEFINE r == Shrunk(q, Len(q), c)
<1>1. /\ r \in Seq(S) /\ Len(r) <= Len(q)
      /\ \A p \in 1 .. Len(r) : r[p] = q[p]
  BY ShrunkIsPrefix
<1>2. DOMAIN r = 1 .. Len(r) /\ DOMAIN q = 1 .. Len(q) /\ Len(r) \in Nat /\ Len(q) \in Nat
  BY <1>1
<1>3. \A p \in DOMAIN r : p \in DOMAIN q /\ r[p] = q[p]
  BY <1>1, <1>2
<1> HIDE DEF r
<1>4. Range(r) \subseteq Range(q)
  BY <1>3 DEF Range
<1>5. Injective(q) => Injective(r)
  BY <1>3 DEF Injective
<1> QED
  BY <1>4, <1>5 DEF r

\* EvictItem takes one item out of the queue and leaves the others apart.
LEMMA UnlinkedProperties ==
    ASSUME NEW S, NEW q \in Seq(S), Injective(q), NEW T,
           \A x, y \in T : x = y
    PROVE  /\ Unlinked(q, T) \in Seq(S)
           /\ Len(Unlinked(q, T)) = IF Range(q) \cap T = {} THEN Len(q) ELSE Len(q) - 1
           /\ Range(Unlinked(q, T)) = Range(q) \ T
           /\ Injective(Unlinked(q, T))
<1>0. Len(q) \in Nat /\ DOMAIN q = 1 .. Len(q) /\ \A n \in 1 .. Len(q) : q[n] \in S
  OBVIOUS
<1>1. CASE Range(q) \cap T = {}
  BY <1>1 DEF Unlinked
<1>2. CASE Range(q) \cap T # {}
  <2> DEFINE p == CHOOSE p \in DOMAIN q : q[p] \in T
             u == [n \in 1 .. Len(q) - 1 |-> IF n < p THEN q[n] ELSE q[n + 1]]
  <2>1. Unlinked(q, T) = u
    BY <1>2 DEF Unlinked
  <2>2. \E m \in DOMAIN q : q[m] \in T
    BY <1>2 DEF Range
  <2>3. p \in 1 .. Len(q) /\ q[p] \in T
    BY <2>2, <1>0
  <2> HIDE DEF p
  <2>4. Len(q) - 1 \in Nat
    BY <2>3, <1>0
  <2>5. \A n \in 1 .. Len(q) - 1 : u[n] \in S
    BY <2>3, <1>0
  <2>6. u \in Seq(S) /\ Len(u) = Len(q) - 1 /\ DOMAIN u = 1 .. Len(q) - 1
    BY <2>4, <2>5, IsASeq
  <2>7. \A n \in 1 .. Len(q) : q[n] \in T <=> n = p
    BY <2>3, <1>0 DEF Injective
  <2>8. \A n \in 1 .. Len(q) - 1 : u[n] = IF n < p THEN q[n] ELSE q[n + 1]
    OBVIOUS
  <2> HIDE DEF u
  <2>9. Range(u) \subseteq Range(q) \ T
    <3> SUFFICES ASSUME NEW n \in 1 .. Len(q) - 1
                 PROVE  u[n] \in Range(q) \ T
      BY <2>6 DEF Range
    <3>1. CASE n < p
      <4>1. n \in 1 .. Len(q) /\ u[n] = q[n] /\ n # p
        BY <3>1, <2>8, <2>3, <1>0
      <4> QED BY <4>1, <2>7, <1>0 DEF Range
    <3>2. CASE ~(n < p)
      <4>1. n + 1 \in 1 .. Len(q) /\ u[n] = q[n + 1] /\ n + 1 # p
        BY <3>2, <2>8, <2>3, <1>0
      <4> QED BY <4>1, <2>7, <1>0 DEF Range
    <3> QED BY <3>1, <3>2
  <2>10. Range(q) \ T \subseteq Range(u)
    <3> SUFFICES ASSUME NEW n \in 1 .. Len(q), q[n] \notin T
                 PROVE  q[n] \in Range(u)
      BY <1>0 DEF Range
    <3>1. n # p
      BY <2>7
    <3>2. CASE n < p
      <4>1. n \in 1 .. Len(q) - 1 /\ u[n] = q[n]
        BY <3>2, <2>8, <2>3, <1>0
      <4> QED BY <4>1, <2>6 DEF Range
    <3>3. CASE n > p
      <4>1. n - 1 \in 1 .. Len(q) - 1 /\ u[n - 1] = q[n]
        BY <3>3, <2>8, <2>3, <1>0
      <4> QED BY <4>1, <2>6 DEF Range
    <3> QED BY <3>1, <3>2, <3>3, <2>3, <1>0
  <2>11. Injective(u)
    <3> SUFFICES ASSUME NEW m \in 1 .. Len(q) - 1, NEW n \in 1 .. Len(q) - 1,
                        u[m] = u[n]
                 PROVE  m = n
      BY <2>6 DEF Injective
    <3> QED BY <2>8, <2>3, <1>0 DEF Injective
  <2> QED
    BY <2>1, <2>6, <2>9, <2>10, <2>11, <1>2
<1> QED
  BY <1>1, <1>2

-----------------------------------------------------------------------------
(* The inductive invariant. *)

\* A thread past the capacity test carries the key it was called with.
ArgsAreKeys == \A t \in Threads : lruPc[t] # "idle" => arg[t] \in Keys

\* Nothing of what the rehash loop can do to a filled cache has happened.
Undamaged == looped = {} /\ leaked = {} /\ health = "ok" /\ failed = FALSE

\* allocated_ counts the items of the queue and of the evicted list, which
\* are disjoint.
Accounting ==
    /\ hashed \cap evicted = {}
    /\ allocated_ = Cardinality(hashed \cup evicted)

Inv ==
    /\ LruTypeOK
    /\ ArgsAreKeys
    /\ Undamaged
    /\ Injective(lru)
    /\ size_ = Len(lru)
    /\ SizeWithinCapacity
    /\ EntriesReachable
    /\ HeldValuesLive
    /\ PinsCountLocks
    /\ Accounting

\* Without looped items every walk of a chain ends.
LEMMA NoDamage ==
    ASSUME looped = {}, NEW W, NEW V
    PROVE  Damage(W, V) = "ok"
BY DEF Damage, Endless

LEMMA InitInv == LruInit => Inv
<1> SUFFICES ASSUME LruInit PROVE Inv
  OBVIOUS
<1> USE CacheAssumption, NoneAssumption
<1>1. LruTypeOK
  <2>1. lock \in [Locks -> [key : Keys, item : Items] \cup {Unheld}]
    BY DEF LruInit
  <2>2. lru \in Seq(Items) /\ key \in [Items -> Keys \cup {None}] /\ pins \in [Items -> Nat]
    BY DEF LruInit
  <2>3. lruPc \in [Threads -> {"idle", "insert", "lookup"}] /\ arg \in [Threads -> Keys \cup {None}]
    BY DEF LruInit
  <2> QED
    BY <2>1, <2>2, <2>3 DEF LruInit, LruTypeOK
<1>2. ArgsAreKeys /\ Undamaged
  BY DEF LruInit, ArgsAreKeys, Undamaged
<1>3. Injective(lru) /\ size_ = Len(lru) /\ Range(lru) = {}
  BY DEF LruInit, Injective, Range
<1>4. SizeWithinCapacity
  BY DEF LruInit, SizeWithinCapacity
<1>5. EntriesReachable
  BY <1>3 DEF LruInit, EntriesReachable
<1>6. HeldValuesLive
  BY DEF LruInit, HeldValuesLive
<1>7. PinsCountLocks
  BY <1>3 DEF LruInit, PinsCountLocks, LruLive
<1>8. Accounting
  BY FS_EmptySet DEF LruInit, Accounting
<1> QED
  BY <1>1, <1>2, <1>3, <1>4, <1>5, <1>6, <1>7, <1>8 DEF Inv

\* The step of the capacity test.
LEMMA EnterInv ==
    ASSUME Inv, NEW t \in Threads, NEW k \in Keys,
           NEW op \in {"insert", "lookup"}, Enter(t, op, k)
    PROVE  Inv'
<1> USE DEF Inv, Enter
<1>1. LruTypeOK'
  BY DEF LruTypeOK
<1>2. ArgsAreKeys'
  BY DEF ArgsAreKeys, LruTypeOK
<1>3. Undamaged' /\ Injective(lru)' /\ (size_ = Len(lru))' /\ SizeWithinCapacity'
  BY DEF Undamaged, Injective, SizeWithinCapacity
<1>4. EntriesReachable' /\ Accounting'
  BY DEF EntriesReachable, Accounting
<1>5. HeldValuesLive' /\ PinsCountLocks'
  BY DEF HeldValuesLive, PinsCountLocks, LruLive, Holders
<1> QED
  BY <1>1, <1>2, <1>3, <1>4, <1>5

\* What ShrinkToCapacity and the eviction of V do to the invariant's parts,
\* for a queue q of items of the old one.
LEMMA EvictionKeeps ==
    ASSUME Inv, NEW q \in Seq(Items), Range(q) \subseteq Range(lru),
           NEW V, V = Range(lru) \ Range(q),
           NEW new \in SUBSET Items, new \cap ((hashed \cup evicted) \ Freed(V)) = {},
           EvictItems(V, new), hashed' = (hashed \ V) \cup new
    PROVE  /\ hashed' = Range(q) \cup new
           /\ hashed' \subseteq Items /\ evicted' \subseteq Items
           /\ leaked' = {} /\ failed' = FALSE
           /\ hashed' \cap evicted' = {}
           /\ hashed' \cup evicted' = ((hashed \cup evicted) \ Freed(V)) \cup new
           /\ allocated_' = Cardinality(hashed' \cup evicted')
           /\ allocated_' \in Nat
<1> USE DEF Inv
<1>1. hashed = Range(lru) /\ hashed \subseteq Items /\ evicted \subseteq Items
      /\ hashed \cap evicted = {} /\ leaked = {} /\ failed = FALSE
      /\ allocated_ = Cardinality(hashed \cup evicted)
  BY DEF EntriesReachable, LruTypeOK, Undamaged, Accounting
<1>2. V \subseteq hashed /\ Freed(V) \subseteq V
  BY <1>1 DEF Freed
<1>3. hashed' = Range(q) \cup new
  BY <1>1
<1>4. evicted' = evicted \cup (V \ Freed(V)) /\ leaked' = {} /\ failed' = FALSE
  BY <1>1, <1>2 DEF EvictItems
<1>5. hashed' \cap evicted' = {}
  BY <1>1, <1>2, <1>3, <1>4
<1>6. hashed' \cup evicted' = ((hashed \cup evicted) \ Freed(V)) \cup new
  BY <1>1, <1>2, <1>3, <1>4
<1>7. allocated_' = Cardinality(hashed' \cup evicted') /\ allocated_' \in Nat
  <2> DEFINE L == hashed \cup evicted
             K == L \ Freed(V)
  <2>1. IsFiniteSet(Items)
    BY CacheAssumption
  <2>2. IsFiniteSet(L) /\ IsFiniteSet(new) /\ IsFiniteSet(K) /\ IsFiniteSet(Freed(V))
    BY <2>1, <1>1, <1>2, FS_Subset
  <2>3. Cardinality(K) = Cardinality(L) - Cardinality(L \cap Freed(V))
    BY <2>2, FS_Difference
  <2>4. Cardinality(L \cap Freed(V)) = Cardinality(Freed(V))
    <3>1. L \cap Freed(V) = Freed(V)
      BY <1>2
    <3> QED BY <3>1
  <2>5. Cardinality(K \cup new) = Cardinality(K) + Cardinality(new) - Cardinality(K \cap new)
    BY <2>2, FS_Union
  <2>6. K \cap new = {}
    OBVIOUS
  <2>7. Cardinality(K \cap new) = 0
    BY <2>6, FS_EmptySet
  <2>8. Cardinality(K) \in Nat /\ Cardinality(L) \in Nat /\ Cardinality(new) \in Nat
        /\ Cardinality(Freed(V)) \in Nat
    BY <2>2, FS_CardinalityType
  <2>9. allocated_' = Cardinality(L) - Cardinality(Freed(V)) + Cardinality(new)
    BY <1>1 DEF EvictItems
  <2>10. hashed' \cup evicted' = K \cup new
    BY <1>6
  <2> HIDE DEF K, L
  <2>11. Cardinality(K \cup new) = Cardinality(L) - Cardinality(Freed(V)) + Cardinality(new)
    BY <2>3, <2>4, <2>5, <2>7, <2>8
  <2>12. Cardinality(K \cup new) \in Nat
    BY <2>3, <2>5, <2>7, <2>8
  <2> QED
    BY <2>9, <2>10, <2>11, <2>12
<1>8. hashed' \subseteq Items /\ evicted' \subseteq Items
  BY <1>1, <1>2, <1>3, <1>4
<1> QED
  BY <1>3, <1>4, <1>5, <1>6, <1>7, <1>8

\* Eviction keeps every held item, with its key and its pins.
LEMMA EvictionKeepsHeld ==
    ASSUME Inv, NEW V, NEW new \in SUBSET Items,
           new \cap ((hashed \cup evicted) \ Freed(V)) = {},
           hashed' \cup evicted' = ((hashed \cup evicted) \ Freed(V)) \cup new,
           hashed' = Range(lru'), leaked' = {},
           evicted' = evicted \cup ((V \cap hashed) \ Freed(V)),
           lock' = lock,
           \A i \in Items \ new : key'[i] = key[i] /\ pins'[i] = pins[i],
           \A i \in new : pins'[i] = 0
    PROVE  HeldValuesLive' /\ PinsCountLocks'
<1> USE DEF Inv
<1>1. LruLive = hashed \cup evicted /\ LruLive' = hashed' \cup evicted'
  BY DEF LruLive, EntriesReachable, Undamaged
<1>2. \A i : Holders(i)' = Holders(i)
  BY DEF Holders
<1>3. \A i \in Freed(V) : i \in LruLive /\ pins[i] = 0
  BY <1>1 DEF Freed
<1>4. \A i \in LruLive : pins[i] = Cardinality(Holders(i))
  BY DEF PinsCountLocks
<1>5. \A i : IsFiniteSet(Holders(i))
  <2> SUFFICES ASSUME NEW i PROVE IsFiniteSet(Holders(i))
    OBVIOUS
  <2>1. Holders(i) \subseteq Locks
    BY DEF Holders
  <2> QED BY <2>1, CacheAssumption, FS_Subset
<1>6. \A i \in Freed(V) : Holders(i) = {}
  BY <1>3, <1>4, <1>5, FS_EmptySet
<1>7. \A l \in Locks : lock[l] # Unheld =>
         lock[l].item \in LruLive /\ key[lock[l].item] = lock[l].key /\ lock[l].item \in Items
  BY DEF HeldValuesLive, LruTypeOK
<1>8. \A l \in Locks : lock[l] # Unheld => lock[l].item \notin Freed(V)
  BY <1>6 DEF Holders
<1>9. \A l \in Locks : lock[l] # Unheld => lock[l].item \notin new
  BY <1>1, <1>7, <1>8
<1>10. HeldValuesLive'
  <2> SUFFICES ASSUME NEW l \in Locks, lock[l] # Unheld
               PROVE  lock[l].item \in LruLive' /\ key'[lock[l].item] = lock[l].key
    BY DEF HeldValuesLive
  <2> QED BY <1>1, <1>7, <1>8, <1>9
<1>11. \A i \in LruLive' : pins'[i] = Cardinality(Holders(i))
  <2> SUFFICES ASSUME NEW i \in LruLive' PROVE pins'[i] = Cardinality(Holders(i))
    OBVIOUS
  <2>1. CASE i \in new
    <3>1. Holders(i) = {}
      BY <2>1, <1>9 DEF Holders
    <3> QED BY <3>1, <2>1, FS_EmptySet
  <2>2. CASE i \notin new
    <3>1. i \in LruLive /\ i \in Items
      BY <2>2, <1>1 DEF LruTypeOK
    <3> QED BY <3>1, <2>2, <1>4
  <2> QED BY <2>1, <2>2
<1>12. \A i \in evicted' : Holders(i) # {}
  <2> SUFFICES ASSUME NEW i \in evicted' PROVE Holders(i) # {}
    OBVIOUS
  <2>1. CASE i \in evicted
    BY <2>1 DEF PinsCountLocks
  <2>2. CASE i \in (V \cap hashed) \ Freed(V)
    <3>1. pins[i] # 0 /\ i \in LruLive
      BY <2>2, <1>1 DEF Freed
    <3> QED BY <3>1, <1>4, FS_EmptySet
  <2> QED BY <2>1, <2>2
<1>13. PinsCountLocks'
  BY <1>2, <1>11, <1>12 DEF PinsCountLocks
<1> QED
  BY <1>10, <1>13

\* Insert, which evicts the old entry of its key and the oldest ones.
LEMMA InsertInv ==
    ASSUME Inv, NEW t \in Threads, NEW n \in Items, Insert(t, n)
    PROVE  Inv'
<1> USE DEF Inv
<1> DEFINE k == arg[t]
           dup == Find(k)
           u == Unlinked(lru, dup)
           q == InsertKeeps(k)
           V == Range(lru) \ Range(q)
<1>1. lruPc[t] = "insert" /\ k \in Keys /\ capacity_ \in Nat /\ lru \in Seq(Items)
      /\ hashed = Range(lru) /\ looped = {} /\ leaked = {}
  BY DEF Insert, ArgsAreKeys, LruTypeOK, EntriesReachable, Undamaged
<1>2. Damage(IF Find(k) = {} THEN {k} ELSE {}, V) = "ok"
  BY <1>1, NoDamage
<1>3. /\ n \notin LruLive \ Freed(V)
      /\ EvictItems(V, {n})
      /\ hashed' = (hashed \ V) \cup {n}
      /\ size_' = size_ - (Len(lru) - Len(q)) + 1
      /\ lru' = <<n>> \o q
      /\ key' = [key EXCEPT ![n] = k]
      /\ pins' = [pins EXCEPT ![n] = 0]
      /\ UNCHANGED <<capacity_, looped, lock, health>>
      /\ Leave(t)
  BY <1>2 DEF Insert
<1>4. \A x, y \in dup : x = y
  BY DEF EntriesReachable, Find, Chain
<1>5. dup \subseteq Range(lru)
  BY <1>1 DEF Find, Chain
<1>6. Cardinality(dup) = IF dup = {} THEN 0 ELSE 1
  <2>1. CASE dup = {}
    BY <2>1, FS_EmptySet
  <2>2. CASE dup # {}
    <3>1. PICK x : x \in dup
      BY <2>2
    <3>2. dup = {x}
      BY <3>1, <1>4
    <3>3. Cardinality({x}) = 1
      BY FS_Singleton
    <3> QED BY <3>2, <3>3, <2>2
  <2> QED BY <2>1, <2>2
<1>7. /\ u \in Seq(Items)
      /\ Len(u) = IF Range(lru) \cap dup = {} THEN Len(lru) ELSE Len(lru) - 1
      /\ Range(u) = Range(lru) \ dup
      /\ Injective(u)
  BY <1>1, <1>4, UnlinkedProperties
<1>8. size_ - Cardinality(dup) = Len(u)
  <2>1. Range(lru) \cap dup = {} <=> dup = {}
    BY <1>5
  <2>2. size_ = Len(lru) /\ Len(lru) \in Nat
    BY <1>1
  <2> HIDE DEF dup, u
  <2>3. CASE dup = {}
    <3>1. Cardinality(dup) = 0 /\ Len(u) = Len(lru)
      BY <2>1, <2>3, <1>6, <1>7
    <3> QED BY <3>1, <2>2
  <2>4. CASE dup # {}
    <3>1. Cardinality(dup) = 1 /\ Len(u) = Len(lru) - 1
      BY <2>1, <2>4, <1>6, <1>7
    <3> QED BY <3>1, <2>2
  <2> QED BY <2>3, <2>4
<1>9. q = Shrunk(u, Len(u), capacity_ - 1)
  BY <1>8 DEF InsertKeeps
<1>10. capacity_ - 1 \in Int
  BY <1>1
<1>11. /\ q \in Seq(Items)
       /\ Len(q) <= Len(u)
       /\ Len(q) = 0 \/ Len(q) <= capacity_ - 1
       /\ Range(q) \subseteq Range(u)
       /\ Injective(q)
  <2> HIDE DEF q, u
  <2>1. /\ q \in Seq(Items)
        /\ Len(q) <= Len(u)
        /\ Len(q) = 0 \/ Len(q) <= capacity_ - 1
    BY <1>7, <1>9, <1>10, ShrunkIsPrefix
  <2>2. Range(q) \subseteq Range(u) /\ Injective(q)
    BY <1>7, <1>9, <1>10, ShrunkRange
  <2> QED BY <2>1, <2>2
<1> HIDE DEF q, u, dup, k
<1>12. Range(q) \subseteq Range(lru) /\ Range(q) \cap dup = {}
  BY <1>7, <1>11
<1>13. LruLive = hashed \cup evicted
  BY <1>1 DEF LruLive
<1>14. {n} \cap ((hashed \cup evicted) \ Freed(V)) = {} /\ {n} \in SUBSET Items
  BY <1>3, <1>13
<1>15. /\ hashed' = Range(q) \cup {n}
       /\ hashed' \subseteq Items /\ evicted' \subseteq Items
       /\ leaked' = {} /\ failed' = FALSE
       /\ hashed' \cap evicted' = {}
       /\ hashed' \cup evicted' = ((hashed \cup evicted) \ Freed(V)) \cup {n}
       /\ allocated_' = Cardinality(hashed' \cup evicted')
       /\ allocated_' \in Nat
  BY <1>3, <1>11, <1>12, <1>14, EvictionKeeps
<1>16. /\ lru' \in Seq(Items) /\ Len(lru') = Len(q) + 1 /\ lru'[1] = n
       /\ \A p \in 1 .. Len(q) : lru'[p + 1] = q[p]
  BY <1>3, <1>11
<1>17. Range(lru') = Range(q) \cup {n}
  <2>1. DOMAIN lru' = 1 .. Len(q) + 1 /\ DOMAIN q = 1 .. Len(q) /\ Len(q) \in Nat
    BY <1>16, <1>11
  <2>2. \A p \in DOMAIN lru' : lru'[p] = n \/ (p - 1 \in DOMAIN q /\ lru'[p] = q[p - 1])
    BY <2>1, <1>16
  <2>3. \A p \in DOMAIN q : p + 1 \in DOMAIN lru' /\ lru'[p + 1] = q[p]
    BY <2>1, <1>16
  <2>4. 1 \in DOMAIN lru'
    BY <2>1
  <2>5. Range(lru') \subseteq Range(q) \cup {n}
    BY <2>2 DEF Range
  <2>6. Range(q) \cup {n} \subseteq Range(lru')
    BY <2>3, <2>4, <1>16 DEF Range
  <2> QED BY <2>5, <2>6
<1>18. n \notin Range(q)
  BY <1>12, <1>14, <1>1 DEF Freed
<1>19. Injective(lru')
  <2> SUFFICES ASSUME NEW p \in 1 .. Len(lru'), NEW r \in 1 .. Len(lru'),
                      lru'[p] = lru'[r]
               PROVE  p = r
    BY <1>16 DEF Injective
  <2>1. \A m \in 1 .. Len(q) : q[m] # n
    BY <1>18, <1>11 DEF Range
  <2>2. \A m \in 2 .. Len(lru') : m - 1 \in 1 .. Len(q) /\ lru'[m] = q[m - 1]
    BY <1>16, <1>11
  <2>3. Len(q) \in Nat /\ DOMAIN q = 1 .. Len(q)
    BY <1>11
  <2>4. CASE p = 1 /\ r = 1
    BY <2>4
  <2>5. CASE p = 1 /\ r # 1
    BY <2>5, <2>1, <2>2, <1>16
  <2>6. CASE p # 1 /\ r = 1
    BY <2>6, <2>1, <2>2, <1>16
  <2>7. CASE p # 1 /\ r # 1
    <3>1. p - 1 \in DOMAIN q /\ r - 1 \in DOMAIN q /\ q[p - 1] = q[r - 1]
      BY <2>7, <2>2, <2>3, <1>16
    <3>2. p - 1 = r - 1
      BY <3>1, <1>11 DEF Injective
    <3> QED BY <3>2
  <2> QED BY <2>4, <2>5, <2>6, <2>7
<1>20. size_' = Len(lru')
  BY <1>3, <1>11, <1>16, <1>1
<1>21. SizeWithinCapacity'
  BY <1>3, <1>1, <1>11, <1>16, <1>20 DEF SizeWithinCapacity
<1>22. EntriesReachable'
  <2>1. \A i \in Range(q) : i \in hashed /\ key[i] # k /\ key'[i] = key[i]
    <3> SUFFICES ASSUME NEW i \in Range(q)
                 PROVE  i \in hashed /\ key[i] # k /\ key'[i] = key[i]
      OBVIOUS
    <3>1. i \in hashed /\ i \notin dup /\ i # n /\ i \in Items
      BY <1>12, <1>1, <1>18 DEF LruTypeOK
    <3>2. key[i] # k
      BY <3>1 DEF dup, Find, Chain
    <3> QED BY <3>1, <3>2, <1>3 DEF LruTypeOK
  <2>2. key'[n] = k
    BY <1>3 DEF LruTypeOK
  <2> QED BY <2>1, <2>2, <1>15, <1>17 DEF EntriesReachable
<1>23. HeldValuesLive' /\ PinsCountLocks'
  <2>1. \A i \in Items \ {n} : key'[i] = key[i] /\ pins'[i] = pins[i]
    BY <1>3 DEF LruTypeOK
  <2>2. \A i \in {n} : pins'[i] = 0
    BY <1>3 DEF LruTypeOK
  <2>3. hashed' = Range(lru') /\ lock' = lock
        /\ evicted' = evicted \cup ((V \cap hashed) \ Freed(V))
    BY <1>3, <1>15, <1>17 DEF EvictItems
  <2> QED BY <2>1, <2>2, <2>3, <1>14, <1>15, EvictionKeepsHeld
<1>24. LruTypeOK'
  <2>1. size_' \in Nat
    BY <1>20, <1>16
  <2>2. key' \in [Items -> Keys \cup {None}] /\ pins' \in [Items -> Nat]
    BY <1>3, <1>1 DEF LruTypeOK, k
  <2>3. lruPc' \in [Threads -> {"idle", "insert", "lookup"}] /\ arg' \in [Threads -> Keys \cup {None}]
    BY <1>3 DEF LruTypeOK, Leave
  <2> QED BY <2>1, <2>2, <2>3, <1>3, <1>15, <1>16 DEF LruTypeOK
<1>25. ArgsAreKeys'
  BY <1>3 DEF ArgsAreKeys, Leave, LruTypeOK
<1>26. Undamaged' /\ Accounting'
  BY <1>3, <1>15 DEF Undamaged, Accounting
<1> QED
  BY <1>19, <1>20, <1>21, <1>22, <1>23, <1>24, <1>25, <1>26

\* LookupAndPin, which adds one lock and one pin.
LEMMA LookupAndPinInv ==
    ASSUME Inv, NEW t \in Threads, NEW l \in Locks, LookupAndPin(t, l)
    PROVE  Inv'
<1> USE DEF Inv
<1> DEFINE k == arg[t]
<1>1. k \in Keys /\ lock[l] = Unheld /\ Leave(t) /\ looped = {}
  BY DEF LookupAndPin, ArgsAreKeys, Undamaged
<1>2. CASE Find(k) = {} /\ Unmodified(Damage({k}, {}))
  <2>1. Damage({k}, {}) = "ok"
    BY <1>1, NoDamage
  <2>2. /\ UNCHANGED <<capacity_, size_, allocated_, lru, hashed, looped,
                       evicted, leaked, key, pins, lock, failed>>
        /\ health' = "ok"
    BY <2>1, <1>2 DEF Unmodified
  <2>3. LruTypeOK' /\ ArgsAreKeys'
    BY <2>2, <1>1 DEF LruTypeOK, ArgsAreKeys, Leave
  <2>4. Undamaged' /\ Injective(lru)' /\ (size_ = Len(lru))' /\ SizeWithinCapacity'
    BY <2>2 DEF Undamaged, Injective, SizeWithinCapacity
  <2>5. EntriesReachable' /\ Accounting'
    BY <2>2 DEF EntriesReachable, Accounting
  <2>6. HeldValuesLive' /\ PinsCountLocks'
    BY <2>2 DEF HeldValuesLive, PinsCountLocks, LruLive, Holders
  <2> QED BY <2>3, <2>4, <2>5, <2>6
<1>3. CASE \E i \in Find(k) :
             /\ pins' = Pinned(i)
             /\ lock' = [lock EXCEPT ![l] = [key |-> k, item |-> i]]
             /\ UNCHANGED <<capacity_, size_, allocated_, lru, hashed,
                            looped, evicted, leaked, key, health, failed>>
  <2>1. PICK i \in Find(k) :
             /\ pins' = Pinned(i)
             /\ lock' = [lock EXCEPT ![l] = [key |-> k, item |-> i]]
             /\ UNCHANGED <<capacity_, size_, allocated_, lru, hashed,
                            looped, evicted, leaked, key, health, failed>>
    BY <1>3
  <2>2. i \in hashed /\ key[i] = k /\ i \in Items /\ i \in LruLive
    BY DEF Find, Chain, LruTypeOK, LruLive, EntriesReachable
  <2>3. [key |-> k, item |-> i] # Unheld
    BY <2>2, NoneAssumption DEF Unheld
  <2>4. LruTypeOK'
    <3>1. pins' \in [Items -> Nat]
      BY <2>1, <2>2 DEF LruTypeOK, Pinned
    <3>2. lock' \in [Locks -> [key : Keys, item : Items] \cup {Unheld}]
      BY <2>1, <2>2, <1>1 DEF LruTypeOK
    <3>3. lruPc' \in [Threads -> {"idle", "insert", "lookup"}] /\ arg' \in [Threads -> Keys \cup {None}]
      BY <1>1 DEF LruTypeOK, Leave
    <3> QED BY <2>1, <3>1, <3>2, <3>3 DEF LruTypeOK
  <2>5. ArgsAreKeys'
    BY <1>1 DEF ArgsAreKeys, Leave, LruTypeOK
  <2>6. Undamaged' /\ Injective(lru)' /\ (size_ = Len(lru))' /\ SizeWithinCapacity'
    BY <2>1 DEF Undamaged, Injective, SizeWithinCapacity
  <2>7. EntriesReachable' /\ Accounting'
    BY <2>1 DEF EntriesReachable, Accounting
  <2>8. /\ lock'[l] = [key |-> k, item |-> i]
        /\ \A m \in Locks \ {l} : lock'[m] = lock[m]
        /\ pins'[i] = pins[i] + 1
        /\ \A j \in Items \ {i} : pins'[j] = pins[j]
        /\ LruLive' = LruLive
    BY <2>1, <2>2 DEF LruTypeOK, Pinned, LruLive
  <2>9. HeldValuesLive'
    <3> SUFFICES ASSUME NEW m \in Locks, lock'[m] # Unheld
                 PROVE  lock'[m].item \in LruLive /\ key[lock'[m].item] = lock'[m].key
      BY <2>1, <2>8 DEF HeldValuesLive
    <3> QED BY <2>8, <2>2 DEF HeldValuesLive
  <2>10. \A j \in Items \ {i} : Holders(j)' = Holders(j)
    BY <2>8, <1>1 DEF Holders
  <2>11. Holders(i)' = Holders(i) \cup {l} /\ l \notin Holders(i)
    BY <2>8, <2>3, <1>1 DEF Holders
  <2>12. Cardinality(Holders(i)') = Cardinality(Holders(i)) + 1
    <3>1. Holders(i) \subseteq Locks
      BY DEF Holders
    <3>2. IsFiniteSet(Holders(i))
      BY <3>1, CacheAssumption, FS_Subset
    <3> QED BY <2>11, <3>2, FS_AddElement
  <2>13. LruLive \subseteq Items
    BY DEF LruLive, LruTypeOK, EntriesReachable
  <2>14. \A j \in LruLive' : pins'[j] = Cardinality(Holders(j)')
    <3> SUFFICES ASSUME NEW j \in LruLive PROVE pins'[j] = Cardinality(Holders(j)')
      BY <2>8
    <3>1. pins[j] = Cardinality(Holders(j))
      BY DEF PinsCountLocks
    <3>2. CASE j = i
      BY <3>1, <3>2, <2>8, <2>12
    <3>3. CASE j # i
      BY <3>1, <3>3, <2>8, <2>10, <2>13
    <3> QED BY <3>2, <3>3
  <2>15. \A j \in evicted' : Holders(j)' # {}
    <3> SUFFICES ASSUME NEW j \in evicted PROVE Holders(j)' # {}
      BY <2>1
    <3>1. Holders(j) # {} /\ j \in Items
      BY DEF PinsCountLocks, LruTypeOK
    <3> QED BY <3>1, <2>10, <2>11
  <2>16. PinsCountLocks'
    BY <2>14, <2>15 DEF PinsCountLocks
  <2> QED BY <2>4, <2>5, <2>6, <2>7, <2>9, <2>16
<1> QED
  BY <1>2, <1>3 DEF LookupAndPin

\* Unpin, which finds the item and frees it with its last lock if evicted.
LEMMA UnpinInv ==
    ASSUME Inv, NEW l \in Locks, Unpin(l)
    PROVE  Inv'
<1> USE DEF Inv
<1>1. /\ lock[l] # Unheld
      /\ UNCHANGED <<capacity_, size_, lru, hashed, looped, leaked, key, lruPc, arg>>
      /\ lock' = [lock EXCEPT ![l] = Unheld]
  BY DEF Unpin
<1>2. LruLive = hashed \cup evicted /\ LruLive \subseteq Items /\ hashed \cap evicted = {}
      /\ leaked = {} /\ hashed = Range(lru)
  BY DEF LruLive, LruTypeOK, EntriesReachable, Undamaged, Accounting
<1>3. PICK i \in Items, k \in Keys : i = lock[l].item /\ k = lock[l].key /\ i \in LruLive /\ key[i] = k
  BY <1>1, <1>2 DEF HeldValuesLive, LruTypeOK
<1>4. Holders(i)' = Holders(i) \ {l} /\ l \in Holders(i)
      /\ \A j : j # i => Holders(j)' = Holders(j)
  BY <1>1, <1>3 DEF Holders, LruTypeOK
<1>5. IsFiniteSet(Holders(i))
  <2>1. Holders(i) \subseteq Locks
    BY DEF Holders
  <2> QED BY <2>1, CacheAssumption, FS_Subset
<1>6. Cardinality(Holders(i)') = Cardinality(Holders(i)) - 1
  BY <1>4, <1>5, FS_RemoveElement
<1>7. pins[i] = Cardinality(Holders(i)) /\ pins[i] \in Nat
  BY <1>3 DEF PinsCountLocks, LruTypeOK
<1>8. pins[i] > 0
  BY <1>4, <1>5, <1>7, FS_EmptySet
<1>9. \/ /\ i \in evicted
         /\ pins' = [pins EXCEPT ![i] = @ - 1]
         /\ evicted' = IF pins[i] = 1 THEN evicted \ {i} ELSE evicted
         /\ allocated_' = IF pins[i] = 1 THEN allocated_ - 1 ELSE allocated_
         /\ UNCHANGED <<health, failed>>
      \/ /\ i \in hashed
         /\ pins' = [pins EXCEPT ![i] = @ - 1]
         /\ failed' = (failed \/ pins[i] <= 0)
         /\ UNCHANGED <<evicted, allocated_, health>>
  <2>1. InEvicted(i, k) <=> i \in evicted
    BY <1>3 DEF InEvicted
  <2>2. i \in Find(k) <=> i \in hashed
    BY <1>3 DEF Find, Chain
  <2>3. i \in evicted \/ i \in hashed
    BY <1>2, <1>3
  <2> QED BY <2>1, <2>2, <2>3, <1>3 DEF Unpin, EvictedAfterUnpin
<1>10. failed' = FALSE /\ health' = "ok"
  <2>1. ~(pins[i] <= 0)
    BY <1>7, <1>8
  <2>2. failed = FALSE /\ health = "ok"
    BY DEF Undamaged
  <2> QED BY <2>1, <2>2, <1>9, Zenon
<1>11. pins'[i] = pins[i] - 1 /\ \A j \in Items \ {i} : pins'[j] = pins[j]
  BY <1>9, <1>3 DEF LruTypeOK
<1>12. evicted' \subseteq evicted /\ (evicted \ {i}) \subseteq evicted'
       /\ (pins[i] # 1 => evicted' = evicted) /\ (i \in evicted' => pins[i] # 1)
  BY <1>9, <1>2
<1>13. LruLive' = hashed \cup evicted'
  BY <1>1, <1>2 DEF LruLive
<1>14. \A j \in LruLive' : j \in LruLive
  BY <1>12, <1>13, <1>2
<1>15. PinsCountLocks'
  <2>1. \A j \in LruLive' : pins'[j] = Cardinality(Holders(j)')
    <3> SUFFICES ASSUME NEW j \in LruLive' PROVE pins'[j] = Cardinality(Holders(j)')
      OBVIOUS
    <3>1. CASE j = i
      BY <3>1, <1>6, <1>7, <1>11
    <3>2. CASE j # i
      <4>1. j \in LruLive /\ j \in Items /\ pins[j] = Cardinality(Holders(j))
        BY <1>14, <1>2 DEF PinsCountLocks
      <4> QED BY <4>1, <3>2, <1>4, <1>11
    <3> QED BY <3>1, <3>2
  <2>2. \A j \in evicted' : Holders(j)' # {}
    <3> SUFFICES ASSUME NEW j \in evicted' PROVE Holders(j)' # {}
      OBVIOUS
    <3>1. CASE j = i
      <4>1. pins[i] # 1
        BY <3>1, <1>12
      <4>2. Cardinality(Holders(i)') # 0
        BY <4>1, <1>6, <1>7, <1>8
      <4>3. Holders(i)' # {}
        BY <4>2, FS_EmptySet
      <4> QED BY <4>3, <3>1
    <3>2. CASE j # i
      <4>1. Holders(j) # {}
        BY <1>12 DEF PinsCountLocks
      <4> QED BY <4>1, <3>2, <1>4
    <3> QED BY <3>1, <3>2
  <2> QED BY <2>1, <2>2 DEF PinsCountLocks
<1>16. HeldValuesLive'
  <2> SUFFICES ASSUME NEW m \in Locks, lock'[m] # Unheld
               PROVE  lock'[m].item \in LruLive' /\ key[lock'[m].item] = lock'[m].key
    BY <1>1 DEF HeldValuesLive
  <2>1. m # l /\ lock'[m] = lock[m]
    BY <1>1 DEF LruTypeOK
  <2>2. lock[m].item \in LruLive /\ key[lock[m].item] = lock[m].key
    BY <2>1 DEF HeldValuesLive
  <2>3. lock[m].item = i => pins[i] # 1
    <3> SUFFICES ASSUME lock[m].item = i, pins[i] = 1 PROVE FALSE
      OBVIOUS
    <3>1. m \in Holders(i)'
      BY <2>1 DEF Holders
    <3>2. IsFiniteSet(Holders(i)') /\ Cardinality(Holders(i)') = 0
      BY <1>4, <1>5, <1>6, <1>7, FS_RemoveElement
    <3> QED BY <3>1, <3>2, FS_EmptySet
  <2>4. lock[m].item \in LruLive'
    BY <2>2, <2>3, <1>12, <1>13, <1>2
  <2> QED BY <2>1, <2>2, <2>4
<1>17. Accounting' /\ allocated_' \in Nat
  <2>1. hashed' \cap evicted' = {}
    BY <1>1, <1>2, <1>12
  <2>2. IsFiniteSet(hashed \cup evicted) /\ allocated_ = Cardinality(hashed \cup evicted)
        /\ allocated_ \in Nat
    BY <1>2, CacheAssumption, FS_Subset, FS_CardinalityType DEF Accounting
  <2>3. CASE i \in evicted /\ pins[i] = 1 /\ allocated_' = allocated_ - 1
    <3>1. hashed' \cup evicted' = (hashed \cup evicted) \ {i}
      BY <2>3, <1>1, <1>2, <1>12
    <3>2. Cardinality((hashed \cup evicted) \ {i}) = allocated_ - 1
      BY <2>2, <2>3, FS_RemoveElement
    <3>3. Cardinality((hashed \cup evicted) \ {i}) \in Nat
      BY <2>2, FS_RemoveElement, FS_CardinalityType
    <3>4. Cardinality(hashed' \cup evicted') = Cardinality((hashed \cup evicted) \ {i})
      BY <3>1
    <3> QED BY <2>1, <2>3, <3>2, <3>3, <3>4 DEF Accounting
  <2>4. CASE evicted' = evicted /\ allocated_' = allocated_
    BY <2>1, <2>2, <2>4, <1>1 DEF Accounting
  <2> QED BY <2>3, <2>4, <1>9
<1>18. LruTypeOK'
  <2>1. pins' \in [Items -> Nat]
    <3>1. pins' = [pins EXCEPT ![i] = pins[i] - 1] /\ pins \in [Items -> Nat]
      BY <1>9 DEF LruTypeOK
    <3>2. pins[i] - 1 \in Nat
      BY <1>7, <1>8
    <3> QED BY <3>1, <3>2
  <2>2. lock' \in [Locks -> [key : Keys, item : Items] \cup {Unheld}]
    BY <1>1 DEF LruTypeOK
  <2> QED BY <2>1, <2>2, <1>1, <1>10, <1>12, <1>17 DEF LruTypeOK
<1>19. ArgsAreKeys' /\ Undamaged'
  BY <1>1, <1>10 DEF ArgsAreKeys, Undamaged
<1>20. Injective(lru)' /\ (size_ = Len(lru))' /\ SizeWithinCapacity' /\ EntriesReachable'
  BY <1>1 DEF Injective, SizeWithinCapacity, EntriesReachable
<1> QED
  BY <1>15, <1>16, <1>17, <1>18, <1>19, <1>20

\* A move hands one lock's item and pin to another lock.
LEMMA MoveLockInv ==
    ASSUME Inv, NEW from \in Locks, NEW to \in Locks, MoveLock(from, to)
    PROVE  Inv'
<1> USE DEF Inv
<1>1. /\ lock[from] # Unheld /\ lock[to] = Unheld /\ from # to
      /\ lock' = [lock EXCEPT ![to] = lock[from], ![from] = Unheld]
      /\ UNCHANGED <<capacity_, size_, allocated_, lru, hashed, looped, evicted,
                     leaked, key, pins, lruPc, arg, health, failed>>
  BY DEF MoveLock
<1>2. /\ lock'[to] = lock[from] /\ lock'[from] = Unheld
      /\ \A m \in Locks \ {from, to} : lock'[m] = lock[m]
  BY <1>1 DEF LruTypeOK
<1>3. LruTypeOK'
  <2>1. lock' \in [Locks -> [key : Keys, item : Items] \cup {Unheld}]
    BY <1>1 DEF LruTypeOK
  <2> QED BY <2>1, <1>1 DEF LruTypeOK
<1>4. ArgsAreKeys' /\ Undamaged' /\ Injective(lru)' /\ (size_ = Len(lru))'
      /\ SizeWithinCapacity' /\ EntriesReachable' /\ Accounting' /\ LruLive' = LruLive
  BY <1>1 DEF ArgsAreKeys, Undamaged, Injective, SizeWithinCapacity,
              EntriesReachable, Accounting, LruLive
<1>5. HeldValuesLive'
  <2> SUFFICES ASSUME NEW m \in Locks, lock'[m] # Unheld
               PROVE  lock'[m].item \in LruLive /\ key[lock'[m].item] = lock'[m].key
    BY <1>1, <1>4 DEF HeldValuesLive
  <2>1. \E x \in Locks : lock'[m] = lock[x] /\ lock[x] # Unheld
    BY <1>1, <1>2
  <2> QED BY <2>1 DEF HeldValuesLive
<1>6. ASSUME NEW i
      PROVE  Cardinality(Holders(i)') = Cardinality(Holders(i))
             /\ (Holders(i) # {} => Holders(i)' # {})
  <2>1. Holders(i) \subseteq Locks
    BY DEF Holders
  <2>2. IsFiniteSet(Holders(i))
    BY <2>1, CacheAssumption, FS_Subset
  <2>3. CASE lock[from].item = i
    <3>1. from \in Holders(i) /\ to \notin Holders(i)
          /\ Holders(i)' = (Holders(i) \ {from}) \cup {to}
      BY <2>3, <1>1, <1>2 DEF Holders
    <3>2. IsFiniteSet(Holders(i) \ {from})
          /\ Cardinality(Holders(i) \ {from}) = Cardinality(Holders(i)) - 1
      BY <2>2, <3>1, FS_RemoveElement
    <3>3. to \notin Holders(i) \ {from}
      BY <3>1
    <3>4. Cardinality((Holders(i) \ {from}) \cup {to}) = Cardinality(Holders(i) \ {from}) + 1
      BY <3>2, <3>3, FS_AddElement
    <3>5. Cardinality(Holders(i)) \in Nat
      BY <2>2, FS_CardinalityType
    <3>6. Cardinality(Holders(i)') = Cardinality((Holders(i) \ {from}) \cup {to})
      BY <3>1
    <3> QED BY <3>1, <3>2, <3>4, <3>5, <3>6
  <2>4. CASE lock[from].item # i
    <3>1. Holders(i)' = Holders(i)
      BY <2>4, <1>1, <1>2 DEF Holders
    <3> QED BY <3>1
  <2> QED BY <2>3, <2>4
<1>7. PinsCountLocks'
  <2>1. \A i \in LruLive : pins'[i] = Cardinality(Holders(i)')
    BY <1>1, <1>6 DEF PinsCountLocks
  <2>2. \A i \in evicted' : Holders(i)' # {}
    BY <1>1, <1>6 DEF PinsCountLocks
  <2> QED BY <1>4, <2>1, <2>2 DEF PinsCountLocks
<1> QED
  BY <1>3, <1>4, <1>5, <1>7

\* Clear evicts everything; pinned items move to the evicted list.
LEMMA ClearInv ==
    ASSUME Inv, Clear
    PROVE  Inv'
<1> USE DEF Inv
<1> DEFINE q == Shrunk(lru, size_, 0)
           V == Range(lru) \ Range(q)
<1>1. lru \in Seq(Items) /\ looped = {} /\ hashed = Range(lru) /\ size_ = Len(lru)
  BY DEF LruTypeOK, Undamaged, EntriesReachable
<1>2. /\ q \in Seq(Items) /\ Len(q) = 0
      /\ Range(q) \subseteq Range(lru) /\ Injective(q)
  <2>1. q \in Seq(Items) /\ (Len(q) = 0 \/ Len(q) <= 0)
    BY <1>1, ShrunkIsPrefix
  <2>2. Range(q) \subseteq Range(lru) /\ Injective(q)
    BY <1>1, ShrunkRange
  <2> HIDE DEF q
  <2> QED BY <2>1, <2>2
<1>3. Damage({}, V) = "ok"
  BY <1>1, NoDamage
<1>4. /\ EvictItems(V, {})
      /\ hashed' = hashed \ V
      /\ size_' = size_ - (Len(lru) - Len(q))
      /\ lru' = q
      /\ UNCHANGED <<capacity_, looped, key, pins, lock, health, lruPc, arg>>
  BY <1>3 DEF Clear
<1> HIDE DEF q
<1>5. /\ hashed' = Range(q) \cup {}
      /\ hashed' \subseteq Items /\ evicted' \subseteq Items
      /\ leaked' = {} /\ failed' = FALSE
      /\ hashed' \cap evicted' = {}
      /\ hashed' \cup evicted' = ((hashed \cup evicted) \ Freed(V)) \cup {}
      /\ allocated_' = Cardinality(hashed' \cup evicted')
      /\ allocated_' \in Nat
  <2>1. hashed' = (hashed \ V) \cup {} /\ {} \in SUBSET Items
        /\ {} \cap ((hashed \cup evicted) \ Freed(V)) = {}
    BY <1>4
  <2> QED BY <2>1, <1>2, <1>4, EvictionKeeps
<1>6. HeldValuesLive' /\ PinsCountLocks'
  <2>1. /\ \A i \in Items \ {} : key'[i] = key[i] /\ pins'[i] = pins[i]
        /\ \A i \in {} : pins'[i] = 0
        /\ {} \in SUBSET Items /\ {} \cap ((hashed \cup evicted) \ Freed(V)) = {}
    BY <1>4
  <2>2. hashed' = Range(lru') /\ lock' = lock
        /\ evicted' = evicted \cup ((V \cap hashed) \ Freed(V))
    BY <1>4, <1>5 DEF EvictItems
  <2> QED BY <2>1, <2>2, <1>5, EvictionKeepsHeld
<1>7. size_' = 0 /\ size_' = Len(lru')
  BY <1>1, <1>2, <1>4
<1>8. LruTypeOK'
  <2>1. size_' \in Nat /\ lru' \in Seq(Items)
    BY <1>2, <1>4, <1>7
  <2>2. leaked' \subseteq Items /\ failed' \in BOOLEAN
    BY <1>5
  <2> QED BY <2>1, <2>2, <1>4, <1>5 DEF LruTypeOK
<1>9. ArgsAreKeys' /\ Undamaged' /\ Accounting' /\ Injective(lru)'
  BY <1>2, <1>4, <1>5 DEF Undamaged, Accounting, ArgsAreKeys
<1>11. SizeWithinCapacity'
  BY <1>4, <1>7 DEF SizeWithinCapacity, LruTypeOK
<1>10. EntriesReachable'
  BY <1>1, <1>4, <1>5 DEF EntriesReachable
<1> QED
  BY <1>6, <1>7, <1>8, <1>9, <1>10, <1>11

\* SetCapacity of an empty cache; evicted items that are still pinned stay.
LEMMA SetCapacityInv ==
    ASSUME Inv, ResizeWhileFilled = FALSE, NEW c \in Capacities, SetCapacity(c)
    PROVE  Inv'
<1> USE DEF Inv
<1> DEFINE q == Shrunk(lru, size_, c)
           V == Range(lru) \ Range(q)
           S == hashed \ V
<1>1. size_ = 0 /\ c \in Nat /\ lru = << >> /\ hashed = {} /\ looped = {}
      /\ leaked = {} /\ failed = FALSE /\ Range(lru) = {}
  <2>1. size_ = 0 /\ c \in Nat
    BY CacheAssumption DEF SetCapacity
  <2>2. lru \in Seq(Items) /\ Len(lru) = 0
    BY <2>1 DEF LruTypeOK
  <2>3. lru = << >>
    BY <2>2
  <2>4. Range(lru) = {}
    BY <2>3 DEF Range
  <2> QED BY <2>1, <2>3, <2>4 DEF EntriesReachable, Undamaged
<1>2. V = {} /\ S = {} /\ Heads(S) = {} /\ Freed(V) = {}
  BY <1>1 DEF Heads, Freed
<1>3. Damage({}, V) = "ok"
  BY <1>1, NoDamage
<1>4. q = << >>
  BY <1>1 DEF Shrunk
<1>5. Rehashed(S, c) = {}
  BY <1>2 DEF Rehashed
<1>6. /\ EvictItems(V, {})
      /\ hashed' = Rehashed(S, c)
      /\ looped' = {i \in Rehashed(S, c) : SameNewBucket(S, i, c) # {i}}
      /\ size_' = size_ - (Len(lru) - Len(q))
      /\ lru' = q
      /\ capacity_' = c
      /\ UNCHANGED <<key, pins, lock, health, lruPc, arg>>
  <2>1. ~\E i \in Heads(S) : Cardinality(SameNewBucket(S, i, c)) > 2
    BY <1>2
  <2> QED BY <1>3, <2>1 DEF SetCapacity
<1> HIDE DEF q, S, V
<1>7. /\ hashed' = {} /\ looped' = {} /\ lru' = << >> /\ size_' = 0
      /\ evicted' = evicted /\ leaked' = {} /\ failed' = FALSE
      /\ allocated_' = allocated_
  <2>1. Cardinality(Freed(V)) = 0 /\ Cardinality({}) = 0
    BY <1>2, FS_EmptySet
  <2>2. evicted' = evicted /\ leaked' = {} /\ failed' = FALSE
    BY <1>1, <1>2, <1>6 DEF EvictItems
  <2>3. allocated_' = allocated_
    BY <2>1, <1>6 DEF EvictItems, LruTypeOK
  <2> QED BY <2>2, <2>3, <1>1, <1>4, <1>5, <1>6
<1>8. Range(lru') = {} /\ Injective(lru') /\ Len(lru') = 0 /\ lru' \in Seq(Items)
  BY <1>7 DEF Range, Injective
<1>9. LruTypeOK' /\ ArgsAreKeys' /\ Undamaged'
  BY <1>1, <1>6, <1>7, <1>8 DEF LruTypeOK, ArgsAreKeys, Undamaged
<1>10. SizeWithinCapacity' /\ EntriesReachable' /\ Accounting'
  <2>1. SizeWithinCapacity'
    BY <1>1, <1>6, <1>7 DEF SizeWithinCapacity
  <2>2. EntriesReachable'
    BY <1>7, <1>8 DEF EntriesReachable
  <2>3. Accounting'
    BY <1>1, <1>7 DEF Accounting
  <2> QED BY <2>1, <2>2, <2>3
<1>11. LruLive' = LruLive /\ \A i : Holders(i)' = Holders(i)
  BY <1>1, <1>6, <1>7, <1>8 DEF LruLive, Holders
<1>12. HeldValuesLive' /\ PinsCountLocks'
  BY <1>6, <1>7, <1>11 DEF HeldValuesLive, PinsCountLocks
<1> QED
  BY <1>7, <1>8, <1>9, <1>10, <1>12

LEMMA NextInv ==
    ASSUME ResizeWhileFilled = FALSE
    PROVE  Inv /\ [LruNext]_lruVars => Inv'
<1> SUFFICES ASSUME Inv, [LruNext]_lruVars PROVE Inv'
  OBVIOUS
<1>1. CASE UNCHANGED lruVars
  <2> USE <1>1 DEF lruVars, Inv
  <2>1. LruTypeOK' /\ ArgsAreKeys' /\ Undamaged'
    BY DEF LruTypeOK, ArgsAreKeys, Undamaged
  <2>2. Injective(lru)' /\ (size_ = Len(lru))' /\ SizeWithinCapacity' /\ EntriesReachable'
    BY DEF Injective, SizeWithinCapacity, EntriesReachable
  <2>3. HeldValuesLive' /\ PinsCountLocks' /\ Accounting'
    BY DEF HeldValuesLive, PinsCountLocks, LruLive, Holders, Accounting
  <2> QED BY <2>1, <2>2, <2>3
<1>2. CASE \E t \in Threads, k \in Keys, op \in {"insert", "lookup"} : Enter(t, op, k)
  BY <1>2, EnterInv
<1>3. CASE \E t \in Threads, n \in Items : Insert(t, n)
  BY <1>3, InsertInv
<1>4. CASE \E t \in Threads, l \in Locks : LookupAndPin(t, l)
  BY <1>4, LookupAndPinInv
<1>5. CASE \E l \in Locks : Unpin(l)
  BY <1>5, UnpinInv
<1>6. CASE \E from, to \in Locks : MoveLock(from, to)
  BY <1>6, MoveLockInv
<1>7. CASE \E c \in Capacities : SetCapacity(c)
  BY <1>7, SetCapacityInv
<1>8. CASE Clear
  BY <1>8, ClearInv
<1> QED
  BY <1>1, <1>2, <1>3, <1>4, <1>5, <1>6, <1>7, <1>8 DEF LruNext

\* Inv holds in every reachable state of a cache that is resized only when
\* empty.
THEOREM Invariance ==
    ASSUME ResizeWhileFilled = FALSE
    PROVE  LruSpec => []Inv
<1>1. LruInit => Inv
  BY InitInv
<1>2. Inv /\ [LruNext]_lruVars => Inv'
  BY NextInv
<1> QED
  BY <1>1, <1>2, PTL DEF LruSpec

\* Type correctness: in particular no counter and no pin count ever drops below
\* zero.
THEOREM TypeCorrect ==
    ASSUME ResizeWhileFilled = FALSE
    PROVE  LruSpec => []LruTypeOK
<1>1. Inv => LruTypeOK
  BY DEF Inv
<1> QED
  BY <1>1, Invariance, PTL

\* What a lock holds is never freed nor given to another key, for any number
\* of threads and locks (LookupAndPin, Unpin, EvictItem).
THEOREM PinSafety ==
    ASSUME ResizeWhileFilled = FALSE
    PROVE  LruSpec => [](HeldValuesLive /\ PinsCountLocks)
<1>1. Inv => HeldValuesLive /\ PinsCountLocks
  BY DEF Inv
<1> QED
  BY <1>1, Invariance, PTL

\* The queue and the hash table agree, no assert(false) is reached, no walk is
\* endless, and the cache fits its capacity (Insert, EvictItem, Unpin).
THEOREM Consistency ==
    ASSUME ResizeWhileFilled = FALSE
    PROVE  LruSpec => [](EntriesReachable /\ NeverBreaks /\ SizeWithinCapacity)
<1>1. Inv => EntriesReachable /\ NeverBreaks /\ SizeWithinCapacity
  BY DEF Inv, Undamaged, NeverBreaks
<1> QED
  BY <1>1, Invariance, PTL

\* An injective queue has as many items as places.
LEMMA InjectiveCardinality ==
    ASSUME NEW S, IsFiniteSet(S), NEW q \in Seq(S), Injective(q)
    PROVE  Cardinality(Range(q)) = Len(q)
<1>1. q \in Bijection(1 .. Len(q), Range(q))
  BY DEF Bijection, Injection, Surjection, IsInjective, Injective, Range
<1>2. ExistsBijection(1 .. Len(q), Range(q))
  BY <1>1 DEF ExistsBijection
<1>3. Len(q) \in Nat
  OBVIOUS
<1>4. IsFiniteSet(1 .. Len(q)) /\ Cardinality(1 .. Len(q)) = Len(q)
  BY <1>3, FS_Interval
<1> QED
  BY <1>2, <1>4, FS_Bijection

\* The asserts of ~LruCache: with every lock gone, the queue holds all that is
\* allocated.
THEOREM DestructorSafe ==
    ASSUME ResizeWhileFilled = FALSE
    PROVE  LruSpec => []DestructorFindsAll
<1>1. Inv => DestructorFindsAll
  <2> SUFFICES ASSUME Inv, \A l \in Locks : lock[l] = Unheld
               PROVE  allocated_ = size_
    BY DEF DestructorFindsAll, Inv
  <2>1. evicted = {}
    BY DEF Inv, PinsCountLocks, Holders
  <2>2. allocated_ = Cardinality(Range(lru))
    BY <2>1 DEF Inv, Accounting, EntriesReachable
  <2>3. Cardinality(Range(lru)) = Len(lru)
    BY InjectiveCardinality, CacheAssumption DEF Inv, LruTypeOK
  <2> QED BY <2>2, <2>3 DEF Inv
<1> QED
  BY <1>1, Invariance, PTL

\* The books of the cache balance, for any number of threads, locks and keys:
\* Insert, LookupAndPin, Unpin, Clear and SetCapacity of an empty cache.
THEOREM BooksBalance ==
    ASSUME ResizeWhileFilled = FALSE
    PROVE  LruSpec => []CountsExact
<1>1. PinsCountLocks /\ DestructorFindsAll /\ SizeWithinCapacity /\ NeverBreaks => CountsExact
  BY DEF CountsExact
<1> QED
  BY <1>1, PinSafety, DestructorSafe, Consistency, PTL

====
