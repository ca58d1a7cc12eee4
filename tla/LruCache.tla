------------------------------ MODULE LruCache ------------------------------
(***************************************************************************)
(* The hash table with a FIFO queue and pinned values of utils/cache.h,    *)
(* which holds the network's evaluations, under concurrent callers.        *)
(*                                                                         *)
(* The critical sections under mutex_ are atomic; the test of capacity_    *)
(* that Insert and LookupAndPin make before they lock is a step of its     *)
(* own.  The queue is a sequence, newest first.  Insert pushes the new     *)
(* item at the head of the queue and of its hash chain, so a chain lists   *)
(* its items in the order of the queue and only their set is kept.         *)
(***************************************************************************)
EXTENDS Integers, Sequences, FiniteSets, Functions

CONSTANTS
    Threads,          \* callers of the cache
    Locks,            \* LruCacheLock objects
    Keys,             \* hashes of positions
    Hash,             \* std::hash of a key
    Items,            \* addresses an Item can have; a freed one is used again
    Capacities,       \* values SetCapacity is called with
    InitCapacity,     \* capacity the cache is built with
    ResizeWhileFilled,\* is SetCapacity also called on a cache with entries?
    None              \* nullptr

ASSUME CacheAssumption ==
    /\ Hash \in [Keys -> Nat]
    /\ Capacities \subseteq Nat
    /\ InitCapacity \in Nat
    /\ ResizeWhileFilled \in BOOLEAN
    /\ IsFiniteSet(Locks)
    /\ IsFiniteSet(Items)

ASSUME NoneAssumption == None \notin Items /\ None \notin Keys

VARIABLES
    capacity_,  \* read without the mutex
    size_,
    allocated_,
    lru,        \* lru_head_ .. lru_tail_, newest first
    hashed,     \* items reachable from hash_
    looped,     \* items whose next_in_hash is the item itself
    evicted,    \* evicted_head_: evicted but pinned
    leaked,     \* items no list reaches and nothing frees
    key,        \* Item::key
    pins,       \* Item::pins
    lock,       \* the LruCacheLocks: the key and the item each holds
    lruPc, arg, \* what each thread is inside of, and its key
    health,     \* "ok", "hung" in an endless walk under mutex_, or "corrupt"
    failed      \* an assert(false) was reached (release builds go on)

lruVars == <<capacity_, size_, allocated_, lru, hashed, looped, evicted, leaked,
             key, pins, lock, lruPc, arg, health, failed>>

Unheld == [key |-> None, item |-> None]

LruLive == Range(lru) \cup evicted \cup leaked

-----------------------------------------------------------------------------
(* The hash table. *)

\* hash_.size() for a capacity: capacity * kLoadFactor + 1, truncated.
Buckets(c) == (c * 133) \div 100 + 1

Bucket(k, c) == Hash[k] % Buckets(c)

Chain(k) == {i \in hashed : Bucket(key[i], capacity_) = Bucket(k, capacity_)}

Find(k) == {i \in Chain(k) : key[i] = k}

\* A walk of k's chain that finds nothing never ends.
Endless(k) == Chain(k) \cap looped # {}

-----------------------------------------------------------------------------
(* Eviction.  V is the set of items that leave the queue. *)

\* ShrinkToCapacity on queue q of which size_ says n: what stays.
Shrunk(q, n, c) ==
    LET c0   == IF c < 0 THEN 0 ELSE c
        gone == IF n <= c0 THEN 0 ELSE n - c0
    IN  IF gone >= Len(q) THEN << >> ELSE SubSeq(q, 1, Len(q) - gone)

\* The queue without the items of S, of which it holds at most one.
Unlinked(q, S) ==
    IF Range(q) \cap S = {} THEN q
    ELSE LET p == CHOOSE p \in DOMAIN q : q[p] \in S
         IN  [n \in 1 .. Len(q) - 1 |-> IF n < p THEN q[n] ELSE q[n + 1]]

\* What becomes of the cache when it walks the chain of each key of W without
\* a match and evicts V.  EvictItem of an item that its chain does not hold
\* walks the chain too, up to assert(false); EvictItem of a looped item leaves
\* the bucket pointing at the item it frees.
Damage(W, V) ==
    IF \E k \in W \cup {key[i] : i \in V \ hashed} : Endless(k) THEN "hung"
    ELSE IF V \cap looped # {} THEN "corrupt"
    ELSE "ok"

\* The cache stays as it is, in the health given.  Nothing is modelled of what
\* follows a hang or a dangling pointer.
Unmodified(how) ==
    /\ health' = how
    /\ UNCHANGED <<capacity_, size_, allocated_, lru, hashed, looped, evicted,
                   leaked, key, pins, lock, failed>>

\* Mutant: eviction frees pinned items too.
FreedPinned(V) == V \cap hashed

\* The items of V that EvictItem deletes.
Freed(V) == {i \in V \cap hashed : pins[i] = 0}

\* EvictItem of every item of V; new is what the caller adds.
EvictItems(V, new) ==
    /\ evicted' = evicted \cup ((V \cap hashed) \ Freed(V))
    /\ leaked' = leaked \cup (V \ hashed)
    /\ failed' = (failed \/ V \ hashed # {})
    /\ allocated_' = allocated_ - Cardinality(Freed(V)) + Cardinality(new)

-----------------------------------------------------------------------------
LruInit ==
    /\ capacity_ = InitCapacity
    /\ size_ = 0
    /\ allocated_ = 0
    /\ lru = << >>
    /\ hashed = {} /\ looped = {} /\ evicted = {} /\ leaked = {}
    /\ key = [i \in Items |-> None]
    /\ pins = [i \in Items |-> 0]
    /\ lock = [l \in Locks |-> Unheld]
    /\ lruPc = [t \in Threads |-> "idle"]
    /\ arg = [t \in Threads |-> None]
    /\ health = "ok"
    /\ failed = FALSE

\* Insert and LookupAndPin up to the mutex: both return on capacity 0.
Enter(t, op, k) ==
    /\ health = "ok"
    /\ lruPc[t] = "idle"
    /\ capacity_ # 0
    /\ lruPc' = [lruPc EXCEPT ![t] = op]
    /\ arg' = [arg EXCEPT ![t] = k]
    /\ UNCHANGED <<capacity_, size_, allocated_, lru, hashed, looped, evicted,
                   leaked, key, pins, lock, health, failed>>

Leave(t) ==
    /\ lruPc' = [lruPc EXCEPT ![t] = "idle"]
    /\ arg' = [arg EXCEPT ![t] = None]

\* Mutant: the entry k had stays.
InsertKeepsDuplicate(k) == Shrunk(lru, size_, capacity_ - 1)

\* The queue that Insert of k pushes its item on: without the entry k had, and
\* with room for one more.
InsertKeeps(k) ==
    Shrunk(Unlinked(lru, Find(k)), size_ - Cardinality(Find(k)), capacity_ - 1)

\* Insert under the mutex; its Item is allocated, after the evictions, at
\* address n.
Insert(t, n) ==
    LET k == arg[t]
        q == InsertKeeps(k)
        V == Range(lru) \ Range(q)
        d == Damage(IF Find(k) = {} THEN {k} ELSE {}, V)
    IN  /\ health = "ok"
        /\ lruPc[t] = "insert"
        /\ Leave(t)
        /\ \/ /\ d # "ok"
              /\ Unmodified(d)
           \/ /\ d = "ok"
              /\ n \notin LruLive \ Freed(V)
              /\ EvictItems(V, {n})
              /\ hashed' = (hashed \ V) \cup {n}
              /\ size_' = size_ - (Len(lru) - Len(q)) + 1
              /\ lru' = <<n>> \o q
              /\ key' = [key EXCEPT ![n] = k]
              /\ pins' = [pins EXCEPT ![n] = 0]
              /\ UNCHANGED <<capacity_, looped, lock, health>>

\* ++iter->pins
Pinned(i) == [pins EXCEPT ![i] = @ + 1]

\* LookupAndPin under the mutex, for the LruCacheLock l being built.  The call
\* of BringToFront is commented out: the queue stays as it is.
LookupAndPin(t, l) ==
    LET k == arg[t]
    IN  /\ health = "ok"
        /\ lruPc[t] = "lookup"
        /\ lock[l] = Unheld
        /\ Leave(t)
        /\ \/ /\ Find(k) = {}
              /\ Unmodified(Damage({k}, {}))
           \/ \E i \in Find(k) :
                /\ pins' = Pinned(i)
                /\ lock' = [lock EXCEPT ![l] = [key |-> k, item |-> i]]
                /\ UNCHANGED <<capacity_, size_, allocated_, lru, hashed,
                               looped, evicted, leaked, key, health, failed>>

\* Mutant: an evicted item stays listed after its last Unpin.
StillEvicted(i) == evicted

\* Unpin of an item of the evicted list.
EvictedAfterUnpin(i) == IF pins[i] = 1 THEN evicted \ {i} ELSE evicted

\* The search of the evicted list.
InEvicted(i, k) == i \in evicted /\ key[i] = k

\* ~LruCacheLock, with Unpin: the evicted list first, then the hash table, and
\* assert(false) when neither has the item.
Unpin(l) ==
    LET k == lock[l].key
        i == lock[l].item
    IN  /\ health = "ok"
        /\ lock[l] # Unheld
        /\ UNCHANGED <<capacity_, size_, lru, hashed, looped, leaked, key, lruPc, arg>>
        /\ lock' = [lock EXCEPT ![l] = Unheld]
        /\ \/ /\ i \in evicted /\ key[i] = k
              /\ pins' = [pins EXCEPT ![i] = @ - 1]
              /\ evicted' = EvictedAfterUnpin(i)
              /\ allocated_' = IF pins[i] = 1 THEN allocated_ - 1 ELSE allocated_
              /\ UNCHANGED <<health, failed>>
           \/ /\ ~InEvicted(i, k)
              /\ i \in Find(k)
              /\ pins' = [pins EXCEPT ![i] = @ - 1]
              /\ failed' = (failed \/ pins[i] <= 0)
              /\ UNCHANGED <<evicted, allocated_, health>>
           \/ /\ ~InEvicted(i, k)
              /\ i \notin Find(k)
              /\ health' = Damage({k}, {})
              /\ failed' = (failed \/ ~Endless(k))
              /\ UNCHANGED <<pins, evicted, allocated_>>

\* LruCacheLock's move assignment and move constructor.  The target's own item
\* is not unpinned; callers move into a lock that holds nothing.
MoveLock(from, to) ==
    /\ health = "ok"
    /\ lock[from] # Unheld
    /\ lock[to] = Unheld
    /\ lock' = [lock EXCEPT ![to] = lock[from], ![from] = Unheld]
    /\ UNCHANGED <<capacity_, size_, allocated_, lru, hashed, looped, evicted,
                   leaked, key, pins, lruPc, arg, health, failed>>

-----------------------------------------------------------------------------
(* SetCapacity.  For every old chain the rehash loop                       *)
(*     for (Item* iter = head; head; head = head->next_in_hash)            *)
(* relinks only iter, the chain's first item; the rest drops out of the    *)
(* table.  When its new bucket is already in use, head walks on through    *)
(* that bucket and iter is relinked to itself; a third item for the bucket *)
(* makes head walk in a circle.                                            *)

Position(i) == CHOOSE p \in DOMAIN lru : lru[p] = i

\* The first item of each old chain, among the items S that are still hashed.
Heads(S) ==
    {i \in S : \A j \in S : Bucket(key[j], capacity_) = Bucket(key[i], capacity_)
                               => Position(i) <= Position(j)}

SameNewBucket(S, i, c) ==
    {j \in Heads(S) : Bucket(key[j], c) = Bucket(key[i], c)}

\* hash_ is walked by rising bucket: the last head of a new bucket stays.
Rehashed(S, c) ==
    {i \in Heads(S) : \A j \in SameNewBucket(S, i, c) :
                         Bucket(key[j], capacity_) <= Bucket(key[i], capacity_)}

SetCapacity(c) ==
    LET q == Shrunk(lru, size_, c)
        V == Range(lru) \ Range(q)
        S == hashed \ V
        d == IF Damage({}, V) # "ok" THEN Damage({}, V)
             ELSE IF \E i \in Heads(S) : Cardinality(SameNewBucket(S, i, c)) > 2
             THEN "hung" ELSE "ok"
    IN  /\ health = "ok"
        /\ c # capacity_
        /\ ResizeWhileFilled \/ size_ = 0
        /\ UNCHANGED <<lruPc, arg>>
        /\ \/ /\ d # "ok"
              /\ Unmodified(d)
           \/ /\ d = "ok"
              /\ EvictItems(V, {})
              /\ hashed' = Rehashed(S, c)
              /\ looped' = {i \in Rehashed(S, c) : SameNewBucket(S, i, c) # {i}}
              /\ size_' = size_ - (Len(lru) - Len(q))
              /\ lru' = q
              /\ capacity_' = c
              /\ UNCHANGED <<key, pins, lock, health>>

\* Clear; the destructor starts with the same ShrinkToCapacity(0).
Clear ==
    LET q == Shrunk(lru, size_, 0)
        V == Range(lru) \ Range(q)
        d == Damage({}, V)
    IN  /\ health = "ok"
        /\ UNCHANGED <<lruPc, arg>>
        /\ \/ /\ d # "ok"
              /\ Unmodified(d)
           \/ /\ d = "ok"
              /\ EvictItems(V, {})
              /\ hashed' = hashed \ V
              /\ size_' = size_ - (Len(lru) - Len(q))
              /\ lru' = q
              /\ UNCHANGED <<capacity_, looped, key, pins, lock, health>>

LruNext ==
    \/ \E t \in Threads, k \in Keys, op \in {"insert", "lookup"} : Enter(t, op, k)
    \/ \E t \in Threads, n \in Items : Insert(t, n)
    \/ \E t \in Threads, l \in Locks : LookupAndPin(t, l)
    \/ \E l \in Locks : Unpin(l)
    \/ \E from, to \in Locks : MoveLock(from, to)
    \/ \E c \in Capacities : SetCapacity(c)
    \/ Clear

LruSpec == LruInit /\ [][LruNext]_lruVars

-----------------------------------------------------------------------------
(* Properties *)

\* Every variable keeps its type; the counters never go below zero and an
\* Item's pin count neither.
LruTypeOK ==
    /\ capacity_ \in Nat
    /\ size_ \in Nat
    /\ allocated_ \in Nat
    /\ lru \in Seq(Items)
    /\ hashed \subseteq Items /\ looped \subseteq Items
    /\ evicted \subseteq Items /\ leaked \subseteq Items
    /\ key \in [Items -> Keys \cup {None}]
    /\ pins \in [Items -> Nat]
    /\ lock \in [Locks -> [key : Keys, item : Items] \cup {Unheld}]
    /\ lruPc \in [Threads -> {"idle", "insert", "lookup"}]
    /\ arg \in [Threads -> Keys \cup {None}]
    /\ health \in {"ok", "hung", "corrupt"}
    /\ failed \in BOOLEAN

\* An item that an LruCacheLock holds is still allocated, and is still the
\* entry of the key it was looked up by, whatever was inserted, evicted,
\* cleared or resized meanwhile ("using values stored requires pinning them").
HeldValuesLive ==
    \A l \in Locks : lock[l] # Unheld =>
        /\ lock[l].item \in LruLive
        /\ key[lock[l].item] = lock[l].key

Holders(i) == {l \in Locks : lock[l] # Unheld /\ lock[l].item = i}

\* The pins of an allocated item count the locks that hold it, and an item
\* waits in the evicted list only while some lock holds it: the last Unpin
\* frees it.
PinsCountLocks ==
    /\ \A i \in LruLive : pins[i] = Cardinality(Holders(i))
    /\ \A i \in evicted : Holders(i) # {}

\* Once every lock is gone, what is allocated is what the queue holds, which is
\* what the asserts of ~LruCache say of its ShrinkToCapacity(0).
DestructorFindsAll ==
    /\ size_ = Len(lru)
    /\ (\A l \in Locks : lock[l] = Unheld) => allocated_ = size_

\* The cache never outgrows its capacity.  An Insert that passed the unlocked
\* test of capacity_ before a SetCapacity(0) still leaves one entry.
SizeWithinCapacity ==
    size_ <= IF capacity_ = 0 THEN 1 ELSE capacity_

\* The table and the queue hold the same items, one per key ("In any case the
\* hashtable is rehashed", SetCapacity): no entry is there to be evicted and not
\* to be found.
EntriesReachable ==
    /\ hashed = Range(lru)
    /\ \A i, j \in hashed : key[i] = key[j] => i = j

\* No caller reaches assert(false) in Unpin or EvictItem, and none walks a
\* chain for ever under mutex_.
NeverBreaks == health = "ok" /\ ~failed

\* The books balance at every unlock of mutex_: pins count the locks, what is
\* allocated is what the lists hold, the size fits the capacity, and so no
\* assert of Unpin, EvictItem or the destructor can fail and no walk is endless.
CountsExact ==
    PinsCountLocks /\ DestructorFindsAll /\ SizeWithinCapacity /\ NeverBreaks

\* What the comment of LookupAndPin says: an entry that is found is brought to the
\* head of the queue, which makes it the last to be evicted.
LookupBringsToFront ==
    [][\A t \in Threads, l \in Locks :
         (lruPc[t] = "lookup" /\ lock[l] = Unheld /\ lock'[l] # Unheld)
             => Head(lru') = lock'[l].item]_lruVars

====
