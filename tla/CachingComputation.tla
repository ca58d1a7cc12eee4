------------------------- MODULE CachingComputation -------------------------
(* CachingComputation (neural/cache.cc) as the search workers use it
   (mcts/search.cc): a batch mixes entries that were found in the cache, which a
   lock keeps alive, with entries that go to the network, and the results are read
   by position.  The cache is what LruCache shows it to be: an entry stays or is
   evicted at any time, a locked value lives on, and each call is atomic.  A value
   is the key (position) it was computed for. *)
EXTENDS SequencesExt

CONSTANTS
    CCWorkers,      \* search workers
    CCKeys,         \* hashes of positions
    CCMiniBatch,    \* GetMiniBatchSize
    CCPrefetch,     \* GetMaxPrefetchBatch
    CCNone          \* no value

ASSUME CCAssumption ==
    /\ CCMiniBatch \in Nat /\ CCPrefetch \in Nat
    /\ CCNone \notin CCKeys

VARIABLES
    ccCache,    \* the value cached for each key
    ccPc,       \* what each worker is doing
    ccMini,     \* minibatch_ of each worker (without collisions)
    ccBatch,    \* batch_ of its computation
    ccParent,   \* inputs of the network's computation (parent_)
    ccKey,      \* key the worker is adding, CCNone
    ccCount,    \* budget left (prefetch), entries passed by the loop (fill)
    OutOfOrderEval  \* option of the same name

ccVars == <<ccCache, ccPc, ccMini, ccBatch, ccParent, ccKey, ccCount, OutOfOrderEval>>

CCInit ==
    /\ ccCache = [k \in CCKeys |-> CCNone]
    /\ ccPc = [w \in CCWorkers |-> "gather"]
    /\ ccMini = [w \in CCWorkers |-> <<>>]
    /\ ccBatch = [w \in CCWorkers |-> <<>>]
    /\ ccParent = [w \in CCWorkers |-> <<>>]
    /\ ccKey = [w \in CCWorkers |-> CCNone]
    /\ ccCount = [w \in CCWorkers |-> 0]
    /\ OutOfOrderEval \in BOOLEAN

Goes(w, to) == ccPc' = [ccPc EXCEPT ![w] = to]

\* A WorkItem found in the cache, and one that waits for the network.
CachedItem(k) == [hash |-> k, lock |-> ccCache[k], idx_in_parent |-> -1]
NetworkItem(w, k) ==
    [hash |-> k, lock |-> CCNone, idx_in_parent |-> Len(ccParent[w])]

\* GetQVal, GetDVal, GetMVal, GetPVal of entry i (from 1) of the batch.
CCGetVal(w, i) ==
    LET item == ccBatch[w][i]
    IN IF item.idx_in_parent >= 0 THEN ccParent[w][item.idx_in_parent + 1] ELSE item.lock

-----------------------------------------------------------------------------
(* Gathering the minibatch *)

\* The loop of GatherMinibatch goes on; it may also end at any time after a pick
\* (stop_, collisions, the limit of out of order evaluations).
CCGathers(w) ==
    /\ ccPc[w] = "gather"
    /\ Len(ccMini[w]) < CCMiniBatch
    /\ ~(Len(ccMini[w]) > 0 /\ Len(ccParent[w]) = 0)

Picked(k, nn_queried, is_cache_hit) ==
    [key |-> k, nn_queried |-> nn_queried, is_cache_hit |-> is_cache_hit]

\* CanEvalOutOfOrder for a node that asked for an evaluation.
AfterAdding(is_cache_hit) ==
    IF OutOfOrderEval /\ is_cache_hit THEN "out of order" ELSE "gather"

\* A mutant of PopCacheHit: the entry stays in the batch.
PopNothing(batch) == batch

PopCacheHit(batch) == Front(batch)

\* A terminal node is picked: no network; out of order it is backed up at once.
CCPickTerminal(w, k) ==
    /\ CCGathers(w)
    /\ ccMini' = IF OutOfOrderEval THEN ccMini
                 ELSE [ccMini EXCEPT ![w] = Append(@, Picked(k, FALSE, FALSE))]
    /\ UNCHANGED <<ccCache, ccPc, ccBatch, ccParent, ccKey, ccCount>>

\* AddNodeToComputation finds the position in the cache (AddInputByHash).
CCPickCached(w, k) ==
    /\ CCGathers(w)
    /\ ccCache[k] # CCNone
    /\ ccMini' = [ccMini EXCEPT ![w] = Append(@, Picked(k, TRUE, TRUE))]
    /\ ccBatch' = [ccBatch EXCEPT ![w] = Append(@, CachedItem(k))]
    /\ Goes(w, AfterAdding(TRUE))
    /\ UNCHANGED <<ccCache, ccParent, ccKey, ccCount>>

\* The entry is read, backed up and removed from both batches (PopCacheHit).
CCOutOfOrder(w) ==
    /\ ccPc[w] = "out of order"
    /\ ccMini' = [ccMini EXCEPT ![w] = Front(@)]
    /\ ccBatch' = [ccBatch EXCEPT ![w] = PopCacheHit(@)]
    /\ Goes(w, "gather")
    /\ UNCHANGED <<ccCache, ccParent, ccKey, ccCount>>

\* It does not find it and encodes the position, without any lock.
CCPickMissing(w, k) ==
    /\ CCGathers(w)
    /\ ccCache[k] = CCNone
    /\ ccMini' = [ccMini EXCEPT ![w] = Append(@, Picked(k, TRUE, FALSE))]
    /\ ccKey' = [ccKey EXCEPT ![w] = k]
    /\ Goes(w, "add")
    /\ UNCHANGED <<ccCache, ccBatch, ccParent, ccCount>>

\* AddInput looks the position up again; another worker may have inserted it.
AddInput(w, k) ==
    IF ccCache[k] # CCNone
    THEN /\ ccBatch' = [ccBatch EXCEPT ![w] = Append(@, CachedItem(k))]
         /\ UNCHANGED ccParent
    ELSE /\ ccBatch' = [ccBatch EXCEPT ![w] = Append(@, NetworkItem(w, k))]
         /\ ccParent' = [ccParent EXCEPT ![w] = Append(@, k)]

CCAddPicked(w) ==
    /\ ccPc[w] = "add"
    /\ AddInput(w, ccKey[w])
    /\ ccKey' = [ccKey EXCEPT ![w] = CCNone]
    /\ Goes(w, AfterAdding(FALSE))
    /\ UNCHANGED <<ccCache, ccMini, ccCount>>

\* MaybePrefetchIntoCache: leaves that may be visited when there are inputs for
\* the network and room for more.
PrefetchBudget(w) ==
    IF Len(ccParent[w]) > 0 /\ Len(ccParent[w]) < CCPrefetch
    THEN CCPrefetch - Len(ccParent[w]) ELSE 0

CCEndGather(w) ==
    /\ ccPc[w] = "gather"
    /\ Goes(w, "prefetch")
    /\ ccCount' = [ccCount EXCEPT ![w] = PrefetchBudget(w)]
    /\ UNCHANGED <<ccCache, ccMini, ccBatch, ccParent, ccKey>>

-----------------------------------------------------------------------------
(* Prefetching, computing, fetching *)

\* PrefetchIntoCache reaches a leaf, which takes one of the budget also when it
\* is in the cache already (ContainsKey).
CCPrefetchLeaf(w, k) ==
    /\ ccPc[w] = "prefetch"
    /\ ccCount[w] > 0
    /\ ccCount' = [ccCount EXCEPT ![w] = @ - 1]
    /\ \/ /\ ccCache[k] # CCNone
          /\ UNCHANGED <<ccPc, ccKey>>
       \/ /\ ccCache[k] = CCNone
          /\ ccKey' = [ccKey EXCEPT ![w] = k]
          /\ Goes(w, "add prefetch")
    /\ UNCHANGED <<ccCache, ccMini, ccBatch, ccParent>>

CCAddPrefetch(w) ==
    /\ ccPc[w] = "add prefetch"
    /\ AddInput(w, ccKey[w])
    /\ ccKey' = [ccKey EXCEPT ![w] = CCNone]
    /\ Goes(w, "prefetch")
    /\ UNCHANGED <<ccCache, ccMini, ccCount>>

\* ComputeBlocking: nothing to do without inputs for the network.
CCCompute(w) ==
    /\ ccPc[w] = "prefetch"
    /\ Goes(w, IF Len(ccParent[w]) = 0 THEN "fetch" ELSE "fill")
    /\ ccCount' = [ccCount EXCEPT ![w] = 0]
    /\ UNCHANGED <<ccCache, ccMini, ccBatch, ccParent, ccKey>>

\* The network's result for an item of the batch.
ResultFor(w, item) == ccParent[w][item.idx_in_parent + 1]

\* One round of the loop that fills the cache with the network's results.
CCFill(w) ==
    /\ ccPc[w] = "fill"
    /\ LET i == ccCount[w] + 1
           item == ccBatch[w][i]
       IN /\ ccCache' = IF item.idx_in_parent = -1 THEN ccCache
                        ELSE [ccCache EXCEPT ![item.hash] = ResultFor(w, item)]
          /\ ccCount' = [ccCount EXCEPT ![w] = i]
          /\ Goes(w, IF i = Len(ccBatch[w]) THEN "fetch" ELSE "fill")
    /\ UNCHANGED <<ccMini, ccBatch, ccParent, ccKey>>

\* FetchMinibatchResults has read its results and the next iteration begins
\* with new batches (InitializeIteration).
CCFetch(w) ==
    /\ ccPc[w] = "fetch"
    /\ ccMini' = [ccMini EXCEPT ![w] = <<>>]
    /\ ccBatch' = [ccBatch EXCEPT ![w] = <<>>]
    /\ ccParent' = [ccParent EXCEPT ![w] = <<>>]
    /\ ccCount' = [ccCount EXCEPT ![w] = 0]
    /\ Goes(w, "gather")
    /\ UNCHANGED <<ccCache, ccKey>>

\* An insertion elsewhere, a new game or a new size evicts an entry.
CCEvict(k) ==
    /\ ccCache[k] # CCNone
    /\ ccCache' = [ccCache EXCEPT ![k] = CCNone]
    /\ UNCHANGED <<ccPc, ccMini, ccBatch, ccParent, ccKey, ccCount>>

\* A worker that is not among CCWorkers fills its results in.
CCInsertElsewhere(k) ==
    /\ ccCache[k] = CCNone
    /\ ccCache' = [ccCache EXCEPT ![k] = k]
    /\ UNCHANGED <<ccPc, ccMini, ccBatch, ccParent, ccKey, ccCount>>

CCWorkerStep(w) ==
    \/ \E k \in CCKeys : CCPickTerminal(w, k) \/ CCPickCached(w, k) \/ CCPickMissing(w, k)
                            \/ CCPrefetchLeaf(w, k)
    \/ CCOutOfOrder(w) \/ CCAddPicked(w) \/ CCEndGather(w) \/ CCAddPrefetch(w)
    \/ CCCompute(w) \/ CCFill(w) \/ CCFetch(w)

CCNext ==
    /\ \/ \E w \in CCWorkers : CCWorkerStep(w)
       \/ \E k \in CCKeys : CCEvict(k) \/ CCInsertElsewhere(k)
    /\ UNCHANGED OutOfOrderEval

CCSpec == CCInit /\ [][CCNext]_ccVars

-----------------------------------------------------------------------------
(* Correctness *)

\* The entry of the batch that FetchMinibatchResults reads for entry i of the
\* minibatch: it counts the entries before it that asked for an evaluation.
CCIndex(w, i) ==
    Cardinality({j \in 1..i - 1 : ccMini[w][j].nn_queried}) + 1

\* Every node gets the evaluation of its own position, whatever mix of hits, late
\* hits, misses, terminal nodes and prefetched leaves the batches hold, and whoever
\* inserts or evicts meanwhile; the same for the entry read out of order, which is
\* the one just added, found in the cache and not part of the network's batch (the
\* asserts of PopCacheHit).  What the cache holds was computed for its position.
CCEvaluationsExact ==
    \A w \in CCWorkers :
        /\ ccPc[w] = "fetch" =>
              \A i \in DOMAIN ccMini[w] :
                  ccMini[w][i].nn_queried => CCGetVal(w, CCIndex(w, i)) = ccMini[w][i].key
        /\ ccPc[w] = "out of order" =>
              /\ CCGetVal(w, Len(ccBatch[w])) = Last(ccMini[w]).key
              /\ Last(ccBatch[w]).idx_in_parent = -1
              /\ Last(ccBatch[w]).lock # CCNone
              /\ Last(ccBatch[w]).hash = Last(ccMini[w]).key
        /\ \A k \in CCKeys : ccCache[k] \in {k, CCNone}
=============================================================================
