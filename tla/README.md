# TLA+ models of the Fat Fritz 1.1 engine

The engine is a fork of Leela Chess Zero: a Monte Carlo tree search, run by
several threads that share one tree, that asks a neural network for the value
of positions and speaks UCI.  Most of what can go wrong in it is between
threads: workers pick nodes, wait for the network, come back and write what they
learned into a tree that others have changed meanwhile, while a UCI thread stops,
aborts or replaces the search; batches of several threads are merged, cut and
handed back; tables are loaded by whoever needs them first.  The rest is
arithmetic on boards, table indices and tensors that is hard to test at its
corners.  This directory models both in TLA+, checks them with TLC on small
instances and proves the main results with TLAPS for every value of the
constants.

Paths are relative to `src/src/`.

## Inventory

| Component | State | Operations | Interacts with | What makes it correct | Module |
|---|---|---|---|---|---|
| Evaluation cache (`utils/cache.h`) | hash table, FIFO queue, evicted list, pin counts, capacity | Insert, LookupAndPin, Unpin, SetCapacity, Clear, moves of LruCacheLock | workers (through `neural/cache.cc`), the engine (size option, new game) | a pinned value is not freed; table, queue and counters agree | LruCache |
| Search control (`mcts/search.cc`) | `stop_`, `ok_to_respond_bestmove_`, `bestmove_is_sent_`, playout counters, `pending_searchers_` | worker iteration, watchdog, MaybeTriggerStop, MaybeOutputInfo, Stop, Abort, Wait, destructor | UCI thread, stoppers, tree | one bestmove at most, only when there is a move, only when allowed; Stop is answered; threads end | SearchControl |
| Search tree (`mcts/search.cc`, `mcts/node.cc`) | visits, virtual visits, edges, terminal flags, solid children, shared collisions | PickNodeToExtend, ExtendNode, collisions, backup, MakeSolid, cancellation | search control, cache, garbage collector | virtual visits are conserved; pointers kept across locks are live | SearchTree |
| Proven results (`MaybeSetBounds`) | bounds and terminal type per node | MakeTerminal, SetBounds, MakeNotTerminal | tree, game tree | bounds contain the result of perfect play | Bounds |
| Game tree (`NodeTree`, `NodeGarbageCollector`) | first node, head, history, queue of subtrees to free | ResetToPosition, MakeMove, Trim, GC thread | engine, self-play, search | reuse only what belongs to the position | NodeTree |
| Network access (`neural/cache.cc`) | batch of hits and misses | AddInputByHash, AddInput, PopCacheHit, ComputeBlocking | cache, backends | each entry gets its own evaluation | CachingComputation |
| Mux, demux (`neural/network_mux.cc`, `network_demux.cc`) | queue, `abort_`, countdown | ComputeBlocking, worker loops, destructor | workers, GPU backends | every computation returns, with its own results | NetworkMux, NetworkDemux, NetworkService |
| Engine, UCI loop (`engine.cc`, `chess/uciloop.cc`) | options, network, cache, tree, tablebases, time manager, one Search | uci commands | all of the above | commands in any order leave a search on live objects and on the position asked for | Engine |
| Stoppers, time managers (`mcts/stoppers/`) | limits, hints, budgets, piggybank, speed estimate | ShouldStop, OnSearchDone, GetStopper | search control | pruning keeps the best move; no division by stale or zero values | TimeControl |
| Self-play (`selfplay/`) | games, counters, `abort_`, results | Worker, PlayOneGame, Abort, Stop, Wait | search, tree, cache | a final report counts every game once; Wait returns | SelfPlay |
| Board, positions, encoder (`chess/`, `neural/encoder.cc`) | bitboards, history | move generation, Append, repetition count, encoding | tree, search, backends | the rules of chess; symmetric positions encode alike | ChessBoard, ChessRules, ChessGame |
| Tablebases (`syzygy/`) | hash of tables, `ready` flags, compressed tables | init, probe_wdl, probe_dtz, root_probe | workers, root of the search | a position reads its own value; a table is loaded once, before use | SyzygyTables, SyzygyProbe, SyzygyLoad |
| Network backends (`neural/cuda`, `dx`, `opencl`, `blas`) | layers, tensors, scratch memory, pools of buffers, command lists | constructor, AddInput, ComputeBlocking, getters | mux, cache | the network's function, in the buffers allocated for it | NeuralGraph, CudaBackend, DxBackend, OpenClBackend, BlasBackend, BackendCompute, Kernels |
| Options, factory, checking backends, locks, benchmarks, writer, logging | text, files | | | | not modelled |

Behaviours that are hard to test: the order in which threads take
`nodes_mutex_` and `counters_mutex_`; state read before a lock is dropped and
used afterwards (picked nodes, collisions, iteration statistics, the capacity of
the cache, a tablebase slot); Stop and Abort before the first visit, or next to
the answer; writes without the mutex in ExtendNode; nodes that move (MakeSolid)
or are freed while pointers to them are kept; destructors while threads wait;
commands that throw half way; reuse of buffers by another thread or the next
chunk; limits at zero; the exceptions of legality, repetition and table
indexing.  `PROJECT.json` lists these hazards one by one, with the line and the
properties that watch it.

## Conventions

`X.tla` is a component, `MCX.tla` gives constants for TLC, `*.cfg` are runs and
`XProofs.tla` holds the theorems (of several components in NetworkProofs,
FrontendsProofs, ChessProofs and BackendsProofs). Variables and operators of the
later modules carry a prefix (`mux`, `dmx`, `cc`, `eng`, `sp`, `tm`, `cg`, `nt`,
`tb`, `sz`, `bk`, `kn`), so that modules can be checked side by side.

Components that do not share state in the code are checked in one run with a
variable `system` (or a case) that says which of them a behaviour is about; the
others are pinned to one initial state and take no step.  The state space is the
sum of theirs, not the product.  MCShared (cache, bounds, kernels),
MCTreeAndTables (search tree, tablebases), MCNetwork, MCFrontends, MCChess and
MCBackends are built so.  A pure algorithm is checked the same way: the cases
are chosen in the initial state or in a first step, and an invariant compares
what the code computes with a reference definition.

Deadlock is looked for in `search_control`, `cache_and_bounds` and
`tree_and_tables`; where a behaviour of those may end (the kernels, a table that
has been probed, a process without tables left) an explicit step says so.  In the
other runs all behaviours may end: games are over, callers have made their calls.
Symmetry is used for callers, locks and addresses that no definition tells apart,
and for the workers of the search tree; the one liveness property beside it,
`SzProbeEnds`, and its fairness are about other threads, in whose behaviours no
worker moves.

## Modules and runs

### LruCache

`utils/cache.h` under concurrent callers.  Sections under `mutex_` are one step;
the test of `capacity_` that Insert and LookupAndPin make before they lock is a
step of its own (`Enter`), so that a resize may come between.  The queue is a
sequence; hash chains are derived from the queue order, except after a resize of
a cache with entries, whose rehash loop (which advances `head` where it should
advance `iter`) drops entries or links an item to itself: `hashed`, `looped` and
`leaked` keep track of it.  Addresses of freed items are used again, so that a
stale lock would meet another key.

* `cache_and_bounds`: two threads, two locks, three keys in colliding buckets, four
  addresses, capacities 0 to 2.  `HeldValuesLive`; `CountsExact` (pins count
  locks, what is allocated is what the lists hold, the size fits the capacity,
  no assert or endless walk); `EntriesReachable`.  The cache is
  resized only when empty, as at the start of the engine.  Four addresses are
  two more than the capacity, so that a pinned, an evicted and a re-inserted
  item exist together.
* `lru_cache_rehash` (violation): a resize of a filled cache loses entries,
  against the comment of SetCapacity.
* `lru_cache_front` (violation): the queue is first in, first out.  The comment of
  LookupAndPin says that a lookup brings an entry to the front and makes it the
  last to evict; the call that would do it is commented out, and the run shows a
  lookup that leaves the entry behind a younger one.

### SearchControl

One Search from its constructor to its destructor.  Each worker walks through
the steps of ExecuteOneIteration; critical sections are one step, everything
between two locks may interleave.  The tree is reduced to counters: playouts
done, visits reused, and per worker how many nodes of its minibatch wait for the
network.  `Visit` and `Collide` are the outcomes of PickNodeToExtend this level
tells apart; that a second claim of an unvisited root is refused is kept.  The
UCI thread may call Stop and Abort at any time and then the destructor.
`total_playouts_` saturates at `MaxPlayouts` so that a search without limit has
finitely many states; `NodeLimit` is not above it, so that the limit is reached.

* `search_control`: two workers for one place, minibatches of one, one collision
  and one evaluation out of order, fresh and reused roots, node and time limit.
  `OneAnswer` (at most one bestmove, only with a visit), `OutputAllowed` (none on
  an infinite search without Stop, silence after an Abort that took effect, no
  late info), `HeldIsReturned` (places and claimed nodes come back), and under
  fairness `EveryGoAnswered` and `DestructorReturns`.

### SearchTree

The shared tree during one Search, starting from a bounded family of trees that an
earlier search may have left: those with up to `InitialVisits` visits in which no
node was made terminal by its children. A pointer is a node and whether MakeSolid of
its parent has moved it; a pointer is live when that still is the case. Which child
a descent prefers is a free choice, so every PUCT formula is covered. Bounds:
`InitialVisits` of the reused tree, `MaxPlayouts` when a node is claimed,
`MaxShared` collision visits that are pending per pointer.

* `tree_and_tables`: two workers, minibatches of two, three levels with a tablebase
  win and an old two-fold draw, so that inner nodes move, collisions of two
  visits happen and visits are reverted.  `InFlightConserved` (virtual visits
  are those of claimed nodes and pending collisions, none after the destructor),
  `CountsAddUp`, `ClaimsLive` (what is written through is live, and ancestors of
  a claimed node have visits).
* `search_tree_own_edge` (violation): MakeTerminal follows a parent pointer
  while another worker's MakeSolid moves the parent.

Two workers are enough for every pair of a holder of a pointer and a mover, and
for a collision cancelled by the other; the playouts above a tree of up to
three visits cross `SolidTreeThreshold` (two) at the root and at an inner node.

### Bounds

Sticky endgames over the searches of one game.  Workers extend leaves without
the mutex, and MakeTerminal writes lower bound, upper bound and type in that
order (they share a byte, so a build stores them so or at once); a climb holds
`nodes_mutex_` and moves one parent per step, so a half-written leaf may be read.
`Value` is the result of perfect play, and the assumption on it is the minimax
rule.  A draw by rule may have children, which matter once it is the root.

A climb does not always end at the root.  The loop of a backup runs for the root
too, and the test before MaybeSetBounds is `p != root_node_`: when the leaf is a
root without legal moves, MaybeSetBounds runs on the root's parent
(`EndAboveRoot`).  That node has the edges of an earlier search with every other
child released, or only the edge CreateSingleChildNode made for the played move
(`ParentEdges`).  So it may be made a terminal draw because the one move played
stalemates, whatever it is worth, with no visit at all (where the assert
`*n_to_fix > 0`, search.cc:1776, fails in a debug build), and bounds it had may
widen.  The model takes this step.  The properties are therefore about the nodes of
the current search, the root and below (`Searched`), and they hold because no wrong
bound gets there: a game that goes back to the parent trims it, which resets it, and
one that goes on elsewhere releases it or leaves it above the root.

* `cache_and_bounds`: two workers, eleven nodes with wins, draws, losses, a
  two-fold draw, a draw by rule and roots without moves above which a climb sets
  bounds; every sequence of moves, back and forth.  In the tree of the search the
  bounds are sound (`BoundsSound`), only tighten (`BoundsOnlyTighten`), terminal
  nodes are exact (`TerminalExact`), and no update gets lost (`BoundsComplete`).

### NetworkService, NetworkMux, NetworkDemux, CachingComputation

`NetworkService` is what `neural/network.h` promises a caller: it fills a batch,
calls ComputeBlocking and then reads, for every sample, the evaluation of the
input it added there; only the destructor lets a call return without results.
`NetworkMux` and `NetworkDemux` are the two networks with threads of their own.
A sleep on a condition variable is explicit: a thread that waits runs again only
after a notification or a spurious wake-up, so a lost notification would show as
a call that never returns.  Each implements the service under a refinement
mapping (`MuxPhase`, `MuxAnswer`; `DmxPhase`, `DmxAnswer`) from queues, children
and outputs to the phase and the answer of each caller.  `CachingComputation` is
the batch of a search worker that mixes hits, late hits, misses, popped hits and
prefetched leaves, above a cache that inserts and evicts at any time.

* `network`: two callers, two workers, batches of up to two, a limit of two for
  a merged batch, splits of none or two, a destructor at any time; one search
  worker with two positions, minibatches and prefetch of three.
  `MuxImplementsService`, `DmxImplementsService`, `MuxWaitersHeld` (a waiting
  computation is in exactly one place), `CCEvaluationsExact` (each node reads
  the evaluation of its own position), `NetworkCallsReturn` (liveness).  Two
  callers and two workers are enough for a batch that is full, a worker that
  finds the queue emptied and a destructor between enqueueing and waiting.  The
  other workers of the cache are its free inserts and evictions.

### Engine, SelfPlay, TimeControl

`Engine` has the objects EngineController owns and the commands of the UCI
thread.  A command that throws half way leaves what it did, a FEN that does not
parse included, which leaves a tree that was made and never set to a position;
~Search of the search being replaced is a step of its own, since the old threads run
until then.  A search answers first (`EngSearchAnswers`), and its threads leave
later (`EngThreadsLeave`): what they point to must live until then.
`SelfPlay` has the tournament's workers, the thread that runs it and the thread
of the interactive loop; a worker is between two sections under the mutex when
Abort, Stop or Wait run.  `TimeControl` has the three time managers, the chain
of stoppers they build and the statistics threads hand to it later and in any
order; a reused tree may hold old two-fold draws, whose visits are taken off an edge
of the root and off `initial_visits_` in the middle of a search (`TmRevert`).
Numbers are milliseconds and fixed point, and the results that are not numbers are
one value, `TmNaN`.  The arithmetic of the budgets is followed because
`TmDivisorsSound` and `TmPruneKeepsBest` are about what becomes of it: a speed that
the next move divides by, a number of playouts that the pruning believes in.

* `frontends`: two `go` commands in every sequence with position, ucinewgame,
  setoption (networks, tablebases and time managers that load or fail), a FEN that
  does not parse, ponderhit and stop; two workers and up to two games from a book or
  a discard pile; twenty-five settings of time managers over up to three moves, with
  two threads where the order of reports matters.
  `EngResourcesOutliveSearch`, `EngCommandsHonoured`, `SpResultsComplete`,
  `SpCommandsReturn` (liveness), `TmPruneKeepsBest` (a pruned search keeps its move,
  but for visits that are reverted meanwhile), `TmDivisorsSound` (the KL gain
  compares distributions over the same moves that add up to what they are divided by,
  and is infinite only when a revert took the visits of a move away between two
  reports; the smooth manager's speed stays positive after reports that are older
  than the last one).  One
  position after the initial one tells an extended game from a new one; two
  games make a mirrored pair; two threads give a statistic that is overtaken, the
  smooth manager's older report included.

### ChessBoard, ChessRules, ChessGame, NodeTree

`ChessBoard` is `chess/board.cc` with bitboards as sets of squares: attack
tables, pseudolegal moves, the test of legality by pins and lines of attack,
ApplyMove, castling in both notations.  `ChessRules` is the reference it is
compared with: attacks are followed forward, a move is legal when the king is
not attacked in the placement after it.  `ChessGame` has FEN set-up,
PositionHistory and the encoding of `neural/encoder.cc`.  `NodeTree` is the tree
between searches with the collector's thread; nodes live at addresses that are
used again.

* `chess`: families of positions around pins, double checks, en passant (with
  every line through the two pawns), Chess960 castling, promotion, repetition
  with and without rights and symmetric endings, each continued by all moves of
  some squares; and trees at four addresses under up to three ResetToPosition.
  `CgPlayedByRules`, `CgHistoryExact`, `CgEncodingExact`, `NtTreeSound`.  With
  three addresses MakeSolid would never find room for the copies; the addresses
  are symmetric.  The families are small because legality, repetition and the encoding are local:
  each varies what one exception of the code depends on.

### SyzygyTables, SyzygyProbe, SyzygyLoad

`SyzygyTables` numbers positions and finds values: material keys and names, the
symmetries and orders of `encode`, the blocks of decompress_pairs. `SyzygyProbe` has
the search over captures above the tables, probe_dtz and root_probe, and the
conversion of a stored DTZ: through the map of its result, and doubled where the
table counts moves (`StoredDtz`). A table that counts moves has lost the odd ply, so
a distance may be one ply short, as the comment of probe_dtz says; `SzProbeDtzTrue`
allows for that and no more. `SyzygyLoad` has the threads that load a table on first
use, with the flag they test before and after they take the mutex; it stands alone,
since what it loads is of no concern there.

* `tree_and_tables`: all squares for small materials, samples for larger ones, every
  kind of file; games of four positions whose tables hold the most misleading values
  that the format allows, in plies or moves, with maps or without; two threads with
  intact, corrupt, cut and missing files. `TbTablesExact`, `SzProbesTrue`,
  `SzLoadOnceBeforeUse`, `SzProbeEnds` (liveness). A thread whose slot another has
  deleted may crash the process; SzProbeEnds allows that and a file cut short.

### Backends

`NeuralGraph` is the function of the network as a term over its weights, and the
one kind of command a backend is made of: read a buffer in a layout, combine
it with weights converted to that layout, write another buffer.  A command that
finds anything else than what it was written for leaves junk.  `CudaBackend`,
`DxBackend`, `OpenClBackend` and `BlasBackend` give the layers, buffers and
commands of each; `BackendCompute` runs them for threads that take buffers from
pools, hold locks, queue command lists on a GPU and cut batches into chunks.
`Kernels` has the arithmetic of the backends' own kernels.

* `backends`: every choice of options, devices, heads and towers of up to three
  blocks, with the metacommands of DirectX available one by one; two threads that
  reuse each other's buffers; chunks; the buffer sizes of real networks and of
  networks with fewer filters than input planes.  `BkResultsRight`,
  `BkBuffersInOrder` (no buffer in two hands, no list reopened in flight),
  `BkProgramsSafe` (no missing barrier, and a write goes outside its allocation
  exactly where `BkWideEnough` says), `BkAllFinish` (liveness).  `BkWideEnough`
  is the condition on a network under which the sizes are enough: dx transforms
  112 input planes in a tensor made for the filters (network_dx.cc:636), OpenCL
  rounds its channels to one tile size and fills by another
  (OpenCLBuffers.cc:73), and blas encodes a later chunk into a buffer made for the
  filters.
* `blas_few_filters` (violation): the last of these.  A comment says that the
  buffers are sized for a first convolution that is bigger than the others; with 64
  filters and squeeze-and-excitation blocks the second full chunk does not fit.
* `cache_and_bounds`, its kernels: Winograd transforms on unit boards and filters
  (both sides are linear, so that is enough); both memory orders; squeeze and
  excitation whose first layer has no more outputs than a warp has threads, in every
  order of the warps, of which one computes and all pool and scale (`KnExact`).
* `se_warps` (violation): the same kernel with two warps in the first layer, as
  K = 64 has with warps of 32.  One warp stores its outputs over averages the other
  has not read.  The comment asks for K <= C and nothing else.

## Fairness

Weak fairness only, and none of the UCI thread, of the callers' decisions or of
the environment.  Each thread that can go on does (the operating system schedules
it; a wait on a condition variable has a timeout in the search, and is modelled
with its notifications in the networks), `join` returns once it can, the clock
of a time limit runs, a search of self-play ends, the GPU executes its queue, and
a probe that is between two steps goes on.

## What is proved

For every value of the constants, with TLAPS.  Each inductive invariant was
checked with TLC on the instances of the runs, and on larger ones, before it was
proved.

* `LruCacheProofs`, from `ResizeWhileFilled = FALSE` and finite sets of locks and
  addresses: `TypeCorrect`, `PinSafety`, `Consistency`, `BooksBalance`,
  `DestructorSafe`. The invariant ties the queue, the set of hashed items and the
  counters together (`size_` is the length of the queue, `allocated_` counts queue
  and evicted list, keys in the queue differ, pins count locks); none of the
  properties is inductive without it.
* `SearchControlProofs`, for any number of workers and any limits:
  `ControlTypeCorrect`, `AnsweredOnce`, `AnswersWhenAllowed`, `NothingHeldBack`.
  The invariant says when the three flags may differ from the number of answers
  (`Answering`), where a worker may hold nodes (`Holding`), and that free and
  taken places add up.
* `SearchTreeProofs`, for every finite tree, any finite number of workers and
  any sizes of minibatches, collisions and solid trees: `TreeInvariance` and
  from it `VirtualVisitsConserved`, `VisitsAddUp` and `PointersLive`.  `TreeInv`
  adds to the three properties
  - where a worker is and what its minibatch holds (`BatchFits`), and that
    nobody works after ~Search (`Ended`);
  - what a claim relies on (`ClaimRight`): the node is terminal or has no visits,
    all nodes above it have visits and edges, it will get its edges or is about
    to, and only a terminal node is claimed twice;
  - how the tree itself fits (`VisitsFit`): visits come from above, a node with
    visits has edges or is terminal, and one with edges and no visits is claimed.

  Sums are cardinalities: `Total(f)` counts a set of units, `f[s]` for each `s`,
  so that the lemmas about sums (a changed summand, a renumbering, grouping by
  pointer) follow from the library's facts about finite sets instead of an
  induction.  Claims at the place of a removed entry are renumbered by a
  bijection (`Renumbered`).  The heart of `PointersLive` is `NoCollisionBelow`:
  when the virtual visits of the children of a node add up to its own, as MakeSolid
  tests, no collision at a child is pending, since it would count for the node and
  not for a child; and a claimed child is terminal or has no visit before its own
  backup (`ClaimRight`), for which MakeSolid gives up.  Where this argument ends is
  the pointer of `search_tree_own_edge`, which is no claim.
* `BoundsProofs`, for every tree, value assignment and set of workers:
  `BoundsTypeCorrect`, `Soundness`, `TerminalsAreExact`, `Tightening` and
  `NoUpdateLost`.  Best is monotonic, so bounds lag behind what the children imply
  (`Lag`) and setting them tightens; what sound children imply is sound
  (`ImpliedSound`); exact bounds stay exact because they can only tighten and stay
  sound; and a climb sets nodes that have edges below the root, which are
  never positions where the rules end the game (`Paths`, `EdgesLive`), or the parent
  of the root, which is not a node of the search and does not come back into one: a
  ResetToPosition either goes on below the root or gives up the bounds of all it
  starts from (`Kept`).  For
  `NoUpdateLost` the invariant `UpToDate` says of every node with edges that it has
  the bounds its children imply and is terminal when they are decided, or that the
  backup of a claimed leaf, or the climb under way, will still pass it.
* `NetworkProofs`, for the mux with any callers, workers and batch limits: `MuxInvariance`,
  `WaitersAreHeld` and `MuxRefinesService`, the refinement.  The invariant says
  that a waiting computation is once in the queue or once with one worker
  (`Placed`), that a caller outside a call has a clean computation, that the
  batch of a worker is the inputs of its children at the places they remember,
  and that a ready computation has exactly its own outputs or was let go by the
  destructor.  Every step is then a step of the service for one caller or leaves
  all callers' phases and answers alone.
* `NetworkProofs`, for the demux with any callers, any finite number of workers and any
  split sizes: `DmxInvariance` and `DmxRefinesService`.  The invariant counts:
  what the countdown of a computation still expects is what is to be queued,
  queued or being computed (`CountdownRight`); the parts there are and those to
  come take all inputs (`PartsSuffice`, from the division that rounds up); and
  part j holds its slice of the inputs and is computed or in a worker's hands
  (`PartsRight`).  So a caller that is woken finds, for every sample, a part that
  exists, is computed and has the sample at the remainder of its index.
* `NetworkProofs`, for the batches above the cache with any workers, positions and
  batch sizes: `EvaluationsExact`. The invariant says which entries of the batch
  wait for the network and at which place of the network's batch, for each step of
  the worker.
* `FrontendsProofs`, for the engine with any positions, networks, tablebases and
  numbers of commands: `ResourcesOutlive` and `CommandsHonoured`.  The invariant
  relates the controller's objects to the running search, and to the one that is
  being replaced, at every place of the UCI thread, half-done commands included.
  For the tournament with any workers, games and openings: `ResultsComplete`.
  Its invariant says that a number is taken by one worker and counted once, with
  the colours and the opening that belong to it (`Numbered`); that until Stop or
  Abort every number given out is counted or in a worker's hands (`Undisturbed`),
  so that all are counted when the last worker has left; which workers may have
  started or left when the other threads wait for them (`Waiting`); and that the
  table counts the games by score and colour (`Counted`).
* `ChessProofs`, for the tree of the game with any addresses, positions, moves
  and numbers of resets, whatever a search adds below the head and whenever the
  collector runs: `TreeKeptSound`.  The invariant names the set of nodes that
  belong to the game (`\E G : NtGame(G)`).  They hang below the first node by
  their paths and differ in them (`NtRooted`, `NtUnique`); there is one for each
  position up to the head, and above the head nothing beside them (`NtLine`), so
  that a move either finds its node or has room for a single child; everything
  else alive hangs below a root in the collector's queue, which holds each root
  once (`NtQueued`).  That a search never starts at a node that has given up its
  children needs the order of a ResetToPosition: such nodes are above the head,
  or above the head before the command for as long as that one has not been met
  (`NtLostAbove`), in which case TrimTreeAtHead resets the new head.  Releasing
  siblings, MakeSolid and the collector are steps that take a closed set of nodes
  away; subtrees are the smallest sets closed under children, so that no
  induction along paths is needed.
* `ChessProofs`, for the loading of tables by any threads: `LoadedOnceBeforeUse`.
  Whoever loads holds the mutex, and the flag is set exactly when the table has
  been filled, or its loader is about to set it (`SzFlagTrue`).
* `BackendsProofs`, for any networks, threads, batches and programs:
  `BuffersKeptInOrder`.  Buffers are with one thread or in the pool once
  (`BkHeldOnce`).  For the command lists the invariant says why the fence of
  WaitForGpu is enough: a list in the queue belongs to a thread in FlushCL or
  WaitForGpu, the signal that thread waits for is behind its list, and the fences
  in the queue rise and are above the last one passed (`BkListsAwaited`), so when
  the fence has passed the list has left the queue.  A closed list is with a
  thread that still waits or may be reopened (`BkReopens`).  `TensorsUnderLock`:
  threads run commands on the shared tensors of cudnn and cuda networks, and queue
  lists and signals of DirectX ones, only while they hold `lock_`, one at a time.

Assumptions, all evaluated by TLC in the runs: the sets that are counted are
finite, values that stand for "nothing" are none of the others (`EngAssumption`,
`CCAssumption`, `TreeAssumption`, `NtAssumption`, `SzAssumption`), the cases of
the backends are about one of the five libraries (`BkAssumption`), limits are
natural numbers, a tournament
has at least one worker (the option's minimum), the tree is a tree
(`Above` gives the ancestors of each node and no node is its own ancestor), and
in Bounds the minimax rule.

## What is only model-checked

Liveness and everything under fairness (ENABLED is out of the prover's reach):
`EveryGoAnswered`, `DestructorReturns`, `NetworkCallsReturn`, `SpCommandsReturn`,
`SzProbeEnds`, `BkAllFinish`.

The stoppers (`TmPruneKeepsBest`, `TmDivisorsSound`): the chain is a fold over a
sequence of any length, which would need an induction, and the scaled constants
and the fixed point hold for the sizes of the runs only (a speed rounded down to
0 would be a property of the model, not of the code's doubles).

The algorithms, which are compared with reference definitions over bounded inputs,
since induction over data cannot be done: `CgPlayedByRules`, `CgHistoryExact`,
`CgEncodingExact`, `TbTablesExact`, `SzProbesTrue`, `KnExact`, and what programs
of the backends compute and where they write (`BkResultsRight`,
`BkProgramsSafe`).

The properties of the violation runs (`EntriesReachable` with resizes of a filled
cache, `LookupBringsToFront`, `OwnEdgeLive`, `SeLayerExact`,
`BkRotatedBuffersFit`) are false and have no theorem.

## What the code does differently from what its comments say

Five runs expect a violation, see the findings of `PROJECT.json`.  Further
deviations met while modelling, without a run of their own:

* A root without legal moves sets bounds on its parent, see Bounds
  (`mcts/search.cc:1698`); the comment there says "except the root".
* Abort after Stop does not keep the search from answering (`mcts/search.cc:892`;
  `search.h:70` says it does).
* On an infinite search at its limit the watchdog spins (`mcts/search.cc:871`).
* FetchMinibatchResults reads the nodes of collisions that may have been
  cancelled and moved (`mcts/search.cc:1578`); the values are not used.
* When player 1 of a tournament has black, each side searches with the other
  player's number of threads: they are passed to Play by player and taken by colour
  (`selfplay/tournament.cc:350`, `selfplay/game.h:81`).
* `stop` before `start` crashes the self-play loop (`selfplay/loop.cc:102`).
* OpenCL takes the form of the value head from the network's output format, where the
  other backends take it from the value format
  (`neural/opencl/network_opencl.cc:260`).  A file in which the two differ is a case
  of the model (`outputWdl`); `BkResultsRight` leaves it out.
* dx and OpenCL, too, allocate too little for networks with few filters, see
  Backends.
* A tablebase slot is read twice without the mutex another thread clears it under
  (`syzygy/syzygy.cc:1332`); the process may then crash, and `SzProbeEnds` allows it.

## What is not modelled

Scores, policies and the choice among children (free choices of the model);
floating-point rounding; the contents of evaluations; memory exhaustion; option
parsing, network files, checking and recording backends, benchmarks, training
data and output formats.  `PROJECT.json` gives the reason for each part.  Weak
memory: the flags of a search are atomics or under a mutex and behave
sequentially; the unprotected accesses that matter (leaf bounds, parent pointers,
tablebase slots, shared memory of a kernel) are steps of their own.
RpSharedMutex guards the controller, which one UCI thread uses; it has no
second user to wait for.

## Plan

What is left to do: larger instances of TimeControl's cases; a run for the number of
threads of a tournament's players; round robin and the checking backend; a proof of
`BkResultsRight` for one program at a time, from `TensorsUnderLock` and
`BuffersKeptInOrder`.
