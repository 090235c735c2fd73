# Verification of seanlib

TLA+ models of the data structures of seanlib, TLC runs that check them on small
instances, and TLAPS proofs for every value of the constants.

## The system

seanlib is a C library of four containers. Each lives in a directory of its own
and shares no code with the others.

| component | state | operations | who may call |
|---|---|---|---|
| queue (`queue/dv_queue.c`) | ring of cells (sequence, data), `head`, `tail` | enqueue, dequeue, bulk forms, size | any number of threads, no lock |
| stack (`stack/dv_stack.c`, `.h`) | buffer, `top`, `capacity`, configuration, allocator hooks | push, pop, peek, bulk, reserve, shrink, reset, clear | one thread |
| heap (`heap/dv_heap.c`, `.h`) | buffer with a scratch slot, `size`, comparator, `on_move` hook | push, pop, replace_top, update_at, remove_at, heapify, bulk | one thread |
| graph (`graph/dv_graph.c`, `.h`) | vertex and edge pools, free lists, doubly linked out/in lists, generations, version, traversal scratch | add/remove vertex and edge, find, iterate, BFS/DFS, update phases | one thread |
| `*_mt.c` wrappers | a mutex and one container | every core operation under the lock, `_with`, `_read`, `_write` | any number of threads |
| testers (`queue/dv_queue_tester.c`, `*/dv_*_tester.c`) | counters, sums, threads | start threads, share a container, join, compare, free | the process |

The containers meet their surroundings in four places:

- **threads** of the queue, which share its cells and counters and nothing else;
- **allocator hooks** (`alloc`, `realloc` or none, `free` or none) of the other
  three, any call of which may be refused, and which are told the sizes the
  container computes;
- **callbacks**: `on_move` of the heap, by which the owner of an element learns
  its index; `visit` of the graph; the functions given to the wrappers;
- **what the caller keeps between calls**: indices, graph handles, iterators.

What is hard in each, and what makes it correct:

| component | hard | correct when |
|---|---|---|
| queue | interleavings of the atomic accesses of any number of calls; counters that wrap; samples that are stale when the compare-and-swap comes; a thread stopped between claim and publish | no two threads touch one cell; linearizable to a bounded FIFO; `mpmc_size` never under-reports; calls return and items go through |
| stack | a resize refused at any point; byte counts near `SIZE_MAX`; bulk pushes that resize twice | a LIFO, with every failure but reset's atomic; memory accounted for to the byte; the ceiling kept |
| heap | the element that fills a hole may go up or down; every path that moves an element must report it; the scratch slot past the end | heap order; the owner's index map exact; a bag with priorities |
| graph | an edge sits on two intrusive lists and in one of two pools that recycle slots; two blocks resized one after the other; handles and iterators kept across mutations; batches inside phases | the lists sound; a stale handle refused; an iterator sees the whole list or stops; a multigraph; walks visit what is reachable, once, in order, within their scratch |
| wrappers | state read under one acquisition and used under the next; callbacks under the lock; an init that fails half way | one call, or one function, at a time; the mutex used as POSIX defines; the lock given back |
| testers | consumers that decide on two stale loads that nothing can come any more; a bulk call that sends a part; destruction against threads that are still polling | they end; their verdict is the truth; what they free they free once, and last |

`PROJECT.json` lists each hazard at its line, with the properties that cover it.

## Modules

| module | role |
|---|---|
| `BoundedFifo` | abstract: what concurrent calls on a bounded FIFO may do, and when a call may give up |
| `DvQueue` | the queue, one action per atomic access |
| `DvQueueProofs` | types, protocol, data-race freedom, `mpmc_size`; the queue implements `BoundedFifo` |
| `QueueTester`, `MCQueueTester` | the queue's stress test, a client of `DvQueue`, and its instances |
| `DvQueueRelaxed`, `MCDvQueueRelaxed` | the queue again, under the memory orders the code asks for, and its instance |
| `DvQueueRelaxedProofs` | under those orders no plain access races, and no call gives up in error |
| `BoundedLifo` | abstract: what each call on a stack does and reports |
| `HookedMemory` | the default and the caller's allocator, and the steps of a resize, which stack and heap have in common |
| `HookedMemoryProofs` | what an allocator call leaves behind, whichever way it ends |
| `DvStack`, `MCDvStack` | the stack and its instances |
| `DvStackProofs` | the stack's memory, ceiling, failures and bulk pushes; it implements `BoundedLifo` |
| `PriorityBag` | abstract: a bag with priorities whose elements know where they are |
| `DvHeap`, `MCDvHeap` | the heap and its instances |
| `DvHeapProofs` | the heap's memory, index map and order |
| `Multigraph` | abstract: vertices, edges in order of insertion, handles that are used once |
| `GraphPools` | pools, blocks, free lists and incidence lists of the graph |
| `DvGraph`, `MCDvGraph` | the graph's calls, handles and iterators, and its instances |
| `DvGraphRefinement` | `DvGraph` seen as a `Multigraph` |
| `DvGraphProofs` | the graph's structure, handles, memory, ceilings, allocator calls and scratch |
| `GraphWalk`, `MCGraphWalk` | the loops of BFS, DFS and reachability |
| `GraphWalkProofs` | the walks fit their scratch, visit what can be reached, and find shortest paths |
| `SharedObject` | abstract: a container that threads call one operation, or one function, at a time |
| `MtWrapper` | the three wrappers: a mutex beside a container that is a parameter |
| `MtWrapperProofs` | the wrapper excludes, uses its mutex as defined, and implements `SharedObject` |
| `MtCores` | what a core call does to a stack, a heap and a graph, seen from outside |
| `MtClients`, `MCMtClients` | programs that use the wrappers: the testers' contention phases and free callers; instances |

### Queue

`head`, `tail`, `seq` and `data` are the fields of `mpmc_queue_t` and its cells;
`pc`, `pos` and `rem` a thread's place in a call, its local `pos` and what is
left of a bulk call. A call is `EnqCall`, then `EnqLoad` (the load of `head`),
one of `EnqSlotFree`, `EnqFull` and `EnqStale` (the load of the cell's sequence
and the branch on its difference), `EnqClaim` or `EnqClaimFails` (the weak
compare-and-swap, which may fail spuriously), `EnqWrite` (the plain store) and
`EnqPublish`; dequeues mirror it.

Every number is kept unwrapped, and every comparison the code makes is made on
words modulo `WordSize`: `WordEq`, `Word`. This is what lets an invariant speak
of laps while the code's tests stay those of the code. A thread that sleeps for
about `WordSize` operations between a load and its compare-and-swap would find
the same word again; `MaxLag` names by how much a sample may lag, and the
counters do not move past it. The code makes the same assumption tacitly, with
2^64 for `WordSize`.

`DvQueue` is sequentially consistent, `DvQueueRelaxed` is not. There a load may
return an older value. Each thread has a `view`, which tells how many of the
writes to each location it knows of; a load returns any write not older than
that (`Loads`, `Acquires`), a release store of a sequence carries the view of
its thread (`Releases`), and an acquire load that reads it takes the view over.
The counters carry none: they are written by relaxed compare-and-swaps, each of
which reads the last value and adds one, so that the history of a counter is
the numbers up to it. A plain access to `data` must know of every earlier one
to the same cell, or it has raced. `Hears` is synchronization outside the queue
(a join, a flag). The model is the release/acquire fragment of C11 without
load buffering: no store is seen before a load that precedes it in its thread.
Sizes of words and bulk calls are `DvQueue`'s matter and left out.

### Stack and heap

One action per function, each the whole function. An allocator call is a choice
between a block and a refusal (`Grant`); a block is an address with a size and
an alignment, so that a `free` or a `realloc` with another size than the block
was handed out with is a fault (`contract`). `size_t` is `0 .. SizeMax` and
every product and sum that the code guards is guarded the same way. Heap
elements are a key with an identity; `Notified` is the `on_move` callback
writing the index where the owner looks. A sift is the path of its hole
(`Rises`, `Sinks`) and then the elements of the path settling on it; the loops of
heapify and of the bulk calls are functions of the number of rounds done (`Pass`,
`SiftedIn`, `Popped`).

### Graph

One action per function. `GraphPools` translates the static helpers as functions
of a record that holds the graph; a helper that may call the allocator returns
the set of its outcomes. The pools are functions on the slots below the
high-water mark. The two text copies in the C code (vertices and edges, out and
in) are one definition with a parameter.

The version counter is only compared for equality with an older value, so the
model keeps what a step does to what the caller holds: `iter.current` is
dropped when an operation steps it. Generations do wrap in the code and are kept
as numbers up to `GenMax`. `watch` is a handle the caller has kept, with the
truth about the thing it was issued for.

`IsValid` is `dv_graph_is_valid`, and `StructureSound` says it is always true:
the checker of the code is the invariant of the model.

`GraphWalk` takes the walks apart, one step for a visit or an edge. It reads the
lists only, in insertion order, so a graph is there an ordered list of edges.
Cursor words have the width that makes the highest edge slot with the in-bit one
less than the end mark, as in the code.

### Wrappers and their clients

`stack_mt`, `heap_mt` and `graph_mt` are three copies of one text, and
`MtWrapper` is that text. `mutex`, `owner` and `box` are the fields of
`dv_*_mt_t`; `pc`, `fn`, `call`, `seen` and `reply` a thread's place in a call.
A call is `Invoke`, `Lock`, `CoreReads`, `CoreStores` and `Unlock`; one that is
given a function is `InvokeFn`, `Lock`, any number of core calls (`FnCalls`,
`CoreReads`, `CoreStores`), `FnReturns` and `Unlock`. A core call is taken
apart into a read of the container and a later store of what was worked out
from it, because that is what makes a lost update possible: with the lock
missing, two threads would store over each other. `InitNoMutex`,
`InitNoContainer` and `InitOk` are the three ways out of an init, `MtDestroy`
the destroy; neither takes the lock. `contract` records that every use of the
mutex so far was one POSIX defines.

What the container is and what a core call does are the parameters `Blanks`,
`CallsOn` and `Core`; the proofs hold for any. `MtCores` supplies the three:
contents and replies, with the memory left out, every call that may allocate
with the outcome of a refusal. `push` and `pop` stand for their pointer forms,
and `size` for `is_empty`, which calls it.

`MtClients` adds four programs. Three are the contention phases of the testers,
from `dv_*_mt_init` to `dv_*_mt_destroy`: `mt_producer` and `mt_consumer` (for
stack and heap), `contend_worker` and `contend_validate` (for the graph), and
`phase_mt_contention`, whose main thread creates, joins, adds up, asks the
wrapper and destroys it, with the returns and the exit on a failed init, malloc
or `pthread_create`. The fourth, "calls", has threads make whatever calls they
like and give functions to the wrapper, and creates and destroys it in between.

### Queue tester

`QueueTester` is `dv_queue_tester.c` as a whole, on top of `DvQueue`: the
queue's accesses stay one action each, and what a thread does by itself between
two shared accesses is one step. A producer fills a batch (`fill`), sends it
(`send`, `sending`) and sends again what a bulk call left over; a consumer polls
(`poll`, `polling`), and when it finds nothing loads `g_producers_done`, then
`g_consumed_count` (`weigh`), and polls a last time (`last`, `lasting`). Main creates,
watches the size, joins the producers, sets the flag, joins the consumers,
compares and frees. `objects` are the objects that are allocated, `alive`
whether the queue is.

`ObeysQueue` says that the tester uses the queue as `DvQueue` assumes, and
`ObeysWrapper` that the clients use the wrapper as `MtWrapper` assumes: by
these two, what is proved of the components holds in the programs.

## Runs

| run | shows |
|---|---|
| `queue_tester` | the queue under its stress test: protocol invariant, exclusive slots, honest `mpmc_size`, refinement of the FIFO; the test ends, finds what it expects, frees each object once and the queue last, and uses the queue as assumed |
| `queue_relaxed` | release and acquire of `sequence` alone order the plain accesses; a call gives up only on what its caller cannot know |
| `queue_relaxed_size` | *violation*: `mpmc_size` samples a tail ahead of its head |
| `stack` | LIFO refinement, memory, ceilings, atomic failures, honest bulk counts |
| `heap` | heap order, index map, bag refinement and memory accounting on up to seven elements, smallest or largest first |
| `heap_nan` | *violation*: a NaN leaves other keys out of order |
| `graph` | list structure, iterators against mutations, multigraph refinement |
| `graph_handles` | kept handles over slot reuse and wrapping generations; the version |
| `graph_memory` | five blocks, ceilings, scratch, refusals |
| `graph_phase` | *violation*: an iterator goes on after a mutation of an open phase |
| `graph_walk` | walks: scratch bound, shortest hops, preorder, completeness, reachability, and that they return |
| `mt` | one thread in the core at a time, defined use of the mutex, refinement of the shared object; the testers' verdicts, that they keep to the wrapper's terms, that the lock is given back and the phases end |

The type invariants of stack, heap, graph and walks are the first conjunct of
an invariant that is checked (`MemoryAccounted`, `StructureSound`,
`ScratchFits`).

### Bounds, and why they are enough

- **Queue.** Two slots is the least capacity `mpmc_init` makes, and makes laps
  short; a word of 8 values is the least the assumption allows.
- **Queue tester.** Two plans. One pair of threads with seven items: the queue
  fills, bulk calls send a part, and the words (of 8 values) wrap. Two pairs
  with an item each: consumers race for the last item and for the decision to
  leave. Main samples the size at most once while it waits (25 times in the
  code); the sampling changes nothing. The proofs lift the bounds for all but
  the tester's own properties.
- **Relaxed queue.** Three threads, the middle one producer and consumer, so
  that two producers and two consumers race; enqueues begin until two positions
  are claimed, and racing ones claim a third, the first that uses a slot again.
  A monitor is one of the producers. `MaxClaims` bounds the positions claimed in
  all, so that none comes round again (the tacit assumption of `MaxLag` above);
  it is 3, which the run never reaches past. `DvQueueRelaxedProofs` lifts all of
  these numbers but the last, which need only stay below the size of a word.
- **Stack, heap memory.** `SizeMax` of 8 and 16 with elements of one to three
  bytes puts overflow two growth steps away; two addresses are enough because a
  container owns one block and a move needs a second. `MinCapacity` is 2 (8 in
  the code), so growth from it stays below `SizeMax`. `StackView` and `HeapView`
  drop the last reply, which no call reads; TLC still checks every step, its
  reply included, against the action properties and the refinements.
  `DvStackProofs` lifts the stack's numbers, `DvHeapProofs` the heap's.
- **Heap order.** Six elements are the fewest for which the element that fills
  the hole of `remove_at` has to go up; seven fill the third level, in a heap
  of either order. Three keys give a key something on both sides, and ties.
  `DvHeapProofs` lifts these numbers too, for all but `ImplementsBag`.
- **Graph.** Lists with a head, a middle and a tail need three edges; two
  vertices with parallel edges and self-loops, or three without, give each
  pattern of sharing. `GenMax` is 1 where generations are not the question, and
  3 where they are. In the memory run a pool may hold 4 slots and `SizeMax`
  admits 3, so that both limits are met. `StateView` drops the last reply and
  the remains of retired slots, which no call reads. Iterators are kept over
  unweighted graphs of at most four slots (`Walkable`).
  `DvGraphProofs` lifts the numbers for all but iterators, version and refinement.
- **Walks.** Every graph of three vertices and three edges, both modes, with a
  walk after a walk that was stopped anywhere. `GraphWalkProofs` lifts these
  numbers for all but the depth-first order.
- **Wrappers.** A main thread and four others, as many as the testers' pattern
  of two producers and two consumers needs; an item each, so that each consumer
  may find the container empty or lose a race. `PerThread` is 2: one edge is
  removed and one stays. Free callers are two, one that makes every call and
  one that makes those that get in its way, on containers with ceilings of 2
  and 4, so that full, empty and refused all happen. `MtWrapperProofs` lifts
  the numbers.

Deadlock is not checked in `mt` and `queue_tester`, which are programs that
end; that they end is `PhaseEnds` and `TesterEnds`.

### Fairness

`queue_tester` assumes that every thread goes on (weak fairness: the scheduler)
and that a compare-and-swap that could succeed again and again eventually does
(strong fairness: C11 lets the weak form fail spuriously, and another thread may
win each race). That producers and consumers call again is not assumed: it is
what the tester's loops do.

`mt` assumes weak fairness of every thread, strong fairness of acquiring the
lock, and that a function given to the wrapper returns. Strong fairness of the
lock is more than POSIX says: which waiting thread gets a mutex is left to the
scheduling policy, and the polling consumers of the testers do rely on a
producer getting its turn.

`graph_walk` assumes that the calling thread goes on.

## Proofs

`DvQueueProofs` proves, for any sets of threads, any
capacity, any word size that is a multiple of it and at least four times as
large, any start and any bounds on what is sent:

- `TypeCorrect`, `ProtocolInvariant`: the types and `IInv`;
- `NoDataRace`: `SlotExclusive`;
- `SizeIsHonest`: `SizeHonest`;
- `QueueImplementsFifo`: `ImplementsFifo`.

`SlotExclusive` is not inductive: nothing in it says why a compare-and-swap that
succeeds finds the slot unowned. `IInv` says it. Its parts are `Counters` (the
window between tail and head is at most a capacity), `Taken` and `Vacant` (what
the sequence of every position of the window and of the free positions ahead of
it can be, and who then owns it), `Owners` and `OneOwner` (where owners stand),
`Samples` (a sample that is still current has seen a sequence that still
holds, which is the compare-and-swap's argument), `Contents` (the data under a
published sequence is what was claimed) and `Roles`. The steps that only move a
program counter share one lemma (`QuietStep`); each of the six others has its
own. The lemmas the module begins with supply what the solver cannot do by
itself: that `p % n` tells apart the positions of any window of `n`.

The refinement maps the queue to the sequence of claims from `tail` to `head`,
an enqueue taking effect at its compare-and-swap of `head` and a dequeue at that
of `tail`. It needs one more fact than the invariant gives directly: a refused
enqueue saw a full queue, or a slot still held by a dequeue that has not
returned.

`MtWrapperProofs` proves, for any set of threads, any container and any
non-empty set of empty ones:

- `WrapperTypeCorrect`: the types;
- `WrapperExclusive`: `CoreExclusive`;
- `WrapperMutexDefined`: `MutexDefined`;
- `WrapperImplementsShared`: `ImplementsShared`.

`CoreExclusive` is not inductive either: two threads are kept apart by `owner`,
of which it does not speak. `LockProtects` ties the two together (a thread is
under the lock exactly when it owns it) and adds what the other theorems need:
there is a mutex exactly when the caller thinks so, a thread in a call is one
that found it there, and what a core call has read is still so when it stores.
The last part is what makes the store the point at which a call takes effect on
the container its predecessor left, and so the step that `SharedObject` sees;
lock, read and unlock are stutters, or the entry to and the exit from a
function. The step lemmas are split by action, and the refinement is one lemma
per kind of step.

`DvQueueRelaxedProofs` proves, for any sets of threads and any capacity from two
on that divides the word size, as long as the positions ever claimed, and two
laps more, are fewer than the words (`RelaxedAssumption`; 2^64 of them in the
code):

- `OrdersSuffice`: `RaceFree`, under the orders the code asks for, no plain
  access to `data` races, no two threads store a cell's sequence unordered, and
  a dequeue reads the item of the position it claimed;
- `RefusalsAreHonest`: `GivesUpKnowingly`, an empty dequeue leaves no item
  that its caller knows of, and a full enqueue no slot.

Nothing in `RaceFree` says what a thread knows. The invariant, `RInv`, has two
halves. `Protocol` is that of `DvQueue`, said of the last number stored to each
cell; only `Samples` differs, since a sample may be of any age: it never runs
ahead of its counter, and before its compare-and-swap a thread knows of a store
of the number that it waits for. `Knowledge` says what travels with the stores:
the numbers stored to a cell grow (`Growing`, so a thread that knows of the
number it waits for knows of the last store), views are coherent with the
stores that they know of (`Coherent`), the last store to a cell carries every
access to its data but the one its owner has just made (`Carried`), and so an
owner knows of all of them (`Informed`). `Informed` is what makes the next plain
access race-free; the release store of a sequence is the step that hands it
over, the acquire load of it the step that takes it. A refusal is honest because
a sequence number that is behind its position names the least position that can
still be missing: that argument is by the least number (`LeastNat`), the one
induction that these proofs need.

`DvStackProofs` proves, for any sets of values, addresses, batches,
configurations and allocators, any `SizeMax` and any size of a pointer, with a
growth base of at least two and a cache line that is a power of two (32, 64 or
128 in the code):

- `StackMemory`: `MemoryAccounted`;
- `StackCeiling`: `CeilingKept`;
- `StackFailures`: `FailureAtomic`;
- `StackBulk`: `BulkShortHonest`;
- `StackRefinement`: `ImplementsLifo`.

The invariant is `Sound(W) /\ Capped(stack)`. `Sound` is about the control block
and the blocks together: the buffer is the one block there is, its size, its
alignment and its slots are what the capacity stands for, the slots below `top`
hold values, and alignment and element size are those that init settles on
(`Settled`). The allocator's contract needs every one of these at once: the size
that a `free` or a `realloc` passes is computed anew from the control block, so
it is right only if the block is still what the control block says, whichever of
three paths (first block, moved in place, copied) made it, with either
allocator. `Capped` ties the capacity to the ceilings, and `FailureAtomic`,
`BulkShortHonest` and the refinement follow step by step from the two. The
lemmas go from the allocator up: `HookedMemoryProofs` says what each call leaves,
granted or refused, `SetCapacityFacts` what a resize does, `GrowForPushFacts` and
`GrowForBulkFacts` what growth does (it doubles, clamps and falls back without
ever passing `SizeMax`), and one lemma for each call proves all five properties
of its step.

`DvHeapProofs` proves, for heaps of any size and either order, any
configurations, allocators and batches of a length that a `size_t` holds, and
otherwise from the assumptions of the stack:

- `HeapMemory`: `MemoryAccounted`;
- `HeapIndexMap`: `IndexMapExact`;
- `HeapInOrder`: `HeapOrder`, if no key is a NaN. `heap_nan` shows that the
  hypothesis is needed; the other two theorems do without it.

The invariant is `Good(W)`, three parts: `Sound`, the memory, as for the stack
but with the scratch slot; `Exact`, the index map; and `Ordered`. They hold of
the state between calls, and the work is in what holds inside of them. While a
hole travels, the element at one index is out of place: `GoodBut` says that all
is well but for it, and its `OrderedBut` that what stands below the hole also
belongs below what stands above it. `SiftGood` and its parts lead from
`GoodBut` back to `Good`, whichever way the element has to go. This is the
argument for `remove_at` and `update_at`, which choose the way by one
comparison with the parent.

A sift follows its hole for any number of levels, and that is an induction. The
induction theorems of the library cannot be used here, so it is done by hand, on
the set of the numbers for which a statement holds (`Induction`, which rests on
`LeastNat`; walks and graph use it too). It is done once, for any path whose steps lower a rank (`PathExists`,
`PathFacts`): up, the rank is the index; down, what is left to the end of the
heap. `Rises` and `Sinks` are such paths, `RiseOrder` and `SinkOrder` what settling
on them does to the order. The loops of heapify, `push_bulk` and `pop_bulk` are
done once in the same way (`ChainExists`): round k takes what holds after k - 1
rounds to what holds after k. For Floyd's pass that is order from an index
on, which comes down to 0; for `push_bulk`, order of a prefix that grows; for
`pop_bulk`, `Good` itself. Each call then has one lemma.

`GraphWalkProofs` proves, for any number of vertices and of edges, parallel
edges and self-loops included, either mode, and cursor words of any width that
holds the edges:

- `ScratchAlwaysFits`: `ScratchFits`;
- `BfsFindsShortest`: `ShortestHops`;
- `WalksFindReachable`: `FindsReachable`.

Two arguments carry them. The first is about distance and not about any walk:
`Within` grows by one edge at a time (`Balls`), and by a vertex at least as long
as it grows, so after as many edges as there are vertices it is closed
(`ReachClosed`, by counting). `Within` is a recursive function, so that it is
what its equation says had to be shown too (`Recursion`). The second is the
invariant, `WalkInv`. Of the frontier of a breadth-first walk, `Frontier` says
that its entries differ and are what is marked, and that what is next to an
entry that is through is marked; `Depths`, that the depths never decrease and
span two levels at most. From these, whatever is no further from the start than
the entry being visited is marked (`NearMarked`), which is why a vertex that is
not marked is exactly one edge further. Of the stack of a depth-first walk,
`Stack` says that what a cursor has passed on its way along both lists leads to
marked vertices, and `Through` that a marked vertex that has left the stack leads
only to marked ones. When either walk ends, what is marked is closed and has the
start, and so has all that can be reached. The scratch is wide enough because
entries differ; the reuse of the scratch needs nothing more than that a walk
marks its start after the wipe. There is one lemma for each step.

`DvGraphProofs` proves, for any `MaxCapacity`, `SizeMax`, `GenMax` and
`WordBits`, any configurations, weights, edge batches and hook tables, with a
growth base of at least two and an end mark no slot can have, and whichever
allocations are refused:

- `StructureAlwaysSound`: `StructureSound`;
- `HandlesExact`: `HandleExact`;
- `MemoryAlwaysAccounted`: `MemoryAccounted`;
- `CeilingsAlwaysKept`: `CeilingKept`;
- `AllocatorStaysQuiet`: `AllocatorQuiet`;
- `ScratchAlwaysCovers`: `ScratchCovers`.

`IsValid` follows links, and what is found at the end of a chain of links is
nothing a step can be said to preserve. So the invariant, `IInv`
(`GraphInvHolds`), does not follow them. It says of the edges on a list that they
can be given numbers, their stamps, so that the head has the least, the link of
each leads to the next higher, and the backward links are the same for the
stamps negated (`Chained`, `Threaded`). Stamps are local: an edge put behind the
tail gets one above all others (`ChainBack`), an edge that is taken out takes its
stamp along (`ChainDrop`), a slot pushed on a free list gets one below all, and
lists that a call does not write keep theirs. One set of stamps serves both
lists of every vertex (`LinkedOn`), and every free list has its own (`FreedOn`).
Only the last step is an induction over the chain: `ChainRead` shows that a
reader of a stamped chain meets each of its slots once, and so ends after as
many steps as it has members; from there `StructureSound` is counting.

`IInv` is, before `dv_graph_init` and after `dv_graph_destroy`, that nothing is
held (`Blank`), and in between `Good`, which has two halves. `Kept` is memory:
`Sound` (each counter stands for the bytes of its block, and the weights cover
the edge pool), `Settled` and `Capped` (the ceilings), and `Furnished` (a fixed
graph has all the scratch it can come to need, which is why it never calls the
allocator again). `Formed` is structure: `Lined` (the lists), `Counted` (the
counts are those of the slots in use) and `FreedOn` (the free list of a pool
holds just the slots below its mark that are not in use). `WatchOn` ties a kept
handle to its slot: the tag there is the one of the handle, aged by the
removals since. An insertion is in between a graph that is `Formed` but for the
slot it took (`FormedBut`). Helpers have one lemma each, from the allocator up
(`ResizeBlock`, the two pools, the scratch), loops are rounds (`ChainExists`; the
release of a vertex's edges, and a bulk insertion, are such runs), and each
action then has one.

The theorems speak of `WrapperSpec` and of the `Spec` of `DvQueue`,
`DvQueueRelaxed`, `DvStack`, `DvHeap`, `DvGraph` and `GraphWalk`. These are only
model-checked:

- every liveness property, which the prover cannot do: `PhaseEnds`,
  `TesterEnds`, `LockGivenBack`, `WalkReturns`;
- that the testers' programs are instances of what is proved, `ObeysWrapper` and
  `ObeysQueue`, and the testers' own verdicts;
- that the heap implements `PriorityBag`, which counts the elements of each key
  through sifts that permute them;
- that the depth-first order is that of a recursive walk (`DfsIsPreorder`):
  the order it is compared with is a recursion over a tree of calls;
- what a caller reads off the graph's lists in their order: that iterators see
  the whole list or stop (`IterExact`), that the version steps once for each
  change (`VersionOnce`), and that the graph implements `Multigraph`. The proofs
  say which edges a list has; these speak of the sequence a recursive reader
  makes of it before and after a call.

## Where documents and code part

1. `queue/dv_queue.c:151`, "sampling tail first guarantees the later-sampled
   head is >= the sampled tail": with relaxed compare-and-swaps the acquire
   load of `tail` synchronizes with nothing, so C11 does not guarantee it; an
   empty queue may be reported full (`queue_relaxed_size`). In an interleaving
   of the accesses, which is all that x86 and ARMv8 show here, it holds, and is
   proved (`SizeIsHonest`).
2. `heap/DESIGN.md:106`, NaN keys lose the promise "about them": other keys lose
   it too, and also once the NaN is gone (`heap_nan`).
3. `graph/dv_graph.h:465`, an iterator ends when "the graph has been mutated":
   inside an update phase it does not (`graph_phase`).

Others were seen on the way and have no run of their own. `README.md:8` says
that producers and consumers "advance independently without blocking"; a
producer stopped between its claim and its publishing store stops every
consumer at that slot until it goes on. `README.md:39` of
the library says that failures "leave the stack unchanged"; a reset whose resize
is refused has emptied it, as `dv_stack.h:118` says and `FailureAtomic` allows.
`queue/dv_queue.c:152` says "head >= tail always holds"; of the wrapped words it
does not, and the subtraction is right because it wraps as well.

In the testers:

- a push that is refused ends its producer, and the consumers then poll for
  items that never come: the contention phase of stack and heap hangs, where
  the head of the testers says that every phase reports
  (`dv_stack_tester.c:5`, `dv_heap_tester.c:5`). `PhaseEnds` excepts it.
- the graph's phase expects `per_thread - per_thread / 2` edges of a worker
  (`dv_graph_tester.c:748`), and a worker checks for `per_thread / 2` (line 712);
  the two agree for even numbers, which is what the run and the program use.
- the queue tester frees the queue before it exits when a thread cannot be
  created, while those it has started may be using it; `FreedOnceAndLast`
  excepts it.
- the consumed count that a consumer of the queue tester compares before it
  leaves is not needed for safety: the flag, and the poll that follows the load
  of it, suffice.

## Not modelled

- Load buffering in C11; a `mpmc_init` that is refused. `mpmc_free` is a step of
  the tester's main.
- NULL arguments, status strings, read-only accessors with no further logic.
- Alignment in the graph (blocks there have a size only).
- Visit callbacks that call the graph, or the wrapper: under the wrapper's lock
  such a callback waits for itself, which the headers forbid for the functions
  of `_with`, `_read` and `_write` and do not mention for `dv_graph_mt_bfs`.
- Pointers into a container's own buffer, given back to one of its calls.
- The testers' other phases, which drive one container from one thread through
  long pseudo-random sequences: the component models explore every sequence.
- Benchmarks, unit tests, build files.

## Plan

Done: the queue with its proofs and refinement, also under relaxed memory; stack;
heap; graph; walks; the wrappers with their proofs and refinement; the testers'
contention phases; the queue tester.

Proved since: the queue under relaxed memory; everything the runs check of the
stack, and that it implements `BoundedLifo`; the memory, the index map and the
order of the heap; the scratch, the reach and the shortest paths of the walks.

Left, all of it proofs: that the heap implements `PriorityBag`; `HandleExact` of
the graph; that the queue tester keeps to the terms of `DvQueue`.
