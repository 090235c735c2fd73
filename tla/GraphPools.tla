----------------------------- MODULE GraphPools -----------------------------
(* The two slot pools of graph/dv_graph.c and the memory behind them: growth,
   the weights parallel to the edge pool, the traversal scratch, the free
   lists, and the incidence lists threaded through the slots.

   A helper takes a record w with the control block (cb), the slots of both
   pools below their high-water marks (vertices, edges), the weights, the
   bytes of the five blocks (bytes, 0 for NULL), what the allocator has handed
   out in all (outstanding), whether every hook call kept to the contract
   (contract), the hooks this operation called (calls), and how often it
   stepped the version and touched the topology (steps, touched).  A call of
   the allocator may be refused, so it returns the set of [w, status] it may
   end in.

   What the C text writes twice is written once here: the fields of a pool are
   functions of the pool, and the links of an edge functions of the list, "out"
   for its source's and "in" for its destination's.

   A slot at or above the mark is not read before it is written, so a pool is a
   function on the slots below it.  The version is compared only for equality
   with an older value and never returns to one, so an operation records how
   often it steps it, and not the number.                                   *)
EXTENDS Integers, Sequences, FiniteSets

CONSTANTS MaxCapacity,   \* DV_GRAPH_MAX_CAPACITY
          MinCapacity,   \* DV_GRAPH_MIN_CAPACITY
          SizeMax,       \* SIZE_MAX
          GenMax,        \* UINT32_MAX, as a generation
          NoIndex,       \* DV_GRAPH_INVALID_INDEX
          WordBits,      \* bits of a word of the visited set
          Garbage        \* what a slot holds that a move did not copy

(* A floor below 2 would stop growth: 1.5 times 1 is 1. *)
ASSUME PoolAssumption ==
  /\ MaxCapacity \in Nat /\ MinCapacity \in 2 .. MaxCapacity
  /\ SizeMax \in Nat /\ GenMax \in Nat \ {0} /\ WordBits \in Nat \ {0}
  /\ NoIndex \in Nat /\ NoIndex > MaxCapacity

Pools == {"vertices", "edges"}
Blocks == Pools \cup {"weights", "work", "visited"}
Lists == {"out", "in"}

(* What a slot that was written can hold, and Garbage is not. *)
VertexSlots ==
  [head : [Lists -> Nat], tail : [Lists -> Nat], degree : [Lists -> Int],
   generation : 1 .. GenMax, active : BOOLEAN]
EdgeSlots ==
  [src : Nat, dst : Nat, next : [Lists -> Nat], prev : [Lists -> Nat],
   generation : 1 .. GenMax, active : BOOLEAN]

ASSUME GarbageAssumption == Garbage \notin VertexSlots \cup EdgeSlots

(* Bytes of a slot: a record, or a double, a frontier entry with its cursor,
   a word of the visited set.                                               *)
SlotSize(b) == IF b \in Pools THEN 32 ELSE 8

BytesFit(count, size) == count # 0 => size <= SizeMax \div count

Ends(w, status) == [w |-> w, status |-> status]

(* The next operation, when this one succeeded. *)
Then(outcomes, Op(_)) == UNION {IF r.status = "OK" THEN Op(r.w) ELSE {r} : r \in outcomes}

(***************************************************************************)
(* Block resizing.                                                         *)
(***************************************************************************)
Release(w, b, size) ==
  [w EXCEPT !.bytes[b] = 0,
            !.outstanding = @ - w.bytes[b],
            !.contract = @ /\ w.cb.allocator.free /\ size = w.bytes[b],
            !.calls = @ \cup {"free"}]

(* Block b is `new' bytes now, with its first `kept' bytes as they were. *)
Moved(w, b, new, kept) ==
  LET slots == kept \div SlotSize(b)
      sized == [w EXCEPT !.bytes[b] = new, !.outstanding = @ - w.bytes[b] + new]
  IN IF b \in {"work", "visited"} THEN sized
     ELSE [sized EXCEPT ![b] = [i \in DOMAIN @ |-> IF i < slots THEN @[i] ELSE Garbage]]

ResizeBlock(w, b, old, new, live) ==
  LET moves == w.bytes[b] # 0 /\ ~w.cb.allocator.realloc
      resizes == w.bytes[b] # 0 /\ w.cb.allocator.realloc
      wanted == IF moves THEN live ELSE old
      kept == IF wanted < new THEN wanted ELSE new
      called == [w EXCEPT !.calls = @ \cup {IF resizes THEN "realloc" ELSE "alloc"},
                          !.contract = @ /\ w.cb.allocator.alloc /\ old = w.bytes[b]]
  IN IF new = old THEN {Ends(w, "OK")}
     ELSE IF new = 0 THEN {Ends(IF w.bytes[b] = 0 THEN w ELSE Release(w, b, old), "OK")}
     ELSE {Ends([called EXCEPT !.calls = @ \cup {"refused"}], "NOMEM"),
           Ends(Moved(called, b, new, kept), "OK")}

NextCapacity(capacity) ==
  LET half == capacity \div 2 IN
  IF capacity < MinCapacity THEN MinCapacity
  ELSE IF capacity > MaxCapacity - half THEN MaxCapacity
  ELSE capacity + half

NoCeiling(capacity, ceiling) == capacity

ClampCapacity(capacity, ceiling) ==
  IF ceiling # 0 /\ capacity > ceiling THEN ceiling ELSE capacity

(* One block of `capacity' slots, and the counter that says so. *)
ResizeTo(w, b, held, capacity, live, Counted(_)) ==
  LET size == SlotSize(b)
  IN IF ~BytesFit(held, size) \/ ~BytesFit(capacity, size) THEN {Ends(w, "OVERFLOW")}
     ELSE Then(ResizeBlock(w, b, held * size, capacity * size, live * size),
               LAMBDA u : {Ends(Counted(u), "OK")})

ResizePool(w, p, capacity) ==
  ResizeTo(w, p, w.cb.capacity[p], capacity, w.cb.watermark[p],
           LAMBDA u : [u EXCEPT !.cb.capacity[p] = capacity])

ResizeWeights(w, capacity) ==
  IF ~w.cb.weighted \/ capacity = w.cb.weight_capacity THEN {Ends(w, "OK")}
  ELSE ResizeTo(w, "weights", w.cb.weight_capacity, capacity, w.cb.watermark.edges,
                LAMBDA u : [u EXCEPT !.cb.weight_capacity = capacity])

SetVertexCapacity(w, capacity) ==
  IF capacity = w.cb.capacity.vertices THEN {Ends(w, "OK")}
  ELSE IF capacity > MaxCapacity THEN {Ends(w, "OVERFLOW")}
  ELSE IF capacity < w.cb.watermark.vertices THEN {Ends(w, "INVALID")}
  ELSE ResizePool(w, "vertices", capacity)

PoolFirst(w, capacity) ==
  IF capacity = w.cb.capacity.edges THEN ResizeWeights(w, capacity)
  ELSE IF capacity > MaxCapacity THEN {Ends(w, "OVERFLOW")}
  ELSE IF capacity < w.cb.watermark.edges THEN {Ends(w, "INVALID")}
  ELSE Then(ResizePool(w, "edges", capacity), LAMBDA u : ResizeWeights(u, capacity))

(* The weights first on the way up and last on the way down. *)
SetEdgeCapacity(w, capacity) ==
  IF capacity = w.cb.capacity.edges THEN ResizeWeights(w, capacity)
  ELSE IF capacity > MaxCapacity THEN {Ends(w, "OVERFLOW")}
  ELSE IF capacity < w.cb.watermark.edges THEN {Ends(w, "INVALID")}
  ELSE IF capacity > w.cb.capacity.edges
  THEN Then(ResizeWeights(w, capacity), LAMBDA u : ResizePool(u, "edges", capacity))
  ELSE Then(ResizePool(w, "edges", capacity), LAMBDA u : ResizeWeights(u, capacity))

SetCapacity(w, p, capacity) ==
  IF p = "vertices" THEN SetVertexCapacity(w, capacity) ELSE SetEdgeCapacity(w, capacity)

(***************************************************************************)
(* Traversal scratch.                                                      *)
(***************************************************************************)
FreeScratch(w) ==
  LET u == IF w.bytes.work # 0 THEN Release(w, "work", w.cb.work_capacity * 8) ELSE w
      v == IF u.bytes.visited # 0 THEN Release(u, "visited", w.cb.visited_words * 8) ELSE u
  IN [v EXCEPT !.cb.work_capacity = 0, !.cb.visited_words = 0]

Words(capacity) == (capacity + WordBits - 1) \div WordBits

EnsureWork(w, capacity) ==
  IF w.cb.work_capacity >= capacity THEN {Ends(w, "OK")}
  ELSE Then(ResizeBlock(w, "work", w.cb.work_capacity * 8, capacity * 8, 0),
            LAMBDA u : {Ends([u EXCEPT !.cb.work_capacity = capacity], "OK")})

EnsureVisited(w, words) ==
  IF w.cb.visited_words >= words THEN {Ends(w, "OK")}
  ELSE Then(ResizeBlock(w, "visited", w.cb.visited_words * 8, words * 8, 0),
            LAMBDA u : {Ends([u EXCEPT !.cb.visited_words = words], "OK")})

LooksAtWorkOnly(w) ==
  LET capacity == w.cb.capacity.vertices
  IN IF capacity = 0 \/ w.cb.work_capacity >= capacity THEN {Ends(w, "OK")}
     ELSE IF ~BytesFit(capacity, 8) THEN {Ends(w, "OVERFLOW")}
     ELSE Then(EnsureWork(w, capacity), LAMBDA u : EnsureVisited(u, Words(capacity)))

(* Scratch for as many vertices as the pool has room for. *)
EnsureScratch(w) ==
  LET capacity == w.cb.capacity.vertices
      words == Words(capacity)
  IN IF capacity = 0 \/ (w.cb.work_capacity >= capacity /\ w.cb.visited_words >= words)
     THEN {Ends(w, "OK")}
     ELSE IF ~BytesFit(capacity, 8) THEN {Ends(w, "OVERFLOW")}
     ELSE Then(EnsureWork(w, capacity), LAMBDA u : EnsureVisited(u, words))

(***************************************************************************)
(* Version and update phase.                                               *)
(***************************************************************************)
ForgetsDirty(w) ==
  IF w.cb.in_update THEN [w EXCEPT !.touched = TRUE]
  ELSE [w EXCEPT !.steps = @ + 1, !.touched = TRUE]

Touch(w) ==
  IF w.cb.in_update THEN [w EXCEPT !.cb.update_dirty = TRUE, !.touched = TRUE]
  ELSE [w EXCEPT !.steps = @ + 1, !.touched = TRUE]

(* The phase closes and pays for all that happened in it. *)
ClosePhase(w) ==
  [w EXCEPT !.cb.in_update = FALSE, !.cb.update_dirty = FALSE,
            !.steps = IF w.cb.update_dirty THEN @ + 1 ELSE @]

BatchBegin(w) == [w EXCEPT !.cb.in_update = TRUE]

ClosesOuter(w, outer) == ClosePhase(w)

BatchEnd(w, outer) == IF outer THEN w ELSE ClosePhase(w)

(***************************************************************************)
(* Slots.                                                                  *)
(***************************************************************************)
Bump(generation) == IF generation = GenMax THEN 1 ELSE generation + 1

Grow(w, p) ==
  LET next == ClampCapacity(NextCapacity(w.cb.capacity[p]), w.cb.max[p])
  IN IF ~w.cb.growable \/ next <= w.cb.capacity[p] THEN {Ends(w, "FULL")}
     ELSE SetCapacity(w, p, next)

NoLinks == [l \in Lists |-> NoIndex]

(* A slot taken for the first time.  What it holds besides the generation is
   written before it is read.                                               *)
FirstUse(p) ==
  IF p = "vertices"
  THEN [head |-> NoLinks, tail |-> NoLinks, degree |-> [l \in Lists |-> 0],
        generation |-> 1, active |-> FALSE]
  ELSE [src |-> NoIndex, dst |-> NoIndex, next |-> NoLinks, prev |-> NoLinks,
        generation |-> 1, active |-> FALSE]

(* The free-list link of an inactive slot: out_head or next_out. *)
FreeLink(w, p, i) == IF p = "vertices" THEN w.vertices[i].head.out ELSE w.edges[i].next.out

Extend(f, i, x) == [j \in DOMAIN f \cup {i} |-> IF j = i THEN x ELSE f[j]]

GrowsBeforeFree(w, p) ==
  LET free == w.cb.free[p]
      Pop(u) == [w |-> [u EXCEPT !.cb.free[p] = FreeLink(u, p, free)], status |-> "OK", index |-> free]
      Fresh(u) == [w |-> [u EXCEPT !.cb.watermark[p] = @ + 1,
                                   ![p] = Extend(@, u.cb.watermark[p], FirstUse(p))],
                   status |-> "OK", index |-> u.cb.watermark[p]]
      Any(u) == IF free # NoIndex THEN {Pop(u)} ELSE {Fresh(u)}
  IN IF w.cb.watermark[p] = w.cb.capacity[p] THEN Then(Grow(w, p), Any) ELSE Any(w)

(* The slot taken is `index' of the outcome. *)
Take(w, p) ==
  LET free == w.cb.free[p]
      Fresh(u) == [w |-> [u EXCEPT !.cb.watermark[p] = @ + 1,
                                   ![p] = Extend(@, u.cb.watermark[p], FirstUse(p))],
                   status |-> "OK", index |-> u.cb.watermark[p]]
  IN IF free # NoIndex
     THEN {[w |-> [w EXCEPT !.cb.free[p] = FreeLink(w, p, free)], status |-> "OK", index |-> free]}
     ELSE IF w.cb.watermark[p] = w.cb.capacity[p]
     THEN Then(Grow(w, p), LAMBDA u : {Fresh(u)})
     ELSE {Fresh(w)}

(* Handle validation: of a slot in use, under the generation it has now. *)
Live(w, p, h) ==
  /\ h.generation # 0 /\ h.index < w.cb.watermark[p]
  /\ w[p][h.index].active /\ w[p][h.index].generation = h.generation

HandleOf(w, p, i) == [index |-> i, generation |-> w[p][i].generation]

NoHandle == [index |-> NoIndex, generation |-> 0]

(***************************************************************************)
(* Incidence lists.                                                        *)
(***************************************************************************)
EndOf(edge, l) == IF l = "out" THEN edge.src ELSE edge.dst

(* On list l of v, edge prev is followed by next, or v's head is next. *)
FollowedBy(w, l, v, prev, next) ==
  IF prev = NoIndex THEN [w EXCEPT !.vertices[v].head[l] = next] ELSE [w EXCEPT !.edges[prev].next[l] = next]

(* On list l of v, edge next is preceded by prev, or v's tail is prev. *)
PrecededBy(w, l, v, next, prev) ==
  IF next = NoIndex THEN [w EXCEPT !.vertices[v].tail[l] = prev] ELSE [w EXCEPT !.edges[next].prev[l] = prev]

(* Edge e is the last of list l of v, after tail. *)
PutLast(w, l, v, e, tail) ==
  [w EXCEPT !.edges[e].next[l] = NoIndex, !.edges[e].prev[l] = tail,
            !.vertices[v].tail[l] = e, !.vertices[v].degree[l] = @ + 1]

Append1(w, l, v, e) ==
  LET tail == w.vertices[v].tail[l] IN PutLast(FollowedBy(w, l, v, tail, e), l, v, e, tail)

LinkEdge(w, e, src, dst) ==
  LET u == [w EXCEPT !.edges[e].src = src, !.edges[e].dst = dst, !.edges[e].active = TRUE]
  IN Append1(Append1(u, "out", src, e), "in", dst, e)

KeepsTail(w, l, e) ==
  LET v == EndOf(w.edges[e], l)
      prev == w.edges[e].prev[l]
      next == w.edges[e].next[l]
      fore == FollowedBy(w, l, v, prev, next)
      aft == IF next = NoIndex THEN fore ELSE PrecededBy(fore, l, v, next, prev)
  IN [aft EXCEPT !.vertices[v].degree[l] = @ - 1]

Remove1(w, l, e) ==
  LET v == EndOf(w.edges[e], l)
      prev == w.edges[e].prev[l]
      next == w.edges[e].next[l]
  IN [PrecededBy(FollowedBy(w, l, v, prev, next), l, v, next, prev) EXCEPT !.vertices[v].degree[l] = @ - 1]

UnlinkEdge(w, e) == Remove1(Remove1(w, "out", e), "in", e)

(* The slot is retired, and every handle to it is stale from here on. *)
KeepsGeneration(w, e) ==
  LET u == UnlinkEdge(w, e)
  IN [u EXCEPT !.edges[e] = [@ EXCEPT !.active = FALSE, !.next.out = u.cb.free.edges],
               !.cb.free.edges = e, !.cb.count.edges = @ - 1]

ReleaseEdge(w, e) ==
  LET u == UnlinkEdge(w, e)
  IN [u EXCEPT !.edges[e] = [@ EXCEPT !.active = FALSE, !.generation = Bump(u.edges[e].generation),
                                      !.next.out = u.cb.free.edges],
               !.cb.free.edges = e, !.cb.count.edges = @ - 1]

(* The slots on a chain of links, read from its head on, one more than there
   can be if the chain never ends.                                          *)
Chain(link, head) ==
  LET read[k \in 0 .. Cardinality(DOMAIN link)] ==
        [i \in DOMAIN link |-> IF k = 0 \/ link[i] \notin DOMAIN link THEN <<i>>
                              ELSE <<i>> \o read[k - 1][link[i]]]
  IN IF head \in DOMAIN link THEN read[Cardinality(DOMAIN link)][head] ELSE <<>>

NextOn(w, l) == [e \in DOMAIN w.edges |-> w.edges[e].next[l]]

ListOf(w, l, v) == Chain(NextOn(w, l), w.vertices[v].head[l])

FreeLinks(w, p) == [i \in DOMAIN w[p] |-> FreeLink(w, p, i)]

FreeList(w, p) == Chain(FreeLinks(w, p), w.cb.free[p])
=============================================================================
