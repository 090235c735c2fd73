------------------------------ MODULE DvGraph ------------------------------
(* The graph of graph/dv_graph.c and the iterators of graph/dv_graph.h: one
   action for each call, over the pools, lists and memory of GraphPools.

   What a traversal does besides sizing its scratch is in GraphWalk.        *)
EXTENDS GraphPools

CONSTANTS Configs,       \* configurations passed to dv_graph_init
          Allocators,    \* which hooks the caller's allocator has
          Weights,       \* edge weights
          SpecLists,     \* lists of [src, dst] slots and weight for dv_graph_add_edges
          Counts,        \* counts passed to dv_graph_add_vertices
          Reserves,      \* capacities passed to dv_graph_reserve_*
          IterKinds,     \* iterators the caller opens: "out", "in", "both", "vertices"
          IterSlots,     \* bound: slots of a graph that iterators are begun on
          Watched        \* pools of which the caller keeps a handle

ASSUME GraphAssumption ==
  /\ Configs \subseteq [directed : BOOLEAN, weighted : BOOLEAN, growable : BOOLEAN,
                        reject_parallel_edges : BOOLEAN, reject_self_loops : BOOLEAN,
                        initial : [Pools -> Nat], max : [Pools -> Nat]]
  /\ Allocators \subseteq [alloc : BOOLEAN, realloc : BOOLEAN, free : BOOLEAN]
  /\ SpecLists \subseteq Seq([src : Nat, dst : Nat, weight : Weights])
  /\ Counts \subseteq Nat /\ Reserves \subseteq Nat
  /\ IterKinds \subseteq Lists \cup {"both", "vertices"}
  /\ IterSlots \in Nat /\ Watched \subseteq Pools
  /\ Garbage \notin Weights

VARIABLES graph,        \* the control block, dv_graph_t
          vertices,     \* the slots of the vertex pool
          edges,        \* the slots of the edge pool
          weights,      \* the weights, parallel to the edge pool
          bytes,        \* bytes of each block the control block points to, 0 for NULL
          outstanding,  \* bytes the allocator has handed out and not got back
          contract,     \* history: every call so far kept to the hooks' contract
          iter,         \* an iterator of the caller
          watch,        \* history: a handle the caller keeps, and how often its slot
                        \*   was retired since the handle was issued
          last          \* the last call and its reply

vars == <<graph, vertices, edges, weights, bytes, outstanding, contract, iter, watch, last>>

Zeroed ==
  [capacity |-> [p \in Pools |-> 0], count |-> [p \in Pools |-> 0],
   free |-> [p \in Pools |-> 0], watermark |-> [p \in Pools |-> 0],
   initial |-> [p \in Pools |-> 0], max |-> [p \in Pools |-> 0],
   weight_capacity |-> 0, work_capacity |-> 0, visited_words |-> 0,
   allocator |-> [alloc |-> FALSE, realloc |-> FALSE, free |-> FALSE],
   directed |-> FALSE, weighted |-> FALSE, growable |-> FALSE,
   reject_parallel_edges |-> FALSE, reject_self_loops |-> FALSE,
   in_update |-> FALSE, update_dirty |-> FALSE]

NoIter == [kind |-> "none", vertex |-> NoIndex, at |-> NoIndex, incoming |-> FALSE,
           current |-> FALSE, touched |-> FALSE, seen |-> <<>>]

NoWatch == [pool |-> "none", handle |-> NoHandle, age |-> 0]

W == [cb |-> graph, vertices |-> vertices, edges |-> edges, weights |-> weights,
      bytes |-> bytes, outstanding |-> outstanding, contract |-> contract,
      calls |-> {}, steps |-> 0, touched |-> FALSE]

(***************************************************************************)
(* The end of a call.                                                      *)
(***************************************************************************)
InUse(pool, i) == i \in DOMAIN pool /\ pool[i].active

(* A handle whose slot came round to its generation again is forgotten: with
   GenMax retirements in between no tag of this width could tell.           *)
Aged(w) ==
  IF watch = NoWatch THEN NoWatch
  ELSE LET i == watch.handle.index
           retired == InUse(W[watch.pool], i) /\ ~InUse(w[watch.pool], i)
       IN IF ~retired THEN watch
          ELSE IF watch.age + 1 = GenMax THEN NoWatch
          ELSE [watch EXCEPT !.age = @ + 1]

(* A step of the version leaves the iterators of the caller behind. *)
Overtaken(w) ==
  [iter EXCEPT !.current = @ /\ w.steps = 0,
               !.touched = iter # NoIter /\ (@ \/ w.touched),
               !.seen = IF w.touched \/ w.steps > 0 THEN <<>> ELSE @]

Put(op, w, reply) ==
  /\ graph' = w.cb /\ vertices' = w.vertices /\ edges' = w.edges /\ weights' = w.weights
  /\ bytes' = w.bytes /\ outstanding' = w.outstanding /\ contract' = w.contract
  /\ last' = [op |-> op, reply |-> reply, steps |-> w.steps, calls |-> w.calls]

Reply(status, args, n, out) == [status |-> status, args |-> args, n |-> n, out |-> out]

(* A call that issues no handle. *)
Commit(op, w, reply) ==
  /\ Put(op, w, reply)
  /\ iter' = Overtaken(w)
  /\ watch' = Aged(w)

(* A call that issues handle h, which the caller may keep. *)
Issue(op, w, reply, p, h) ==
  /\ Put(op, w, reply)
  /\ iter' = Overtaken(w)
  /\ watch' \in {Aged(w)} \cup (IF p \in Watched THEN {[pool |-> p, handle |-> h, age |-> 0]} ELSE {})

(* A call after which neither handles nor iterators may be used. *)
Forget(op, w, reply) ==
  /\ Put(op, w, reply)
  /\ iter' = IF op = "reset" THEN Overtaken(w) ELSE NoIter
  /\ watch' = NoWatch

Ready == graph # Zeroed

(***************************************************************************)
(* Lifecycle.                                                              *)
(***************************************************************************)
Refusal(config, allocator) ==
  IF \E p \in Pools : config.initial[p] > MaxCapacity \/ config.max[p] > MaxCapacity
  THEN "OVERFLOW"
  ELSE IF \/ config.growable /\ \E p \in Pools : config.max[p] # 0 /\ config.max[p] < config.initial[p]
          \/ ~allocator.alloc \/ ~allocator.free
  THEN "INVALID"
  ELSE "none"

(* A fixed graph's ceilings are its initial capacities. *)
Configured(config, allocator) ==
  [Zeroed EXCEPT
     !.free = [p \in Pools |-> NoIndex],
     !.initial = config.initial,
     !.max = IF config.growable THEN config.max ELSE config.initial,
     !.allocator = allocator,
     !.directed = config.directed, !.weighted = config.weighted, !.growable = config.growable,
     !.reject_parallel_edges = config.reject_parallel_edges,
     !.reject_self_loops = config.reject_self_loops]

Empty == [i \in 0 .. -1 |-> Garbage]

(* Every block goes back, under the size its counter stands for. *)
Destroyed(w) ==
  LET back(u, b, n) == IF u.bytes[b] # 0 /\ BytesFit(n, SlotSize(b)) THEN Release(u, b, n * SlotSize(b)) ELSE u
      pools == back(back(w, "vertices", w.cb.capacity.vertices), "edges", w.cb.capacity.edges)
      freed == FreeScratch(back(pools, "weights", w.cb.weight_capacity))
  IN [(IF w.cb.allocator.free THEN freed ELSE w) EXCEPT
        !.cb = Zeroed, !.vertices = Empty, !.edges = Empty, !.weights = Empty]

(* A fixed graph gets its scratch here. *)
Built(w, config) ==
  LET pools == Then(SetVertexCapacity(w, config.initial.vertices),
                    LAMBDA u : SetEdgeCapacity(u, config.initial.edges))
  IN IF config.growable THEN pools ELSE Then(pools, EnsureScratch)

(* A failure gives everything back. *)
GraphInit(config, allocator) ==
  LET w == [W EXCEPT !.cb = Configured(config, allocator)]
      refusal == Refusal(config, allocator)
  IN /\ graph = Zeroed
     /\ IF refusal # "none" THEN Forget("init", W, Reply(refusal, <<>>, 0, <<>>))
        ELSE \E r \in Built(w, config) :
               Forget("init", IF r.status = "OK" THEN r.w ELSE Destroyed(r.w),
                      Reply(r.status, <<>>, 0, <<>>))

Destroy == Ready /\ Forget("destroy", Destroyed(W), Reply("OK", <<>>, 0, <<>>))

(* All slots below the mark in one free list, the live ones retired. *)
Retired(rec) ==
  [rec EXCEPT !.generation = IF rec.active THEN Bump(rec.generation) ELSE rec.generation, !.active = FALSE]

Cleared(w) ==
  LET link(p, i) == IF i + 1 = w.cb.watermark[p] THEN NoIndex ELSE i + 1
  IN [w EXCEPT
        !.edges = [i \in DOMAIN w.edges |-> [Retired(w.edges[i]) EXCEPT !.next.out = link("edges", i)]],
        !.vertices = [i \in DOMAIN w.vertices |->
                        [Retired(w.vertices[i]) EXCEPT
                           !.head = [out |-> link("vertices", i), in |-> NoIndex],
                           !.tail = NoLinks, !.degree = [l \in Lists |-> 0]]],
        !.cb.free = [p \in Pools |-> IF w.cb.watermark[p] = 0 THEN NoIndex ELSE 0],
        !.cb.count = [p \in Pools |-> 0]]

Clear == Ready /\ Commit("clear", Touch(Cleared(W)), Reply("OK", <<>>, 0, <<>>))

(* Both pools are resized, whatever becomes of the first; the first failure is
   the reply.                                                               *)
ResizeBoth(w, target) ==
  UNION {{[r EXCEPT !.status = IF q.status = "OK" THEN @ ELSE q.status] :
            r \in SetCapacity(q.w, "edges", target.edges)} :
         q \in SetCapacity(w, "vertices", target.vertices)}

(* The high-water marks drop, and slot generations start over. *)
Emptied(w) ==
  [w EXCEPT !.cb.watermark = [p \in Pools |-> 0],
            !.cb.free = [p \in Pools |-> NoIndex],
            !.cb.count = [p \in Pools |-> 0],
            !.cb.in_update = FALSE, !.cb.update_dirty = FALSE,
            !.vertices = Empty, !.edges = Empty, !.weights = Empty,
            !.steps = 1, !.touched = TRUE]

Reset ==
  /\ Ready
  /\ \E r \in ResizeBoth(Emptied(W), graph.initial) : Forget("reset", r.w, Reply(r.status, <<>>, 0, <<>>))

BeginUpdate ==
  /\ Ready
  /\ IF graph.in_update THEN Commit("begin", W, Reply("INVALID", <<>>, 0, <<>>))
     ELSE Commit("begin", [W EXCEPT !.cb.in_update = TRUE, !.cb.update_dirty = FALSE],
                 Reply("OK", <<>>, 0, <<>>))

CommitUpdate ==
  /\ Ready
  /\ IF graph.in_update THEN Commit("commit", ClosePhase(W), Reply("OK", <<>>, 0, <<>>))
     ELSE Commit("commit", W, Reply("INVALID", <<>>, 0, <<>>))

(***************************************************************************)
(* Vertices.                                                               *)
(***************************************************************************)
NewVertex(w, i) ==
  Touch([w EXCEPT !.vertices[i] = [@ EXCEPT !.head = NoLinks, !.tail = NoLinks,
                                            !.degree = [l \in Lists |-> 0], !.active = TRUE],
                  !.cb.count.vertices = @ + 1])

(* Outcomes of dv_graph_add_vertex, with the slot when there is one. *)
AddVertexTo(w) ==
  {IF r.status = "OK" THEN [r EXCEPT !.w = NewVertex(@, r.index)]
   ELSE [w |-> r.w, status |-> r.status, index |-> NoIndex] : r \in Take(w, "vertices")}

AddVertex ==
  /\ Ready
  /\ \E r \in AddVertexTo(W) :
       IF r.status = "OK"
       THEN Issue("add_vertex", r.w, Reply("OK", <<>>, 1, <<r.index>>), "vertices",
                  HandleOf(r.w, "vertices", r.index))
       ELSE Commit("add_vertex", r.w, Reply(r.status, <<>>, 0, <<>>))

(* Out-edges, then the in-edges that are left. *)
ReleaseList(w, l, v) ==
  LET list == ListOf(w, l, v)
      left[k \in 0 .. Len(list)] == IF k = 0 THEN w ELSE ReleaseEdge(left[k - 1], list[k])
  IN left[Len(list)]

RetireVertex(w, v) ==
  Touch([w EXCEPT !.vertices[v] = [@ EXCEPT !.active = FALSE, !.generation = Bump(w.vertices[v].generation),
                                            !.head.out = w.cb.free.vertices],
                  !.cb.free.vertices = v,
                  !.cb.count.vertices = @ - 1])

RemoveVertex(h) ==
  /\ Ready
  /\ IF Live(W, "vertices", h)
     THEN Commit("remove_vertex",
                 RetireVertex(ReleaseList(ReleaseList(W, "out", h.index), "in", h.index), h.index),
                 Reply("OK", <<h.index>>, 1, <<>>))
     ELSE Commit("remove_vertex", W, Reply("STALE", <<>>, 0, <<>>))

(***************************************************************************)
(* Edges.                                                                  *)
(***************************************************************************)
(* The first edge of a list with u at its far end. *)
Hit(w, l, v, u) ==
  LET list == ListOf(w, l, v)
      far(e) == IF l = "out" THEN w.edges[e].dst ELSE w.edges[e].src
      hits == {k \in DOMAIN list : far(list[k]) = u}
  IN IF hits = {} THEN NoIndex ELSE list[CHOOSE k \in hits : \A j \in hits : k <= j]

FullDegree(w, v) == w.vertices[v].degree.out + w.vertices[v].degree.in

OutListsOnly(w, a, b) ==
  IF w.cb.directed \/ FullDegree(w, a) <= FullDegree(w, b) THEN Hit(w, "out", a, b) ELSE Hit(w, "out", b, a)

(* The edge from a to b, or between them, found in the shorter list. *)
LocateEdge(w, a, b) ==
  LET Either(v, u) == LET e == Hit(w, "out", v, u) IN IF e # NoIndex THEN e ELSE Hit(w, "in", v, u)
  IN IF w.cb.directed
     THEN IF w.vertices[a].degree.out <= w.vertices[b].degree.in
          THEN Hit(w, "out", a, b) ELSE Hit(w, "in", b, a)
     ELSE IF FullDegree(w, a) <= FullDegree(w, b) THEN Either(a, b) ELSE Either(b, a)

NewEdge(w, e, src, dst, weight) ==
  LET u == LinkEdge(w, e, src, dst)
  IN Touch([u EXCEPT !.weights = IF u.bytes.weights # 0 THEN Extend(@, e, weight) ELSE @,
                     !.cb.count.edges = @ + 1])

NoEdge(w, status) == [w |-> w, status |-> status, index |-> NoIndex]

(* Outcomes of dv_graph_add_edge, with the slot when there is one. *)
AddEdgeTo(w, src, dst, weight) ==
  IF ~Live(w, "vertices", src) \/ ~Live(w, "vertices", dst) THEN {NoEdge(w, "STALE")}
  ELSE IF w.cb.reject_self_loops /\ src.index = dst.index THEN {NoEdge(w, "INVALID")}
  ELSE IF w.cb.reject_parallel_edges /\ LocateEdge(w, src.index, dst.index) # NoIndex
  THEN {NoEdge(w, "EXISTS")}
  ELSE {IF r.status = "OK" THEN [r EXCEPT !.w = NewEdge(@, r.index, src.index, dst.index, weight)]
        ELSE NoEdge(r.w, r.status) : r \in Take(w, "edges")}

Pair(src, dst) == <<src.index, dst.index>>

AddEdge(src, dst, weight) ==
  /\ Ready
  /\ \E r \in AddEdgeTo(W, src, dst, weight) :
       IF r.status = "OK"
       THEN Issue("add_edge", r.w, Reply("OK", <<[src |-> src.index, dst |-> dst.index, weight |-> weight]>>,
                                         1, <<r.index>>),
                  "edges", HandleOf(r.w, "edges", r.index))
       ELSE Commit("add_edge", r.w, Reply(r.status, <<[src |-> src.index, dst |-> dst.index, weight |-> weight]>>, 0, <<>>))

RemoveEdge(h) ==
  /\ Ready
  /\ IF Live(W, "edges", h)
     THEN Commit("remove_edge", Touch(ReleaseEdge(W, h.index)), Reply("OK", <<h.index>>, 1, <<>>))
     ELSE Commit("remove_edge", W, Reply("STALE", <<>>, 0, <<>>))

(* dv_graph_find_edge, and dv_graph_remove_edge_between which removes what it
   finds.                                                                   *)
FindEdge(src, dst) ==
  LET e == LocateEdge(W, src.index, dst.index) IN
  /\ Ready
  /\ IF ~Live(W, "vertices", src) \/ ~Live(W, "vertices", dst)
     THEN Commit("find_edge", W, Reply("STALE", <<>>, 0, <<>>))
     ELSE IF e = NoIndex THEN Commit("find_edge", W, Reply("NOT_FOUND", Pair(src, dst), 0, <<>>))
     ELSE Issue("find_edge", W, Reply("OK", Pair(src, dst), 0, <<e>>), "edges", HandleOf(W, "edges", e))

RemoveEdgeBetween(src, dst) ==
  LET e == LocateEdge(W, src.index, dst.index) IN
  /\ Ready
  /\ IF ~Live(W, "vertices", src) \/ ~Live(W, "vertices", dst)
     THEN Commit("remove_between", W, Reply("STALE", <<>>, 0, <<>>))
     ELSE IF e = NoIndex THEN Commit("remove_between", W, Reply("NOT_FOUND", Pair(src, dst), 0, <<>>))
     ELSE Commit("remove_between", Touch(ReleaseEdge(W, e)), Reply("OK", Pair(src, dst), 1, <<e>>))

EdgeEndpoints(h) ==
  /\ Ready
  /\ IF ~Live(W, "edges", h) THEN Commit("endpoints", W, Reply("STALE", <<>>, 0, <<>>))
     ELSE Commit("endpoints", W, Reply("OK", <<h.index>>, 0, <<edges[h.index].src, edges[h.index].dst>>))

EdgeWeight(h) ==
  /\ Ready
  /\ IF bytes.weights = 0 THEN Commit("weight", W, Reply("INVALID", <<>>, 0, <<>>))
     ELSE IF ~Live(W, "edges", h) THEN Commit("weight", W, Reply("STALE", <<>>, 0, <<>>))
     ELSE Commit("weight", W, Reply("OK", <<h.index>>, 0, <<weights[h.index]>>))

(* Not topology: the version holds. *)
SetEdgeWeight(h, weight) ==
  /\ Ready
  /\ IF bytes.weights = 0 THEN Commit("set_weight", W, Reply("INVALID", <<>>, 0, <<>>))
     ELSE IF ~Live(W, "edges", h) THEN Commit("set_weight", W, Reply("STALE", <<>>, 0, <<>>))
     ELSE Commit("set_weight", [W EXCEPT !.weights[h.index] = weight], Reply("OK", <<h.index, weight>>, 0, <<>>))

(* dv_graph_out_degree, dv_graph_in_degree and their sum: 0 of what is not
   there.                                                                   *)
Degree(h) ==
  /\ Ready
  /\ Commit("degree", W, IF Live(W, "vertices", h)
                         THEN Reply("OK", <<h.index>>, 0, <<vertices[h.index].degree.out, vertices[h.index].degree.in>>)
                         ELSE Reply("OK", <<>>, 0, <<0, 0>>))

(***************************************************************************)
(* Capacity.                                                               *)
(***************************************************************************)
ReserveIn(w, p, capacity) ==
  IF capacity <= w.cb.capacity[p] THEN {Ends(w, "OK")}
  ELSE IF ~w.cb.growable \/ (w.cb.max[p] # 0 /\ capacity > w.cb.max[p]) THEN {Ends(w, "FULL")}
  ELSE IF capacity > MaxCapacity THEN {Ends(w, "OVERFLOW")}
  ELSE SetCapacity(w, p, capacity)

Reserve(p, capacity) ==
  /\ Ready
  /\ \E r \in ReserveIn(W, p, capacity) : Commit("reserve", r.w, Reply(r.status, <<>>, 0, <<>>))

ReserveTraversal ==
  /\ Ready
  /\ \E r \in EnsureScratch(W) : Commit("reserve_traversal", r.w, Reply(r.status, <<>>, 0, <<>>))

ShrinkToFit ==
  /\ Ready
  /\ IF ~graph.growable THEN Commit("shrink", W, Reply("OK", <<>>, 0, <<>>))
     ELSE \E r \in ResizeBoth(W, graph.watermark) :
            Commit("shrink", FreeScratch(r.w), Reply(r.status, <<>>, 0, <<>>))

(***************************************************************************)
(* Bulk operations.                                                        *)
(***************************************************************************)
(* Room for the batch in one resize: on the growth curve, else exactly.  The
   outcome is not looked at.                                                *)
ReserveForBulk(w, p, count) ==
  LET needed == w.cb.count[p] + count
      curve == NextCapacity(w.cb.capacity[p])
      clamped == ClampCapacity(IF needed > curve THEN needed ELSE curve, w.cb.max[p])
      exact == ClampCapacity(needed, w.cb.max[p])
  IN IF count > MaxCapacity - w.cb.count[p] \/ needed <= w.cb.capacity[p] THEN {w}
     ELSE UNION {IF r.status # "OK" /\ exact < clamped
                 THEN {q.w : q \in ReserveIn(r.w, p, exact)} ELSE {r.w} :
                 r \in ReserveIn(w, p, clamped)}

(* The outcomes of one more insertion in a run of them. *)
InsertNext(run, p, item) ==
  IF run.stopped THEN {run}
  ELSE {IF r.status = "OK" THEN [run EXCEPT !.w = r.w, !.out = Append(@, r.index)]
        ELSE [run EXCEPT !.w = r.w, !.stopped = TRUE] :
        r \in IF p = "vertices" THEN AddVertexTo(run.w) ELSE AddEdgeTo(run.w, item.src, item.dst, item.weight)}

(* One insertion after another until one fails, as one step of the version. *)
Insert(w, p, items) ==
  LET start == IF w.cb.growable THEN ReserveForBulk(w, p, Len(items)) ELSE {w}
      runs[k \in 0 .. Len(items)] ==
        IF k = 0 THEN {[w |-> BatchBegin(u), out |-> <<>>, stopped |-> FALSE] : u \in start}
        ELSE UNION {InsertNext(run, p, items[k]) : run \in runs[k - 1]}
  IN IF items = <<>> THEN {[w |-> w, out |-> <<>>]}
     ELSE {[w |-> BatchEnd(run.w, w.cb.in_update), out |-> run.out] : run \in runs[Len(items)]}

AddVertices(count) ==
  /\ Ready
  /\ \E r \in Insert(W, "vertices", [i \in 1 .. count |-> i]) :
       Commit("add_vertices", r.w, Reply("OK", <<count>>, Len(r.out), r.out))

(* The specs name vertices by the handles of their slots, or by none. *)
AddEdges(specs) ==
  LET at(i) == IF InUse(vertices, i) THEN HandleOf(W, "vertices", i) ELSE NoHandle
      named == [k \in DOMAIN specs |-> [specs[k] EXCEPT !.src = at(@), !.dst = at(@)]]
  IN /\ Ready
     /\ \E r \in Insert(W, "edges", named) :
          Commit("add_edges", r.w, Reply("OK", specs, Len(r.out), r.out))

(***************************************************************************)
(* Iteration and traversal.                                                *)
(***************************************************************************)
(* Iterators read the graph and leave it alone. *)
Look(op, reply) ==
  /\ last' = [op |-> op, reply |-> reply, steps |-> 0, calls |-> {}]
  /\ UNCHANGED <<graph, vertices, edges, weights, bytes, outstanding, contract, watch>>

IterBegin(kind, h) ==
  LET opened == [NoIter EXCEPT !.kind = kind, !.vertex = h.index, !.current = TRUE,
                               !.incoming = kind = "in",
                               !.at = vertices[h.index].head[IF kind = "in" THEN "in" ELSE "out"]]
  IN /\ Ready
     /\ IF Live(W, "vertices", h)
        THEN iter' = opened /\ Look("iter_begin", Reply("OK", <<>>, 0, <<>>))
        ELSE iter' = NoIter /\ Look("iter_begin", Reply("STALE", <<>>, 0, <<>>))

VerticesBegin ==
  /\ Ready
  /\ iter' = [NoIter EXCEPT !.kind = "vertices", !.at = 0, !.current = TRUE]
  /\ Look("iter_begin", Reply("OK", <<>>, 0, <<>>))

Finished == iter' = NoIter /\ Look("iter_next", Reply("DONE", <<>>, 0, <<>>))

(* What the walk saw is remembered until the graph changes under it. *)
Yield(i, next, incoming, out) ==
  /\ iter' = [iter EXCEPT !.at = next, !.incoming = incoming,
                          !.seen = IF iter.touched THEN @ ELSE Append(@, i)]
  /\ Look("iter_next", Reply("OK", <<>>, 0, out))

EdgeIterNext ==
  LET crosses == iter.at = NoIndex /\ iter.kind = "both" /\ ~iter.incoming
      at == IF crosses THEN vertices[iter.vertex].head.in ELSE iter.at
      incoming == iter.incoming \/ crosses
      e == edges[at]
      neighbor == IF e.src = iter.vertex /\ ~incoming THEN e.dst ELSE e.src
  IN /\ iter.kind \in Lists \cup {"both"}
     /\ IF ~iter.current \/ at = NoIndex THEN Finished
        ELSE Yield(at, e.next[IF incoming THEN "in" ELSE "out"], incoming,
                   <<HandleOf(W, "edges", at), HandleOf(W, "vertices", neighbor)>>)

VertexIterNext ==
  LET ahead == {i \in DOMAIN vertices : i >= iter.at /\ vertices[i].active}
      i == CHOOSE i \in ahead : \A j \in ahead : i <= j
  IN /\ iter.kind = "vertices"
     /\ IF ~iter.current THEN Finished
        ELSE IF ahead = {}
        THEN /\ iter' = [iter EXCEPT !.at = graph.watermark.vertices]
             /\ Look("iter_next", Reply("DONE", <<>>, 0, <<>>))
        ELSE Yield(i, i + 1, FALSE, <<HandleOf(W, "vertices", i)>>)

(* The beginning of dv_graph_bfs, dv_graph_dfs and dv_graph_reachable. *)
Traverse(h) ==
  /\ Ready
  /\ IF ~Live(W, "vertices", h) THEN Commit("traverse", W, Reply("STALE", <<>>, 0, <<>>))
     ELSE \E r \in EnsureScratch(W) : Commit("traverse", r.w, Reply(r.status, <<>>, 0, <<>>))

(***************************************************************************)
(* The specification.                                                      *)
(***************************************************************************)
Init ==
  /\ graph = Zeroed
  /\ vertices = Empty /\ edges = Empty /\ weights = Empty
  /\ bytes = [b \in Blocks |-> 0]
  /\ outstanding = 0
  /\ contract = TRUE
  /\ iter = NoIter
  /\ watch = NoWatch
  /\ last = [op |-> "none", reply |-> Reply("OK", <<>>, 0, <<>>), steps |-> 0, calls |-> {}]

(* Handles a caller may pass: any tag for any slot ever taken, or none. *)
Handles(p) == [index : DOMAIN W[p], generation : 1 .. GenMax] \cup {NoHandle}

(* Bound: iterators are begun on small graphs, and without weights, of which an
   iterator only hands out a copy.                                          *)
Walkable == ~graph.weighted /\ graph.capacity.vertices + graph.capacity.edges <= IterSlots

Next ==
  \/ \E config \in Configs, allocator \in Allocators : GraphInit(config, allocator)
  \/ Destroy \/ Clear \/ Reset \/ BeginUpdate \/ CommitUpdate
  \/ AddVertex
  \/ \E h \in Handles("vertices") : RemoveVertex(h) \/ Degree(h) \/ Traverse(h)
  \/ \E s, d \in Handles("vertices") :
       \/ \E weight \in Weights : AddEdge(s, d, weight)
       \/ RemoveEdgeBetween(s, d)
       \/ FindEdge(s, d)
  \/ \E h \in Handles("edges") :
       \/ RemoveEdge(h) \/ EdgeEndpoints(h) \/ EdgeWeight(h)
       \/ \E weight \in Weights : SetEdgeWeight(h, weight)
  \/ \E p \in Pools, capacity \in Reserves : Reserve(p, capacity)
  \/ ReserveTraversal \/ ShrinkToFit
  \/ \E count \in Counts : AddVertices(count)
  \/ \E specs \in SpecLists : AddEdges(specs)
  \/ \E kind \in IterKinds \ {"vertices"}, h \in Handles("vertices") : Walkable /\ IterBegin(kind, h)
  \/ "vertices" \in IterKinds /\ Walkable /\ VerticesBegin
  \/ EdgeIterNext \/ VertexIterNext

Spec == Init /\ [][Next]_vars

(***************************************************************************)
(* Correctness.                                                            *)
(***************************************************************************)
LiveSlots(p) == {i \in DOMAIN W[p] : W[p][i].active}

TypeOK ==
  /\ \A p \in Pools : /\ graph.capacity[p] \in 0 .. MaxCapacity
                      /\ graph.watermark[p] \in 0 .. graph.capacity[p]
                      /\ graph.free[p] \in DOMAIN W[p] \cup {NoIndex, 0}
                      /\ DOMAIN W[p] = 0 .. graph.watermark[p] - 1
  /\ \A v \in DOMAIN vertices : vertices[v].generation \in 1 .. GenMax
  /\ \A e \in DOMAIN edges : edges[e].generation \in 1 .. GenMax
  /\ contract \in BOOLEAN /\ outstanding \in Nat

(***************************************************************************)
(* dv_graph_is_valid.                                                      *)
(***************************************************************************)
ChainSound(l, v) ==
  LET chain == ListOf(W, l, v)
      rec == vertices[v]
  IN /\ Len(chain) = rec.degree[l]
     /\ \A k \in DOMAIN chain : edges[chain[k]].active /\ EndOf(edges[chain[k]], l) = v
     /\ rec.head[l] = NoIndex <=> rec.tail[l] = NoIndex

LinksSound(l, e) ==
  LET v == EndOf(edges[e], l)
      prev == edges[e].prev[l]
      next == edges[e].next[l]
  IN /\ InUse(vertices, v)
     /\ IF prev = NoIndex THEN vertices[v].head[l] = e ELSE edges[prev].next[l] = e
     /\ IF next = NoIndex THEN vertices[v].tail[l] = e ELSE edges[next].prev[l] = e

FreeListSound(p) ==
  LET free == FreeList(W, p)
  IN /\ \A k \in DOMAIN free : ~W[p][free[k]].active
     /\ NoIndex = IF free = <<>> THEN graph.free[p] ELSE FreeLink(W, p, free[Len(free)])
     /\ graph.count[p] + Len(free) = graph.watermark[p]

DegreeSum(l) ==
  LET sum[n \in 0 .. graph.watermark.vertices] ==
        IF n = 0 THEN 0
        ELSE sum[n - 1] + IF vertices[n - 1].active THEN vertices[n - 1].degree[l] ELSE 0
  IN sum[graph.watermark.vertices]

IsValid ==
  /\ \A p \in Pools : /\ graph.watermark[p] <= graph.capacity[p]
                      /\ graph.watermark[p] > 0 => bytes[p] # 0
                      /\ graph.count[p] = Cardinality(LiveSlots(p))
                      /\ \A i \in LiveSlots(p) : W[p][i].generation # 0
                      /\ FreeListSound(p)
  /\ graph.weighted /\ graph.capacity.edges > 0 =>
       bytes.weights # 0 /\ graph.weight_capacity >= graph.capacity.edges
  /\ \A l \in Lists : /\ \A v \in LiveSlots("vertices") : ChainSound(l, v)
                      /\ \A e \in LiveSlots("edges") : LinksSound(l, e)
                      /\ DegreeSum(l) = graph.count.edges

(***************************************************************************)
(* Correctness.                                                            *)
(***************************************************************************)
(* link_edge, unlink_edge, release_edge, take_* and clear keep the structure
   that dv_graph_is_valid walks: every incidence list doubly linked and as long
   as its degree, every live edge on exactly the two lists of its ends, and
   every slot below a mark live or on the free list of its pool.            *)
StructureSound == TypeOK /\ (Ready => IsValid)

(* The memory side of every resize, also when one of two blocks is refused:
   each counter stands for exactly the bytes of its block, so that every hook
   call names the size that was handed out, nothing leaks, the weights cover
   the edge pool, and no move of a block loses a slot in use.               *)
MemoryAccounted ==
  /\ contract
  /\ outstanding = bytes.vertices + bytes.edges + bytes.weights + bytes.work + bytes.visited
  /\ \A p \in Pools : bytes[p] = graph.capacity[p] * SlotSize(p)
  /\ bytes.weights = graph.weight_capacity * 8
  /\ bytes.work = graph.work_capacity * 8
  /\ bytes.visited = graph.visited_words * 8
  /\ IF graph.weighted THEN graph.weight_capacity >= graph.capacity.edges
     ELSE graph.weight_capacity = 0
  /\ \A p \in Pools : \A i \in DOMAIN W[p] : W[p][i] # Garbage
  /\ graph.weighted => \A e \in LiveSlots("edges") : weights[e] # Garbage

(* max_vertex_capacity, max_edge_capacity and growable of dv_graph_config_t: no
   sequence of insertions, batches, reserves, shrinks and resets takes a pool
   past its ceiling, and the pools of a fixed graph stay as they are.       *)
CeilingKept ==
  \A p \in Pools : /\ graph.max[p] # 0 => graph.capacity[p] <= graph.max[p]
                   /\ ~graph.growable => graph.capacity[p] = graph.initial[p]

(* README.md:16 of the library: a handle is accepted for as long as what it was
   issued for is there, and from its removal on it is refused, whatever moved
   into the slot since, until the generation of the slot comes round.       *)
HandleExact ==
  watch # NoWatch => (Live(W, watch.pool, watch.handle) <=> watch.age = 0)

Rest ==
  IF iter.kind = "vertices"
  THEN SelectSeq([k \in 1 .. graph.watermark.vertices - iter.at |-> iter.at + k - 1],
                 LAMBDA v : vertices[v].active)
  ELSE LET list == IF iter.incoming THEN "in" ELSE "out"
           rest == Chain(NextOn(W, list), iter.at)
       IN IF iter.kind = "both" /\ ~iter.incoming THEN rest \o ListOf(W, "in", iter.vertex) ELSE rest

Whole ==
  CASE iter.kind = "vertices" -> SelectSeq([k \in 1 .. graph.watermark.vertices |-> k - 1],
                                           LAMBDA v : vertices[v].active)
    [] iter.kind = "both" -> ListOf(W, "out", iter.vertex) \o ListOf(W, "in", iter.vertex)
    [] OTHER -> ListOf(W, iter.kind, iter.vertex)

(* dv_graph_edge_iter_next and dv_graph_vertex_iter_next: what an iterator has
   yielded and what it will yield make up the whole list, in order, and an
   iterator that is still good outside an update phase has seen no change.  *)
IterExact ==
  iter # NoIter /\ iter.current =>
    IF iter.touched THEN graph.in_update /\ graph.update_dirty ELSE iter.seen \o Rest = Whole

(* DESIGN.md "it reaches for the allocator exactly zero times after init", of a
   fixed graph; of any graph, insertions that find a free slot and traversals
   whose scratch is sized leave the allocator alone.                        *)
AllocatorQuiet ==
  [][\/ ~graph.growable /\ last'.op \notin {"init", "destroy"}
     \/ last'.op = "add_vertex" /\ graph.count.vertices < graph.capacity.vertices
     \/ last'.op = "add_edge" /\ graph.count.edges < graph.capacity.edges
     \/ last'.op = "traverse" /\ graph.work_capacity >= graph.capacity.vertices
          /\ graph.visited_words >= Words(graph.capacity.vertices)
     => last'.calls = {}]_vars

(* A traversal starts with a frontier and a visited set for every vertex slot
   there is, however the pool grew, shrank or was refused scratch before.   *)
ScratchCovers ==
  [][last'.op = "traverse" /\ last'.reply.status = "OK" =>
       /\ graph'.work_capacity >= graph'.watermark.vertices
       /\ graph'.visited_words * WordBits >= graph'.watermark.vertices]_vars

ListsOf(l) == [v \in LiveSlots("vertices") |-> ListOf(W, l, v)]

Topology == <<ListsOf("out"), ListsOf("in"), [e \in LiveSlots("edges") |-> <<edges[e].src, edges[e].dst>>]>>

(* dv_graph_version: a call steps it at most once, a batch included; exactly
   once when it changes the topology outside an update phase; and inside one
   never, but for the reset that ends it.                                   *)
VersionOnce ==
  [][/\ last'.steps <= 1
     /\ graph.in_update /\ last'.op \notin {"commit", "reset"} => last'.steps = 0
     /\ Ready /\ ~graph.in_update /\ Topology' # Topology /\ last'.op # "destroy" => last'.steps = 1
     /\ last'.steps = 1 /\ last'.op # "commit" => last'.op \in {"clear", "reset"} \/ Topology' # Topology]_vars
=============================================================================
