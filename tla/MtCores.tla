------------------------------ MODULE MtCores ------------------------------
(* What the core calls that the wrappers make do to a container, seen from
   outside: the contents and the reply, with the memory left out (DvStack,
   DvHeap and DvGraph are the detail).  Each operator gives the set of
   outcomes [box, reply] of a call, one for each thing the allocator may do.

   A call is a record whose op is the name of the core function.            *)
EXTENDS Integers, Sequences, SequencesExt, FiniteSetsExt

CONSTANTS Keys      \* what is pushed on a stack or into a heap

(* The answer to a call: a status, and the value or the count returned. *)
Answer(status, out) == [status |-> status, out |-> out]

Ends(box, status, out) == [box |-> box, reply |-> Answer(status, out)]

Keeps(box, statuses) == {Ends(box, status, 0) : status \in statuses}

(***************************************************************************)
(* A stack is [stack, ceiling], its top last.                              *)
(***************************************************************************)
EmptyStack(ceiling) == [stack |-> <<>>, ceiling |-> ceiling]

(* A call that needs room for one more in a container that holds n: past the
   ceiling there is none, and below it the allocator may refuse.            *)
Growing(b, n, done) == IF n >= b.ceiling THEN Keeps(b, {"FULL"}) ELSE Keeps(b, {"NOMEM"}) \cup {done}

StackCore(c, b) ==
  LET s == b.stack
      n == Len(s)
      Becomes(items, out) == Ends([b EXCEPT !.stack = items], "OK", out)
  IN CASE c.op = "push" -> Growing(b, n, Becomes(Append(s, c.v), 0))
       [] c.op = "pop" -> IF n = 0 THEN Keeps(b, {"EMPTY"}) ELSE {Becomes(Front(s), Last(s))}
       [] c.op = "peek" -> IF n = 0 THEN Keeps(b, {"EMPTY"}) ELSE {Ends(b, "OK", Last(s))}
       [] c.op = "push_bulk" ->
            {Becomes(s \o SubSeq(c.v, 1, m), m) : m \in {j \in 0 .. Len(c.v) : n + j <= b.ceiling}}
       [] c.op = "pop_bulk" -> LET m == Min({c.v, n}) IN {Becomes(SubSeq(s, 1, n - m), m)}
       [] c.op = "size" -> {Ends(b, "OK", n)}
       [] c.op = "clear" -> {Becomes(<<>>, 0)}
       [] c.op = "reserve" -> Keeps(b, {"OK", IF c.v > b.ceiling THEN "FULL" ELSE "NOMEM"})

(***************************************************************************)
(* A min-heap is [heap, ceiling]: how often it holds each key.             *)
(***************************************************************************)
EmptyHeap(ceiling) == [heap |-> [key \in Keys |-> 0], ceiling |-> ceiling]

HeapSize(h) == MapThenSumSet(LAMBDA key : h[key], Keys)

Top(h) == Min({key \in Keys : h[key] > 0})

Without(h, key) == [h EXCEPT ![key] = @ - 1]

(* The heap and the last m keys popped. *)
PoppedBulk(h, m) == FoldLeft(LAMBDA g, i : Without(g, Top(g)), h, [i \in 1 .. m |-> i])

HeapCore(c, b) ==
  LET h == b.heap
      n == HeapSize(h)
      Becomes(bag, out) == Ends([b EXCEPT !.heap = bag], "OK", out)
      With(bag, key) == [bag EXCEPT ![key] = @ + 1]
  IN CASE c.op = "push" -> Growing(b, n, Becomes(With(h, c.v), 0))
       [] c.op = "pop" -> IF n = 0 THEN Keeps(b, {"EMPTY"}) ELSE {Becomes(Without(h, Top(h)), Top(h))}
       [] c.op = "peek" -> IF n = 0 THEN Keeps(b, {"EMPTY"}) ELSE {Ends(b, "OK", Top(h))}
       [] c.op = "replace_top" ->
            IF n = 0 THEN Keeps(b, {"EMPTY"})
            ELSE {Becomes(With(Without(h, Top(h)), c.v), Top(h))}
       [] c.op = "push_bulk" ->
            {Becomes(FoldLeft(With, h, SubSeq(c.v, 1, m)), m)
               : m \in {j \in 0 .. Len(c.v) : n + j <= b.ceiling}}
       [] c.op = "pop_bulk" -> LET m == Min({c.v, n}) IN {Becomes(PoppedBulk(h, m), m)}
       [] c.op = "size" -> {Ends(b, "OK", n)}
       [] c.op = "clear" -> {Becomes(EmptyHeap(b.ceiling).heap, 0)}
       [] c.op = "reserve" -> Keeps(b, {"OK", IF c.v > b.ceiling THEN "FULL" ELSE "NOMEM"})

(***************************************************************************)
(* A directed graph is [vertices, edges, ceiling]: the slots in use, and    *)
(* the ends of each edge.  A handle is a slot; the generation that tells    *)
(* its successive holders apart is DvGraph's matter.                        *)
(***************************************************************************)
EmptyGraph(ceiling) == [vertices |-> {}, edges |-> <<>>, ceiling |-> ceiling]

(* The slot a pool hands out next: a free one below its high-water mark, or
   the one at it.  Which of the free ones makes no difference here.         *)
FreeSlot(taken) == Min((1 .. Cardinality(taken) + 1) \ taken)

Incident(g, v) == {e \in DOMAIN g.edges : v \in {g.edges[e].src, g.edges[e].dst}}

Degree(g, v) ==
  Cardinality({e \in DOMAIN g.edges : g.edges[e].src = v}) + Cardinality({e \in DOMAIN g.edges : g.edges[e].dst = v})

MinusEdges(g, es) == [g EXCEPT !.edges = [e \in DOMAIN g.edges \ es |-> g.edges[e]]]

Found(g, s, d) == {e \in DOMAIN g.edges : g.edges[e].src = s /\ g.edges[e].dst = d}

(* Everything within one more hop, as often as there are vertices. *)
Reached(g, s) ==
  FoldLeft(LAMBDA r, i : r \cup {g.edges[e].dst : e \in {f \in DOMAIN g.edges : g.edges[f].src \in r}},
           {s}, [i \in 1 .. Cardinality(g.vertices) |-> i])

(* What dv_graph_is_valid finds here: no edge hangs on a vertex that is gone. *)
IsValid(g) == \A e \in DOMAIN g.edges : {g.edges[e].src, g.edges[e].dst} \subseteq g.vertices

GraphCore(c, g) ==
  LET v == FreeSlot(g.vertices)
      e == FreeSlot(DOMAIN g.edges)
      Alive(xs) == xs \subseteq g.vertices
      Returns(out) == {Ends(g, "OK", out)}
      Or(ok, outcomes) == IF ok THEN outcomes ELSE Keeps(g, {"STALE"})
      Linked(f) == [x \in DOMAIN f \cup {e} |-> IF x = e THEN [src |-> c.v, dst |-> c.to] ELSE f[x]]
  IN CASE c.op = "add_vertex" ->
            Growing(g, Cardinality(g.vertices), Ends([g EXCEPT !.vertices = @ \cup {v}], "OK", v))
       [] c.op = "remove_vertex" ->
            Or(Alive({c.v}),
               {Ends([MinusEdges(g, Incident(g, c.v)) EXCEPT !.vertices = @ \ {c.v}], "OK", 0)})
       [] c.op = "add_edge" ->
            Or(Alive({c.v, c.to}),
               Growing(g, Cardinality(DOMAIN g.edges), Ends([g EXCEPT !.edges = Linked(@)], "OK", e)))
       [] c.op = "remove_edge" -> Or(c.v \in DOMAIN g.edges, {Ends(MinusEdges(g, {c.v}), "OK", 0)})
       [] c.op = "clear" -> {Ends(EmptyGraph(g.ceiling), "OK", 0)}
       [] c.op = "vertex_count" -> Returns(Cardinality(g.vertices))
       [] c.op = "edge_count" -> Returns(Cardinality(DOMAIN g.edges))
       [] c.op = "degree" -> Returns(Degree(g, c.v))
       [] c.op = "has_edge" -> Returns(IF Found(g, c.v, c.to) # {} THEN 1 ELSE 0)
       [] c.op = "find_edge" ->
            Or(Alive({c.v, c.to}),
               IF Found(g, c.v, c.to) = {} THEN Keeps(g, {"NOT_FOUND"})
               ELSE {Ends(g, "OK", x) : x \in Found(g, c.v, c.to)})
       [] c.op = "reachable" ->
            Or(Alive({c.v, c.to}), Keeps(g, {"NOMEM"}) \cup Returns(IF c.to \in Reached(g, c.v) THEN 1 ELSE 0))
       [] c.op = "bfs" ->
            Or(Alive({c.v}), Keeps(g, {"NOMEM"}) \cup Returns(Cardinality(Reached(g, c.v))))
       [] c.op = "is_valid" -> Returns(IF IsValid(g) THEN 1 ELSE 0)

(***************************************************************************)
(* The core that a container belongs to.                                   *)
(***************************************************************************)
CoreOf(c, b) ==
  CASE "stack" \in DOMAIN b -> StackCore(c, b)
    [] "heap" \in DOMAIN b -> HeapCore(c, b)
    [] "vertices" \in DOMAIN b -> GraphCore(c, b)
=============================================================================
