----------------------------- MODULE GraphWalk -----------------------------
(* The traversals of graph/dv_graph.c: the loops of dv_graph_bfs, dv_graph_dfs
   and dv_graph_reachable over the scratch the graph owns, one step for each
   visit and each edge.

   A walk only reads the lists of the graph, whose soundness is the subject of
   DvGraph, so the graph is an ordered list of edges: edge slot e joins the
   pair edges[e], and the lists of a vertex hold its edges by increasing slot.
   (Every list is in insertion order, so up to the names of the slots no other
   order arises.)  Scratch that could not be had ends a call before it walks:
   Traverse of DvGraph.

   A cursor of the depth-first walk is a word: the slot of an edge, with the
   top bit set when the walk is on the in-list.                             *)
EXTENDS Integers, Sequences, FiniteSets

SeqExt == INSTANCE SequencesExt

CONSTANTS VertexCapacity,  \* vertex slots, all of them in use
          MaxCapacity,     \* DV_GRAPH_MAX_CAPACITY: most edge slots
          MaxEdges         \* bound on the edges of a graph

ASSUME WalkAssumption ==
  /\ VertexCapacity \in Nat \ {0}
  /\ MaxCapacity \in Nat /\ MaxEdges \in 0 .. MaxCapacity

Vertices == 0 .. VertexCapacity - 1

CursorIn == MaxCapacity + 1      \* DV_GRAPH_CURSOR_IN, the top bit
NoIndex == 2 * CursorIn - 1      \* DV_GRAPH_INVALID_INDEX, all ones

VARIABLES directed,  \* of the graph
          edges,     \* of the graph: slot -> [out, in], its source and destination
          pc,        \* "idle", "start", "loop", "scan" within a vertex, or "done"
          call,      \* the walk, where it starts and, for "reach", what it looks for
          work,      \* first half of the scratch: the frontier or the stack
          work2,     \* second half: the depths or the cursors
          head,      \* entries of the frontier that were visited
          scan,      \* where a breadth-first walk is on the lists of a vertex
          visited,   \* the visited set
          found,     \* what dv_graph_reachable has seen
          visits     \* history: what the callback was given, and its last answer

graph == <<directed, edges>>
scratch == <<work, work2, head, scan, visited>>
vars == <<graph, pc, call, scratch, found, visits>>

Incident == ~directed

NoScan == [list |-> "out", edge |-> NoIndex]

LowestOf(es) == IF es = {} THEN NoIndex ELSE CHOOSE e \in es : \A f \in es : e <= f

HeadOf(l, v) == LowestOf({e \in DOMAIN edges : edges[e][l] = v})

NextOf(l, e) == LowestOf({f \in DOMAIN edges : edges[f][l] = edges[e][l] /\ f > e})

(* The end of e to go to from list l. *)
Across(l, e) == IF l = "out" THEN edges[e].in ELSE edges[e].out

(***************************************************************************)
(* Calls and the callback.                                                 *)
(***************************************************************************)
(* The visited set is wiped before the start is marked. *)
Marked(v) == {v}

(* The callback is told of v; `more' is what it returns. *)
Visit(v, depth, more) ==
  /\ call.walk = "reach" => (more <=> v # call.target)
  /\ found' = (found \/ (call.walk = "reach" /\ v = call.target))
  /\ visits' = [order |-> Append(visits.order, <<v, depth>>), stopped |-> ~more]

(* What the walk before has left of the frontier is not read again. *)
Call(walk, start, target) ==
  /\ pc \in {"idle", "done"}
  /\ pc' = "start"
  /\ call' = [walk |-> walk, start |-> start, target |-> target]
  /\ visited' = Marked(start)
  /\ found' = FALSE
  /\ visits' = [order |-> <<>>, stopped |-> FALSE]
  /\ work' = <<>> /\ work2' = <<>> /\ head' = 0 /\ scan' = NoScan
  /\ UNCHANGED graph

(***************************************************************************)
(* Breadth first.                                                          *)
(***************************************************************************)
BfsStart ==
  /\ pc = "start" /\ call.walk # "dfs"
  /\ work' = <<call.start>> /\ work2' = <<0>> /\ head' = 0
  /\ pc' = "loop"
  /\ UNCHANGED <<graph, call, scan, visited, found, visits>>

BfsVisit(more) ==
  /\ pc = "loop" /\ call.walk # "dfs" /\ head < Len(work)
  /\ head' = head + 1
  /\ Visit(work[head + 1], work2[head + 1], more)
  /\ pc' = IF more THEN "scan" ELSE "done"
  /\ scan' = [list |-> "out", edge |-> HeadOf("out", work[head + 1])]
  /\ UNCHANGED <<graph, call, work, work2, visited>>

MarksLate(next) ==
  IF next \in {work[i] : i \in 1 .. head} THEN UNCHANGED <<work, work2, visited>>
  ELSE /\ visited' = visited \cup {next}
       /\ work' = Append(work, next)
       /\ work2' = Append(work2, work2[head] + 1)

DeeperThanLast(next) ==
  IF next \in visited THEN UNCHANGED <<work, work2, visited>>
  ELSE /\ visited' = visited \cup {next}
       /\ work' = Append(work, next)
       /\ work2' = Append(work2, work2[Len(work2)] + 1)

(* A vertex is marked before it is pushed. *)
Push(next) ==
  IF next \in visited THEN UNCHANGED <<work, work2, visited>>
  ELSE /\ visited' = visited \cup {next}
       /\ work' = Append(work, next)
       /\ work2' = Append(work2, work2[head] + 1)

BfsEdge ==
  /\ pc = "scan" /\ scan.edge # NoIndex
  /\ Push(Across(scan.list, scan.edge))
  /\ scan' = [scan EXCEPT !.edge = NextOf(scan.list, @)]
  /\ UNCHANGED <<graph, pc, call, head, found, visits>>

(* On an undirected graph the in-list follows the out-list. *)
BfsListDone ==
  /\ pc = "scan" /\ scan.edge = NoIndex
  /\ IF scan.list = "out" /\ Incident
     THEN scan' = [list |-> "in", edge |-> HeadOf("in", work[head])] /\ UNCHANGED pc
     ELSE pc' = "loop" /\ UNCHANGED scan
  /\ UNCHANGED <<graph, call, work, work2, head, visited, found, visits>>

BfsDone ==
  /\ pc = "loop" /\ call.walk # "dfs" /\ head = Len(work)
  /\ pc' = "done"
  /\ UNCHANGED <<graph, call, scratch, found, visits>>

(***************************************************************************)
(* Depth first.                                                            *)
(***************************************************************************)
InCursor(e) == IF e = NoIndex THEN NoIndex ELSE e + CursorIn

EdgeOf(c) == c % CursorIn
ListOf(c) == IF c >= CursorIn THEN "in" ELSE "out"

InListFirst(v) ==
  IF Incident /\ HeadOf("in", v) # NoIndex THEN InCursor(HeadOf("in", v)) ELSE HeadOf("out", v)

OutHeadOnly(v) == HeadOf("out", v)

FirstCursor(v) ==
  IF HeadOf("out", v) # NoIndex THEN HeadOf("out", v)
  ELSE IF Incident THEN InCursor(HeadOf("in", v)) ELSE NoIndex

NextCursor(v, c) ==
  LET next == NextOf(ListOf(c), EdgeOf(c)) IN
  IF ListOf(c) = "in" THEN InCursor(next)
  ELSE IF next # NoIndex THEN next
  ELSE IF Incident THEN InCursor(HeadOf("in", v)) ELSE NoIndex

DfsStart(more) ==
  /\ pc = "start" /\ call.walk = "dfs"
  /\ Visit(call.start, 0, more)
  /\ IF more THEN /\ work' = <<call.start>> /\ work2' = <<FirstCursor(call.start)>>
                  /\ pc' = "loop"
     ELSE pc' = "done" /\ UNCHANGED <<work, work2>>
  /\ UNCHANGED <<graph, call, head, scan, visited>>

Top == Len(work)

RestartsCursor == work2

(* The cursor of the top entry, resumed where it was. *)
Advanced == [work2 EXCEPT ![Top] = NextCursor(work[Top], @)]

DfsPop ==
  /\ pc = "loop" /\ call.walk = "dfs" /\ Top > 0 /\ work2[Top] = NoIndex
  /\ work' = SubSeq(work, 1, Top - 1) /\ work2' = SubSeq(work2, 1, Top - 1)
  /\ UNCHANGED <<graph, pc, call, head, scan, visited, found, visits>>

DfsEdge(more) ==
  LET c == work2[Top]
      next == Across(ListOf(c), EdgeOf(c))
  IN /\ pc = "loop" /\ call.walk = "dfs" /\ Top > 0 /\ c # NoIndex
     /\ IF next \in visited
        THEN more /\ work2' = Advanced /\ UNCHANGED <<pc, work, visited, found, visits>>
        ELSE /\ visited' = visited \cup {next}
             /\ Visit(next, Top, more)
             /\ IF more THEN /\ work' = Append(work, next)
                             /\ work2' = Append(Advanced, FirstCursor(next))
                             /\ UNCHANGED pc
                ELSE pc' = "done" /\ work2' = Advanced /\ UNCHANGED work
     /\ UNCHANGED <<graph, call, head, scan>>

DfsDone ==
  /\ pc = "loop" /\ call.walk = "dfs" /\ Top = 0
  /\ pc' = "done"
  /\ UNCHANGED <<graph, call, scratch, found, visits>>

(***************************************************************************)
(* The specification.                                                      *)
(***************************************************************************)
Init ==
  /\ directed \in BOOLEAN
  /\ \E n \in 0 .. MaxEdges : edges \in [0 .. n - 1 -> [out : Vertices, in : Vertices]]
  /\ pc = "idle"
  /\ call = [walk |-> "none", start |-> 0, target |-> 0]
  /\ work = <<>> /\ work2 = <<>> /\ head = 0
  /\ scan = NoScan
  /\ visited = {}
  /\ found = FALSE
  /\ visits = [order |-> <<>>, stopped |-> FALSE]

Step ==
  \/ BfsStart \/ BfsEdge \/ BfsListDone \/ BfsDone
  \/ DfsPop \/ DfsDone
  \/ \E more \in BOOLEAN : BfsVisit(more) \/ DfsStart(more) \/ DfsEdge(more)

Next ==
  \/ \E start, target \in Vertices :
       \/ target = start /\ \E walk \in {"bfs", "dfs"} : Call(walk, start, target)
       \/ Call("reach", start, target)
  \/ Step

(* A walk is a loop of the calling thread: it goes on. *)
Spec == Init /\ [][Next]_vars /\ WF_vars(Step)

(***************************************************************************)
(* What the walks are to compute.                                          *)
(***************************************************************************)
Neighbors(v) ==
  {edges[e].in : e \in {f \in DOMAIN edges : edges[f].out = v}} \cup
  (IF directed THEN {} ELSE {edges[e].out : e \in {f \in DOMAIN edges : edges[f].in = v}})

(* The vertices at most k edges from v. *)
Within(v, k) ==
  LET Ball[n \in Nat] == IF n = 0 THEN {v} ELSE Ball[n - 1] \cup UNION {Neighbors(u) : u \in Ball[n - 1]}
  IN Ball[k]

Reach(v) == Within(v, VertexCapacity)

(* The neighbours of v in the order of its lists, out-list first. *)
NeighborList(v) ==
  LET slots(l) == SelectSeq([i \in 1 .. Cardinality(DOMAIN edges) |-> i - 1], LAMBDA e : edges[e][l] = v)
      over(l) == [i \in DOMAIN slots(l) |-> Across(l, slots(l)[i])]
  IN IF directed THEN over("out") ELSE over("out") \o over("in")

Preorder ==
  LET explore[v \in Vertices, depth \in Nat, before \in Seq(Vertices \X Nat)] ==
        SeqExt!FoldLeft(LAMBDA acc, u : IF \E i \in DOMAIN acc : acc[i][1] = u THEN acc
                                        ELSE explore[u, depth + 1, acc],
                        Append(before, <<v, depth>>), NeighborList(v))
  IN explore[call.start, 0, <<>>]

(***************************************************************************)
(* Correctness.                                                            *)
(***************************************************************************)
TypeOK ==
  /\ pc \in {"idle", "start", "loop", "scan", "done"}
  /\ visited \subseteq Vertices /\ found \in BOOLEAN
  /\ head \in 0 .. VertexCapacity
  /\ scan.list \in {"out", "in"} /\ scan.edge \in DOMAIN edges \cup {NoIndex}
  /\ \A i \in DOMAIN work : work[i] \in Vertices
  /\ call.walk = "dfs" /\ pc = "loop" =>
       \A i \in DOMAIN work2 : work2[i] = NoIndex \/ EdgeOf(work2[i]) \in DOMAIN edges

(* "The scratch is exactly the right size by construction": neither walk writes
   past the end of either half, over parallel edges, self-loops and both lists
   of an undirected graph.                                                  *)
ScratchFits == TypeOK /\ Len(work) <= VertexCapacity /\ Len(work2) = Len(work)

(* dv_graph.h, dv_graph_visit_fn: the depth of a breadth-first visit is the
   shortest hop count, and depths never decrease.                           *)
ShortestHops ==
  call.walk # "dfs" =>
    \A i \in DOMAIN visits.order :
      LET v == visits.order[i][1]
          d == visits.order[i][2]
      IN /\ v \in Within(call.start, d)
         /\ d > 0 => v \notin Within(call.start, d - 1)
         /\ i > 1 => visits.order[i - 1][2] <= d

(* Whatever walk came before, and wherever it was stopped: a walk that was not
   stopped has visited what can be reached from its start, each vertex once,
   and dv_graph_reachable finds its target exactly when there is a path.    *)
FindsReachable ==
  /\ pc = "done" /\ ~visits.stopped =>
       /\ {visits.order[i][1] : i \in DOMAIN visits.order} = Reach(call.start)
       /\ Len(visits.order) = Cardinality(Reach(call.start))
  /\ pc = "done" /\ call.walk = "reach" => (found <=> call.target \in Reach(call.start))

(* The comment of dv_graph_dfs: "this is the same order a recursive walk would
   produce, with the stack depth as the visit depth".                       *)
DfsIsPreorder ==
  call.walk = "dfs" /\ pc # "start" => SeqExt!IsPrefix(visits.order, Preorder)

(* Every walk comes back, cycles and self-loops notwithstanding. *)
WalkReturns == pc # "idle" ~> pc = "done"
=============================================================================
