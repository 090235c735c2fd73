----------------------------- MODULE Multigraph -----------------------------
(* What the graph of graph/dv_graph.h promises to its caller, with the pools,
   the links and the memory left out: vertices, edges between them, and for
   every vertex its out-edges and in-edges in the order they were added.

   A vertex or an edge is named by its slot, which is free to be named again
   once what it named is gone.  Whether a handle to an earlier holder of the
   slot is refused is not said here: a call may answer "STALE" and change
   nothing.                                                                 *)
EXTENDS Naturals, Sequences, FiniteSets

SeqExt == INSTANCE SequencesExt

CONSTANTS Names,      \* slots
          NoWeight    \* the weight of an edge of an unweighted graph

VARIABLES g,          \* [out, in, ends]: the lists of each vertex, the ends of each edge
          mode,       \* directed, weighted, reject_parallel_edges, reject_self_loops
          reply       \* [op, status, args, n, out] of the last call

vars == <<g, mode, reply>>

Nothing == [x \in {} |-> <<>>]

NoGraph == [out |-> Nothing, in |-> Nothing, ends |-> Nothing]

With(f, x, y) == [z \in DOMAIN f \cup {x} |-> IF z = x THEN y ELSE f[z]]

PlusVertex(h, v) == [h EXCEPT !.out = With(@, v, <<>>), !.in = With(@, v, <<>>)]

PlusEdge(h, e, spec) ==
  [out |-> [h.out EXCEPT ![spec.src] = Append(@, e)],
   in |-> [h.in EXCEPT ![spec.dst] = Append(@, e)],
   ends |-> With(h.ends, e, IF mode.weighted THEN spec ELSE [spec EXCEPT !.weight = NoWeight])]

MinusEdges(h, es) ==
  LET left(lists) == [v \in DOMAIN lists |-> SelectSeq(lists[v], LAMBDA e : e \notin es)]
  IN [out |-> left(h.out), in |-> left(h.in), ends |-> [e \in DOMAIN h.ends \ es |-> h.ends[e]]]

MinusVertex(h, v) ==
  LET rest == MinusEdges(h, {e \in DOMAIN h.ends : v \in {h.ends[e].src, h.ends[e].dst}})
  IN [rest EXCEPT !.out = [u \in DOMAIN @ \ {v} |-> @[u]], !.in = [u \in DOMAIN @ \ {v} |-> @[u]]]

(* The edges a search for one from s to d may answer with: the oldest, on a
   directed graph.                                                          *)
Between(h, s, d) ==
  LET hits == SelectSeq(h.out[s], LAMBDA e : h.ends[e].dst = d)
  IN IF ~mode.directed THEN {e \in DOMAIN h.ends : {h.ends[e].src, h.ends[e].dst} = {s, d}}
     ELSE IF hits = <<>> THEN {} ELSE {hits[1]}

(* Why an edge is not taken, memory apart. *)
Objection(h, spec) ==
  IF mode.reject_self_loops /\ spec.src = spec.dst THEN "INVALID"
  ELSE IF mode.reject_parallel_edges /\ Between(h, spec.src, spec.dst) # {} THEN "EXISTS"
  ELSE "none"

Alive(h, spec) == {spec.src, spec.dst} \subseteq DOMAIN h.out

NoRoom == {"FULL", "NOMEM", "OVERFLOW"}

Answers(ops) == reply'.op \in ops

Fails(ops, statuses) == Answers(ops) /\ reply'.status \in statuses /\ g' = g

Succeeds(ops) == Answers(ops) /\ reply'.status = "OK"

Init ==
  /\ g = NoGraph
  /\ reply.op = "none"

(* A new graph of some kind, or none any more. *)
Configure == Answers({"init", "destroy"}) /\ g' = NoGraph

AddVertex ==
  /\ Succeeds({"add_vertex"})
  /\ \E v \in Names \ DOMAIN g.out : reply'.out = <<v>> /\ g' = PlusVertex(g, v)

AddVertices ==
  /\ Succeeds({"add_vertices"})
  /\ \E n \in 0 .. reply'.args[1] :
       /\ reply'.n = n /\ Len(reply'.out) = n
       /\ Cardinality({reply'.out[i] : i \in 1 .. n} \ DOMAIN g.out) = n
       /\ g' = SeqExt!FoldLeft(PlusVertex, g, reply'.out)

RemoveVertex ==
  /\ Succeeds({"remove_vertex"})
  /\ reply'.args[1] \in DOMAIN g.out
  /\ g' = MinusVertex(g, reply'.args[1])

(* The longest prefix of the specs that is taken: each of them is one that
   dv_graph_add_edge alone would have taken.                                *)
AddEdges ==
  LET one(h, i) == IF Alive(h, reply'.args[i]) /\ Objection(h, reply'.args[i]) = "none"
                      /\ reply'.out[i] \notin DOMAIN h.ends
                   THEN PlusEdge(h, reply'.out[i], reply'.args[i]) ELSE NoGraph
  IN /\ Succeeds({"add_edge", "add_edges"})
     /\ reply'.n = Len(reply'.out) /\ reply'.n <= Len(reply'.args)
     /\ reply'.op = "add_edge" => reply'.n = 1
     /\ g' = SeqExt!FoldLeft(one, g, [i \in 1 .. reply'.n |-> i])

(* An edge that could be taken is refused for want of room alone. *)
AddEdgeRefused ==
  /\ Fails({"add_edge"}, {"INVALID", "EXISTS"} \cup NoRoom)
  /\ Alive(g, reply'.args[1])
  /\ LET why == Objection(g, reply'.args[1])
     IN IF why = "none" THEN reply'.status \in NoRoom ELSE reply'.status = why

RemoveEdge ==
  /\ Succeeds({"remove_edge"})
  /\ reply'.args[1] \in DOMAIN g.ends
  /\ g' = MinusEdges(g, {reply'.args[1]})

FindEdge ==
  /\ Succeeds({"find_edge", "remove_between"})
  /\ \E e \in Between(g, reply'.args[1], reply'.args[2]) :
       /\ reply'.out = <<e>>
       /\ g' = IF reply'.op = "find_edge" THEN g ELSE MinusEdges(g, {e})

NoSuchEdge ==
  /\ Fails({"find_edge", "remove_between"}, {"NOT_FOUND"})
  /\ Between(g, reply'.args[1], reply'.args[2]) = {}

ReadEdge ==
  /\ Succeeds({"endpoints", "weight"})
  /\ LET ends == g.ends[reply'.args[1]]
     IN reply'.out = IF reply'.op = "endpoints" THEN <<ends.src, ends.dst>> ELSE <<ends.weight>>
  /\ g' = g

SetWeight ==
  /\ Succeeds({"set_weight"})
  /\ g' = [g EXCEPT !.ends[reply'.args[1]].weight = reply'.args[2]]

(* A vertex that is not there has no edges. *)
Degree ==
  /\ Succeeds({"degree"})
  /\ reply'.out = IF reply'.args = <<>> THEN <<0, 0>>
                  ELSE <<Len(g.out[reply'.args[1]]), Len(g.in[reply'.args[1]])>>
  /\ g' = g

(* Everything goes, whatever becomes of the memory. *)
Drop == Answers({"clear", "reset"}) /\ g' = NoGraph

(* The graph stays as it is. *)
Keep ==
  /\ Answers({"begin", "commit", "reserve", "reserve_traversal", "shrink", "traverse",
              "iter_begin", "iter_next"})
  /\ g' = g

Refused ==
  \/ Fails({"remove_vertex", "add_edge", "remove_edge", "find_edge", "remove_between",
            "endpoints", "weight", "set_weight"}, {"STALE"})
  \/ Fails({"weight", "set_weight"}, {"INVALID"})
  \/ Fails({"add_vertex"}, NoRoom)

Next ==
  \/ Configure
  \/ UNCHANGED mode /\
       \/ AddVertex \/ AddVertices \/ RemoveVertex
       \/ AddEdges \/ AddEdgeRefused \/ RemoveEdge
       \/ FindEdge \/ NoSuchEdge \/ ReadEdge \/ SetWeight \/ Degree
       \/ Drop \/ Keep \/ Refused
=============================================================================
