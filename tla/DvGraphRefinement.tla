------------------------ MODULE DvGraphRefinement --------------------------
(* What a caller of DvGraph sees of it: the incidence lists in their order,
   the ends and the weights of the edges, and the answers.                  *)
EXTENDS DvGraph

Abstract == INSTANCE Multigraph
  WITH Names <- 0 .. MaxCapacity - 1, NoWeight <- Garbage,
       g <- [out |-> ListsOf("out"), in |-> ListsOf("in"),
             ends |-> [e \in LiveSlots("edges") |->
                         [src |-> edges[e].src, dst |-> edges[e].dst,
                          weight |-> IF graph.weighted THEN weights[e] ELSE Garbage]]],
       mode <- [directed |-> graph.directed, weighted |-> graph.weighted,
                reject_parallel_edges |-> graph.reject_parallel_edges,
                reject_self_loops |-> graph.reject_self_loops],
       reply <- [op |-> last.op, status |-> last.reply.status, args |-> last.reply.args,
                 n |-> last.reply.n, out |-> last.reply.out]

(* The graph implements Multigraph: every call has its abstract effect on the
   incidence lists, in the order of insertion, through recycled slots, growth
   and refused allocations; a search of either list of a directed pair finds
   the oldest edge; and a batch takes a prefix.                             *)
ImplementsMultigraph == Abstract!Init /\ [][Abstract!Next]_vars
=============================================================================
