----------------------------- MODULE MCDvGraph -----------------------------
(* Instances of DvGraph for TLC. *)
EXTENDS DvGraphRefinement, TLC

CONSTANTS wa, wb   \* weights

Config(directed, weighted, growable, simple, vs, es, max_vs, max_es) ==
  [directed |-> directed, weighted |-> weighted, growable |-> growable,
   reject_parallel_edges |-> simple, reject_self_loops |-> simple,
   initial |-> [vertices |-> vs, edges |-> es], max |-> [vertices |-> max_vs, edges |-> max_es]]

Hooks(alloc, realloc, free) == [alloc |-> alloc, realloc |-> realloc, free |-> free]

BothAllocators == {Hooks(TRUE, TRUE, TRUE), Hooks(TRUE, FALSE, TRUE), Hooks(TRUE, TRUE, FALSE)}
OneAllocator == {Hooks(TRUE, TRUE, TRUE)}

Spec3(src, dst, weight) == [src |-> src, dst |-> dst, weight |-> weight]

(* Fixed graphs, multigraphs and simple ones, directed or not. *)
TopologyConfigs ==
  { Config(TRUE, FALSE, FALSE, FALSE, 2, 3, 0, 0), Config(FALSE, FALSE, FALSE, FALSE, 2, 3, 0, 0),
    Config(TRUE, TRUE, FALSE, FALSE, 2, 2, 0, 0), Config(FALSE, TRUE, TRUE, FALSE, 1, 1, 2, 2),
    Config(TRUE, FALSE, FALSE, TRUE, 3, 2, 0, 0), Config(FALSE, FALSE, FALSE, TRUE, 3, 3, 0, 0) }
TopologySpecs == {<<Spec3(0, 1, wa), Spec3(1, 0, wb), Spec3(0, 0, wa)>>}

(* Small graphs to walk over. *)
WalkConfigs ==
  { Config(TRUE, FALSE, FALSE, FALSE, 2, 2, 0, 0), Config(FALSE, FALSE, FALSE, FALSE, 1, 3, 0, 0),
    Config(FALSE, FALSE, FALSE, TRUE, 3, 1, 0, 0) }
AllTopologyConfigs == TopologyConfigs \cup WalkConfigs

(* Graphs whose slots are retired and taken again and again. *)
HandleConfigs ==
  { Config(TRUE, FALSE, FALSE, FALSE, 2, 1, 0, 0), Config(FALSE, FALSE, FALSE, FALSE, 1, 2, 0, 0) }
HandleSpecs == {<<Spec3(0, 0, wa), Spec3(1, 0, wa)>>}

(* Growable graphs, with and without weights and ceilings, and configurations
   that dv_graph_init refuses.                                              *)
MemoryConfigs ==
  { Config(TRUE, TRUE, TRUE, FALSE, 1, 0, 1, 3), Config(TRUE, TRUE, TRUE, FALSE, 1, 2, 1, 0),
    Config(FALSE, FALSE, TRUE, FALSE, 0, 1, 0, 1), Config(TRUE, TRUE, FALSE, TRUE, 2, 1, 0, 0),
    Config(TRUE, TRUE, TRUE, FALSE, 0, 0, 2, 2), Config(TRUE, TRUE, TRUE, FALSE, 5, 0, 0, 0),
    Config(TRUE, TRUE, TRUE, FALSE, 2, 0, 1, 0) }
MemorySpecs == {<<Spec3(0, 0, wa), Spec3(0, 0, wa), Spec3(0, 0, wa)>>}

(* An inactive slot keeps nothing but its generation and its free-list link. *)
Slots(p) ==
  [i \in DOMAIN W[p] |-> IF W[p][i].active THEN W[p][i] ELSE <<W[p][i].generation, FreeLink(W, p, i)>>]

(* All that a call reads: not the reply to the last one, nor what is left in a
   retired slot.  Only an iterator that a mutation of an open update phase
   overtook reads such a slot, and where it goes from there concerns
   MutationEndsWalk alone, which is checked without a view.                 *)
StateView ==
  <<graph, Slots("vertices"), Slots("edges"),
    [e \in LiveSlots("edges") |-> IF graph.weighted THEN weights[e] ELSE Garbage],
    bytes, outstanding, contract, iter, watch>>

(* dv_graph.h:465 "Yields the next edge, or false when the walk is done or the
   graph has been mutated since the iterator was created."                  *)
MutationEndsWalk ==
  [][last'.op = "iter_next" /\ last'.reply.status = "OK" => ~iter.touched]_vars
=============================================================================
