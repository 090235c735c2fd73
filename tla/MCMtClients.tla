---------------------------- MODULE MCMtClients ----------------------------
(* Instances of MtClients for TLC. *)
EXTENDS MtClients

MCThreads == {"main", "t1", "t2", "t3", "t4"}

MCProducers == <<"t1", "t2">>

MCConsumers == <<"t3", "t4">>

MCWorkers == <<"t1", "t2">>

(* Containers that are soon full, for the program "calls", and those of the
   testers.                                                                 *)
MCSmall == {EmptyStack(2), EmptyHeap(2), EmptyGraph(4)}

MCBlanks == MCSmall \cup {EmptyStack(Len(MCProducers) * Items), EmptyHeap(Len(MCProducers) * Items)}

Op(names) == [op : names]

OpOn(names, values) == [op : names, v : values]

OpTo(names, from, to) == [op : names, v : from, to : to]

(* The calls of the wrappers of stack and heap.  push and pop stand for
   push_ptr and pop_ptr too, and size for is_empty.                         *)
ListCalls(values) ==
  Op({"pop", "peek", "size", "clear"}) \cup OpOn({"push"}, values)
    \cup {[op |-> "push_bulk", v |-> <<2, 1>>], [op |-> "pop_bulk", v |-> 2], [op |-> "reserve", v |-> 3]}

(* Those of the graph's. *)
GraphCalls(from, to) ==
  Op({"add_vertex", "clear", "vertex_count", "edge_count", "is_valid"})
    \cup OpOn({"remove_vertex", "remove_edge", "degree", "bfs"}, from)
    \cup OpTo({"add_edge", "has_edge", "find_edge", "reachable"}, from, to)

CallsFor(b, values, onGraph) ==
  IF "vertices" \in DOMAIN b THEN onGraph
  ELSE IF "heap" \in DOMAIN b THEN ListCalls(Keys) \cup OpOn({"replace_top"}, Keys)
  ELSE ListCalls(values)

MCCallsOn(b) == CallsFor(b, 1 .. Len(MCProducers) * Items, GraphCalls(1 .. 4, 1 .. 4))

(* On a graph, from the first vertex to the second, and no third of either. *)
MCEvery(b) ==
  LET Full == (IF Cardinality(b.vertices) < 2 THEN {} ELSE {"add_vertex"})
                \cup (IF Cardinality(DOMAIN b.edges) < 2 THEN {} ELSE {"add_edge"})
  IN CallsFor(b, Keys, {c \in GraphCalls({1}, {2}) : c.op \notin Full})

(* Functions look, then act on what they saw. *)
MCTriedInFn(b) ==
  {c \in MCEvery(b) : c.op \in {"size", "pop", "find_edge", "remove_edge"}}

(* One thread makes every call, the other some that get in its way. *)
MCTried(t, b) ==
  {c \in MCEvery(b) : t = "t1" \/ c.op \in {"pop", "push_bulk", "add_edge"}}

NothingYet == Answer("none", 0)
=============================================================================
