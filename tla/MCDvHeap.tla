------------------------------ MODULE MCDvHeap ------------------------------
(* Instances of DvHeap for TLC. *)
EXTENDS DvHeap, TLC

Config(elem_size, initial, max, growable, order) ==
  [elem_size |-> elem_size, elem_align |-> 1, initial_capacity |-> initial, max_capacity |-> max,
   growable |-> growable, cache_aligned |-> FALSE, order |-> order, key_type |-> "U32",
   key_offset |-> 0, key_indirect |-> FALSE, compare |-> FALSE, on_move |-> TRUE]

(* Heaps whose order is the question: room for every shape of seven elements. *)
OrderConfigs == {Config(1, 7, 0, FALSE, "MIN"), Config(1, 7, 0, FALSE, "MAX")}

(* Heaps whose memory is the question. *)
Plain == Config(2, 0, 0, TRUE, "MIN")

MemoryConfigs ==
  { Plain, Config(1, 1, 4, TRUE, "MAX"), Config(3, 2, 0, TRUE, "MIN"), Config(2, 3, 0, FALSE, "MIN"),
    Config(1, 0, 3, FALSE, "MIN"),
    [Plain EXCEPT !.elem_align = 2, !.cache_aligned = TRUE, !.key_indirect = TRUE],
    [Plain EXCEPT !.key_type = "CUSTOM", !.compare = TRUE, !.on_move = FALSE, !.elem_align = 0],
    [Plain EXCEPT !.key_type = "CUSTOM"], [Plain EXCEPT !.key_offset = 2],
    [Plain EXCEPT !.key_indirect = TRUE], [Plain EXCEPT !.elem_size = 0],
    [Plain EXCEPT !.elem_align = 3, !.elem_size = 3], Config(1, 3, 2, TRUE, "MIN") }

HeapConfigs == OrderConfigs \cup MemoryConfigs

Default == {[alloc |-> TRUE, realloc |-> TRUE, free |-> TRUE]}

MCKeyWidths == [U32 |-> 1, U64 |-> 2]

MCAllocators ==
  Default \cup {[alloc |-> TRUE, realloc |-> FALSE, free |-> TRUE], [alloc |-> TRUE, realloc |-> TRUE, free |-> FALSE]}

HeapBatches ==
  {<<>>, <<2, 1>>, <<2, 1, 1, 2>>, <<3, 2, 2, 1>>, <<1, 3, 2, 1, 2, 1>>, <<2, 3, 3, 1, 1, 2>>}

NaNBatches == {<<>>, <<2, NaN, 1>>}

Symmetric == Permutations(Addresses)

(* All that a call reads: not the answer to the last one. *)
HeapView == <<heap, blocks, contract>>

(* heap/DESIGN.md:105-107: "A heap containing NaN keys makes no ordering
   promise about them", so that the other keys of a heap are in order.      *)
OthersInOrder ==
  (\A i \in DOMAIN Elems : Elems[i].key # NaN) => HeapOrder
=============================================================================
