----------------------------- MODULE MCDvStack -----------------------------
(* Instances of DvStack for TLC. *)
EXTENDS DvStack, TLC

CONSTANTS a, b

Config(elem_size, elem_align, initial, max, growable, cached) ==
  [elem_size |-> elem_size, elem_align |-> elem_align, initial_capacity |-> initial,
   max_capacity |-> max, growable |-> growable, cache_aligned |-> cached]

(* Growable without and with a ceiling, fixed, empty, of pointers or not, and
   the configurations that dv_stack_init refuses.                           *)
MCConfigs ==
  { Config(2, 0, 0, 0, TRUE, FALSE),   Config(1, 1, 1, 0, TRUE, TRUE),
    Config(1, 1, 2, 5, TRUE, FALSE),   Config(2, 2, 2, 0, FALSE, FALSE),
    Config(2, 1, 2, 3, TRUE, FALSE),   Config(1, 1, 0, 3, FALSE, FALSE),
    Config(2, 2, 5, 0, TRUE, FALSE),   Config(0, 1, 1, 0, TRUE, FALSE),
    Config(1, 2, 1, 0, TRUE, FALSE),   Config(3, 3, 1, 0, TRUE, FALSE),
    Config(1, 1, 3, 2, TRUE, FALSE) }

MCAllocators ==
  { [alloc |-> TRUE, realloc |-> TRUE, free |-> TRUE],
    [alloc |-> TRUE, realloc |-> FALSE, free |-> TRUE],
    [alloc |-> TRUE, realloc |-> TRUE, free |-> FALSE] }

MCBatches == {<<>>, <<a, b>>, <<b, a, b>>, [i \in 1 .. 6 |-> IF i = 6 THEN b ELSE a]}

Symmetric == Permutations(Addresses)

(* All that a call reads: not the answer to the last one. *)
StackView == <<stack, blocks, contract>>
=============================================================================
