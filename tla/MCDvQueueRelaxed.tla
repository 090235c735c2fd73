-------------------------- MODULE MCDvQueueRelaxed --------------------------
(* Instances of DvQueueRelaxed for TLC. *)
EXTENDS DvQueueRelaxed

(* All that a step reads: not a pos that a load is about to overwrite, nor what
   mpmc_size returned.                                                      *)
RelaxedView ==
  <<head, tail, stores, data, touched, view, pc, sound,
    [t \in Threads |-> IF pc[t] \in {"idle", "e_load", "d_load"} THEN 0 ELSE pos[t]]>>
=============================================================================
