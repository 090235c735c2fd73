---------------------------- MODULE MCGraphWalk ----------------------------
(* GraphWalk for TLC: its constants are numbers, given in the configuration. *)
EXTENDS GraphWalk
=============================================================================
