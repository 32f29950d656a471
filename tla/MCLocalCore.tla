---------------------------- MODULE MCLocalCore ----------------------------
(* One inbound with one configuration, two callers and two requests. *)
EXTENDS LocalCore, TLC

Symmetry == Permutations(Callers) \cup Permutations(Requests)
============================================================================
