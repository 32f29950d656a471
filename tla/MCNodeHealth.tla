---------------------------- MODULE MCNodeHealth ----------------------------
(***************************************************************************)
(* Small instances of NodeHealth: the state of one node does not depend on *)
(* another's, so one node and two overlapping checkers show the races.     *)
(***************************************************************************)
EXTENDS NodeHealth

CONSTANTS n1, j1, w1, a1, a2
=============================================================================
