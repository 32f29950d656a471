--------------------------- MODULE MCNodeManager ---------------------------
(* NodeManager on one inbound whose users can be changed in the running     *)
(* core and one whose protocol XrayAPI.AddUser does not know.               *)
EXTENDS NodeManager

CONSTANTS hot, cold

MCTags == {hot, cold}
MCHotTags == {hot}
============================================================================
