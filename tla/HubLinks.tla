------------------------------ MODULE HubLinks ------------------------------
(***************************************************************************)
(* What people are shown: the hub that tells browsers of changes           *)
(* (WebsocketHub), and the clients of the panel (People).  In the part     *)
(* "hub" the hub and its connections are at work, in the others they stay  *)
(* as they are at the start.                                               *)
(***************************************************************************)
EXTENDS WebsocketHub, People

PartsInit == Init /\ PeopleInit

PartsNext ==
  \/ part = "hub" /\ Next /\ UNCHANGED <<part, people>>
  \/ PeopleNext /\ UNCHANGED vars

PartsSpec == PartsInit /\ [][PartsNext]_<<vars, part, people>>
=============================================================================
