----------------------------- MODULE MCHubLinks -----------------------------
(***************************************************************************)
(* A small instance of HubLinks: that of the hub, and those of People.     *)
(***************************************************************************)
EXTENDS HubLinks, MCWebsocketHub, MCClients
=============================================================================
