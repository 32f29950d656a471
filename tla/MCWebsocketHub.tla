--------------------------- MODULE MCWebsocketHub ---------------------------
(***************************************************************************)
(* Small instances of WebsocketHub: two connections, so that a broadcast   *)
(* may use the pool.  The two are interchangeable.                         *)
(***************************************************************************)
EXTENDS WebsocketHub, TLC

CONSTANTS c1, c2

Interchangeable == Permutations(Clients)
=============================================================================
