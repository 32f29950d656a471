----------------------------- MODULE NodeAlerts -----------------------------
(***************************************************************************)
(* What the Telegram alerts about nodes promise (the header comment of     *)
(* web/service/node_health_tg_hysteresis.go), without counters: a "down"   *)
(* alert when two checks of a node in a row failed and none is open, an    *)
(* "up" alert when two in a row succeeded while one is.                    *)
(***************************************************************************)
CONSTANTS Nodes, Statuses

VARIABLES
  latest,  \* the last check of each node since it was last forgotten
  alarm,   \* the last alert sent about it since then: "none", "down" or "up"
  from     \* the previous status named in its last "down" alert

vars == <<latest, alarm, from>>

\* A check: its result and the status the node had in the database when it began.
Outcome == [kind : {"ok", "fail"}, before : Statuses]

Nothing == [kind |-> "none", before |-> "unknown"]

Init ==
  /\ latest = [n \in Nodes |-> Nothing]
  /\ alarm = [n \in Nodes |-> "none"]
  /\ from = [n \in Nodes |-> "unknown"]

GoesDown(n, o) == alarm[n] # "down" /\ latest[n].kind = "fail" /\ o.kind = "fail"

ComesUp(n, o) == alarm[n] = "down" /\ latest[n].kind = "ok" /\ o.kind = "ok"

Check(n, o) ==
  /\ latest' = [latest EXCEPT ![n] = o]
  /\ \/ /\ GoesDown(n, o)
        /\ alarm' = [alarm EXCEPT ![n] = "down"]
        /\ from' = [from EXCEPT ![n] = latest[n].before]
     \/ /\ ComesUp(n, o)
        /\ alarm' = [alarm EXCEPT ![n] = "up"]
        /\ UNCHANGED from
     \/ ~GoesDown(n, o) /\ ~ComesUp(n, o) /\ UNCHANGED <<alarm, from>>

\* The last check and the open alert of the nodes in S are forgotten.
Forget(S) ==
  /\ latest' = [n \in Nodes |-> IF n \in S THEN Nothing ELSE latest[n]]
  /\ alarm' = [n \in Nodes |-> IF n \in S THEN "none" ELSE alarm[n]]
  /\ UNCHANGED from

Next ==
  \/ \E n \in Nodes, o \in Outcome : Check(n, o)
  \/ \E S \in SUBSET Nodes : Forget(S)

Spec == Init /\ [][Next]_vars
=============================================================================
