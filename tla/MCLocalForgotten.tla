------------------------- MODULE MCLocalForgotten -------------------------
(* LocalCore with one more history variable: whether a restart that was asked  *)
(* for with SetToNeedRestart is still owed.                                    *)
EXTENDS LocalCore

VARIABLE owed

OwedInit == Init /\ owed = FALSE

OwedNext ==
  \/ (\E q \in Requests : SetToNeedRestart(q)) /\ owed' = TRUE
  \/ (\E a \in Callers : Start(a)) /\ owed' = (owed /\ core' = NoCore)
  \/ /\ Next /\ owed' = owed
     /\ ~(\E q \in Requests : SetToNeedRestart(q)) /\ ~(\E a \in Callers : Start(a))

OwedSpec == OwedInit /\ [][OwedNext]_<<vars, owed>>

\* "SetToNeedRestart marks that Xray needs to be restarted": as long as it has not been
\* and the core still serves something else than the database says, the flag or a caller
\* of RestartXray knows about it.
RestartIsNotForgotten ==
  owed /\ Running /\ core # ConfigOf(db) =>
    flag \/ \E a \in Callers : call[a].phase \in {"wait", "decide", "start"}
============================================================================
