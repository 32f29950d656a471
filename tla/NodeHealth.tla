----------------------------- MODULE NodeHealth -----------------------------
(***************************************************************************)
(* Health checks of worker nodes in the panel: CheckNodeHealth of          *)
(* web/service/node.go, run by the cron job of                             *)
(* web/job/check_node_health_job.go and by the API handlers of             *)
(* web/controller/node.go, and the debouncing of its Telegram alerts       *)
(* (web/service/node_health_tg_hysteresis.go).                             *)
(*                                                                         *)
(* A check reads the node's row, talks to the worker for up to ten         *)
(* seconds, writes the row back and then counts the result under a mutex;  *)
(* checks of one node by the job and by admins overlap, and so do edits,   *)
(* disabling and deleting.  latest, alarm and from record what was counted *)
(* and which alerts were sent; no action reads them.                       *)
(***************************************************************************)
EXTENDS Naturals

CONSTANTS
  Nodes,
  Jobs,       \* goroutines of CheckNodeHealthJob
  Admins,     \* API requests that run a check
  Addresses,
  MaxFaults   \* bound on panel restarts and failed database writes

Cap == 3      \* bound on failStreak, which the code compares with 0 and 2 only

Statuses == {"unknown", "online", "error"}

Checkers == Jobs \cup Admins

ASSUME HealthAssumption ==
  /\ Jobs \cap Admins = {}
  /\ Addresses # {}
  /\ MaxFaults \in Nat

VARIABLES
  row,     \* the nodes table
  edited,  \* the address the admin last gave each node
  hyst,    \* nodeHealthTgHyst; a missing entry reads as Fresh
  check,   \* what each checker is doing
  reach,   \* whether the worker answers /health with 200 and accepts the token
  faults,  \* restarts and database failures so far
  latest, alarm, from

dbVars == <<row, edited>>
logVars == <<latest, alarm, from>>
vars == <<row, edited, hyst, check, reach, faults, latest, alarm, from>>

Fresh == [failStreak |-> 0, okStreak |-> 0, hasOpenDown |-> FALSE, firstFailFrom |-> ""]

Nothing == [kind |-> "none", before |-> "unknown"]

\* A checker: node, before and address are the row as the check read it.
CheckState ==
  [phase : {"idle", "probe", "reset", "save", "count", "undo"}, node : Nodes, before : Statuses,
   address : Addresses, ok : BOOLEAN, adding : BOOLEAN]

Idle(c) == check[c].phase = "idle"

Live(n) == row[n].life = "live"

Init ==
  /\ \E a \in Addresses :
       /\ row = [n \in Nodes |-> [life |-> "unused", enable |-> FALSE,
                                  status |-> "unknown", address |-> a]]
       /\ edited = [n \in Nodes |-> a]
       /\ check \in [Checkers -> {s \in CheckState : s.phase = "idle" /\ s.before = "unknown"
                                     /\ s.address = a /\ ~s.ok /\ ~s.adding}]
  /\ hyst = [n \in Nodes |-> Fresh]
  /\ reach \in [Nodes -> BOOLEAN]
  /\ faults = 0
  /\ latest = [n \in Nodes |-> Nothing]
  /\ alarm = [n \in Nodes |-> "none"]
  /\ from = [n \in Nodes |-> "unknown"]

---------------------------------------------------------------------------
\* nodeHealthTgHysteresisAfterCheck: the entry it leaves and the alert it asks for.

\* Its failing branch if a failure left the count of successes alone.
AfterFailKeepingOk(h, before) ==
  LET streak == IF h.failStreak < Cap THEN h.failStreak + 1 ELSE Cap
      first == IF h.failStreak = 0 THEN before ELSE h.firstFailFrom
      counted == [h EXCEPT !.failStreak = streak, !.firstFailFrom = first]
  IN IF streak < 2 \/ h.hasOpenDown
     THEN [entry |-> counted, send |-> "none", from |-> before]
     ELSE [entry |-> [counted EXCEPT !.hasOpenDown = TRUE, !.firstFailFrom = ""],
           send |-> "down", from |-> IF first = "" THEN before ELSE first]

\* Its failing branch if the alert were held back until a third failure.
AfterFailHeldBack(h, before) ==
  LET streak == IF h.failStreak = 0 THEN 1 ELSE h.failStreak
      counted == [h EXCEPT !.okStreak = 0, !.failStreak = streak, !.firstFailFrom = before]
  IN [entry |-> counted, send |-> "none", from |-> before]

AfterFail(h, before) ==
  LET streak == IF h.failStreak < Cap THEN h.failStreak + 1 ELSE Cap
      first == IF h.failStreak = 0 THEN before ELSE h.firstFailFrom
      counted == [h EXCEPT !.okStreak = 0, !.failStreak = streak, !.firstFailFrom = first]
  IN IF streak < 2 \/ h.hasOpenDown
     THEN [entry |-> counted, send |-> "none", from |-> before]
     ELSE [entry |-> [counted EXCEPT !.hasOpenDown = TRUE, !.firstFailFrom = ""],
           send |-> "down", from |-> IF first = "" THEN before ELSE first]

\* Its succeeding branch if the count of successes were not reset by an "up" alert.
AfterOkNotReset(h) ==
  IF ~h.hasOpenDown
  THEN [entry |-> [h EXCEPT !.failStreak = 0, !.firstFailFrom = ""], send |-> "none"]
  ELSE IF h.okStreak + 1 < 2
       THEN [entry |-> [h EXCEPT !.failStreak = 0, !.okStreak = @ + 1], send |-> "none"]
       ELSE [entry |-> [h EXCEPT !.failStreak = 0, !.okStreak = @ + 1, !.hasOpenDown = FALSE,
                                 !.firstFailFrom = ""], send |-> "up"]

\* Its succeeding branch if every success started a new count.
AfterOkRestarted(h) ==
  [entry |-> [h EXCEPT !.failStreak = 0, !.okStreak = IF h.hasOpenDown THEN 1 ELSE 0],
   send |-> "none"]

AfterOk(h) ==
  IF ~h.hasOpenDown
  THEN [entry |-> Fresh, send |-> "none"]
  ELSE IF h.okStreak + 1 < 2
       THEN [entry |-> [h EXCEPT !.failStreak = 0, !.okStreak = @ + 1], send |-> "none"]
       ELSE [entry |-> Fresh, send |-> "up"]

---------------------------------------------------------------------------
\* CheckNodeHealth, step by step.

Started(c, n, r, phase, adding) ==
  check' = [check EXCEPT ![c] = [phase |-> phase, node |-> n, before |-> r.status,
                                 address |-> r.address, ok |-> FALSE, adding |-> adding]]

\* One goroutine of CheckNodeHealthJob.Run, or of CheckAllNodesHealth.  runMu and the
\* wait for a round leave at most one job goroutine per node.
JobBegin(c, n) ==
  /\ Idle(c) /\ Live(n) /\ row[n].enable
  /\ c \in Jobs => \A d \in Jobs : Idle(d) \/ check[d].node # n
  /\ Started(c, n, row[n], "probe", FALSE)
  /\ UNCHANGED <<row, edited, hyst, reach, faults, latest, alarm, from>>

\* Handler checkNode reads the row whether or not the node is enabled.
CheckNodeBegin(c, n) ==
  /\ c \in Admins /\ Idle(c) /\ Live(n)
  /\ Started(c, n, row[n], IF row[n].enable THEN "probe" ELSE "reset", FALSE)
  /\ UNCHANGED <<row, edited, hyst, reach, faults, latest, alarm, from>>

\* Handler addNode: the row is in the table before its first check.
AddNodeBegin(c, n, a) ==
  /\ c \in Admins /\ Idle(c) /\ row[n].life = "unused"
  /\ LET r == [life |-> "live", enable |-> TRUE, status |-> "unknown", address |-> a]
     IN row' = [row EXCEPT ![n] = r] /\ Started(c, n, r, "probe", TRUE)
  /\ edited' = [edited EXCEPT ![n] = a]
  /\ UNCHANGED <<hyst, reach, faults, latest, alarm, from>>

\* The entries of S are dropped, and with them what was counted.
Reset(S) ==
  /\ hyst' = [n \in Nodes |-> IF n \in S THEN Fresh ELSE hyst[n]]
  /\ latest' = [n \in Nodes |-> IF n \in S THEN Nothing ELSE latest[n]]
  /\ alarm' = [n \in Nodes |-> IF n \in S THEN "none" ELSE alarm[n]]
  /\ UNCHANGED from

\* The node was read as disabled: resetNodeHealthTgHysteresis and no probe.
CheckDisabled(c) ==
  /\ check[c].phase = "reset"
  /\ Reset({check[c].node})
  /\ check' = [check EXCEPT ![c].phase = "idle"]
  /\ UNCHANGED <<row, edited, reach, faults>>

\* CheckNodeStatus; "offline" and a refused token are failures like any other.
Probe(c) ==
  /\ check[c].phase = "probe"
  /\ check' = [check EXCEPT ![c].phase = "save", ![c].ok = reach[check[c].node]]
  /\ UNCHANGED <<row, edited, hyst, reach, faults, latest, alarm, from>>

\* UpdateNode as the comment on CheckNodeHealth has it: only the status is written.
WrittenStatus(k) == [row EXCEPT ![k.node].status = IF k.ok THEN "online" ELSE "error"]

\* A check that writes the status of a reachable node only.
WrittenIfOk(k) == IF k.ok THEN WrittenStatus(k) ELSE row

\* UpdateNode writes the status, and the address and the other settings as they were
\* when the check read the row.
Written(k) ==
  [row EXCEPT ![k.node].status = IF k.ok THEN "online" ELSE "error",
              ![k.node].address = k.address]

\* An error of CheckNodeHealth makes addNode delete the node again.
AfterError(c) == IF check[c].adding THEN "undo" ELSE "idle"

\* After a write that failed, a failed check is counted and a successful one is not.
SaveFailed(c) ==
  /\ check' = [check EXCEPT ![c].phase = IF check[c].ok THEN AfterError(c) ELSE "count"]
  /\ UNCHANGED row

Save(c) ==
  /\ check[c].phase = "save"
  /\ \/ /\ Live(check[c].node)
        /\ row' = Written(check[c])
        /\ check' = [check EXCEPT ![c].phase = "count"]
        /\ UNCHANGED faults
     \/ ~Live(check[c].node) /\ SaveFailed(c) /\ UNCHANGED faults
     \/ faults < MaxFaults /\ faults' = faults + 1 /\ SaveFailed(c)
  /\ UNCHANGED <<edited, hyst, reach, latest, alarm, from>>

\* The result is recorded, the alert sent and the handler done or undone.
Counted(c, entry, outcome, send, phase) ==
  LET n == check[c].node
  IN /\ check[c].phase = "count"
     /\ hyst' = [hyst EXCEPT ![n] = entry]
     /\ latest' = [latest EXCEPT ![n] = outcome]
     /\ alarm' = IF send = "none" THEN alarm ELSE [alarm EXCEPT ![n] = send]
     /\ check' = [check EXCEPT ![c].phase = phase]
     /\ UNCHANGED <<row, edited, reach, faults>>

CountFail(c) ==
  LET k == check[c]
      result == AfterFail(hyst[k.node], k.before)
  IN /\ ~k.ok
     /\ Counted(c, result.entry, [kind |-> "fail", before |-> k.before], result.send,
                AfterError(c))
     /\ from' = IF result.send = "down" THEN [from EXCEPT ![k.node] = result.from] ELSE from

CountOk(c) ==
  LET k == check[c]
      result == AfterOk(hyst[k.node])
  IN /\ k.ok
     /\ Counted(c, result.entry, [kind |-> "ok", before |-> k.before], result.send, "idle")
     /\ UNCHANGED from

---------------------------------------------------------------------------
\* The admin, the worker and the panel process.

\* DeleteNode: the row goes first, then the entry; a check that began before may still
\* count its result afterwards.
DeleteRow(n) ==
  /\ row' = [row EXCEPT ![n].life = "deleted"]
  /\ Reset({n})

DeleteNode(n) ==
  /\ Live(n) /\ DeleteRow(n)
  /\ UNCHANGED <<edited, check, reach, faults>>

UndoAdd(c) ==
  /\ check[c].phase = "undo"
  /\ DeleteRow(check[c].node)
  /\ check' = [check EXCEPT ![c].phase = "idle"]
  /\ UNCHANGED <<edited, reach, faults>>

\* Handler updateNode: the address, when the form has one.
EditNode(n, a) ==
  /\ Live(n)
  /\ row' = [row EXCEPT ![n].address = a]
  /\ edited' = [edited EXCEPT ![n] = a]
  /\ UNCHANGED <<hyst, check, reach, faults, latest, alarm, from>>

\* SetNodeEnabled touches the row only: the entry stays until a check meets the
\* disabled node, and the jobs never do.
SetNodeEnabled(n, enable) ==
  /\ Live(n) /\ row[n].enable # enable
  /\ row' = [row EXCEPT ![n].enable = enable]
  /\ UNCHANGED <<edited, hyst, check, reach, faults, latest, alarm, from>>

\* The worker becomes reachable or unreachable.
WorkerFlips(n) ==
  /\ reach' = [reach EXCEPT ![n] = ~@]
  /\ UNCHANGED <<row, edited, hyst, check, faults, latest, alarm, from>>

\* The panel process is restarted: checks under way and all entries are lost.
PanelRestart ==
  /\ faults < MaxFaults /\ faults' = faults + 1
  /\ Reset(Nodes)
  /\ check' = [c \in Checkers |-> [check[c] EXCEPT !.phase = "idle"]]
  /\ UNCHANGED <<row, edited, reach>>

\* A check that began goes on by itself: its HTTP calls have timeouts.
Continue(c) ==
  CheckDisabled(c) \/ Probe(c) \/ Save(c) \/ CountFail(c) \/ CountOk(c) \/ UndoAdd(c)

Next ==
  \/ \E c \in Checkers, n \in Nodes : JobBegin(c, n) \/ CheckNodeBegin(c, n)
  \/ \E c \in Checkers, n \in Nodes, a \in Addresses : AddNodeBegin(c, n, a)
  \/ \E c \in Checkers : Continue(c)
  \/ \E n \in Nodes : DeleteNode(n) \/ WorkerFlips(n)
  \/ \E n \in Nodes, a \in Addresses : EditNode(n, a)
  \/ \E n \in Nodes, enable \in BOOLEAN : SetNodeEnabled(n, enable)
  \/ PanelRestart

Spec == Init /\ [][Next]_vars

\* The cron job ticks every second and its goroutines run to their end; nobody has to
\* ask for a check, add or edit a node.
Fairness ==
  /\ \A c \in Checkers : WF_vars(Continue(c))
  /\ \A n \in Nodes : WF_vars(\E c \in Jobs : JobBegin(c, n))

FairSpec == Spec /\ Fairness

---------------------------------------------------------------------------
(***************************************************************************)
(* Properties.                                                             *)
(***************************************************************************)

\* Every variable has its type; a count of successes never outlives its alert.
TypeOK ==
  /\ row \in [Nodes -> [life : {"unused", "live", "deleted"}, enable : BOOLEAN,
                        status : Statuses, address : Addresses]]
  /\ edited \in [Nodes -> Addresses]
  /\ hyst \in [Nodes -> [failStreak : Nat, okStreak : {0, 1}, hasOpenDown : BOOLEAN,
                         firstFailFrom : Statuses \cup {""}]]
  /\ check \in [Checkers -> CheckState]
  /\ reach \in [Nodes -> BOOLEAN]
  /\ faults \in Nat /\ faults <= MaxFaults
  /\ latest \in [Nodes -> [kind : {"none", "ok", "fail"}, before : Statuses]]
  /\ alarm \in [Nodes -> {"none", "down", "up"}]
  /\ from \in [Nodes -> Statuses]

Alerts == INSTANCE NodeAlerts

\* The counters implement the promise: an alert "down" for two failures in a row while
\* none is open, naming the status before the first, "up" for two successes in a row
\* while one is open, and nothing else, with checks overlapping and nodes forgotten.
AlertsAsPromised == Alerts!Spec

\* From some time on the node is enabled and its worker stays (un)reachable.
StaysDown(n) == Live(n) /\ row[n].enable /\ ~reach[n]
StaysUp(n) == Live(n) /\ row[n].enable /\ reach[n]

\* A worker that stays unreachable is reported, and the report stays open.
DownIsReported ==
  \A n \in Nodes : <>[]StaysDown(n) => <>[](alarm[n] = "down")

\* A worker that stays reachable does not stay reported as down.
RecoveryIsReported ==
  \A n \in Nodes : <>[]StaysUp(n) => <>[](alarm[n] # "down")

\* The status in the database follows the worker, whatever checks overlapped.
StatusFollowsWorker ==
  \A n \in Nodes : /\ <>[]StaysDown(n) => <>[](row[n].status = "error")
                   /\ <>[]StaysUp(n) => <>[](row[n].status = "online")

\* A health check "updates its status and response time" (comment on CheckNodeHealth):
\* the address an admin saved is still there when the checks are done.
EditSurvivesCheck == \A n \in Nodes : Live(n) => row[n].address = edited[n]

---------------------------------------------------------------------------
(***************************************************************************)
(* The inductive invariant: what the counters of a node mean in terms of   *)
(* the last check and the last alert.                                      *)
(***************************************************************************)
CountersMeanChecks ==
  \A n \in Nodes :
    LET h == hyst[n]
    IN /\ h.hasOpenDown <=> alarm[n] = "down"
       /\ h.failStreak > 0 <=> latest[n].kind = "fail"
       /\ h.failStreak > 0 => h.okStreak = 0
       /\ h.hasOpenDown => (h.okStreak = 1 <=> latest[n].kind = "ok")
       /\ ~h.hasOpenDown => h.okStreak = 0 /\ h.failStreak < 2
       /\ ~h.hasOpenDown /\ h.failStreak = 1 => h.firstFailFrom = latest[n].before

HealthInv == TypeOK /\ CountersMeanChecks
=============================================================================
