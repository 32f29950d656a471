------------------------------- MODULE Sidecars -------------------------------
(***************************************************************************)
(* The Telemt processes beside a core, one for each inbound of protocol    *)
(* telemt, and what brings the rows of the database to them:               *)
(*                                                                         *)
(*   node/telemt/manager.go             Manager                            *)
(*   node/api/server.go                 applyConfig, stopTelemt,           *)
(*                                      restartTelemt                      *)
(*   web/service/telemt_config.go       BuildTelemtPayloads...             *)
(*   web/service/telemt_panel.go        the manager of a panel without     *)
(*                                      workers (Standalone)               *)
(*   web/service/telemt_session_sync.go the push after a block             *)
(*                                                                         *)
(* Payloads are built from the rows and arrive later, in any order; a      *)
(* manager takes them one at a time.  Its map says which tag was started   *)
(* with which file; a process that has exited stays in it.                 *)
(***************************************************************************)
EXTENDS Naturals, FiniteSets, Functions

CONSTANTS
  Handlers,     \* goroutines and requests that bring a change
  Tags,         \* inbounds of protocol telemt
  Clients,
  Standalone,   \* BOOLEAN: the panel runs the sidecars itself
  MaxManagers,  \* managers the panel creates, 1 for a worker
  MaxChanges,   \* changes of the rows
  MaxFaults     \* what goes wrong

\* What an instance has to fulfil: a worker has a manager.
SidecarsAssumption ==
  Standalone \in BOOLEAN /\ MaxManagers \in Nat /\ (Standalone \/ MaxManagers > 0)

Managers == 1 .. MaxManagers
NoManager == 0
NotGiven == "not given"   \* a mapping without secret, or a disabled client
Nothing == [t \in {} |-> NotGiven]   \* the function of no tag

VARIABLES
  rows,      \* of each enabled inbound's tag: of each client the row
  current,   \* the manager in use (panelTelemt)
  made,      \* managers created so far
  entries,   \* of each manager: tags with the file they were started with
  procs,     \* of each manager: tags that live, with their file
  snapshot,  \* of each manager: the payloads of the last success, if any
  task,      \* of each handler
  changes, faults,
  excuses    \* ghost: why the processes may differ from the rows

vars == <<rows, current, made, entries, procs, snapshot, task, changes, faults, excuses>>

-----------------------------------------------------------------------------
(* A row: whether the client is enabled, with a secret, and whether its    *)
(* address is blocked.                                                     *)
Rows == {NotGiven, "given", "blocked"}

\* The file of an inbound: who may enter, and who of them is turned away.
Toml(members) ==
  [users |-> {c \in Clients : members[c] # NotGiven},
   deny |-> {c \in Clients : members[c] = "blocked"}]

\* What is to run, from the rows: a file for each enabled tag.
Payloads == [t \in DOMAIN rows |-> Toml(rows[t])]

NoTask == [pc |-> "idle", payloads |-> Nothing, manager |-> NoManager,
           stale |-> FALSE]
Idle(h) == task[h].pc = "idle"

\* A worker has its manager from the start, a panel when it needs one.
Init ==
  /\ rows = Nothing
  /\ made = IF Standalone THEN 0 ELSE 1
  /\ current = made
  /\ entries = [m \in Managers |-> Nothing]
  /\ procs = entries
  /\ snapshot = [m \in Managers |-> {}]
  /\ task = [h \in Handlers |-> NoTask]
  /\ changes = 0 /\ faults = 0
  /\ excuses = {}

Fault == faults < MaxFaults /\ faults' = faults + 1

\* Everyone who holds payloads from before this point is late from now on.
Outdate(h) ==
  [g \in Handlers |-> IF g = h THEN NoTask
                      ELSE [task[g] EXCEPT !.stale = @ \/ task[g].pc \in
                                           {"built", "taken", "replay", "stopped", "cleared"}]]

Excuse(h, reason) ==
  excuses' = excuses \cup {reason} \cup (IF task[h].stale THEN {"overtaken"} ELSE {})

\* A handler that finds the rows in its hands, and is alone, settles all.
Settle(h) ==
  excuses' = IF /\ task[h].payloads = Payloads
                /\ \A g \in Handlers \ {h} : Idle(g)
             THEN excuses \cap {"dropped"}
             ELSE excuses \cup (IF task[h].stale THEN {"overtaken"} ELSE {})

-----------------------------------------------------------------------------
(* A row is changed, and somebody sets out to bring the sidecars after it. *)
Change(h) ==
  /\ Idle(h)
  /\ changes < MaxChanges
  /\ changes' = changes + 1
  /\ \E t \in Tags :
       \/ \E members \in [Clients -> Rows] :
            rows' = [u \in DOMAIN rows \cup {t} |-> IF u = t THEN members ELSE rows[u]]
       \/ rows' = Restrict(rows, DOMAIN rows \ {t})
  /\ rows' # rows
  /\ task' = [task EXCEPT ![h].pc = "due"]
  /\ UNCHANGED <<current, made, entries, procs, snapshot, faults, excuses>>

\* Payloads are built from the rows as they are now.
Build(h) ==
  /\ task[h].pc = "due"
  /\ task' = [task EXCEPT ![h].pc = "built", ![h].payloads = Payloads]
  /\ UNCHANGED <<rows, current, made, entries, procs, snapshot, changes, faults, excuses>>

\* A query fails, the worker is not reached, or its core refuses the
\* configuration: the sidecars are not asked.
Undone(h) ==
  /\ task[h].pc \in {"due", "built"}
  /\ task[h].pc = "built" => ~Standalone
  /\ Fault
  /\ Excuse(h, "failed")
  /\ task' = [task EXCEPT ![h] = NoTask]
  /\ UNCHANGED <<rows, current, made, entries, procs, snapshot, changes>>

(* getPanelTelemt: the handler takes the manager before it uses it, and    *)
(* may use it when it is no longer the current one.                        *)
Take(h) ==
  /\ task[h].pc = "built"
  /\ task[h].payloads # Nothing
  /\ Standalone
  /\ IF current # NoManager
     THEN current' = current
     ELSE made < MaxManagers /\ current' = made + 1
  /\ made' = IF current = NoManager THEN current' ELSE made
  /\ task' = [task EXCEPT ![h].pc = "taken", ![h].manager = current']
  /\ UNCHANGED <<rows, entries, procs, snapshot, changes, faults, excuses>>

\* A worker's manager.
Arrive(h) ==
  /\ task[h].pc = "built"
  /\ ~Standalone
  /\ task' = [task EXCEPT ![h].pc = "taken", ![h].manager = current]
  /\ UNCHANGED <<rows, current, made, entries, procs, snapshot, changes, faults, excuses>>

\* Mutant: a panel forgets its manager and lets the processes be.
DropOnly ==
  /\ Standalone
  /\ current' = NoManager
  /\ UNCHANGED <<entries, procs>>

StopAll(m) ==
  /\ entries' = [entries EXCEPT ![m] = Nothing]
  /\ procs' = [procs EXCEPT ![m] = Nothing]

\* Apply with nothing to run: all are stopped, and the snapshot is written
\* after the mutex is given back.
Clear(h) ==
  /\ task[h].pc = "taken"
  /\ task[h].payloads = Nothing
  /\ StopAll(task[h].manager)
  /\ task' = [Outdate(h) EXCEPT ![h] = [task[h] EXCEPT !.pc = "cleared", !.stale = FALSE]]
  /\ Settle(h)
  /\ UNCHANGED <<rows, current, made, snapshot, changes, faults>>

\* Mutant: with nothing to run the snapshot stays.
KeepsSnapshot(h) ==
  /\ task[h].pc = "cleared"
  /\ excuses' = IF task[h].stale THEN excuses \cup {"overtaken"} ELSE excuses
  /\ task' = [task EXCEPT ![h] = NoTask]
  /\ UNCHANGED <<rows, current, made, entries, procs, snapshot, changes, faults>>

CommitNothing(h) ==
  /\ task[h].pc = "cleared"
  /\ snapshot' = [snapshot EXCEPT ![task[h].manager] = {Nothing}]
  /\ excuses' = IF task[h].stale THEN excuses \cup {"overtaken"} ELSE excuses
  /\ task' = [task EXCEPT ![h] = NoTask]
  /\ UNCHANGED <<rows, current, made, entries, procs, changes, faults>>

(* Apply: what is no longer wanted is stopped, what has another file is    *)
(* stopped and started again, what has the same file is left alone.  The   *)
(* map is walked in no order, and a file or a process that fails ends the  *)
(* walk: the tag is then stopped, the others are as the walk left them.    *)
Wanted(h) ==
  LET has == entries[task[h].manager]
      payloads == task[h].payloads
  IN {t \in DOMAIN payloads : t \in DOMAIN has => has[t] # payloads[t]}

\* What there is after the walk, of what there was.
After(has, payloads, started, failing) ==
  [t \in started \cup (DOMAIN has \cap (DOMAIN payloads \ failing)) |->
     IF t \in started THEN payloads[t] ELSE has[t]]

Walk(h, started, failing) ==
  LET m == task[h].manager
      payloads == task[h].payloads
  IN /\ payloads # Nothing
     /\ entries' = [entries EXCEPT ![m] = After(@, payloads, started, failing)]
     /\ procs' = [procs EXCEPT ![m] = After(@, payloads, started, failing)]
     /\ task' = Outdate(h)
     /\ UNCHANGED <<rows, current, made, changes>>

\* A manager that has been dropped starts what nobody will stop.
Apply(h) ==
  /\ task[h].pc = "taken"
  /\ Walk(h, Wanted(h), {})
  /\ snapshot' = [snapshot EXCEPT ![task[h].manager] = {task[h].payloads}]
  /\ IF task[h].manager = current THEN Settle(h) ELSE Excuse(h, "dropped")
  /\ UNCHANGED faults

ApplyFails(h) ==
  /\ task[h].pc = "taken"
  /\ Fault
  /\ \E failing \in Wanted(h) : \E started \in SUBSET (Wanted(h) \ {failing}) :
       Walk(h, started, {failing})
  /\ Excuse(h, IF task[h].manager = current THEN "failed" ELSE "dropped")
  /\ UNCHANGED snapshot

\* The program is not there: refused before anything is stopped.
NoBinary(h) ==
  /\ task[h].pc = "taken"
  /\ task[h].payloads # Nothing
  /\ Fault
  /\ Excuse(h, "failed")
  /\ task' = [task EXCEPT ![h] = NoTask]
  /\ UNCHANGED <<rows, current, made, entries, procs, snapshot, changes>>

(* StopLocalTelemtStandalone: the manager is stopped and dropped, when no  *)
(* inbound is left to run or the core is stopped.                          *)
DropManager ==
  /\ Standalone
  /\ current' = NoManager
  /\ IF current # NoManager THEN StopAll(current) ELSE UNCHANGED <<entries, procs>>

NothingToRun(h) ==
  /\ task[h].pc = "built"
  /\ task[h].payloads = Nothing
  /\ DropManager
  /\ Settle(h)
  /\ task' = Outdate(h)
  /\ UNCHANGED <<rows, made, snapshot, changes, faults>>

StopXray(h) ==
  /\ Idle(h)
  /\ current # NoManager
  /\ DropManager
  /\ excuses' = excuses \cup {"stopped"}
  /\ UNCHANGED <<rows, made, snapshot, task, changes, faults>>

\* stopTelemt of a worker, StopLocalTelemtSidecars of a panel.
StopTelemt(h) ==
  /\ Idle(h)
  /\ current # NoManager
  /\ entries[current] # Nothing
  /\ StopAll(current)
  /\ excuses' = excuses \cup {"stopped"}
  /\ UNCHANGED <<rows, current, made, snapshot, task, changes, faults>>

(* RestartTelemtService of a panel stops the sidecars and builds anew;     *)
(* restartTelemt of a worker reads the snapshot, stops, and applies it.    *)
Rebuild(h) ==
  /\ Standalone
  /\ Idle(h)
  /\ IF current # NoManager THEN StopAll(current) ELSE UNCHANGED <<entries, procs>>
  /\ excuses' = excuses \cup {"stopped"}
  /\ task' = [task EXCEPT ![h].pc = "due"]
  /\ UNCHANGED <<rows, current, made, snapshot, changes, faults>>

ReadSnapshot(h) ==
  /\ ~Standalone
  /\ Idle(h)
  /\ \E payloads \in snapshot[current] :
       task' = [task EXCEPT ![h] = [NoTask EXCEPT
                  !.pc = "replay", !.payloads = payloads, !.manager = current,
                  !.stale = \E g \in Handlers : task[g].pc = "cleared"]]
  /\ UNCHANGED <<rows, current, made, entries, procs, snapshot, changes, faults, excuses>>

StopForRestart(h) ==
  /\ task[h].pc = "replay"
  /\ StopAll(task[h].manager)
  /\ task' = [task EXCEPT ![h].pc = "taken"]
  /\ UNCHANGED <<rows, current, made, snapshot, changes, faults, excuses>>

\* A process ends by itself; nobody is told.
Exits(m, t) ==
  /\ t \in DOMAIN procs[m]
  /\ Fault
  /\ procs' = [procs EXCEPT ![m] = Restrict(@, DOMAIN @ \ {t})]
  /\ UNCHANGED <<rows, current, made, entries, snapshot, task, changes, excuses>>

Next ==
  \/ \E h \in Handlers :
       \/ Change(h) \/ Build(h) \/ Undone(h) \/ Take(h) \/ Arrive(h)
       \/ Clear(h) \/ CommitNothing(h) \/ Apply(h) \/ ApplyFails(h) \/ NoBinary(h)
       \/ NothingToRun(h) \/ StopXray(h) \/ StopTelemt(h)
       \/ Rebuild(h) \/ ReadSnapshot(h) \/ StopForRestart(h)
  \/ \E m \in Managers, t \in Tags : Exits(m, t)

Spec == Init /\ [][Next]_vars

-----------------------------------------------------------------------------
Quiet == \A h \in Handlers : Idle(h)

TypeOK ==
  /\ DOMAIN rows \subseteq Tags /\ made \in 0 .. MaxManagers
  /\ current \in {NoManager, made}
  /\ excuses \subseteq {"failed", "overtaken", "dropped", "stopped"}
  /\ \A m \in Managers :
       /\ DOMAIN procs[m] \subseteq DOMAIN entries[m] /\ DOMAIN entries[m] \subseteq Tags
       /\ Restrict(entries[m], DOMAIN procs[m]) = procs[m]

(* Once nobody is at work, exactly the enabled inbounds run, each with the *)
(* file of its rows, so that a client taken away or an address blocked is  *)
(* turned away; but for processes that have ended by themselves, and if no *)
(* push failed, none was overtaken by a newer one, and nobody stopped them *)
(* since the last that settled all (manager.go:133, telemt_session_sync).  *)
SidecarsFollowRows ==
  Quiet /\ excuses = {} =>
    \/ current # NoManager /\ entries[current] = Payloads
    \/ current = NoManager /\ Payloads = Nothing

(* The snapshot a worker's restart repeats is then what runs, although it  *)
(* is written apart from the processes (manager.go:145, server.go:451).    *)
RestartRepeatsWhatRuns ==
  Quiet /\ excuses = {} /\ ~Standalone =>
    \A payloads \in snapshot[current] : payloads = entries[current]

(* A process that no current manager knows, which nobody can stop any      *)
(* more, comes only from a handler that took the manager before it was     *)
(* dropped (telemt_panel.go:92).                                           *)
NoneUnsupervised ==
  "dropped" \notin excuses /\ Quiet =>
    \A m \in Managers \ {current} : procs[m] = Nothing

SidecarsAsConfigured == SidecarsFollowRows /\ RestartRepeatsWhatRuns /\ NoneUnsupervised

-----------------------------------------------------------------------------
(* What makes SidecarsAsConfigured inductive (SidecarsProofs).             *)

\* What can be run: a file for each of some tags.
Files == [users : SUBSET Clients, deny : SUBSET Clients]
Runs == UNION {[T -> Files] : T \in SUBSET Tags}

Task == [pc : {"idle", "due", "built", "taken", "replay", "cleared"}, payloads : Runs,
         manager : 0 .. MaxManagers, stale : BOOLEAN]

Shapes ==
  /\ made \in 0 .. MaxManagers /\ current \in {NoManager, made}
  /\ entries \in [Managers -> Runs] /\ procs \in [Managers -> Runs]
  /\ snapshot \in [Managers -> SUBSET Runs]
  /\ rows \in UNION {[T -> [Clients -> Rows]] : T \in SUBSET Tags}
  /\ task \in [Handlers -> Task]

\* Who uses which manager, and what only a worker or only a panel does.
InUse(h) ==
  /\ task[h].pc \in {"taken", "replay", "cleared"} => task[h].manager \in 1 .. made
  /\ task[h].pc \in {"replay", "cleared"} => ~Standalone
  /\ task[h].pc = "taken" /\ Standalone => task[h].payloads # Nothing
Wiring ==
  /\ ~Standalone => current = 1 /\ made = 1
  /\ \A m \in Managers : m > made => entries[m] = Nothing /\ procs[m] = Nothing
  /\ \A h \in Handlers : InUse(h)

\* A manager that is not the current one has nothing, but for a handler that
\* took it before it was dropped.
Dropped ==
  "dropped" \notin excuses =>
    \A m \in Managers \ {current} : entries[m] = Nothing /\ procs[m] = Nothing

\* Payloads on their way; who brings the rows as they are; who was overtaken.
Holding(h) == task[h].pc \in {"built", "taken", "replay"}
Bringing(h) == task[h].pc = "due" \/ (Holding(h) /\ task[h].payloads = Payloads)
Overtaken(h) == task[h].stale /\ (Holding(h) \/ task[h].pc = "cleared")
\* Nothing runs since this handler stopped all.
Clearing(h) == task[h].pc = "cleared" /\ ~task[h].stale
NothingSince == \A h \in Handlers : Clearing(h) => entries[task[h].manager] = Nothing

InSync ==
  \/ current # NoManager /\ entries[current] = Payloads
  \/ current = NoManager /\ Payloads = Nothing

\* Nobody has anything in his hands, the processes are those of the rows, and
\* a restart would repeat them.
Settled ==
  /\ InSync
  /\ \A h \in Handlers : ~Holding(h)
  /\ ~Standalone => \A payloads \in snapshot[current] :
       payloads = entries[current] \/ \E h \in Handlers : Clearing(h)

\* Without an excuse somebody brings the rows as they are, or was overtaken and
\* will give the excuse, or all is settled.
Followed ==
  excuses = {} => Settled \/ \E h \in Handlers : Bringing(h) \/ Overtaken(h)

SidecarsInv ==
  TypeOK /\ Shapes /\ Wiring /\ Dropped /\ NothingSince /\ Followed
=============================================================================
