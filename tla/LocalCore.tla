----------------------------- MODULE LocalCore -----------------------------
(***************************************************************************)
(* The Xray core of a panel in single mode: RestartXray, StopXray and the  *)
(* restart flag (web/service/xray.go), the jobs that call them             *)
(* (web/web.go, web/job/check_xray_running_job.go), and the requests that  *)
(* change an inbound in the running core and in the database               *)
(* (web/service/inbound.go, web/controller/inbound.go).                    *)
(*                                                                         *)
(* Every goroutine takes its steps one by one.  RestartXray and StopXray   *)
(* hold `lock`; the inbound requests, the flag, the crash check and the    *)
(* calls into the core do not.  sure, fresh and stuck are history:         *)
(* no step of the code depends on them.                                    *)
(***************************************************************************)
EXTENDS Naturals, FiniteSets

CONSTANTS
  Tags,      \* inbounds, by tag
  Contents,  \* what an inbound's configuration can be
  Callers,   \* goroutines that may run a job or ask for a (re)start or a stop
  Requests,  \* goroutines of inbound requests
  Nobody,    \* the lock is free
  NoRow,     \* no such inbound: in the database, or in the core
  Off,       \* a row whose inbound is disabled
  NoCore,    \* no process, or none running
  MaxFaults  \* bound on failures

ASSUME LocalAssumption ==
  /\ {NoRow, Off} \cap Contents = {} /\ NoRow # Off
  /\ Nobody \notin Callers
  /\ NoCore \notin [Tags -> Contents \cup {NoRow}]
  /\ MaxFaults \in Nat

VARIABLES
  db,      \* the inbounds table
  core,    \* what the process of p serves, NoCore if it is not running
  conf,    \* p.GetConfig(), NoCore while p is nil
  flag,    \* isNeedXrayRestart
  manual,  \* isManuallyStopped
  checks,  \* checkTime of CheckXrayRunningJob: 1 also stands for more
  lock,    \* who holds `lock`
  cfg,     \* the configuration RestartXray has built
  call,    \* what each caller is doing
  req,     \* what each inbound request is doing
  orphans, \* cores whose Process was replaced while they ran
  faults,  \* failures so far
  sure,    \* inbounds changed last by a request that was alone and had no failure
  fresh,   \* inbounds no request has touched since cfg was read
  stuck    \* cores that survived Stop

procVars == <<core, conf, orphans, stuck>>
ctlVars == <<flag, manual, checks>>
vars == <<db, core, conf, flag, manual, checks, lock, cfg, call, req, orphans, faults,
          sure, fresh, stuck>>

Served == [Tags -> Contents \cup {NoRow}]

\* A row taken as it is, enabled or not.
ServedAlways(row) == row

\* Only an enabled inbound is served.
ServedAs(row) == IF row = Off THEN NoRow ELSE row

\* GetXrayConfig goes through all rows.
ConfigOf(rows) == [t \in Tags |-> ServedAs(rows[t])]

Running == core # NoCore

CallState == [phase : {"idle", "wait", "decide", "start", "stop"}, force : BOOLEAN,
              job : BOOLEAN]

ReqState == [phase : {"idle", "hot", "save", "flag"}, tag : Tags,
             old : Contents \cup {NoRow, Off}, new : Contents \cup {NoRow, Off},
             need : BOOLEAN, clean : BOOLEAN, failed : BOOLEAN]

IdleCall == [phase |-> "idle", force |-> FALSE, job |-> FALSE]

IdleReq(t) == [phase |-> "idle", tag |-> t, old |-> NoRow, new |-> NoRow,
               need |-> FALSE, clean |-> FALSE, failed |-> FALSE]

\* startTask begins with RestartXray(true).
Init ==
  /\ db \in [Tags -> Contents \cup {NoRow}]
  /\ core = NoCore /\ conf = NoCore
  /\ flag = FALSE /\ manual = FALSE /\ checks = 0 /\ lock = Nobody
  /\ cfg = ConfigOf(db)
  /\ \E a \in Callers :
       call = [b \in Callers |-> IF b = a THEN [IdleCall EXCEPT !.phase = "wait", !.force = TRUE]
                                 ELSE IdleCall]
  /\ \E t \in Tags : req = [q \in Requests |-> IdleReq(t)]
  /\ orphans = 0 /\ faults = 0 /\ stuck = 0
  /\ sure = Tags /\ fresh = {}

Fault == faults < MaxFaults /\ faults' = faults + 1

Busy(t) == \E q \in Requests : req[q].phase # "idle" /\ req[q].tag = t

---------------------------------------------------------------------------
\* Who asks for a restart or a stop.

Ask(a, force, job) ==
  /\ call[a].phase = "idle"
  /\ call' = [call EXCEPT ![a] = [phase |-> "wait", force |-> force, job |-> job]]

\* RestartXrayAsync(false) of the controllers, RestartXray(true) of RestartXrayService.
AskRestart(a) ==
  /\ \E force \in BOOLEAN : Ask(a, force, FALSE)
  /\ UNCHANGED <<db, procVars, ctlVars, lock, cfg, req, faults, sure, fresh>>

\* Every 30 seconds: IsNeedRestartAndSetFalse, then RestartXray(false).
NeedRestartTick(a) ==
  /\ flag /\ flag' = FALSE
  /\ Ask(a, FALSE, FALSE)
  /\ UNCHANGED <<db, procVars, manual, checks, lock, cfg, req, faults, sure, fresh>>

DidXrayCrash == ~Running /\ ~manual

\* Every second.  A tick does not wait for the previous one to end.
CheckTick(a) ==
  /\ call[a].phase = "idle"
  /\ \/ /\ ~DidXrayCrash /\ checks' = 0 /\ UNCHANGED call
     \/ DidXrayCrash /\ checks = 0 /\ checks' = 1 /\ UNCHANGED call
     \/ DidXrayCrash /\ checks = 1 /\ Ask(a, FALSE, TRUE) /\ UNCHANGED checks
  /\ UNCHANGED <<db, procVars, flag, manual, lock, cfg, req, faults, sure, fresh>>

\* ServerService.StopXrayService looks for a running core before it takes the lock.
AskStop(a) ==
  /\ call[a].phase = "idle" /\ Running
  /\ call' = [call EXCEPT ![a].phase = "stop"]
  /\ UNCHANGED <<db, procVars, ctlVars, lock, cfg, req, faults, sure, fresh>>

---------------------------------------------------------------------------
\* RestartXray, under the lock.

\* The caller is done; the check job starts counting again.
Return(a) ==
  /\ call' = [call EXCEPT ![a] = IdleCall]
  /\ checks' = IF call[a].job THEN 0 ELSE checks

\* The configuration is built from the database; a request under way may or may not
\* be in it.
ReadRows(a) ==
  /\ manual' = FALSE
  /\ \/ /\ lock' = a /\ cfg' = ConfigOf(db)
        /\ fresh' = {t \in Tags : ~Busy(t)}
        /\ req' = [q \in Requests |-> [req[q] EXCEPT !.clean = FALSE]]
        /\ call' = [call EXCEPT ![a].phase = "decide"]
        /\ UNCHANGED <<checks, faults>>
     \/ /\ Fault /\ Return(a)   \* GetXrayConfig fails
        /\ UNCHANGED <<lock, cfg, fresh, req>>
  /\ UNCHANGED <<db, procVars, flag, sure>>

\* GetXrayConfig as it would run if RestartXray took no lock.
GetXrayConfigUnlocked(a) == call[a].phase = "wait" /\ ReadRows(a)

GetXrayConfig(a) == call[a].phase = "wait" /\ lock = Nobody /\ ReadRows(a)

\* The decision to restart if RestartXray looked only for a difference or a request.
NeedUnlessSame(a) == call[a].force \/ flag \/ (conf # NoCore /\ conf # cfg)

\* A core that is not running is always started.
Need(a) == call[a].force \/ flag \/ ~Running \/ conf # cfg

\* Stop's error is ignored.
Decide(a) ==
  /\ call[a].phase = "decide"
  /\ \/ /\ ~Need(a) /\ Return(a) /\ lock' = Nobody /\ fresh' = {}
        /\ UNCHANGED <<core, stuck, faults>>
     \/ /\ Need(a) /\ call' = [call EXCEPT ![a].phase = "start", ![a].force = FALSE]
        /\ \/ core' = NoCore /\ UNCHANGED <<stuck, faults>>
           \/ Running /\ Fault /\ stuck' = stuck + 1 /\ UNCHANGED core
        /\ UNCHANGED <<checks, lock, fresh>>
  /\ UNCHANGED <<db, conf, orphans, flag, manual, cfg, req, sure>>

\* A start that reuses the configuration of the process it replaces.
StartSameConfig(a) ==
  /\ call[a].phase = "start"
  /\ conf' = (IF conf = NoCore THEN cfg ELSE conf)
  /\ core' = conf'
  /\ orphans' = orphans + (IF Running THEN 1 ELSE 0)
  /\ sure' = sure \cup fresh
  /\ req' = [q \in Requests |-> [req[q] EXCEPT !.clean = FALSE]]
  /\ Return(a) /\ lock' = Nobody /\ fresh' = {}
  /\ UNCHANGED <<db, stuck, flag, manual, cfg, faults>>

\* p is replaced first, whether or not the new process then starts.
Start(a) ==
  /\ call[a].phase = "start"
  /\ conf' = cfg
  /\ \/ core' = cfg /\ UNCHANGED faults
     \/ Fault /\ core' = NoCore
  /\ orphans' = orphans + (IF Running THEN 1 ELSE 0)
  /\ sure' = sure \cup fresh
  /\ req' = [q \in Requests |-> [req[q] EXCEPT !.clean = FALSE]]
  /\ Return(a) /\ lock' = Nobody /\ fresh' = {}
  /\ UNCHANGED <<db, stuck, flag, manual, cfg>>

\* StopXray.
StopXray(a) ==
  /\ call[a].phase = "stop" /\ lock = Nobody
  /\ manual' = TRUE
  /\ \/ core' = NoCore /\ UNCHANGED <<stuck, faults>>
     \/ Running /\ Fault /\ stuck' = stuck + 1 /\ UNCHANGED core
  /\ call' = [call EXCEPT ![a] = IdleCall]
  /\ UNCHANGED <<db, conf, orphans, flag, checks, lock, cfg, req, sure, fresh>>

---------------------------------------------------------------------------
(***************************************************************************)
(* Inbound requests.  old is the row the request found: NoRow makes it     *)
(* AddInbound, new = NoRow makes it DelInbound, else it is UpdateInbound.  *)
(* AddInbound saves the row before it calls the core, the others after.    *)
(***************************************************************************)

\* So far nothing runs at the same time; a request that makes no call leaves the core
\* as it found it.
Undisturbed(t, new) ==
  /\ lock = Nobody /\ ~Busy(t)
  /\ {db[t], new} = {NoRow, Off} => t \in sure

Begin(q, t, new) ==
  /\ req[q].phase = "idle" /\ (db[t] # NoRow \/ new # NoRow)
  /\ LET r == [phase |-> IF db[t] = NoRow THEN "save" ELSE "hot", tag |-> t, old |-> db[t],
               new |-> new, need |-> FALSE, clean |-> Undisturbed(t, new),
               failed |-> FALSE]
     IN req' = [k \in Requests |->
                  IF k = q THEN r
                  ELSE [req[k] EXCEPT !.clean = @ /\ req[k].tag # t]]
  /\ sure' = sure \ {t} /\ fresh' = fresh \ {t}
  /\ UNCHANGED <<db, procVars, ctlVars, lock, cfg, call, faults>>

\* After the last of the two steps: SetToNeedRestart, or the end.
Proceed(q, phase, need, failed) ==
  LET last == IF req[q].old = NoRow THEN phase = "hot" ELSE phase = "save"
      other == IF phase = "hot" THEN "save" ELSE "hot"
      next == CASE ~last -> other [] last /\ need -> "flag" [] OTHER -> "idle"
  IN /\ req' = [req EXCEPT ![q] = IF next = "idle" THEN IdleReq(@.tag)
                                  ELSE [@ EXCEPT !.phase = next, !.need = need,
                                                 !.failed = failed]]
     /\ sure' = IF next = "idle" /\ req[q].clean /\ ~failed THEN sure \cup {req[q].tag}
                ELSE sure

\* The calls of one request into the core: what it serves then, whether the request
\* wants a restart, and whether something went wrong in a running core.
Called(q, after, need, failed) ==
  /\ req[q].phase = "hot"
  /\ core' = after
  /\ Proceed(q, "hot", need, failed)
  /\ UNCHANGED <<db, conf, orphans, stuck, ctlVars, lock, cfg, call, fresh>>

IsUpdate(q) == req[q].old # NoRow /\ req[q].new # NoRow

\* A disabled inbound is added or deleted without a call.  Before the first start there
\* is no process to call: UpdateInbound then asks for a restart unless only the
\* settings changed.
HotSkipped(q) ==
  /\ \/ /\ ~IsUpdate(q) /\ (conf = NoCore \/ req[q].old = Off \/ req[q].new = Off)
        /\ Called(q, core, FALSE, FALSE)
     \/ /\ IsUpdate(q) /\ conf = NoCore
        /\ \E need \in BOOLEAN : Called(q, core, need, FALSE)
  /\ UNCHANGED faults

Calls(q) == conf # NoCore /\ (IsUpdate(q) \/ (req[q].old # Off /\ req[q].new # Off))

\* No core answers: an update that only removes takes that for "may not exist".
HotUnanswered(q) ==
  /\ Calls(q) /\ ~Running
  /\ \E need \in IF req[q].new = Off THEN BOOLEAN ELSE {TRUE} : Called(q, core, need, FALSE)
  /\ UNCHANGED faults

\* The core refuses a tag it has, and the removal of one it does not have; an update
\* removes first and does not look at the error.
Refused(q) ==
  ~IsUpdate(q) /\ (req[q].old = NoRow <=> core[req[q].tag] # NoRow)

HotDone(q) ==
  /\ Calls(q) /\ Running /\ ~Refused(q)
  /\ Called(q, [core EXCEPT ![req[q].tag] = ServedAs(req[q].new)], FALSE, FALSE)
  /\ UNCHANGED faults

HotRefused(q) ==
  /\ Calls(q) /\ Running /\ Refused(q)
  /\ Called(q, core, TRUE, TRUE)
  /\ UNCHANGED faults

\* A call fails.  If it is the removal of an update, the addition is refused, and for
\* an inbound to be disabled nothing else happens; if it is the addition, the inbound
\* is gone.
HotFails(q) ==
  /\ Calls(q) /\ Running /\ Fault
  /\ \/ (IsUpdate(q) => core[req[q].tag] # NoRow) /\ Called(q, core, req[q].new # Off, TRUE)
     \/ /\ IsUpdate(q) /\ req[q].new # Off
        /\ Called(q, [core EXCEPT ![req[q].tag] = NoRow], TRUE, TRUE)

\* gorm's Save of an updated row inserts it again if it was deleted meanwhile; a second
\* row with the same tag is refused, and so is the deletion of a row that is gone.
\* After an error the handler reports it and does not ask for a restart.
SaveRow(q) ==
  LET r == req[q]
      refused == (r.old = NoRow /\ db[r.tag] # NoRow) \/ (r.new = NoRow /\ db[r.tag] = NoRow)
  IN /\ r.phase = "save"
     /\ \/ /\ ~refused
           /\ db' = [db EXCEPT ![r.tag] = r.new]
           /\ Proceed(q, "save", r.need, r.failed)
           /\ UNCHANGED faults
        \/ /\ IF refused THEN UNCHANGED faults ELSE Fault
           /\ req' = [req EXCEPT ![q] = IdleReq(@.tag)]
           /\ UNCHANGED <<db, sure>>
     /\ UNCHANGED <<procVars, ctlVars, lock, cfg, call, fresh>>

\* syncWorkerAfterInboundMutation
SetToNeedRestart(q) ==
  /\ req[q].phase = "flag"
  /\ flag' = TRUE
  /\ req' = [req EXCEPT ![q] = IdleReq(@.tag)]
  /\ sure' = IF req[q].clean /\ ~req[q].failed THEN sure \cup {req[q].tag} ELSE sure
  /\ UNCHANGED <<db, procVars, manual, checks, lock, cfg, call, faults, fresh>>

RequestStep(q) ==
  \/ HotSkipped(q) \/ HotUnanswered(q) \/ HotDone(q) \/ HotRefused(q) \/ HotFails(q)
  \/ SaveRow(q) \/ SetToNeedRestart(q)

---------------------------------------------------------------------------
\* The core exits by itself.
CoreExit ==
  /\ Running /\ core' = NoCore
  /\ UNCHANGED <<db, conf, orphans, stuck, ctlVars, lock, cfg, call, req, faults, sure, fresh>>

CallerStep(a) == GetXrayConfig(a) \/ Decide(a) \/ Start(a) \/ StopXray(a)

Next ==
  \/ \E a \in Callers : AskRestart(a) \/ NeedRestartTick(a) \/ CheckTick(a) \/ AskStop(a)
  \/ \E a \in Callers : CallerStep(a)
  \/ \E q \in Requests, t \in Tags, new \in Contents \cup {NoRow, Off} : Begin(q, t, new)
  \/ \E q \in Requests : RequestStep(q)
  \/ CoreExit

Spec == Init /\ [][Next]_vars

\* The crash check ticks for ever, and a goroutine that waits for the lock or holds it
\* goes on: sync.Mutex does not starve a waiter and Stop has a deadline.
FairSpec ==
  /\ Spec
  /\ \A a \in Callers : WF_vars(CallerStep(a))
  /\ WF_vars(\E a \in Callers : CheckTick(a))

---------------------------------------------------------------------------
(***************************************************************************)
(* Properties.                                                             *)
(***************************************************************************)

\* Every variable has its type; the core is never given a disabled inbound.
TypeOK ==
  /\ db \in [Tags -> Contents \cup {NoRow, Off}]
  /\ core \in Served \cup {NoCore} /\ conf \in Served \cup {NoCore} /\ cfg \in Served
  /\ flag \in BOOLEAN /\ manual \in BOOLEAN /\ checks \in {0, 1}
  /\ lock \in Callers \cup {Nobody}
  /\ call \in [Callers -> CallState] /\ req \in [Requests -> ReqState]
  /\ orphans \in Nat /\ stuck \in Nat /\ faults \in Nat
  /\ sure \in SUBSET Tags /\ fresh \in SUBSET Tags

\* The core serves an inbound as the database has it if the last request for it ran
\* alone and nothing it called failed: whatever crashes, restarts, stops and requests
\* for other inbounds came before or after.  Only a failure, a request for the same
\* inbound or a restart during the request can leave the two apart.
SettledInSync == Running => \A t \in sure : core[t] = ServedAs(db[t])

\* However many jobs and requests ask for a restart at once, no second core is started
\* beside a running one, unless the first could not be stopped.
OneCore == orphans <= stuck

\* A core that exits comes back unless the admin has stopped it: the crash check finds
\* it, and finds it again after a start that failed.
CrashedCoreComesBack == ~Running /\ ~manual ~> Running \/ manual
---------------------------------------------------------------------------
(***************************************************************************)
(* The inductive invariant.  A restart copies cfg into the core, so cfg    *)
(* must be right for every inbound that will be relied upon; a request     *)
(* that is still alone has the lock free, its inbound to itself and, after *)
(* each of its steps, the core as it should be.                            *)
(***************************************************************************)
Locked(a) == call[a].phase \in {"decide", "start"}

OneHolder == \A a \in Callers : Locked(a) <=> lock = a

\* Whoever is about to start a core beside a running one could not stop that one.
StartsAlone == \A a \in Callers : call[a].phase = "start" /\ Running => orphans < stuck

HandleKnown == Running => conf # NoCore

CfgInSync == lock # Nobody => \A t \in sure \cup fresh : cfg[t] = ServedAs(db[t])

BusyIsUnsure == \A q \in Requests : req[q].phase # "idle" => req[q].tag \notin sure \cup fresh

CoreIs(t, served) == Running => core[t] = served

OnItsWay(r) ==
  /\ {r.old, r.new} = {NoRow, Off} => CoreIs(r.tag, NoRow)
  /\ r.phase = "hot" /\ r.old = NoRow => db[r.tag] = r.new
  /\ r.phase = "save" /\ r.old # NoRow /\ ~r.failed => CoreIs(r.tag, ServedAs(r.new))
  /\ r.phase = "flag" /\ ~r.failed => CoreIs(r.tag, ServedAs(db[r.tag]))

CleanIsAlone ==
  \A q \in Requests :
    req[q].clean =>
      /\ req[q].phase # "idle" /\ lock = Nobody
      /\ \A k \in Requests \ {q} : req[k].phase # "idle" => req[k].tag # req[q].tag
      /\ OnItsWay(req[q])

LocalInv ==
  /\ TypeOK /\ OneCore /\ OneHolder /\ StartsAlone /\ HandleKnown
  /\ SettledInSync /\ CfgInSync /\ BusyIsUnsure /\ CleanIsAlone
============================================================================
