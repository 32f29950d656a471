--------------------------- MODULE LocalCoreProofs ---------------------------
(***************************************************************************)
(* Proofs about LocalCore, for any number of inbounds, callers, requests   *)
(* and failures.  The types come first, then what the lock protects, then  *)
(* what a request and a restart owe each other; at the end, the other      *)
(* parts of Panel, from the proofs of their modules.                       *)
(***************************************************************************)
EXTENDS Panel, FiniteSetTheorems, TLAPS

USE DEF Running

---------------------------------------------------------------------------
(* The types.                                                              *)

\* What the types say of one request and one caller.
LEMMA ReqFields ==
  ASSUME TypeOK, NEW q \in Requests
  PROVE  /\ req[q] \in ReqState
         /\ req[q].phase \in {"idle", "hot", "save", "flag"} /\ req[q].tag \in Tags
         /\ req[q].old \in Contents \cup {NoRow, Off} /\ req[q].new \in Contents \cup {NoRow, Off}
         /\ req[q].need \in BOOLEAN /\ req[q].clean \in BOOLEAN /\ req[q].failed \in BOOLEAN
  BY DEF TypeOK, ReqState

LEMMA CallFields ==
  ASSUME TypeOK, NEW a \in Callers
  PROVE  /\ call[a] \in CallState
         /\ call[a].phase \in {"idle", "wait", "decide", "start", "stop"}
         /\ call[a].force \in BOOLEAN /\ call[a].job \in BOOLEAN
  BY DEF TypeOK, CallState

LEMMA IdleReqType == \A t \in Tags : IdleReq(t) \in ReqState
  BY DEF IdleReq, ReqState

LEMMA IdleCallType == IdleCall \in CallState
  BY DEF IdleCall, CallState

\* The core is only ever given a configuration without disabled inbounds.
LEMMA ServedType ==
  /\ \A row \in Contents \cup {NoRow, Off} : ServedAs(row) \in Contents \cup {NoRow}
  /\ \A table \in [Tags -> Contents \cup {NoRow, Off}] : ConfigOf(table) \in Served
  /\ NoCore \notin Served
  BY LocalAssumption DEF ServedAs, ConfigOf, Served

\* All requests lose their claim to have been alone.
LEMMA ClearedType ==
  ASSUME TypeOK, req' = [q \in Requests |-> [req[q] EXCEPT !.clean = FALSE]]
  PROVE  /\ req' \in [Requests -> ReqState]
         /\ \A q \in Requests : req'[q].clean = FALSE /\ req'[q].phase = req[q].phase
                                /\ req'[q].tag = req[q].tag
<1>1. ASSUME NEW q \in Requests
      PROVE  /\ [req[q] EXCEPT !.clean = FALSE] \in ReqState
             /\ [req[q] EXCEPT !.clean = FALSE].clean = FALSE
             /\ [req[q] EXCEPT !.clean = FALSE].phase = req[q].phase
             /\ [req[q] EXCEPT !.clean = FALSE].tag = req[q].tag
  <2>1. req[q] \in ReqState
    BY <1>1, ReqFields
  <2>2. QED
    BY <2>1 DEF ReqState
<1>2. QED
  BY <1>1

\* What a request looks like after one of its two steps.
Moved(q, phase, fails) ==
  /\ req' \in [Requests -> ReqState]
  /\ \A k \in Requests \ {q} : req'[k] = req[k]
  /\ req'[q].tag = req[q].tag
  /\ req'[q].phase = "idle" => ~req'[q].clean /\ (phase = "hot" <=> req[q].old = NoRow)
  /\ req'[q].phase # "idle" =>
       /\ req'[q].old = req[q].old /\ req'[q].new = req[q].new
       /\ req'[q].clean = req[q].clean /\ req'[q].failed = fails
  /\ req'[q].phase = "hot" => req[q].old = NoRow /\ phase = "save"
  /\ req'[q].phase = "save" => req[q].old # NoRow /\ phase = "hot"
  /\ req'[q].phase = "flag" => (phase = "hot" <=> req[q].old = NoRow)
  /\ sure' = IF req'[q].phase = "idle" /\ req[q].clean /\ ~fails
             THEN sure \cup {req[q].tag} ELSE sure

LEMMA ProceedMoves ==
  ASSUME TypeOK, NEW q \in Requests, NEW phase \in {"hot", "save"},
         NEW need \in BOOLEAN, NEW fails \in BOOLEAN, Proceed(q, phase, need, fails)
  PROVE  Moved(q, phase, fails)
<1> DEFINE last == IF req[q].old = NoRow THEN phase = "hot" ELSE phase = "save"
           other == IF phase = "hot" THEN "save" ELSE "hot"
           next == CASE ~last -> other [] last /\ need -> "flag" [] OTHER -> "idle"
           r == IF next = "idle" THEN IdleReq(req[q].tag)
                ELSE [req[q] EXCEPT !.phase = next, !.need = need, !.failed = fails]
<1>1. /\ req' = [req EXCEPT ![q] = r]
      /\ sure' = IF next = "idle" /\ req[q].clean /\ ~fails THEN sure \cup {req[q].tag}
                 ELSE sure
  BY DEF Proceed
<1>2. /\ next \in {"idle", "hot", "save", "flag"}
      /\ next = "idle" => (phase = "hot" <=> req[q].old = NoRow)
      /\ next = "hot" => req[q].old = NoRow /\ phase = "save"
      /\ next = "save" => req[q].old # NoRow /\ phase = "hot"
      /\ next = "flag" => (phase = "hot" <=> req[q].old = NoRow)
  OBVIOUS
<1> HIDE DEF next
<1>3. req[q] \in ReqState /\ req[q].tag \in Tags
  BY ReqFields
<1>4. /\ r \in ReqState /\ r.tag = req[q].tag /\ r.phase = next
      /\ next = "idle" => ~r.clean
      /\ next # "idle" => /\ r.old = req[q].old /\ r.new = req[q].new
                          /\ r.clean = req[q].clean /\ r.failed = fails
  <2>1. CASE next = "idle"
    BY <1>3, <2>1 DEF IdleReq, ReqState
  <2>2. CASE next # "idle"
    BY <1>2, <1>3, <2>2 DEF ReqState
  <2>3. QED
    BY <2>1, <2>2
<1> HIDE DEF r
<1>5. req' \in [Requests -> ReqState] /\ req'[q] = r /\ \A k \in Requests \ {q} : req'[k] = req[k]
  BY <1>1, <1>4 DEF TypeOK
<1>6. QED
  BY <1>1, <1>2, <1>4, <1>5 DEF Moved

LEMMA InitTypes == Init => TypeOK
<1>1. ASSUME Init PROVE TypeOK
  <2>1. PICK a \in Callers :
          call = [b \in Callers |-> IF b = a THEN [IdleCall EXCEPT !.phase = "wait", !.force = TRUE]
                                    ELSE IdleCall]
    BY <1>1 DEF Init
  <2>2. [IdleCall EXCEPT !.phase = "wait", !.force = TRUE] \in CallState
    BY DEF IdleCall, CallState
  <2>3. call \in [Callers -> CallState]
    BY <2>1, <2>2, IdleCallType
  <2>4. req \in [Requests -> ReqState]
    BY <1>1, IdleReqType DEF Init
  <2>5. cfg \in Served /\ db \in [Tags -> Contents \cup {NoRow, Off}]
    <3>1. db \in [Tags -> Contents \cup {NoRow}] /\ cfg = ConfigOf(db)
      BY <1>1 DEF Init
    <3>2. db \in [Tags -> Contents \cup {NoRow, Off}]
      BY <3>1
    <3>3. QED
      BY <3>1, <3>2, ServedType
  <2>6. QED
    BY <1>1, <2>3, <2>4, <2>5 DEF Init, TypeOK
<1>2. QED
  BY <1>1

LEMMA AskTypes ==
  ASSUME TypeOK, NEW a \in Callers,
         AskRestart(a) \/ NeedRestartTick(a) \/ CheckTick(a) \/ AskStop(a)
  PROVE  TypeOK'
<1>1. call' \in [Callers -> CallState]
  <2>1. ASSUME NEW force \in BOOLEAN, NEW job \in BOOLEAN, Ask(a, force, job)
        PROVE  call' \in [Callers -> CallState]
    BY <2>1 DEF Ask, TypeOK, CallState
  <2>2. ASSUME AskStop(a) PROVE call' \in [Callers -> CallState]
    <3>1. [call[a] EXCEPT !.phase = "stop"] \in CallState
      BY CallFields DEF CallState
    <3>2. call' = [call EXCEPT ![a] = [call[a] EXCEPT !.phase = "stop"]]
      BY <2>2 DEF AskStop
    <3>3. QED
      BY <3>1, <3>2 DEF TypeOK
  <2>3. QED
    BY <2>1, <2>2 DEF AskRestart, NeedRestartTick, CheckTick, TypeOK
<1>2. flag' \in BOOLEAN /\ manual' \in BOOLEAN /\ checks' \in {0, 1}
  BY DEF AskRestart, NeedRestartTick, CheckTick, AskStop, ctlVars, TypeOK
<1>3. UNCHANGED <<db, core, conf, orphans, stuck, lock, cfg, req, faults, sure, fresh>>
  BY DEF AskRestart, NeedRestartTick, CheckTick, AskStop, procVars, ctlVars
<1>4. QED
  BY <1>1, <1>2, <1>3 DEF TypeOK

LEMMA ReturnTypes ==
  ASSUME TypeOK, NEW a \in Callers, Return(a)
  PROVE  call' \in [Callers -> CallState] /\ checks' \in {0, 1}
  BY IdleCallType DEF Return, TypeOK

LEMMA FaultTypes == ASSUME TypeOK, Fault PROVE faults' \in Nat
  BY DEF Fault, TypeOK

\* A field of one caller changes.
LEMMA PhaseTypes ==
  ASSUME TypeOK, NEW a \in Callers
  PROVE  /\ [call EXCEPT ![a].phase = "decide"] \in [Callers -> CallState]
         /\ [call EXCEPT ![a].phase = "start", ![a].force = FALSE] \in [Callers -> CallState]
<1>1. call[a] \in CallState
  BY CallFields
<1>2. /\ [call[a] EXCEPT !.phase = "decide"] \in CallState
      /\ [call[a] EXCEPT !.phase = "start", !.force = FALSE] \in CallState
  BY <1>1 DEF CallState
<1>3. QED
  BY <1>2 DEF TypeOK

LEMMA ReadTypes ==
  ASSUME TypeOK, NEW a \in Callers, GetXrayConfig(a)
  PROVE  TypeOK'
<1>1. manual' = FALSE /\ UNCHANGED <<db, core, conf, orphans, stuck, flag, sure>>
  BY DEF GetXrayConfig, ReadRows, procVars
<1>2. CASE lock' = a /\ cfg' = ConfigOf(db) /\ fresh' = {t \in Tags : ~Busy(t)}
           /\ req' = [q \in Requests |-> [req[q] EXCEPT !.clean = FALSE]]
           /\ call' = [call EXCEPT ![a].phase = "decide"] /\ UNCHANGED <<checks, faults>>
  <2>1. cfg' \in Served
    BY <1>2, ServedType DEF TypeOK
  <2>2. req' \in [Requests -> ReqState]
    BY <1>2, ClearedType
  <2>3. call' \in [Callers -> CallState]
    BY <1>2, PhaseTypes
  <2>4. QED
    BY <1>1, <1>2, <2>1, <2>2, <2>3 DEF TypeOK
<1>3. CASE Fault /\ Return(a) /\ UNCHANGED <<lock, cfg, fresh, req>>
  BY <1>1, <1>3, ReturnTypes, FaultTypes DEF TypeOK
<1>4. QED
  BY <1>2, <1>3 DEF GetXrayConfig, ReadRows

LEMMA DecideTypes ==
  ASSUME TypeOK, NEW a \in Callers, Decide(a)
  PROVE  TypeOK'
<1>1. UNCHANGED <<db, conf, orphans, flag, manual, cfg, req, sure>>
  BY DEF Decide
<1>2. CASE Return(a) /\ lock' = Nobody /\ fresh' = {} /\ UNCHANGED <<core, stuck, faults>>
  BY <1>1, <1>2, ReturnTypes DEF TypeOK
<1>3. CASE /\ call' = [call EXCEPT ![a].phase = "start", ![a].force = FALSE]
           /\ \/ core' = NoCore /\ UNCHANGED <<stuck, faults>>
              \/ Running /\ Fault /\ stuck' = stuck + 1 /\ UNCHANGED core
           /\ UNCHANGED <<checks, lock, fresh>>
  <2>1. core' \in Served \cup {NoCore} /\ stuck' \in Nat /\ faults' \in Nat
    BY <1>3, FaultTypes DEF TypeOK
  <2>2. call' \in [Callers -> CallState]
    BY <1>3, PhaseTypes
  <2>3. QED
    BY <1>1, <1>3, <2>1, <2>2 DEF TypeOK
<1>4. QED
  BY <1>2, <1>3 DEF Decide

LEMMA StartTypes ==
  ASSUME TypeOK, NEW a \in Callers, Start(a)
  PROVE  TypeOK'
<1>1. req' \in [Requests -> ReqState]
  BY ClearedType DEF Start
<1>2. call' \in [Callers -> CallState] /\ checks' \in {0, 1}
  BY ReturnTypes DEF Start
<1>3. core' \in Served \cup {NoCore} /\ conf' \in Served \cup {NoCore} /\ faults' \in Nat
  BY FaultTypes DEF Start, TypeOK
<1>4. orphans' \in Nat
  BY DEF Start, TypeOK
<1>5. lock' = Nobody /\ fresh' = {} /\ sure' \in SUBSET Tags
  BY DEF Start, TypeOK
<1>6. UNCHANGED <<db, stuck, flag, manual, cfg>>
  BY DEF Start
<1>7. QED
  BY <1>1, <1>2, <1>3, <1>4, <1>5, <1>6 DEF TypeOK

LEMMA StopTypes ==
  ASSUME TypeOK, NEW a \in Callers, StopXray(a)
  PROVE  TypeOK'
<1>1. call' \in [Callers -> CallState]
  BY IdleCallType DEF StopXray, TypeOK
<1>2. core' \in Served \cup {NoCore} /\ stuck' \in Nat /\ faults' \in Nat
  BY FaultTypes DEF StopXray, TypeOK
<1>3. manual' = TRUE /\ UNCHANGED <<db, conf, orphans, flag, checks, lock, cfg, req, sure, fresh>>
  BY DEF StopXray
<1>4. QED
  BY <1>1, <1>2, <1>3 DEF TypeOK


\* What Begin makes of the requests.
LEMMA BeginRequests ==
  ASSUME TypeOK, NEW q \in Requests, NEW t \in Tags, NEW new \in Contents \cup {NoRow, Off},
         Begin(q, t, new)
  PROVE  /\ req' \in [Requests -> ReqState]
         /\ req'[q].phase = IF db[t] = NoRow THEN "save" ELSE "hot"
         /\ req'[q].tag = t /\ req'[q].old = db[t] /\ req'[q].new = new
         /\ req'[q].clean = Undisturbed(t, new) /\ ~req'[q].failed
         /\ \A k \in Requests \ {q} :
              /\ req'[k].phase = req[k].phase /\ req'[k].tag = req[k].tag
              /\ req'[k].old = req[k].old /\ req'[k].new = req[k].new
              /\ req'[k].failed = req[k].failed
              /\ req'[k].clean <=> req[k].clean /\ req[k].tag # t
<1> DEFINE r == [phase |-> IF db[t] = NoRow THEN "save" ELSE "hot", tag |-> t, old |-> db[t],
                 new |-> new, need |-> FALSE, clean |-> Undisturbed(t, new), failed |-> FALSE]
           touched(k) == [req[k] EXCEPT !.clean = (req[k].clean /\ req[k].tag # t)]
<1>1. req' = [k \in Requests |-> IF k = q THEN r ELSE touched(k)]
  BY DEF Begin
<1>2. Undisturbed(t, new) \in BOOLEAN
  BY DEF Undisturbed
<1>3. db[t] \in Contents \cup {NoRow, Off}
  BY DEF TypeOK
<1>4. /\ r \in ReqState
      /\ r.phase = IF db[t] = NoRow THEN "save" ELSE "hot"
      /\ r.tag = t /\ r.old = db[t] /\ r.new = new /\ r.clean = Undisturbed(t, new)
      /\ ~r.failed
  BY <1>2, <1>3 DEF ReqState
<1>5. ASSUME NEW k \in Requests
      PROVE  /\ touched(k) \in ReqState
             /\ touched(k).phase = req[k].phase /\ touched(k).tag = req[k].tag
             /\ touched(k).old = req[k].old /\ touched(k).new = req[k].new
             /\ touched(k).failed = req[k].failed
             /\ touched(k).clean <=> req[k].clean /\ req[k].tag # t
  <2>1. req[k] \in ReqState
    BY <1>5, ReqFields
  <2>2. QED
    BY <2>1 DEF ReqState
<1> HIDE DEF r, touched
<1>6. QED
  BY <1>1, <1>4, <1>5

LEMMA BeginTypes ==
  ASSUME TypeOK, NEW q \in Requests, NEW t \in Tags, NEW new \in Contents \cup {NoRow, Off},
         Begin(q, t, new)
  PROVE  TypeOK'
<1>1. req' \in [Requests -> ReqState]
  BY BeginRequests
<1>2. sure' = sure \ {t} /\ fresh' = fresh \ {t}
      /\ UNCHANGED <<db, core, conf, orphans, stuck, flag, manual, checks, lock, cfg, call, faults>>
  BY DEF Begin, procVars, ctlVars
<1>3. QED
  BY <1>1, <1>2 DEF TypeOK

\* The calls of a request end in one way or another.
HotEnds(q, after, fails) ==
  /\ req[q].phase = "hot" /\ core' = after
  /\ Moved(q, "hot", fails)
  /\ UNCHANGED <<db, conf, orphans, stuck, flag, manual, checks, lock, cfg, call, fresh>>

LEMMA CalledEnds ==
  ASSUME TypeOK, NEW q \in Requests, NEW after, NEW need \in BOOLEAN, NEW fails \in BOOLEAN,
         Called(q, after, need, fails)
  PROVE  HotEnds(q, after, fails)
<1>1. Proceed(q, "hot", need, fails)
  BY DEF Called
<1>2. Moved(q, "hot", fails)
  BY <1>1, ProceedMoves
<1>3. QED
  BY <1>2 DEF Called, HotEnds, ctlVars

\* What the core may serve after the calls of a request.
Put(q, served) == [core EXCEPT ![req[q].tag] = served]

LEMMA PutType ==
  ASSUME TypeOK, Running, NEW q \in Requests, NEW served \in Contents \cup {NoRow}
  PROVE  /\ Put(q, served) \in Served /\ Put(q, served)[req[q].tag] = served
         /\ \A t \in Tags \ {req[q].tag} : Put(q, served)[t] = core[t]
  BY ReqFields DEF Put, TypeOK, Served

\* All outcomes: what the core serves afterwards is known if nothing failed.
HotOutcome(q, fails) ==
  /\ HotEnds(q, core', fails)
  /\ core' \in Served \cup {NoCore}
  /\ core' # NoCore => Running
  /\ core' # NoCore => \A t \in Tags \ {req[q].tag} : core'[t] = core[t]
  /\ \/ core' = core /\ (fails \/ ~Running \/ conf = NoCore)
     \/ core' = core /\ {req[q].old, req[q].new} = {NoRow, Off}
     \/ fails /\ {req[q].old, req[q].new} # {NoRow, Off}
     \/ /\ {req[q].old, req[q].new} # {NoRow, Off}
        /\ core'[req[q].tag] = ServedAs(req[q].new)
  /\ faults' \in Nat

LEMMA HotOutcomes ==
  ASSUME TypeOK, NEW q \in Requests,
         HotSkipped(q) \/ HotUnanswered(q) \/ HotDone(q) \/ HotRefused(q) \/ HotFails(q)
  PROVE  \E fails \in BOOLEAN : HotOutcome(q, fails)
<1> USE DEF HotOutcome
<1>0. NoRow # Off /\ faults \in Nat /\ core \in Served \cup {NoCore}
  BY LocalAssumption DEF TypeOK
<1>1. CASE HotSkipped(q)
  <2>1. PICK need \in BOOLEAN : Called(q, core, need, FALSE)
    BY <1>1 DEF HotSkipped
  <2>2. HotEnds(q, core, FALSE)
    BY <2>1, CalledEnds
  <2>3. conf = NoCore \/ {req[q].old, req[q].new} = {NoRow, Off}
    <3>1. ASSUME ~IsUpdate(q), req[q].old = Off \/ req[q].new = Off
          PROVE  (req[q].old = Off /\ req[q].new = NoRow) \/ (req[q].old = NoRow /\ req[q].new = Off)
      BY <1>0, <3>1 DEF IsUpdate
    <3>2. QED
      BY <1>1, <3>1 DEF HotSkipped
  <2>4. QED
    BY <1>0, <1>1, <2>2, <2>3 DEF HotSkipped, HotEnds
<1>2. CASE HotUnanswered(q)
  <2>1. PICK need \in BOOLEAN : Called(q, core, need, FALSE)
    BY <1>2 DEF HotUnanswered
  <2>2. HotEnds(q, core, FALSE)
    BY <2>1, CalledEnds
  <2>3. QED
    BY <1>0, <1>2, <2>2 DEF HotUnanswered, HotEnds
<1>3. CASE HotDone(q)
  <2>1. Called(q, Put(q, ServedAs(req[q].new)), FALSE, FALSE) /\ Calls(q) /\ Running
        /\ UNCHANGED faults
    BY <1>3 DEF HotDone, Put
  <2>2. HotEnds(q, Put(q, ServedAs(req[q].new)), FALSE)
    BY <2>1, CalledEnds
  <2>3. ServedAs(req[q].new) \in Contents \cup {NoRow}
    BY ReqFields, ServedType
  <2>4. {req[q].old, req[q].new} # {NoRow, Off}
    BY <1>0, <2>1 DEF Calls, IsUpdate
  <2>5. QED
    BY <1>0, <2>1, <2>2, <2>3, <2>4, PutType DEF HotEnds
<1>4. CASE HotRefused(q)
  <2>1. Called(q, core, TRUE, TRUE)
    BY <1>4 DEF HotRefused
  <2>2. HotEnds(q, core, TRUE)
    BY <2>1, CalledEnds
  <2>3. QED
    BY <1>0, <1>4, <2>2 DEF HotRefused, HotEnds
<1>5. CASE HotFails(q)
  <2>1. Calls(q) /\ Running /\ faults' \in Nat
    BY <1>5, FaultTypes DEF HotFails
  <2>2. CASE Called(q, core, req[q].new # Off, TRUE)
    <3>1. HotEnds(q, core, TRUE)
      BY <2>2, CalledEnds
    <3>2. QED
      BY <1>0, <2>1, <3>1 DEF HotEnds
  <2>3. CASE IsUpdate(q) /\ Called(q, Put(q, NoRow), TRUE, TRUE)
    <3>1. HotEnds(q, Put(q, NoRow), TRUE)
      BY <2>3, CalledEnds
    <3>2. {req[q].old, req[q].new} # {NoRow, Off}
      BY <2>3 DEF IsUpdate
    <3>3. /\ Put(q, NoRow) \in Served
          /\ \A t \in Tags \ {req[q].tag} : Put(q, NoRow)[t] = core[t]
      BY <2>1, PutType
    <3>4. core' = Put(q, NoRow)
      BY <3>1 DEF HotEnds
    <3>5. HotOutcome(q, TRUE)
      BY <2>1, <3>1, <3>2, <3>3, <3>4
    <3>6. QED
      BY <3>5
  <2>4. QED
    BY <1>5, <2>2, <2>3 DEF HotFails, Put
<1>6. QED
  BY <1>1, <1>2, <1>3, <1>4, <1>5

LEMMA HotTypes ==
  ASSUME TypeOK, NEW q \in Requests, NEW fails \in BOOLEAN, HotOutcome(q, fails)
  PROVE  TypeOK'
<1>1. UNCHANGED <<db, conf, orphans, stuck, flag, manual, checks, lock, cfg, call, fresh>>
  BY DEF HotOutcome, HotEnds
<1>2. core' \in Served \cup {NoCore} /\ faults' \in Nat
  BY DEF HotOutcome
<1>3. req' \in [Requests -> ReqState] /\ sure' \in SUBSET Tags
  BY ReqFields DEF HotOutcome, HotEnds, Moved, TypeOK
<1>4. QED
  BY <1>1, <1>2, <1>3 DEF TypeOK

\* The two ways a transaction ends.
Saved(q) ==
  /\ req[q].phase = "save" /\ Moved(q, "save", req[q].failed)
  /\ db' = [db EXCEPT ![req[q].tag] = req[q].new]
  /\ UNCHANGED <<core, conf, orphans, stuck, flag, manual, checks, lock, cfg, call, fresh, faults>>

GoesIdle(q) ==
  /\ req' \in [Requests -> ReqState]
  /\ \A k \in Requests \ {q} : req'[k] = req[k]
  /\ req'[q].tag = req[q].tag /\ req'[q].phase = "idle" /\ ~req'[q].clean

LEMMA IdleGoes ==
  ASSUME TypeOK, NEW q \in Requests, req' = [req EXCEPT ![q] = IdleReq(req[q].tag)]
  PROVE  GoesIdle(q)
<1>1. req[q].tag \in Tags
  BY ReqFields
<1>2. /\ IdleReq(req[q].tag) \in ReqState /\ IdleReq(req[q].tag).tag = req[q].tag
      /\ IdleReq(req[q].tag).phase = "idle" /\ ~IdleReq(req[q].tag).clean
  BY <1>1 DEF IdleReq, ReqState
<1>3. QED
  BY <1>2 DEF GoesIdle, TypeOK

NotSaved(q) ==
  /\ req[q].phase = "save" /\ GoesIdle(q) /\ faults' \in Nat
  /\ UNCHANGED <<db, core, conf, orphans, stuck, flag, manual, checks, lock, cfg, call, fresh, sure>>

LEMMA SaveOutcomes ==
  ASSUME TypeOK, NEW q \in Requests, SaveRow(q)
  PROVE  Saved(q) \/ NotSaved(q)
<1>1. req[q].phase = "save" /\ req[q].need \in BOOLEAN /\ req[q].failed \in BOOLEAN
  BY ReqFields DEF SaveRow
<1>2. UNCHANGED <<core, conf, orphans, stuck, flag, manual, checks, lock, cfg, call, fresh>>
  BY DEF SaveRow, procVars, ctlVars
<1>3. CASE /\ db' = [db EXCEPT ![req[q].tag] = req[q].new]
           /\ Proceed(q, "save", req[q].need, req[q].failed) /\ UNCHANGED faults
  <2>1. Moved(q, "save", req[q].failed)
    BY <1>1, <1>3, ProceedMoves
  <2>2. QED
    BY <1>1, <1>2, <1>3, <2>1 DEF Saved
<1>4. CASE /\ Fault \/ UNCHANGED faults
           /\ req' = [req EXCEPT ![q] = IdleReq(req[q].tag)] /\ UNCHANGED <<db, sure>>
  BY <1>1, <1>2, <1>4, IdleGoes, FaultTypes DEF NotSaved, TypeOK
<1>5. QED
  BY <1>3, <1>4 DEF SaveRow

LEMMA SaveTypes ==
  ASSUME TypeOK, NEW q \in Requests, Saved(q) \/ NotSaved(q)
  PROVE  TypeOK'
<1>1. CASE Saved(q)
  <2>1. req' \in [Requests -> ReqState] /\ sure' \in SUBSET Tags
    BY <1>1, ReqFields DEF Saved, Moved, TypeOK
  <2>2. db' \in [Tags -> Contents \cup {NoRow, Off}]
    BY <1>1, ReqFields DEF Saved, TypeOK
  <2>3. QED
    BY <1>1, <2>1, <2>2 DEF Saved, TypeOK
<1>2. CASE NotSaved(q)
  BY <1>2 DEF NotSaved, GoesIdle, TypeOK
<1>3. QED
  BY <1>1, <1>2

Flagged(q) ==
  /\ req[q].phase = "flag" /\ flag' = TRUE /\ GoesIdle(q)
  /\ sure' = IF req[q].clean /\ ~req[q].failed THEN sure \cup {req[q].tag} ELSE sure
  /\ UNCHANGED <<db, core, conf, orphans, stuck, manual, checks, lock, cfg, call, faults, fresh>>

LEMMA FlagOutcome ==
  ASSUME TypeOK, NEW q \in Requests, SetToNeedRestart(q)
  PROVE  Flagged(q) /\ TypeOK'
<1>1. Flagged(q)
  BY IdleGoes DEF SetToNeedRestart, Flagged, procVars
<1>2. sure' \in SUBSET Tags
  BY <1>1, ReqFields DEF Flagged, TypeOK
<1>3. QED
  BY <1>1, <1>2 DEF Flagged, GoesIdle, TypeOK

LEMMA ExitTypes == ASSUME TypeOK, CoreExit PROVE TypeOK'
  BY DEF CoreExit, ctlVars, TypeOK

LEMMA StutterTypes == ASSUME TypeOK, UNCHANGED vars PROVE TypeOK'
  BY DEF vars, TypeOK


---------------------------------------------------------------------------
(* What the lock protects.                                                 *)

LockInv == OneCore /\ OneHolder /\ StartsAlone /\ HandleKnown

\* Steps outside RestartXray and StopXray start no core and leave the lock alone.
LEMMA OutsideTheLock ==
  ASSUME TypeOK, LockInv, UNCHANGED <<call, lock, conf, orphans, stuck>>,
         core' # NoCore => Running
  PROVE  LockInv'
  BY DEF LockInv, OneCore, OneHolder, StartsAlone, HandleKnown, Locked

LEMMA AskLock ==
  ASSUME TypeOK, LockInv, NEW a \in Callers,
         AskRestart(a) \/ NeedRestartTick(a) \/ CheckTick(a) \/ AskStop(a)
  PROVE  LockInv'
<1>1. UNCHANGED <<core, conf, orphans, stuck, lock>>
  BY DEF AskRestart, NeedRestartTick, CheckTick, AskStop, procVars
<1>2. /\ \A b \in Callers \ {a} : call'[b] = call[b]
      /\ call'[a] # call[a] => call[a].phase = "idle" /\ call'[a].phase \in {"wait", "stop"}
  <2>1. ASSUME NEW force \in BOOLEAN, NEW job \in BOOLEAN, Ask(a, force, job)
        PROVE  /\ \A b \in Callers \ {a} : call'[b] = call[b]
               /\ call[a].phase = "idle" /\ call'[a].phase = "wait"
    BY <2>1 DEF Ask, TypeOK
  <2>2. ASSUME AskStop(a)
        PROVE  /\ \A b \in Callers \ {a} : call'[b] = call[b]
               /\ call[a].phase = "idle" /\ call'[a].phase = "stop"
    <3>1. call' = [call EXCEPT ![a] = [call[a] EXCEPT !.phase = "stop"]]
      BY <2>2 DEF AskStop
    <3>2. [call[a] EXCEPT !.phase = "stop"].phase = "stop"
      BY CallFields DEF CallState
    <3>3. QED
      BY <2>2, <3>1, <3>2 DEF AskStop, TypeOK
  <2>3. QED
    BY <2>1, <2>2 DEF AskRestart, NeedRestartTick, CheckTick
<1>3. \A b \in Callers : (Locked(b)' <=> Locked(b)) /\ (call'[b].phase = "start" <=> call[b].phase = "start")
  BY <1>2 DEF Locked
<1>4. QED
  BY <1>1, <1>3 DEF LockInv, OneCore, OneHolder, StartsAlone, HandleKnown

\* What a caller is doing after its step.
LEMMA CallerMoves ==
  ASSUME TypeOK, NEW a \in Callers
  PROVE  /\ call' = [call EXCEPT ![a].phase = "decide"] =>
              call'[a].phase = "decide" /\ \A b \in Callers \ {a} : call'[b] = call[b]
         /\ call' = [call EXCEPT ![a].phase = "start", ![a].force = FALSE] =>
              call'[a].phase = "start" /\ \A b \in Callers \ {a} : call'[b] = call[b]
         /\ call' = [call EXCEPT ![a] = IdleCall] =>
              call'[a].phase = "idle" /\ \A b \in Callers \ {a} : call'[b] = call[b]
<1>1. call[a] \in CallState
  BY CallFields
<1>2. /\ [call[a] EXCEPT !.phase = "decide"].phase = "decide"
      /\ [call[a] EXCEPT !.phase = "start", !.force = FALSE].phase = "start"
      /\ IdleCall.phase = "idle"
  BY <1>1 DEF CallState, IdleCall
<1>3. QED
  BY <1>2 DEF TypeOK

LEMMA ReadLock ==
  ASSUME TypeOK, LockInv, NEW a \in Callers, GetXrayConfig(a)
  PROVE  LockInv'
<1>1. UNCHANGED <<core, conf, orphans, stuck>> /\ lock = Nobody /\ call[a].phase = "wait"
  BY DEF GetXrayConfig, ReadRows, procVars
<1>2. \A b \in Callers : ~Locked(b)
  BY <1>1, LocalAssumption DEF LockInv, OneHolder
<1>3. \A b \in Callers \ {a} : call'[b] = call[b]
  BY CallerMoves DEF GetXrayConfig, ReadRows, Return
<1>4. \/ lock' = a /\ call'[a].phase = "decide"
      \/ lock' = Nobody /\ call'[a].phase = "idle"
  BY <1>1, CallerMoves DEF GetXrayConfig, ReadRows, Return
<1>5. OneHolder' /\ StartsAlone'
  BY <1>2, <1>3, <1>4, LocalAssumption DEF OneHolder, StartsAlone, Locked
<1>6. QED
  BY <1>1, <1>5 DEF LockInv, OneCore, HandleKnown

LEMMA DecideLock ==
  ASSUME TypeOK, LockInv, NEW a \in Callers, Decide(a)
  PROVE  LockInv'
<1>1. call[a].phase = "decide" /\ lock = a /\ a # Nobody
  BY LocalAssumption DEF Decide, LockInv, OneHolder, Locked
<1>2. \A b \in Callers \ {a} : ~Locked(b) /\ call'[b] = call[b]
  BY <1>1, CallerMoves DEF Decide, Return, LockInv, OneHolder
<1>3. UNCHANGED <<conf, orphans>> /\ orphans \in Nat /\ stuck \in Nat /\ orphans <= stuck
  BY DEF Decide, LockInv, OneCore, TypeOK
<1>4. CASE Return(a) /\ lock' = Nobody /\ UNCHANGED <<core, stuck>>
  <2>1. call'[a].phase = "idle"
    BY <1>4, CallerMoves DEF Return
  <2>2. OneHolder' /\ StartsAlone'
    BY <1>2, <1>4, <2>1, LocalAssumption DEF OneHolder, StartsAlone, Locked
  <2>3. QED
    BY <1>3, <1>4, <2>2 DEF LockInv, OneCore, HandleKnown
<1>5. CASE /\ call' = [call EXCEPT ![a].phase = "start", ![a].force = FALSE] /\ UNCHANGED lock
           /\ \/ core' = NoCore /\ UNCHANGED stuck
              \/ Running /\ stuck' = stuck + 1 /\ UNCHANGED core
  <2>1. call'[a].phase = "start"
    BY <1>5, CallerMoves
  <2>2. OneHolder'
    BY <1>1, <1>2, <1>5, <2>1 DEF OneHolder, Locked
  <2>3. StartsAlone'
    <3>1. core' # NoCore => orphans' < stuck'
      BY <1>3, <1>5
    <3>2. QED
      BY <3>1 DEF StartsAlone
  <2>4. OneCore' /\ HandleKnown'
    BY <1>3, <1>5 DEF LockInv, OneCore, HandleKnown
  <2>5. QED
    BY <2>2, <2>3, <2>4 DEF LockInv
<1>6. QED
  BY <1>4, <1>5 DEF Decide

LEMMA StartLock ==
  ASSUME TypeOK, LockInv, NEW a \in Callers, Start(a)
  PROVE  LockInv'
<1>1. call[a].phase = "start" /\ lock = a /\ a # Nobody
  BY LocalAssumption DEF Start, LockInv, OneHolder, Locked
<1>2. \A b \in Callers \ {a} : ~Locked(b) /\ call'[b] = call[b]
  BY <1>1, CallerMoves DEF Start, Return, LockInv, OneHolder
<1>3. call'[a].phase = "idle" /\ lock' = Nobody
  BY CallerMoves DEF Start, Return
<1>4. OneHolder' /\ StartsAlone'
  BY <1>2, <1>3, LocalAssumption DEF OneHolder, StartsAlone, Locked
<1>5. OneCore'
  <2>1. orphans \in Nat /\ stuck \in Nat /\ orphans <= stuck
    BY DEF LockInv, OneCore, TypeOK
  <2>2. Running => orphans < stuck
    BY <1>1 DEF LockInv, StartsAlone
  <2>3. orphans' = orphans + (IF Running THEN 1 ELSE 0) /\ stuck' = stuck
    BY DEF Start
  <2>4. QED
    BY <2>1, <2>2, <2>3 DEF OneCore
<1>6. HandleKnown'
  <2>1. conf' = cfg /\ cfg # NoCore
    BY ServedType DEF Start, TypeOK
  <2>2. QED
    BY <2>1 DEF HandleKnown
<1>7. QED
  BY <1>4, <1>5, <1>6 DEF LockInv

LEMMA StopLock ==
  ASSUME TypeOK, LockInv, NEW a \in Callers, StopXray(a)
  PROVE  LockInv'
<1>1. call[a].phase = "stop" /\ lock = Nobody /\ UNCHANGED <<lock, conf, orphans>>
  BY DEF StopXray
<1>2. \A b \in Callers : ~Locked(b)
  BY <1>1, LocalAssumption DEF LockInv, OneHolder
<1>3. call'[a].phase = "idle" /\ \A b \in Callers \ {a} : call'[b] = call[b]
  BY CallerMoves DEF StopXray
<1>4. OneHolder' /\ StartsAlone'
  BY <1>1, <1>2, <1>3, LocalAssumption DEF OneHolder, StartsAlone, Locked
<1>5. OneCore'
  BY <1>1 DEF StopXray, LockInv, OneCore, TypeOK
<1>6. HandleKnown'
  BY <1>1 DEF StopXray, LockInv, HandleKnown
<1>7. QED
  BY <1>4, <1>5, <1>6 DEF LockInv

---------------------------------------------------------------------------
(* What requests and restarts owe each other.                              *)

SyncInv == SettledInSync /\ CfgInSync /\ BusyIsUnsure /\ CleanIsAlone

\* Nothing a request or a restart relies on changes, except that a core may exit.
LEMMA NothingMoves ==
  ASSUME SyncInv, UNCHANGED <<db, lock, cfg, req, sure, fresh>>, core' \in {core, NoCore}
  PROVE  SyncInv'
<1>1. core' # NoCore => core' = core
  OBVIOUS
<1>2. SettledInSync'
  BY <1>1 DEF SyncInv, SettledInSync
<1>3. CfgInSync' /\ BusyIsUnsure'
  BY DEF SyncInv, CfgInSync, BusyIsUnsure
<1>4. CleanIsAlone'
  <2>1. ASSUME NEW q \in Requests, OnItsWay(req[q]) PROVE OnItsWay(req[q])'
    BY <1>1, <2>1 DEF OnItsWay, CoreIs
  <2>2. QED
    BY <2>1 DEF SyncInv, CleanIsAlone
<1>5. QED
  BY <1>2, <1>3, <1>4 DEF SyncInv

\* While RestartXray holds the lock no request counts as alone.
LEMMA NoneIsClean ==
  ASSUME SyncInv, lock # Nobody
  PROVE  \A q \in Requests : ~req[q].clean
  BY DEF SyncInv, CleanIsAlone

LEMMA ReadSync ==
  ASSUME TypeOK, SyncInv, NEW a \in Callers, GetXrayConfig(a)
  PROVE  SyncInv'
<1>1. UNCHANGED <<db, core, sure>> /\ lock = Nobody
  BY DEF GetXrayConfig, ReadRows, procVars
<1>2. CASE lock' = a /\ cfg' = ConfigOf(db) /\ fresh' = {t \in Tags : ~Busy(t)}
           /\ req' = [q \in Requests |-> [req[q] EXCEPT !.clean = FALSE]]
  <2>1. \A q \in Requests : req'[q].clean = FALSE /\ req'[q].phase = req[q].phase
                            /\ req'[q].tag = req[q].tag
    BY <1>2, ClearedType
  <2>2. CleanIsAlone'
    BY <2>1 DEF CleanIsAlone
  <2>3. BusyIsUnsure'
    BY <1>1, <1>2, <2>1 DEF SyncInv, BusyIsUnsure, Busy
  <2>4. CfgInSync'
    <3>1. \A t \in Tags : cfg'[t] = ServedAs(db'[t])
      BY <1>1, <1>2 DEF ConfigOf
    <3>2. sure' \cup fresh' \subseteq Tags
      BY <1>1, <1>2 DEF TypeOK
    <3>3. QED
      BY <3>1, <3>2 DEF CfgInSync
  <2>5. SettledInSync'
    BY <1>1 DEF SyncInv, SettledInSync
  <2>6. QED
    BY <2>2, <2>3, <2>4, <2>5 DEF SyncInv
<1>3. CASE UNCHANGED <<lock, cfg, fresh, req>>
  BY <1>1, <1>3, NothingMoves
<1>4. QED
  BY <1>2, <1>3 DEF GetXrayConfig, ReadRows

LEMMA DecideSync ==
  ASSUME LockInv, SyncInv, NEW a \in Callers, Decide(a)
  PROVE  SyncInv'
<1>1. UNCHANGED <<db, cfg, req, sure>> /\ lock # Nobody
  BY LocalAssumption DEF Decide, LockInv, OneHolder, Locked
<1>2. CASE lock' = Nobody /\ fresh' = {} /\ UNCHANGED core
  BY <1>1, <1>2, NoneIsClean DEF SyncInv, SettledInSync, CfgInSync, BusyIsUnsure, CleanIsAlone
<1>3. CASE UNCHANGED <<lock, fresh>> /\ core' \in {core, NoCore}
  BY <1>1, <1>3, NothingMoves
<1>4. QED
  BY <1>2, <1>3 DEF Decide

LEMMA StartSync ==
  ASSUME TypeOK, LockInv, SyncInv, NEW a \in Callers, Start(a)
  PROVE  SyncInv'
<1>1. UNCHANGED db /\ sure' = sure \cup fresh /\ fresh' = {} /\ lock' = Nobody
      /\ core' \in {cfg, NoCore} /\ lock # Nobody
  BY LocalAssumption DEF Start, LockInv, OneHolder, Locked
<1>2. \A q \in Requests : req'[q].clean = FALSE /\ req'[q].phase = req[q].phase
                          /\ req'[q].tag = req[q].tag
  BY ClearedType DEF Start
<1>3. SettledInSync'
  BY <1>1 DEF SyncInv, CfgInSync, SettledInSync
<1>4. CfgInSync' /\ CleanIsAlone'
  BY <1>1, <1>2 DEF CfgInSync, CleanIsAlone
<1>5. BusyIsUnsure'
  BY <1>1, <1>2 DEF SyncInv, BusyIsUnsure
<1>6. QED
  BY <1>3, <1>4, <1>5 DEF SyncInv

LEMMA BeginSync ==
  ASSUME TypeOK, SyncInv, NEW q \in Requests, NEW t \in Tags,
         NEW new \in Contents \cup {NoRow, Off}, Begin(q, t, new)
  PROVE  SyncInv'
<1>1. sure' = sure \ {t} /\ fresh' = fresh \ {t} /\ UNCHANGED <<db, core, lock, cfg>>
      /\ req[q].phase = "idle"
  BY DEF Begin, procVars
<1>2. /\ req'[q].phase = IF db[t] = NoRow THEN "save" ELSE "hot"
      /\ req'[q].tag = t /\ req'[q].old = db[t] /\ req'[q].new = new
      /\ req'[q].clean = Undisturbed(t, new)
  BY BeginRequests
<1>3. \A k \in Requests \ {q} :
        /\ req'[k].phase = req[k].phase /\ req'[k].tag = req[k].tag
        /\ req'[k].old = req[k].old /\ req'[k].new = req[k].new
        /\ req'[k].failed = req[k].failed
        /\ req'[k].clean <=> req[k].clean /\ req[k].tag # t
  BY BeginRequests
<1>4. SettledInSync' /\ CfgInSync'
  BY <1>1 DEF SyncInv, SettledInSync, CfgInSync
<1>5. BusyIsUnsure'
  BY <1>1, <1>2, <1>3 DEF SyncInv, BusyIsUnsure
<1>6. CleanIsAlone'
  <2>1. ASSUME req'[q].clean
        PROVE  /\ req'[q].phase # "idle" /\ lock' = Nobody
               /\ \A k \in Requests \ {q} : req'[k].phase # "idle" => req'[k].tag # req'[q].tag
               /\ OnItsWay(req[q])'
    <3>1. lock = Nobody /\ ~Busy(t) /\ ({db[t], new} = {NoRow, Off} => t \in sure)
      BY <1>2, <2>1 DEF Undisturbed
    <3>2. \A k \in Requests \ {q} : req'[k].phase # "idle" => req'[k].tag # t
      BY <1>3, <3>1 DEF Busy
    <3>3. {db[t], new} = {NoRow, Off} => CoreIs(t, NoRow)'
      <4>1. ASSUME {db[t], new} = {NoRow, Off} PROVE ServedAs(db[t]) = NoRow
        BY <4>1 DEF ServedAs
      <4>2. QED
        BY <1>1, <3>1, <4>1 DEF SyncInv, SettledInSync, CoreIs
    <3>4. OnItsWay(req[q])'
      BY <1>1, <1>2, <3>3 DEF OnItsWay
    <3>5. QED
      BY <1>1, <1>2, <3>1, <3>2, <3>4
  <2>2. ASSUME NEW k \in Requests \ {q}, req'[k].clean
        PROVE  /\ req'[k].phase # "idle" /\ lock' = Nobody
               /\ \A j \in Requests \ {k} : req'[j].phase # "idle" => req'[j].tag # req'[k].tag
               /\ OnItsWay(req[k])'
    <3>1. /\ req[k].phase # "idle" /\ lock = Nobody /\ req[k].tag # t
          /\ \A j \in Requests \ {k} : req[j].phase # "idle" => req[j].tag # req[k].tag
          /\ OnItsWay(req[k])
      BY <1>3, <2>2 DEF SyncInv, CleanIsAlone
    <3>2. \A j \in Requests \ {k} : req'[j].phase # "idle" => req'[j].tag # req'[k].tag
      BY <1>2, <1>3, <3>1
    <3>3. OnItsWay(req[k])'
      BY <1>1, <1>3, <3>1 DEF OnItsWay, CoreIs
    <3>4. QED
      BY <1>1, <1>3, <3>1, <3>2, <3>3
  <2>3. QED
    BY <2>1, <2>2 DEF CleanIsAlone
<1>7. QED
  BY <1>4, <1>5, <1>6 DEF SyncInv

\* A step of request q touches nothing but its own inbound, and leaves it right when
\* the request ends as one to rely on.
OwnStep(q) ==
  /\ req[q].phase # "idle" /\ UNCHANGED <<lock, cfg, fresh>>
  /\ \A k \in Requests \ {q} : req'[k] = req[k]
  /\ req'[q].tag = req[q].tag
  /\ core' # NoCore => Running /\ \A t \in Tags \ {req[q].tag} : core'[t] = core[t]
  /\ \A t \in Tags \ {req[q].tag} : db'[t] = db[t]
  /\ req'[q].clean => req[q].clean /\ req'[q].phase # "idle" /\ OnItsWay(req[q])'
  /\ \/ sure' = sure
     \/ /\ sure' = sure \cup {req[q].tag} /\ req[q].clean /\ req'[q].phase = "idle"
        /\ core' # NoCore => core'[req[q].tag] = ServedAs(db'[req[q].tag])

LEMMA OwnStepSync ==
  ASSUME TypeOK, SyncInv, NEW q \in Requests, OwnStep(q)
  PROVE  SyncInv'
<1> DEFINE tag == req[q].tag
<1>1. tag \notin sure \cup fresh /\ sure \subseteq Tags /\ fresh \subseteq Tags
  BY DEF OwnStep, SyncInv, BusyIsUnsure, TypeOK
<1>2. /\ req[q].clean => /\ lock = Nobody
                         /\ \A k \in Requests \ {q} : req[k].phase # "idle" => req[k].tag # tag
  BY DEF SyncInv, CleanIsAlone
<1>3. UNCHANGED <<lock, cfg, fresh>> /\ (\A k \in Requests \ {q} : req'[k] = req[k])
      /\ req'[q].tag = tag /\ req[q].phase # "idle"
  BY DEF OwnStep
<1>4. \A t \in Tags \ {tag} : db'[t] = db[t] /\ (core' # NoCore => Running /\ core'[t] = core[t])
  BY DEF OwnStep
<1>5. \/ sure' = sure
      \/ /\ sure' = sure \cup {tag} /\ req[q].clean /\ req'[q].phase = "idle"
         /\ core' # NoCore => core'[tag] = ServedAs(db'[tag])
  BY DEF OwnStep
<1>6. SettledInSync'
  BY <1>1, <1>4, <1>5 DEF SyncInv, SettledInSync
<1>7. CfgInSync'
  BY <1>1, <1>2, <1>3, <1>4, <1>5 DEF SyncInv, CfgInSync
<1>8. BusyIsUnsure'
  <2>1. ASSUME NEW k \in Requests, req'[k].phase # "idle"
        PROVE  req'[k].tag \notin sure' \cup fresh'
    <3>1. CASE k = q
      BY <1>1, <1>3, <1>5, <2>1, <3>1
    <3>2. CASE k # q
      BY <1>2, <1>3, <1>5, <2>1, <3>2 DEF SyncInv, BusyIsUnsure
    <3>3. QED
      BY <3>1, <3>2
  <2>2. QED
    BY <2>1 DEF BusyIsUnsure
<1>9. CleanIsAlone'
  <2>1. ASSUME req'[q].clean
        PROVE  /\ req'[q].phase # "idle" /\ lock' = Nobody
               /\ \A k \in Requests \ {q} : req'[k].phase # "idle" => req'[k].tag # req'[q].tag
               /\ OnItsWay(req[q])'
    BY <1>2, <1>3, <2>1 DEF OwnStep
  <2>2. ASSUME NEW k \in Requests \ {q}, req'[k].clean
        PROVE  /\ req'[k].phase # "idle" /\ lock' = Nobody
               /\ \A j \in Requests \ {k} : req'[j].phase # "idle" => req'[j].tag # req'[k].tag
               /\ OnItsWay(req[k])'
    <3>1. /\ req[k].phase # "idle" /\ lock = Nobody
          /\ \A j \in Requests \ {k} : req[j].phase # "idle" => req[j].tag # req[k].tag
          /\ OnItsWay(req[k])
      BY <1>3, <2>2 DEF SyncInv, CleanIsAlone
    <3>2. req[k].tag # tag /\ req[k].tag \in Tags /\ req'[k] = req[k]
      BY <1>3, <3>1, ReqFields
    <3>3. \A j \in Requests \ {k} : req'[j].phase # "idle" => req'[j].tag # req'[k].tag
      BY <1>3, <3>1, <3>2
    <3>4. OnItsWay(req[k])'
      BY <1>4, <3>1, <3>2 DEF OnItsWay, CoreIs
    <3>5. QED
      BY <1>3, <3>1, <3>2, <3>3, <3>4
  <2>3. QED
    BY <2>1, <2>2 DEF CleanIsAlone
<1>10. QED
  BY <1>6, <1>7, <1>8, <1>9 DEF SyncInv

LEMMA HotStep ==
  ASSUME TypeOK, LockInv, SyncInv, NEW q \in Requests, NEW fails \in BOOLEAN,
         HotOutcome(q, fails)
  PROVE  OwnStep(q)
<1> DEFINE tag == req[q].tag
           trivial == {req[q].old, req[q].new} = {NoRow, Off}
<1>1. /\ req[q].phase = "hot" /\ UNCHANGED <<db, lock, cfg, fresh>> /\ Moved(q, "hot", fails)
      /\ core' # NoCore => Running /\ \A t \in Tags \ {tag} : core'[t] = core[t]
  BY DEF HotOutcome, HotEnds
<1>2. req[q].clean => OnItsWay(req[q])
  BY DEF SyncInv, CleanIsAlone
<1>3. req[q].clean /\ core' # NoCore /\ trivial => core'[tag] = NoRow
  <2>1. trivial => core' = core
    BY DEF HotOutcome
  <2>2. QED
    BY <1>1, <1>2, <2>1 DEF OnItsWay, CoreIs
<1>4. req[q].clean /\ core' # NoCore /\ ~fails => core'[tag] = ServedAs(req[q].new)
  <2>1. conf = NoCore => ~Running
    BY DEF LockInv, HandleKnown
  <2>2. trivial => ServedAs(req[q].new) = NoRow
    BY DEF ServedAs
  <2>3. core' # NoCore /\ ~fails => trivial \/ core'[tag] = ServedAs(req[q].new)
    BY <1>1, <2>1 DEF HotOutcome
  <2>4. QED
    BY <1>3, <2>2, <2>3
<1>5. req[q].clean /\ req[q].old = NoRow => db'[tag] = req[q].new
  BY <1>1, <1>2 DEF OnItsWay
<1>6. req'[q].clean => req[q].clean /\ req'[q].phase # "idle" /\ OnItsWay(req[q])'
  <2>1. ASSUME req'[q].clean
        PROVE  req[q].clean /\ req'[q].phase # "idle" /\ OnItsWay(req[q])'
    <3>1. /\ req'[q].phase # "idle" /\ req[q].clean /\ req'[q].tag = tag
          /\ req'[q].old = req[q].old /\ req'[q].new = req[q].new /\ req'[q].failed = fails
          /\ req'[q].phase # "hot" /\ (req'[q].phase = "flag" => req[q].old = NoRow)
      BY <1>1, <2>1 DEF Moved
    <3>2. QED
      BY <1>3, <1>4, <1>5, <3>1 DEF OnItsWay, CoreIs
  <2>2. QED
    BY <2>1
<1>7. \/ sure' = sure
      \/ /\ sure' = sure \cup {tag} /\ req[q].clean /\ req'[q].phase = "idle"
         /\ core' # NoCore => core'[tag] = ServedAs(db'[tag])
  BY <1>1, <1>4, <1>5 DEF Moved
<1>8. QED
  BY <1>1, <1>6, <1>7 DEF OwnStep, Moved

LEMMA SaveStep ==
  ASSUME TypeOK, SyncInv, NEW q \in Requests, Saved(q)
  PROVE  OwnStep(q)
<1> DEFINE tag == req[q].tag
<1>1. /\ req[q].phase = "save" /\ Moved(q, "save", req[q].failed)
      /\ UNCHANGED <<core, lock, cfg, fresh>>
  BY DEF Saved
<1>2. db'[tag] = req[q].new /\ \A t \in Tags \ {tag} : db'[t] = db[t]
  BY ReqFields DEF Saved, TypeOK
<1>3. req[q].clean => OnItsWay(req[q])
  BY DEF SyncInv, CleanIsAlone
<1>4. req'[q].clean => req[q].clean /\ req'[q].phase # "idle" /\ OnItsWay(req[q])'
  <2>1. ASSUME req'[q].clean
        PROVE  req[q].clean /\ req'[q].phase # "idle" /\ OnItsWay(req[q])'
    <3>1. /\ req'[q].phase # "idle" /\ req[q].clean /\ req'[q].tag = tag
          /\ req'[q].old = req[q].old /\ req'[q].new = req[q].new
          /\ req'[q].failed = req[q].failed
          /\ req'[q].phase # "save" /\ (req'[q].phase = "flag" => req[q].old # NoRow)
      BY <1>1, <2>1 DEF Moved
    <3>2. QED
      BY <1>1, <1>2, <1>3, <3>1 DEF OnItsWay, CoreIs
  <2>2. QED
    BY <2>1
<1>5. \/ sure' = sure
      \/ /\ sure' = sure \cup {tag} /\ req[q].clean /\ req'[q].phase = "idle"
         /\ core' # NoCore => core'[tag] = ServedAs(db'[tag])
  BY <1>1, <1>2, <1>3 DEF Moved, OnItsWay, CoreIs
<1>6. QED
  BY <1>1, <1>2, <1>4, <1>5 DEF OwnStep, Moved

LEMMA LastStep ==
  ASSUME TypeOK, SyncInv, NEW q \in Requests, NotSaved(q) \/ Flagged(q)
  PROVE  OwnStep(q)
<1>1. CASE NotSaved(q)
  BY <1>1 DEF NotSaved, GoesIdle, OwnStep
<1>2. CASE Flagged(q)
  <2>1. req[q].clean => OnItsWay(req[q])
    BY DEF SyncInv, CleanIsAlone
  <2>2. QED
    BY <1>2, <2>1 DEF Flagged, GoesIdle, OwnStep, OnItsWay, CoreIs
<1>3. QED
  BY <1>1, <1>2

---------------------------------------------------------------------------
(* The theorems.                                                           *)

LEMMA LocalInvParts == LocalInv <=> TypeOK /\ LockInv /\ SyncInv
  BY DEF LocalInv, LockInv, SyncInv

LEMMA InitLocal == Init => LocalInv
<1>1. ASSUME Init PROVE LocalInv
  <2>1. TypeOK
    BY <1>1, InitTypes
  <2>2. core = NoCore /\ lock = Nobody /\ orphans = 0 /\ stuck = 0
    BY <1>1 DEF Init
  <2>3. \A a \in Callers : call[a].phase \in {"wait", "idle"}
    BY <1>1 DEF Init, IdleCall
  <2>4. LockInv
    BY <2>2, <2>3, LocalAssumption
       DEF LockInv, OneCore, OneHolder, StartsAlone, HandleKnown, Locked
  <2>5. \A q \in Requests : req[q].phase = "idle" /\ req[q].clean = FALSE
    BY <1>1 DEF Init, IdleReq
  <2>6. SyncInv
    BY <2>2, <2>5 DEF SyncInv, SettledInSync, CfgInSync, BusyIsUnsure, CleanIsAlone
  <2>7. QED
    BY <2>1, <2>4, <2>6, LocalInvParts
<1>2. QED
  BY <1>1

LEMMA NextLocal == LocalInv /\ [Next]_vars => LocalInv'
<1> SUFFICES ASSUME TypeOK, LockInv, SyncInv, [Next]_vars
             PROVE  TypeOK' /\ LockInv' /\ SyncInv'
  BY LocalInvParts DEF LocalInv, LockInv, SyncInv
<1>1. ASSUME NEW a \in Callers,
             AskRestart(a) \/ NeedRestartTick(a) \/ CheckTick(a) \/ AskStop(a)
      PROVE  TypeOK' /\ LockInv' /\ SyncInv'
  <2>1. UNCHANGED <<db, core, lock, cfg, req, sure, fresh>>
    BY <1>1 DEF AskRestart, NeedRestartTick, CheckTick, AskStop, procVars
  <2>2. SyncInv'
    BY <2>1, NothingMoves
  <2>3. QED
    BY <1>1, <2>2, AskTypes, AskLock
<1>2. ASSUME NEW a \in Callers, GetXrayConfig(a) PROVE TypeOK' /\ LockInv' /\ SyncInv'
  BY <1>2, ReadTypes, ReadLock, ReadSync
<1>3. ASSUME NEW a \in Callers, Decide(a) PROVE TypeOK' /\ LockInv' /\ SyncInv'
  BY <1>3, DecideTypes, DecideLock, DecideSync
<1>4. ASSUME NEW a \in Callers, Start(a) PROVE TypeOK' /\ LockInv' /\ SyncInv'
  BY <1>4, StartTypes, StartLock, StartSync
<1>5. ASSUME NEW a \in Callers, StopXray(a) PROVE TypeOK' /\ LockInv' /\ SyncInv'
  <2>1. UNCHANGED <<db, lock, cfg, req, sure, fresh>> /\ core' \in {core, NoCore}
    BY <1>5 DEF StopXray
  <2>2. SyncInv'
    BY <2>1, NothingMoves
  <2>3. QED
    BY <1>5, <2>2, StopTypes, StopLock
<1>6. ASSUME NEW q \in Requests, NEW t \in Tags, NEW new \in Contents \cup {NoRow, Off},
             Begin(q, t, new)
      PROVE  TypeOK' /\ LockInv' /\ SyncInv'
  <2>1. UNCHANGED <<call, lock, core, conf, orphans, stuck>>
    BY <1>6 DEF Begin, procVars
  <2>2. LockInv'
    BY <2>1, OutsideTheLock
  <2>3. QED
    BY <1>6, <2>2, BeginTypes, BeginSync
<1>7. ASSUME NEW q \in Requests, RequestStep(q) PROVE TypeOK' /\ LockInv' /\ SyncInv'
  <2>1. ASSUME NEW fails \in BOOLEAN, HotOutcome(q, fails)
        PROVE  TypeOK' /\ LockInv' /\ SyncInv'
    <3>1. UNCHANGED <<call, lock, conf, orphans, stuck>> /\ (core' # NoCore => Running)
      BY <2>1 DEF HotOutcome, HotEnds
    <3>2. LockInv'
      BY <3>1, OutsideTheLock
    <3>3. SyncInv'
      BY <2>1, HotStep, OwnStepSync
    <3>4. QED
      BY <2>1, <3>2, <3>3, HotTypes
  <2>2. ASSUME Saved(q) \/ NotSaved(q) \/ Flagged(q) PROVE LockInv' /\ SyncInv'
    <3>1. UNCHANGED <<call, lock, core, conf, orphans, stuck>>
      BY <2>2 DEF Saved, NotSaved, Flagged
    <3>2. LockInv'
      BY <3>1, OutsideTheLock
    <3>3. SyncInv'
      BY <2>2, SaveStep, LastStep, OwnStepSync
    <3>4. QED
      BY <3>2, <3>3
  <2>3. CASE HotSkipped(q) \/ HotUnanswered(q) \/ HotDone(q) \/ HotRefused(q) \/ HotFails(q)
    BY <2>1, <2>3, HotOutcomes
  <2>4. CASE SaveRow(q)
    BY <2>2, <2>4, SaveOutcomes, SaveTypes
  <2>5. CASE SetToNeedRestart(q)
    BY <2>2, <2>5, FlagOutcome
  <2>6. QED
    BY <1>7, <2>3, <2>4, <2>5 DEF RequestStep
<1>8. ASSUME CoreExit PROVE TypeOK' /\ LockInv' /\ SyncInv'
  <2>1. UNCHANGED <<db, call, lock, conf, orphans, stuck, cfg, req, sure, fresh>> /\ core' = NoCore
    BY <1>8 DEF CoreExit
  <2>2. QED
    BY <1>8, <2>1, ExitTypes, OutsideTheLock, NothingMoves
<1>9. ASSUME UNCHANGED vars PROVE TypeOK' /\ LockInv' /\ SyncInv'
  <2>1. UNCHANGED <<db, core, call, lock, conf, orphans, stuck, cfg, req, sure, fresh>>
    BY <1>9 DEF vars
  <2>2. QED
    BY <1>9, <2>1, StutterTypes, OutsideTheLock, NothingMoves
<1>10. QED
  BY <1>1, <1>2, <1>3, <1>4, <1>5, <1>6, <1>7, <1>8, <1>9 DEF Next, CallerStep

\* However restarts, stops, crashes and inbound requests interleave: one holder of the
\* lock at a time, a core is started beside another only after a stop that failed, cfg
\* is right for the inbounds that will be relied upon, and a request that still counts
\* as alone has its inbound to itself.
THEOREM LocalInvariant == Spec => []LocalInv
<1>1. Init => LocalInv
  BY InitLocal
<1>2. LocalInv /\ [Next]_vars => LocalInv'
  BY NextLocal
<1>3. QED
  BY <1>1, <1>2, PTL DEF Spec

\* Every variable keeps its type: neither a hot call nor a restart ever gives the core
\* a disabled inbound.
THEOREM LocalTypes == Spec => []TypeOK
<1>1. LocalInv => TypeOK
  BY DEF LocalInv
<1>2. QED
  BY <1>1, LocalInvariant, PTL

\* However many jobs and requests ask for a restart at once, no second core is started
\* beside a running one unless a stop has failed.
THEOREM OnlyOneCore == Spec => []OneCore
<1>1. LocalInv => OneCore
  BY DEF LocalInv
<1>2. QED
  BY <1>1, LocalInvariant, PTL

\* A running core serves an inbound as the database has it, if the last request for it
\* ran alone and nothing it called failed.
THEOREM SettledStaysInSync == Spec => []SettledInSync
<1>1. LocalInv => SettledInSync
  BY DEF LocalInv
<1>2. QED
  BY <1>1, LocalInvariant, PTL

-----------------------------------------------------------------------------
(* The import of another panel's database: after any of them, whatever     *)
(* rows it could not write, the settings of an inbound list the clients    *)
(* linked to it.  What must be seen is that no client is linked to an      *)
(* inbound that is not there, while the transaction and the panel both     *)
(* add some.                                                               *)

\* What is put into a function, and where.
LEMMA Putting ==
  ASSUME NEW f, NEW x, NEW v
  PROVE  /\ DOMAIN Imported!Put(f, x, v) = DOMAIN f \cup {x}
         /\ Imported!Put(f, x, v)[x] = v
         /\ \A y \in DOMAIN f : y # x => Imported!Put(f, x, v)[y] = f[y]
BY DEF Imported!Put, Imported!Over

\* A statement sees what the panel has and what the transaction has written.
LEMMA TheSeen ==
  /\ DOMAIN Imported!Seen.used = DOMAIN panel.used \cup DOMAIN tx.used
  /\ DOMAIN Imported!Seen.inbounds = DOMAIN panel.inbounds \cup DOMAIN tx.inbounds
  /\ Imported!Seen.links = panel.links \cup tx.links
  /\ Imported!Shaped(Imported!Seen)
BY DEF Imported!Seen, Imported!Over, Imported!Shaped

\* The transaction goes on with the same table, or has been given up.
LEMMA RowKept ==
  ASSUME Imported!ImportInv, stage # "idle", UNCHANGED <<panel, given, stage, imports>>,
         aborted' \in BOOLEAN, Imported!Shaped(tx)', DOMAIN tx'.inbounds \subseteq Nat,
         ~aborted /\ Imported!Ordered /\ ~aborted' => Imported!Ordered',
         aborted => aborted'
  PROVE  Imported!ImportInv'
<1>1. Imported!TypeOK' /\ Imported!SettingsFollowLinks'
  BY DEF Imported!ImportInv, Imported!TypeOK, Imported!SettingsFollowLinks, Imported!MembersOf
<1>2. Imported!Shaped(panel)' /\ Imported!Linked(panel)'
  BY DEF Imported!ImportInv, Imported!Shaped, Imported!Linked
<1> QED
  BY <1>1, <1>2 DEF Imported!ImportInv

\* A row that touches neither inbounds nor links.
LEMMA OtherRowKept ==
  ASSUME Imported!ImportInv, NEW t \in {"users", "settings", "traffics"}, NEW x,
         NEW row, Imported!Row(t, x, TRUE, row), Imported!Shaped(row),
         row.inbounds = tx.inbounds, row.links = tx.links,
         DOMAIN tx.used \subseteq DOMAIN row.used
  PROVE  Imported!ImportInv'
<1>1. /\ stage = t /\ UNCHANGED <<panel, given, stage, imports>> /\ todo' = todo \ {x}
      /\ (tx' = row \/ tx' = tx) /\ aborted' \in BOOLEAN /\ (aborted => aborted')
  BY DEF Imported!Row, Imported!ImportInv, Imported!TypeOK, Imported!GivenUp
<1>2. Imported!Shaped(tx') /\ tx'.inbounds = tx.inbounds /\ tx'.links = tx.links
      /\ DOMAIN tx.used \subseteq DOMAIN tx'.used
  BY <1>1 DEF Imported!ImportInv
<1>3. DOMAIN Imported!Seen.used \subseteq DOMAIN Imported!Seen'.used
  <2>1. DOMAIN Imported!Seen'.used = DOMAIN panel'.used \cup DOMAIN tx'.used
    BY DEF Imported!Seen, Imported!Over
  <2> QED
    BY <2>1, <1>1, <1>2, TheSeen
<1>4. Imported!Ordered => Imported!Ordered'
  BY <1>1, <1>2, <1>3 DEF Imported!Ordered
<1>5. Imported!Shaped(tx)'
  BY <1>2 DEF Imported!Shaped
<1> QED
  BY <1>1, <1>2, <1>4, <1>5, RowKept DEF Imported!ImportInv

LEMMA UsersKept ==
  ASSUME Imported!ImportInv, NEW u, Imported!MigrateUser(u)
  PROVE  Imported!ImportInv'
<1> DEFINE row == [tx EXCEPT !.users = @ \cup {u}]
<1>1. tx = [users |-> tx.users, keys |-> tx.keys, inbounds |-> tx.inbounds, used |-> tx.used,
            links |-> tx.links]
  BY DEF Imported!ImportInv, Imported!Shaped
<1>2. /\ Imported!Shaped(row) /\ row.inbounds = tx.inbounds
      /\ row.links = tx.links /\ row.used = tx.used
  BY <1>1 DEF Imported!Shaped
<1>3. Imported!Row("users", u, TRUE, row)
  BY DEF Imported!MigrateUser
<1> QED
  BY <1>2, <1>3, OtherRowKept

LEMMA SettingsKept ==
  ASSUME Imported!ImportInv, NEW k, Imported!MigrateSetting(k)
  PROVE  Imported!ImportInv'
<1> DEFINE row == [tx EXCEPT !.keys = Imported!Put(@, k, "file")]
<1>1. tx = [users |-> tx.users, keys |-> tx.keys, inbounds |-> tx.inbounds, used |-> tx.used,
            links |-> tx.links]
  BY DEF Imported!ImportInv, Imported!Shaped
<1>2. /\ Imported!Shaped(row) /\ row.inbounds = tx.inbounds
      /\ row.links = tx.links /\ row.used = tx.used
  BY <1>1 DEF Imported!Shaped
<1>3. Imported!Row("settings", k, TRUE, row)
  BY DEF Imported!MigrateSetting
<1> QED
  BY <1>2, <1>3, OtherRowKept

LEMMA TrafficsKept ==
  ASSUME Imported!ImportInv, NEW n, Imported!MigrateTraffic(n)
  PROVE  Imported!ImportInv'
<1> DEFINE e == Of.import.Lower[n]
           sum == Imported!Seen.used[e] + Of.import.Usage[n]
           more == Imported!Put(tx.used, e, sum)
           added == [tx EXCEPT !.used = more]
           row == IF e \in DOMAIN Imported!Seen.used THEN added ELSE tx
<1>1. tx = [users |-> tx.users, keys |-> tx.keys, inbounds |-> tx.inbounds, used |-> tx.used,
            links |-> tx.links]
  BY DEF Imported!ImportInv, Imported!Shaped
<1>2. DOMAIN tx.used \subseteq DOMAIN more
  <2> HIDE DEF e, sum
  <2>1. DOMAIN more = DOMAIN tx.used \cup {e}
    BY Putting
  <2> HIDE DEF more
  <2> QED
    BY <2>1
<1> HIDE DEF more
<1>3. /\ Imported!Shaped(added) /\ added.inbounds = tx.inbounds
      /\ added.links = tx.links /\ added.used = more
  BY <1>1 DEF Imported!Shaped
<1>4. Imported!Shaped(tx)
  BY DEF Imported!ImportInv
<1>5. Imported!Row("traffics", n, TRUE, row)
  BY DEF Imported!MigrateTraffic, more
<1> HIDE DEF added
<1>6. /\ Imported!Shaped(row) /\ row.inbounds = tx.inbounds
      /\ row.links = tx.links /\ DOMAIN tx.used \subseteq DOMAIN row.used
  BY <1>2, <1>3, <1>4
<1> QED
  BY <1>5, <1>6, OtherRowKept


LEMMA InboundsKept ==
  ASSUME Imported!ImportInv, PartsAssumption, NEW i \in DOMAIN Of.import.File,
         Imported!MigrateInbound(i)
  PROVE  Imported!ImportInv'
<1> DEFINE inbound == [tag |-> Of.import.File[i].tag, names |-> Of.import.File[i].members]
           more == Imported!Put(tx.inbounds, i, inbound)
           row == [tx EXCEPT !.inbounds = more]
           fits == \A j \in DOMAIN Imported!Seen.inbounds :
                     Imported!Seen.inbounds[j].tag = Of.import.File[i].tag => j = i
<1>1. /\ tx = [users |-> tx.users, keys |-> tx.keys, inbounds |-> tx.inbounds,
               used |-> tx.used, links |-> tx.links]
      /\ DOMAIN tx.inbounds \subseteq Nat /\ DOMAIN Of.import.File \subseteq Nat
  BY PartsAssumption DEF Imported!ImportInv, Imported!Shaped, PartsAssumption,
     Imported!ImportAssumption
<1>2. DOMAIN more = DOMAIN tx.inbounds \cup {i}
  <2> HIDE DEF inbound
  <2> QED
    BY Putting
<1>3. Imported!Row("inbounds", i, fits, row)
  BY DEF Imported!MigrateInbound
<1> HIDE DEF more, fits
<1>4. /\ Imported!Shaped(row) /\ row.inbounds = more
      /\ row.links = tx.links /\ row.used = tx.used
  BY <1>1 DEF Imported!Shaped
<1> HIDE DEF row
<1>5. /\ stage = "inbounds" /\ UNCHANGED <<panel, given, stage, imports>> /\ todo' = todo \ {i}
      /\ (tx' = row \/ (tx' = tx /\ aborted')) /\ aborted' \in BOOLEAN
      /\ (aborted => aborted')
  BY <1>3 DEF Imported!Row, Imported!ImportInv, Imported!TypeOK, Imported!GivenUp
<1>6. Imported!Shaped(tx') /\ DOMAIN tx'.inbounds \subseteq Nat
  BY <1>1, <1>2, <1>4, <1>5 DEF Imported!ImportInv
<1>7. ASSUME Imported!Ordered, ~aborted' PROVE Imported!Ordered'
  <2>1. tx' = row
    BY <1>5, <1>7
  <2>2. DOMAIN Of.import.File \subseteq todo' \cup DOMAIN tx'.inbounds
    BY <1>2, <1>4, <1>5, <1>7, <2>1 DEF Imported!Ordered
  <2>3. tx'.links = {}
    BY <1>4, <1>5, <1>7, <2>1 DEF Imported!Ordered
  <2> QED
    BY <1>5, <2>2, <2>3 DEF Imported!Ordered
<1>8. Imported!Shaped(tx)'
  BY <1>6 DEF Imported!Shaped
<1> QED
  BY <1>5, <1>6, <1>7, <1>8, RowKept

LEMMA ClientsKept ==
  ASSUME Imported!ImportInv, NEW n, NEW i \in DOMAIN Of.import.File, Imported!MigrateClient(n, i)
  PROVE  Imported!ImportInv'
<1> DEFINE e == Of.import.Lower[n]
           used == IF e \in DOMAIN Imported!Seen.used THEN tx.used
                   ELSE Imported!Put(tx.used, e, 0)
           row == [tx EXCEPT !.links = @ \cup {<<e, i>>},
                                 !.used = IF e \in DOMAIN Imported!Seen.used THEN @
                                          ELSE Imported!Put(@, e, 0)]
<1>1. /\ tx = [users |-> tx.users, keys |-> tx.keys, inbounds |-> tx.inbounds,
               used |-> tx.used, links |-> tx.links]
      /\ DOMAIN tx.inbounds \subseteq Nat
  BY DEF Imported!ImportInv, Imported!Shaped
<1>2. DOMAIN tx.used \subseteq DOMAIN used /\ e \in DOMAIN panel.used \cup DOMAIN used
  <2> HIDE DEF e
  <2>1. DOMAIN Imported!Put(tx.used, e, 0) = DOMAIN tx.used \cup {e}
    BY Putting
  <2>2. CASE e \in DOMAIN Imported!Seen.used
    BY <2>2, TheSeen
  <2>3. CASE e \notin DOMAIN Imported!Seen.used
    BY <2>1, <2>3
  <2> QED
    BY <2>2, <2>3
<1>3. row = [users |-> tx.users, keys |-> tx.keys, inbounds |-> tx.inbounds,
                 used |-> used, links |-> tx.links \cup {<<e, i>>}]
  <2> DEFINE known == e \in DOMAIN Imported!Seen.used
             less == Imported!Put(tx.used, e, 0)
  <2>1. /\ used = (IF known THEN tx.used ELSE less)
        /\ row = [tx EXCEPT !.links = tx.links \cup {<<e, i>>},
                                !.used = IF known THEN tx.used ELSE less]
    OBVIOUS
  <2> HIDE DEF known, less, used, row
  <2> QED
    BY <1>1, <2>1
<1> HIDE DEF used
<1>4. /\ Imported!Shaped(row) /\ row.inbounds = tx.inbounds
      /\ row.links = tx.links \cup {<<e, i>>} /\ row.used = used
  BY <1>3 DEF Imported!Shaped
<1>5. CASE n = Of.import.NoEmail
  <2>1. UNCHANGED <<panel, given, stage, tx, aborted, imports>> /\ stage = "clients"
    BY <1>5 DEF Imported!MigrateClient
  <2>2. Imported!Ordered => Imported!Ordered'
    BY <2>1 DEF Imported!Ordered, Imported!Seen, Imported!Over
  <2> QED
    BY <1>1, <2>1, <2>2, RowKept DEF Imported!ImportInv, Imported!TypeOK, Imported!Shaped
<1>6. CASE n # Of.import.NoEmail
  <2>1. Imported!Row("clients", <<n, i>>, TRUE, row)
    BY <1>6 DEF Imported!MigrateClient
  <2> HIDE DEF row
  <2>2. /\ stage = "clients" /\ UNCHANGED <<panel, given, stage, imports>>
        /\ (tx' = row \/ (tx' = tx /\ aborted')) /\ aborted' \in BOOLEAN
        /\ (aborted => aborted')
    BY <2>1 DEF Imported!Row, Imported!ImportInv, Imported!TypeOK, Imported!GivenUp
  <2>3. Imported!Shaped(tx') /\ DOMAIN tx'.inbounds \subseteq Nat
    BY <1>1, <1>4, <2>2 DEF Imported!ImportInv
  <2>4. ASSUME Imported!Ordered, ~aborted' PROVE Imported!Ordered'
    <3>1. tx' = row
      BY <2>2, <2>4
    <3>2. DOMAIN Imported!Seen'.used = DOMAIN panel'.used \cup DOMAIN tx'.used
      BY DEF Imported!Seen, Imported!Over
    <3>3. DOMAIN Imported!Seen.used \subseteq DOMAIN Imported!Seen'.used
          /\ e \in DOMAIN Imported!Seen'.used
      BY <1>2, <1>4, <2>2, <3>1, <3>2, TheSeen
    <3>4. tx'.links \subseteq (DOMAIN Imported!Seen'.used) \X (DOMAIN Of.import.File)
      BY <1>4, <2>4, <3>1, <3>3 DEF Imported!Ordered
    <3>5. DOMAIN Of.import.File \subseteq DOMAIN tx'.inbounds
      BY <1>4, <2>2, <2>4, <3>1 DEF Imported!Ordered
    <3> QED
      BY <2>2, <3>4, <3>5 DEF Imported!Ordered
  <2>5. Imported!Shaped(tx)'
    BY <2>3 DEF Imported!Shaped
  <2> QED
    BY <2>2, <2>3, <2>4, <2>5, RowKept
<1> QED
  BY <1>5, <1>6

\* An import begins, or goes on with the next table.
LEMMA TableKept ==
  ASSUME Imported!ImportInv, PartsAssumption, Imported!Begin \/ Imported!NextTable
  PROVE  Imported!ImportInv'
<1>1. /\ UNCHANGED <<panel, given>> /\ stage' \in Imported!Stages /\ stage' # "idle"
      /\ imports' \in 0 .. Of.import.MaxImports /\ aborted' \in BOOLEAN
  <2>1. Of.import.MaxImports \in Nat /\ imports \in 0 .. Of.import.MaxImports
        /\ aborted \in BOOLEAN
    BY PartsAssumption
       DEF PartsAssumption, Imported!ImportAssumption, Imported!ImportInv, Imported!TypeOK
  <2>2. CASE Imported!Begin
    <3>1. /\ UNCHANGED <<panel, given>> /\ stage' = "users" /\ aborted' = FALSE
          /\ imports' = imports + 1 /\ imports < Of.import.MaxImports
      BY <2>2 DEF Imported!Begin
    <3>2. imports + 1 \in 0 .. Of.import.MaxImports
      BY <2>1, <3>1
    <3>3. stage' \in Imported!Stages
      BY <3>1 DEF Imported!Stages
    <3> QED
      BY <3>1, <3>2, <3>3
  <2>3. CASE Imported!NextTable
    <3>1. stage \in {"users", "settings", "inbounds", "clients", "traffics"}
          /\ stage' = Imported!After[stage] /\ UNCHANGED <<panel, given, aborted, imports>>
      BY <2>3 DEF Imported!NextTable, Imported!After
    <3>2. stage' \in {"settings", "inbounds", "clients", "traffics", "rebuild"}
      BY <3>1 DEF Imported!After
    <3> QED
      BY <2>1, <3>1, <3>2 DEF Imported!Stages
  <2> QED
    BY <2>2, <2>3
<1>2. Imported!Shaped(tx)' /\ DOMAIN tx'.inbounds \subseteq Nat
  BY DEF Imported!Begin, Imported!NextTable, Imported!Nothing, Imported!Shaped,
     Imported!ImportInv
<1>3. ASSUME ~aborted' PROVE Imported!Ordered'
  <2>1. CASE Imported!Begin
    BY <2>1 DEF Imported!Begin, Imported!Nothing, Imported!Ordered
  <2>2. CASE Imported!NextTable
    <3>1. Imported!Ordered /\ UNCHANGED <<tx, panel>> /\ todo = {}
      BY <1>3, <2>2 DEF Imported!NextTable, Imported!After, Imported!ImportInv
    <3>2. /\ stage = "users" => stage' = "settings"
          /\ stage = "settings" => stage' = "inbounds" /\ todo' = DOMAIN Of.import.File
          /\ stage = "inbounds" => stage' = "clients"
          /\ stage = "clients" => stage' = "traffics"
          /\ stage = "traffics" => stage' = "rebuild"
          /\ stage \in {"users", "settings", "inbounds", "clients", "traffics"}
      BY <2>2 DEF Imported!NextTable, Imported!After, Imported!Rows
    <3>3. DOMAIN Imported!Seen'.used = DOMAIN Imported!Seen.used
      BY <3>1 DEF Imported!Seen
    <3> QED
      BY <3>1, <3>2, <3>3 DEF Imported!Ordered
  <2> QED
    BY <2>1, <2>2
<1>4. Imported!TypeOK' /\ Imported!SettingsFollowLinks'
  BY <1>1 DEF Imported!ImportInv, Imported!TypeOK, Imported!SettingsFollowLinks,
     Imported!MembersOf
<1>5. Imported!Shaped(panel)' /\ Imported!Linked(panel)'
  BY <1>1 DEF Imported!ImportInv, Imported!Shaped, Imported!Linked
<1> QED
  BY <1>1, <1>2, <1>3, <1>4, <1>5 DEF Imported!ImportInv

\* What is committed is the rows of both, each inbound with its clients.
LEMMA CommitKept ==
  ASSUME Imported!ImportInv, Imported!Commit
  PROVE  Imported!ImportInv'
<1> DEFINE d == Imported!Seen
           inbounds == [i \in DOMAIN d.inbounds |->
                          [tag |-> d.inbounds[i].tag, names |-> Imported!MembersOf(d, i)]]
<1>1. /\ stage' = "idle" /\ tx' = Imported!Nothing /\ UNCHANGED <<given, todo, aborted, imports>>
      /\ panel' = Imported!Committed /\ Imported!Ordered /\ stage = "rebuild"
  BY DEF Imported!Commit, Imported!ImportInv
<1>2. d = [users |-> d.users, keys |-> d.keys, inbounds |-> d.inbounds, used |-> d.used,
           links |-> d.links]
  BY TheSeen DEF Imported!Shaped
<1>3. panel' = [users |-> d.users, keys |-> d.keys, inbounds |-> inbounds, used |-> d.used,
                links |-> d.links]
  <2>1. panel' = [d EXCEPT !.inbounds = inbounds]
    BY <1>1 DEF Imported!Committed, Imported!Rebuilt
  <2> HIDE DEF inbounds, d
  <2> QED
    BY <2>1, <1>2
<1>4. DOMAIN panel'.inbounds = DOMAIN panel.inbounds \cup DOMAIN tx.inbounds
  BY <1>3, TheSeen
<1>5. \A i \in DOMAIN panel'.inbounds : panel'.inbounds[i].names = Imported!MembersOf(panel', i)
  BY <1>3 DEF Imported!MembersOf
<1>6. panel'.links \subseteq (DOMAIN panel'.used) \X (DOMAIN panel'.inbounds)
  <2>1. panel'.links = panel.links \cup tx.links /\ panel'.used = d.used
    BY <1>3, TheSeen
  <2>2. DOMAIN d.used = DOMAIN panel.used \cup DOMAIN tx.used
    BY TheSeen
  <2>3. panel.links \subseteq (DOMAIN panel.used) \X (DOMAIN panel.inbounds)
    BY DEF Imported!ImportInv, Imported!Linked
  <2>4. /\ tx.links \subseteq (DOMAIN d.used) \X (DOMAIN Of.import.File)
        /\ DOMAIN Of.import.File \subseteq DOMAIN tx.inbounds
    BY <1>1 DEF Imported!Ordered
  <2> HIDE DEF d
  <2> QED
    BY <1>4, <2>1, <2>2, <2>3, <2>4
<1>7. Imported!SettingsFollowLinks'
  BY <1>5 DEF Imported!SettingsFollowLinks, Imported!MembersOf
<1>8. \A l \in panel'.links : l[1] \in DOMAIN panel'.used
  BY <1>6
<1>9. \A i \in DOMAIN panel'.inbounds : panel'.inbounds[i].names \subseteq DOMAIN panel'.used
  BY <1>5 DEF Imported!MembersOf
<1>10. DOMAIN panel'.inbounds \subseteq Nat
  BY <1>4 DEF Imported!ImportInv, Imported!TypeOK
<1>11. Imported!TypeOK'
  BY <1>1, <1>8, <1>9, <1>10 DEF Imported!ImportInv, Imported!TypeOK, Imported!Stages
<1>12. Imported!Shaped(panel)' /\ Imported!Linked(panel)'
  BY <1>3, <1>6 DEF Imported!Shaped, Imported!Linked
<1>13. Imported!Shaped(tx)' /\ DOMAIN tx'.inbounds \subseteq Nat
  BY <1>1 DEF Imported!Shaped, Imported!Nothing
<1> QED
  BY <1>1, <1>7, <1>11, <1>12, <1>13 DEF Imported!ImportInv

LEMMA RollBackKept ==
  ASSUME Imported!ImportInv, Imported!RollBack
  PROVE  Imported!ImportInv'
<1>1. UNCHANGED <<panel, given, imports>> /\ stage' = "idle" /\ aborted' = FALSE
      /\ tx' = Imported!Nothing
  BY DEF Imported!RollBack
<1>2. Imported!TypeOK' /\ Imported!SettingsFollowLinks'
  BY <1>1 DEF Imported!ImportInv, Imported!TypeOK, Imported!SettingsFollowLinks,
     Imported!MembersOf, Imported!Stages
<1>3. Imported!Shaped(panel)' /\ Imported!Linked(panel)' /\ Imported!Shaped(tx)'
      /\ DOMAIN tx'.inbounds \subseteq Nat
  BY <1>1 DEF Imported!ImportInv, Imported!Shaped, Imported!Linked, Imported!Nothing
<1> QED
  BY <1>1, <1>2, <1>3 DEF Imported!ImportInv

\* The panel's own new inbound has no client.
LEMMA AddInboundKept ==
  ASSUME Imported!ImportInv, NEW t, Imported!AddInbound(t)
  PROVE  Imported!ImportInv'
<1> DEFINE inbound == [tag |-> t, names |-> {}]
           more == Imported!Put(panel.inbounds, given', inbound)
<1>1. /\ given' = given + 1 /\ given' \in Nat
      /\ UNCHANGED <<stage, todo, tx, aborted, imports>>
      /\ \/ panel' = panel
         \/ given' \notin DOMAIN panel.inbounds /\ panel' = [panel EXCEPT !.inbounds = more]
  BY DEF Imported!AddInbound, Imported!ImportInv, Imported!TypeOK
<1>2. /\ DOMAIN more = DOMAIN panel.inbounds \cup {given'} /\ more[given'] = inbound
      /\ \A i \in DOMAIN panel.inbounds : i # given' => more[i] = panel.inbounds[i]
  <2> HIDE DEF inbound
  <2>1. PICK n : n = given'
    OBVIOUS
  <2>2. more = Imported!Put(panel.inbounds, n, inbound)
    BY <2>1
  <2>3. DOMAIN Imported!Put(panel.inbounds, n, inbound) = DOMAIN panel.inbounds \cup {n}
    BY DEF Imported!Put, Imported!Over
  <2>4. Imported!Put(panel.inbounds, n, inbound)[n] = inbound
    BY DEF Imported!Put, Imported!Over
  <2>5. \A i \in DOMAIN panel.inbounds :
          i # n => Imported!Put(panel.inbounds, n, inbound)[i] = panel.inbounds[i]
    BY DEF Imported!Put, Imported!Over
  <2> HIDE DEF more
  <2>6. DOMAIN more = DOMAIN panel.inbounds \cup {given'}
    BY <2>1, <2>2, <2>3
  <2>7. more[given'] = inbound
    BY <2>1, <2>2, <2>4
  <2>8. ASSUME NEW i \in DOMAIN panel.inbounds, i # given' PROVE more[i] = panel.inbounds[i]
    BY <2>1, <2>2, <2>5, <2>8
  <2> QED
    BY <2>6, <2>7, <2>8
<1>3. panel = [users |-> panel.users, keys |-> panel.keys, inbounds |-> panel.inbounds,
               used |-> panel.used, links |-> panel.links]
  BY DEF Imported!ImportInv, Imported!Shaped
<1>4. inbound.names = {}
  OBVIOUS
<1> HIDE DEF more, inbound
<1>5. CASE panel' = panel
  <2>1. Imported!TypeOK' /\ Imported!SettingsFollowLinks'
    BY <1>1, <1>5 DEF Imported!ImportInv, Imported!TypeOK, Imported!SettingsFollowLinks,
       Imported!MembersOf
  <2>2. Imported!Shaped(panel)' /\ Imported!Linked(panel)' /\ Imported!Shaped(tx)'
    BY <1>1, <1>5 DEF Imported!ImportInv, Imported!Shaped, Imported!Linked
  <2>3. Imported!Ordered => Imported!Ordered'
    BY <1>1, <1>5 DEF Imported!Ordered, Imported!Seen, Imported!Over
  <2> QED
    BY <1>1, <2>1, <2>2, <2>3 DEF Imported!ImportInv
<1>6. CASE given' \notin DOMAIN panel.inbounds /\ panel' = [panel EXCEPT !.inbounds = more]
  <2>1. panel' = [users |-> panel.users, keys |-> panel.keys, inbounds |-> more,
                  used |-> panel.used, links |-> panel.links]
    BY <1>3, <1>6
  <2>2. panel.links \subseteq (DOMAIN panel.used) \X (DOMAIN panel.inbounds)
    BY DEF Imported!ImportInv, Imported!Linked
  <2>3. \A i : Imported!MembersOf(panel', i) = Imported!MembersOf(panel, i)
    BY <2>1 DEF Imported!MembersOf
  <2>4. Imported!MembersOf(panel, given') = {}
    BY <1>6, <2>2 DEF Imported!MembersOf
  <2>5. ASSUME NEW i \in DOMAIN more PROVE more[i].names = Imported!MembersOf(panel', i)
    <3>1. CASE i = given'
      BY <1>2, <1>4, <2>3, <2>4, <3>1
    <3>2. CASE i # given'
      BY <1>2, <2>3, <3>2 DEF Imported!ImportInv, Imported!SettingsFollowLinks
    <3> QED
      BY <3>1, <3>2
  <2>6. Imported!SettingsFollowLinks'
    BY <2>1, <2>5 DEF Imported!SettingsFollowLinks, Imported!MembersOf
  <2>7. Imported!TypeOK'
    <3>1. \A i \in DOMAIN more : more[i].names \subseteq DOMAIN panel'.used
      BY <2>5 DEF Imported!MembersOf
    <3>2. DOMAIN more \subseteq Nat /\ \A l \in panel'.links : l[1] \in DOMAIN panel'.used
      BY <1>1, <1>2, <2>1 DEF Imported!ImportInv, Imported!TypeOK
    <3> QED
      BY <1>1, <2>1, <3>1, <3>2 DEF Imported!ImportInv, Imported!TypeOK
  <2>8. Imported!Shaped(panel)' /\ Imported!Linked(panel)' /\ Imported!Shaped(tx)'
    BY <1>1, <1>2, <2>1, <2>2 DEF Imported!ImportInv, Imported!Shaped, Imported!Linked
  <2>9. Imported!Ordered => Imported!Ordered'
    <3>1. DOMAIN Imported!Seen'.used = DOMAIN Imported!Seen.used
      BY <1>1, <2>1 DEF Imported!Seen, Imported!Over
    <3> QED
      BY <1>1, <3>1 DEF Imported!Ordered
  <2> QED
    BY <1>1, <2>6, <2>7, <2>8, <2>9 DEF Imported!ImportInv
<1> QED
  BY <1>1, <1>5, <1>6

LEMMA ImportInit ==
  ASSUME PartsAssumption, Imported!Init
  PROVE  Imported!ImportInv
<1>1. panel \in Of.import.Panels /\ given = Imported!Cardinality(DOMAIN panel.inbounds)
      /\ stage = "idle" /\ aborted = FALSE /\ imports = 0 /\ tx = Imported!Nothing
  BY DEF Imported!Init
<1>2. /\ Of.import.MaxImports \in Nat /\ Imported!Shaped(panel)
      /\ Imported!Cardinality(DOMAIN panel.inbounds) \in Nat
      /\ DOMAIN panel.inbounds \subseteq Nat
      /\ panel.links \subseteq (DOMAIN panel.used) \X (DOMAIN panel.inbounds)
      /\ \A i \in DOMAIN panel.inbounds :
           panel.inbounds[i].names = {e \in DOMAIN panel.used : <<e, i>> \in panel.links}
  BY <1>1, PartsAssumption DEF PartsAssumption, Imported!ImportAssumption
<1>3. given \in Nat
  BY <1>1, <1>2
<1>4. Imported!SettingsFollowLinks
  BY <1>2 DEF Imported!SettingsFollowLinks, Imported!MembersOf
<1>5. Imported!TypeOK
  <2>1. imports \in 0 .. Of.import.MaxImports /\ stage \in Imported!Stages
    BY <1>1, <1>2 DEF Imported!Stages
  <2>2. \A i \in DOMAIN panel.inbounds : panel.inbounds[i].names \subseteq DOMAIN panel.used
    BY <1>2
  <2>3. \A l \in panel.links : l[1] \in DOMAIN panel.used
    BY <1>2
  <2> QED
    BY <1>1, <1>2, <1>3, <2>1, <2>2, <2>3 DEF Imported!TypeOK
<1>6. Imported!Shaped(tx) /\ DOMAIN tx.inbounds \subseteq Nat
  BY <1>1 DEF Imported!Shaped, Imported!Nothing
<1> QED
  BY <1>1, <1>2, <1>4, <1>5, <1>6 DEF Imported!ImportInv, Imported!Linked

\* Every step of an import and of the panel keeps the invariant.
LEMMA ImportNext ==
  ASSUME PartsAssumption, Imported!ImportInv, [Imported!Next]_Imported!vars
  PROVE  Imported!ImportInv'
<1>1. CASE \E u : Imported!MigrateUser(u)
  BY <1>1, UsersKept
<1>2. CASE \E k : Imported!MigrateSetting(k)
  BY <1>2, SettingsKept
<1>3. CASE \E i \in DOMAIN Of.import.File : Imported!MigrateInbound(i)
  BY <1>3, InboundsKept
<1>4. CASE \E r \in Imported!Rows("clients") : Imported!MigrateClient(r[1], r[2])
  <2>1. PICK r \in Imported!Rows("clients") : Imported!MigrateClient(r[1], r[2])
    BY <1>4
  <2>2. r[2] \in DOMAIN Of.import.File
    BY <2>1 DEF Imported!Rows
  <2> QED
    BY <2>1, <2>2, ClientsKept
<1>5. CASE \E n : Imported!MigrateTraffic(n)
  BY <1>5, TrafficsKept
<1>6. CASE \E t : Imported!AddInbound(t)
  BY <1>6, AddInboundKept
<1>7. CASE Imported!Begin \/ Imported!NextTable
  BY <1>7, TableKept
<1>8. CASE UNCHANGED Imported!vars
  <2>1. UNCHANGED <<panel, given, stage, todo, tx, aborted, imports>>
    BY <1>8 DEF Imported!vars
  <2> QED
    BY <2>1 DEF Imported!ImportInv, Imported!TypeOK, Imported!SettingsFollowLinks,
       Imported!MembersOf, Imported!Shaped, Imported!Linked, Imported!Ordered, Imported!Seen,
       Imported!Over
<1> QED
  BY <1>1, <1>2, <1>3, <1>4, <1>5, <1>6, <1>7, <1>8, CommitKept, RollBackKept
     DEF Imported!Next

\* The inductive invariant of the import, for any file, any panel and any number of
\* imports and new inbounds.
LEMMA ImportInvariant ==
  PartsAssumption => (Imported!Spec => []Imported!ImportInv)
<1>1. PartsAssumption /\ Imported!Init => Imported!ImportInv
  BY ImportInit
<1>2. PartsAssumption /\ Imported!ImportInv /\ [Imported!Next]_Imported!vars
        => Imported!ImportInv'
  BY ImportNext
<1> QED
  BY <1>1, <1>2, PartsAssumption, PTL DEF Imported!Spec

-----------------------------------------------------------------------------
(* Sums over finite sets.  The fold that adds them up is unwound by the    *)
(* smallest set for which a fact fails.                                    *)

\* What FoldFunction adds up over the subsets of a set.
Adds(S, f, g) ==
  g = [s \in SUBSET S |-> IF s = {} THEN 0
                          ELSE f[CHOOSE x \in s : TRUE] + g[s \ {CHOOSE x \in s : TRUE}]]
Upto(f, S) == (CHOOSE g : Adds(S, f, g))[S]

\* Some subset of those chosen from a finite set has no smaller one among them.
LEMMA Smallest ==
  ASSUME NEW S, IsFiniteSet(S), NEW T, T \subseteq SUBSET S, T # {}
  PROVE  \E X \in T : \A Y \in T : Y \subseteq X => Y = X
<1>1. IsWellFoundedOn(StrictSubsetOrdering(S), FiniteSubsetsOf(S))
  BY FS_StrictSubsetOrderingWellFounded
<1>2. T \subseteq FiniteSubsetsOf(S)
  BY FS_Subset DEF FiniteSubsetsOf
<1>3. \E X \in T : \A Y \in T : <<Y, X>> \notin StrictSubsetOrdering(S)
  BY <1>1, <1>2, WFMin
<1> QED
  BY <1>3 DEF StrictSubsetOrdering

\* CHOOSE yields an element.
LEMMA Chosen ==
  ASSUME NEW S, S # {}
  PROVE  (CHOOSE x \in S : TRUE) \in S
OBVIOUS

\* Two such sums agree where both are.
LEMMA AddsAgree ==
  ASSUME NEW S, IsFiniteSet(S), NEW A, A \subseteq S, NEW B, B \subseteq S,
         NEW f, NEW g, NEW h, Adds(A, f, g), Adds(B, f, h)
  PROVE  \A X : X \subseteq A /\ X \subseteq B => g[X] = h[X]
<1> DEFINE T == {X \in SUBSET S : X \subseteq A /\ X \subseteq B /\ g[X] # h[X]}
<1> SUFFICES ASSUME T # {} PROVE FALSE
  OBVIOUS
<1>0. T \subseteq SUBSET S
  OBVIOUS
<1>1. PICK X \in T : \A Y \in T : Y \subseteq X => Y = X
  <2> HIDE DEF T
  <2> QED
    BY <1>0, Smallest
<1>2. g[{}] = 0 /\ h[{}] = 0
  BY DEF Adds
<1>3. X # {}
  BY <1>2
<1> DEFINE x == CHOOSE y \in X : TRUE
<1>4. x \in X /\ X \ {x} \subseteq X /\ X \ {x} # X
  BY <1>3, Chosen
<1>5. g[X \ {x}] = h[X \ {x}]
  <2> HIDE DEF x
  <2>1. X \ {x} \in SUBSET S /\ X \ {x} \subseteq A /\ X \ {x} \subseteq B
    BY <1>1
  <2>2. X \ {x} \notin T
    <3> HIDE DEF T
    <3> QED
      BY <1>1, <1>4
  <2> QED
    BY <2>1, <2>2
<1>6. g[X] = f[x] + g[X \ {x}] /\ h[X] = f[x] + h[X \ {x}]
  BY <1>3 DEF Adds
<1> QED
  BY <1>5, <1>6

\* There is one over every finite set.
LEMMA AddsExist ==
  ASSUME NEW S, IsFiniteSet(S), NEW f
  PROVE  \A X \in SUBSET S : Adds(X, f, CHOOSE g : Adds(X, f, g))
<1> SUFFICES \A X \in SUBSET S : \E g : Adds(X, f, g)
  OBVIOUS
<1> DEFINE T == {X \in SUBSET S : ~ \E g : Adds(X, f, g)}
<1> SUFFICES ASSUME T # {} PROVE FALSE
  OBVIOUS
<1>0. T \subseteq SUBSET S
  OBVIOUS
<1>1. PICK X \in T : \A Y \in T : Y \subseteq X => Y = X
  <2> HIDE DEF T
  <2> QED
    BY <1>0, Smallest
<1> DEFINE some(s) == CHOOSE g : Adds(s, f, g)
           pick(s) == CHOOSE x \in s : TRUE
           full(s) == IF s = {} THEN 0 ELSE f[pick(s)] + some(s \ {pick(s)})[s \ {pick(s)}]
           all == [s \in SUBSET X |-> full(s)]
<1>2. \A s \in SUBSET X : s # X => Adds(s, f, some(s))
  BY <1>1
<1>3. \A s \in SUBSET X : s # {} => pick(s) \in s
  BY Chosen
<1> HIDE DEF some, pick
<1>4. ASSUME NEW s \in SUBSET X, s # X PROVE some(s)[s] = full(s)
  <2>1. Adds(s, f, some(s))
    BY <1>2, <1>4
  <2>2. CASE s = {}
    BY <2>1, <2>2 DEF Adds
  <2>3. CASE s # {}
    <3>1. pick(s) \in s
      BY <1>3, <2>3
    <3>2. Adds(s \ {pick(s)}, f, some(s \ {pick(s)}))
      BY <1>2, <1>4, <3>1
    <3>3. some(s)[s] = f[pick(s)] + some(s)[s \ {pick(s)}]
      BY <2>1, <2>3 DEF Adds, pick
    <3>4. some(s)[s \ {pick(s)}] = some(s \ {pick(s)})[s \ {pick(s)}]
      <4>1. X \subseteq S
        BY <1>1
      <4>3. s \subseteq S /\ s \ {pick(s)} \subseteq S /\ s \ {pick(s)} \subseteq s
        BY <4>1
      <4> QED
        BY <2>1, <3>2, <4>3, AddsAgree
    <3> QED
      BY <2>3, <3>3, <3>4
  <2> QED
    BY <2>2, <2>3
<1>5. ASSUME NEW s \in SUBSET X, s # {}
      PROVE  all[s] = f[pick(s)] + all[s \ {pick(s)}]
  <2>1. pick(s) \in s
    BY <1>3, <1>5
  <2>2. all[s \ {pick(s)}] = full(s \ {pick(s)})
    OBVIOUS
  <2>3. some(s \ {pick(s)})[s \ {pick(s)}] = full(s \ {pick(s)})
    BY <1>4, <2>1
  <2>4. all[s] = f[pick(s)] + some(s \ {pick(s)})[s \ {pick(s)}]
    BY <1>5
  <2> QED
    BY <2>2, <2>3, <2>4
<1>6. all[{}] = 0
  OBVIOUS
<1>7. all = [s \in SUBSET X |-> all[s]]
  OBVIOUS
<1> HIDE DEF all, full
<1>8. Adds(X, f, all)
  BY <1>5, <1>6, <1>7 DEF Adds, pick
<1> QED
  BY <1>1, <1>8

\* The recursion of a sum.
LEMMA UptoNothing ==
  ASSUME NEW f
  PROVE  Upto(f, {}) = 0
<1>1. Adds({}, f, CHOOSE g : Adds({}, f, g))
  BY AddsExist, FS_EmptySet
<1> QED
  BY <1>1 DEF Upto, Adds

AnyOf(S) == CHOOSE x \in S : TRUE

\* A sum is that of the rest and the element chosen.
LEMMA UptoStep ==
  ASSUME NEW S, IsFiniteSet(S), NEW f, S # {}
  PROVE  AnyOf(S) \in S /\ Upto(f, S) = f[AnyOf(S)] + Upto(f, S \ {AnyOf(S)})
<1> DEFINE all == CHOOSE g : Adds(S, f, g)
           rest == CHOOSE g : Adds(S \ {AnyOf(S)}, f, g)
<1>1. AnyOf(S) \in S
  BY Chosen DEF AnyOf
<1>2. Adds(S, f, all) /\ Adds(S \ {AnyOf(S)}, f, rest)
  BY AddsExist
<1>3. all[S] = f[AnyOf(S)] + all[S \ {AnyOf(S)}]
  BY <1>2 DEF Adds, AnyOf
<1> HIDE DEF all, rest
<1>4. PICK R : R = S \ {AnyOf(S)}
  OBVIOUS
<1>5. R \subseteq S
  BY <1>4
<1>6. all[R] = rest[R]
  BY <1>2, <1>4, <1>5, AddsAgree
<1> QED
  BY <1>1, <1>3, <1>4, <1>6 DEF Upto, all, rest

\* A sum of natural numbers is one.
LEMMA UptoType ==
  ASSUME NEW S, IsFiniteSet(S), NEW f, \A x \in S : f[x] \in Nat
  PROVE  Upto(f, S) \in Nat
<1> DEFINE T == {X \in SUBSET S : Upto(f, X) \notin Nat}
<1> SUFFICES ASSUME T # {} PROVE FALSE
  OBVIOUS
<1>1. T \subseteq SUBSET S
  OBVIOUS
<1>2. PICK X \in T : \A Y \in T : Y \subseteq X => Y = X
  <2> HIDE DEF T
  <2> QED
    BY <1>1, Smallest
<1>3. X \in SUBSET S /\ Upto(f, X) \notin Nat /\ IsFiniteSet(X)
  BY <1>2, FS_Subset
<1>4. X # {}
  BY <1>3, UptoNothing
<1>5. AnyOf(X) \in X /\ Upto(f, X) = f[AnyOf(X)] + Upto(f, X \ {AnyOf(X)})
  BY <1>3, <1>4, UptoStep
<1>6. Upto(f, X \ {AnyOf(X)}) \in Nat
  BY <1>2, <1>3, <1>5
<1> QED
  BY <1>3, <1>5, <1>6

\* Any element may be taken out of a sum.
LEMMA UptoWithout ==
  ASSUME NEW S, IsFiniteSet(S), NEW f, \A x \in S : f[x] \in Nat
  PROVE  \A x \in S : Upto(f, S) = f[x] + Upto(f, S \ {x})
<1> DEFINE T == {X \in SUBSET S : \E x \in X : Upto(f, X) # f[x] + Upto(f, X \ {x})}
<1> SUFFICES ASSUME T # {} PROVE FALSE
  OBVIOUS
<1>1. T \subseteq SUBSET S
  OBVIOUS
<1>2. PICK X \in T : \A Y \in T : Y \subseteq X => Y = X
  <2> HIDE DEF T
  <2> QED
    BY <1>1, Smallest
<1>3. X \in SUBSET S /\ IsFiniteSet(X)
  BY <1>2, FS_Subset
<1>4. PICK x \in X : Upto(f, X) # f[x] + Upto(f, X \ {x})
  BY <1>2
<1>5. PICK y : y = AnyOf(X)
  OBVIOUS
<1>6. y \in X /\ Upto(f, X) = f[y] + Upto(f, X \ {y})
  BY <1>3, <1>4, <1>5, UptoStep
<1>7. x # y
  BY <1>4, <1>6
<1>8. PICK A, B, C : A = X \ {y} /\ B = X \ {x} /\ C = (X \ {y}) \ {x}
  OBVIOUS
<1>9. C = A \ {x} /\ C = B \ {y} /\ x \in A /\ y \in B
  BY <1>4, <1>6, <1>7, <1>8
<1>10. A \in SUBSET S /\ B \in SUBSET S /\ A \notin T /\ B \notin T
  <2> HIDE DEF T
  <2> QED
    BY <1>2, <1>3, <1>4, <1>6, <1>8
<1>11. Upto(f, A) = f[x] + Upto(f, C) /\ Upto(f, B) = f[y] + Upto(f, C)
  BY <1>9, <1>10
<1>12. Upto(f, C) \in Nat /\ f[x] \in Nat /\ f[y] \in Nat
  <2>1. C \in SUBSET S
    BY <1>3, <1>8
  <2>2. IsFiniteSet(C)
    BY <2>1, FS_Subset
  <2> QED
    BY <1>3, <1>4, <1>6, <2>1, <2>2, UptoType
<1> HIDE DEF T
<1> QED
  BY <1>4, <1>6, <1>8, <1>11, <1>12

-----------------------------------------------------------------------------
(* All of the file or nothing of it: while the transaction lives, it has   *)
(* written whatever it has been through, and each traffic once, so that a  *)
(* commit, which comes after the last table, leaves the whole file.        *)

\* The traffic of some rows, and of one more.
LEMMA PlusOne ==
  ASSUME PartsAssumption, NEW S, S \subseteq DOMAIN Of.import.Usage
  PROVE  /\ Imported!Plus({}) = 0 /\ Imported!Plus(S) \in Nat
         /\ \A n \in DOMAIN Of.import.Usage \ S :
              Imported!Plus(S \cup {n}) = Imported!Plus(S) + Of.import.Usage[n]
<1>1. PICK f : f = Of.import.Usage
  OBVIOUS
<1>2. \A X : Imported!Plus(X) = Upto(f, X)
  BY <1>1 DEF Imported!Plus, Imported!FoldFunctionOnSet, Imported!MapThenFoldSet, Adds, Upto
<1>3. IsFiniteSet(DOMAIN f) /\ \A n \in DOMAIN f : f[n] \in Nat
  BY <1>1, PartsAssumption
     DEF PartsAssumption, Imported!ImportAssumption, Imported!IsFiniteSet, IsFiniteSet
<1>4. \A X \in SUBSET DOMAIN f : IsFiniteSet(X) /\ Upto(f, X) \in Nat
  <2> TAKE X \in SUBSET DOMAIN f
  <2>1. IsFiniteSet(X)
    BY <1>3, FS_Subset
  <2> QED
    BY <1>3, <2>1, UptoType
<1>5. ASSUME NEW n \in DOMAIN f \ S PROVE Upto(f, S \cup {n}) = Upto(f, S) + f[n]
  <2>1. PICK X : X = S \cup {n}
    OBVIOUS
  <2>2. X \in SUBSET DOMAIN f /\ S \in SUBSET DOMAIN f /\ X \ {n} = S /\ n \in X
    BY <1>1, <1>5, <2>1
  <2>3. Upto(f, X) = f[n] + Upto(f, S)
    BY <1>3, <1>4, <2>2, UptoWithout
  <2>4. f[n] \in Nat /\ Upto(f, S) \in Nat
    BY <1>3, <1>4, <1>5, <2>2
  <2> QED
    BY <2>1, <2>3, <2>4
<1>6. Upto(f, {}) = 0
  BY UptoNothing
<1>7. Upto(f, S) \in Nat
  BY <1>1, <1>4
<1> QED
  BY <1>1, <1>2, <1>5, <1>6, <1>7

Tables == {"users", "settings", "inbounds", "clients", "traffics"}
Checked == {"users", "clients", "traffics"}

\* Rows the import has been through: none when it begins, as many when it goes on with
\* the next table, all at the end.
LEMMA ThroughTables ==
  /\ Imported!Begin => \A t \in Checked : Imported!Through(t)' = {}
  /\ Imported!NextTable => \A t \in Checked : Imported!Through(t)' = Imported!Through(t)
  /\ stage = "rebuild" => \A t \in Checked : Imported!Through(t) = Imported!Rows(t)
  /\ stage = "clients" => Imported!Through("traffics") = {}
<1>1. ASSUME Imported!Begin, NEW t \in Checked PROVE Imported!Through(t)' = {}
  <2>1. stage' = "users" /\ todo' = Imported!Rows("users")
    BY <1>1 DEF Imported!Begin
  <2> QED
    BY <1>1, <2>1 DEF Imported!Through, Imported!Turn, Checked
<1>2. ASSUME Imported!NextTable, NEW t \in Checked
      PROVE  Imported!Through(t)' = Imported!Through(t)
  <2>1. /\ todo = {} /\ stage \in Tables /\ stage' = Imported!After[stage]
        /\ todo' = Imported!Rows(stage')
    BY <1>2 DEF Imported!NextTable, Imported!After, Tables
  <2>2. /\ stage = "users" => stage' = "settings"
        /\ stage = "settings" => stage' = "inbounds"
        /\ stage = "inbounds" => stage' = "clients"
        /\ stage = "clients" => stage' = "traffics"
        /\ stage = "traffics" => stage' = "rebuild"
    BY <2>1 DEF Imported!After
  <2> QED
    BY <1>2, <2>1, <2>2 DEF Imported!Through, Imported!Turn, Checked, Tables
<1>3. ASSUME stage = "rebuild", NEW t \in Checked
      PROVE  Imported!Through(t) = Imported!Rows(t)
  BY <1>3 DEF Imported!Through, Imported!Turn, Checked
<1>4. stage = "clients" => Imported!Through("traffics") = {}
  BY DEF Imported!Through, Imported!Turn
<1> QED
  BY <1>1, <1>2, <1>3, <1>4

\* A row is written or the transaction given up.
LEMMA RowWritten ==
  ASSUME Imported!ProgressInv, NEW t \in Tables, NEW x, NEW fits, NEW row,
         Imported!Row(t, x, fits, row)
  PROVE  /\ panel' = panel /\ stage = t /\ stage' = t
         /\ \/ aborted'
            \/ /\ Imported!Progress /\ tx' = row /\ x \in Imported!Rows(t)
               /\ todo' \subseteq Imported!Rows(t)
               /\ \A s \in Checked :
                    Imported!Through(s)' = IF s = t THEN Imported!Through(s) \cup {x}
                                           ELSE Imported!Through(s)
               /\ x \notin Imported!Through(t)
<1>1. /\ panel' = panel /\ stage = t /\ stage' = t /\ x \in todo /\ todo' = todo \ {x}
      /\ aborted' \/ (~aborted /\ tx' = row)
  BY DEF Imported!Row, Imported!GivenUp
<1>2. CASE aborted'
  BY <1>1, <1>2
<1>3. CASE ~aborted'
  <2>1. Imported!Progress /\ tx' = row
    BY <1>1, <1>3 DEF Imported!ProgressInv, Tables
  <2>2. todo \subseteq Imported!Rows(t)
    BY <1>1, <2>1 DEF Imported!Progress
  <2>3. ASSUME NEW s \in Checked
        PROVE  Imported!Through(s)' = IF s = t THEN Imported!Through(s) \cup {x}
                                      ELSE Imported!Through(s)
    BY <1>1, <2>2 DEF Imported!Through, Imported!Turn, Checked, Tables
  <2>4. x \notin Imported!Through(t)
    BY <1>1 DEF Imported!Through, Imported!Turn, Tables
  <2> QED
    BY <1>1, <2>1, <2>2, <2>3, <2>4
<1> QED
  BY <1>2, <1>3

\* What is seen of the traffic, when the transaction writes none of it, and when it does.
LEMMA SameUse ==
  ASSUME panel'.used = panel.used, tx'.used = tx.used
  PROVE  /\ Imported!Seen'.used = Imported!Seen.used
         /\ \A e : Imported!OldUse(e)' = Imported!OldUse(e)
BY DEF Imported!Seen, Imported!OldUse

LEMMA MoreUse ==
  ASSUME NEW e, NEW v, panel' = panel, tx'.used = Imported!Put(tx.used, e, v)
  PROVE  /\ DOMAIN Imported!Seen'.used = DOMAIN Imported!Seen.used \cup {e}
         /\ Imported!Seen'.used[e] = v
         /\ \A y \in DOMAIN Imported!Seen.used :
              y # e => Imported!Seen'.used[y] = Imported!Seen.used[y]
         /\ \A y : Imported!OldUse(y)' = Imported!OldUse(y)
<1>1. PICK f, g, h : f = panel.used /\ g = tx.used /\ h = Imported!Put(g, e, v)
  OBVIOUS
<1>2. Imported!Seen.used = Imported!Over(f, g) /\ Imported!Seen'.used = Imported!Over(f, h)
  BY <1>1 DEF Imported!Seen
<1>3. /\ DOMAIN h = DOMAIN g \cup {e} /\ h[e] = v
      /\ \A y \in DOMAIN g : y # e => h[y] = g[y]
  BY <1>1 DEF Imported!Put, Imported!Over
<1>4. /\ DOMAIN Imported!Over(f, h) = DOMAIN Imported!Over(f, g) \cup {e}
      /\ Imported!Over(f, h)[e] = v
      /\ \A y \in DOMAIN Imported!Over(f, g) :
           y # e => Imported!Over(f, h)[y] = Imported!Over(f, g)[y]
  BY <1>3 DEF Imported!Over
<1>5. \A y : Imported!OldUse(y)' = Imported!OldUse(y)
  BY DEF Imported!OldUse
<1> QED
  BY <1>2, <1>4, <1>5

\* A row that is no traffic and no new client: what is left to see is its own table.
LEMMA PlainRow ==
  ASSUME Imported!ProgressInv, Imported!ImportInv', NEW t \in Tables, NEW x, NEW fits,
         NEW row, Imported!Row(t, x, fits, row), t # "traffics", row.used = tx.used,
         ASSUME Imported!Progress, tx' = row, x \in Imported!Rows(t),
                \A s \in Checked :
                  Imported!Through(s)' = IF s = t THEN Imported!Through(s) \cup {x}
                                         ELSE Imported!Through(s)
         PROVE  /\ Imported!Through("users")' \subseteq row.users
                /\ (DOMAIN row.keys) \cap Of.import.Ignored = {}
                /\ \A i \in DOMAIN row.inbounds :
                     /\ i \in DOMAIN Of.import.File
                     /\ row.inbounds[i].tag = Of.import.File[i].tag
                /\ \A m \in Imported!Through("clients")' :
                     m[1] # Of.import.NoEmail =>
                       <<Of.import.Lower[m[1]], m[2]>> \in row.links
  PROVE  Imported!ProgressInv'
<1>1. /\ panel' = panel /\ stage = t /\ stage' = t
      /\ \/ aborted'
         \/ /\ Imported!Progress /\ tx' = row /\ x \in Imported!Rows(t)
            /\ todo' \subseteq Imported!Rows(t)
            /\ \A s \in Checked :
                 Imported!Through(s)' = IF s = t THEN Imported!Through(s) \cup {x}
                                        ELSE Imported!Through(s)
            /\ x \notin Imported!Through(t)
  BY RowWritten
<1>2. ASSUME ~aborted' PROVE Imported!Progress'
  <2>1. /\ Imported!Progress /\ tx' = row /\ x \in Imported!Rows(t)
        /\ todo' \subseteq Imported!Rows(t)
        /\ \A s \in Checked :
             Imported!Through(s)' = IF s = t THEN Imported!Through(s) \cup {x}
                                    ELSE Imported!Through(s)
    BY <1>1, <1>2
  <2>2. /\ Imported!Through("users")' \subseteq row.users
        /\ (DOMAIN row.keys) \cap Of.import.Ignored = {}
        /\ \A i \in DOMAIN row.inbounds :
             i \in DOMAIN Of.import.File /\ row.inbounds[i].tag = Of.import.File[i].tag
        /\ \A m \in Imported!Through("clients")' :
             m[1] # Of.import.NoEmail => <<Of.import.Lower[m[1]], m[2]>> \in row.links
    BY <2>1
  <2>3. /\ Imported!Seen'.used = Imported!Seen.used
        /\ \A e : Imported!OldUse(e)' = Imported!OldUse(e)
    BY <1>1, <2>1, SameUse
  <2>4. Imported!Through("traffics")' = Imported!Through("traffics")
    BY <2>1 DEF Checked
  <2>5. \A e \in DOMAIN Imported!Seen'.used :
          Imported!Seen'.used[e] =
            Imported!OldUse(e)' +
              Imported!Plus({n \in Imported!Through("traffics")' : Of.import.Lower[n] = e})
    BY <2>1, <2>3, <2>4 DEF Imported!Progress
  <2> QED
    BY <1>1, <2>1, <2>2, <2>5 DEF Imported!Progress
<1> QED
  BY <1>1, <1>2 DEF Imported!ProgressInv

\* The fields of what has been written.
LEMMA Written ==
  ASSUME Imported!ProgressInv
  PROVE  tx = [users |-> tx.users, keys |-> tx.keys, inbounds |-> tx.inbounds,
               used |-> tx.used, links |-> tx.links]
BY DEF Imported!ProgressInv, Imported!ImportInv, Imported!Shaped

LEMMA UsersProgress ==
  ASSUME Imported!ProgressInv, Imported!ImportInv', NEW u, Imported!MigrateUser(u)
  PROVE  Imported!ProgressInv'
<1> DEFINE row == [tx EXCEPT !.users = @ \cup {u}]
<1>1. /\ row.users = tx.users \cup {u} /\ row.keys = tx.keys /\ row.inbounds = tx.inbounds
      /\ row.links = tx.links /\ row.used = tx.used
  BY Written
<1>2. Imported!Row("users", u, TRUE, row)
  BY DEF Imported!MigrateUser
<1> HIDE DEF row
<1> QED
  BY <1>1, <1>2, PlainRow DEF Imported!Progress, Tables, Checked

LEMMA SettingsProgress ==
  ASSUME Imported!ProgressInv, Imported!ImportInv', NEW k, Imported!MigrateSetting(k)
  PROVE  Imported!ProgressInv'
<1> DEFINE keys_ == Imported!Put(tx.keys, k, "file")
           row == [tx EXCEPT !.keys = keys_]
<1>1. DOMAIN keys_ = DOMAIN tx.keys \cup {k}
  BY Putting
<1>2. Imported!Row("settings", k, TRUE, row)
  BY DEF Imported!MigrateSetting
<1> HIDE DEF keys_
<1>3. /\ row.users = tx.users /\ row.keys = keys_ /\ row.inbounds = tx.inbounds
      /\ row.links = tx.links /\ row.used = tx.used
  BY Written
<1>4. k \in Imported!Rows("settings") => k \notin Of.import.Ignored
  BY DEF Imported!Rows, Imported!Imported
<1> HIDE DEF row
<1> QED
  BY <1>1, <1>2, <1>3, <1>4, PlainRow DEF Imported!Progress, Tables, Checked

LEMMA InboundsProgress ==
  ASSUME Imported!ProgressInv, Imported!ImportInv', NEW i \in DOMAIN Of.import.File,
         Imported!MigrateInbound(i)
  PROVE  Imported!ProgressInv'
<1> DEFINE inbound == [tag |-> Of.import.File[i].tag, names |-> Of.import.File[i].members]
           more == Imported!Put(tx.inbounds, i, inbound)
           row == [tx EXCEPT !.inbounds = more]
           fits == \A j \in DOMAIN Imported!Seen.inbounds :
                     Imported!Seen.inbounds[j].tag = Of.import.File[i].tag => j = i
<1>1. /\ DOMAIN more = DOMAIN tx.inbounds \cup {i} /\ more[i] = inbound
      /\ \A j \in DOMAIN tx.inbounds : j # i => more[j] = tx.inbounds[j]
  <2> HIDE DEF inbound
  <2> QED
    BY DEF Imported!Put, Imported!Over
<1>2. Imported!Row("inbounds", i, fits, row)
  BY DEF Imported!MigrateInbound
<1>3. inbound.tag = Of.import.File[i].tag
  OBVIOUS
<1> HIDE DEF more, fits, inbound
<1>4. /\ row.users = tx.users /\ row.keys = tx.keys /\ row.inbounds = more
      /\ row.links = tx.links /\ row.used = tx.used
  BY Written
<1> HIDE DEF row
<1> QED
  BY <1>1, <1>2, <1>3, <1>4, PlainRow DEF Imported!Progress, Tables, Checked

\* A new client has no traffic yet: the traffics come after.
LEMMA ClientsProgress ==
  ASSUME PartsAssumption, Imported!ProgressInv, Imported!ImportInv', NEW n,
         NEW i \in DOMAIN Of.import.File, Imported!MigrateClient(n, i)
  PROVE  Imported!ProgressInv'
<1>1. CASE n = Of.import.NoEmail
  <2>1. Imported!Row("clients", <<n, i>>, TRUE, tx)
    BY <1>1 DEF Imported!MigrateClient, Imported!Row, Imported!GivenUp
  <2>0. <<n, i>>[1] = n
    OBVIOUS
  <2>2. PICK x : x = <<n, i>> /\ x[1] = n
    BY <2>0
  <2>3. Imported!Row("clients", x, TRUE, tx)
    BY <2>1, <2>2
  <2>4. ASSUME Imported!Progress,
               Imported!Through("clients")' = Imported!Through("clients") \cup {x}
        PROVE  \A m \in Imported!Through("clients")' :
                 m[1] # Of.import.NoEmail => <<Of.import.Lower[m[1]], m[2]>> \in tx.links
    BY <1>1, <2>2, <2>4 DEF Imported!Progress
  <2> QED
    BY <2>3, <2>4, PlainRow DEF Imported!Progress, Tables, Checked
<1>2. CASE n # Of.import.NoEmail
  <2> DEFINE e == Of.import.Lower[n]
             links_ == tx.links \cup {<<e, i>>}
             known == [tx EXCEPT !.links = links_]
             first == [tx EXCEPT !.links = links_, !.used = Imported!Put(tx.used, e, 0)]
  <2>1. CASE e \in DOMAIN Imported!Seen.used
    <3>1. Imported!Row("clients", <<n, i>>, TRUE, known)
      <4>1. known = [tx EXCEPT !.links = @ \cup {<<e, i>>},
                               !.used = IF e \in DOMAIN Imported!Seen.used THEN @
                                        ELSE Imported!Put(@, e, 0)]
        BY <2>1, Written
      <4> HIDE DEF known
      <4> QED
        BY <1>2, <4>1 DEF Imported!MigrateClient
    <3>2. /\ known.users = tx.users /\ known.keys = tx.keys /\ known.inbounds = tx.inbounds
          /\ known.links = links_ /\ known.used = tx.used
      BY Written
    <3>0. <<n, i>>[1] = n /\ <<n, i>>[2] = i
      OBVIOUS
    <3>3. PICK x, link : /\ x = <<n, i>> /\ x[1] = n /\ x[2] = i
                         /\ link = <<e, i>> /\ links_ = tx.links \cup {link}
      BY <3>0
    <3> HIDE DEF known, links_
    <3>4. Imported!Row("clients", x, TRUE, known)
      BY <3>1, <3>3
    <3>5. ASSUME Imported!Progress,
                 Imported!Through("clients")' = Imported!Through("clients") \cup {x}
          PROVE  \A m \in Imported!Through("clients")' :
                   m[1] # Of.import.NoEmail =>
                     <<Of.import.Lower[m[1]], m[2]>> \in known.links
      BY <3>2, <3>3, <3>5 DEF Imported!Progress
    <3> HIDE DEF e
    <3> QED
      BY <3>2, <3>4, <3>5, PlainRow DEF Imported!Progress, Tables, Checked
  <2>2. CASE e \notin DOMAIN Imported!Seen.used
    <3>1. Imported!Row("clients", <<n, i>>, TRUE, first)
      <4>1. first = [tx EXCEPT !.links = @ \cup {<<e, i>>},
                               !.used = IF e \in DOMAIN Imported!Seen.used THEN @
                                        ELSE Imported!Put(@, e, 0)]
        BY <2>2
      <4> HIDE DEF first
      <4> QED
        BY <1>2, <4>1 DEF Imported!MigrateClient
    <3>2. /\ first.users = tx.users /\ first.keys = tx.keys /\ first.inbounds = tx.inbounds
          /\ first.links = links_ /\ first.used = Imported!Put(tx.used, e, 0)
      <4> DEFINE more == Imported!Put(tx.used, e, 0)
      <4> HIDE DEF more, links_
      <4>1. first = [tx EXCEPT !.links = links_, !.used = more]
        BY DEF more
      <4> HIDE DEF first
      <4>2. /\ first.users = tx.users /\ first.keys = tx.keys
            /\ first.inbounds = tx.inbounds /\ first.links = links_ /\ first.used = more
        BY <4>1, Written
      <4> QED
        BY <4>2 DEF more
    <3> HIDE DEF first
    <3>3. /\ panel' = panel /\ stage = "clients" /\ stage' = "clients"
          /\ \/ aborted'
             \/ /\ Imported!Progress /\ tx' = first
                /\ todo' \subseteq Imported!Rows("clients")
                /\ \A s \in Checked :
                     Imported!Through(s)' =
                       IF s = "clients" THEN Imported!Through(s) \cup {<<n, i>>}
                       ELSE Imported!Through(s)
      BY <3>1, RowWritten DEF Tables
    <3>4. ASSUME ~aborted' PROVE Imported!Progress'
      <4>1. /\ Imported!Progress /\ tx' = first /\ todo' \subseteq Imported!Rows("clients")
            /\ Imported!Through("users")' = Imported!Through("users")
            /\ Imported!Through("traffics")' = Imported!Through("traffics")
            /\ Imported!Through("clients")' = Imported!Through("clients") \cup {<<n, i>>}
        BY <3>3, <3>4 DEF Checked
      <4>2. PICK x : x = e
        OBVIOUS
      <4>3. /\ DOMAIN Imported!Seen'.used = DOMAIN Imported!Seen.used \cup {x}
            /\ Imported!Seen'.used[x] = 0
            /\ \A y \in DOMAIN Imported!Seen.used :
                 y # x => Imported!Seen'.used[y] = Imported!Seen.used[y]
            /\ \A y : Imported!OldUse(y)' = Imported!OldUse(y)
        <5>1. tx'.used = Imported!Put(tx.used, x, 0)
          BY <3>2, <4>1, <4>2
        <5> HIDE DEF e
        <5> QED
          BY <3>3, <5>1, MoreUse
      <4>4. Imported!OldUse(x) = 0
        BY <2>2, <4>2, TheSeen DEF Imported!OldUse
      <4>5. Imported!Plus({}) = 0
        BY PlusOne
      <4>6. Imported!Through("traffics") = {}
        BY <3>3, ThroughTables
      <4>7. \A y \in DOMAIN Imported!Seen'.used :
              Imported!Seen'.used[y] =
                Imported!OldUse(y)' +
                  Imported!Plus({m \in Imported!Through("traffics")' : Of.import.Lower[m] = y})
        <5> TAKE y \in DOMAIN Imported!Seen'.used
        <5>1. {m \in Imported!Through("traffics")' : Of.import.Lower[m] = y} = {}
          BY <4>1, <4>6
        <5>2. {m \in Imported!Through("traffics") : Of.import.Lower[m] = y} = {}
          BY <4>6
        <5>3. CASE y = x
          BY <4>3, <4>4, <4>5, <5>1, <5>3
        <5>4. CASE y # x
          <6>1. y \in DOMAIN Imported!Seen.used
            BY <4>3, <5>4
          <6>2. Imported!Seen.used[y] = Imported!OldUse(y) + Imported!Plus({})
            BY <4>1, <5>2, <6>1 DEF Imported!Progress
          <6> QED
            BY <4>3, <5>1, <5>4, <6>1, <6>2
        <5> QED
          BY <5>3, <5>4
      <4>8. \A m \in Imported!Through("clients")' :
              m[1] # Of.import.NoEmail => <<Of.import.Lower[m[1]], m[2]>> \in tx'.links
        BY <3>2, <4>1 DEF Imported!Progress
      <4> QED
        BY <3>2, <3>3, <4>1, <4>7, <4>8 DEF Imported!Progress
    <3> QED
      BY <3>3, <3>4 DEF Imported!ProgressInv
  <2> QED
    BY <2>1, <2>2
<1> QED
  BY <1>1, <1>2

\* Each traffic is added once, to the client that has its address.
LEMMA TrafficsProgress ==
  ASSUME PartsAssumption, Imported!ProgressInv, Imported!ImportInv', NEW n,
         Imported!MigrateTraffic(n)
  PROVE  Imported!ProgressInv'
<1>0. PICK e, more : e = Of.import.Lower[n] /\ more = Imported!Seen.used[e] + Of.import.Usage[n]
  OBVIOUS
<1> DEFINE used_ == Imported!Put(tx.used, e, more)
           added == [tx EXCEPT !.used = used_]
           row == IF e \in DOMAIN Imported!Seen.used THEN added ELSE tx
           done == Imported!Through("traffics")
           mine(y) == {m \in done : Of.import.Lower[m] = y}
<1>1. Imported!Row("traffics", n, TRUE, row)
  BY <1>0 DEF Imported!MigrateTraffic
<1> HIDE DEF used_
<1>2. /\ added.users = tx.users /\ added.keys = tx.keys /\ added.inbounds = tx.inbounds
      /\ added.links = tx.links /\ added.used = used_
  BY Written
<1> HIDE DEF added
<1>3. /\ row.users = tx.users /\ row.keys = tx.keys /\ row.inbounds = tx.inbounds
      /\ row.links = tx.links
  BY <1>2
<1>4. /\ panel' = panel /\ stage = "traffics" /\ stage' = "traffics"
      /\ \/ aborted'
         \/ /\ Imported!Progress /\ tx' = row /\ n \in Imported!Rows("traffics")
            /\ todo' \subseteq Imported!Rows("traffics")
            /\ \A s \in Checked :
                 Imported!Through(s)' =
                   IF s = "traffics" THEN Imported!Through(s) \cup {n}
                   ELSE Imported!Through(s)
            /\ n \notin Imported!Through("traffics")
  <2> HIDE DEF row, done
  <2> QED
    BY <1>1, RowWritten DEF Tables
<1>5. ASSUME ~aborted' PROVE Imported!Progress'
  <2>1. /\ Imported!Progress /\ tx' = row /\ n \in DOMAIN Of.import.Usage
        /\ todo' \subseteq Imported!Rows("traffics")
        /\ Imported!Through("users")' = Imported!Through("users")
        /\ Imported!Through("clients")' = Imported!Through("clients")
        /\ Imported!Through("traffics")' = done \cup {n} /\ n \notin done
    BY <1>4, <1>5 DEF Checked, Imported!Rows
  <2>2. done \subseteq DOMAIN Of.import.Usage
    BY DEF Imported!Through, Imported!Rows
  <2> HIDE DEF done
  <2>3. \A y \in DOMAIN Imported!Seen.used :
          Imported!Seen.used[y] = Imported!OldUse(y) + Imported!Plus(mine(y))
    BY <2>1 DEF Imported!Progress, done
  <2>4. \A y : {m \in Imported!Through("traffics")' : Of.import.Lower[m] = y}
                 = IF y = e THEN mine(y) \cup {n} ELSE mine(y)
    BY <1>0, <2>1
  <2>5. \A y \in DOMAIN Imported!Seen'.used :
          Imported!Seen'.used[y] =
            Imported!OldUse(y)' +
              Imported!Plus({m \in Imported!Through("traffics")' : Of.import.Lower[m] = y})
    <3>1. CASE e \in DOMAIN Imported!Seen.used
      <4>1. tx'.used = Imported!Put(tx.used, e, more)
        BY <1>2, <2>1, <3>1 DEF used_
      <4>2. /\ DOMAIN Imported!Seen'.used = DOMAIN Imported!Seen.used \cup {e}
            /\ Imported!Seen'.used[e] = more
            /\ \A y \in DOMAIN Imported!Seen.used :
                 y # e => Imported!Seen'.used[y] = Imported!Seen.used[y]
            /\ \A y : Imported!OldUse(y)' = Imported!OldUse(y)
        BY <1>4, <4>1, MoreUse
      <4>3. PICK A : A = mine(e)
        OBVIOUS
      <4>4. /\ A \subseteq DOMAIN Of.import.Usage /\ n \in DOMAIN Of.import.Usage \ A
        BY <2>1, <2>2, <4>3
      <4>5. /\ Imported!Plus(A \cup {n}) = Imported!Plus(A) + Of.import.Usage[n]
            /\ Imported!Plus(A) \in Nat
        BY <4>4, PlusOne
      <4>6. Imported!OldUse(e) \in Nat /\ Of.import.Usage[n] \in Nat
        BY <2>1, PartsAssumption DEF Imported!OldUse, Imported!ProgressInv, PartsAssumption,
           Imported!ImportAssumption
      <4>7. more = Imported!OldUse(e) + Imported!Plus(A \cup {n})
        BY <1>0, <2>3, <3>1, <4>3, <4>5, <4>6
      <4> TAKE y \in DOMAIN Imported!Seen'.used
      <4>8. CASE y = e
        BY <2>4, <4>2, <4>3, <4>7, <4>8
      <4>9. CASE y # e
        BY <2>3, <2>4, <4>2, <4>9
      <4> QED
        BY <4>8, <4>9
    <3>2. CASE e \notin DOMAIN Imported!Seen.used
      <4>1. /\ Imported!Seen'.used = Imported!Seen.used
            /\ \A y : Imported!OldUse(y)' = Imported!OldUse(y)
        BY <1>4, <2>1, <3>2, SameUse
      <4> QED
        BY <2>3, <2>4, <3>2, <4>1
    <3> QED
      BY <3>1, <3>2
  <2> QED
    BY <1>3, <1>4, <2>1, <2>5 DEF Imported!Progress
<1> QED
  BY <1>4, <1>5 DEF Imported!ProgressInv

\* The panel's traffic is a number, and so is what the transaction sees of it.
LEMMA NumbersSeen ==
  ASSUME PartsAssumption, Imported!ProgressInv, Imported!Progress
  PROVE  \A e \in DOMAIN Imported!Seen.used : Imported!Seen.used[e] \in Nat
<1> TAKE e \in DOMAIN Imported!Seen.used
<1>1. PICK S : S = {n \in Imported!Through("traffics") : Of.import.Lower[n] = e}
  OBVIOUS
<1>2. S \subseteq DOMAIN Of.import.Usage
  BY <1>1 DEF Imported!Through, Imported!Rows
<1>3. Imported!Plus(S) \in Nat
  BY <1>2, PlusOne
<1>4. Imported!OldUse(e) \in Nat
  BY DEF Imported!OldUse, Imported!ProgressInv
<1>5. Imported!Seen.used[e] = Imported!OldUse(e) + Imported!Plus(S)
  BY <1>1 DEF Imported!Progress
<1> QED
  BY <1>3, <1>4, <1>5

\* An import begins with nothing written.
LEMMA BeginProgress ==
  ASSUME PartsAssumption, Imported!ProgressInv, Imported!ImportInv', Imported!Begin
  PROVE  Imported!ProgressInv'
<1>1. /\ panel' = panel /\ stage' = "users" /\ todo' = Imported!Rows("users")
      /\ tx' = Imported!Nothing
  BY DEF Imported!Begin
<1>2. /\ Imported!Through("users")' = {} /\ Imported!Through("clients")' = {}
      /\ Imported!Through("traffics")' = {}
  BY ThroughTables DEF Checked
<1>3. /\ DOMAIN tx'.keys = {} /\ DOMAIN tx'.inbounds = {} /\ DOMAIN tx'.used = {}
  BY <1>1 DEF Imported!Nothing
<1>4. /\ DOMAIN Imported!Seen'.used = DOMAIN panel.used
      /\ \A e \in DOMAIN panel.used : Imported!Seen'.used[e] = panel.used[e]
  BY <1>1, <1>3 DEF Imported!Seen, Imported!Over
<1>5. \A e \in DOMAIN panel.used : Imported!OldUse(e)' = panel.used[e] /\ panel.used[e] \in Nat
  BY <1>1 DEF Imported!OldUse, Imported!ProgressInv
<1>6. \A e : {n \in Imported!Through("traffics")' : Of.import.Lower[n] = e} = {}
  BY <1>2
<1>7. Imported!Plus({}) = 0
  BY PlusOne
<1>8. \A e \in DOMAIN Imported!Seen'.used :
        Imported!Seen'.used[e] =
          Imported!OldUse(e)' +
            Imported!Plus({n \in Imported!Through("traffics")' : Of.import.Lower[n] = e})
  BY <1>4, <1>5, <1>6, <1>7
<1>9. Imported!Progress'
  BY <1>1, <1>2, <1>3, <1>8 DEF Imported!Progress
<1> QED
  BY <1>1, <1>9 DEF Imported!ProgressInv

\* The next table begins where nothing is left of the one before.
LEMMA NextTableProgress ==
  ASSUME Imported!ProgressInv, Imported!ImportInv', Imported!NextTable
  PROVE  Imported!ProgressInv'
<1>1. /\ panel' = panel /\ tx' = tx /\ aborted' = aborted /\ todo' = Imported!Rows(stage')
      /\ stage # "idle"
  BY DEF Imported!NextTable, Imported!After
<1>2. /\ Imported!Through("users")' = Imported!Through("users")
      /\ Imported!Through("clients")' = Imported!Through("clients")
      /\ Imported!Through("traffics")' = Imported!Through("traffics")
  BY ThroughTables DEF Checked
<1>3. Imported!Seen'.used = Imported!Seen.used /\ \A e : Imported!OldUse(e)' = Imported!OldUse(e)
  BY <1>1, SameUse
<1>4. ASSUME Imported!Progress PROVE Imported!Progress'
  <2>1. \A e \in DOMAIN Imported!Seen'.used :
          Imported!Seen'.used[e] =
            Imported!OldUse(e)' +
              Imported!Plus({n \in Imported!Through("traffics")' : Of.import.Lower[n] = e})
    BY <1>2, <1>3, <1>4 DEF Imported!Progress
  <2> QED
    BY <1>1, <1>2, <1>4, <2>1 DEF Imported!Progress
<1> QED
  BY <1>1, <1>4 DEF Imported!ProgressInv

\* The panel's own new inbound is none of those written, and changes no traffic.
LEMMA AddInboundProgress ==
  ASSUME Imported!ProgressInv, Imported!ImportInv', NEW t, Imported!AddInbound(t)
  PROVE  Imported!ProgressInv' /\ panel'.users = panel.users /\ panel'.keys = panel.keys
<1>1. /\ UNCHANGED <<stage, todo, tx, aborted>>
      /\ \/ panel' = panel
         \/ \E more : panel' = [panel EXCEPT !.inbounds = more]
  BY DEF Imported!AddInbound
<1>2. panel = [users |-> panel.users, keys |-> panel.keys, inbounds |-> panel.inbounds,
               used |-> panel.used, links |-> panel.links]
  BY DEF Imported!ProgressInv, Imported!ImportInv, Imported!Shaped
<1>3. panel'.users = panel.users /\ panel'.keys = panel.keys /\ panel'.used = panel.used
  BY <1>1, <1>2
<1>4. /\ Imported!Seen'.used = Imported!Seen.used
      /\ \A e : Imported!OldUse(e)' = Imported!OldUse(e)
  BY <1>1, <1>3, SameUse
<1>5. \A s \in Checked : Imported!Through(s)' = Imported!Through(s)
  BY <1>1 DEF Imported!Through
<1>6. ASSUME Imported!Progress PROVE Imported!Progress'
  <2>1. /\ Imported!Through("users")' = Imported!Through("users")
        /\ Imported!Through("clients")' = Imported!Through("clients")
        /\ Imported!Through("traffics")' = Imported!Through("traffics")
    BY <1>5 DEF Checked
  <2>2. \A e \in DOMAIN Imported!Seen'.used :
          Imported!Seen'.used[e] =
            Imported!OldUse(e)' +
              Imported!Plus({n \in Imported!Through("traffics")' : Of.import.Lower[n] = e})
    BY <1>4, <1>6, <2>1 DEF Imported!Progress
  <2> QED
    BY <1>1, <1>6, <2>1, <2>2 DEF Imported!Progress
<1> QED
  BY <1>1, <1>3, <1>6 DEF Imported!ProgressInv

\* What is committed: the whole of the file, and nothing of how the panel is reached.
LEMMA CommitIsWhole ==
  ASSUME PartsAssumption, Imported!ProgressInv, Imported!ImportInv', Imported!Commit
  PROVE  Imported!ProgressInv' /\ Imported!Whole /\ Imported!KeepsAccess
<1> DEFINE d == Imported!Seen
           inbounds == [i \in DOMAIN d.inbounds |->
                          [tag |-> d.inbounds[i].tag, names |-> Imported!MembersOf(d, i)]]
<1>1. /\ stage = "rebuild" /\ stage' = "idle" /\ panel' = Imported!Committed
      /\ Imported!Progress /\ Imported!Ordered
  BY DEF Imported!Commit, Imported!ProgressInv, Imported!ImportInv
<1>2. /\ panel'.users = d.users /\ panel'.keys = d.keys /\ panel'.inbounds = inbounds
      /\ panel'.used = d.used /\ panel'.links = d.links
  <2>1. panel' = [d EXCEPT !.inbounds = inbounds]
    BY <1>1 DEF Imported!Committed, Imported!Rebuilt
  <2>2. d = [users |-> d.users, keys |-> d.keys, inbounds |-> d.inbounds, used |-> d.used,
             links |-> d.links]
    BY TheSeen DEF Imported!Shaped
  <2> HIDE DEF inbounds, d
  <2> QED
    BY <2>1, <2>2
<1>3. /\ Imported!Through("users") = Of.import.FileUsers
      /\ Imported!Through("clients") = Imported!Rows("clients")
      /\ Imported!Through("traffics") = DOMAIN Of.import.Usage
  <2>1. \A t \in Checked : Imported!Through(t) = Imported!Rows(t)
    BY <1>1, ThroughTables
  <2> QED
    BY <2>1 DEF Checked, Imported!Rows
<1>4. Of.import.FileUsers \subseteq panel'.users
  <2>1. d.users = panel.users \cup tx.users
    BY DEF Imported!Seen
  <2> QED
    BY <1>1, <1>2, <1>3, <2>1 DEF Imported!Progress
<1>5. ASSUME NEW i \in DOMAIN Of.import.File
      PROVE  i \in DOMAIN panel'.inbounds /\ panel'.inbounds[i].tag = Of.import.File[i].tag
  <2>1. i \in DOMAIN tx.inbounds
    BY <1>1 DEF Imported!Ordered
  <2>2. i \in DOMAIN d.inbounds /\ d.inbounds[i] = tx.inbounds[i]
    BY <2>1 DEF Imported!Seen, Imported!Over
  <2>3. inbounds[i].tag = d.inbounds[i].tag
    BY <2>2
  <2> HIDE DEF d
  <2> QED
    BY <1>1, <1>2, <2>1, <2>2, <2>3 DEF Imported!Progress
<1>6. ASSUME NEW i \in DOMAIN Of.import.File,
             NEW n \in Of.import.File[i].members \ {Of.import.NoEmail}
      PROVE  <<Of.import.Lower[n], i>> \in panel'.links
  <2>1. Of.import.File[i].members \subseteq DOMAIN Of.import.Lower \cup {Of.import.NoEmail}
    BY PartsAssumption DEF PartsAssumption, Imported!ImportAssumption
  <2>0. <<n, i>>[1] = n /\ <<n, i>>[2] = i
    OBVIOUS
  <2>2. PICK m : m = <<n, i>> /\ m[1] = n /\ m[2] = i
    BY <2>0
  <2>3. m \in Imported!Rows("clients")
    BY <2>1, <2>2 DEF Imported!Rows
  <2>4. <<Of.import.Lower[n], i>> \in tx.links
    BY <1>1, <1>3, <2>2, <2>3 DEF Imported!Progress
  <2> QED
    BY <1>2, <2>4, TheSeen
<1>7. \A e \in DOMAIN panel'.used :
        panel'.used[e] =
          Imported!OldUse(e) + Imported!Plus({n \in DOMAIN Of.import.Usage : Of.import.Lower[n] = e})
  BY <1>1, <1>2, <1>3 DEF Imported!Progress
<1>8. Imported!Whole
  BY <1>4, <1>5, <1>6, <1>7 DEF Imported!Whole
<1>9. Imported!KeepsAccess
  <2>1. d.users = panel.users \cup tx.users /\ d.keys = Imported!Over(panel.keys, tx.keys)
    BY DEF Imported!Seen
  <2>2. (DOMAIN tx.keys) \cap Of.import.Ignored = {}
    BY <1>1 DEF Imported!Progress
  <2> HIDE DEF d
  <2> QED
    BY <1>2, <2>1, <2>2 DEF Imported!KeepsAccess, Imported!Over
<1>10. \A e \in DOMAIN panel'.used : panel'.used[e] \in Nat
  BY <1>1, <1>2, NumbersSeen
<1> QED
  BY <1>1, <1>8, <1>9, <1>10 DEF Imported!ProgressInv

\* Every step of an import goes on with it; one that ends it and changes the panel has
\* the whole file.
LEMMA ProgressNext ==
  ASSUME PartsAssumption, Imported!ProgressInv, [Imported!Next]_Imported!vars
  PROVE  /\ Imported!ProgressInv'
         /\ (Imported!Ends => Imported!Whole) /\ Imported!KeepsAccess
<1>1. Imported!ImportInv'
  BY ImportNext DEF Imported!ProgressInv
<1>2. panel'.users = panel.users /\ panel'.keys = panel.keys => Imported!KeepsAccess
  BY DEF Imported!KeepsAccess
<1>3. panel' = panel => ~Imported!Ends /\ Imported!KeepsAccess
  BY <1>2 DEF Imported!Ends
<1>4. CASE \E u : Imported!MigrateUser(u)
  BY <1>1, <1>3, <1>4, UsersProgress DEF Imported!MigrateUser, Imported!Row
<1>5. CASE \E k : Imported!MigrateSetting(k)
  BY <1>1, <1>3, <1>5, SettingsProgress DEF Imported!MigrateSetting, Imported!Row
<1>6. CASE \E i \in DOMAIN Of.import.File : Imported!MigrateInbound(i)
  BY <1>1, <1>3, <1>6, InboundsProgress DEF Imported!MigrateInbound, Imported!Row
<1>7. CASE \E r \in Imported!Rows("clients") : Imported!MigrateClient(r[1], r[2])
  <2>1. PICK r \in Imported!Rows("clients") : Imported!MigrateClient(r[1], r[2])
    BY <1>7
  <2>2. r[2] \in DOMAIN Of.import.File
    BY <2>1 DEF Imported!Rows
  <2>3. panel' = panel
    BY <2>1 DEF Imported!MigrateClient, Imported!Row
  <2> QED
    BY <1>1, <1>3, <2>1, <2>2, <2>3, ClientsProgress
<1>8. CASE \E n : Imported!MigrateTraffic(n)
  BY <1>1, <1>3, <1>8, TrafficsProgress DEF Imported!MigrateTraffic, Imported!Row
<1>9. CASE \E t : Imported!AddInbound(t)
  BY <1>1, <1>2, <1>9, AddInboundProgress DEF Imported!AddInbound, Imported!Ends
<1>10. CASE Imported!Begin
  BY <1>1, <1>3, <1>10, BeginProgress DEF Imported!Begin
<1>11. CASE Imported!NextTable
  BY <1>1, <1>3, <1>11, NextTableProgress DEF Imported!NextTable
<1>12. CASE Imported!Commit
  BY <1>1, <1>12, CommitIsWhole
<1>13. CASE Imported!RollBack
  BY <1>1, <1>3, <1>13 DEF Imported!RollBack, Imported!ProgressInv
<1>14. CASE UNCHANGED Imported!vars
  <2>1. UNCHANGED <<panel, given, stage, todo, tx, aborted, imports>>
    BY <1>14 DEF Imported!vars
  <2>2. \A s \in Checked : Imported!Through(s)' = Imported!Through(s)
    BY <2>1 DEF Imported!Through
  <2>3. Imported!Seen'.used = Imported!Seen.used /\ \A e : Imported!OldUse(e)' = Imported!OldUse(e)
    BY <2>1, SameUse
  <2>4. Imported!Progress => Imported!Progress'
    BY <2>1, <2>2, <2>3 DEF Imported!Progress, Checked
  <2> QED
    BY <1>1, <1>3, <2>1, <2>4 DEF Imported!ProgressInv
<1> QED
  BY <1>4, <1>5, <1>6, <1>7, <1>8, <1>9, <1>10, <1>11, <1>12, <1>13, <1>14
     DEF Imported!Next

LEMMA ProgressInit ==
  ASSUME PartsAssumption, Imported!Init
  PROVE  Imported!ProgressInv
<1>1. panel \in Of.import.Panels /\ stage = "idle"
  BY DEF Imported!Init
<1>2. \A e \in DOMAIN panel.used : panel.used[e] \in Nat
  BY <1>1, PartsAssumption DEF PartsAssumption, Imported!ImportAssumption
<1> QED
  BY <1>1, <1>2, ImportInit DEF Imported!ProgressInv

-----------------------------------------------------------------------------
(* The parts of Panel: each behaves as its module says, so that what is    *)
(* proved of the module is true of the part, for any constants.            *)

\* A behaviour stays in its part and begins and goes on as the part does.
LEMMA PartsAreModules ==
  /\ [PartsNext]_whole =>
       /\ (part = "import")' <=> part = "import"
       /\ (part = "uploads")' <=> part = "uploads"
       /\ (part = "workers")' <=> part = "workers"
       /\ (part = "sidecars")' <=> part = "sidecars"
       /\ (part = "tunnel")' <=> part = "tunnel"
       /\ (part = "form")' <=> part = "form"
       /\ (part = "versions")' <=> part = "versions"
       /\ (part = "restore")' <=> part = "restore"
       /\ (part = "dumps")' <=> part = "dumps"
  /\ PartsInit =>
       /\ part = "import" => Imported!Init
       /\ part = "uploads" => Versions!Geo!Init
       /\ part = "workers" => Restore!Geo!Init
       /\ part = "sidecars" => Processes!Init
       /\ part = "tunnel" => Versions!Wg(Of.tunnel)!Init
       /\ part = "form" => Versions!Wg(Of.form)!Init
       /\ part = "versions" => Versions!Init
       /\ part = "restore" => Restore!Init
       /\ part = "dumps" => Dumps!Init
  /\ [PartsNext]_whole =>
       /\ part = "import" => [Imported!Next]_Imported!vars
       /\ part = "uploads" => [Versions!Geo!Next]_Versions!Geo!vars
       /\ part = "workers" => [Restore!Geo!Next]_Restore!Geo!vars
       /\ part = "sidecars" => [Processes!Next]_Processes!vars
       /\ part = "tunnel" =>
            [Versions!Wg(Of.tunnel)!Next]_(Versions!Wg(Of.tunnel)!vars)
       /\ part = "form" => [Versions!Wg(Of.form)!Next]_(Versions!Wg(Of.form)!vars)
       /\ part = "versions" => [Versions!Next]_Versions!vars
       /\ part = "restore" => [Restore!Next]_Restore!vars
       /\ part = "dumps" => [Dumps!Next]_Dumps!vars
<1>1. [PartsNext]_whole => part' = part
  BY DEF PartsNext, whole
<1>2. PartsInit =>
        /\ part = "import" => Imported!Init
        /\ part = "uploads" => Versions!Geo!Init
        /\ part = "workers" => Restore!Geo!Init
        /\ part = "sidecars" => Processes!Init
        /\ part = "tunnel" => Versions!Wg(Of.tunnel)!Init
        /\ part = "form" => Versions!Wg(Of.form)!Init
        /\ part = "versions" => Versions!Init
        /\ part = "restore" => Restore!Init
        /\ part = "dumps" => Dumps!Init
  BY DEF PartsInit
<1>3. [PartsNext]_whole =>
        /\ part = "import" => [Imported!Next]_import
        /\ part = "uploads" => [Versions!Geo!Next]_files
        /\ part = "workers" => [Restore!Geo!Next]_files
        /\ part = "sidecars" => [Processes!Next]_sidecars
        /\ part = "tunnel" => [Versions!Wg(Of.tunnel)!Next]_tunnel
        /\ part = "form" => [Versions!Wg(Of.form)!Next]_tunnel
        /\ part = "versions" => [Versions!Next]_upkeep
        /\ part = "restore" => [Restore!Next]_upkeep
        /\ part = "dumps" => [Dumps!Next]_upkeep
  BY DEF PartsNext, whole, others
<1>4. /\ UNCHANGED import => UNCHANGED Imported!vars
      /\ UNCHANGED files => UNCHANGED Versions!Geo!vars /\ UNCHANGED Restore!Geo!vars
      /\ UNCHANGED sidecars => UNCHANGED Processes!vars
      /\ UNCHANGED tunnel => UNCHANGED Versions!Wg(Of.tunnel)!vars
      /\ UNCHANGED tunnel => UNCHANGED Versions!Wg(Of.form)!vars
      /\ UNCHANGED upkeep =>
           UNCHANGED Versions!vars /\ UNCHANGED Restore!vars /\ UNCHANGED Dumps!vars
  BY DEF import, Imported!vars, files, sidecars, tunnel, upkeep, Versions!Wg!vars,
         Versions!Geo!vars, Restore!Geo!vars, Processes!vars,
         Versions!vars, Restore!vars, Dumps!vars, Versions!files, Restore!files,
         Dumps!files, Versions!database, Restore!database, Dumps!database,
         Versions!counts, Restore!counts, Dumps!counts
<1> QED
  BY <1>1, <1>2, <1>3, <1>4

\* After any import of another panel's database, over whatever inbounds were there
\* before, the settings of an inbound list exactly the clients linked to it, for any
\* file, panel, rows that cannot be written and inbounds added meanwhile (Import).
THEOREM ImportKeepsLinks == PartsSpec => []SettingsFollowLinks
<1>1. Imported!Spec => [](Imported!TypeOK /\ Imported!SettingsFollowLinks)
  BY PartsAssumption, ImportInvariant, PTL DEF Imported!ImportInv
<1> QED
  BY <1>1, PartsAreModules, PTL DEF PartsSpec, SettingsFollowLinks, Imported!Spec

\* Whatever row of an import fails and wherever it ends, the panel has nothing of the
\* file or the whole of it, its traffic counted once, and is reached as before, for any
\* file, panel and inbounds added meanwhile (Import).
THEOREM ImportIsAllOrNothing == PartsSpec => AllOrNothing
<1> DEFINE I == part = "import" => Imported!ProgressInv
<1>1. PartsAssumption /\ PartsInit => I
  BY PartsAreModules, ProgressInit
<1>2. PartsAssumption /\ I /\ [PartsNext]_whole =>
        /\ I'
        /\ [part = "import" => (Imported!Ends => Imported!Whole) /\ Imported!KeepsAccess]_import
  BY PartsAreModules, ProgressNext
<1> HIDE DEF I
<1> QED
  BY <1>1, <1>2, PartsAssumption, PTL DEF PartsSpec, AllOrNothing

\* No torn geofile is read but where one is written in place; at rest each core has
\* read the geofile that is there, unless a request failed; and a change can be undone
\* unless requests overlapped (Geofiles), for any requests, workers and contents.
THEOREM FilesStayInOrder == PartsSpec => []GeofilesInOrder
<1>1. Versions!Geo!Spec => [](Versions!Geo!TypeOK /\ Versions!Geo!GeofilesInOrder)
  BY PartsAssumption, Versions!FilesInvariant, Versions!FilesInOrder, PTL
     DEF Versions!Geo!FilesInv
<1>2. Restore!Geo!Spec => [](Restore!Geo!TypeOK /\ Restore!Geo!GeofilesInOrder)
  BY PartsAssumption, Restore!FilesInvariant, Restore!FilesInOrder, PTL
     DEF Restore!Geo!FilesInv
<1> QED
  BY <1>1, <1>2, PartsAreModules, PTL
     DEF PartsSpec, GeofilesInOrder, Versions!Geo!Spec, Restore!Geo!Spec

\* Once nobody is at work, the Telemt processes of the panel are those of the rows,
\* and none is without supervision, but for the excuses of Sidecars, for any numbers of
\* handlers, tags, clients, managers and changes.
THEOREM PanelsSidecarsFollow == PartsSpec => []SidecarsAsConfigured
<1>1. Processes!Spec => [](Processes!TypeOK /\ Processes!SidecarsAsConfigured)
  BY PartsAssumption, Processes!SidecarsTypes, Processes!SidecarsFollow, PTL
<1> QED
  BY <1>1, PartsAreModules, PTL DEF PartsSpec, SidecarsAsConfigured, Processes!Spec

\* A core stays stopped for a reason, a core that runs is the one installed, and the
\* database is there, but for what Maintenance has on record, for any updates, dumps,
\* stops, restarts and ends of the panel.
THEOREM CoreIsGivenBack == PartsSpec => []CoreGivenBack
<1>1. Versions!Spec => [](Versions!TypeOK /\ Versions!CoreGivenBack)
  BY PartsAssumption, Versions!MaintenanceTypes, Versions!WhatIsTakenIsGivenBack, PTL
<1>2. Restore!Spec => [](Restore!TypeOK /\ Restore!CoreGivenBack)
  BY PartsAssumption, Restore!MaintenanceTypes, Restore!WhatIsTakenIsGivenBack, PTL
<1>3. Dumps!Spec => [](Dumps!TypeOK /\ Dumps!CoreGivenBack)
  BY PartsAssumption, Dumps!MaintenanceTypes, Dumps!WhatIsTakenIsGivenBack, PTL
<1> QED
  BY <1>1, <1>2, <1>3, PartsAreModules, PTL
     DEF PartsSpec, CoreGivenBack, Versions!Spec, Restore!Spec, Dumps!Spec

\* What makes the inbound's promises hold in both parts (TunnelInv of Wireguard).
TunnelsInv ==
  /\ part = "tunnel" => Versions!Wg(Of.tunnel)!TunnelInv
  /\ part = "form" => Versions!Wg(Of.form)!TunnelInv

LEMMA TunnelsInvariant == PartsSpec => []TunnelsInv
<1>1. PartsAssumption =>
        /\ Versions!Wg(Of.tunnel)!WireguardAssumption
        /\ Versions!Wg(Of.form)!WireguardAssumption
  BY DEF PartsAssumption
<1>2. PartsAssumption /\ PartsInit => TunnelsInv
  BY <1>1, PartsAreModules, Versions!TunnelInit DEF TunnelsInv
<1>3. PartsAssumption /\ TunnelsInv /\ [PartsNext]_whole => TunnelsInv'
  BY <1>1, PartsAreModules, Versions!TunnelNext DEF TunnelsInv
<1> QED
  BY <1>2, <1>3, PartsAssumption, PTL DEF PartsSpec

\* Once all is quiet, each client that may connect has one peer and the others have
\* none, but when no peer would be left; and what a client was told goes on to work
\* (Wireguard), for any handlers, clients, addresses, changes, forms and failures.
THEOREM PeersAreTheClients == PartsSpec => []PeersFollowClients
<1>1. TunnelsInv => PeersFollowClients
  BY Versions!TunnelImplies DEF TunnelsInv, PeersFollowClients
<1> QED
  BY <1>1, TunnelsInvariant, PTL

\* No two peers of a WireGuard inbound have an address in common, nor a peer and the
\* server, however rebuilds and forms overlap, until the pool is empty or the server
\* is moved (Wireguard), for any handlers, clients, addresses and changes.
THEOREM NoAddressTwice == PartsSpec => []AddressesDistinct
<1>1. TunnelsInv => AddressesDistinct
  BY Versions!TunnelImplies DEF TunnelsInv, AddressesDistinct
<1> QED
  BY <1>1, TunnelsInvariant, PTL

=============================================================================
