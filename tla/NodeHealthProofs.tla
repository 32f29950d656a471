-------------------------- MODULE NodeHealthProofs --------------------------
(***************************************************************************)
(* For any nodes, checkers and addresses: the health checks keep their     *)
(* types and counters, and implement the alerts NodeAlerts promises.       *)
(***************************************************************************)
EXTENDS NodeHealth, TLAPS

Entry ==
  [failStreak : Nat, okStreak : {0, 1}, hasOpenDown : BOOLEAN,
   firstFailFrom : Statuses \cup {""}]

Latest == [kind : {"none", "ok", "fail"}, before : Statuses]

\* What CountersMeanChecks says of one node.
Means(h, last, alert) ==
  /\ h.hasOpenDown <=> alert = "down"
  /\ h.failStreak > 0 <=> last.kind = "fail"
  /\ h.failStreak > 0 => h.okStreak = 0
  /\ h.hasOpenDown => (h.okStreak = 1 <=> last.kind = "ok")
  /\ ~h.hasOpenDown => h.okStreak = 0 /\ h.failStreak < 2
  /\ ~h.hasOpenDown /\ h.failStreak = 1 => h.firstFailFrom = last.before

LEMMA MeansCounters ==
  CountersMeanChecks <=> \A n \in Nodes : Means(hyst[n], latest[n], alarm[n])
BY DEF CountersMeanChecks, Means

\* Counting one more failure: only the first leaves the count below two.
LEMMA StreakFacts ==
  ASSUME NEW k \in Nat
  PROVE  LET streak == IF k < Cap THEN k + 1 ELSE Cap
         IN streak \in Nat /\ streak > 0 /\ (streak < 2 <=> k = 0)
BY DEF Cap

LEMMA EntryFields ==
  ASSUME NEW h \in Entry
  PROVE  /\ h.failStreak \in Nat /\ h.okStreak \in {0, 1} /\ h.hasOpenDown \in BOOLEAN
         /\ h.firstFailFrom \in Statuses \cup {""}
BY DEF Entry

\* An entry with other counters.
LEMMA FailEntry ==
  ASSUME NEW h \in Entry, NEW k \in Nat, NEW f \in Statuses \cup {""}
  PROVE  LET counted == [h EXCEPT !.okStreak = 0, !.failStreak = k, !.firstFailFrom = f]
             opened == [counted EXCEPT !.hasOpenDown = TRUE, !.firstFailFrom = ""]
         IN /\ counted \in Entry /\ counted.okStreak = 0 /\ counted.failStreak = k
            /\ counted.firstFailFrom = f /\ counted.hasOpenDown = h.hasOpenDown
            /\ opened \in Entry /\ opened.okStreak = 0 /\ opened.failStreak = k
            /\ opened.hasOpenDown
BY DEF Entry

LEMMA OkEntry ==
  ASSUME NEW h \in Entry, NEW k \in {0, 1}
  PROVE  LET more == [h EXCEPT !.failStreak = 0, !.okStreak = k]
         IN /\ more \in Entry /\ more.failStreak = 0 /\ more.okStreak = k
            /\ more.hasOpenDown = h.hasOpenDown
BY DEF Entry

\* One failed check: the entry, the alert and the status it names.
LEMMA AfterFailFacts ==
  ASSUME NEW h \in Entry, NEW last \in Latest, NEW alert \in {"none", "down", "up"},
         NEW before \in Statuses, Means(h, last, alert)
  PROVE  LET result == AfterFail(h, before)
             sent == IF result.send = "none" THEN alert ELSE result.send
             goesDown == alert # "down" /\ last.kind = "fail"
         IN /\ result.entry \in Entry
            /\ result.send = IF goesDown THEN "down" ELSE "none"
            /\ goesDown => result.from = last.before
            /\ Means(result.entry, [kind |-> "fail", before |-> before], sent)
<1> DEFINE streak == IF h.failStreak < Cap THEN h.failStreak + 1 ELSE Cap
           first == IF h.failStreak = 0 THEN before ELSE h.firstFailFrom
           counted == [h EXCEPT !.okStreak = 0, !.failStreak = streak,
                                !.firstFailFrom = first]
           opened == [counted EXCEPT !.hasOpenDown = TRUE, !.firstFailFrom = ""]
           named == IF first = "" THEN before ELSE first
           fail == [kind |-> "fail", before |-> before]
<1>1. AfterFail(h, before) =
        IF streak < 2 \/ h.hasOpenDown
        THEN [entry |-> counted, send |-> "none", from |-> before]
        ELSE [entry |-> opened, send |-> "down", from |-> named]
  BY DEF AfterFail
<1>2. streak \in Nat /\ streak > 0 /\ (streak < 2 <=> h.failStreak = 0)
  BY EntryFields, StreakFacts
<1>3. first \in Statuses \cup {""} /\ (h.failStreak = 0 => first = before)
      /\ (h.failStreak # 0 => first = h.firstFailFrom)
  BY EntryFields
<1> HIDE DEF streak, first
<1>4. /\ counted \in Entry /\ counted.okStreak = 0 /\ counted.failStreak = streak
      /\ counted.firstFailFrom = first /\ counted.hasOpenDown = h.hasOpenDown
      /\ opened \in Entry /\ opened.okStreak = 0 /\ opened.failStreak = streak
      /\ opened.hasOpenDown
  BY <1>2, <1>3, FailEntry
<1> HIDE DEF counted, opened
<1>5. fail.kind = "fail" /\ fail.before = before
  OBVIOUS
<1>6. CASE streak < 2 \/ h.hasOpenDown
  <2>1. AfterFail(h, before) = [entry |-> counted, send |-> "none", from |-> before]
    <3> HIDE DEF named
    <3> QED
      BY <1>1, <1>6
  <2>2. ~(alert # "down" /\ last.kind = "fail")
    <3>1. h.failStreak \in Nat
      BY EntryFields
    <3>2. /\ h.hasOpenDown <=> alert = "down"
          /\ h.failStreak > 0 <=> last.kind = "fail"
      BY DEF Means
    <3>3. CASE h.hasOpenDown
      BY <3>2, <3>3
    <3>4. CASE streak < 2
      <4>1. ~(h.failStreak > 0)
        BY <1>2, <3>1, <3>4
      <4> QED
        BY <3>2, <4>1
    <3> QED
      BY <1>6, <3>3, <3>4
  <2>3. streak = 1 => first = before
    <3>1. streak = 1 => streak < 2
      OBVIOUS
    <3> QED
      BY <1>2, <1>3, <3>1
  <2> HIDE DEF fail
  <2>4. Means(counted, fail, alert)
    BY <1>2, <1>4, <1>5, <1>6, <2>3 DEF Means
  <2> QED
    BY <1>4, <2>1, <2>2, <2>4 DEF fail
<1>7. CASE ~(streak < 2 \/ h.hasOpenDown)
  <2>1. AfterFail(h, before) = [entry |-> opened, send |-> "down", from |-> named]
    BY <1>1, <1>7
  <2>2. alert # "down" /\ h.failStreak < 2 /\ h.failStreak # 0
    BY <1>2, <1>7 DEF Means
  <2>3. h.failStreak = 1 /\ h.failStreak > 0
    <3>1. h.failStreak \in Nat
      BY EntryFields
    <3> QED
      BY <2>2, <3>1
  <2>6. last.kind = "fail" /\ h.firstFailFrom = last.before
    BY <1>7, <2>3 DEF Means
  <2>7. first = last.before
    BY <1>3, <2>2, <2>6
  <2>4. named = last.before
    BY <2>7 DEF Latest, Statuses
  <2> HIDE DEF fail, named
  <2>5. Means(opened, fail, "down")
    BY <1>2, <1>4, <1>5 DEF Means
  <2> QED
    BY <1>4, <2>1, <2>2, <2>4, <2>5, <2>6 DEF fail
<1> QED
  BY <1>6, <1>7

\* One successful check.
LEMMA AfterOkFacts ==
  ASSUME NEW h \in Entry, NEW last \in Latest, NEW alert \in {"none", "down", "up"},
         NEW before \in Statuses, Means(h, last, alert)
  PROVE  LET result == AfterOk(h)
             sent == IF result.send = "none" THEN alert ELSE result.send
             comesUp == alert = "down" /\ last.kind = "ok"
         IN /\ result.entry \in Entry
            /\ result.send = IF comesUp THEN "up" ELSE "none"
            /\ Means(result.entry, [kind |-> "ok", before |-> before], sent)
<1> DEFINE ok == [kind |-> "ok", before |-> before]
<1>1. ok.kind = "ok" /\ ok.before = before
  OBVIOUS
<1>2. /\ Fresh \in Entry /\ Fresh.failStreak = 0 /\ Fresh.okStreak = 0
      /\ Fresh.hasOpenDown = FALSE
  BY DEF Fresh, Entry
<1>3. CASE ~h.hasOpenDown
  <2>1. AfterOk(h) = [entry |-> Fresh, send |-> "none"] /\ alert # "down"
    BY <1>3 DEF AfterOk, Means
  <2> HIDE DEF ok
  <2>2. Means(Fresh, ok, alert)
    BY <1>1, <1>2, <2>1 DEF Means
  <2> QED
    BY <1>2, <2>1, <2>2 DEF ok
<1>4. CASE h.hasOpenDown /\ h.okStreak = 0
  <2> DEFINE more == [h EXCEPT !.failStreak = 0, !.okStreak = 1]
  <2>1. AfterOk(h) = [entry |-> more, send |-> "none"]
    BY <1>4 DEF AfterOk
  <2>2. /\ more \in Entry /\ more.failStreak = 0 /\ more.okStreak = 1
        /\ more.hasOpenDown = h.hasOpenDown
    BY OkEntry
  <2>3. alert = "down" /\ last.kind # "ok"
    BY <1>4 DEF Means
  <2> HIDE DEF ok, more
  <2>4. Means(more, ok, alert)
    BY <1>1, <1>4, <2>2, <2>3 DEF Means
  <2> QED
    BY <2>1, <2>2, <2>3, <2>4 DEF ok
<1>5. CASE h.hasOpenDown /\ h.okStreak = 1
  <2>1. AfterOk(h) = [entry |-> Fresh, send |-> "up"]
    BY <1>5 DEF AfterOk
  <2>2. alert = "down" /\ last.kind = "ok"
    BY <1>5 DEF Means
  <2> HIDE DEF ok
  <2>3. Means(Fresh, ok, "up")
    BY <1>1, <1>2 DEF Means
  <2> QED
    BY <1>2, <2>1, <2>2, <2>3 DEF ok
<1> QED
  BY <1>3, <1>4, <1>5, EntryFields

Rows ==
  [life : {"unused", "live", "deleted"}, enable : BOOLEAN, status : Statuses,
   address : Addresses]

LEMMA FreshFacts ==
  /\ Fresh \in Entry /\ Nothing \in Latest
  /\ Means(Fresh, Nothing, "none")
<1>1. Fresh \in Entry
  BY DEF Fresh, Entry
<1>2. Nothing \in Latest
  BY DEF Nothing, Latest, Statuses
<1>3. Means(Fresh, Nothing, "none")
  BY DEF Means, Fresh, Nothing
<1> QED
  BY <1>1, <1>2, <1>3

LEMMA InitHealthInv == Init => HealthInv
<1> SUFFICES ASSUME Init PROVE HealthInv
  OBVIOUS
<1>1. /\ row \in [Nodes -> Rows] /\ edited \in [Nodes -> Addresses]
      /\ reach \in [Nodes -> BOOLEAN]
  BY DEF Init, Rows, Statuses
<1>2. check \in [Checkers -> CheckState]
  BY DEF Init
<1>3. /\ hyst \in [Nodes -> Entry] /\ latest \in [Nodes -> Latest]
      /\ alarm \in [Nodes -> {"none", "down", "up"}] /\ from \in [Nodes -> Statuses]
  BY FreshFacts DEF Init, Statuses
<1>4. faults \in Nat /\ faults <= MaxFaults
  BY HealthAssumption DEF Init
<1>5. \A n \in Nodes : Means(hyst[n], latest[n], alarm[n])
  BY FreshFacts DEF Init
<1> QED
  BY <1>1, <1>2, <1>3, <1>4, <1>5, MeansCounters
     DEF HealthInv, TypeOK, Rows, Entry, Latest

\* A step of CheckNodeHealth that counts nothing, and every step of the admins, the
\* worker and the database, leaves the entries and the log alone.
LEMMA QuietKeepsCounters ==
  ASSUME HealthInv, UNCHANGED <<hyst, latest, alarm, from>>
  PROVE  CountersMeanChecks'
BY DEF HealthInv, CountersMeanChecks

LEMMA ResetKeepsCounters ==
  ASSUME HealthInv, NEW S \in SUBSET Nodes, Reset(S)
  PROVE  /\ CountersMeanChecks'
         /\ hyst' \in [Nodes -> Entry] /\ latest' \in [Nodes -> Latest]
         /\ alarm' \in [Nodes -> {"none", "down", "up"}] /\ from' = from
<1>1. /\ hyst \in [Nodes -> Entry] /\ latest \in [Nodes -> Latest]
      /\ alarm \in [Nodes -> {"none", "down", "up"}]
  BY DEF HealthInv, TypeOK, Entry, Latest
<1>2. \A n \in Nodes : Means(hyst[n], latest[n], alarm[n])
  BY MeansCounters DEF HealthInv
<1>3. \A n \in Nodes : Means(hyst'[n], latest'[n], alarm'[n])
  BY <1>2, FreshFacts DEF Reset
<1>4. CountersMeanChecks'
  BY <1>3 DEF CountersMeanChecks, Means
<1> QED
  BY <1>1, <1>4, FreshFacts DEF Reset

\* The invariant from its parts, for a step that keeps the entries and the log ...
LEMMA QuietStep ==
  ASSUME HealthInv, UNCHANGED <<hyst, latest, alarm, from>>,
         row' \in [Nodes -> Rows], edited' \in [Nodes -> Addresses],
         check' \in [Checkers -> CheckState], reach' \in [Nodes -> BOOLEAN],
         faults' \in Nat, faults' <= MaxFaults
  PROVE  HealthInv'
BY QuietKeepsCounters DEF HealthInv, TypeOK, Rows

\* ... and for one that resets some.
LEMMA ResetStep ==
  ASSUME HealthInv, NEW S \in SUBSET Nodes, Reset(S),
         row' \in [Nodes -> Rows], edited' = edited,
         check' \in [Checkers -> CheckState], reach' = reach,
         faults' \in Nat, faults' <= MaxFaults
  PROVE  HealthInv'
<1>1. /\ CountersMeanChecks'
      /\ hyst' \in [Nodes -> Entry] /\ latest' \in [Nodes -> Latest]
      /\ alarm' \in [Nodes -> {"none", "down", "up"}] /\ from' = from
  BY ResetKeepsCounters
<1> QED
  BY <1>1 DEF HealthInv, TypeOK, Rows, Entry, Latest

LEMMA TypeFacts ==
  ASSUME HealthInv
  PROVE  /\ row \in [Nodes -> Rows] /\ edited \in [Nodes -> Addresses]
         /\ check \in [Checkers -> CheckState] /\ reach \in [Nodes -> BOOLEAN]
         /\ faults \in Nat /\ faults <= MaxFaults
         /\ hyst \in [Nodes -> Entry] /\ latest \in [Nodes -> Latest]
         /\ alarm \in [Nodes -> {"none", "down", "up"}] /\ from \in [Nodes -> Statuses]
BY DEF HealthInv, TypeOK, Rows, Entry, Latest

LEMMA BeginStep ==
  ASSUME HealthInv, NEW c \in Checkers, NEW n \in Nodes,
         JobBegin(c, n) \/ CheckNodeBegin(c, n)
  PROVE  HealthInv'
<1>1. UNCHANGED <<row, edited, hyst, reach, faults, latest, alarm, from>>
  BY DEF JobBegin, CheckNodeBegin
<1>2. row[n] \in Rows /\ check \in [Checkers -> CheckState]
  BY TypeFacts
<1>3. PICK p \in {"probe", "reset"} : Started(c, n, row[n], p, FALSE)
  BY DEF JobBegin, CheckNodeBegin
<1>4. check' \in [Checkers -> CheckState]
  BY <1>2, <1>3 DEF Started, CheckState, Rows
<1> QED
  BY <1>1, <1>4, QuietStep, TypeFacts

LEMMA AddNodeStep ==
  ASSUME HealthInv, NEW c \in Checkers, NEW n \in Nodes, NEW a \in Addresses,
         AddNodeBegin(c, n, a)
  PROVE  HealthInv'
<1> DEFINE r == [life |-> "live", enable |-> TRUE, status |-> "unknown", address |-> a]
<1>1. r \in Rows /\ r.status \in Statuses /\ r.address \in Addresses
  BY DEF Rows, Statuses
<1>2. /\ row' = [row EXCEPT ![n] = r] /\ Started(c, n, r, "probe", TRUE)
      /\ edited' = [edited EXCEPT ![n] = a]
      /\ UNCHANGED <<hyst, reach, faults, latest, alarm, from>>
  BY DEF AddNodeBegin
<1> HIDE DEF r
<1>3. check' \in [Checkers -> CheckState]
  BY <1>1, <1>2, TypeFacts DEF Started, CheckState
<1>4. row' \in [Nodes -> Rows] /\ edited' \in [Nodes -> Addresses]
  BY <1>1, <1>2, TypeFacts
<1> QED
  BY <1>2, <1>3, <1>4, QuietStep, TypeFacts

\* What a check carries, and its checker back at rest.
LEMMA CheckFacts ==
  ASSUME HealthInv, NEW c \in Checkers
  PROVE  /\ check[c] \in CheckState /\ check[c].node \in Nodes
         /\ check[c].before \in Statuses /\ check[c].address \in Addresses
         /\ \A p \in {"idle", "probe", "reset", "save", "count", "undo"} :
              [check EXCEPT ![c].phase = p] \in [Checkers -> CheckState]
BY TypeFacts DEF CheckState

LEMMA ProbeStep ==
  ASSUME HealthInv, NEW c \in Checkers, Probe(c)
  PROVE  HealthInv'
<1>1. UNCHANGED <<row, edited, hyst, reach, faults, latest, alarm, from>>
  BY DEF Probe
<1>2. reach[check[c].node] \in BOOLEAN
  BY CheckFacts, TypeFacts
<1>3. check' \in [Checkers -> CheckState]
  <2> DEFINE b == reach[check[c].node]
             next == [check[c] EXCEPT !.phase = "save", !.ok = b]
  <2>1. check' = [check EXCEPT ![c].phase = "save", ![c].ok = b]
    BY DEF Probe
  <2> HIDE DEF b
  <2>2. check' = [check EXCEPT ![c] = next]
    BY <2>1, TypeFacts
  <2>3. b \in BOOLEAN /\ check[c] \in CheckState
    BY <1>2, CheckFacts DEF b
  <2>4. next \in CheckState
    BY <2>3 DEF CheckState
  <2> HIDE DEF next
  <2> QED
    BY <2>2, <2>4, TypeFacts
<1> QED
  BY <1>1, <1>3, QuietStep, TypeFacts

LEMMA SaveStep ==
  ASSUME HealthInv, NEW c \in Checkers, Save(c)
  PROVE  HealthInv'
<1>1. UNCHANGED <<edited, hyst, reach, latest, alarm, from>>
  BY DEF Save
<1>2. check' \in [Checkers -> CheckState]
  <2>1. PICK p \in {"idle", "count", "undo"} : check' = [check EXCEPT ![c].phase = p]
    BY DEF Save, SaveFailed, AfterError
  <2>2. [check EXCEPT ![c].phase = p] \in [Checkers -> CheckState]
    BY CheckFacts
  <2> QED
    BY <2>1, <2>2
<1>3. Written(check[c]) \in [Nodes -> Rows]
  <2> DEFINE k == check[c]
             s == IF k.ok THEN "online" ELSE "error"
  <2>1. k.node \in Nodes /\ k.address \in Addresses /\ s \in Statuses
    BY CheckFacts DEF Statuses
  <2>2. Written(k) = [row EXCEPT ![k.node].status = s, ![k.node].address = k.address]
    BY DEF Written
  <2> HIDE DEF k, s
  <2>3. \A r \in Rows : [r EXCEPT !.status = s, !.address = k.address] \in Rows
    BY <2>1 DEF Rows
  <2>4. Written(k) = [row EXCEPT ![k.node] =
                       [row[k.node] EXCEPT !.status = s, !.address = k.address]]
    BY <2>1, <2>2, TypeFacts
  <2>5. Written(k) \in [Nodes -> Rows]
    <3> DEFINE v == [row[k.node] EXCEPT !.status = s, !.address = k.address]
    <3>1. v \in Rows
      BY <2>1, <2>3, TypeFacts
    <3>2. Written(k) = [row EXCEPT ![k.node] = v]
      BY <2>4
    <3> HIDE DEF v
    <3> QED
      BY <2>1, <3>1, <3>2, TypeFacts
  <2> QED
    BY <2>5 DEF k
<1>4. row' \in [Nodes -> Rows]
  BY <1>3, TypeFacts DEF Save, SaveFailed
<1>5. faults' = faults \/ (faults < MaxFaults /\ faults' = faults + 1)
  BY DEF Save
<1>6. faults' \in Nat /\ faults' <= MaxFaults
  <2>1. faults \in Nat /\ faults <= MaxFaults /\ MaxFaults \in Nat
    BY HealthAssumption DEF HealthInv, TypeOK
  <2>2. CASE faults' = faults
    BY <2>1, <2>2
  <2>3. CASE faults < MaxFaults /\ faults' = faults + 1
    BY <2>1, <2>3
  <2> QED
    BY <1>5, <2>2, <2>3
<1> QED
  BY <1>1, <1>2, <1>4, <1>6, QuietStep, TypeFacts

\* A result is counted: the step is the promised check of the node.
LEMMA CountedStep ==
  ASSUME HealthInv, NEW c \in Checkers, NEW entry \in Entry, NEW outcome \in Latest,
         NEW send \in {"none", "down", "up"}, NEW phase \in {"idle", "undo"},
         Counted(c, entry, outcome, send, phase),
         Means(entry, outcome, IF send = "none" THEN alarm[check[c].node] ELSE send),
         from' \in [Nodes -> Statuses]
  PROVE  HealthInv'
<1> DEFINE n == check[c].node
<1>1. n \in Nodes /\ [check EXCEPT ![c].phase = phase] \in [Checkers -> CheckState]
  BY CheckFacts
<1>2. /\ hyst' = [hyst EXCEPT ![n] = entry] /\ latest' = [latest EXCEPT ![n] = outcome]
      /\ alarm' = IF send = "none" THEN alarm ELSE [alarm EXCEPT ![n] = send]
      /\ check' = [check EXCEPT ![c].phase = phase]
      /\ UNCHANGED <<row, edited, reach, faults>>
  BY DEF Counted
<1> HIDE DEF n
<1>3. /\ hyst' \in [Nodes -> Entry] /\ latest' \in [Nodes -> Latest]
      /\ alarm' \in [Nodes -> {"none", "down", "up"}]
  BY <1>1, <1>2, TypeFacts
<1>4. Means(hyst'[n], latest'[n], alarm'[n])
  <2>1. /\ hyst'[n] = entry /\ latest'[n] = outcome
        /\ alarm'[n] = IF send = "none" THEN alarm[n] ELSE send
    BY <1>1, <1>2, TypeFacts
  <2> QED
    BY <2>1 DEF n
<1>5. \A m \in Nodes \ {n} : Means(hyst'[m], latest'[m], alarm'[m])
  <2>1. \A m \in Nodes : Means(hyst[m], latest[m], alarm[m])
    BY MeansCounters DEF HealthInv
  <2>2. \A m \in Nodes \ {n} :
          hyst'[m] = hyst[m] /\ latest'[m] = latest[m] /\ alarm'[m] = alarm[m]
    BY <1>1, <1>2, TypeFacts
  <2> QED
    BY <2>1, <2>2
<1>6. CountersMeanChecks'
  BY <1>4, <1>5 DEF CountersMeanChecks, Means
<1> QED
  BY <1>1, <1>2, <1>3, <1>6, TypeFacts DEF HealthInv, TypeOK, Rows, Entry, Latest

\* A counted failure keeps the invariant and is a promised check.
LEMMA CountFailStep ==
  ASSUME HealthInv, NEW c \in Checkers, CountFail(c)
  PROVE  HealthInv' /\ [Alerts!Next]_(Alerts!vars)
<1> DEFINE n == check[c].node
           before == check[c].before
           result == AfterFail(hyst[n], before)
           o == [kind |-> "fail", before |-> before]
           goesDown == alarm[n] # "down" /\ latest[n].kind = "fail"
<1>1. n \in Nodes /\ before \in Statuses
  BY CheckFacts
<1>2. /\ Counted(c, result.entry, o, result.send, AfterError(c))
      /\ from' = IF result.send = "down" THEN [from EXCEPT ![n] = result.from] ELSE from
  BY DEF CountFail
<1>3. AfterError(c) \in {"idle", "undo"}
  BY DEF AfterError
<1>4. /\ hyst[n] \in Entry /\ latest[n] \in Latest /\ alarm[n] \in {"none", "down", "up"}
      /\ Means(hyst[n], latest[n], alarm[n])
  BY <1>1, TypeFacts, MeansCounters DEF HealthInv
<1>5. /\ result.entry \in Entry
      /\ result.send = IF goesDown THEN "down" ELSE "none"
      /\ goesDown => result.from = latest[n].before
      /\ Means(result.entry, o, IF result.send = "none" THEN alarm[n] ELSE result.send)
  <2> HIDE DEF n, before
  <2> QED
    BY <1>1, <1>4, AfterFailFacts
<1>6. o \in Latest /\ o \in Alerts!Outcome /\ o.kind = "fail" /\ latest[n].before \in Statuses
  BY <1>1, <1>4 DEF Latest, Alerts!Outcome
<1> HIDE DEF result, o, before
<1>7. from' = IF goesDown THEN [from EXCEPT ![n] = latest[n].before] ELSE from
  BY <1>2, <1>5
<1>8. from' \in [Nodes -> Statuses]
  BY <1>1, <1>6, <1>7, TypeFacts
<1>9. HealthInv'
  <2>1. result.send \in {"none", "down", "up"}
    BY <1>5
  <2> QED
    BY <1>2, <1>3, <1>5, <1>6, <1>8, <2>1, CountedStep
<1>10. /\ latest' = [latest EXCEPT ![n] = o]
       /\ alarm' = IF goesDown THEN [alarm EXCEPT ![n] = "down"] ELSE alarm
  BY <1>2, <1>5 DEF Counted
<1> HIDE DEF n
<1>11. Alerts!Check(n, o)
  BY <1>6, <1>7, <1>10
     DEF Alerts!Check, Alerts!GoesDown, Alerts!ComesUp
<1> QED
  BY <1>1, <1>6, <1>9, <1>11 DEF Alerts!Next

\* So does a counted success.
LEMMA CountOkStep ==
  ASSUME HealthInv, NEW c \in Checkers, CountOk(c)
  PROVE  HealthInv' /\ [Alerts!Next]_(Alerts!vars)
<1> DEFINE n == check[c].node
           before == check[c].before
           result == AfterOk(hyst[n])
           o == [kind |-> "ok", before |-> before]
           comesUp == alarm[n] = "down" /\ latest[n].kind = "ok"
<1>1. n \in Nodes /\ before \in Statuses
  BY CheckFacts
<1>2. Counted(c, result.entry, o, result.send, "idle") /\ from' = from
  BY DEF CountOk
<1>3. /\ hyst[n] \in Entry /\ latest[n] \in Latest /\ alarm[n] \in {"none", "down", "up"}
      /\ Means(hyst[n], latest[n], alarm[n])
  BY <1>1, TypeFacts, MeansCounters DEF HealthInv
<1>4. /\ result.entry \in Entry
      /\ result.send = IF comesUp THEN "up" ELSE "none"
      /\ Means(result.entry, o, IF result.send = "none" THEN alarm[n] ELSE result.send)
  <2> HIDE DEF n, before
  <2> QED
    BY <1>1, <1>3, AfterOkFacts
<1>5. o \in Latest /\ o \in Alerts!Outcome /\ o.kind = "ok"
  BY <1>1 DEF Latest, Alerts!Outcome
<1> HIDE DEF result, o, before
<1>6. HealthInv'
  <2>1. result.send \in {"none", "down", "up"} /\ from' \in [Nodes -> Statuses]
    BY <1>2, <1>4, TypeFacts
  <2> QED
    BY <1>2, <1>4, <1>5, <2>1, CountedStep
<1>7. /\ latest' = [latest EXCEPT ![n] = o]
      /\ alarm' = IF comesUp THEN [alarm EXCEPT ![n] = "up"] ELSE alarm
  BY <1>2, <1>4 DEF Counted
<1> HIDE DEF n
<1>8. Alerts!Check(n, o)
  BY <1>2, <1>5, <1>7 DEF Alerts!Check, Alerts!GoesDown, Alerts!ComesUp
<1> QED
  BY <1>1, <1>5, <1>6, <1>8 DEF Alerts!Next

\* Resetting entries is the promised forgetting.
LEMMA ResetForgets ==
  ASSUME NEW S \in SUBSET Nodes, Reset(S)
  PROVE  [Alerts!Next]_(Alerts!vars)
<1>1. Alerts!Forget(S)
  BY DEF Reset, Alerts!Forget, Nothing, Alerts!Nothing
<1> QED
  BY <1>1 DEF Alerts!Next

LEMMA DisabledStep ==
  ASSUME HealthInv, NEW c \in Checkers, CheckDisabled(c)
  PROVE  HealthInv' /\ [Alerts!Next]_(Alerts!vars)
<1>1. {check[c].node} \in SUBSET Nodes /\ check' \in [Checkers -> CheckState]
  BY CheckFacts DEF CheckDisabled
<1>2. Reset({check[c].node}) /\ UNCHANGED <<row, edited, reach, faults>>
  BY DEF CheckDisabled
<1> QED
  BY <1>1, <1>2, ResetStep, ResetForgets, TypeFacts

LEMMA DeletedRow ==
  ASSUME HealthInv, NEW n \in Nodes
  PROVE  [row EXCEPT ![n].life = "deleted"] \in [Nodes -> Rows]
<1> DEFINE v == [row[n] EXCEPT !.life = "deleted"]
<1>1. v \in Rows
  <2>1. \A r \in Rows : [r EXCEPT !.life = "deleted"] \in Rows
    BY DEF Rows
  <2> QED
    BY <2>1, TypeFacts
<1>2. [row EXCEPT ![n].life = "deleted"] = [row EXCEPT ![n] = v]
  OBVIOUS
<1> HIDE DEF v
<1> QED
  BY <1>1, <1>2, TypeFacts

LEMMA DeleteStep ==
  ASSUME HealthInv, (\E n \in Nodes : DeleteNode(n)) \/ (\E c \in Checkers : UndoAdd(c))
  PROVE  HealthInv' /\ [Alerts!Next]_(Alerts!vars)
<1>1. UNCHANGED <<edited, reach, faults>> /\ check' \in [Checkers -> CheckState]
  <2>1. CASE \E n \in Nodes : DeleteNode(n)
    BY <2>1, TypeFacts DEF DeleteNode
  <2>2. CASE \E c \in Checkers : UndoAdd(c)
    <3>1. PICK c \in Checkers : UndoAdd(c)
      BY <2>2
    <3>2. [check EXCEPT ![c].phase = "idle"] \in [Checkers -> CheckState]
      BY CheckFacts
    <3> QED
      BY <3>1, <3>2 DEF UndoAdd
  <2> QED
    BY <2>1, <2>2
<1>2. PICK n \in Nodes : DeleteRow(n)
  BY CheckFacts DEF DeleteNode, UndoAdd
<1>3. row' \in [Nodes -> Rows] /\ Reset({n})
  BY <1>2, DeletedRow DEF DeleteRow
<1> QED
  BY <1>1, <1>3, ResetStep, ResetForgets, TypeFacts

LEMMA RestartStep ==
  ASSUME HealthInv, PanelRestart
  PROVE  HealthInv' /\ [Alerts!Next]_(Alerts!vars)
<1>1. Reset(Nodes) /\ UNCHANGED <<row, edited, reach>>
  BY DEF PanelRestart
<1>2. check' \in [Checkers -> CheckState]
  <2>1. \A k \in CheckState : [k EXCEPT !.phase = "idle"] \in CheckState
    BY DEF CheckState
  <2>2. check' = [c \in Checkers |-> [check[c] EXCEPT !.phase = "idle"]]
    BY DEF PanelRestart
  <2>3. \A c \in Checkers : check[c] \in CheckState
    BY TypeFacts
  <2>4. \A c \in Checkers : [check[c] EXCEPT !.phase = "idle"] \in CheckState
    BY <2>1, <2>3
  <2> QED
    BY <2>2, <2>4
<1>3. faults' \in Nat /\ faults' <= MaxFaults
  <2>1. faults \in Nat /\ MaxFaults \in Nat /\ faults < MaxFaults /\ faults' = faults + 1
    BY HealthAssumption DEF HealthInv, TypeOK, PanelRestart
  <2> QED
    BY <2>1
<1> QED
  BY <1>1, <1>2, <1>3, ResetStep, ResetForgets, TypeFacts

LEMMA AdminStep ==
  ASSUME HealthInv, NEW n \in Nodes, NEW a \in Addresses, NEW enable \in BOOLEAN,
         EditNode(n, a) \/ SetNodeEnabled(n, enable) \/ WorkerFlips(n)
  PROVE  HealthInv'
<1>1. UNCHANGED <<hyst, check, faults, latest, alarm, from>>
  BY DEF EditNode, SetNodeEnabled, WorkerFlips
<1>2. edited' \in [Nodes -> Addresses] /\ reach' \in [Nodes -> BOOLEAN]
  BY TypeFacts DEF EditNode, SetNodeEnabled, WorkerFlips
<1>3. \E v \in Rows : row' = row \/ row' = [row EXCEPT ![n] = v]
  <2>1. \A r \in Rows : /\ [r EXCEPT !.address = a] \in Rows
                        /\ [r EXCEPT !.enable = enable] \in Rows
    BY DEF Rows
  <2>2. \/ row' = row \/ row' = [row EXCEPT ![n] = [row[n] EXCEPT !.address = a]]
        \/ row' = [row EXCEPT ![n] = [row[n] EXCEPT !.enable = enable]]
    BY DEF EditNode, SetNodeEnabled, WorkerFlips
  <2>3. row[n] \in Rows
    BY TypeFacts
  <2>4. CASE row' = row
    BY <2>3, <2>4
  <2>5. CASE row' = [row EXCEPT ![n] = [row[n] EXCEPT !.address = a]]
    <3>1. [row[n] EXCEPT !.address = a] \in Rows
      BY <2>1, <2>3
    <3> QED
      BY <2>5, <3>1
  <2>6. CASE row' = [row EXCEPT ![n] = [row[n] EXCEPT !.enable = enable]]
    <3>1. [row[n] EXCEPT !.enable = enable] \in Rows
      BY <2>1, <2>3
    <3> QED
      BY <2>6, <3>1
  <2> QED
    BY <2>2, <2>4, <2>5, <2>6
<1>4. row' \in [Nodes -> Rows]
  BY <1>3, TypeFacts
<1> QED
  BY <1>1, <1>2, <1>4, QuietStep, TypeFacts

\* Steps that count and forget nothing are stutters of the alerts.
LEMMA QuietStutters ==
  ASSUME UNCHANGED <<latest, alarm, from>>
  PROVE  [Alerts!Next]_(Alerts!vars)
BY DEF Alerts!vars

LEMMA NextHealthInv ==
  ASSUME HealthInv, [Next]_vars
  PROVE  HealthInv' /\ [Alerts!Next]_(Alerts!vars)
<1>1. CASE \E c \in Checkers, n \in Nodes : JobBegin(c, n) \/ CheckNodeBegin(c, n)
  BY <1>1, BeginStep, QuietStutters DEF JobBegin, CheckNodeBegin
<1>2. CASE \E c \in Checkers, n \in Nodes, a \in Addresses : AddNodeBegin(c, n, a)
  BY <1>2, AddNodeStep, QuietStutters DEF AddNodeBegin
<1>3. CASE \E c \in Checkers : Continue(c)
  <2>1. PICK c \in Checkers : Continue(c)
    BY <1>3
  <2>2. CASE CheckDisabled(c)
    BY <2>2, DisabledStep
  <2>3. CASE Probe(c)
    BY <2>3, ProbeStep, QuietStutters DEF Probe
  <2>4. CASE Save(c)
    BY <2>4, SaveStep, QuietStutters DEF Save
  <2>5. CASE CountFail(c)
    BY <2>5, CountFailStep
  <2>6. CASE CountOk(c)
    BY <2>6, CountOkStep
  <2>7. CASE UndoAdd(c)
    BY <2>7, DeleteStep
  <2> QED
    BY <2>1, <2>2, <2>3, <2>4, <2>5, <2>6, <2>7 DEF Continue
<1>4. CASE \E n \in Nodes : DeleteNode(n)
  BY <1>4, DeleteStep
<1>5. CASE \E n \in Nodes : WorkerFlips(n)
  <2>1. PICK n \in Nodes : WorkerFlips(n)
    BY <1>5
  <2>2. HealthInv'
    BY <2>1, AdminStep, HealthAssumption
  <2> QED
    BY <2>1, <2>2, QuietStutters DEF WorkerFlips
<1>6. CASE \E n \in Nodes, a \in Addresses : EditNode(n, a)
  BY <1>6, AdminStep, QuietStutters DEF EditNode
<1>7. CASE \E n \in Nodes, enable \in BOOLEAN : SetNodeEnabled(n, enable)
  <2>1. PICK n \in Nodes, enable \in BOOLEAN : SetNodeEnabled(n, enable)
    BY <1>7
  <2>2. HealthInv'
    BY <2>1, AdminStep, HealthAssumption
  <2> QED
    BY <2>1, <2>2, QuietStutters DEF SetNodeEnabled
<1>8. CASE PanelRestart
  BY <1>8, RestartStep
<1>9. CASE UNCHANGED vars
  <2>1. UNCHANGED <<row, edited, hyst, check, reach, faults, latest, alarm, from>>
    BY <1>9 DEF vars
  <2> QED
    BY <2>1, QuietStep, TypeFacts, QuietStutters
<1> QED
  BY <1>1, <1>2, <1>3, <1>4, <1>5, <1>6, <1>7, <1>8, <1>9 DEF Next

\* Whatever checks, edits, deletions and restarts overlap, the counters of every node
\* mean its last check and its last alert.
THEOREM HealthInvariant == Spec => []HealthInv
<1>1. HealthInv /\ [Next]_vars => HealthInv'
  BY NextHealthInv
<1> QED
  BY <1>1, InitHealthInv, PTL DEF Spec

\* The types of the panel's rows, checks and counters (TypeOK).
THEOREM HealthTypes == Spec => []TypeOK
<1>1. HealthInv => TypeOK
  BY DEF HealthInv
<1> QED
  BY <1>1, HealthInvariant, PTL

\* The meaning of failStreak, okStreak, hasOpenDown and firstFailFrom.
THEOREM CountersStayRight == Spec => []CountersMeanChecks
<1>1. HealthInv => CountersMeanChecks
  BY DEF HealthInv
<1> QED
  BY <1>1, HealthInvariant, PTL

\* nodeHealthTgHysteresisAfterCheck, as CheckNodeHealth calls it, sends exactly the
\* alerts its header comment promises.
THEOREM AlertsImplemented == Spec => AlertsAsPromised
<1>1. Init => Alerts!Init
  BY DEF Init, Alerts!Init, Nothing, Alerts!Nothing
<1>2. HealthInv /\ [Next]_vars => [Alerts!Next]_(Alerts!vars)
  BY NextHealthInv
<1> QED
  BY <1>1, <1>2, HealthInvariant, PTL DEF Spec, Alerts!Spec, AlertsAsPromised
=============================================================================
