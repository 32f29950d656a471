--------------------------- MODULE RemoteClients ---------------------------
(***************************************************************************)
(* A client in multi-node mode (web/service/client.go, node.go).  As in    *)
(* Clients, whoever changes the client's row then rebuilds the settings of *)
(* its inbounds.  What serves it are workers: handlers add it to or remove *)
(* it from an inbound on every worker of that inbound, and each rebuild    *)
(* sends them the whole inbound, all of it from goroutines in no order and *)
(* before the settings are saved.  A full push (Fleet) sends the settings. *)
(* A quota is a bit here: row.full says that the usage has reached it.     *)
(***************************************************************************)
EXTENDS Naturals

CONSTANTS Inbounds, Nodes,
          At,          \* inbound_node_mappings: the workers of each inbound
          Requests,    \* goroutines of the administrators' requests
          Disablers,   \* goroutines of DisableClientsByEmail
          Budgets      \* bounds: the edits (requests that change the client), ticks
                       \* (runs that charge it), full pushes and faults (calls that
                       \* get lost, settings that cannot be saved) of a behaviour

VARIABLES
  row,        \* the client in table clients
  on,         \* its inbounds
  settings,   \* the inbounds whose settings list it
  conf,       \* the inbounds in which each worker serves it
  calls,      \* requests on their way to workers
  tick,       \* CollectNodeStats: the row as AddClientTraffic has read it
  work,       \* the goroutines
  left,       \* what is left of the budget
  unsaved,    \* ghost: settings that are out of date for a reason on record
  behind,     \* ghost: what a worker is out of date with
  lost        \* ghost: a row was saved over another change

vars == <<row, on, settings, conf, calls, tick, work, left, unsaved, behind, lost>>
ghosts == <<unsaved, behind, lost>>

Workers == Requests \cup Disablers
Row == [enable : BOOLEAN, status : {"none", "active", "expired"}, full : BOOLEAN]
Absent == [enable |-> FALSE, status |-> "none", full |-> FALSE]
Fresh == [enable |-> TRUE, status |-> "active", full |-> FALSE]
NoWork == [pc |-> "idle", then |-> "next", old |-> Absent, seen |-> <<Absent, {}>>,
           todo |-> {}, at |-> {}, give |-> {}, passed |-> {}]

\* The inbounds whose settings are to list the client, by the rows.
Listed == IF row.enable /\ row.status = "active" THEN on ELSE {}
Here == <<row, on>>

\* The row lock is free.
Unlocked == \A w \in Workers : work[w].then # "bulk"

\* No client yet, or one that everybody knows of.
Init ==
  /\ \/ row = Absent /\ on = {}
     \/ row = Fresh /\ on \in SUBSET Inbounds
  /\ settings = on
  /\ conf = [n \in Nodes |-> {i \in on : n \in At[i]}]
  /\ calls = {} /\ tick = Absent
  /\ work = [w \in Workers |-> NoWork]
  /\ left \in Budgets /\ unsaved = {} /\ behind = {} /\ lost = FALSE

Spend(what) == left[what] > 0 /\ left' = [left EXCEPT ![what] = @ - 1]
Pairs(I) == {p \in Nodes \X Inbounds : p[2] \in I /\ p[1] \in At[p[2]]}

---------------------------------------------------------------------------
(* Calls.  `stale` holds the inbounds about which the call is not the last *)
(* word: another one was made later, or the rows it is from have changed.  *)
(* Calls that are equal count as one.                                      *)

Call(n, I, give, stale) == [node |-> n, of |-> I, give |-> give, stale |-> stale]

\* One goroutine per worker of each inbound in I.
ToWorkers(I, give, stale) ==
  {Call(p[1], {p[2]}, give \cap {p[2]}, stale \cap {p[2]}) : p \in Pairs(I)}

AgedBy(P) ==
  {[c EXCEPT !.stale = @ \cup {i \in c.of : <<c.node, i>> \in P}] : c \in calls}

Told(cs) == AgedBy(UNION {{c.node} \X c.of : c \in cs}) \cup cs

Deliver(c) ==
  LET old == {c.node} \X c.stale
  IN /\ calls' = calls \ {c}
     /\ conf' = [conf EXCEPT ![c.node] = (@ \ c.of) \cup c.give]
     /\ behind' = (behind \ ({c.node} \X c.of)) \cup old
     /\ UNCHANGED <<row, on, settings, tick, work, left, unsaved, lost>>

\* The worker does not answer, or its core does not run; nobody repeats it.
Lose(c) ==
  /\ Spend("faults") /\ calls' = calls \ {c}
  /\ behind' = behind \cup ({c.node} \X c.of)
  /\ UNCHANGED <<row, on, settings, conf, tick, work, unsaved, lost>>

\* A full configuration from the settings.  Settings that a goroutine is about
\* to save are not in it.
PushNode(n) ==
  LET I == {i \in Inbounds : n \in At[i]}
  IN /\ Spend("pushes")
     /\ calls' = Told({Call(n, I, settings \cap I, unsaved \cap I)})
     /\ work' = [w \in Workers |->
                   IF work[w].pc = "save" /\ n \in UNION {At[i] : i \in work[w].at}
                   THEN [work[w] EXCEPT !.passed = @ \cup {n}] ELSE work[w]]
     /\ UNCHANGED <<row, on, settings, conf, tick, ghosts>>

\* The rows of the inbounds in I have changed, and nobody rebuilds them.
Abandon(I) ==
  /\ unsaved' = unsaved \cup I
  /\ behind' = behind \cup Pairs(I)

---------------------------------------------------------------------------
(* The rebuild of an inbound.                                              *)

Reading(w, i) ==
  [work[w] EXCEPT !.pc = "tell", !.todo = @ \ {i}, !.at = {i},
                  !.give = Listed \cap {i}, !.seen = Here]

ReadMembers(w) ==
  /\ work[w].pc \in {"next", "bulk"}
  /\ \E i \in work[w].todo : work' = [work EXCEPT ![w] = Reading(w, i)]
  /\ UNCHANGED <<row, on, settings, conf, calls, tick, left, ghosts>>

\* UpdateInbound: the workers are called first ...
TellWorkers(w) ==
  /\ work[w].pc = "tell"
  /\ calls' = Told(ToWorkers(work[w].at, work[w].give,
                             IF work[w].seen = Here THEN {} ELSE work[w].at))
  /\ work' = [work EXCEPT ![w].pc = "save"]
  /\ UNCHANGED <<row, on, settings, conf, tick, left, ghosts>>

Saved(w) == [NoWork EXCEPT !.pc = work[w].then, !.then = work[w].then, !.todo = work[w].todo]

\* ... then the inbound is saved, with the settings as they were read.
SaveInbound(w) ==
  LET late == work[w].passed \X work[w].at
  IN /\ work[w].pc = "save"
     /\ work' = [work EXCEPT ![w] = Saved(w)]
     /\ \/ /\ settings' = (settings \ work[w].at) \cup work[w].give
           /\ unsaved' = IF work[w].seen = Here THEN unsaved \ work[w].at
                         ELSE unsaved \cup work[w].at
           /\ UNCHANGED left
        \/ /\ Spend("faults") /\ unsaved' = unsaved \cup work[w].at /\ UNCHANGED settings
     /\ calls' = AgedBy(late) /\ behind' = behind \cup late
     /\ UNCHANGED <<row, on, conf, tick, lost>>

Finish(w) ==
  /\ work[w].pc \in {"next", "addeach"} /\ work[w].todo = {}
  /\ work' = [work EXCEPT ![w] = NoWork]
  /\ UNCHANGED <<row, on, settings, conf, calls, tick, left, ghosts>>

---------------------------------------------------------------------------
(* Statistics: the row is read, charged, marked and committed; then a      *)
(* goroutine takes the client away from one inbound.                       *)

TickRead ==
  /\ tick = Absent /\ row.status # "none"
  /\ Spend("ticks") /\ tick' = row
  /\ UNCHANGED <<row, on, settings, conf, calls, work, ghosts>>

\* DisableClientsByEmail gets the client's first inbound only.  (Mutant: none.)
CutNowhere(i) == [NoWork EXCEPT !.pc = "cut"]
Cut(i) == [NoWork EXCEPT !.pc = "cut", !.todo = {i}]

TickSave ==
  /\ tick # Absent /\ tick' = Absent /\ Unlocked
  /\ \E full \in {tick.full, TRUE} :   \* traffic may come in at any time
       LET r == [tick EXCEPT !.full = full,
                             !.status = IF full /\ tick.enable THEN "expired" ELSE @]
       IN /\ row' = r
          /\ IF r.status # tick.status /\ on # {}
             THEN \E w \in Disablers, i \in on :
                    /\ work[w] = NoWork
                    /\ work' = [work EXCEPT ![w] = Cut(i)]
                    /\ Abandon(on \ {i}) /\ calls' = AgedBy(Pairs(on \ {i}))
             ELSE UNCHANGED <<work, unsaved, behind, calls>>
  /\ lost' = (lost \/ row # tick)
  /\ UNCHANGED <<on, settings, conf, left>>

\* Removal from the workers, ...
CutCall(w) ==
  /\ work[w].pc = "cut"
  /\ calls' = Told(ToWorkers(work[w].todo, {}, work[w].todo \cap Listed))
  /\ work' = [work EXCEPT ![w].pc = "cutread"]
  /\ UNCHANGED <<row, on, settings, conf, tick, left, ghosts>>

\* ... the whole row read and saved again, and the rebuild.
CutRead(w) ==
  /\ work[w].pc = "cutread"
  /\ work' = [work EXCEPT ![w].old = row,
                          ![w].pc = IF row = Absent THEN "next" ELSE "cutsave"]
  /\ UNCHANGED <<row, on, settings, conf, calls, tick, left, ghosts>>

\* A client that has become full meanwhile leaves all its inbounds by that.
CutSave(w) ==
  LET old == work[w].old
      r == [old EXCEPT !.status = IF old.full THEN "expired" ELSE @]
      gone == IF r = old THEN {} ELSE Listed \ work[w].todo
  IN /\ work[w].pc = "cutsave" /\ Unlocked
     /\ row' = r
     /\ lost' = (lost \/ row # old)
     /\ work' = [work EXCEPT ![w].pc = "next", ![w].old = Absent]
     /\ Abandon(gone) /\ calls' = AgedBy(Pairs(gone))
     /\ UNCHANGED <<on, settings, conf, tick, left>>

---------------------------------------------------------------------------
(* Requests.                                                               *)

Idle(w) == w \in Requests /\ work[w] = NoWork
Edit(w) == Idle(w) /\ Spend("edits")
Become(w, x) == work' = [work EXCEPT ![w] = x]
\* The inbounds in I are to be rebuilt.  (Mutant: none.)
RebuildNothing(I) == [NoWork EXCEPT !.pc = "next"]
Rebuilding(I) == [NoWork EXCEPT !.pc = "next", !.todo = I]

AddClient(w) ==
  /\ Edit(w) /\ row.status = "none"
  /\ row' = Fresh
  /\ on' \in SUBSET Inbounds /\ Become(w, Rebuilding(on'))
  /\ UNCHANGED <<settings, conf, calls, tick, ghosts>>

\* A request or a page reads the row.
Open(w, pc) ==
  /\ Edit(w) /\ row.status # "none"
  /\ Become(w, [NoWork EXCEPT !.pc = pc, !.old = row])
  /\ UNCHANGED <<row, on, settings, conf, calls, tick, ghosts>>

\* UpdateClient: the switch or the quota, or the inbounds.
UpdateRow(w) ==
  LET old == work[w].old
  IN /\ work[w].pc = "update" /\ Unlocked
     /\ \E e \in BOOLEAN, f \in BOOLEAN, S \in SUBSET Inbounds :
          /\ S = on \/ (e = old.enable /\ f = row.full)
          /\ row' = IF row.status = "none" THEN row
                    ELSE [enable |-> e, full |-> f,
                          status |-> IF old.status = "expired" /\ e /\ ~f THEN "active"
                                     ELSE old.status]
          /\ on' = S /\ Become(w, Rebuilding(on \cup S))
     /\ lost' = (lost \/ row # old)
     /\ UNCHANGED <<settings, conf, calls, tick, left, unsaved, behind>>

\* ResetClientTraffic and BulkResetTraffic; who had expired is added again.
ResetRow(w) ==
  LET old == work[w].old
      was == old.status = "expired"
  IN /\ work[w].pc \in {"reset", "bulkreset"} /\ Unlocked
     /\ row' = IF row.status = "none" THEN row
               ELSE [row EXCEPT !.full = FALSE, !.status = IF was THEN "active" ELSE @]
     /\ Become(w, IF ~was \/ ~old.enable THEN NoWork
                  ELSE IF work[w].pc = "reset" THEN [NoWork EXCEPT !.pc = "add", !.todo = on]
                  ELSE [NoWork EXCEPT !.pc = "addeach", !.then = "addeach", !.todo = on])
     /\ lost' = (lost \/ row # old)
     /\ UNCHANGED <<on, settings, conf, calls, tick, left, unsaved, behind>>

\* AddUserToNode for every inbound, then the rebuilds ...
Adding(I) == Told(ToWorkers(I, I, I \ Listed))
ReAdd(w) ==
  /\ work[w].pc = "add"
  /\ calls' = Adding(work[w].todo) /\ Become(w, Rebuilding(work[w].todo))
  /\ UNCHANGED <<row, on, settings, conf, tick, left, ghosts>>

\* ... or, in bulk, both for one inbound after the other.
ReAddEach(w) ==
  /\ work[w].pc = "addeach"
  /\ \E i \in work[w].todo : calls' = Adding({i}) /\ Become(w, Reading(w, i))
  /\ UNCHANGED <<row, on, settings, conf, tick, left, ghosts>>

\* BulkEnable and DeleteClient leave the workers to the rebuilds.
BulkEnable(w) ==
  /\ Edit(w) /\ row.status # "none" /\ Unlocked
  /\ \E e \in BOOLEAN : row' = [row EXCEPT !.enable = e]
  /\ Become(w, Rebuilding(on))
  /\ UNCHANGED <<on, settings, conf, calls, tick, ghosts>>

DeleteClient(w) ==
  /\ Edit(w) /\ row.status # "none" /\ Unlocked
  /\ row' = Absent /\ on' = {} /\ Become(w, Rebuilding(on))
  /\ UNCHANGED <<settings, conf, calls, tick, ghosts>>

\* BulkDelete rebuilds before it commits: the client is still in what the
\* workers get and in the settings.
BulkDelete(w) ==
  /\ Edit(w) /\ row.status # "none" /\ Unlocked
  /\ Become(w, [NoWork EXCEPT !.pc = "bulk", !.then = "bulk", !.todo = on])
  /\ UNCHANGED <<row, on, settings, conf, calls, tick, ghosts>>

BulkCommit(w) ==
  /\ work[w].pc = "bulk" /\ work[w].todo = {}
  /\ row' = Absent /\ on' = {} /\ Become(w, NoWork)
  /\ Abandon(on) /\ calls' = AgedBy(Pairs(on))
  /\ UNCHANGED <<settings, conf, tick, left, lost>>

\* GetClients, for a page: who is over the quota in the rows it has read is
\* marked and removed from the workers; the settings are left as they are.
PageMark(w) ==
  LET old == work[w].old
  IN /\ work[w].pc = "page" /\ Unlocked /\ Become(w, NoWork)
     /\ IF old.full /\ old.status = "active" /\ row.status # "none"
        THEN /\ row' = [row EXCEPT !.status = "expired"]
             /\ calls' = IF old.enable THEN Told(ToWorkers(on, {}, {})) ELSE calls
             /\ unsaved' = unsaved \cup on
             /\ lost' = (lost \/ row # old)
        ELSE UNCHANGED <<row, calls, unsaved, lost>>
     /\ UNCHANGED <<on, settings, conf, tick, left, behind>>

---------------------------------------------------------------------------

Goes(w) ==
  \/ ReadMembers(w) \/ TellWorkers(w) \/ SaveInbound(w) \/ Finish(w)
  \/ CutCall(w) \/ CutRead(w) \/ CutSave(w)
  \/ UpdateRow(w) \/ ResetRow(w) \/ ReAdd(w) \/ ReAddEach(w)
  \/ BulkCommit(w) \/ PageMark(w)

Asks(w) ==
  \/ AddClient(w) \/ BulkEnable(w) \/ DeleteClient(w) \/ BulkDelete(w)
  \/ \E pc \in {"update", "reset", "bulkreset", "page"} : Open(w, pc)

Next ==
  \/ TickRead \/ TickSave
  \/ \E w \in Workers : Goes(w) \/ Asks(w)
  \/ \E n \in Nodes : PushNode(n)
  \/ \E c \in calls : Deliver(c) \/ Lose(c)

Spec == Init /\ [][Next]_vars

---------------------------------------------------------------------------

TypeOK ==
  /\ row \in Row /\ tick \in Row /\ on \subseteq Inbounds /\ settings \subseteq Inbounds
  /\ conf \in [Nodes -> SUBSET Inbounds]
  /\ \A c \in calls : c.node \in Nodes /\ c.give \cup c.stale \subseteq c.of
  /\ \A w \in Workers : work[w].todo \cup work[w].at \subseteq Inbounds
  /\ unsaved \subseteq Inbounds /\ behind \subseteq Nodes \X Inbounds

\* Nothing is under way.
Quiet == tick = Absent /\ calls = {} /\ \A w \in Workers : work[w] = NoWork

\* At rest, unless a row was saved over another change, every worker of an
\* inbound whose client may connect serves it, and the settings list it, except
\* for a reason on record: a call lost or overtaken, or made from rows that have
\* changed; settings from such rows, or not saved, or a push built before they
\* were.
EntitledIsServed ==
  Quiet /\ ~lost =>
    /\ Listed \subseteq settings \cup unsaved
    /\ \A p \in Pairs(Listed) : p[2] \in conf[p[1]] \/ p \in behind

\* And nobody serves a client that may not connect but for those reasons, a
\* deletion in bulk, an inbound of an expired client other than its first one,
\* or, for the settings, a page that saw it expire.
OnlyKnownWaysToLinger ==
  Quiet /\ ~lost =>
    /\ settings \subseteq Listed \cup unsaved
    /\ \A p \in Pairs(Inbounds \ Listed) : p[2] \notin conf[p[1]] \/ p \in behind
---------------------------------------------------------------------------
(* Why they hold (RemoteInv is inductive).                                 *)

ListedBy(seen) ==
  IF seen[1].enable /\ seen[1].status = "active" THEN seen[2] ELSE {}

\* A row without status is none.
RowOK(r) == r \in Row /\ (r.status = "none" => r = Absent)

WorkOK(x) ==
  /\ x \in [pc : {"idle", "next", "bulk", "addeach", "tell", "save", "cut", "cutread", "cutsave",
                  "add", "update", "reset", "bulkreset", "page"},
            then : {"next", "bulk", "addeach"}, old : Row, seen : Row \X SUBSET Inbounds,
            todo : SUBSET Inbounds, at : SUBSET Inbounds, give : SUBSET Inbounds,
            passed : SUBSET Nodes]
  /\ RowOK(x.old)
  /\ x.pc \in {"cutsave", "update", "reset", "bulkreset", "page"} => x.old # Absent
  /\ x.pc \in {"idle", "update", "reset", "bulkreset", "page"} => x.todo = {}
  /\ x.pc \in {"tell", "save"} => x.give = ListedBy(x.seen) \cap x.at
  /\ x.pc \notin {"tell", "save"} => x.at = {}

CallOK(c) ==
  /\ c \in [node : Nodes, of : SUBSET Inbounds, give : SUBSET Inbounds,
            stale : SUBSET Inbounds]
  /\ c.give \cup c.stale \subseteq c.of
  /\ \A i \in c.of : c.node \in At[i]

RemoteTypes ==
  /\ RowOK(row) /\ RowOK(tick) /\ on \subseteq Inbounds /\ settings \subseteq Inbounds
  /\ conf \in [Nodes -> SUBSET Inbounds]
  /\ work = [w \in Workers |-> work[w]] /\ \A w \in Workers : WorkOK(work[w])
  /\ \A c \in calls : CallOK(c)
  /\ unsaved \subseteq Inbounds /\ behind \subseteq Nodes \X Inbounds

\* A goroutine x will still tell the workers of i; it is about to save i.
Tells(x, i) == i \in x.todo \/ (x.pc = "tell" /\ i \in x.at)
Saves(x, i) == x.pc = "save" /\ i \in x.at

Promised(k, i) == \E w \in Workers : Tells(k[w], i)
Saving(k, i) == \E w \in Workers : Saves(k[w], i)

\* Or it was overtaken by a push, and will leave that on record.
Owed(k, n, i) ==
  Promised(k, i) \/ \E w \in Workers : Saves(k[w], i) /\ n \in k[w].passed

SettingsKept(i) ==
  i \in unsaved \/ (i \in settings <=> i \in Listed) \/ Promised(work, i) \/ Saving(work, i)

CallRight(c) ==
  \A i \in c.of \ c.stale : (i \in c.give <=> i \in Listed) \/ Owed(work, c.node, i)

ConfKept(n, i) ==
  \/ <<n, i>> \in behind
  \/ i \in conf[n] <=> i \in Listed
  \/ Owed(work, n, i)
  \/ \E c \in calls : c.node = n /\ i \in c.of

RemoteInv ==
  /\ RemoteTypes
  /\ ~lost => /\ \A i \in Inbounds : SettingsKept(i)
              /\ \A c \in calls : CallRight(c)
              /\ \A n \in Nodes, i \in Inbounds : n \in At[i] => ConfKept(n, i)
=============================================================================
