------------------------------ MODULE Clients ------------------------------
(***************************************************************************)
(* Clients, their quotas and what the core serves, in single mode          *)
(* (web/service/client.go, client_traffic.go, job/xray_traffic_job.go).    *)
(*                                                                         *)
(* The database holds a row per client, the client's inbounds and, inside  *)
(* each inbound, the settings: the clients the core is to serve.  Whoever  *)
(* changes a row then rebuilds the settings of its inbounds from the rows. *)
(* Every second a tick reads the counters of the core, charges them to the *)
(* rows and starts goroutines that take away expired clients.  Statements  *)
(* and short transactions are atomic; between them everybody interleaves.  *)
(* Failures of the core and the comparison that decides on a restart are   *)
(* LocalCore's subject: here its calls succeed, a restart loads the        *)
(* settings or does nothing, and the edits of p.GetConfig() and            *)
(* config.json, which a start overwrites, only show as that choice.        *)
(***************************************************************************)
EXTENDS Integers, FiniteSets, Functions

CONSTANTS Clients, Inbounds,
          Requests,     \* goroutines of the administrators' requests
          Disablers,    \* goroutines of DisableClientsByEmail
          Limits,       \* quotas, 0 for none
          Dates,        \* dates of expiry, 0 for none
          MaxNow,       \* the last date the clock reaches
          Silences,     \* whether the core counts inbounds only: {FALSE} or BOOLEAN
          Amounts,      \* traffic of a client between two ticks: up and down
          Books,        \* tables client_traffics an older version may have left
          MaxServed,    \* where the ghost count of a client's traffic stops
          MaxEdits,     \* requests in a behaviour that change a client
          MaxTicks      \* ticks of the job in a behaviour

\* What an instance has to fulfil: quotas, dates and traffic are numbers, a
\* quota and a date may be missing, the old tables name what there is, and
\* there are finitely many clients.
ClientsAssumption ==
  /\ IsFiniteSet(Clients) /\ Limits \subseteq Nat /\ Dates \subseteq Nat /\ {0} \subseteq Limits \cap Dates
  /\ {MaxNow, MaxServed, MaxEdits, MaxTicks} \subseteq Nat
  /\ Amounts \subseteq Nat \X Nat /\ Silences \subseteq BOOLEAN
  /\ \A b \in Books : b \subseteq Clients \X Inbounds

VARIABLES
  now,        \* the date
  row,        \* table clients
  on,         \* table client_inbound_mappings
  books,      \* table client_traffics: depleted clients, and their inbound
  settings,   \* the clients in inbounds.settings
  core,       \* the clients each inbound of the core knows
  silent,     \* the core counts inbounds only (Hysteria), not users
  pending,    \* traffic counted by the core since its counters were reset
  before,     \* hysteriaInboundCumulativeMap: counters at the last tick
  tick,       \* the traffic job
  work,       \* the goroutines
  restart,    \* a goroutine is about to call RestartXray(false)
  edits, ticks,
  served, lowered, lost, stray   \* ghosts, see the properties

vars == <<now, row, on, books, settings, core, silent, pending, before, tick, work,
          restart, edits, ticks, served, lowered, lost, stray>>

db == <<now, row, on, books>>
traffic == <<silent, pending, before, served>>
counts == <<edits, ticks>>
ghosts == <<lowered, lost, stray>>

Workers == Requests \cup Disablers
Expired == {"expired_traffic", "expired_time"}
Absent == [enable |-> FALSE, status |-> "none", used |-> 0, limit |-> 0,
           until |-> 0]
Rows == [enable : BOOLEAN, status : Expired \cup {"none", "active"},
         used : Nat, limit : Limits, until : Dates]

Nothing == [via |-> {}, up |-> 0, down |-> 0]
Bytes == {a[1] : a \in Amounts} \cup {a[2] : a \in Amounts} \cup {0}
Counts == [via : SUBSET Inbounds, up : Bytes, down : Bytes]

NoWork == [pc |-> "idle", c |-> {}, old |-> Absent, todo |-> {}, snap |-> {},
           restart |-> FALSE]
NoRows == [c \in {} |-> Absent]
NoCounts == [c \in Clients |-> Nothing]
NoTick == [pc |-> "idle", rows |-> NoRows, delta |-> NoCounts]

\* A client's row is over its quota, or past its date.
Exceeded(r) == r.limit > 0 /\ r.used >= r.limit
Late(r) == r.until > 0 /\ r.until <= now
Over(r) == Late(r) \/ Exceeded(r)

\* Who belongs into the settings of inbound i, by the rows as committed.
Members(i) ==
  {c \in Clients : i \in on[c] /\ row[c].enable /\ row[c].status = "active"}

\* Somebody beside w has read the row of client c and may save it again.
Copied(w, c) ==
  \/ c \in DOMAIN tick.rows
  \/ \E v \in Workers \ {w} : c \in work[v].c /\ work[v].old # Absent
\* The administrator has set the quota of c right, for whoever reads it now.
Righted(w, c) == IF Copied(w, c) THEN lowered ELSE lowered \ {c}

Holds(w, c) == work[w].pc \in {"bulk", "bulkwrite"} /\ work[w].c = {c}
\* The row lock of client c is free.
Unlocked(c) ==
  /\ tick.pc = "saved" => c \notin DOMAIN tick.rows
  /\ \A w \in Workers : ~Holds(w, c)

Init ==
  /\ now = 0
  /\ row = [c \in Clients |-> Absent]
  /\ on = [c \in Clients |-> {}]
  /\ books \in Books
  /\ settings = [i \in Inbounds |-> {}]
  /\ core = settings
  /\ silent \in Silences
  /\ pending = NoCounts
  /\ before = [i \in Inbounds |-> Nothing]
  /\ tick = NoTick
  /\ work = [w \in Workers |-> NoWork]
  /\ restart = FALSE /\ edits = 0 /\ ticks = 0
  /\ served = [c \in Clients |-> 0]
  /\ lowered = {} /\ lost = FALSE /\ stray = {}

---------------------------------------------------------------------------
(* The world outside: traffic and time.                                    *)

\* A client the core serves moves some bytes through one inbound.
Send(c) ==
  /\ pending[c] = Nothing
  /\ \E i \in Inbounds, a \in Amounts :
       LET sum == served[c] + a[1] + a[2]
       IN /\ c \in core[i]
          /\ row[c].limit = 0 => sum <= MaxServed
          /\ pending' = [pending EXCEPT ![c] = [via |-> IF silent THEN {i} ELSE {}, up |-> a[1], down |-> a[2]]]
          /\ served' = [served EXCEPT ![c] = IF sum < MaxServed THEN sum ELSE MaxServed]
  /\ UNCHANGED <<db, settings, core, silent, before, tick, work,
                 restart, counts, ghosts>>

\* A date passes.
DatePasses ==
  /\ now < MaxNow
  /\ now' = now + 1
  /\ UNCHANGED <<row, on, books, settings, core, traffic, tick, work, restart,
                 counts, ghosts>>

---------------------------------------------------------------------------
(* The tick of the traffic job.                                            *)

\* int64(float64(x) * ratio) with ratio = a / t: rounded down, and where the
\* quotient is whole the product of the two floats may fall short of it.
Share(x, a, t) ==
  LET q == (x * a) \div t
  IN {q} \cup IF q > 0 /\ (x * a) % t = 0 THEN {q - 1} ELSE {}

\* What is added to row r for the counts d.
Charges(r, d) ==
  LET total == d.up + d.down
      left == r.limit - r.used
  IN CASE r.limit = 0 \/ (r.limit > r.used /\ total <= left) -> {total}
       [] r.used >= r.limit /\ r.limit > 0 -> {0}
       [] OTHER -> {u + v : u \in Share(d.up, left, total),
                            v \in Share(d.down, left, total)}

\* The two branches that set the status; a status that fits is left alone.
Marked(r) ==
  IF ~r.enable THEN r
  ELSE IF Exceeded(r) /\ r.status # "expired_traffic"
       THEN [r EXCEPT !.status = "expired_traffic"]
       ELSE IF Late(r) THEN [r EXCEPT !.status = "expired_time"] ELSE r

\* The rows the core reports: its users, unless it counts inbounds only.
Reported ==
  IF silent THEN {}
  ELSE {c \in Clients : /\ row[c].status # "none"
                        /\ (\E i \in Inbounds : c \in core[i])
                           \/ pending[c] # Nothing}

\* GetTraffic(true) leaves the counters of the core at zero.  (Mutant: not.)
KeptCounters == pending
ResetCounters == NoCounts

\* The counters are read and reset, then the rows they belong to are read.
TickRead ==
  /\ tick.pc = "idle" /\ ticks < MaxTicks
  /\ ticks' = ticks + 1
  /\ tick' = [pc |-> "read", rows |-> [c \in Reported |-> row[c]],
              delta |-> pending]
  /\ pending' = ResetCounters
  /\ UNCHANGED <<db, settings, core, silent, before, served, work,
                 restart, edits, ghosts>>

\* A goroutine that takes client c away from one of its inbounds.
Disable(c, i, again) ==
  [NoWork EXCEPT !.pc = "cut", !.c = {c}, !.todo = {i}, !.restart = again]

\* A goroutine for each client of S that has an inbound.  (In the code one
\* goroutine does the work of all.)
Spawn(S, again) ==
  LET T == {c \in S : on[c] # {}}
  IN \E who \in [T -> Disablers], at \in [T -> Inbounds] :
       /\ \A c \in T : at[c] \in on[c] /\ work[who[c]] = NoWork
       /\ \A c, d \in T : who[c] = who[d] => c = d
       /\ work' = [w \in Workers |->
                     IF \E c \in T : who[c] = w
                     THEN LET c == CHOOSE c \in T : who[c] = w
                          IN Disable(c, at[c], again)
                     ELSE work[w]]

\* Whole rows are charged, marked and saved; the transaction stays open while
\* the goroutine for the clients just marked is already started.
TickSave ==
  /\ tick.pc = "read"
  /\ \A c \in DOMAIN tick.rows, w \in Workers : ~Holds(w, c)
  /\ \E add \in [DOMAIN tick.rows ->
                   UNION {Charges(tick.rows[c], tick.delta[c]) : c \in DOMAIN tick.rows}] :
       LET charged == [c \in DOMAIN tick.rows |->
                         [tick.rows[c] EXCEPT !.used = @ + add[c]]]
           new == [c \in DOMAIN tick.rows |-> Marked(charged[c])]
       IN /\ \A c \in DOMAIN tick.rows : add[c] \in Charges(tick.rows[c], tick.delta[c])
          /\ tick' = [pc |-> "saved", rows |-> new,
                        delta |-> IF silent THEN tick.delta ELSE NoCounts]
          /\ Spawn({c \in DOMAIN new : new[c].status # tick.rows[c].status}, TRUE)
  /\ lost' = (lost \/ \E c \in DOMAIN tick.rows : row[c] # tick.rows[c])
  /\ UNCHANGED <<db, settings, core, traffic, restart, counts, lowered,
                 stray>>

\* The deferred commit.
TickCommit ==
  /\ tick.pc = "saved"
  /\ row' = [c \in Clients |-> IF c \in DOMAIN tick.rows THEN tick.rows[c] ELSE row[c]]
  /\ tick' = [tick EXCEPT !.pc = IF silent THEN "fallback" ELSE "broadcast",
                          !.rows = NoRows]
  /\ UNCHANGED <<now, on, books, settings, core, traffic, work, restart, counts,
                 ghosts>>

\* The client that pays for inbound i: the only enabled one.
Payer(i) ==
  LET E == {c \in Clients : i \in on[c] /\ row[c].enable}
  IN IF Cardinality(E) = 1 THEN E ELSE {}

\* What inbound i counted in this tick.
CountOf(i) ==
  LET S == {c \in Clients : i \in tick.delta[c].via}
  IN IF S = {} THEN [Nothing EXCEPT !.via = {i}]
     ELSE [tick.delta[CHOOSE c \in S : TRUE] EXCEPT !.via = {i}]

\* Counters minus those of the tick before; nothing for the first sight of an
\* inbound or if one of them went down.
Increase(cur, prev) ==
  IF prev = Nothing \/ cur.up < prev.up \/ cur.down < prev.down THEN 0
  ELSE (cur.up - prev.up) + (cur.down - prev.down)

\* No user was reported: the counts of an inbound go to its only enabled
\* client, once as they are, once as the difference to the tick before.
TickFallback ==
  /\ tick.pc = "fallback"
  /\ \A c \in Clients : Unlocked(c)
  /\ LET due(i) == CountOf(i).up + CountOf(i).down + Increase(CountOf(i), before[i])
         paid == {i \in Inbounds : due(i) > 0 /\ Payer(i) # {}}
     IN row' = [c \in Clients |->
                  IF \E i \in paid : Payer(i) = {c}
                  THEN [row[c] EXCEPT !.used = @ +
                          due(CHOOSE i \in paid : Payer(i) = {c})]
                  ELSE row[c]]
  /\ before' = [i \in Inbounds |-> CountOf(i)]
  /\ tick' = [tick EXCEPT !.pc = "broadcast"]
  /\ UNCHANGED <<now, on, books, settings, core, silent, pending, served, work,
                 restart, counts, ghosts>>

\* The status a page or the broadcast gives to a row.
Shown(r) ==
  IF r.status = "none" \/ ~Over(r) THEN r.status
  ELSE IF Late(r) THEN "expired_time" ELSE "expired_traffic"

Changed == {c \in Clients : Shown(row[c]) # row[c].status}

\* All rows are read for the pages; a status that has changed is saved and a
\* goroutine started whose wish for a restart is dropped.
TickBroadcast ==
  /\ tick.pc = "broadcast"
  /\ \A c \in Changed : Unlocked(c)
  /\ row' = [c \in Clients |-> [row[c] EXCEPT !.status = Shown(row[c])]]
  /\ Spawn({c \in Changed : row[c].enable}, FALSE)
  /\ tick' = NoTick
  /\ UNCHANGED <<now, on, books, settings, core, traffic, restart, counts, ghosts>>

---------------------------------------------------------------------------
(* Pieces the goroutines share.                                            *)

\* GetClientsForInbound for the next inbound ...
ReadMembers(w) ==
  /\ work[w].pc \in {"next", "bulk"} /\ work[w].todo # {}
  /\ \E i \in work[w].todo :
       work' = [work EXCEPT ![w].snap = {<<i, Members(i)>>},
                            ![w].todo = @ \ {i},
                            ![w].pc = IF @ = "bulk" THEN "bulkwrite" ELSE "write"]
  /\ UNCHANGED <<db, settings, core, traffic, tick, restart, counts,
                 ghosts>>

\* ... and updateInboundWithRetry: the settings and the core get what was read.
Rebuild(w) ==
  /\ work[w].pc \in {"write", "bulkwrite"}
  /\ \E s \in work[w].snap :
       /\ settings' = [settings EXCEPT ![s[1]] = s[2]]
       /\ core' = [core EXCEPT ![s[1]] = s[2]]
       /\ lost' = (lost \/ s[2] # Members(s[1]))
       /\ stray' = {p \in stray : p[2] # s[1]}
  /\ work' = [work EXCEPT ![w].snap = {},
                          ![w].pc = IF @ = "bulkwrite" THEN "bulk" ELSE "next"]
  /\ UNCHANGED <<db, traffic, tick, restart, counts, lowered>>

Finish(w) ==
  /\ work[w].pc = "next" /\ work[w].todo = {}
  /\ restart' = (restart \/ work[w].restart)
  /\ work' = [work EXCEPT ![w] = NoWork]
  /\ UNCHANGED <<db, settings, core, traffic, tick, counts, ghosts>>

\* RestartXray(false) loads the settings, unless the configuration looks the
\* same as the one in use.
RestartXray ==
  /\ restart
  /\ restart' = FALSE
  /\ core' \in {core, settings}
  /\ UNCHANGED <<db, settings, traffic, tick, work, counts, ghosts>>

---------------------------------------------------------------------------
(* DisableClientsByEmail.                                                  *)

TheClient(w) == CHOOSE c \in work[w].c : TRUE

CutRead(w) ==
  /\ work[w].pc = "cut"
  /\ work' = [work EXCEPT ![w].old = row[TheClient(w)],
                 ![w].pc = IF row[TheClient(w)] = Absent THEN "next" ELSE "cutsave"]
  /\ UNCHANGED <<db, settings, core, traffic, tick, restart, counts,
                 ghosts>>

\* The whole row is saved as it was read, with a status if it has none that
\* fits; a row deleted meanwhile is inserted again.
CutSave(w) ==
  LET c == TheClient(w)
      old == work[w].old
      status == IF old.status \in Expired THEN old.status
                ELSE IF Exceeded(old) THEN "expired_traffic"
                ELSE IF Late(old) THEN "expired_time" ELSE old.status
  IN /\ work[w].pc = "cutsave" /\ Unlocked(c)
     /\ row' = [row EXCEPT ![c] = [old EXCEPT !.status = status]]
     /\ lost' = (lost \/ row[c] # old)
     /\ stray' = stray \cup ({c} \X (on[c] \ work[w].todo))
     /\ work' = [work EXCEPT ![w].pc = "next", ![w].old = Absent]
     /\ UNCHANGED <<now, on, books, settings, core, traffic, tick, restart, counts,
                    lowered>>

---------------------------------------------------------------------------
(* Requests of the administrators.                                         *)

\* The request reads the client it is about.
Open(w, c, pc) ==
  /\ w \in Requests /\ work[w] = NoWork /\ edits < MaxEdits
  /\ row[c].status # "none"
  /\ edits' = edits + 1
  /\ work' = [work EXCEPT ![w] = [NoWork EXCEPT !.pc = pc, !.c = {c}, !.old = row[c],
                                       !.todo = IF pc = "assign" THEN on[c] ELSE {}]]
  /\ UNCHANGED <<db, settings, core, traffic, tick, restart, ticks, ghosts>>

UpdateClient(w, c) == Open(w, c, "update")
ResetClientTraffic(w, c) == Open(w, c, "reset")
BulkResetTraffic(w, c) == Open(w, c, "bulkreset")
BulkAssignInbounds(w, c) == Open(w, c, "assign")

AddClient(w, c) ==
  /\ w \in Requests /\ work[w] = NoWork
  /\ row[c].status = "none"
  /\ \E l \in Limits, t \in Dates, S \in SUBSET Inbounds :
       /\ row' = [row EXCEPT ![c] = [Absent EXCEPT !.enable = TRUE,
                            !.status = "active", !.limit = l, !.until = t]]
       /\ on' = [on EXCEPT ![c] = S]
       /\ work' = [work EXCEPT ![w] = [NoWork EXCEPT !.pc = "next", !.todo = S]]
  /\ lowered' = Righted(w, c)
  /\ UNCHANGED <<now, books, settings, core, traffic, tick, restart, counts, lost, stray>>

\* What the form may hold: the row the controller has read, with the switch,
\* the quota or the date changed by the administrator.
Submitted(old) ==
  {[old EXCEPT !.enable = e] : e \in BOOLEAN}
    \cup {[old EXCEPT !.limit = l] : l \in Limits}
    \cup {[old EXCEPT !.until = t] : t \in Dates}

\* The transaction of UpdateClient; a row that is gone stays away, its
\* inbounds are recorded all the same.  BulkAssignInbounds calls it with the
\* row it has read and more inbounds.
UpdateRow(w) ==
  LET c == TheClient(w)
      old == work[w].old
  IN /\ work[w].pc \in {"update", "assign"} /\ Unlocked(c)
     /\ \E form \in Submitted(old), S \in SUBSET Inbounds :
          LET new == [form EXCEPT !.used = row[c].used]
              revived == old.status \in Expired /\ ~Over(new) /\ new.enable
          IN /\ IF work[w].pc = "assign" THEN form = old /\ work[w].todo \subseteq S
                ELSE form = old \/ S = on[c]
             /\ row' = IF row[c].status = "none" THEN row
                       ELSE [row EXCEPT ![c] = [new EXCEPT !.status =
                               IF revived THEN "active" ELSE @]]
             /\ on' = [on EXCEPT ![c] = S]
             /\ work' = [work EXCEPT ![w] = [NoWork EXCEPT !.pc = "next",
                                               !.todo = on[c] \cup S]]
             /\ lowered' = IF new.limit > 0 /\ new.used > new.limit
                           THEN lowered \cup {c} ELSE lowered
     /\ lost' = (lost \/ row[c] # old)
     /\ UNCHANGED <<now, books, settings, core, traffic, tick, restart, counts, stray>>

\* What ResetClientTraffic goes on with.  (Mutant: nothing.)
ResetOnly(c, readd) == NoWork
AfterReset(c, readd) ==
  IF readd THEN [NoWork EXCEPT !.pc = "readd", !.c = {c}] ELSE NoWork

\* Counters to zero; an expired client is active again, past its date or not.
ResetRow(w) ==
  LET c == TheClient(w)
      old == work[w].old
      was == IF work[w].pc = "reset" THEN old.status \in Expired
             ELSE old.status = "expired_traffic"
  IN /\ work[w].pc \in {"reset", "bulkreset"} /\ Unlocked(c)
     /\ row' = IF row[c].status = "none" THEN row
               ELSE [row EXCEPT ![c].used = 0,
                                ![c].status = IF was THEN "active" ELSE @]
     /\ work' = [work EXCEPT ![w] = AfterReset(c, was /\ old.enable)]
     /\ lowered' = IF row[c].status = "none" THEN lowered ELSE Righted(w, c)
     /\ lost' = (lost \/ row[c] # old)
     /\ UNCHANGED <<now, on, books, settings, core, traffic, tick, restart, counts, stray>>

\* The client is added to the running core, then its inbounds are rebuilt.
ReAdd(w) ==
  LET c == TheClient(w)
  IN /\ work[w].pc = "readd"
     /\ core' = [i \in Inbounds |-> IF i \in on[c] THEN core[i] \cup {c} ELSE core[i]]
     /\ work' = [work EXCEPT ![w].pc = "next", ![w].todo = on[c]]
     /\ UNCHANGED <<db, settings, traffic, tick, restart, counts, ghosts>>

\* The settings of all inbounds of client c are to be rebuilt.  (Mutant: none.)
RebuildNone(c) == [NoWork EXCEPT !.pc = "next"]
RebuildAll(c) == [NoWork EXCEPT !.pc = "next", !.todo = on[c]]

DeleteClient(w, c) ==
  /\ w \in Requests /\ work[w] = NoWork /\ edits < MaxEdits
  /\ row[c].status # "none" /\ Unlocked(c)
  /\ edits' = edits + 1
  /\ row' = [row EXCEPT ![c] = Absent]
  /\ on' = [on EXCEPT ![c] = {}]
  /\ work' = [work EXCEPT ![w] = RebuildAll(c)]
  /\ UNCHANGED <<now, books, settings, core, traffic, tick, restart, ticks, ghosts>>

\* The bulk variant rebuilds while its transaction is open: the rebuild reads
\* the rows as they were, with the client.
BulkDelete(w, c) ==
  /\ Unlocked(c)
  /\ w \in Requests /\ work[w] = NoWork /\ edits < MaxEdits
  /\ row[c].status # "none"
  /\ edits' = edits + 1
  /\ work' = [work EXCEPT ![w] = [NoWork EXCEPT !.pc = "bulk", !.c = {c},
                                                !.todo = on[c]]]
  /\ UNCHANGED <<db, settings, core, traffic, tick, restart, ticks, ghosts>>

BulkCommit(w) ==
  LET c == TheClient(w)
  IN /\ work[w].pc = "bulk" /\ work[w].todo = {}
     /\ row' = [row EXCEPT ![c] = Absent]
     /\ on' = [on EXCEPT ![c] = {}]
     /\ stray' = stray \cup ({c} \X on[c])
     /\ work' = [work EXCEPT ![w] = NoWork]
     /\ UNCHANGED <<now, books, settings, core, traffic, tick, restart, counts,
                    lowered, lost>>

\* BulkEnable asks for a restart only when it enables.
BulkEnable(w, c) ==
  /\ w \in Requests /\ work[w] = NoWork /\ edits < MaxEdits
  /\ row[c].status # "none" /\ Unlocked(c)
  /\ edits' = edits + 1
  /\ \E e \in BOOLEAN :
       /\ row' = [row EXCEPT ![c].enable = e]
       /\ work' = [work EXCEPT ![w] = [RebuildAll(c) EXCEPT !.restart =
                                                 e /\ on[c] # {}]]
  /\ UNCHANGED <<now, on, books, settings, core, traffic, tick, restart, ticks, ghosts>>

\* GetClients, for a page: an expired client is marked, its settings stay;
\* RestartXray(false) follows.
GetClients ==
  /\ Changed # {} /\ \A c \in Changed : Unlocked(c)
  /\ row' = [c \in Clients |-> [row[c] EXCEPT !.status = Shown(row[c])]]
  /\ LET gone == {p \in Changed \X Inbounds : row[p[1]].enable /\ p[2] \in on[p[1]]}
     IN /\ restart' = (restart \/ gone # {})
        /\ stray' = stray \cup gone
  /\ UNCHANGED <<now, on, books, settings, core, traffic, tick, work, counts, lowered, lost>>

\* ResetAllClientTraffics, in three statements: who has used up the quota,
\* all counters to zero, all those active.
ResetAllClientTraffics(w) ==
  /\ w \in Requests /\ work[w] = NoWork /\ edits < MaxEdits
  /\ edits' = edits + 1
  /\ work' = [work EXCEPT ![w] = [NoWork EXCEPT !.pc = "zero",
                 !.c = {c \in Clients : row[c].status = "expired_traffic" /\ row[c].enable}]]
  /\ UNCHANGED <<db, settings, core, traffic, tick, restart, ticks, ghosts>>

ZeroAll(w) ==
  /\ work[w].pc = "zero" /\ \A c \in Clients : Unlocked(c)
  /\ row' = [c \in Clients |-> [row[c] EXCEPT !.used = 0]]
  /\ work' = [work EXCEPT ![w].pc = "mark"]
  /\ lowered' = {c \in lowered : Copied(w, c)}
  /\ UNCHANGED <<now, on, books, settings, core, traffic, tick, restart, counts,
                 lost, stray>>

\* Who expired after the first statement is active again and nowhere added.
MarkAll(w) ==
  LET used == {c \in Clients : row[c].status = "expired_traffic"}
      back == UNION {on[c] : c \in work[w].c}
  IN /\ work[w].pc = "mark" /\ \A c \in Clients : Unlocked(c)
     /\ row' = [c \in Clients |->
                  IF c \in used THEN [row[c] EXCEPT !.status = "active"] ELSE row[c]]
     /\ work' = [work EXCEPT ![w] = [NoWork EXCEPT !.pc = "next", !.todo = back,
                                                   !.restart = back # {}]]
     /\ lost' = (lost \/ \E c \in used \ work[w].c : row[c].enable)
     /\ UNCHANGED <<now, on, books, settings, core, traffic, tick, restart,
                    counts, lowered, stray>>

\* DelDepletedClients goes by the table of an older version, which nothing
\* fills; it then looks for inbounds in the mappings it has deleted, and
\* rebuilds the one the old row names.
DelDepletedClients(w) ==
  LET gone == {c \in Clients : row[c].status # "none" /\ \E i \in Inbounds : <<c, i>> \in books}
  IN /\ w \in Requests /\ work[w] = NoWork /\ edits < MaxEdits
     /\ gone # {} /\ \A c \in gone : Unlocked(c)
     /\ edits' = edits + 1
     /\ row' = [c \in Clients |-> IF c \in gone THEN Absent ELSE row[c]]
     /\ on' = [c \in Clients |-> IF c \in gone THEN {} ELSE on[c]]
     /\ books' = {}
     /\ work' = [work EXCEPT ![w] = [NoWork EXCEPT !.pc = "next",
                                        !.todo = {p[2] : p \in books}]]
     /\ stray' = stray \cup {p \in (gone \X Inbounds) \ books : p[2] \in on[p[1]]}
     /\ UNCHANGED <<now, settings, core, traffic, tick, restart, ticks, lowered, lost>>

---------------------------------------------------------------------------

Goes(w) ==
  \/ ReadMembers(w) \/ Rebuild(w) \/ Finish(w)
  \/ CutRead(w) \/ CutSave(w)
  \/ UpdateRow(w) \/ ResetRow(w) \/ ReAdd(w)
  \/ BulkCommit(w) \/ ZeroAll(w) \/ MarkAll(w)

Asks(w, c) ==
  \/ AddClient(w, c) \/ UpdateClient(w, c) \/ DeleteClient(w, c)
  \/ BulkDelete(w, c) \/ BulkEnable(w, c)
  \/ ResetClientTraffic(w, c) \/ BulkResetTraffic(w, c)
  \/ BulkAssignInbounds(w, c)

Tick == TickRead \/ TickSave \/ TickCommit \/ TickFallback \/ TickBroadcast

Next ==
  \/ DatePasses \/ \E c \in Clients : Send(c)
  \/ Tick \/ RestartXray \/ GetClients
  \/ \E w \in Workers :
       \/ Goes(w) \/ ResetAllClientTraffics(w) \/ DelDepletedClients(w)
       \/ \E c \in Clients : Asks(w, c)

Spec == Init /\ [][Next]_vars

---------------------------------------------------------------------------

TypeOK ==
  /\ now \in 0..MaxNow
  /\ row \in [Clients -> Rows] /\ on \in [Clients -> SUBSET Inbounds]
  /\ settings \in [Inbounds -> SUBSET Clients]
  /\ core \in [Inbounds -> SUBSET Clients]
  /\ silent \in BOOLEAN /\ restart \in BOOLEAN
  /\ pending \in [Clients -> Counts] /\ before \in [Inbounds -> Counts]
  /\ \A c \in DOMAIN tick.rows : tick.rows[c] \in Rows
  /\ \A w \in Workers : work[w].old \in Rows /\ work[w].todo \subseteq Inbounds
  /\ edits \in 0..MaxEdits /\ books \subseteq Clients \X Inbounds

\* Nothing is under way.
Idle == tick.pc = "idle" /\ ~restart /\ \A w \in Workers : work[w] = NoWork

\* No byte is charged twice, however ticks, goroutines that save whole stale
\* rows and requests overlap: a client pays at most for what the core has
\* moved for it.
EachPaysOnce ==
  \A c \in Clients :
    ~silent /\ served[c] < MaxServed => row[c].used <= served[c]

\* Of all clients.
Total(f) == FoldFunction(+, 0, f)

\* So it is for the client; where the core counts inbounds only, the two
\* fallbacks of a tick together charge at most twice as much.
ChargedWasDelivered ==
  /\ EachPaysOnce
  /\ silent /\ (\A c \in Clients : served[c] < MaxServed) =>
       Total([c \in Clients |-> row[c].used]) <= 2 * Total(served)

\* Usage never passes a quota, unless an administrator has set the quota below
\* it: rows saved late carry their own quota with them, so a reset helps only
\* if nobody has read the row before it.
WithinLimit ==
  \A c \in Clients \ lowered :
    ~silent /\ row[c].limit > 0 => row[c].used <= row[c].limit

\* Once everything has come to rest, every enabled client that is not expired
\* is served by each of its inbounds, unless somebody saved what he had read
\* before another change.
EntitledIsServed ==
  Idle /\ ~lost => \A i \in Inbounds : Members(i) \subseteq settings[i] \cap core[i]

\* Then a client that should not be served is served only in one of the ways
\* the code has for it: it expired while it had several inbounds, a page saw
\* it expire before the job did, it was deleted in bulk, or by a row of the
\* old table that names another inbound.
OnlyKnownWaysToLinger ==
  Idle /\ ~lost => \A i \in Inbounds : \A c \in core[i] \ Members(i) : <<c, i>> \in stray

---------------------------------------------------------------------------
(* What makes these inductive (ClientsProofs).                             *)

\* The records.
TickSteps == {"idle", "read", "saved", "fallback", "broadcast"}
Steps == {"idle", "next", "write", "bulk", "bulkwrite", "cut", "cutsave", "update", "reset",
          "bulkreset", "assign", "readd", "zero", "mark"}
\* Where a goroutine is about one client.
AboutOne == {"bulk", "bulkwrite", "cut", "cutsave", "update", "reset", "bulkreset", "assign",
             "readd"}
Jobs == [pc : Steps, c : SUBSET Clients, old : Rows, todo : SUBSET Inbounds,
         snap : SUBSET (Inbounds \X SUBSET Clients), restart : BOOLEAN]

WellFormed(j) ==
  /\ j.pc \in AboutOne => \E c \in Clients : j.c = {c}
  /\ j.pc \in {"write", "bulkwrite"} =>
       \E i \in Inbounds, M \in SUBSET Clients : j.snap = {<<i, M>>}
  /\ j.pc \notin {"write", "bulkwrite"} => j.snap = {}
  /\ j.pc \in {"update", "reset", "bulkreset", "readd", "zero", "mark"} => j.todo = {}
  /\ j.pc \in {"zero", "mark"} => j.old = Absent

Shapes ==
  /\ work \in [Workers -> Jobs] /\ \A w \in Workers : WellFormed(work[w])
  /\ tick.pc \in TickSteps
  /\ \E S \in SUBSET Clients : tick.rows \in [S -> Rows]
  /\ tick.delta \in [Clients -> Counts]
  /\ tick = [pc |-> tick.pc, rows |-> tick.rows, delta |-> tick.delta]
  /\ tick.pc \notin {"read", "saved"} => DOMAIN tick.rows = {}
  /\ tick.pc = "fallback" => silent
  /\ served \in [Clients -> Nat]

\* What has been counted and not charged comes on top of what any row says
\* that may still be saved.
Size(d) == d.up + d.down
Paid(c, r) == r.used + Size(pending[c]) <= served[c]
Charged ==
  \A c \in Clients : ~silent /\ served[c] < MaxServed =>
    /\ Paid(c, row[c])
    /\ \A w \in Workers : c \in work[w].c => Paid(c, work[w].old)
    /\ c \in DOMAIN tick.rows =>
         /\ tick.pc = "saved" => Paid(c, tick.rows[c])
         /\ tick.pc = "read" =>
              tick.rows[c].used + Size(tick.delta[c]) + Size(pending[c]) <= served[c]

\* Where the core counts inbounds only, what the tick has not yet given to a
\* payer is the traffic of one inbound of each client, and twice as much fits
\* on top of the highest usage of each client that may still be saved.
Unbilled ==
  [c \in Clients |-> Size(pending[c]) + IF tick.pc \in {"read", "saved", "fallback"}
                                        THEN Size(tick.delta[c]) ELSE 0]
OneWay ==
  \A c \in Clients : \A d \in {pending[c], tick.delta[c]} : \A i, j \in d.via : i = j
Covers(most) ==
  \A c \in Clients :
    /\ row[c].used <= most[c]
    /\ \A w \in Workers : c \in work[w].c => work[w].old.used <= most[c]
Billed ==
  silent =>
    /\ DOMAIN tick.rows = {}
    /\ OneWay
    /\ (\A c \in Clients : served[c] < MaxServed) =>
         \E most \in [Clients -> 0..2 * Total(served)] :
           Covers(most) /\ Total(most) + 2 * Total(Unbilled) <= 2 * Total(served)

\* All of these rows keep within the quota they carry.
Fits(r) == r.limit > 0 => r.used <= r.limit
Limited ==
  \A c \in Clients \ lowered : ~silent =>
    /\ Fits(row[c])
    /\ \A w \in Workers : c \in work[w].c => Fits(work[w].old)
    /\ c \in DOMAIN tick.rows => Fits(tick.rows[c])

\* While the tick's transaction is open, nobody changes its rows, and whom it
\* has marked is being cut off.
Cut(c) == \E w \in Workers : work[w].pc \in {"cut", "cutsave"} /\ work[w].c = {c}
OneTransaction ==
  /\ \A c \in DOMAIN tick.rows : tick.rows[c].status # "none"
  /\ tick.pc = "saved" => \A c \in DOMAIN tick.rows :
       /\ \A w \in Workers : ~Holds(w, c)
       /\ ~lost =>
            /\ row[c].status # "none" /\ tick.rows[c].enable = row[c].enable
            /\ \/ tick.rows[c].status = row[c].status
               \/ tick.rows[c].status \in Expired /\ (on[c] = {} \/ Cut(c))

\* An inbound whose settings somebody is about to rebuild.
Due(i) ==
  \E w \in Workers : /\ work[w].pc # "assign"
                     /\ i \in work[w].todo \/ \E s \in work[w].snap : s[1] = i
Comes(c) == \E w \in Workers : work[w].pc = "readd" /\ work[w].c = {c}

\* Who belongs into an inbound is there, or will be.
WillBeServed ==
  ~lost => \A i \in Inbounds : \A c \in Members(i) :
    c \in settings[i] \cap core[i] \/ Due(i) \/ Comes(c)

\* Who does not belong there is on record, or will be.
WillLeave ==
  ~lost => \A i \in Inbounds : \A c \in (settings[i] \cup core[i]) \ Members(i) :
    <<c, i>> \in stray \/ Due(i) \/ (row[c].status # "none" /\ i \in on[c] /\ Cut(c))

ClientsInv ==
  /\ TypeOK /\ Shapes /\ Charged /\ Billed /\ Limited
  /\ OneTransaction /\ WillBeServed /\ WillLeave
=============================================================================
