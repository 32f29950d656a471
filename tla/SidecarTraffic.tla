---------------------------- MODULE SidecarTraffic ----------------------------
(***************************************************************************)
(* How the traffic of a Telemt process reaches the rows of its clients     *)
(* (node/telemt/stats_merge.go MergeTelemtIntoNodeStats, called by the     *)
(* worker's /api/v1/stats and, without workers, by the panel's traffic     *)
(* job).                                                                   *)
(*                                                                         *)
(* The process only has totals, which start at 0 with it.  A handler asks  *)
(* for them, compares them with the totals a file keeps from the last      *)
(* time, replaces the file, and answers the difference.  Nothing keeps two *)
(* handlers apart; a request that was given up goes on beside its retry.   *)
(* The page of traffic per node asks too, and adds nothing to the rows.    *)
(***************************************************************************)
EXTENDS Naturals, FiniteSets, Functions, TLC

CONSTANTS
  Handlers, Clients,
  MaxMoved,    \* what passes in a behaviour
  MaxStarts,   \* starts of the process after the first
  MaxAsks      \* questions in a behaviour

\* Requests in flight are finitely many.
TotalsAssumption == IsFiniteSet(Handlers)

VARIABLES
  octets,    \* of each client the process knows: its total
  file,      \* the totals kept from the last time
  handler,
  charged,   \* of each client: what its row has been given
  starts, asks,
  passed,    \* ghost: of each client: what went through
  restarted, \* ghost: clients whose total was set back since the file was written
  excuses    \* ghost: why the rows may differ from what passed

vars == <<octets, file, handler, charged, starts, asks, passed, restarted, excuses>>

Total(f) == FoldFunction(+, 0, f)
Known == DOMAIN octets
Filed(c) == IF c \in DOMAIN file THEN file[c] ELSE 0
Idle(h) == handler[h].pc = "idle"
Busy(h) == handler[h].pc \in {"fetched", "loaded"}

NoTotal == [c \in {} |-> 0]

NoHandler == [pc |-> "idle", seen |-> NoTotal, delta |-> NoTotal, restarted |-> {},
              cut |-> FALSE]

Init ==
  /\ \E S \in SUBSET Clients : octets = [c \in S |-> 0]
  /\ file = NoTotal
  /\ handler = [h \in Handlers |-> NoHandler]
  /\ charged = [c \in Clients |-> 0]
  /\ starts = 0 /\ asks = 0
  /\ passed = [c \in Clients |-> 0]
  /\ restarted = {} /\ excuses = {}

\* What the next answer would add for a client, if nothing goes wrong.
Pending(c) ==
  IF c \notin Known THEN 0
  ELSE IF c \in restarted THEN octets[c] ELSE octets[c] - Filed(c)

Excused(reason, when) == IF when THEN {reason} ELSE {}

-----------------------------------------------------------------------------
Moves(c) ==
  /\ c \in Known
  /\ Total(passed) < MaxMoved
  /\ octets' = [octets EXCEPT ![c] = @ + 1]
  /\ passed' = [passed EXCEPT ![c] = @ + 1]
  /\ UNCHANGED <<file, handler, charged, starts, asks, restarted, excuses>>

(* The process is started anew, with clients added or taken away: what no  *)
(* handler has seen is lost.                                               *)
Starts ==
  /\ starts < MaxStarts
  /\ starts' = starts + 1
  /\ \E S \in SUBSET Clients : octets' = [c \in S |-> 0]
  /\ restarted' = DOMAIN octets'
  /\ handler' = [h \in Handlers |->
       IF Busy(h) THEN [handler[h] EXCEPT !.cut = TRUE] ELSE handler[h]]
  /\ excuses' = excuses \cup Excused("cut",
       IF \E h \in Handlers : Busy(h)
       THEN \E h \in Handlers : /\ Busy(h)
                                /\ IF handler[h].cut
                                   THEN \E c \in Known : octets[c] > 0
                                   ELSE octets # handler[h].seen
       ELSE \E c \in Known : Pending(c) > 0)
  /\ UNCHANGED <<file, charged, asks, passed>>

\* fetchTelemtUsersJSON.  A failed question skips the process.
Fetch(h) ==
  /\ Idle(h)
  /\ asks < MaxAsks /\ asks' = asks + 1
  /\ handler' = [handler EXCEPT ![h] = [NoHandler EXCEPT
       !.pc = "fetched", !.seen = octets, !.restarted = restarted]]
  /\ excuses' = excuses \cup Excused("overlap", \E g \in Handlers : Busy(g))
  /\ UNCHANGED <<octets, file, charged, starts, passed, restarted>>

\* The difference: none at first sight, all of it when the total went back.
Delta(kept, seen) ==
  [c \in DOMAIN seen |-> IF c \notin DOMAIN kept THEN 0
                         ELSE IF seen[c] >= kept[c] THEN seen[c] - kept[c]
                         ELSE seen[c]]

Load(h) ==
  /\ handler[h].pc = "fetched"
  /\ handler' = [handler EXCEPT ![h].pc = "loaded", ![h].delta = Delta(file, handler[h].seen)]
  /\ LET seen == handler[h].seen IN
     excuses' = excuses
       \cup Excused("first", \E c \in DOMAIN seen \ DOMAIN file : seen[c] > 0)
       \cup Excused("outrun", \E c \in handler[h].restarted \cap DOMAIN file :
                                c \in DOMAIN seen /\ seen[c] >= file[c] /\ file[c] > 0)
  /\ UNCHANGED <<octets, file, charged, starts, asks, passed, restarted>>

\* Clients the process does not know are dropped from the file; if it cannot
\* be written, the same difference is answered again next time.
\* Mutant: a total already in the file is not replaced.
KeepsFirst(h) ==
  /\ handler[h].pc = "loaded"
  /\ file' = file @@ handler[h].seen
  /\ restarted' = IF handler[h].cut THEN Known ELSE {}
  /\ handler' = [handler EXCEPT ![h].pc = "answered"]
  /\ UNCHANGED <<octets, charged, starts, asks, passed, excuses>>

Save(h) ==
  /\ handler[h].pc = "loaded"
  /\ \/ /\ file' = handler[h].seen
        /\ restarted' = IF handler[h].cut THEN Known ELSE {}
        /\ UNCHANGED excuses
     \/ /\ excuses' = excuses \cup {"unsaved"}
        /\ UNCHANGED <<file, restarted>>
  /\ handler' = [handler EXCEPT ![h].pc = "answered"]
  /\ UNCHANGED <<octets, charged, starts, asks, passed>>

\* The answer is added to the rows of the clients ...
Charge(h) ==
  /\ handler[h].pc = "answered"
  /\ charged' = [c \in Clients |-> charged[c] +
       IF c \in DOMAIN handler[h].delta THEN handler[h].delta[c] ELSE 0]
  /\ handler' = [handler EXCEPT ![h] = NoHandler]
  /\ UNCHANGED <<octets, file, starts, asks, passed, restarted, excuses>>

\* ... or lost, or was only to be shown.
Forget(h) ==
  /\ handler[h].pc = "answered"
  /\ handler' = [handler EXCEPT ![h] = NoHandler]
  /\ excuses' = excuses \cup Excused("unused",
       \E c \in DOMAIN handler[h].delta : handler[h].delta[c] > 0)
  /\ UNCHANGED <<octets, file, charged, starts, asks, passed, restarted>>

Next ==
  \/ \E c \in Clients : Moves(c)
  \/ Starts
  \/ \E h \in Handlers : Fetch(h) \/ Load(h) \/ Save(h) \/ Charge(h) \/ Forget(h)

Spec == Init /\ [][Next]_vars

-----------------------------------------------------------------------------
TypeOK ==
  /\ Known \subseteq Clients /\ DOMAIN file \subseteq Clients
  /\ restarted \subseteq Known
  /\ charged \in [Clients -> Nat]

(* Between two questions a client has been charged for all that passed     *)
(* except what the next answer will bring, whatever totals were set back;  *)
(* the ways to lose or repeat some are those the code has: a total at      *)
(* first sight, a process stopped before it was asked, a new total that    *)
(* has outrun the old one, an answer lost or only shown, questions at the  *)
(* same time, and a file that was not written (stats_merge.go:146).        *)
SidecarChargedExactly ==
  excuses = {} /\ (\A h \in Handlers : Idle(h)) =>
    \A c \in Clients : passed[c] = charged[c] + Pending(c)

(* A client is charged twice for the same only when two questions overlap, *)
(* as a retry and the request it replaces do, or when the file of totals   *)
(* could not be written (stats_merge.go:129).                              *)
NeverChargedTwice ==
  excuses \cap {"overlap", "unsaved"} = {} =>
    \A c \in Clients : charged[c] <= passed[c]

-----------------------------------------------------------------------------
(* Why the two hold (AccountedFor is inductive).                           *)

IsTotals(f) == DOMAIN f \subseteq Clients /\ f \in [DOMAIN f -> Nat]

IsAnswer(r) ==
  /\ r \in [pc : {"idle", "fetched", "loaded", "answered"}, seen : {r.seen},
           delta : {r.delta}, restarted : SUBSET Clients, cut : BOOLEAN]
  /\ IsTotals(r.seen) /\ IsTotals(r.delta)

Types ==
  /\ IsTotals(octets) /\ IsTotals(file)
  /\ handler = [h \in Handlers |-> handler[h]] /\ \A h \in Handlers : IsAnswer(handler[h])
  /\ charged \in [Clients -> Nat] /\ passed \in [Clients -> Nat]
  /\ restarted \subseteq Known

(* What a handler has seen of a client that nobody was charged for.        *)
Worth(h, c) ==
  IF c \notin DOMAIN handler[h].seen THEN 0
  ELSE IF c \in handler[h].restarted THEN handler[h].seen[c]
  ELSE handler[h].seen[c] - Filed(c)

Answered(h, c) == IF c \in DOMAIN handler[h].delta THEN handler[h].delta[c] ELSE 0

(* What a handler alone still knows of.                                    *)
Share(h, c) ==
  CASE handler[h].pc = "fetched" /\ handler[h].cut -> Worth(h, c)
    [] handler[h].pc = "loaded" /\ handler[h].cut -> Answered(h, c)
    [] handler[h].pc = "answered" -> Answered(h, c)
    [] OTHER -> 0

Shares(c) == Total([h \in Handlers |-> Share(h, c)])

OneAtWork == \A g, h \in Handlers : Busy(g) /\ Busy(h) => g = h

(* A handler at work knows the process as it is, or that it was replaced.  *)
InTouch(h) ==
  /\ IF handler[h].cut THEN restarted = Known
     ELSE /\ DOMAIN handler[h].seen = Known /\ handler[h].restarted = restarted
          /\ \A c \in Known : handler[h].seen[c] <= octets[c]
  /\ \A c \in (DOMAIN handler[h].seen \cap DOMAIN file) \ handler[h].restarted :
       file[c] <= handler[h].seen[c]
  /\ handler[h].pc = "loaded" =>
       \A c \in Clients :
         /\ Answered(h, c) <= Worth(h, c)
         /\ excuses = {} => Answered(h, c) = Worth(h, c)

(* No total of the process is behind the file's but one that was set back. *)
Ahead == \A c \in (Known \cap DOMAIN file) \ restarted : file[c] <= octets[c]

Even(c) ==
  /\ charged[c] + Shares(c) + Pending(c) <= passed[c]
  /\ excuses = {} => charged[c] + Shares(c) + Pending(c) = passed[c]

AccountedFor ==
  /\ Types
  /\ excuses \cap {"overlap", "unsaved"} = {} =>
       /\ OneAtWork /\ Ahead
       /\ \A h \in Handlers : Busy(h) => InTouch(h)
       /\ \A c \in Clients : Even(c)
=============================================================================
