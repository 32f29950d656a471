------------------------------- MODULE Fleet -------------------------------
(***************************************************************************)
(* Multi-node mode: what the panel wants its workers to serve and what it  *)
(* tells them (web/service/node.go, inbound.go, xray.go and their          *)
(* controllers).                                                           *)
(*                                                                         *)
(* A change in the database reaches a worker by a hot call about one thing *)
(* (an inbound, or the rule that blocks a client's address) or by a full   *)
(* configuration.  Calls are made from goroutines without any order; a     *)
(* call that fails is logged and forgotten.  A worker executes a hot call  *)
(* only while its core runs, and keeps the result in its config file (see  *)
(* NodeManager for the worker's side).  The client of the rule is a member *)
(* of every inbound.                                                       *)
(***************************************************************************)
EXTENDS Naturals, FiniteSets

CONSTANTS Nodes, Inbounds, Ports, Rule,
          Given,        \* inbound_node_mappings at first
          Profiled,     \* nodes with a core profile of their own
          Blocks,       \* whether addresses get blocked in this instance
          MaxAsks, MaxEdits, MaxFaults, MaxStops

Absent == [port |-> 0, ver |-> 0]
Deleted == [port |-> 0, ver |-> 1]   \* ids are not used again
Content == [port : Ports, ver : 1..MaxEdits + 1] \cup {Absent, Deleted}
Things == Inbounds \cup {Rule}

\* What an instance has to fulfil.  Port 0 is no port.
FleetAssumption ==
  /\ Ports \subseteq Nat \ {0} /\ Ports # {} /\ Rule \notin Inbounds
  /\ Given \subseteq Inbounds \X Nodes /\ MaxEdits \in Nat

VARIABLES
  row,       \* inbounds: content, Absent before there is one
  enabled,   \* inbounds.enable
  assigned,  \* inbound_node_mappings
  nodes,     \* rows of nodes
  on,        \* nodes.enable
  blocked,   \* the client's address is blocked
  asks,      \* assignments between their check and their first write
  need,      \* isNeedXrayRestart
  asked,     \* a RestartXrayAsync that waits for the lock
  pushing,   \* nodes of the push under the lock that have no configuration built yet
  block,     \* the goroutine of ApplySessionIPBlockHotAfterDB
  calls,     \* requests on their way to workers
  conf,      \* what each worker has saved
  running,   \* workers whose core runs
  owed,      \* ghost: what a worker is known not to have been told
  edits, faults, stops   \* bounds

vars == <<row, enabled, assigned, nodes, on, blocked, asks, need, asked, pushing,
          block, calls, conf, running, owed, edits, faults, stops>>
db == <<row, enabled, assigned, nodes, on, blocked>>
worker == <<conf, running>>

NoBlock == [all |-> {}, todo |-> {}, failed |-> {}, busy |-> FALSE]

Pairs(ns, xs) == ns \X xs
At(i) == {n \in Nodes : <<i, n>> \in assigned}
Exists(i) == row[i].port # 0

\* buildNodeWorkerConfigJSON: the enabled inbounds of the node, and the rule if
\* one of them has the client.
On(n) == {i \in Inbounds : Exists(i) /\ enabled[i] /\ <<i, n>> \in assigned}
Wanted(n) ==
  [x \in Things |->
     IF x = Rule THEN (IF blocked /\ On(n) # {} THEN [port |-> 0, ver |-> 1] ELSE Absent)
     ELSE IF x \in On(n) THEN row[x] ELSE Absent]

Empty == [x \in Things |-> Absent]
Blocked(b) == IF b THEN [port |-> 0, ver |-> 1] ELSE Absent

Init ==
  /\ row = [i \in Inbounds |-> IF \E n \in Nodes : <<i, n>> \in Given
              THEN [port |-> CHOOSE p \in Ports : TRUE, ver |-> 1] ELSE Absent]
  /\ enabled = [i \in Inbounds |-> TRUE]
  /\ assigned = Given /\ nodes = Nodes /\ on = Nodes /\ blocked = FALSE
  /\ asks = {} /\ need = FALSE /\ asked = FALSE /\ pushing = {} /\ block = NoBlock
  /\ calls = {}
  /\ conf = [n \in Nodes |-> Wanted(n)]
  /\ running = Nodes /\ owed = {}
  /\ edits = 0 /\ faults = 0 /\ stops = 0

---------------------------------------------------------------------------
(* Calls.  `old` holds the things that were changed again after the call   *)
(* was made (whether a full one needs the rule depends on the inbounds).   *)

Hot(kind, ns, x, give) ==
  {[kind |-> kind, node |-> n, on |-> x, give |-> [Empty EXCEPT ![x] = give],
    old |-> {}] : n \in ns}
Full(n) ==
  [kind |-> "apply", node |-> n, on |-> Rule, give |-> Wanted(n), old |-> {}]

Aged(x) ==
  {IF c.kind = "apply" THEN [c EXCEPT !.old = @ \cup {x, Rule}]
   ELSE IF c.on = x THEN [c EXCEPT !.old = @ \cup {x}] ELSE c : c \in calls}

Edit == edits < MaxEdits /\ edits' = edits + 1
Fault == faults < MaxFaults /\ faults' = faults + 1

\* Nothing that lies between the database and the workers moves.
Idle == UNCHANGED <<asks, need, asked, pushing, block>>

---------------------------------------------------------------------------
(* Inbounds.                                                               *)

\* In multi-node mode the panel's own core does not run, and no worker is told:
\* an assignment follows.
AddInbound(i, p) ==
  /\ Edit /\ row[i] = Absent
  /\ row' = [row EXCEPT ![i] = [port |-> p, ver |-> edits + 1]]
  /\ enabled' = [enabled EXCEPT ![i] = TRUE]
  /\ calls' = Aged(i)
  /\ UNCHANGED <<assigned, nodes, on, blocked, worker, owed, faults, stops>> /\ Idle

\* UpdateInbound, the same port: the workers are told, also those of nodes that
\* are disabled, unless the inbound is now disabled: then nobody is.
UpdateInbound(i, e) ==
  /\ Edit /\ Exists(i)
  /\ row' = [row EXCEPT ![i].ver = edits + 1]
  /\ enabled' = [enabled EXCEPT ![i] = e]
  /\ IF e
     THEN /\ calls' = Aged(i) \cup Hot("update", At(i), i, row'[i])
          /\ owed' = owed \cup IF enabled[i] THEN {} ELSE Pairs(At(i), {Rule})
     ELSE /\ calls' = Aged(i)
          /\ owed' = owed \cup Pairs(At(i), {i})
  /\ UNCHANGED <<assigned, nodes, on, blocked, worker, faults, stops>> /\ Idle

\* With another port it is left to the next full push.  (Mutant: nobody asks
\* for one.)
MovePortQuietly(i, p) ==
  /\ Edit /\ Exists(i) /\ row[i].port # p
  /\ row' = [row EXCEPT ![i] = [port |-> p, ver |-> edits + 1]]
  /\ calls' = Aged(i)
  /\ UNCHANGED <<enabled, assigned, nodes, on, blocked, worker, owed, faults, stops>> /\ Idle
MovePort(i, p) ==
  /\ Edit /\ Exists(i) /\ row[i].port # p
  /\ row' = [row EXCEPT ![i] = [port |-> p, ver |-> edits + 1]]
  /\ calls' = Aged(i) /\ need' = TRUE
  /\ UNCHANGED <<enabled, assigned, nodes, on, blocked, worker, owed, asks, asked,
                 pushing, block, faults, stops>>

\* DelInbound asks the workers of an enabled inbound only.
DelInbound(i) ==
  /\ Edit /\ Exists(i)
  /\ row' = [row EXCEPT ![i] = Deleted]
  /\ assigned' = {a \in assigned : a[1] # i}
  /\ calls' = Aged(i) \cup IF enabled[i] THEN Hot("remove", At(i), i, Absent) ELSE {}
  /\ owed' = owed \cup IF enabled[i] THEN {} ELSE Pairs(At(i), {i})
  /\ UNCHANGED <<enabled, nodes, on, blocked, worker, faults, stops>> /\ Idle

---------------------------------------------------------------------------
(* Assignments.                                                            *)

\* No node may be assigned to another inbound with the same port.
Conflict(i, ns) ==
  \E n \in ns, j \in Inbounds \ {i} :
    <<j, n>> \in assigned /\ Exists(j) /\ row[j].port = row[i].port
CheckAssign(i, ns) ==
  /\ Cardinality(asks) < MaxAsks /\ Edit
  /\ Exists(i) /\ ~Conflict(i, ns)
  /\ asks' = asks \cup {[inbound |-> i, nodes |-> ns]}
  /\ UNCHANGED <<db, need, asked, pushing, block, calls, worker, owed, faults, stops>>

\* The mappings are replaced and the difference is sent.  (Mutant: only what
\* was added is.)
SendAdded(i, gone, new) ==
  calls' = Aged(i) \cup IF enabled[i] THEN Hot("assign", new, i, row[i]) ELSE {}
Send(i, gone, new) ==
  calls' = Aged(i) \cup Hot("remove", gone, i, Absent)
             \cup IF enabled[i] THEN Hot("assign", new, i, row[i]) ELSE {}
AssignInboundToNodes(a) ==
  LET i == a.inbound
      gone == At(i) \ a.nodes
      new == a.nodes \ At(i)
  IN /\ asks' = asks \ {a}
     /\ assigned' = {m \in assigned : m[1] # i} \cup Pairs({i}, a.nodes)
     \* An inbound deleted meanwhile gets mappings all the same.
     /\ IF Exists(i) THEN Send(i, gone, new) ELSE calls' = Aged(i)
     \* A hot inbound comes without the rule, or finds an old one.
     /\ owed' = owed \cup Pairs(new, {Rule})
     /\ UNCHANGED <<row, enabled, nodes, on, blocked, need, asked, pushing, block,
                    worker, edits, faults, stops>>

\* A mapping cannot be written: the old ones are gone, some new ones are there,
\* and no worker is told.
AssignFails(a) ==
  /\ Fault /\ asks' = asks \ {a}
  /\ \E some \in SUBSET a.nodes :
       /\ some # a.nodes
       /\ assigned' = {m \in assigned : m[1] # a.inbound} \cup Pairs({a.inbound}, some)
       /\ owed' = owed \cup Pairs((At(a.inbound) \ some) \cup (some \ At(a.inbound)),
                                  {a.inbound, Rule})
  /\ calls' = Aged(a.inbound)
  /\ UNCHANGED <<row, enabled, nodes, on, blocked, need, asked, pushing, block,
                 worker, edits, stops>>

\* An empty list: the mappings go and no worker is told.
UnassignInboundFromNode(i) ==
  /\ Edit /\ At(i) # {}
  /\ assigned' = {m \in assigned : m[1] # i}
  /\ owed' = owed \cup Pairs(At(i), {i})
  /\ calls' = Aged(i)
  /\ UNCHANGED <<row, enabled, nodes, on, blocked, worker, faults, stops>> /\ Idle

---------------------------------------------------------------------------
(* Nodes.                                                                  *)

\* The worker of a deleted node is told nothing and goes on.
DeleteNode(n) ==
  /\ Edit /\ n \in nodes
  /\ nodes' = nodes \ {n} /\ on' = on \ {n}
  /\ assigned' = {m \in assigned : m[2] # n}
  /\ UNCHANGED <<row, enabled, blocked, calls, worker, owed, faults, stops>> /\ Idle

\* updateNode: a node that is disabled is stopped, one that is enabled pushed to.
SetNodeEnabled(n) ==
  /\ Edit /\ n \in nodes
  /\ IF n \in on
     THEN /\ on' = on \ {n} /\ UNCHANGED asked
          /\ calls' = calls \cup Hot("stop", {n}, Rule, Absent)
     ELSE on' = on \cup {n} /\ asked' = TRUE /\ UNCHANGED calls
  /\ UNCHANGED <<row, enabled, assigned, nodes, blocked, asks, need, pushing, block,
                 worker, owed, faults, stops>>

StopXrayOnNode(n) ==
  /\ stops < MaxStops /\ stops' = stops + 1
  /\ n \in on /\ running' = running \ {n}
  /\ UNCHANGED <<db, calls, conf, owed, edits, faults>> /\ Idle

\* ForceReloadNode, ReloadAllNodes; also a worker that comes back.
ForceReloadNode(n) ==
  /\ n \notin running /\ running' = running \cup {n}
  /\ UNCHANGED <<db, calls, conf, owed, edits, faults, stops>> /\ Idle

---------------------------------------------------------------------------
(* The full push.                                                          *)

\* Only enabled nodes with an inbound or a profile of their own.
NeedingPush == {n \in on : On(n) # {} \/ n \in Profiled}

\* RestartXray, for the job that finds the flag or for one that asked: under the
\* lock until every call of the push is answered.
LockFree == pushing = {} /\ \A c \in calls : c.kind # "apply"
RestartXray ==
  /\ LockFree /\ (need \/ asked)
  /\ \/ need /\ need' = FALSE /\ UNCHANGED asked
     \/ asked /\ asked' = FALSE /\ UNCHANGED need
  /\ pushing' = NeedingPush
  /\ UNCHANGED <<db, asks, block, calls, worker, owed, edits, faults, stops>>

\* Each node's goroutine builds its configuration and sends it.
Push(n) ==
  /\ n \in pushing /\ pushing' = pushing \ {n}
  /\ calls' = calls \cup {Full(n)}
  /\ UNCHANGED <<db, asks, need, asked, block, worker, owed, edits, faults, stops>>

---------------------------------------------------------------------------
(* A blocked address.                                                      *)

SetSessionIPBlocked ==
  /\ Blocks /\ ~block.busy /\ Edit
  /\ blocked' = ~blocked
  /\ block' = [all |-> nodes, todo |-> nodes, failed |-> {}, busy |-> TRUE]
  /\ calls' = Aged(Rule)
  /\ UNCHANGED <<row, enabled, assigned, nodes, on, asks, need, asked, pushing,
                 worker, owed, faults, stops>>

\* One worker after the other is told, the disabled ones too.
HotRule(n) ==
  /\ n \in block.todo
  /\ \/ /\ n \in running
        /\ conf' = [conf EXCEPT ![n][Rule] = Blocked(blocked)]
        /\ block' = [block EXCEPT !.todo = @ \ {n}]
        /\ owed' = owed \ {<<n, Rule>>}
        /\ UNCHANGED faults
     \/ /\ (n \notin running /\ UNCHANGED faults) \/ Fault
        /\ block' = [block EXCEPT !.todo = @ \ {n}, !.failed = @ \cup {n}]
        /\ UNCHANGED <<conf, owed>>
  /\ UNCHANGED <<db, asks, need, asked, pushing, calls, running, edits, stops>>

\* Those that failed get their full configuration, which starts their core;
\* if none was reached a push is asked for.  (Mutant: they are let be.)
GiveUpOnFailed ==
  /\ block.busy /\ block.todo = {} /\ block' = NoBlock
  /\ UNCHANGED <<db, asks, need, asked, pushing, calls, worker, owed, edits, faults, stops>>
FallBack ==
  /\ block.busy /\ block.todo = {}
  /\ IF block.failed \in {{}, block.all}
     THEN block' = NoBlock /\ asked' = (asked \/ block.failed # {}) /\ UNCHANGED calls
     ELSE \E n \in block.failed :
            /\ calls' = calls \cup {Full(n)}
            /\ block' = [block EXCEPT !.failed = @ \ {n},
                                      !.busy = @ /\ block.failed # {n}, !.all = {}]
            /\ UNCHANGED asked
  /\ UNCHANGED <<db, asks, need, pushing, worker, owed, edits, faults, stops>>

---------------------------------------------------------------------------
(* What becomes of a call.                                                 *)

\* An old call leaves the worker behind, another one settles what it is about.
Settle(c, xs) ==
  owed' = (owed \ Pairs({c.node}, xs)) \cup Pairs({c.node}, xs \cap c.old)

Deliver(c) ==
  LET n == c.node
  IN /\ calls' = calls \ {c}
     /\ CASE c.kind = "apply" ->
               /\ conf' = [conf EXCEPT ![n] = c.give]
               /\ running' = running \cup {n} /\ Settle(c, Things)
          [] c.kind = "stop" ->
               running' = running \ {n} /\ UNCHANGED <<conf, owed>>
          [] OTHER ->
               /\ n \in running
               /\ conf' = [conf EXCEPT ![n][c.on] = c.give[c.on]]
               /\ Settle(c, {c.on}) /\ UNCHANGED running
     /\ UNCHANGED <<db, edits, faults, stops>> /\ Idle

\* The core does not run: a removal or an update is dropped, an assignment
\* falls back to a full configuration, whether the node is enabled or not.
Refuse(c) ==
  /\ c.kind \in {"update", "remove", "assign"} /\ c.node \notin running
  /\ IF c.kind = "assign"
     THEN calls' = (calls \ {c}) \cup {Full(c.node)} /\ UNCHANGED owed
     ELSE calls' = calls \ {c} /\ owed' = owed \cup {<<c.node, c.on>>}
  /\ UNCHANGED <<db, worker, edits, faults, stops>> /\ Idle

\* The request is lost; nobody repeats it.
Lose(c) ==
  /\ Fault /\ calls' = calls \ {c}
  /\ owed' = owed \cup Pairs({c.node}, IF c.kind = "apply" THEN Things ELSE {c.on})
  /\ UNCHANGED <<db, worker, edits, stops>> /\ Idle

Next ==
  \/ \E i \in Inbounds :
       \/ DelInbound(i) \/ UnassignInboundFromNode(i)
       \/ \E p \in Ports : AddInbound(i, p) \/ MovePort(i, p)
       \/ \E e \in BOOLEAN : UpdateInbound(i, e)
       \/ \E ns \in SUBSET nodes \ {{}} : CheckAssign(i, ns)
  \/ \E a \in asks : AssignInboundToNodes(a) \/ AssignFails(a)
  \/ \E n \in Nodes :
       \/ DeleteNode(n) \/ SetNodeEnabled(n) \/ StopXrayOnNode(n) \/ ForceReloadNode(n)
       \/ Push(n) \/ HotRule(n)
  \/ RestartXray \/ SetSessionIPBlocked \/ FallBack
  \/ \E c \in calls : Deliver(c) \/ Refuse(c) \/ Lose(c)

Spec == Init /\ [][Next]_vars

---------------------------------------------------------------------------

TypeOK ==
  /\ row \in [Inbounds -> Content] /\ enabled \in [Inbounds -> BOOLEAN]
  /\ assigned \subseteq Inbounds \X Nodes /\ on \subseteq nodes /\ nodes \subseteq Nodes
  /\ need \in BOOLEAN /\ asked \in BOOLEAN /\ blocked \in BOOLEAN
  /\ pushing \cup running \cup block.todo \cup block.failed \subseteq Nodes
  /\ \A c \in calls : c.node \in Nodes /\ c.old \subseteq Things
  /\ owed \subseteq Nodes \X Things

\* The goroutine of a blocked address still has the node before it.
StillToldOf(n, x) ==
  x = Rule /\ (n \in block.todo \/ n \in block.failed)
Pending(n, x) ==
  \/ \E c \in calls : c.node = n /\ (c.kind = "apply" \/ c.on = x)
  \/ n \in pushing \/ ((need \/ asked) /\ n \in NeedingPush)
  \/ StillToldOf(n, x)
Differs(n, x) ==
  conf[n][x] # Wanted(n)[x] /\ (x = Rule => On(n) # {})

\* A worker of an enabled node serves something else than the panel wants only
\* while a call or a push is on its way, or for a reason on record: a call that
\* was lost or found no core, two that changed places, a mapping that could not
\* be written, an inbound that was disabled, deleted while disabled or taken
\* from all its nodes, or, for the rule, an inbound that was enabled or got
\* another node.
BehindForAReason ==
  \A n \in on, x \in Things : Differs(n, x) => <<n, x>> \in owed \/ Pending(n, x)

---------------------------------------------------------------------------
(* What makes BehindForAReason inductive (LogStreamProofs).                  *)

\* The things a call tells its worker about.
About(c) ==
  CASE c.kind = "apply" -> Things
    [] c.kind = "stop" -> {}
    [] OTHER -> {c.on}

Call == [kind : {"apply", "stop", "update", "remove", "assign"}, node : Nodes, on : Things,
         give : [Things -> Content], old : SUBSET Things]

Shapes ==
  /\ edits \in 0..MaxEdits
  /\ asks \subseteq [inbound : Inbounds, nodes : SUBSET Nodes]
  /\ calls \subseteq Call
  /\ \A c \in calls : c.kind \in {"update", "remove", "assign"} => c.on \in Inbounds
  /\ conf \in [Nodes -> [Things -> Content]]
  /\ block \in [all : SUBSET Nodes, todo : SUBSET Nodes, failed : SUBSET Nodes,
                busy : BOOLEAN]
  /\ ~block.busy => block.todo = {} /\ block.failed = {}
  /\ {a.inbound : a \in asks} \cup {m[1] : m \in assigned} \subseteq {i \in Inbounds : row[i] # Absent}

\* What a call tells and nobody has changed since is what the panel wants.
CallsAreCurrent ==
  \A c \in calls : c.node \in nodes =>
    \A x \in About(c) \ c.old : c.give[x] = Wanted(c.node)[x]

OnTheWay(n, x) ==
  \/ \E c \in calls : c.node = n /\ x \in About(c)
  \/ n \in pushing
  \/ StillToldOf(n, x)

\* A push reaches an enabled node for the sake of x.
DueWithPush(n, x) == x \in On(n) \cup {Rule} /\ (n \in on => need \/ asked)

\* BehindForAReason for the disabled nodes too: what a disabled node has
\* missed comes with the push that follows when it is enabled.
Accounted(n, x) ==
  Differs(n, x) => <<n, x>> \in owed \/ OnTheWay(n, x) \/ DueWithPush(n, x)
AllAccounted == \A n \in nodes, x \in Things : Accounted(n, x)

FleetInv == TypeOK /\ Shapes /\ CallsAreCurrent /\ AllAccounted
=============================================================================
