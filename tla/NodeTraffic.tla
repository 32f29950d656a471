---------------------------- MODULE NodeTraffic ----------------------------
(***************************************************************************)
(* The traffic of the workers, collected by the panel (web/service/node.go *)
(* CollectNodeStats, job/collect_node_stats_job.go).                       *)
(*                                                                         *)
(* A run asks every node for the counters of its core, to be set to zero   *)
(* as they are read, and adds what it gets to the rows of the nodes, of    *)
(* the inbounds and, in one transaction, of the clients and of each client *)
(* on each node.  A request may be lost on its way, its answer may be lost *)
(* on the way back, or it may reach the worker long after the panel gave   *)
(* it up and tried again.  Every client is on every inbound; quotas are    *)
(* the subject of Clients.                                                 *)
(***************************************************************************)
EXTENDS Naturals, FiniteSets, Functions

CONSTANTS Nodes, Clients, Inbounds,
          Given,        \* the inbounds assigned to nodes at first
          MaxTries,     \* attempts of GetNodeStats (3, or 5 for slow nodes)
          MaxMoved,     \* bytes moved in a behaviour
          MaxRuns,      \* runs of the job in a behaviour
          MaxEvents     \* restarts, crashes, resets and reassignments

\* Parts of a fleet are finite; a node is asked at least once.
TrafficAssumption ==
  /\ IsFiniteSet(Nodes) /\ IsFiniteSet(Clients) /\ IsFiniteSet(Inbounds)
  /\ Nodes \cap Clients = {} /\ Given \subseteq Nodes \X Inbounds
  /\ MaxTries \in Nat \ {0} /\ MaxRuns \in Nat /\ MaxEvents \in Nat

VARIABLES
  alive,      \* the nodes whose core runs
  tags,       \* the core's counters per inbound ...
  users,      \* ... and per client
  late,       \* requests given up by the panel that a worker has yet to see
  assigned,   \* inbound_node_mappings
  run,        \* the run of CollectNodeStats
  nodeRow,    \* nodes.up + down
  inboundRow, \* inbounds.up + down
  client,     \* clients.up + down
  perNode,    \* client_node_traffics
  resetting,  \* clients whose rows per node are yet to be deleted
  runs, events,
  moved, carried, due, lossy, torn   \* ghosts, see the properties

vars == <<alive, tags, users, late, assigned, run, nodeRow, inboundRow, client,
          perNode, resetting, runs, events, moved, carried, due, lossy, torn>>
rows == <<nodeRow, inboundRow, client, perNode, resetting>>
worker == <<alive, tags, users, late>>
ghosts == <<moved, carried, due, lossy, torn>>

Zero(S) == [s \in S |-> 0]
Total(f) == FoldFunction(+, 0, f)
Plus(f, g) == [s \in DOMAIN f |-> f[s] + g[s]]

NoRun == [pc |-> "idle", ask |-> [n \in Nodes |-> 0], seen |-> 0,
          at |-> {}, todo |-> {}, node |-> Zero(Nodes), tag |-> Zero(Inbounds),
          user |-> [n \in Nodes |-> Zero(Clients)],
          client |-> Zero(Clients), per |-> [n \in Nodes |-> Zero(Clients)]]

Init ==
  /\ alive = Nodes
  /\ tags = [n \in Nodes |-> Zero(Inbounds)]
  /\ users = [n \in Nodes |-> Zero(Clients)]
  /\ late = Zero(Nodes)
  /\ assigned = Given
  /\ run = NoRun
  /\ nodeRow = Zero(Nodes) /\ inboundRow = Zero(Inbounds)
  /\ client = Zero(Clients) /\ perNode = [n \in Nodes |-> Zero(Clients)]
  /\ resetting = {} /\ runs = 0 /\ events = 0
  /\ moved = Zero(Nodes) /\ carried = Zero(Inbounds) /\ due = Zero(Clients)
  /\ lossy = FALSE /\ torn = {}

---------------------------------------------------------------------------
(* The workers.                                                            *)

\* A client moves a byte through an inbound of a node.
Send(n, c, i) ==
  /\ n \in alive /\ Total(carried) < MaxMoved
  /\ tags' = [tags EXCEPT ![n][i] = @ + 1]
  /\ users' = [users EXCEPT ![n][c] = @ + 1]
  /\ moved' = [moved EXCEPT ![n] = @ + 1]
  /\ carried' = [carried EXCEPT ![i] = @ + 1]
  /\ due' = [due EXCEPT ![c] = @ + 1]
  /\ UNCHANGED <<alive, late, assigned, run, rows, runs, events, lossy, torn>>

Happens == events < MaxEvents /\ events' = events + 1

\* A core stops, and its counters are gone, or starts.
CoreFlips(n) ==
  /\ Happens
  /\ alive' = IF n \in alive THEN alive \ {n} ELSE alive \cup {n}
  /\ tags' = [tags EXCEPT ![n] = Zero(Inbounds)]
  /\ users' = [users EXCEPT ![n] = Zero(Clients)]
  /\ lossy' = (lossy \/ Total(users[n]) > 0)
  /\ UNCHANGED <<late, assigned, run, rows, runs, moved, carried, due, torn>>

\* What the worker does for a request with reset=true: the counters as
\* answered are zero.  (Mutant: reset=false.)
Peek(n) == UNCHANGED <<tags, users>>
TakeStats(n) ==
  /\ tags' = [tags EXCEPT ![n] = Zero(Inbounds)]
  /\ users' = [users EXCEPT ![n] = Zero(Clients)]

\* A request the panel has given up reaches the worker at last.
LateStats(n) ==
  /\ late[n] > 0
  /\ late' = [late EXCEPT ![n] = @ - 1]
  /\ IF n \in alive THEN TakeStats(n) ELSE UNCHANGED <<tags, users>>
  /\ lossy' = (lossy \/ Total(users[n]) > 0)
  /\ UNCHANGED <<alive, assigned, run, rows, runs, events, moved, carried,
                 due, torn>>

---------------------------------------------------------------------------
(* The run: asking the nodes.  ask[n] is -> 1 for /health, k + 1 for the   *)
(* k-th attempt at /api/v1/stats, 0 when the node is done with.            *)

\* The job's mutex lets one run go at a time.
Collect ==
  /\ run.pc = "idle" /\ runs < MaxRuns
  /\ runs' = runs + 1
  /\ run' = [NoRun EXCEPT !.pc = "ask", !.ask = [n \in Nodes |-> 1]]
  /\ UNCHANGED <<worker, assigned, rows, events, ghosts>>

\* A node whose core does not run is skipped, one that does not answer is not.
GetNodePublicHealth(n) ==
  /\ run.ask[n] = 1
  /\ \E next \in {2} \cup IF n \in alive THEN {} ELSE {0} :
       run' = [run EXCEPT !.ask[n] = next]
  /\ UNCHANGED <<worker, assigned, rows, runs, events, ghosts>>

GivesUp(n) == IF run.ask[n] <= MaxTries THEN run.ask[n] + 1 ELSE 0

\* The answer arrives and is added up: inbounds assigned to the node, or any
\* known one if the node has none assigned, and all clients.
Answered(n) ==
  LET mine == {i \in Inbounds : <<n, i>> \in assigned}
      counted == [i \in Inbounds |-> IF mine = {} \/ i \in mine THEN tags[n][i] ELSE 0]
  IN /\ run.ask[n] > 1 /\ n \in alive
     /\ TakeStats(n)
     /\ run' = [run EXCEPT !.ask[n] = 0, !.node[n] = Total(counted),
                           !.tag = Plus(@, counted), !.user[n] = users[n]]
     /\ UNCHANGED <<alive, late, assigned, rows, runs, events, ghosts>>

\* The worker has answered and the answer is lost or cannot be decoded.
AnswerLost(n) ==
  /\ run.ask[n] > 1 /\ n \in alive
  /\ TakeStats(n)
  /\ \E next \in {0, GivesUp(n)} : run' = [run EXCEPT !.ask[n] = next]
  /\ lossy' = (lossy \/ Total(users[n]) > 0)
  /\ UNCHANGED <<alive, late, assigned, rows, runs, events, moved, carried,
                 due, torn>>

\* Refused, not ready, or given up while the request is still on its way.
NoAnswer(n) ==
  /\ run.ask[n] > 1
  /\ \E next \in {0, GivesUp(n)} : run' = [run EXCEPT !.ask[n] = next]
  /\ \/ late' = late
     \/ late[n] = 0 /\ late' = [late EXCEPT ![n] = 1]
  /\ UNCHANGED <<alive, tags, users, assigned, rows, runs, events, ghosts>>

\* All nodes are done with.
AllAnswered ==
  /\ run.pc = "ask" /\ \A n \in Nodes : run.ask[n] = 0
  /\ run' = [run EXCEPT !.pc = "nodes", !.todo = {n \in Nodes : run.node[n] > 0}]
  /\ UNCHANGED <<worker, assigned, rows, runs, events, ghosts>>

---------------------------------------------------------------------------
(* The run: adding to the rows.                                            *)

\* UpdateNodeTraffic reads the row of a node ...
ReadNode(n) ==
  /\ run.pc = "nodes" /\ n \in run.todo
  /\ run' = [run EXCEPT !.pc = "node", !.at = {n}, !.seen = nodeRow[n],
                        !.todo = @ \ {n}]
  /\ UNCHANGED <<worker, assigned, rows, runs, events, ghosts>>

\* ... and writes the sum, or fails, and the run goes on.
UpdateNodeTraffic(n) ==
  /\ n \in run.at
  /\ nodeRow' \in {nodeRow, [nodeRow EXCEPT ![n] = run.seen + run.node[n]]}
  /\ run' = [run EXCEPT !.pc = "nodes", !.at = {}, !.seen = 0, !.node[n] = 0]
  /\ UNCHANGED <<worker, assigned, inboundRow, client, perNode, resetting,
                 runs, events, ghosts>>

\* The row of an inbound is added to in place, or not at all.
UpdateInboundTraffic ==
  /\ run.pc = "nodes" /\ run.todo = {}
  /\ \E failed \in SUBSET {i \in Inbounds : run.tag[i] > 0} :
       inboundRow' = [i \in Inbounds |->
         IF i \in failed THEN inboundRow[i] ELSE inboundRow[i] + run.tag[i]]
  /\ run' = [run EXCEPT !.pc = "clients"]
  /\ UNCHANGED <<worker, assigned, nodeRow, client, perNode, resetting, runs,
                 events, ghosts>>

\* Clients that moved something on node n and are on one of its inbounds.
Resolved(n) ==
  IF \E i \in Inbounds : <<n, i>> \in assigned
  THEN {c \in Clients : run.user[n][c] > 0} ELSE {}

UserSum == [c \in Clients |-> Total([n \in Nodes |-> run.user[n][c]])]

\* The transaction reads the rows of the clients ...
ReadClients ==
  /\ run.pc = "clients"
  /\ run' = [run EXCEPT !.pc = "commit", !.client = client, !.per = perNode]
  /\ UNCHANGED <<worker, assigned, rows, runs, events, ghosts>>

\* ... and commits them with what was moved, or is rolled back.
Charge(ok) ==
  client' = IF ok THEN [c \in Clients |-> IF UserSum[c] = 0 THEN client[c]
                                           ELSE run.client[c] + UserSum[c]]
            ELSE client

ChargedRows ==
  [n \in Nodes |-> [c \in Clients |->
     IF c \in Resolved(n) THEN run.per[n][c] + run.user[n][c] ELSE perNode[n][c]]]
ChargePerNode(ok) == perNode' = IF ok THEN ChargedRows ELSE perNode

AddClientTraffic ==
  /\ run.pc = "commit"
  /\ \E ok \in BOOLEAN :
       /\ Charge(ok) /\ ChargePerNode(ok)
       /\ lossy' = (lossy \/ ~ok)
  /\ run' = NoRun
  /\ UNCHANGED <<worker, assigned, nodeRow, inboundRow, resetting, runs,
                 events, moved, carried, due, torn>>

---------------------------------------------------------------------------
(* Whoever comes between.                                                  *)

\* What is on its way to the row of node n.
Underway(n) == Total(tags[n]) + run.node[n]

ResetNodeTraffic(n) ==
  /\ Happens
  /\ nodeRow' = [nodeRow EXCEPT ![n] = 0]
  /\ moved' = [moved EXCEPT ![n] = Underway(n)]
  /\ torn' = IF n \in run.at THEN torn \cup {n} ELSE torn \ {n}
  /\ UNCHANGED <<worker, assigned, run, inboundRow, client, perNode,
                 resetting, runs, carried, due, lossy>>

\* ResetClientTraffic: the row first ...
ResetClientTraffic(c) ==
  /\ Happens /\ c \notin resetting
  /\ client' = [client EXCEPT ![c] = 0]
  /\ resetting' = resetting \cup {c}
  /\ due' = [due EXCEPT ![c] = Total([n \in Nodes |-> users[n][c]]) + UserSum[c]]
  /\ torn' = IF run.pc = "commit" THEN torn \cup {c} ELSE torn
  /\ UNCHANGED <<worker, assigned, run, nodeRow, inboundRow, perNode, runs,
                 moved, carried, lossy>>

\* ... then its rows per node.
DeletePerNode(c) ==
  /\ c \in resetting
  /\ perNode' = [n \in Nodes |-> [perNode[n] EXCEPT ![c] = 0]]
  /\ resetting' = resetting \ {c}
  /\ torn' = IF run.pc = "commit" THEN torn \cup {c} ELSE torn
  /\ UNCHANGED <<worker, assigned, run, nodeRow, inboundRow, client, runs,
                 events, moved, carried, due, lossy>>

\* An inbound is assigned to a node or taken from it; the worker may go on
\* serving it.
Assign(n, i) ==
  /\ Happens
  /\ assigned' = IF <<n, i>> \in assigned THEN assigned \ {<<n, i>>}
                 ELSE assigned \cup {<<n, i>>}
  /\ UNCHANGED <<worker, run, rows, runs, ghosts>>

\* The panel stops in the middle of a run: what it had read is lost.
PanelCrash ==
  /\ Happens
  /\ run.pc # "idle"
  /\ run' = NoRun /\ resetting' = {}
  /\ lossy' = (lossy \/ Total(UserSum) > 0)
  /\ torn' = torn \cup resetting
  /\ UNCHANGED <<worker, assigned, nodeRow, inboundRow, client, perNode, runs,
                 moved, carried, due>>

---------------------------------------------------------------------------

CollectNodeStats ==
  \/ Collect \/ AllAnswered \/ UpdateInboundTraffic \/ ReadClients \/ AddClientTraffic
  \/ \E n \in Nodes : \/ GetNodePublicHealth(n) \/ Answered(n) \/ AnswerLost(n)
                      \/ NoAnswer(n) \/ ReadNode(n) \/ UpdateNodeTraffic(n)

Next ==
  \/ CollectNodeStats \/ PanelCrash
  \/ \E n \in Nodes : CoreFlips(n) \/ LateStats(n) \/ ResetNodeTraffic(n)
  \/ \E c \in Clients : ResetClientTraffic(c) \/ DeletePerNode(c)
  \/ \E n \in Nodes, i \in Inbounds : Assign(n, i) \/ \E c \in Clients : Send(n, c, i)

Spec == Init /\ [][Next]_vars

---------------------------------------------------------------------------

TypeOK ==
  /\ alive \subseteq Nodes /\ assigned \subseteq Nodes \X Inbounds
  /\ tags \in [Nodes -> [Inbounds -> Nat]]
  /\ users \in [Nodes -> [Clients -> Nat]]
  /\ late \in [Nodes -> {0, 1}]
  /\ run.ask \in [Nodes -> 0..(MaxTries + 1)] /\ run.todo \subseteq Nodes
  /\ resetting \subseteq Clients /\ events \in 0..MaxEvents /\ runs \in 0..MaxRuns

\* However often a request is repeated, delayed or answered in vain, no byte
\* is counted twice for a node or an inbound: since its last reset a node's
\* row has at most what the node moved, unless the reset fell between the
\* reading and the writing of that row.
CountedOnce ==
  /\ \A n \in Nodes \ torn : nodeRow[n] + run.node[n] <= moved[n]
  /\ \A i \in Inbounds : inboundRow[i] <= carried[i]

\* What the rows of a client say node by node never exceeds what the client
\* is charged for, unless a reset of the client overlapped the transaction.
PerNodeWithinClient ==
  \A c \in Clients \ (torn \cup resetting) :
    Total([n \in Nodes |-> perNode[n][c]]) <= client[c]

\* A byte a client has moved is charged, or still to be collected: it is lost
\* only with a restart of the core, an answer that did not arrive, a
\* transaction that failed or a crash of the panel.
OnlyKnownLosses ==
  ~lossy => \A c \in Clients \ torn :
    client[c] + UserSum[c] + Total([n \in Nodes |-> users[n][c]]) = due[c]

---------------------------------------------------------------------------
(* Why they hold (Booked is inductive).                                    *)

RowsOK ==
  /\ nodeRow \in [Nodes -> Nat] /\ inboundRow \in [Inbounds -> Nat]
  /\ client \in [Clients -> Nat] /\ perNode \in [Nodes -> [Clients -> Nat]]
  /\ moved \in [Nodes -> Nat] /\ carried \in [Inbounds -> Nat]
  /\ due \in [Clients -> Nat] /\ lossy \in BOOLEAN

RunOK ==
  run \in [pc : {"idle", "ask", "nodes", "node", "clients", "commit"},
           ask : [Nodes -> 0..(MaxTries + 1)], seen : Nat,
           at : SUBSET Nodes, todo : SUBSET Nodes, node : [Nodes -> Nat],
           tag : [Inbounds -> Nat], user : [Nodes -> [Clients -> Nat]],
           client : [Clients -> Nat], per : [Nodes -> [Clients -> Nat]]]

\* A node is asked before anything is booked for it.
AskedFirst ==
  /\ run.pc = "idle" => run = NoRun
  /\ run.at # {} => run.pc = "node"
  /\ \A n \in Nodes : run.ask[n] > 0 =>
       run.pc = "ask" /\ run.node[n] = 0 /\ \A c \in Clients : run.user[n][c] = 0

\* What was read still stands, but for a reset.
ReadStands ==
  /\ \A n \in run.at \ torn : run.seen = nodeRow[n]
  /\ run.pc = "commit" => \A c \in Clients \ torn :
       run.client[c] = client[c] /\ \A n \in Nodes : run.per[n][c] = perNode[n][c]

NodesOnce == \A n \in Nodes \ torn : nodeRow[n] + Underway(n) <= moved[n]

Tagged(i) == Total([n \in Nodes |-> tags[n][i]])
ToAdd(i) == IF run.pc \in {"clients", "commit"} THEN 0 ELSE run.tag[i]
InboundsOnce == \A i \in Inbounds : inboundRow[i] + ToAdd(i) + Tagged(i) <= carried[i]

Booked ==
  /\ TypeOK /\ RowsOK /\ RunOK /\ AskedFirst /\ ReadStands
  /\ NodesOnce /\ InboundsOnce /\ OnlyKnownLosses /\ PerNodeWithinClient
=============================================================================
