---------------------------- MODULE WebsocketHub ----------------------------
(***************************************************************************)
(* The panel's WebSocket hub (web/websocket/hub.go) with the pumps of each *)
(* connection (web/controller/websocket.go) and the one job that sends to  *)
(* the connections of a user without going through the hub's loop          *)
(* (web/job/collect_node_stats_job.go).                                    *)
(*                                                                         *)
(* register, unregister, broadcast and each Send are Go channels: a send   *)
(* waits for room, a select takes any branch that is ready, a send on a    *)
(* closed channel panics.  Connections come once: who comes back is a new  *)
(* client.  from, log, missed and dispatched are history.                  *)
(***************************************************************************)
EXTENDS Naturals, Sequences, FiniteSets

CONSTANTS
  Clients,       \* connections
  Own,           \* the connections of the user the job writes to
  Loop, Job,     \* who runs broadcastParallel
  RegisterCap, UnregisterCap, BroadcastCap, SendCap,  \* channel capacities
  PoolSize,      \* workerPoolSize
  MaxMessages,   \* bound on Broadcast calls
  MaxDirect      \* bound on BroadcastToUser calls

ASSUME HubAssumption ==
  /\ Own \subseteq Clients /\ Loop # Job
  /\ {RegisterCap, UnregisterCap, BroadcastCap, SendCap, PoolSize} \subseteq Nat \ {0}
  /\ MaxMessages \in Nat /\ MaxDirect \in Nat

VARIABLES
  clients,    \* h.clients
  register, unregister, broadcast,  \* the hub's channels
  send,       \* what each client's Send holds
  closed,     \* clients whose Send is closed
  read,       \* readPump of each client, after HandleWebSocket
  write,      \* writePump of each client
  open,       \* clients whose connection is open
  cancelled,  \* h.ctx
  hub,        \* h.Run
  batch,      \* each running broadcastParallel
  sent,       \* Broadcast calls whose message was accepted
  directs,    \* BroadcastToUser calls
  crashed,    \* an unrecovered panic
  from,       \* the first broadcast a client must get
  log,        \* the broadcasts put into the Send of a registered client
  missed,     \* registered clients whose Send was found full
  dispatched  \* the last broadcast the hub took

chans == <<register, unregister, broadcast>>
conns == <<read, write, open>>
history == <<from, log, missed, dispatched>>
vars == <<clients, chans, send, closed, conns, cancelled, hub, batch, sent, directs,
          crashed, history>>

Senders == {Loop, Job}

Direct == 0   \* a message for one user; broadcasts are numbered

Messages == 0 .. MaxMessages

IdleBatch == [phase |-> "idle", msg |-> Direct, todo |-> {}, full |-> {}, pool |-> FALSE]

\* full: clients whose worker waits in Unregister.
BatchState == [phase : {"idle", "send", "woken"}, msg : Messages, todo : SUBSET Clients,
               full : SUBSET Clients, pool : BOOLEAN]

Init ==
  /\ clients = {} /\ register = <<>> /\ unregister = <<>> /\ broadcast = <<>>
  /\ send = [c \in Clients |-> <<>>] /\ closed = {} /\ open = {}
  /\ read = [c \in Clients |-> "new"] /\ write = [c \in Clients |-> "new"]
  /\ cancelled = FALSE /\ hub = "run" /\ batch = [s \in Senders |-> IdleBatch]
  /\ sent = 0 /\ directs = 0 /\ crashed = FALSE
  /\ from = [c \in Clients |-> 0] /\ log = [c \in Clients |-> <<>>]
  /\ missed = {} /\ dispatched = 0

Elements(q) == {q[i] : i \in 1 .. Len(q)}

---------------------------------------------------------------------------
\* Connections.

\* HandleWebSocket and Register: the pumps start whether or not the hub takes the client.
Register(c) ==
  /\ read[c] = "new"
  /\ \/ Len(register) < RegisterCap /\ register' = Append(register, c)
     \/ cancelled /\ UNCHANGED register
  /\ read' = [read EXCEPT ![c] = "reading"] /\ write' = [write EXCEPT ![c] = "writing"]
  /\ open' = open \cup {c}
  /\ UNCHANGED <<clients, unregister, broadcast, send, closed, cancelled, hub, batch, sent,
                 directs, crashed, history>>

\* The peer goes away or does not answer in time.
Drop(c) ==
  /\ c \in open /\ open' = open \ {c}
  /\ UNCHANGED <<clients, chans, send, closed, read, write, cancelled, hub, batch, sent,
                 directs, crashed, history>>

\* Unregister if its select had no ctx.Done branch.
SendUnregisterOrWait(c) ==
  Len(unregister) < UnregisterCap /\ unregister' = Append(unregister, c)

\* Unregister if the channel grew.
SendUnregisterAlways(c) == unregister' = Append(unregister, c)

\* Unregister: waits for room.
SendUnregister(c) ==
  \/ Len(unregister) < UnregisterCap /\ unregister' = Append(unregister, c)
  \/ cancelled /\ UNCHANGED unregister

\* readPump ends when the connection does.
ReadEnds(c) ==
  /\ read[c] = "reading" /\ c \notin open
  /\ SendUnregister(c)
  /\ read' = [read EXCEPT ![c] = "gone"]
  /\ UNCHANGED <<clients, register, broadcast, send, closed, write, open, cancelled, hub,
                 batch, sent, directs, crashed, history>>

\* writePump takes a message; a failed write or ping and a closed channel end it, and
\* with it the connection.
WritePump(c) ==
  /\ write[c] = "writing"
  /\ \/ /\ send[c] # <<>> /\ send' = [send EXCEPT ![c] = Tail(@)]
        /\ c \in open /\ UNCHANGED <<write, open>>
     \/ /\ IF c \in open THEN send[c] = <<>> /\ c \in closed /\ UNCHANGED send
           ELSE send' \in {send, [send EXCEPT ![c] = IF @ = <<>> THEN @ ELSE Tail(@)]}
        /\ write' = [write EXCEPT ![c] = "gone"] /\ open' = open \ {c}
  /\ UNCHANGED <<clients, chans, closed, read, cancelled, hub, batch, sent, directs,
                 crashed, history>>

---------------------------------------------------------------------------
\* The hub's loop: one branch of its select at a time.

Selecting == hub = "run" /\ batch[Loop].phase = "idle"

HubRegister ==
  /\ Selecting /\ register # <<>>
  /\ register' = Tail(register)
  /\ clients' = clients \cup {Head(register)}
  /\ from' = [from EXCEPT ![Head(register)] = dispatched + 1]
  /\ UNCHANGED <<unregister, broadcast, send, closed, conns, cancelled, hub, batch, sent,
                 directs, crashed, log, missed, dispatched>>

\* A removal that leaves the client in the map.
CloseSendOnly(set) ==
  /\ send' = [c \in Clients |-> IF c \in set /\ send[c] # <<>> THEN Tail(send[c]) ELSE send[c]]
  /\ closed' = closed \cup set
  /\ UNCHANGED <<clients, log, from, missed>>

\* One message is taken out before the channel is closed, whatever it holds.
CloseSend(set) ==
  /\ send' = [c \in Clients |-> IF c \in set /\ send[c] # <<>> THEN Tail(send[c]) ELSE send[c]]
  /\ closed' = closed \cup set
  /\ clients' = clients \ set
  /\ log' = [c \in Clients |-> IF c \in set THEN <<>> ELSE log[c]]
  /\ from' = [c \in Clients |-> IF c \in set THEN 0 ELSE from[c]]
  /\ missed' = missed \ set

HubUnregister ==
  /\ Selecting /\ unregister # <<>>
  /\ unregister' = Tail(unregister)
  /\ CloseSend({Head(unregister)} \cap clients)
  /\ UNCHANGED <<register, broadcast, conns, cancelled, hub, batch, sent, directs, crashed,
                 dispatched>>

\* broadcastParallel: with PoolSize clients or more the workers come from the pool,
\* whose WaitGroup all senders share.
StartBatch(s, msg, targets) ==
  batch' = [batch EXCEPT ![s] = [phase |-> "send", msg |-> msg, todo |-> targets, full |-> {},
                                 pool |-> Cardinality(targets) >= PoolSize]]

TakeMessage ==
  /\ broadcast # <<>> /\ broadcast' = Tail(broadcast)
  /\ dispatched' = Head(broadcast)
  /\ IF clients = {} THEN UNCHANGED batch ELSE StartBatch(Loop, Head(broadcast), clients)
  /\ UNCHANGED <<clients, register, unregister, send, closed, conns, cancelled, hub, sent,
                 directs, crashed, from, log, missed>>

\* The loop if broadcastParallel returned without waiting for its workers.
HubBroadcastAtOnce == hub = "run" /\ TakeMessage

HubBroadcast == Selecting /\ TakeMessage

HubStop ==
  /\ Selecting /\ cancelled
  /\ CloseSend(clients)
  /\ hub' = "stopped"
  /\ UNCHANGED <<chans, conns, cancelled, batch, sent, directs, crashed, dispatched>>

---------------------------------------------------------------------------
\* Messages.

\* Broadcast; a message that finds no room for 100 ms is dropped.
Broadcast ==
  /\ sent < MaxMessages /\ sent' = sent + 1
  /\ Len(broadcast) < BroadcastCap /\ broadcast' = Append(broadcast, sent')
  /\ UNCHANGED <<clients, register, unregister, send, closed, conns, cancelled, hub, batch,
                 directs, crashed, history>>

\* BroadcastToUser, called by the job.
BroadcastToUser ==
  /\ batch[Job].phase = "idle" /\ clients \cap Own # {}
  /\ directs < MaxDirect /\ directs' = directs + 1
  /\ StartBatch(Job, Direct, clients \cap Own)
  /\ UNCHANGED <<clients, chans, send, closed, conns, cancelled, hub, sent, crashed, history>>

\* A worker takes a client: the send succeeds, panics on a closed channel (recovered),
\* or finds no room, and then the worker unregisters the client.
SendTo(s, c) ==
  LET b == batch[s] IN
  /\ c \in b.todo /\ Cardinality(b.full) < PoolSize
  /\ LET full == c \notin closed /\ Len(send[c]) = SendCap IN
     /\ batch' = [batch EXCEPT ![s].todo = @ \ {c},
                               ![s].full = IF full THEN @ \cup {c} ELSE @]
     /\ missed' = IF full THEN missed \cup {c} ELSE missed
     /\ IF c \in closed \/ full THEN UNCHANGED <<send, log>>
        ELSE /\ send' = [send EXCEPT ![c] = Append(@, b.msg)]
             /\ log' = [log EXCEPT ![c] = IF b.msg = Direct THEN @ ELSE Append(@, b.msg)]
  /\ UNCHANGED <<clients, chans, closed, conns, cancelled, hub, sent, directs, crashed,
                 from, dispatched>>

\* A worker that does not wait for room in the channel.
DisconnectIfRoom(s, c) ==
  /\ c \in batch[s].full
  /\ SendUnregister(c) \/ UNCHANGED unregister
  /\ batch' = [batch EXCEPT ![s].full = @ \ {c}]
  /\ UNCHANGED <<clients, register, broadcast, send, closed, conns, cancelled, hub, sent,
                 directs, crashed, history>>

Disconnect(s, c) ==
  /\ c \in batch[s].full
  /\ SendUnregister(c)
  /\ batch' = [batch EXCEPT ![s].full = @ \ {c}]
  /\ UNCHANGED <<clients, register, broadcast, send, closed, conns, cancelled, hub, sent,
                 directs, crashed, history>>

Working(s) == batch[s].todo # {} \/ batch[s].full # {}

Waiting(s) == batch[s].phase = "send"

\* A broadcast to few clients has a WaitGroup of its own.
BatchDone(s) ==
  /\ Waiting(s) /\ ~batch[s].pool /\ ~Working(s)
  /\ batch' = [batch EXCEPT ![s] = IdleBatch]
  /\ UNCHANGED <<clients, chans, send, closed, conns, cancelled, hub, sent, directs, crashed,
                 history>>

PoolUsers == {s \in Senders : Waiting(s) /\ batch[s].pool}

\* broadcastWg reaches zero: whoever waits for it is released.
PoolDone ==
  /\ PoolUsers # {} /\ \A s \in PoolUsers : ~Working(s)
  /\ batch' = [s \in Senders |-> IF s \in PoolUsers THEN [batch[s] EXCEPT !.phase = "woken"]
                                 ELSE batch[s]]
  /\ UNCHANGED <<clients, chans, send, closed, conns, cancelled, hub, sent, directs, crashed,
                 history>>

\* Wait panics if the WaitGroup is in use again before it has returned.  Run recovers and
\* starts the loop again; the job does not.
PoolReturn(s) ==
  /\ batch[s].phase = "woken"
  /\ batch' = [batch EXCEPT ![s] = IdleBatch]
  /\ crashed' = (s = Job /\ \E o \in PoolUsers : Working(o))
  /\ UNCHANGED <<clients, chans, send, closed, conns, cancelled, hub, sent, directs, history>>

\* Stop, when the panel stops.
Stop ==
  /\ ~cancelled /\ cancelled' = TRUE
  /\ UNCHANGED <<clients, chans, send, closed, conns, hub, batch, sent, directs, crashed,
                 history>>

---------------------------------------------------------------------------
HubStep == HubRegister \/ HubUnregister \/ HubBroadcast \/ HubStop

BatchStep(s) ==
  \/ \E c \in Clients : SendTo(s, c) \/ Disconnect(s, c)
  \/ BatchDone(s) \/ PoolDone \/ PoolReturn(s)

Next ==
  /\ ~crashed
  /\ \/ \E c \in Clients : Register(c) \/ Drop(c) \/ ReadEnds(c) \/ WritePump(c)
     \/ HubStep \/ Broadcast \/ BroadcastToUser \/ Stop
     \/ \E s \in Senders : BatchStep(s)

Spec == Init /\ [][Next]_vars

\* Workers and the loop go on.  A select picks at random among the branches that are
\* ready, so none of them is passed over for ever.
FairSpec ==
  /\ Spec
  /\ WF_vars(~crashed /\ HubStep) /\ \A s \in Senders : WF_vars(~crashed /\ BatchStep(s))
  /\ SF_vars(~crashed /\ HubUnregister) /\ SF_vars(~crashed /\ HubStop)

---------------------------------------------------------------------------
(***************************************************************************)
(* Properties.                                                             *)
(***************************************************************************)

\* Every variable has its type, and no channel exceeds its capacity.
TypeOK ==
  /\ clients \in SUBSET Clients /\ closed \in SUBSET Clients /\ open \in SUBSET Clients
  /\ register \in Seq(Clients) /\ Len(register) <= RegisterCap
  /\ unregister \in Seq(Clients) /\ Len(unregister) <= UnregisterCap
  /\ broadcast \in Seq(Messages) /\ Len(broadcast) <= BroadcastCap
  /\ send \in [Clients -> Seq(Messages)] /\ \A c \in Clients : Len(send[c]) <= SendCap
  /\ read \in [Clients -> {"new", "reading", "gone"}]
  /\ write \in [Clients -> {"new", "writing", "gone"}]
  /\ cancelled \in BOOLEAN /\ crashed \in BOOLEAN /\ hub \in {"run", "stopped"}
  /\ batch \in [Senders -> BatchState]
  /\ sent \in Messages /\ dispatched \in Messages /\ directs \in 0 .. MaxDirect
  /\ from \in [Clients -> Nat] /\ log \in [Clients -> Seq(Messages)]
  /\ missed \in SUBSET Clients

\* The hub never closes a channel that is closed already: a client it knows has its
\* Send open, however often its workers and its readPump ask for its removal.
RegisteredIsOpen == clients \cap closed = {}

\* A connected client gets every broadcast from its registration on, in order and without
\* a gap, unless its buffer was once full, although each broadcast is sent by workers
\* that run in parallel and other senders write to the same buffer.
NothingSkipped ==
  \A c \in clients \ missed :
    LET last == IF c \in batch[Loop].todo THEN dispatched - 1 ELSE dispatched
    IN log[c] = [i \in 1 .. last + 1 - from[c] |-> from[c] + i - 1]

\* A client that missed a message does not stay connected with a hole in what it shows:
\* its removal is on its way.
MissedIsLeaving ==
  ~cancelled =>
    missed \subseteq Elements(unregister) \cup batch[Loop].full \cup batch[Job].full

\* A client whose buffer was found full is disconnected in the end.
FullIsDisconnected == \A c \in Clients : c \in missed ~> c \notin clients \/ crashed

\* Stop is never in vain: even when the loop waits for workers that wait for the loop,
\* or for the workers of the job, one of them can go on.
StopNeverBlocks ==
  cancelled /\ hub = "run" /\ ~crashed => ENABLED (HubStop \/ \E s \in Senders : BatchStep(s))
---------------------------------------------------------------------------
(***************************************************************************)
(* The inductive invariant.                                                *)
(***************************************************************************)
\* A client is registered once, and not before it waits in the channel.
RegisteredOnce ==
  /\ \A c \in Clients : read[c] = "new" => c \notin clients \cup closed \cup Elements(register)
  /\ Elements(register) \cap (clients \cup closed) = {}
  /\ \A i, j \in 1 .. Len(register) : register[i] = register[j] => i = j

\* A worker only meets clients the hub has, or had and closed.
TargetsKnown == \A s \in Senders : batch[s].todo \subseteq clients \cup closed

DoneIsEmpty == \A s \in Senders : batch[s].phase # "send" => ~Working(s)

HubInv ==
  /\ TypeOK /\ RegisteredIsOpen /\ RegisteredOnce /\ TargetsKnown /\ DoneIsEmpty
  /\ missed \subseteq clients /\ MissedIsLeaving

\* The last broadcast that the Send of a registered client was given.
Due(c) == IF c \in batch[Loop].todo THEN dispatched - 1 ELSE dispatched

\* The channel holds the broadcasts that follow the last one taken, in order.
Numbered ==
  /\ sent = dispatched + Len(broadcast)
  /\ \A i \in 1 .. Len(broadcast) : broadcast[i] = dispatched + i

\* The loop's workers send the last broadcast taken, the job's what is not one.
MessagesKnown ==
  /\ batch[Job].msg = Direct
  /\ batch[Loop].todo # {} => batch[Loop].msg = dispatched /\ dispatched > 0

LogsKnown ==
  /\ \A c \in Clients \ clients : log[c] = <<>>
  /\ \A c \in clients : from[c] >= 1 /\ from[c] <= Due(c) + 1

LogInv == Numbered /\ MessagesKnown /\ LogsKnown /\ NothingSkipped
=============================================================================
