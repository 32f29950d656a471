------------------------- MODULE WebsocketHubProofs -------------------------
(***************************************************************************)
(* Proofs about WebsocketHub, for any set of connections, any capacities   *)
(* and any size of the pool: types first, then who is registered, then     *)
(* what becomes of a client that missed a message.  At the end what        *)
(* follows for the parts of People from the theorems of their modules.     *)
(***************************************************************************)
EXTENDS HubLinks, TLAPS

---------------------------------------------------------------------------
(* Queues.                                                                 *)

LEMMA AppendElements ==
  ASSUME NEW S, NEW q \in Seq(S), NEW x \in S
  PROVE  /\ Append(q, x) \in Seq(S) /\ Len(Append(q, x)) = Len(q) + 1
         /\ Elements(Append(q, x)) = Elements(q) \cup {x}
<1>1. Append(q, x) \in Seq(S) /\ Len(Append(q, x)) = Len(q) + 1 /\ Len(q) \in Nat
  OBVIOUS
<1>2. \A i \in 1 .. Len(q) : Append(q, x)[i] = q[i]
  OBVIOUS
<1>3. Append(q, x)[Len(q) + 1] = x
  OBVIOUS
<1>4. ASSUME NEW y \in Elements(Append(q, x)) PROVE y \in Elements(q) \cup {x}
  <2>1. PICK i \in 1 .. Len(q) + 1 : y = Append(q, x)[i]
    BY <1>1, <1>4 DEF Elements
  <2>2. i = Len(q) + 1 \/ i \in 1 .. Len(q)
    BY <1>1, <2>1
  <2>3. QED
    BY <1>2, <1>3, <2>1, <2>2 DEF Elements
<1>5. ASSUME NEW y \in Elements(q) \cup {x} PROVE y \in Elements(Append(q, x))
  <2>1. CASE y = x
    <3>1. Len(q) + 1 \in 1 .. Len(Append(q, x))
      BY <1>1
    <3>2. QED
      BY <1>3, <2>1, <3>1 DEF Elements
  <2>2. CASE y \in Elements(q)
    <3>1. PICK i \in 1 .. Len(q) : y = q[i]
      BY <2>2 DEF Elements
    <3>2. i \in 1 .. Len(Append(q, x))
      BY <1>1, <3>1
    <3>3. QED
      BY <1>2, <3>1, <3>2 DEF Elements
  <2>3. QED
    BY <1>5, <2>1, <2>2
<1>6. QED
  BY <1>1, <1>4, <1>5

LEMMA TailElements ==
  ASSUME NEW S, NEW q \in Seq(S), q # <<>>
  PROVE  /\ Tail(q) \in Seq(S) /\ Len(Tail(q)) = Len(q) - 1 /\ Head(q) \in S
         /\ Len(q) \in Nat \ {0} /\ Head(q) = q[1]
         /\ \A i \in 1 .. Len(Tail(q)) : Tail(q)[i] = q[i + 1]
         /\ Elements(q) = {Head(q)} \cup Elements(Tail(q))
<1>1. /\ Tail(q) \in Seq(S) /\ Len(Tail(q)) = Len(q) - 1 /\ Head(q) \in S
      /\ Len(q) \in Nat \ {0} /\ Head(q) = q[1]
  OBVIOUS
<1>2. \A i \in 1 .. Len(Tail(q)) : Tail(q)[i] = q[i + 1]
  OBVIOUS
<1>3. ASSUME NEW y \in Elements(q) PROVE y \in {Head(q)} \cup Elements(Tail(q))
  <2>1. PICK i \in 1 .. Len(q) : y = q[i]
    BY <1>3 DEF Elements
  <2>2. CASE i = 1
    BY <1>1, <2>1, <2>2
  <2>3. CASE i # 1
    <3>1. i - 1 \in 1 .. Len(Tail(q)) /\ (i - 1) + 1 = i
      BY <1>1, <2>1, <2>3
    <3>2. QED
      BY <1>2, <2>1, <3>1 DEF Elements
  <2>4. QED
    BY <2>2, <2>3
<1>4. ASSUME NEW y \in {Head(q)} \cup Elements(Tail(q)) PROVE y \in Elements(q)
  <2>1. CASE y = Head(q)
    <3>1. 1 \in 1 .. Len(q)
      BY <1>1
    <3>2. QED
      BY <1>1, <2>1, <3>1 DEF Elements
  <2>2. CASE y \in Elements(Tail(q))
    <3>1. PICK i \in 1 .. Len(Tail(q)) : y = Tail(q)[i]
      BY <2>2 DEF Elements
    <3>2. i + 1 \in 1 .. Len(q)
      BY <1>1, <3>1
    <3>3. QED
      BY <1>2, <3>1, <3>2 DEF Elements
  <2>3. QED
    BY <1>4, <2>1, <2>2
<1>5. QED
  BY <1>1, <1>2, <1>3, <1>4

LEMMA ElementsType ==
  ASSUME NEW S, NEW q \in Seq(S)
  PROVE  Elements(q) \subseteq S
  BY DEF Elements

---------------------------------------------------------------------------
(* The types, in groups that few actions touch.                            *)

QueueTypes ==
  /\ register \in Seq(Clients) /\ Len(register) <= RegisterCap
  /\ unregister \in Seq(Clients) /\ Len(unregister) <= UnregisterCap
  /\ broadcast \in Seq(Messages) /\ Len(broadcast) <= BroadcastCap

SendTypes == send \in [Clients -> Seq(Messages)] /\ \A c \in Clients : Len(send[c]) <= SendCap

PumpTypes ==
  /\ read \in [Clients -> {"new", "reading", "gone"}]
  /\ write \in [Clients -> {"new", "writing", "gone"}]
  /\ open \in SUBSET Clients

MapTypes == clients \in SUBSET Clients /\ closed \in SUBSET Clients

CountTypes ==
  /\ cancelled \in BOOLEAN /\ crashed \in BOOLEAN /\ hub \in {"run", "stopped"}
  /\ sent \in Messages /\ dispatched \in Messages /\ directs \in 0 .. MaxDirect

BatchTypes == batch \in [Senders -> BatchState]

LogTypes ==
  /\ from \in [Clients -> Nat] /\ log \in [Clients -> Seq(Messages)]
  /\ missed \in SUBSET Clients

LEMMA TypeParts ==
  TypeOK <=> /\ QueueTypes /\ SendTypes /\ PumpTypes /\ MapTypes /\ CountTypes
             /\ BatchTypes /\ LogTypes
  BY DEF TypeOK, QueueTypes, SendTypes, PumpTypes, MapTypes, CountTypes, BatchTypes, LogTypes

LEMMA NextTypes ==
  ASSUME QueueTypes', SendTypes', PumpTypes', MapTypes', CountTypes', BatchTypes', LogTypes'
  PROVE  TypeOK'
  BY DEF TypeOK, QueueTypes, SendTypes, PumpTypes, MapTypes, CountTypes, BatchTypes, LogTypes

LEMMA Capacities ==
  /\ RegisterCap \in Nat \ {0} /\ UnregisterCap \in Nat \ {0} /\ BroadcastCap \in Nat \ {0}
  /\ SendCap \in Nat \ {0} /\ PoolSize \in Nat \ {0} /\ MaxMessages \in Nat /\ MaxDirect \in Nat
  BY HubAssumption

LEMMA InitTypes == Init => TypeOK
<1>1. ASSUME Init PROVE TypeOK
  <2>1. QueueTypes
    BY <1>1, Capacities DEF Init, QueueTypes
  <2>2. SendTypes
    BY <1>1, Capacities DEF Init, SendTypes
  <2>3. PumpTypes /\ MapTypes
    BY <1>1 DEF Init, PumpTypes, MapTypes
  <2>4. CountTypes
    <3>1. 0 \in Messages /\ 0 \in 0 .. MaxDirect
      BY Capacities DEF Messages
    <3>2. QED
      BY <1>1, <3>1 DEF Init, CountTypes
  <2>5. BatchTypes
    <3>1. Direct \in Messages
      BY Capacities DEF Direct, Messages
    <3>2. IdleBatch \in BatchState
      BY <3>1 DEF IdleBatch, BatchState
    <3>3. QED
      BY <1>1, <3>2 DEF Init, BatchTypes
  <2>6. LogTypes
    BY <1>1 DEF Init, LogTypes
  <2>7. QED
    BY <2>1, <2>2, <2>3, <2>4, <2>5, <2>6, TypeParts
<1>2. QED
  BY <1>1

LEMMA BatchFields ==
  ASSUME BatchTypes, NEW s \in Senders
  PROVE  /\ batch[s] \in BatchState
         /\ batch[s].phase \in {"idle", "send", "woken"} /\ batch[s].msg \in Messages
         /\ batch[s].todo \in SUBSET Clients /\ batch[s].full \in SUBSET Clients
  BY DEF BatchTypes, BatchState

LEMMA IdleIsBatch ==
  /\ IdleBatch \in BatchState /\ IdleBatch.phase = "idle" /\ IdleBatch.msg = Direct
  /\ IdleBatch.todo = {} /\ IdleBatch.full = {}
<1>1. Direct \in Messages
  BY Capacities DEF Direct, Messages
<1>2. QED
  BY <1>1 DEF IdleBatch, BatchState

\* An unregistration is one more entry of the queue, or none once the hub is told to stop.
LEMMA Unregistration ==
  ASSUME QueueTypes, NEW c \in Clients, SendUnregister(c)
  PROVE  /\ unregister' \in Seq(Clients) /\ Len(unregister') <= UnregisterCap
         /\ \/ Elements(unregister') = Elements(unregister) \cup {c}
            \/ cancelled /\ unregister' = unregister
<1>1. CASE Len(unregister) < UnregisterCap /\ unregister' = Append(unregister, c)
  <2>1. /\ unregister' \in Seq(Clients) /\ Len(unregister') = Len(unregister) + 1
        /\ Elements(unregister') = Elements(unregister) \cup {c}
    BY <1>1, AppendElements DEF QueueTypes
  <2>2. Len(unregister) \in Nat
    BY DEF QueueTypes
  <2>3. QED
    BY <1>1, <2>1, <2>2, Capacities
<1>2. CASE cancelled /\ UNCHANGED unregister
  BY <1>2 DEF QueueTypes
<1>3. QED
  BY <1>1, <1>2 DEF SendUnregister

LEMMA RegisterTypes ==
  ASSUME TypeOK, NEW c \in Clients, Register(c)
  PROVE  TypeOK'
<1>1. QueueTypes /\ PumpTypes
  BY TypeParts
<1>2. register' \in Seq(Clients) /\ Len(register') <= RegisterCap
  <2>1. CASE Len(register) < RegisterCap /\ register' = Append(register, c)
    <3>1. register' \in Seq(Clients) /\ Len(register') = Len(register) + 1
      BY <1>1, <2>1, AppendElements DEF QueueTypes
    <3>2. Len(register) \in Nat
      BY <1>1 DEF QueueTypes
    <3>3. QED
      BY <2>1, <3>1, <3>2, Capacities
  <2>2. CASE UNCHANGED register
    BY <1>1, <2>2 DEF QueueTypes
  <2>3. QED
    BY <2>1, <2>2 DEF Register
<1>3. QueueTypes'
  BY <1>1, <1>2 DEF Register, QueueTypes
<1>4. PumpTypes'
  BY <1>1 DEF Register, PumpTypes
<1>5. SendTypes' /\ MapTypes' /\ CountTypes' /\ BatchTypes' /\ LogTypes'
  BY TypeParts DEF Register, history, SendTypes, MapTypes, CountTypes, BatchTypes, LogTypes
<1>6. QED
  BY <1>3, <1>4, <1>5, NextTypes

LEMMA DropTypes ==
  ASSUME TypeOK, NEW c \in Clients, Drop(c)
  PROVE  TypeOK'
<1>1. PumpTypes'
  BY TypeParts DEF Drop, PumpTypes
<1>2. QueueTypes' /\ SendTypes' /\ MapTypes' /\ CountTypes' /\ BatchTypes' /\ LogTypes'
  BY TypeParts DEF Drop, chans, history, QueueTypes, SendTypes, MapTypes, CountTypes,
     BatchTypes, LogTypes
<1>3. QED
  BY <1>1, <1>2, NextTypes

LEMMA ReadEndsTypes ==
  ASSUME TypeOK, NEW c \in Clients, ReadEnds(c)
  PROVE  TypeOK'
<1>1. QueueTypes /\ PumpTypes /\ SendUnregister(c)
  BY TypeParts DEF ReadEnds
<1>2. QueueTypes'
  BY <1>1, Unregistration DEF ReadEnds, QueueTypes
<1>3. PumpTypes'
  BY <1>1 DEF ReadEnds, PumpTypes
<1>4. SendTypes' /\ MapTypes' /\ CountTypes' /\ BatchTypes' /\ LogTypes'
  BY TypeParts DEF ReadEnds, history, SendTypes, MapTypes, CountTypes, BatchTypes, LogTypes
<1>5. QED
  BY <1>2, <1>3, <1>4, NextTypes

\* A buffer keeps its type when its head is taken out.
LEMMA TailSend ==
  ASSUME SendTypes, NEW c \in Clients, send[c] # <<>>
  PROVE  Tail(send[c]) \in Seq(Messages) /\ Len(Tail(send[c])) <= SendCap
<1>1. send[c] \in Seq(Messages) /\ Len(send[c]) <= SendCap
  BY DEF SendTypes
<1>2. Tail(send[c]) \in Seq(Messages) /\ Len(Tail(send[c])) = Len(send[c]) - 1
      /\ Len(send[c]) \in Nat \ {0}
  BY <1>1, TailElements
<1>3. QED
  BY <1>1, <1>2, Capacities

LEMMA WritePumpTypes ==
  ASSUME TypeOK, NEW c \in Clients, WritePump(c)
  PROVE  TypeOK'
<1>1. SendTypes /\ PumpTypes
  BY TypeParts
<1>2. send' = send \/ (send[c] # <<>> /\ send' = [send EXCEPT ![c] = Tail(send[c])])
  <2>1. [send EXCEPT ![c] = send[c]] = send
    BY <1>1 DEF SendTypes
  <2>2. QED
    BY <2>1 DEF WritePump
<1>3. SendTypes'
  BY <1>1, <1>2, TailSend DEF SendTypes
<1>4. PumpTypes'
  BY <1>1 DEF WritePump, PumpTypes
<1>5. QueueTypes' /\ MapTypes' /\ CountTypes' /\ BatchTypes' /\ LogTypes'
  BY TypeParts DEF WritePump, chans, history, QueueTypes, MapTypes, CountTypes, BatchTypes,
     LogTypes
<1>6. QED
  BY <1>3, <1>4, <1>5, NextTypes

LEMMA HubRegisterTypes ==
  ASSUME TypeOK, HubRegister
  PROVE  TypeOK'
<1>1. QueueTypes /\ MapTypes /\ LogTypes /\ CountTypes /\ register # <<>>
  BY TypeParts DEF HubRegister
<1>2. /\ Head(register) \in Clients /\ Tail(register) \in Seq(Clients)
      /\ Len(Tail(register)) = Len(register) - 1 /\ Len(register) \in Nat
  BY <1>1, TailElements DEF QueueTypes
<1>3. Len(Tail(register)) <= RegisterCap
  BY <1>1, <1>2, Capacities DEF QueueTypes
<1>4. QueueTypes'
  BY <1>1, <1>2, <1>3 DEF HubRegister, QueueTypes
<1>5. MapTypes'
  BY <1>1, <1>2 DEF HubRegister, MapTypes
<1>6. LogTypes'
  <2>1. dispatched + 1 \in Nat
    BY <1>1, Capacities DEF CountTypes, Messages
  <2>2. QED
    BY <1>1, <1>2, <2>1 DEF HubRegister, LogTypes
<1>7. SendTypes' /\ PumpTypes' /\ CountTypes' /\ BatchTypes'
  BY TypeParts DEF HubRegister, conns, SendTypes, PumpTypes, CountTypes, BatchTypes
<1>8. QED
  BY <1>4, <1>5, <1>6, <1>7, NextTypes

LEMMA CloseTypes ==
  ASSUME TypeOK, NEW set, set \subseteq clients, CloseSend(set)
  PROVE  SendTypes' /\ MapTypes' /\ LogTypes'
<1>1. SendTypes /\ MapTypes /\ LogTypes
  BY TypeParts
<1>2. MapTypes'
  BY <1>1 DEF CloseSend, MapTypes
<1>3. LogTypes'
  <2>1. <<>> \in Seq(Messages) /\ 0 \in Nat
    OBVIOUS
  <2>2. QED
    BY <1>1, <2>1 DEF CloseSend, LogTypes
<1>4. SendTypes'
  <2>1. \A c \in Clients : send'[c] = IF c \in set /\ send[c] # <<>> THEN Tail(send[c]) ELSE send[c]
    BY DEF CloseSend
  <2>2. \A c \in Clients : send'[c] \in Seq(Messages) /\ Len(send'[c]) <= SendCap
    BY <1>1, <2>1, TailSend DEF SendTypes
  <2>3. send' = [c \in Clients |-> send'[c]]
    BY <2>1 DEF CloseSend
  <2>4. QED
    BY <2>2, <2>3 DEF SendTypes
<1>5. QED
  BY <1>2, <1>3, <1>4

LEMMA HubUnregisterTypes ==
  ASSUME TypeOK, HubUnregister
  PROVE  TypeOK'
<1>1. QueueTypes /\ unregister # <<>>
  BY TypeParts DEF HubUnregister
<1>2. /\ Tail(unregister) \in Seq(Clients)
      /\ Len(Tail(unregister)) = Len(unregister) - 1 /\ Len(unregister) \in Nat
  BY <1>1, TailElements DEF QueueTypes
<1>3. Len(Tail(unregister)) <= UnregisterCap
  BY <1>1, <1>2, Capacities DEF QueueTypes
<1>4. QueueTypes'
  BY <1>1, <1>2, <1>3 DEF HubUnregister, QueueTypes
<1>5. SendTypes' /\ MapTypes' /\ LogTypes'
  BY CloseTypes DEF HubUnregister
<1>6. PumpTypes' /\ CountTypes' /\ BatchTypes'
  BY TypeParts DEF HubUnregister, conns, PumpTypes, CountTypes, BatchTypes
<1>7. QED
  BY <1>4, <1>5, <1>6, NextTypes

LEMMA HubStopTypes ==
  ASSUME TypeOK, HubStop
  PROVE  TypeOK'
<1>1. SendTypes' /\ MapTypes' /\ LogTypes'
  BY CloseTypes DEF HubStop
<1>2. QueueTypes' /\ PumpTypes' /\ CountTypes' /\ BatchTypes'
  BY TypeParts DEF HubStop, chans, conns, QueueTypes, PumpTypes, CountTypes, BatchTypes
<1>3. QED
  BY <1>1, <1>2, NextTypes

LEMMA StartBatchTypes ==
  ASSUME BatchTypes, NEW s \in Senders, NEW msg \in Messages, NEW targets \in SUBSET Clients,
         StartBatch(s, msg, targets)
  PROVE  /\ BatchTypes'
         /\ batch'[s].phase = "send" /\ batch'[s].todo = targets /\ batch'[s].full = {}
         /\ batch'[s].msg = msg /\ \A o \in Senders \ {s} : batch'[o] = batch[o]
<1> DEFINE b == [phase |-> "send", msg |-> msg, todo |-> targets, full |-> {},
                 pool |-> Cardinality(targets) >= PoolSize]
<1>1. (Cardinality(targets) >= PoolSize) \in BOOLEAN
  OBVIOUS
<1>2. /\ b \in BatchState /\ b.phase = "send" /\ b.todo = targets /\ b.full = {}
      /\ b.msg = msg
  BY <1>1 DEF BatchState
<1>3. batch' = [batch EXCEPT ![s] = b]
  BY DEF StartBatch
<1> HIDE DEF b
<1>4. QED
  BY <1>2, <1>3 DEF BatchTypes

LEMMA HubBroadcastTypes ==
  ASSUME TypeOK, HubBroadcast
  PROVE  TypeOK'
<1>1. QueueTypes /\ MapTypes /\ BatchTypes /\ CountTypes /\ broadcast # <<>>
  BY TypeParts DEF HubBroadcast, TakeMessage
<1>2. /\ Head(broadcast) \in Messages /\ Tail(broadcast) \in Seq(Messages)
      /\ Len(Tail(broadcast)) = Len(broadcast) - 1 /\ Len(broadcast) \in Nat
  BY <1>1, TailElements DEF QueueTypes
<1>3. Len(Tail(broadcast)) <= BroadcastCap
  BY <1>1, <1>2, Capacities DEF QueueTypes
<1>4. QueueTypes'
  BY <1>1, <1>2, <1>3 DEF HubBroadcast, TakeMessage, QueueTypes
<1>5. CountTypes'
  BY <1>1, <1>2 DEF HubBroadcast, TakeMessage, CountTypes
<1>6. BatchTypes'
  <2>1. CASE UNCHANGED batch
    BY <1>1, <2>1 DEF BatchTypes
  <2>2. CASE StartBatch(Loop, Head(broadcast), clients)
    BY <1>1, <1>2, <2>2, StartBatchTypes DEF Senders, MapTypes
  <2>3. QED
    BY <2>1, <2>2 DEF HubBroadcast, TakeMessage
<1>7. SendTypes' /\ PumpTypes' /\ MapTypes' /\ LogTypes'
  BY TypeParts DEF HubBroadcast, TakeMessage, conns, SendTypes, PumpTypes, MapTypes, LogTypes
<1>8. QED
  BY <1>4, <1>5, <1>6, <1>7, NextTypes

LEMMA BroadcastTypes ==
  ASSUME TypeOK, Broadcast
  PROVE  TypeOK'
<1>1. QueueTypes /\ CountTypes
  BY TypeParts
<1>2. sent + 1 \in Messages
  BY <1>1, Capacities DEF Broadcast, CountTypes, Messages
<1>3. /\ broadcast' \in Seq(Messages) /\ Len(broadcast') = Len(broadcast) + 1
      /\ Len(broadcast) \in Nat /\ Len(broadcast) < BroadcastCap
  BY <1>1, <1>2, AppendElements DEF Broadcast, QueueTypes
<1>4. Len(broadcast') <= BroadcastCap
  BY <1>3, Capacities
<1>5. QueueTypes'
  BY <1>1, <1>3, <1>4 DEF Broadcast, QueueTypes
<1>6. CountTypes'
  BY <1>1, <1>2 DEF Broadcast, history, CountTypes
<1>7. SendTypes' /\ PumpTypes' /\ MapTypes' /\ BatchTypes' /\ LogTypes'
  BY TypeParts DEF Broadcast, conns, history, SendTypes, PumpTypes, MapTypes, BatchTypes, LogTypes
<1>8. QED
  BY <1>5, <1>6, <1>7, NextTypes

LEMMA BroadcastToUserTypes ==
  ASSUME TypeOK, BroadcastToUser
  PROVE  TypeOK'
<1>1. CountTypes /\ BatchTypes /\ MapTypes
  BY TypeParts
<1>2. directs' \in 0 .. MaxDirect
  BY <1>1, Capacities DEF BroadcastToUser, CountTypes
<1>3. CountTypes'
  BY <1>1, <1>2 DEF BroadcastToUser, history, CountTypes
<1>4. BatchTypes'
  <2>1. Direct \in Messages
    BY Capacities DEF Direct, Messages
  <2>2. Job \in Senders /\ clients \cap Own \in SUBSET Clients
    BY <1>1 DEF Senders, MapTypes
  <2>3. QED
    BY <1>1, <2>1, <2>2, StartBatchTypes DEF BroadcastToUser
<1>5. QueueTypes' /\ SendTypes' /\ PumpTypes' /\ MapTypes' /\ LogTypes'
  BY TypeParts DEF BroadcastToUser, chans, conns, history, QueueTypes, SendTypes, PumpTypes,
     MapTypes, LogTypes
<1>6. QED
  BY <1>3, <1>4, <1>5, NextTypes

\* What a worker's step makes of its batch.
LEMMA Worked ==
  ASSUME BatchTypes, NEW s \in Senders, NEW c \in Clients, NEW add \in BOOLEAN,
         batch' = [batch EXCEPT ![s].todo = @ \ {c}, ![s].full = IF add THEN @ \cup {c} ELSE @]
  PROVE  /\ BatchTypes'
         /\ batch'[s].phase = batch[s].phase /\ batch'[s].msg = batch[s].msg
         /\ batch'[s].todo = batch[s].todo \ {c}
         /\ batch'[s].full = IF add THEN batch[s].full \cup {c} ELSE batch[s].full
         /\ \A o \in Senders \ {s} : batch'[o] = batch[o]
<1> DEFINE b == [batch[s] EXCEPT !.todo = batch[s].todo \ {c},
                                 !.full = IF add THEN batch[s].full \cup {c} ELSE batch[s].full]
<1>1. batch' = [batch EXCEPT ![s] = b]
  OBVIOUS
<1>2. batch[s] \in BatchState /\ batch[s].todo \in SUBSET Clients /\ batch[s].full \in SUBSET Clients
  BY BatchFields
<1>3. /\ b \in BatchState /\ b.phase = batch[s].phase /\ b.todo = batch[s].todo \ {c}
      /\ b.msg = batch[s].msg
      /\ b.full = IF add THEN batch[s].full \cup {c} ELSE batch[s].full
  BY <1>2 DEF BatchState
<1> HIDE DEF b
<1>4. QED
  BY <1>1, <1>3 DEF BatchTypes

\* The outcomes of a worker's send.
Found(c) == c \notin closed /\ Len(send[c]) = SendCap

LEMMA SendToOutcome ==
  ASSUME TypeOK, NEW s \in Senders, NEW c \in Clients, SendTo(s, c)
  PROVE  /\ BatchTypes'
         /\ batch'[s].phase = batch[s].phase /\ batch'[s].msg = batch[s].msg
         /\ c \in batch[s].todo /\ batch'[s].todo = batch[s].todo \ {c}
         /\ batch'[s].full = IF Found(c) THEN batch[s].full \cup {c} ELSE batch[s].full
         /\ \A o \in Senders \ {s} : batch'[o] = batch[o]
         /\ missed' = IF Found(c) THEN missed \cup {c} ELSE missed
<1>1. Found(c) \in BOOLEAN
  BY DEF Found
<1>2. batch' = [batch EXCEPT ![s].todo = @ \ {c}, ![s].full = IF Found(c) THEN @ \cup {c} ELSE @]
  BY DEF SendTo, Found
<1>3. BatchTypes
  BY TypeParts
<1>4. c \in batch[s].todo /\ missed' = IF Found(c) THEN missed \cup {c} ELSE missed
  BY DEF SendTo, Found
<1>5. QED
  BY <1>1, <1>2, <1>3, <1>4, Worked

LEMMA SendToTypes ==
  ASSUME TypeOK, NEW s \in Senders, NEW c \in Clients, SendTo(s, c)
  PROVE  TypeOK'
<1>1. SendTypes /\ LogTypes /\ BatchTypes
  BY TypeParts
<1>2. batch[s].msg \in Messages
  BY <1>1, BatchFields
<1>3. SendTypes'
  <2>1. CASE UNCHANGED send
    BY <1>1, <2>1 DEF SendTypes
  <2>2. CASE Len(send[c]) # SendCap /\ send' = [send EXCEPT ![c] = Append(send[c], batch[s].msg)]
    <3>1. send[c] \in Seq(Messages) /\ Len(send[c]) <= SendCap /\ Len(send[c]) \in Nat
      BY <1>1 DEF SendTypes
    <3>2. /\ Append(send[c], batch[s].msg) \in Seq(Messages)
          /\ Len(Append(send[c], batch[s].msg)) = Len(send[c]) + 1
      BY <1>2, <3>1, AppendElements
    <3>3. Len(Append(send[c], batch[s].msg)) <= SendCap
      BY <2>2, <3>1, <3>2, Capacities
    <3>4. QED
      BY <1>1, <2>2, <3>2, <3>3 DEF SendTypes
  <2>3. QED
    BY <2>1, <2>2 DEF SendTo
<1>4. LogTypes'
  <2>1. missed' \in SUBSET Clients
    <3>1. missed' = missed \/ missed' = missed \cup {c}
      BY SendToOutcome
    <3>2. QED
      BY <1>1, <3>1 DEF LogTypes
  <2>2. log' \in [Clients -> Seq(Messages)]
    <3>1. log[c] \in Seq(Messages)
      BY <1>1 DEF LogTypes
    <3>2. Append(log[c], batch[s].msg) \in Seq(Messages)
      BY <1>2, <3>1, AppendElements
    <3>3. \/ UNCHANGED log
          \/ log' = [log EXCEPT ![c] = IF batch[s].msg = Direct THEN log[c]
                                       ELSE Append(log[c], batch[s].msg)]
      BY DEF SendTo
    <3>4. QED
      BY <1>1, <3>1, <3>2, <3>3 DEF LogTypes
  <2>3. QED
    BY <1>1, <2>1, <2>2 DEF SendTo, LogTypes
<1>5. BatchTypes'
  BY SendToOutcome
<1>6. QueueTypes' /\ PumpTypes' /\ MapTypes' /\ CountTypes'
  BY TypeParts DEF SendTo, chans, conns, QueueTypes, PumpTypes, MapTypes, CountTypes
<1>7. QED
  BY <1>3, <1>4, <1>5, <1>6, NextTypes

LEMMA DisconnectOutcome ==
  ASSUME BatchTypes, NEW s \in Senders, NEW c \in Clients, Disconnect(s, c)
  PROVE  /\ BatchTypes'
         /\ batch'[s].phase = batch[s].phase /\ batch'[s].todo = batch[s].todo
         /\ batch'[s].msg = batch[s].msg
         /\ c \in batch[s].full /\ batch'[s].full = batch[s].full \ {c}
         /\ \A o \in Senders \ {s} : batch'[o] = batch[o]
<1> DEFINE b == [batch[s] EXCEPT !.full = batch[s].full \ {c}]
<1>1. batch' = [batch EXCEPT ![s] = b] /\ c \in batch[s].full
  BY DEF Disconnect
<1>2. batch[s] \in BatchState /\ batch[s].full \in SUBSET Clients
  BY BatchFields
<1>3. /\ b \in BatchState /\ b.phase = batch[s].phase /\ b.todo = batch[s].todo
      /\ b.msg = batch[s].msg /\ b.full = batch[s].full \ {c}
  BY <1>2 DEF BatchState
<1> HIDE DEF b
<1>4. QED
  BY <1>1, <1>3 DEF BatchTypes

LEMMA DisconnectTypes ==
  ASSUME TypeOK, NEW s \in Senders, NEW c \in Clients, Disconnect(s, c)
  PROVE  TypeOK'
<1>1. BatchTypes /\ QueueTypes /\ SendUnregister(c)
  BY TypeParts DEF Disconnect
<1>2. BatchTypes'
  BY <1>1, DisconnectOutcome
<1>3. QueueTypes'
  BY <1>1, Unregistration DEF Disconnect, QueueTypes
<1>4. SendTypes' /\ PumpTypes' /\ MapTypes' /\ CountTypes' /\ LogTypes'
  BY TypeParts DEF Disconnect, conns, history, SendTypes, PumpTypes, MapTypes, CountTypes, LogTypes
<1>5. QED
  BY <1>2, <1>3, <1>4, NextTypes

\* A batch ends.
LEMMA Ended ==
  ASSUME BatchTypes, NEW s \in Senders, batch' = [batch EXCEPT ![s] = IdleBatch]
  PROVE  /\ BatchTypes' /\ batch'[s] = IdleBatch
         /\ \A o \in Senders \ {s} : batch'[o] = batch[o]
  BY IdleIsBatch DEF BatchTypes

\* The pool is done: only the phase of its users changes.
LEMMA PoolDoneOutcome ==
  ASSUME BatchTypes, PoolDone
  PROVE  /\ BatchTypes'
         /\ \A s \in Senders : /\ batch'[s].todo = batch[s].todo /\ batch'[s].full = batch[s].full
                               /\ batch'[s].msg = batch[s].msg
                               /\ batch'[s] = batch[s]
                                  \/ (batch'[s].phase = "woken" /\ ~Working(s))
<1>1. ASSUME NEW s \in Senders
      PROVE  /\ [batch[s] EXCEPT !.phase = "woken"] \in BatchState
             /\ [batch[s] EXCEPT !.phase = "woken"].phase = "woken"
             /\ [batch[s] EXCEPT !.phase = "woken"].todo = batch[s].todo
             /\ [batch[s] EXCEPT !.phase = "woken"].msg = batch[s].msg
             /\ [batch[s] EXCEPT !.phase = "woken"].full = batch[s].full
             /\ batch[s] \in BatchState
  <2>1. batch[s] \in BatchState
    BY <1>1, BatchFields
  <2>2. QED
    BY <2>1 DEF BatchState
<1>2. batch' = [s \in Senders |-> IF s \in PoolUsers THEN [batch[s] EXCEPT !.phase = "woken"]
                                  ELSE batch[s]]
  BY DEF PoolDone
<1>3. \A s \in PoolUsers : ~Working(s)
  BY DEF PoolDone
<1>4. QED
  BY <1>1, <1>2, <1>3 DEF BatchTypes

LEMMA EndTypes ==
  ASSUME TypeOK, NEW s \in Senders, BatchDone(s) \/ PoolDone \/ PoolReturn(s)
  PROVE  TypeOK'
<1>1. BatchTypes /\ CountTypes
  BY TypeParts
<1>2. BatchTypes'
  BY <1>1, Ended, PoolDoneOutcome DEF BatchDone, PoolReturn
<1>3. CountTypes'
  BY <1>1 DEF BatchDone, PoolDone, PoolReturn, history, CountTypes
<1>4. QueueTypes' /\ SendTypes' /\ PumpTypes' /\ MapTypes' /\ LogTypes'
  BY TypeParts DEF BatchDone, PoolDone, PoolReturn, chans, conns, history, QueueTypes, SendTypes,
     PumpTypes, MapTypes, LogTypes
<1>5. QED
  BY <1>2, <1>3, <1>4, NextTypes

LEMMA StopTypes ==
  ASSUME TypeOK, Stop
  PROVE  TypeOK'
<1>1. CountTypes'
  BY TypeParts DEF Stop, history, CountTypes
<1>2. QueueTypes' /\ SendTypes' /\ PumpTypes' /\ MapTypes' /\ BatchTypes' /\ LogTypes'
  BY TypeParts DEF Stop, chans, conns, history, QueueTypes, SendTypes, PumpTypes, MapTypes,
     BatchTypes, LogTypes
<1>3. QED
  BY <1>1, <1>2, NextTypes

---------------------------------------------------------------------------
(* Who is registered.                                                      *)

MapInv == RegisteredIsOpen /\ RegisteredOnce /\ TargetsKnown

\* Steps that leave the map and the register channel alone.
LEMMA MapKept ==
  ASSUME TypeOK, MapInv, UNCHANGED <<clients, closed, register>>,
         \A c \in Clients : read'[c] = "new" => read[c] = "new",
         \A s \in Senders : batch'[s].todo \subseteq batch[s].todo \cup clients
  PROVE  MapInv'
<1>1. RegisteredIsOpen'
  BY DEF MapInv, RegisteredIsOpen
<1>2. RegisteredOnce'
  BY DEF MapInv, RegisteredOnce, Elements
<1>3. TargetsKnown'
  BY DEF MapInv, TargetsKnown
<1>4. QED
  BY <1>1, <1>2, <1>3 DEF MapInv

LEMMA RegisterMap ==
  ASSUME TypeOK, MapInv, NEW c \in Clients, Register(c)
  PROVE  MapInv'
<1>1. /\ UNCHANGED <<clients, closed, batch>> /\ read[c] = "new"
      /\ read' = [read EXCEPT ![c] = "reading"]
  BY DEF Register
<1>2. read'[c] # "new" /\ \A d \in Clients \ {c} : read'[d] = read[d]
  BY <1>1 DEF TypeOK
<1>3. c \notin clients \cup closed \cup Elements(register)
  BY <1>1 DEF MapInv, RegisteredOnce
<1>4. RegisteredIsOpen' /\ TargetsKnown'
  BY <1>1 DEF MapInv, RegisteredIsOpen, TargetsKnown
<1>5. CASE UNCHANGED register
  BY <1>1, <1>2, <1>5, MapKept
<1>6. CASE register' = Append(register, c)
  <2>1. /\ Len(register') = Len(register) + 1 /\ Len(register) \in Nat
        /\ Elements(register') = Elements(register) \cup {c}
    BY <1>6, AppendElements DEF TypeOK
  <2>2. /\ register'[Len(register) + 1] = c
        /\ \A i \in 1 .. Len(register) : register'[i] = register[i] /\ register'[i] # c
    <3>1. /\ register'[Len(register) + 1] = c
          /\ \A i \in 1 .. Len(register) : register'[i] = register[i]
      BY <1>6 DEF TypeOK
    <3>2. \A i \in 1 .. Len(register) : register[i] # c
      BY <1>3 DEF Elements
    <3>3. QED
      BY <3>1, <3>2
  <2>3. ASSUME NEW i \in 1 .. Len(register'), NEW j \in 1 .. Len(register'),
               register'[i] = register'[j]
        PROVE  i = j
    <3>1. /\ i = Len(register) + 1 \/ i \in 1 .. Len(register)
          /\ j = Len(register) + 1 \/ j \in 1 .. Len(register)
      BY <2>1
    <3>2. \A k, l \in 1 .. Len(register) : register[k] = register[l] => k = l
      BY DEF MapInv, RegisteredOnce
    <3>3. QED
      BY <2>2, <2>3, <3>1, <3>2
  <2>4. Elements(register') \cap (clients' \cup closed') = {}
    BY <1>1, <1>3, <2>1 DEF MapInv, RegisteredOnce
  <2>5. \A d \in Clients : read'[d] = "new" => d \notin clients' \cup closed' \cup Elements(register')
    BY <1>1, <1>2, <2>1 DEF MapInv, RegisteredOnce
  <2>6. RegisteredOnce'
    BY <2>3, <2>4, <2>5 DEF RegisteredOnce, Elements
  <2>7. QED
    BY <1>4, <2>6 DEF MapInv
<1>7. QED
  BY <1>5, <1>6 DEF Register

LEMMA HubRegisterMap ==
  ASSUME TypeOK, MapInv, HubRegister
  PROVE  MapInv'
<1> DEFINE h == Head(register)
<1>1. /\ UNCHANGED <<closed, batch, read>> /\ clients' = clients \cup {h}
      /\ register' = Tail(register) /\ register # <<>>
  BY DEF HubRegister, conns
<1>2. /\ Elements(register) = {h} \cup Elements(register') /\ h = register[1]
      /\ Len(register') = Len(register) - 1 /\ Len(register) \in Nat \ {0}
      /\ \A i \in 1 .. Len(register') : register'[i] = register[i + 1]
  BY <1>1, TailElements DEF TypeOK
<1>3. \A i, j \in 1 .. Len(register) : register[i] = register[j] => i = j
  BY DEF MapInv, RegisteredOnce
<1>4. \A i \in 1 .. Len(register') : i + 1 \in 1 .. Len(register) /\ i + 1 # 1
  BY <1>2
<1>5. 1 \in 1 .. Len(register)
  BY <1>2
<1>6. h \notin Elements(register')
  BY <1>2, <1>3, <1>4, <1>5 DEF Elements
<1>7. h \notin closed /\ Elements(register') \cap (clients \cup closed) = {}
  BY <1>2 DEF MapInv, RegisteredOnce
<1>8. RegisteredIsOpen' /\ TargetsKnown'
  BY <1>1, <1>7 DEF MapInv, RegisteredIsOpen, TargetsKnown
<1>9. ASSUME NEW i \in 1 .. Len(register'), NEW j \in 1 .. Len(register'),
             register'[i] = register'[j]
      PROVE  i = j
  <2>1. i + 1 = j + 1
    BY <1>2, <1>3, <1>4, <1>9
  <2>2. i \in Nat /\ j \in Nat
    BY <1>2
  <2>3. QED
    BY <2>1, <2>2
<1>10. Elements(register') \cap (clients' \cup closed') = {}
  BY <1>1, <1>6, <1>7
<1>11. \A c \in Clients : read'[c] = "new" => c \notin clients' \cup closed' \cup Elements(register')
  BY <1>1, <1>2 DEF MapInv, RegisteredOnce
<1>12. RegisteredOnce'
  BY <1>9, <1>10, <1>11 DEF RegisteredOnce, Elements
<1>13. QED
  BY <1>8, <1>12 DEF MapInv

LEMMA CloseMap ==
  ASSUME TypeOK, MapInv, NEW set, set \subseteq clients, CloseSend(set),
         UNCHANGED <<register, read, batch>>
  PROVE  MapInv'
<1>1. clients' = clients \ set /\ closed' = closed \cup set
  BY DEF CloseSend
<1>2. RegisteredIsOpen' /\ TargetsKnown'
  BY <1>1 DEF MapInv, RegisteredIsOpen, TargetsKnown
<1>3. Elements(register)' = Elements(register)
  BY DEF Elements
<1>4. RegisteredOnce'
  BY <1>1, <1>3 DEF MapInv, RegisteredOnce
<1>5. QED
  BY <1>2, <1>4 DEF MapInv

---------------------------------------------------------------------------
(* What becomes of a client that missed a message.                         *)

MissedInv == missed \subseteq clients /\ MissedIsLeaving /\ DoneIsEmpty

\* Steps that lose nobody who is on the way out.
LEMMA MissedKept ==
  ASSUME MissedInv, missed' = missed, clients \subseteq clients',
         Elements(unregister) \subseteq Elements(unregister)' \/ cancelled',
         cancelled => cancelled',
         \A s \in Senders : batch[s].full \subseteq batch'[s].full, DoneIsEmpty'
  PROVE  MissedInv'
<1>1. Loop \in Senders /\ Job \in Senders
  BY DEF Senders
<1>2. QED
  BY <1>1 DEF MissedInv, MissedIsLeaving

LEMMA SendToMissed ==
  ASSUME TypeOK, MapInv, MissedInv, NEW s \in Senders, NEW c \in Clients, SendTo(s, c)
  PROVE  MissedInv'
<1>1. /\ batch'[s].phase = batch[s].phase /\ c \in batch[s].todo
      /\ batch'[s].full = IF Found(c) THEN batch[s].full \cup {c} ELSE batch[s].full
      /\ \A o \in Senders \ {s} : batch'[o] = batch[o]
      /\ missed' = IF Found(c) THEN missed \cup {c} ELSE missed
  BY SendToOutcome
<1>2. UNCHANGED <<clients, closed, unregister, cancelled>>
  BY DEF SendTo, chans
<1>3. batch[s].phase = "send"
  BY <1>1 DEF MissedInv, DoneIsEmpty, Working
<1>4. DoneIsEmpty'
  BY <1>1, <1>3 DEF MissedInv, DoneIsEmpty, Working
<1>5. CASE Found(c)
  <2>1. c \in clients
    BY <1>1, <1>5 DEF MapInv, TargetsKnown, Found
  <2>2. missed' = missed \cup {c} /\ batch'[s].full = batch[s].full \cup {c}
    BY <1>1, <1>5
  <2>3. missed' \subseteq clients'
    BY <1>2, <2>1, <2>2 DEF MissedInv
  <2>4. s = Loop \/ s = Job
    BY DEF Senders
  <2>5. batch[Loop].full \subseteq batch'[Loop].full /\ batch[Job].full \subseteq batch'[Job].full
    BY <1>1, <2>2 DEF Senders
  <2>6. Elements(unregister)' = Elements(unregister)
    BY <1>2 DEF Elements
  <2>7. MissedIsLeaving'
    BY <1>2, <2>2, <2>4, <2>5, <2>6 DEF MissedInv, MissedIsLeaving
  <2>8. QED
    BY <1>4, <2>3, <2>7 DEF MissedInv
<1>6. CASE ~Found(c)
  <2>1. missed' = missed /\ \A o \in Senders : batch'[o].full = batch[o].full
    BY <1>1, <1>6
  <2>2. Elements(unregister)' = Elements(unregister)
    BY <1>2 DEF Elements
  <2>3. QED
    BY <1>2, <1>4, <2>1, <2>2, MissedKept
<1>7. QED
  BY <1>5, <1>6

LEMMA DisconnectMissed ==
  ASSUME TypeOK, MissedInv, NEW s \in Senders, NEW c \in Clients, Disconnect(s, c)
  PROVE  MissedInv'
<1>1. /\ batch'[s].phase = batch[s].phase /\ batch'[s].todo = batch[s].todo
      /\ c \in batch[s].full /\ batch'[s].full = batch[s].full \ {c}
      /\ \A o \in Senders \ {s} : batch'[o] = batch[o]
  BY TypeParts, DisconnectOutcome
<1>2. UNCHANGED <<clients, missed, cancelled>> /\ SendUnregister(c)
  BY DEF Disconnect, history
<1>3. \/ Elements(unregister') = Elements(unregister) \cup {c}
      \/ cancelled
  BY <1>2, TypeParts, Unregistration
<1>4. DoneIsEmpty'
  BY <1>1 DEF MissedInv, DoneIsEmpty, Working
<1>5. MissedIsLeaving'
  <2>1. CASE cancelled
    BY <1>2, <2>1 DEF MissedIsLeaving
  <2>2. CASE Elements(unregister') = Elements(unregister) \cup {c}
    <3>1. Elements(unregister)' = Elements(unregister) \cup {c}
      BY <2>2 DEF Elements
    <3>2. /\ batch[Loop].full \subseteq batch'[Loop].full \cup {c}
          /\ batch[Job].full \subseteq batch'[Job].full \cup {c}
      BY <1>1 DEF Senders
    <3>3. QED
      BY <1>2, <3>1, <3>2 DEF MissedInv, MissedIsLeaving
  <2>3. QED
    BY <1>3, <2>1, <2>2
<1>6. QED
  BY <1>2, <1>4, <1>5 DEF MissedInv

LEMMA HubUnregisterMissed ==
  ASSUME TypeOK, MissedInv, HubUnregister
  PROVE  MissedInv'
<1> DEFINE h == Head(unregister)
<1>1. /\ unregister # <<>> /\ unregister' = Tail(unregister) /\ UNCHANGED <<batch, cancelled>>
      /\ clients' = clients \ ({h} \cap clients) /\ missed' = missed \ ({h} \cap clients)
  BY DEF HubUnregister, CloseSend
<1>2. Elements(unregister) = {h} \cup Elements(Tail(unregister))
  BY <1>1, TailElements DEF TypeOK
<1>3. Elements(unregister)' = Elements(Tail(unregister))
  BY <1>1 DEF Elements
<1>4. missed' = missed \ {h} /\ missed' \subseteq clients'
  BY <1>1 DEF MissedInv
<1>5. MissedIsLeaving'
  BY <1>1, <1>2, <1>3, <1>4 DEF MissedInv, MissedIsLeaving
<1>6. DoneIsEmpty'
  BY <1>1 DEF MissedInv, DoneIsEmpty, Working
<1>7. QED
  BY <1>4, <1>5, <1>6 DEF MissedInv

LEMMA HubStopMissed ==
  ASSUME MissedInv, HubStop
  PROVE  MissedInv'
<1>1. missed' = {} /\ clients' = {} /\ UNCHANGED batch
  BY DEF HubStop, CloseSend, MissedInv
<1>2. DoneIsEmpty'
  BY <1>1 DEF MissedInv, DoneIsEmpty, Working
<1>3. QED
  BY <1>1, <1>2 DEF MissedInv, MissedIsLeaving

\* A new batch starts where the old one has nobody left to disconnect.
LEMMA StartMissed ==
  ASSUME BatchTypes, MissedInv, NEW s \in Senders, NEW msg \in Messages,
         NEW targets \in SUBSET Clients, batch[s].phase = "idle", StartBatch(s, msg, targets),
         UNCHANGED <<missed, clients, unregister, cancelled>>
  PROVE  MissedInv'
<1>1. /\ batch'[s].phase = "send" /\ batch'[s].full = {}
      /\ \A o \in Senders \ {s} : batch'[o] = batch[o]
  BY StartBatchTypes
<1>2. batch[s].full = {}
  BY DEF MissedInv, DoneIsEmpty, Working
<1>3. DoneIsEmpty'
  BY <1>1 DEF MissedInv, DoneIsEmpty, Working
<1>4. \A o \in Senders : batch[o].full \subseteq batch'[o].full
  BY <1>1, <1>2
<1>5. Elements(unregister)' = Elements(unregister)
  BY DEF Elements
<1>6. QED
  BY <1>3, <1>4, <1>5, MissedKept

LEMMA EndMissed ==
  ASSUME TypeOK, MissedInv, NEW s \in Senders, BatchDone(s) \/ PoolDone \/ PoolReturn(s)
  PROVE  MissedInv'
<1>1. UNCHANGED <<missed, clients, unregister, cancelled>>
  BY DEF BatchDone, PoolDone, PoolReturn, chans, history
<1>2. Elements(unregister)' = Elements(unregister)
  BY <1>1 DEF Elements
<1>3. BatchTypes
  BY TypeParts
<1>4. ASSUME batch' = [batch EXCEPT ![s] = IdleBatch], ~Working(s)
      PROVE  MissedInv'
  <2>1. batch'[s] = IdleBatch /\ \A o \in Senders \ {s} : batch'[o] = batch[o]
    BY <1>3, <1>4, Ended
  <2>2. batch[s].full = {} /\ batch'[s].full = {} /\ batch'[s].todo = {}
    BY <1>4, <2>1, IdleIsBatch DEF Working
  <2>3. DoneIsEmpty'
    BY <2>1, <2>2 DEF MissedInv, DoneIsEmpty, Working
  <2>4. \A o \in Senders : batch[o].full \subseteq batch'[o].full
    BY <2>1, <2>2
  <2>5. QED
    BY <1>1, <1>2, <2>3, <2>4, MissedKept
<1>5. CASE BatchDone(s)
  BY <1>4, <1>5 DEF BatchDone
<1>6. CASE PoolReturn(s)
  <2>1. ~Working(s)
    BY <1>6 DEF PoolReturn, MissedInv, DoneIsEmpty
  <2>2. QED
    BY <1>4, <1>6, <2>1 DEF PoolReturn
<1>7. CASE PoolDone
  <2>1. \A o \in Senders : /\ batch'[o].todo = batch[o].todo /\ batch'[o].full = batch[o].full
                           /\ batch'[o] = batch[o] \/ (batch'[o].phase = "woken" /\ ~Working(o))
    BY <1>3, <1>7, PoolDoneOutcome
  <2>2. DoneIsEmpty'
    BY <2>1 DEF MissedInv, DoneIsEmpty, Working
  <2>3. QED
    BY <1>1, <1>2, <2>1, <2>2, MissedKept
<1>8. QED
  BY <1>5, <1>6, <1>7

---------------------------------------------------------------------------
(* The theorems.                                                           *)

LEMMA HubInvParts == HubInv <=> TypeOK /\ MapInv /\ MissedInv
  BY DEF HubInv, MapInv, MissedInv

LEMMA InitHub == Init => HubInv
<1>1. ASSUME Init PROVE HubInv
  <2>1. /\ clients = {} /\ closed = {} /\ missed = {} /\ register = <<>>
        /\ \A s \in Senders : batch[s] = IdleBatch
    BY <1>1 DEF Init
  <2>2. Elements(register) = {} /\ 1 .. Len(register) = {}
    BY <2>1 DEF Elements
  <2>3. MapInv
    BY <2>1, <2>2, IdleIsBatch DEF MapInv, RegisteredIsOpen, RegisteredOnce, TargetsKnown
  <2>4. MissedInv
    BY <2>1, IdleIsBatch DEF MissedInv, MissedIsLeaving, DoneIsEmpty, Working
  <2>5. QED
    BY <1>1, <2>3, <2>4, InitTypes, HubInvParts
<1>2. QED
  BY <1>1

\* A connection's own steps.
LEMMA ConnectionStep ==
  ASSUME TypeOK, MapInv, MissedInv, NEW c \in Clients,
         Register(c) \/ Drop(c) \/ ReadEnds(c) \/ WritePump(c)
  PROVE  TypeOK' /\ MapInv' /\ MissedInv'
<1>1. UNCHANGED <<clients, closed, batch, missed, cancelled>>
  BY DEF Register, Drop, ReadEnds, WritePump, history
<1>2. DoneIsEmpty'
  BY <1>1 DEF MissedInv, DoneIsEmpty, Working
<1>3. Elements(unregister) \subseteq Elements(unregister)' \/ cancelled'
  <2>1. CASE ReadEnds(c)
    <3>1. Elements(unregister') = Elements(unregister) \cup {c} \/ cancelled
      BY <2>1, TypeParts, Unregistration DEF ReadEnds
    <3>2. Elements(unregister)' = Elements(unregister')
      BY DEF Elements
    <3>3. QED
      BY <1>1, <3>1, <3>2
  <2>2. CASE Register(c) \/ Drop(c) \/ WritePump(c)
    BY <2>2 DEF Register, Drop, WritePump, chans, Elements
  <2>3. QED
    BY <2>1, <2>2
<1>4. MissedInv'
  BY <1>1, <1>2, <1>3, MissedKept
<1>5. CASE Register(c)
  BY <1>4, <1>5, RegisterTypes, RegisterMap
<1>6. CASE Drop(c) \/ ReadEnds(c) \/ WritePump(c)
  <2>1. UNCHANGED register
    BY <1>6 DEF Drop, ReadEnds, WritePump, chans
  <2>2. \A d \in Clients : read'[d] = "new" => read[d] = "new"
    BY <1>6 DEF Drop, ReadEnds, WritePump, TypeOK
  <2>3. MapInv'
    BY <1>1, <2>1, <2>2, MapKept
  <2>4. QED
    BY <1>4, <1>6, <2>3, DropTypes, ReadEndsTypes, WritePumpTypes
<1>7. QED
  BY <1>5, <1>6

\* The branches of the loop.
LEMMA LoopStep ==
  ASSUME TypeOK, MapInv, MissedInv, HubStep
  PROVE  TypeOK' /\ MapInv' /\ MissedInv'
<1>1. CASE HubRegister
  <2>1. UNCHANGED <<batch, missed, cancelled, unregister>> /\ clients \subseteq clients'
    BY <1>1 DEF HubRegister
  <2>2. DoneIsEmpty' /\ Elements(unregister)' = Elements(unregister)
    BY <2>1 DEF MissedInv, DoneIsEmpty, Working, Elements
  <2>3. MissedInv'
    BY <2>1, <2>2, MissedKept
  <2>4. QED
    BY <1>1, <2>3, HubRegisterTypes, HubRegisterMap
<1>2. CASE HubUnregister
  <2>1. MapInv'
    BY <1>2, CloseMap DEF HubUnregister, conns
  <2>2. QED
    BY <1>2, <2>1, HubUnregisterTypes, HubUnregisterMissed
<1>3. CASE HubStop
  <2>1. MapInv'
    BY <1>3, CloseMap DEF HubStop, chans, conns
  <2>2. QED
    BY <1>3, <2>1, HubStopTypes, HubStopMissed
<1>4. CASE HubBroadcast
  <2>1. /\ UNCHANGED <<clients, closed, register, unregister, read, missed, cancelled>>
        /\ broadcast # <<>> /\ batch[Loop].phase = "idle"
        /\ UNCHANGED batch \/ StartBatch(Loop, Head(broadcast), clients)
    BY <1>4 DEF HubBroadcast, TakeMessage, Selecting, conns
  <2>2. Head(broadcast) \in Messages /\ clients \in SUBSET Clients /\ Loop \in Senders /\ BatchTypes
    BY <2>1, TypeParts, TailElements DEF TypeOK, Senders
  <2>3. CASE UNCHANGED batch
    <3>1. DoneIsEmpty' /\ Elements(unregister)' = Elements(unregister)
      BY <2>1, <2>3 DEF MissedInv, DoneIsEmpty, Working, Elements
    <3>2. QED
      BY <1>4, <2>1, <2>3, <3>1, HubBroadcastTypes, MapKept, MissedKept
  <2>4. CASE StartBatch(Loop, Head(broadcast), clients)
    <3>1. MissedInv'
      BY <2>1, <2>2, <2>4, StartMissed
    <3>2. batch'[Loop].todo = clients /\ \A o \in Senders \ {Loop} : batch'[o] = batch[o]
      BY <2>2, <2>4, StartBatchTypes
    <3>3. MapInv'
      BY <2>1, <3>2, MapKept
    <3>4. QED
      BY <1>4, <3>1, <3>3, HubBroadcastTypes
  <2>5. QED
    BY <2>1, <2>3, <2>4
<1>5. QED
  BY <1>1, <1>2, <1>3, <1>4 DEF HubStep

\* Calls of Broadcast, BroadcastToUser and Stop.
LEMMA PublicStep ==
  ASSUME TypeOK, MapInv, MissedInv, Broadcast \/ BroadcastToUser \/ Stop
  PROVE  TypeOK' /\ MapInv' /\ MissedInv'
<1>1. /\ UNCHANGED <<clients, closed, register, unregister, read, missed>>
      /\ cancelled => cancelled'
  BY DEF Broadcast, BroadcastToUser, Stop, chans, conns, history
<1>2. Elements(unregister)' = Elements(unregister)
  BY <1>1 DEF Elements
<1>3. CASE Broadcast \/ Stop
  <2>1. UNCHANGED batch
    BY <1>3 DEF Broadcast, Stop
  <2>2. DoneIsEmpty'
    BY <2>1 DEF MissedInv, DoneIsEmpty, Working
  <2>3. QED
    BY <1>1, <1>2, <1>3, <2>1, <2>2, BroadcastTypes, StopTypes, MapKept, MissedKept
<1>4. CASE BroadcastToUser
  <2>1. /\ StartBatch(Job, Direct, clients \cap Own) /\ batch[Job].phase = "idle"
        /\ UNCHANGED cancelled
    BY <1>4 DEF BroadcastToUser
  <2>2. clients \cap Own \in SUBSET Clients /\ Job \in Senders /\ BatchTypes
    BY TypeParts DEF TypeOK, Senders
  <2>3. Direct \in Messages
    BY Capacities DEF Direct, Messages
  <2>4. MissedInv'
    BY <1>1, <2>1, <2>2, <2>3, StartMissed
  <2>5. batch'[Job].todo = clients \cap Own /\ \A o \in Senders \ {Job} : batch'[o] = batch[o]
    BY <2>1, <2>2, <2>3, StartBatchTypes
  <2>6. MapInv'
    BY <1>1, <2>5, MapKept
  <2>7. QED
    BY <1>4, <2>4, <2>6, BroadcastToUserTypes
<1>5. QED
  BY <1>3, <1>4

\* Workers and the end of a batch.
LEMMA WorkStep ==
  ASSUME TypeOK, MapInv, MissedInv, NEW s \in Senders, BatchStep(s)
  PROVE  TypeOK' /\ MapInv' /\ MissedInv'
<1>1. ASSUME NEW c \in Clients, SendTo(s, c) PROVE TypeOK' /\ MapInv' /\ MissedInv'
  <2>1. UNCHANGED <<clients, closed, register, read>>
    BY <1>1 DEF SendTo, chans, conns
  <2>2. /\ batch'[s].todo = batch[s].todo \ {c}
        /\ \A o \in Senders \ {s} : batch'[o] = batch[o]
    BY <1>1, SendToOutcome
  <2>3. MapInv'
    BY <2>1, <2>2, MapKept
  <2>4. QED
    BY <1>1, <2>3, SendToTypes, SendToMissed
<1>2. ASSUME NEW c \in Clients, Disconnect(s, c) PROVE TypeOK' /\ MapInv' /\ MissedInv'
  <2>1. UNCHANGED <<clients, closed, register, read>>
    BY <1>2 DEF Disconnect, conns
  <2>2. batch'[s].todo = batch[s].todo /\ \A o \in Senders \ {s} : batch'[o] = batch[o]
    BY <1>2, TypeParts, DisconnectOutcome
  <2>3. MapInv'
    BY <2>1, <2>2, MapKept
  <2>4. QED
    BY <1>2, <2>3, DisconnectTypes, DisconnectMissed
<1>3. CASE BatchDone(s) \/ PoolDone \/ PoolReturn(s)
  <2>1. UNCHANGED <<clients, closed, register, read>>
    BY <1>3 DEF BatchDone, PoolDone, PoolReturn, chans, conns
  <2>2. \A o \in Senders : batch'[o].todo \subseteq batch[o].todo
    <3>1. CASE PoolDone
      BY <3>1, TypeParts, PoolDoneOutcome
    <3>2. CASE batch' = [batch EXCEPT ![s] = IdleBatch]
      BY <3>2, TypeParts, Ended, IdleIsBatch
    <3>3. QED
      BY <1>3, <3>1, <3>2 DEF BatchDone, PoolReturn
  <2>3. MapInv'
    BY <2>1, <2>2, MapKept
  <2>4. QED
    BY <1>3, <2>3, EndTypes, EndMissed
<1>4. QED
  BY <1>1, <1>2, <1>3 DEF BatchStep

LEMMA NextHub == HubInv /\ [Next]_vars => HubInv'
<1> SUFFICES ASSUME TypeOK, MapInv, MissedInv, [Next]_vars
             PROVE  TypeOK' /\ MapInv' /\ MissedInv'
  BY HubInvParts DEF HubInv, MapInv, MissedInv
<1>1. CASE Next
  BY <1>1, ConnectionStep, LoopStep, PublicStep, WorkStep DEF Next
<1>2. CASE UNCHANGED vars
  <2>1. UNCHANGED <<clients, register, unregister, broadcast, send, closed, read, write, open,
                    cancelled, hub, batch, sent, directs, crashed, from, log, missed, dispatched>>
    BY <1>2 DEF vars, chans, conns, history
  <2>2. TypeOK'
    BY <2>1 DEF TypeOK
  <2>3. MapInv'
    BY <2>1, MapKept
  <2>4. DoneIsEmpty' /\ Elements(unregister)' = Elements(unregister)
    BY <2>1 DEF MissedInv, DoneIsEmpty, Working, Elements
  <2>5. MissedInv'
    BY <2>1, <2>4, MissedKept
  <2>6. QED
    BY <2>2, <2>3, <2>5
<1>3. QED
  BY <1>1, <1>2

\* However connections come and go, senders overlap and the hub is stopped: a client is
\* registered once, workers only meet clients the hub has or has closed, and whoever
\* missed a message is on the way out.
THEOREM HubInvariant == Spec => []HubInv
<1>1. Init => HubInv
  BY InitHub
<1>2. HubInv /\ [Next]_vars => HubInv'
  BY NextHub
<1>3. QED
  BY <1>1, <1>2, PTL DEF Spec

\* Every variable keeps its type, and no channel holds more than its capacity.
THEOREM HubTypes == Spec => []TypeOK
<1>1. HubInv => TypeOK
  BY DEF HubInv
<1>2. QED
  BY <1>1, HubInvariant, PTL

\* The hub never closes a client's channel twice: the channel of every client it knows is
\* open.
THEOREM NeverClosedTwice == Spec => []RegisteredIsOpen
<1>1. HubInv => RegisteredIsOpen
  BY DEF HubInv
<1>2. QED
  BY <1>1, HubInvariant, PTL

\* A client that missed a message does not stay: until the hub is stopped, its removal is
\* in the channel or in the hands of a worker.
THEOREM NobodyStaysBehind == Spec => []MissedIsLeaving
<1>1. HubInv => MissedIsLeaving
  BY DEF HubInv
<1>2. QED
  BY <1>1, HubInvariant, PTL

---------------------------------------------------------------------------
(* What the Send of a registered client was given.                         *)

\* The broadcasts from one to another.
Broadcasts(first, last) == [i \in 1 .. last + 1 - first |-> first + i - 1]

\* A list of consecutive numbers, told by its length and its elements.
LEMMA Consecutive ==
  ASSUME NEW s \in Seq(Messages), NEW first \in Nat, NEW last \in Nat, first <= last + 1
  PROVE  s = Broadcasts(first, last) <=>
           /\ Len(s) = last + 1 - first
           /\ \A i \in 1 .. last + 1 - first : s[i] = first + i - 1
<1> DEFINE n == last + 1 - first
           b == [i \in 1 .. n |-> first + i - 1]
<1>1. n \in Nat /\ Broadcasts(first, last) = b
  BY DEF Broadcasts
<1>2. s = [i \in 1 .. Len(s) |-> s[i]] /\ Len(s) \in Nat /\ DOMAIN s = 1 .. Len(s)
  OBVIOUS
<1>3. ASSUME s = b PROVE Len(s) = n /\ \A i \in 1 .. n : s[i] = first + i - 1
  <2>1. DOMAIN s = 1 .. n
    BY <1>3
  <2>2. Len(s) = n
    BY <1>1, <1>2, <2>1
  <2>3. QED
    BY <1>3, <2>2
<1>4. ASSUME Len(s) = n, \A i \in 1 .. n : s[i] = first + i - 1 PROVE s = b
  BY <1>2, <1>4
<1>5. QED
  BY <1>1, <1>3, <1>4

LEMMA NoBroadcasts ==
  ASSUME NEW n \in Nat
  PROVE  Broadcasts(n + 1, n) = <<>>
<1>1. n + 1 - (n + 1) = 0
  OBVIOUS
<1>2. n + 1 <= n + 1 /\ n + 1 \in Nat
  OBVIOUS
<1>3. <<>> \in Seq(Messages) /\ Len(<<>>) = 0 /\ 1 .. 0 = {}
  OBVIOUS
<1>4. QED
  BY <1>1, <1>2, <1>3, Consecutive, ZenonT(30)

\* What NothingSkipped says of one client.
Complete(c) == log[c] = Broadcasts(from[c], Due(c))

LEMMA CompleteKept ==
  ASSUME NEW c, log'[c] = log[c], from'[c] = from[c], Due(c)' = Due(c), Complete(c)
  PROVE  Complete(c)'
  BY DEF Complete, Due

LEMMA SkippedParts == NothingSkipped <=> \A c \in clients \ missed : Complete(c)
  BY DEF NothingSkipped, Complete, Broadcasts, Due

\* Steps that give no client a broadcast and take none of them off the list.
LEMMA LogKept ==
  ASSUME TypeOK, LogInv, UNCHANGED <<clients, from, log, dispatched>>, missed \subseteq missed',
         Numbered', batch'[Job].msg = batch[Job].msg,
         batch'[Loop].todo = batch[Loop].todo,
         batch[Loop].todo # {} => batch'[Loop].msg = batch[Loop].msg
  PROVE  LogInv'
<1>1. MessagesKnown'
  BY DEF LogInv, MessagesKnown
<1>2. \A c \in Clients : Due(c)' = Due(c)
  BY DEF Due
<1>3. LogsKnown'
  BY <1>2 DEF LogInv, LogsKnown, TypeOK
<1>4. \A c \in clients \ missed : Complete(c)
  BY SkippedParts DEF LogInv
<1>5. \A c \in (clients \ missed)' : Complete(c)'
  BY <1>2, <1>4, CompleteKept DEF TypeOK
<1>6. NothingSkipped'
  BY <1>5 DEF NothingSkipped, Complete, Broadcasts, Due
<1>7. QED
  BY <1>1, <1>3, <1>6 DEF LogInv

LEMMA NumberedKept ==
  ASSUME Numbered, UNCHANGED <<sent, dispatched, broadcast>>
  PROVE  Numbered'
  BY DEF Numbered

\* A client that was in the channel is given what follows.
LEMMA HubRegisterLog ==
  ASSUME TypeOK, MapInv, MissedInv, LogInv, HubRegister
  PROVE  LogInv'
<1> DEFINE h == Head(register)
<1>1. /\ UNCHANGED <<batch, log, missed, dispatched, sent, broadcast>> /\ register # <<>>
      /\ clients' = clients \cup {h} /\ from' = [from EXCEPT ![h] = dispatched + 1]
  BY DEF HubRegister
<1>2. h \in Clients /\ h \in Elements(register)
  BY <1>1, TailElements DEF TypeOK
<1>3. h \notin clients \cup closed
  BY <1>2 DEF MapInv, RegisteredOnce
<1>4. h \notin batch[Loop].todo /\ h \notin missed /\ log[h] = <<>>
  BY <1>2, <1>3 DEF MapInv, TargetsKnown, Senders, MissedInv, LogInv, LogsKnown
<1>5. dispatched \in Nat /\ from'[h] = dispatched + 1 /\ \A c \in Clients \ {h} : from'[c] = from[c]
  BY <1>1, <1>2, Capacities DEF TypeOK, Messages
<1>6. \A c \in Clients : Due(c)' = Due(c)
  BY <1>1 DEF Due
<1>7. Due(h) = dispatched
  BY <1>4 DEF Due
<1>8. Numbered' /\ MessagesKnown'
  BY <1>1, NumberedKept DEF LogInv, MessagesKnown
<1>9. LogsKnown'
  <2>1. \A c \in (Clients \ clients)' : log'[c] = <<>>
    BY <1>1 DEF LogInv, LogsKnown
  <2>2. ASSUME NEW c \in clients' PROVE from'[c] >= 1 /\ from'[c] <= Due(c)' + 1
    <3>1. CASE c = h
      BY <1>2, <1>5, <1>6, <1>7, <3>1
    <3>2. CASE c # h
      <4>1. c \in clients /\ c \in Clients
        BY <1>1, <2>2, <3>2 DEF TypeOK
      <4>2. QED
        BY <1>5, <1>6, <3>2, <4>1 DEF LogInv, LogsKnown
    <3>3. QED
      BY <3>1, <3>2
  <2>3. QED
    BY <2>1, <2>2 DEF LogsKnown
<1>10. ASSUME NEW c \in clients' \ missed' PROVE Complete(c)'
  <2>1. CASE c = h
    <3>1. Broadcasts(dispatched + 1, dispatched) = <<>>
      BY <1>5, NoBroadcasts
    <3>2. QED
      BY <1>1, <1>2, <1>4, <1>5, <1>6, <1>7, <2>1, <3>1 DEF Complete, Due
  <2>2. CASE c # h
    <3>1. c \in clients \ missed /\ c \in Clients
      BY <1>1, <1>10, <2>2 DEF TypeOK
    <3>2. Complete(c)
      BY <3>1, SkippedParts DEF LogInv
    <3>3. QED
      BY <1>1, <1>5, <1>6, <2>2, <3>1, <3>2, CompleteKept
  <2>3. QED
    BY <2>1, <2>2
<1>11. NothingSkipped'
  BY <1>10 DEF NothingSkipped, Complete, Broadcasts, Due
<1>12. QED
  BY <1>8, <1>9, <1>11 DEF LogInv

\* Whoever is removed has nothing to show.
LEMMA CloseLog ==
  ASSUME TypeOK, LogInv, NEW set, set \subseteq clients, CloseSend(set),
         UNCHANGED <<batch, dispatched, sent, broadcast>>
  PROVE  LogInv'
<1>1. /\ clients' = clients \ set /\ missed' = missed \ set
      /\ \A c \in Clients : log'[c] = IF c \in set THEN <<>> ELSE log[c]
      /\ \A c \in Clients : from'[c] = IF c \in set THEN 0 ELSE from[c]
  BY DEF CloseSend
<1>2. \A c \in Clients : Due(c)' = Due(c)
  BY DEF Due
<1>3. Numbered' /\ MessagesKnown'
  BY NumberedKept DEF LogInv, MessagesKnown
<1>4. LogsKnown'
  BY <1>1, <1>2 DEF LogInv, LogsKnown, TypeOK
<1>5. ASSUME NEW c \in clients' \ missed' PROVE Complete(c)'
  <2>1. c \in clients \ missed /\ c \notin set /\ c \in Clients
    BY <1>1, <1>5 DEF TypeOK
  <2>2. Complete(c)
    BY <2>1, SkippedParts DEF LogInv
  <2>3. QED
    BY <1>1, <1>2, <2>1, <2>2, CompleteKept
<1>6. NothingSkipped'
  BY <1>5 DEF NothingSkipped, Complete, Broadcasts, Due
<1>7. QED
  BY <1>3, <1>4, <1>6 DEF LogInv

\* The next message is the one after the last, and nobody was still to be given that one.
LEMMA HubBroadcastLog ==
  ASSUME TypeOK, MissedInv, LogInv, HubBroadcast
  PROVE  LogInv'
<1>1. /\ UNCHANGED <<clients, from, log, missed, sent>> /\ broadcast # <<>>
      /\ broadcast' = Tail(broadcast) /\ dispatched' = Head(broadcast)
      /\ batch[Loop].phase = "idle" /\ Loop \in Senders /\ Job \in Senders /\ Loop # Job
  BY HubAssumption DEF HubBroadcast, TakeMessage, Selecting, Senders
<1>2. /\ Head(broadcast) = broadcast[1] /\ Len(broadcast) \in Nat \ {0}
      /\ Head(broadcast) \in Messages /\ Len(Tail(broadcast)) = Len(broadcast) - 1
      /\ \A i \in 1 .. Len(Tail(broadcast)) : Tail(broadcast)[i] = broadcast[i + 1]
  BY <1>1, TailElements DEF TypeOK
<1>3. dispatched \in Nat /\ sent \in Nat
  BY Capacities DEF TypeOK, Messages
<1>4. dispatched' = dispatched + 1
  BY <1>1, <1>2 DEF LogInv, Numbered
<1>5. Numbered'
  <2>1. sent' = dispatched' + Len(broadcast')
    BY <1>1, <1>2, <1>3, <1>4 DEF LogInv, Numbered
  <2>2. ASSUME NEW i \in 1 .. Len(broadcast') PROVE broadcast'[i] = dispatched' + i
    <3>1. i \in Nat /\ i + 1 \in 1 .. Len(broadcast)
      BY <1>1, <1>2
    <3>2. broadcast'[i] = dispatched + (i + 1)
      BY <1>1, <1>2, <3>1 DEF LogInv, Numbered
    <3>3. QED
      BY <1>3, <1>4, <3>1, <3>2
  <2>3. QED
    BY <2>1, <2>2 DEF Numbered
<1>6. batch[Loop].todo = {}
  BY <1>1 DEF MissedInv, DoneIsEmpty, Working
<1>7. /\ batch'[Job] = batch[Job] /\ batch'[Loop].todo = clients
      /\ batch'[Loop].todo # {} => batch'[Loop].msg = dispatched'
  <2>1. CASE clients = {}
    BY <1>1, <1>6, <2>1 DEF HubBroadcast, TakeMessage
  <2>2. CASE clients # {}
    <3>1. StartBatch(Loop, Head(broadcast), clients)
      BY <2>2 DEF HubBroadcast, TakeMessage
    <3>2. BatchTypes /\ clients \in SUBSET Clients
      BY TypeParts DEF TypeOK
    <3>3. QED
      BY <1>1, <1>2, <3>1, <3>2, StartBatchTypes
  <2>3. QED
    BY <2>1, <2>2
<1>8. MessagesKnown'
  BY <1>3, <1>4, <1>7 DEF LogInv, MessagesKnown
<1>9. \A c \in clients : Due(c) = dispatched /\ Due(c)' = dispatched
  BY <1>3, <1>4, <1>6, <1>7 DEF Due
<1>10. LogsKnown'
  BY <1>1, <1>9 DEF LogInv, LogsKnown
<1>11. ASSUME NEW c \in clients' \ missed' PROVE Complete(c)'
  <2>1. c \in clients \ missed
    BY <1>1, <1>11
  <2>2. Complete(c)
    BY <2>1, SkippedParts DEF LogInv
  <2>3. QED
    BY <1>1, <1>9, <2>1, <2>2, CompleteKept
<1>12. NothingSkipped'
  BY <1>11 DEF NothingSkipped, Complete, Broadcasts, Due
<1>13. QED
  BY <1>5, <1>8, <1>10, <1>12 DEF LogInv

LEMMA BroadcastLog ==
  ASSUME TypeOK, LogInv, Broadcast
  PROVE  LogInv'
<1>1. /\ UNCHANGED <<clients, from, log, missed, dispatched, batch>>
      /\ sent' = sent + 1 /\ broadcast' = Append(broadcast, sent + 1)
  BY DEF Broadcast, history
<1>2. dispatched \in Nat /\ sent \in Nat /\ broadcast \in Seq(Messages) /\ Len(broadcast) \in Nat
  BY Capacities DEF TypeOK, Messages
<1>3. /\ Len(broadcast') = Len(broadcast) + 1 /\ broadcast'[Len(broadcast) + 1] = sent + 1
      /\ \A i \in 1 .. Len(broadcast) : broadcast'[i] = broadcast[i]
  BY <1>1, <1>2
<1>4. sent' = dispatched' + Len(broadcast')
  BY <1>1, <1>2, <1>3 DEF LogInv, Numbered
<1>5. ASSUME NEW i \in 1 .. Len(broadcast') PROVE broadcast'[i] = dispatched' + i
  <2>1. i = Len(broadcast) + 1 \/ i \in 1 .. Len(broadcast)
    BY <1>2, <1>3
  <2>2. QED
    BY <1>1, <1>2, <1>3, <2>1 DEF LogInv, Numbered
<1>6. Numbered'
  BY <1>4, <1>5 DEF Numbered
<1>7. QED
  BY <1>1, <1>6, LogKept

\* A worker of the job adds no broadcast to what a client was given.
LEMMA JobSendLog ==
  ASSUME TypeOK, LogInv, NEW c \in Clients, SendTo(Job, c)
  PROVE  LogInv'
<1>1. Job \in Senders /\ Loop \in Senders /\ Loop # Job
  BY HubAssumption DEF Senders
<1>2. UNCHANGED <<clients, from, dispatched, sent, broadcast>>
  BY DEF SendTo, chans
<1>3. batch[Job].msg = Direct
  BY DEF LogInv, MessagesKnown
<1>4. UNCHANGED log
  <2>1. CASE log' = [log EXCEPT ![c] = IF batch[Job].msg = Direct THEN log[c]
                                       ELSE Append(log[c], batch[Job].msg)]
    BY <1>3, <2>1 DEF TypeOK
  <2>2. QED
    BY <2>1 DEF SendTo
<1>5. missed \subseteq missed' /\ batch'[Job].msg = batch[Job].msg /\ batch'[Loop] = batch[Loop]
  BY <1>1, SendToOutcome
<1>6. QED
  BY <1>2, <1>4, <1>5, LogKept, NumberedKept DEF LogInv

\* A worker of the loop gives its client the last broadcast, finds the buffer full, or
\* finds the client gone.
LEMMA LoopSendLog ==
  ASSUME TypeOK, MapInv, LogInv, NEW c \in Clients, SendTo(Loop, c)
  PROVE  LogInv'
<1>1. Job \in Senders /\ Loop \in Senders /\ Loop # Job
  BY HubAssumption DEF Senders
<1>2. UNCHANGED <<clients, closed, from, dispatched, sent, broadcast>>
  BY DEF SendTo, chans
<1>3. /\ batch'[Loop].msg = batch[Loop].msg /\ batch'[Job] = batch[Job]
      /\ c \in batch[Loop].todo /\ batch'[Loop].todo = batch[Loop].todo \ {c}
      /\ missed' = IF Found(c) THEN missed \cup {c} ELSE missed
  BY <1>1, SendToOutcome
<1>4. batch[Loop].msg = dispatched /\ dispatched \in Nat /\ dispatched > 0
  BY <1>3, Capacities DEF LogInv, MessagesKnown, TypeOK, Messages
<1>5. /\ \A d \in Clients \ {c} : log'[d] = log[d]
      /\ c \in closed \/ Found(c) => log'[c] = log[c]
      /\ ~(c \in closed \/ Found(c)) => log'[c] = Append(log[c], dispatched)
  <2>1. Direct # dispatched
    BY <1>4 DEF Direct
  <2>2. IF c \in closed \/ Found(c) THEN UNCHANGED log
        ELSE log' = [log EXCEPT ![c] = IF batch[Loop].msg = Direct THEN log[c]
                                       ELSE Append(log[c], batch[Loop].msg)]
    BY DEF SendTo, Found
  <2>3. QED
    BY <1>4, <2>1, <2>2 DEF TypeOK
<1>6. /\ \A d \in Clients \ {c} : Due(d)' = Due(d)
      /\ Due(c) = dispatched - 1 /\ Due(c)' = dispatched
  BY <1>2, <1>3 DEF Due
<1>7. c \in clients \/ c \in closed
  BY <1>1, <1>3 DEF MapInv, TargetsKnown
<1>8. Numbered' /\ MessagesKnown'
  BY <1>2, <1>3, NumberedKept DEF LogInv, MessagesKnown
<1>9. LogsKnown'
  <2>1. ASSUME NEW d \in (Clients \ clients)' PROVE log'[d] = <<>>
    BY <1>2, <1>5, <1>7, <2>1 DEF LogInv, LogsKnown
  <2>2. ASSUME NEW d \in clients' PROVE from'[d] >= 1 /\ from'[d] <= Due(d)' + 1
    <3>1. d \in Clients /\ from[d] \in Nat /\ from[d] >= 1 /\ from[d] <= Due(d) + 1
      BY <1>2, <2>2 DEF LogInv, LogsKnown, TypeOK
    <3>2. CASE d = c
      BY <1>2, <1>4, <1>6, <3>1, <3>2
    <3>3. CASE d # c
      BY <1>2, <1>6, <3>1, <3>3
    <3>4. QED
      BY <3>2, <3>3
  <2>3. QED
    BY <2>1, <2>2 DEF LogsKnown
<1>10. ASSUME NEW d \in clients' \ missed' PROVE Complete(d)'
  <2>1. d \in clients \ missed /\ d \in Clients
    BY <1>2, <1>3, <1>10 DEF TypeOK
  <2>2. Complete(d)
    BY <2>1, SkippedParts DEF LogInv
  <2>3. CASE d # c
    BY <1>2, <1>5, <1>6, <2>1, <2>2, <2>3, CompleteKept
  <2>4. CASE d = c
    <3>1. ~(c \in closed \/ Found(c))
      <4>1. c \notin closed
        BY <2>1, <2>4 DEF MapInv, RegisteredIsOpen
      <4>2. ~Found(c)
        BY <1>3, <1>10, <2>4
      <4>3. QED
        BY <4>1, <4>2
    <3>2. log'[c] = Append(log[c], dispatched)
      BY <1>5, <3>1
    <3>3. /\ log[c] \in Seq(Messages) /\ from[c] \in Nat /\ from[c] >= 1
          /\ from[c] <= (dispatched - 1) + 1 /\ dispatched - 1 \in Nat
          /\ dispatched \in Messages /\ dispatched \in Nat
      BY <1>4, <1>6, <2>1, <2>4 DEF LogInv, LogsKnown, TypeOK
    <3>4. log[c] = Broadcasts(from[c], dispatched - 1)
      BY <1>6, <2>2, <2>4 DEF Complete
    <3>5. /\ Len(log[c]) = (dispatched - 1) + 1 - from[c]
          /\ \A i \in 1 .. (dispatched - 1) + 1 - from[c] : log[c][i] = from[c] + i - 1
      BY <3>3, <3>4, Consecutive
    <3>6. log'[c] = Broadcasts(from[c], dispatched)
      <4>1. /\ log'[c] \in Seq(Messages) /\ Len(log'[c]) = Len(log[c]) + 1
            /\ log'[c][Len(log[c]) + 1] = dispatched
            /\ \A i \in 1 .. Len(log[c]) : log'[c][i] = log[c][i]
        BY <3>2, <3>3
      <4>2. Len(log'[c]) = dispatched + 1 - from[c]
        BY <3>3, <3>5, <4>1
      <4>3. ASSUME NEW i \in 1 .. dispatched + 1 - from[c] PROVE log'[c][i] = from[c] + i - 1
        <5>1. i = Len(log[c]) + 1 \/ i \in 1 .. Len(log[c])
          BY <3>3, <3>5
        <5>2. CASE i = Len(log[c]) + 1
          BY <3>3, <3>5, <4>1, <5>2
        <5>3. CASE i \in 1 .. Len(log[c])
          BY <3>3, <3>5, <4>1, <5>3
        <5>4. QED
          BY <5>1, <5>2, <5>3
      <4>4. from[c] <= dispatched + 1 /\ dispatched \in Nat
        BY <3>3
      <4>5. QED
        BY <3>3, <4>1, <4>2, <4>3, <4>4, Consecutive, ZenonT(30)
    <3>7. QED
      BY <1>2, <1>6, <2>4, <3>6 DEF Complete, Broadcasts
  <2>5. QED
    BY <2>3, <2>4
<1>11. NothingSkipped'
  BY <1>10 DEF NothingSkipped, Complete, Broadcasts, Due
<1>12. QED
  BY <1>8, <1>9, <1>11 DEF LogInv

\* The other steps of a batch.
LEMMA RestOfBatchLog ==
  ASSUME TypeOK, MissedInv, LogInv, NEW s \in Senders,
         (\E c \in Clients : Disconnect(s, c)) \/ BatchDone(s) \/ PoolDone \/ PoolReturn(s)
  PROVE  LogInv'
<1>1. UNCHANGED <<clients, from, log, missed, dispatched, sent, broadcast>>
  BY DEF Disconnect, BatchDone, PoolDone, PoolReturn, chans, history
<1>2. Loop \in Senders /\ Job \in Senders /\ BatchTypes
  BY TypeParts DEF Senders
<1>3. batch[Job].msg = Direct
  BY DEF LogInv, MessagesKnown
<1>4. /\ batch'[Job].msg = batch[Job].msg /\ batch'[Loop].todo = batch[Loop].todo
      /\ batch[Loop].todo # {} => batch'[Loop].msg = batch[Loop].msg
  <2>1. CASE \E c \in Clients : Disconnect(s, c)
    <3>1. PICK c \in Clients : Disconnect(s, c)
      BY <2>1
    <3>2. \A o \in Senders : batch'[o].msg = batch[o].msg /\ batch'[o].todo = batch[o].todo
      BY <1>2, <3>1, DisconnectOutcome
    <3>3. QED
      BY <1>2, <3>2
  <2>2. CASE PoolDone
    BY <1>2, <2>2, PoolDoneOutcome
  <2>3. CASE BatchDone(s) \/ PoolReturn(s)
    <3>1. batch' = [batch EXCEPT ![s] = IdleBatch] /\ batch[s].todo = {}
      BY <2>3 DEF BatchDone, PoolReturn, Working, MissedInv, DoneIsEmpty
    <3>2. batch'[s] = IdleBatch /\ \A o \in Senders \ {s} : batch'[o] = batch[o]
      BY <1>2, <3>1, Ended
    <3>3. QED
      BY <1>2, <1>3, <3>1, <3>2, IdleIsBatch
  <2>4. QED
    BY <2>1, <2>2, <2>3
<1>5. QED
  BY <1>1, <1>4, LogKept, NumberedKept DEF LogInv

LEMMA BroadcastToUserLog ==
  ASSUME TypeOK, LogInv, BroadcastToUser
  PROVE  LogInv'
<1>1. /\ UNCHANGED <<clients, from, log, missed, dispatched, sent, broadcast>>
      /\ StartBatch(Job, Direct, clients \cap Own)
  BY DEF BroadcastToUser, chans, history
<1>2. /\ Loop \in Senders /\ Job \in Senders /\ Loop # Job /\ BatchTypes
      /\ Direct \in Messages /\ clients \cap Own \in SUBSET Clients
  BY HubAssumption, Capacities, TypeParts, SMTT(30) DEF Senders, TypeOK, Direct, Messages
<1>3. batch'[Job].msg = Direct /\ batch'[Loop] = batch[Loop]
  BY <1>1, <1>2, StartBatchTypes
<1>4. QED
  BY <1>1, <1>3, LogKept, NumberedKept DEF LogInv, MessagesKnown

LEMMA InitLog == Init => LogInv
<1>1. ASSUME Init PROVE LogInv
  <2>1. Loop \in Senders /\ Job \in Senders
    BY DEF Senders
  <2>2. /\ clients = {} /\ sent = 0 /\ dispatched = 0 /\ broadcast = <<>>
        /\ \A s \in Senders : batch[s] = IdleBatch
        /\ \A c \in Clients : log[c] = <<>>
    BY <1>1 DEF Init
  <2>3. Numbered
    BY <2>2 DEF Numbered
  <2>4. MessagesKnown /\ LogsKnown /\ NothingSkipped
    BY <2>1, <2>2, IdleIsBatch DEF MessagesKnown, LogsKnown, NothingSkipped
  <2>5. QED
    BY <2>3, <2>4 DEF LogInv
<1>2. QED
  BY <1>1

LEMMA NextLog == HubInv /\ LogInv /\ [Next]_vars => LogInv'
<1> SUFFICES ASSUME TypeOK, MapInv, MissedInv, LogInv, [Next]_vars
             PROVE  LogInv'
  BY HubInvParts
<1>1. CASE \E c \in Clients : Register(c) \/ Drop(c) \/ ReadEnds(c) \/ WritePump(c)
  <2>1. UNCHANGED <<clients, from, log, missed, dispatched, sent, broadcast, batch>>
    BY <1>1 DEF Register, Drop, ReadEnds, WritePump, chans, history
  <2>2. QED
    BY <2>1, LogKept, NumberedKept DEF LogInv
<1>2. CASE HubStep
  <2>1. CASE HubUnregister
    BY <2>1, CloseLog DEF HubUnregister
  <2>2. CASE HubStop
    BY <2>2, CloseLog DEF HubStop, chans
  <2>3. QED
    BY <1>2, <2>1, <2>2, HubRegisterLog, HubBroadcastLog DEF HubStep
<1>3. CASE Broadcast \/ BroadcastToUser
  BY <1>3, BroadcastLog, BroadcastToUserLog
<1>4. CASE Stop \/ UNCHANGED vars
  <2>1. UNCHANGED <<clients, from, log, missed, dispatched, sent, broadcast, batch>>
    BY <1>4 DEF Stop, vars, chans, history
  <2>2. QED
    BY <2>1, LogKept, NumberedKept DEF LogInv
<1>5. ASSUME NEW s \in Senders, BatchStep(s) PROVE LogInv'
  <2>1. CASE \E c \in Clients : SendTo(s, c)
    <3>1. s = Loop \/ s = Job
      BY DEF Senders
    <3>2. QED
      BY <2>1, <3>1, JobSendLog, LoopSendLog
  <2>2. QED
    BY <1>5, <2>1, RestOfBatchLog DEF BatchStep
<1>6. QED
  BY <1>1, <1>2, <1>3, <1>4, <1>5 DEF Next

\* A client that never found its buffer full has been given every broadcast since its
\* registration, once and in order, whatever order the workers of a broadcast run in and
\* whoever else writes to its buffer.
THEOREM EveryBroadcast == Spec => []NothingSkipped
<1>1. Init => LogInv
  BY InitLog
<1>2. HubInv /\ LogInv /\ [Next]_vars => LogInv'
  BY NextLog
<1>3. LogInv => NothingSkipped
  BY DEF LogInv
<1>4. QED
  BY <1>1, <1>2, <1>3, HubInvariant, PTL DEF Spec

-----------------------------------------------------------------------------
(* The clients of the panel (People): a behaviour of each part is one of    *)
(* the module of that part, so that the theorems of the modules hold of it. *)

\* The hub's part is a behaviour of the hub, and the others leave the hub alone.
LEMMA PartsAreBoth == PartsSpec => Spec /\ PeopleSpec
<1>1. PartsInit => Init /\ PeopleInit
  BY DEF PartsInit
<1>2. [PartsNext]_<<vars, part, people>> => [Next]_vars /\ [PeopleNext]_<<part, people>>
  BY DEF PartsNext
<1> QED
  BY <1>1, <1>2, PTL DEF PartsSpec, Spec, PeopleSpec

LEMMA PeopleAreModules ==
  /\ [PeopleNext]_<<part, people>> =>
       /\ (part = "quota")' <=> part = "quota"
       /\ (part = "members")' <=> part = "members"
       /\ (part = "remote")' <=> part = "remote"
       /\ (part = "pushed")' <=> part = "pushed"
       /\ (part = "devices")' <=> part = "devices"
       /\ (part = "links")' <=> part = "links"
       /\ (part = "wording")' <=> part = "wording"
  /\ PeopleInit =>
       /\ part = "quota" => First!Init
       /\ part = "members" => Second!Init
       /\ part = "remote" => First!Remote!Init
       /\ part = "pushed" => Second!Remote!Init
       /\ part = "devices" => First!Links!Init
       /\ part = "links" => Second!Links!Init
       /\ part = "wording" => First!Words!Init
  /\ [PeopleNext]_<<part, people>> =>
       /\ part = "quota" => [First!Next]_First!vars
       /\ part = "members" => [Second!Next]_Second!vars
       /\ part = "remote" => [First!Remote!Next]_First!Remote!vars
       /\ part = "pushed" => [Second!Remote!Next]_Second!Remote!vars
       /\ part = "devices" => [First!Links!Next]_First!Links!vars
       /\ part = "links" => [Second!Links!Next]_Second!Links!vars
       /\ part = "wording" => [First!Words!Next]_First!Words!vars
<1>1. [PeopleNext]_<<part, people>> => part' = part
  BY DEF PeopleNext
<1>2. PeopleInit =>
        /\ part = "quota" => First!Init
        /\ part = "members" => Second!Init
        /\ part = "remote" => First!Remote!Init
        /\ part = "pushed" => Second!Remote!Init
        /\ part = "devices" => First!Links!Init
        /\ part = "links" => Second!Links!Init
        /\ part = "wording" => First!Words!Init
  BY DEF PeopleInit
<1>3. [PeopleNext]_<<part, people>> =>
        /\ part = "quota" => [First!Next]_accounts
        /\ part = "members" => [Second!Next]_accounts
        /\ part = "remote" => [First!Remote!Next]_remote
        /\ part = "pushed" => [Second!Remote!Next]_remote
        /\ part = "devices" => [First!Links!Next]_links
        /\ part = "links" => [Second!Links!Next]_links
        /\ part = "wording" => [First!Words!Next]_wording
  BY DEF PeopleNext, people
<1>4. /\ UNCHANGED accounts => UNCHANGED First!vars /\ UNCHANGED Second!vars
      /\ UNCHANGED remote =>
           UNCHANGED First!Remote!vars /\ UNCHANGED Second!Remote!vars
      /\ UNCHANGED links => UNCHANGED First!Links!vars /\ UNCHANGED Second!Links!vars
      /\ UNCHANGED wording => UNCHANGED First!Words!vars
  BY DEF accounts, remote, links, wording, First!vars, Second!vars, First!Remote!vars,
         Second!Remote!vars, First!Links!vars, Second!Links!vars, First!Words!vars
<1> QED
  BY <1>1, <1>2, <1>3, <1>4

\* Once all is at rest, every client that may connect is served by each of its inbounds,
\* on the panel's own core and on every worker, but for what is on record, for any
\* numbers of clients, inbounds, workers, requests, edits, ticks, pushes and faults.
THEOREM TheEntitledAreServed == PeopleSpec => []EntitledIsServed
<1>1. First!Spec => []First!EntitledIsServed
  BY PeopleAssumption, First!TheEntitledAreServed
<1>2. Second!Spec => [](Second!TypeOK /\ Second!EntitledIsServed)
  BY PeopleAssumption, Second!ClientsTypes, Second!TheEntitledAreServed, PTL
<1>3. First!Remote!Spec => [](First!Remote!TypeOK /\ First!Remote!EntitledIsServed)
  BY First!RemoteInvariant, First!RemoteAtRest, PTL
<1>4. Second!Remote!Spec => [](Second!Remote!TypeOK /\ Second!Remote!EntitledIsServed)
  BY Second!RemoteInvariant, Second!RemoteAtRest, PTL
<1> QED
  BY <1>1, <1>2, <1>3, <1>4, PeopleAreModules, PTL
     DEF PeopleSpec, EntitledIsServed, First!Spec, Second!Spec, First!Remote!Spec,
         Second!Remote!Spec

\* No client pays for more than the core has moved for it, all of them together for no
\* more than the two fallbacks charge, and none passes its quota, whatever ticks,
\* goroutines and requests overlap (Clients).
THEOREM TheBillsAreRight == PeopleSpec => []ChargedRight
<1>1. First!Spec => [](First!TypeOK /\ First!ChargedWasDelivered /\ First!WithinLimit)
  BY PeopleAssumption, First!ClientsTypes, First!ChargedIsDelivered, First!StaysWithinLimit, PTL
<1> QED
  BY <1>1, PeopleAreModules, PTL DEF PeopleSpec, ChargedRight, First!Spec

\* Then whoever may not connect is served only in the ways the code has for it.
THEOREM OnlyTheStrayLinger == PeopleSpec => []OnlyKnownWaysToLinger
<1>1. First!Spec => []First!OnlyKnownWaysToLinger
  BY PeopleAssumption, First!OnlyTheStrayLinger
<1>2. Second!Spec => []Second!OnlyKnownWaysToLinger
  BY PeopleAssumption, Second!OnlyTheStrayLinger
<1>3. First!Remote!Spec => []First!Remote!OnlyKnownWaysToLinger
  BY First!RemoteInvariant, First!RemoteAtRest, PTL
<1>4. Second!Remote!Spec => []Second!Remote!OnlyKnownWaysToLinger
  BY Second!RemoteInvariant, Second!RemoteAtRest, PTL
<1> QED
  BY <1>1, <1>2, <1>3, <1>4, PeopleAreModules, PTL
     DEF PeopleSpec, OnlyKnownWaysToLinger, First!Spec, Second!Spec, First!Remote!Spec,
         Second!Remote!Spec

\* A client has no more devices than its limit but for two requests that counted them
\* at once, or an administrator; a device found blocked gets no links (Subscription).
THEOREM DevicesAreKept == PartsSpec => []OnlyKnownDevices
<1>1. First!Links!Spec =>
        [](/\ First!Links!TypeOK
           /\ First!Links!DevicesWithinLimit /\ First!Links!BlockedStaysOut)
  BY PeopleAssumption, First!SubscriptionInvariant, First!SubSays, PTL
<1>2. PeopleSpec => []OnlyKnownDevices
  BY <1>1, PeopleAreModules, PTL DEF PeopleSpec, OnlyKnownDevices, First!Links!Spec
<1> QED
  BY <1>2, PartsAreBoth, PTL

\* A host that replaces the addresses of an inbound for the whole of a request hides
\* them from it, whatever tables are edited between the reads (Subscription).
THEOREM OriginStaysHidden == PartsSpec => []HostHidesOrigin
<1>1. Second!Links!Spec => [](Second!Links!TypeOK /\ Second!Links!HostHidesOrigin)
  BY PeopleAssumption, Second!SubscriptionInvariant, Second!SubSays, PTL
<1>2. PeopleSpec => []HostHidesOrigin
  BY <1>1, PeopleAreModules, PTL DEF PeopleSpec, HostHidesOrigin, Second!Links!Spec
<1> QED
  BY <1>2, PartsAreBoth, PTL

\* The two generators of links write the same, unless the older one stops, and no
\* connection without TLS carries values of TLS, for any inbound, any number of external
\* proxies and any overrides of a host (ShareLinks).
THEOREM GeneratorsWriteTheSame == PartsSpec => []GeneratorsAgree
<1>1. First!Words!Spec => [](First!Words!GeneratorsAgree /\ First!Words!PlainIsPlain)
  BY PeopleAssumption, First!LinksInvariant, First!LinksSay, PTL
<1>2. PeopleSpec => []GeneratorsAgree
  BY <1>1, PeopleAreModules, PTL DEF PeopleSpec, GeneratorsAgree, First!Words!Spec
<1> QED
  BY <1>2, PartsAreBoth, PTL

\* Links and configurations ask for the same security at each proxy up to the first that
\* forces another, and who is told to use TLS is told its settings (ShareLinks).
THEOREM SecurityIsTheSame == PartsSpec => []SameSecurity
<1>1. First!Words!Spec => [](First!Words!SameSecurity /\ First!Words!TlsHasSettings)
  BY PeopleAssumption, First!LinksInvariant, First!LinksSay, PTL
<1>2. PeopleSpec => []SameSecurity
  BY <1>1, PeopleAreModules, PTL DEF PeopleSpec, SameSecurity, First!Words!Spec
<1> QED
  BY <1>2, PartsAreBoth, PTL

=============================================================================
