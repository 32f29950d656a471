------------------------------ MODULE LogStream ------------------------------
(***************************************************************************)
(* The live log, from a worker node to a reader of the panel:              *)
(*                                                                         *)
(*   node/logs/pusher.go    the worker's lines gather in a buffer; a       *)
(*                          ticker, or a goroutine started by the line     *)
(*                          that fills it, takes the buffer and posts it   *)
(*                          to the panel once, with no second try          *)
(*   web/controller/api.go  pushNodeLogs emits the posted lines one by one *)
(*   web/web.go             the panel's own lines go the same way          *)
(*   web/logsse/hub.go      Emit offers a line to a bounded channel; one   *)
(*                          dispatcher gathers a batch and offers it to    *)
(*                          the bounded channel of each subscriber         *)
(*   web/controller/server.go  getLogsSSE writes the batches of one reader *)
(*                                                                         *)
(* Nothing on the way blocks, so a line can be lost at each stage; the     *)
(* module says that it is lost nowhere else, that it never comes twice,    *)
(* and that a slow reader costs nobody but himself.                        *)
(***************************************************************************)
EXTENDS Naturals, Sequences, FiniteSets, FiniteSetsExt, SequencesExt

CONSTANTS
  Readers,     \* one for each connection to /logs/sse
  Source,      \* Source[r]: the filter of r, "all", "panel" or "node"
  MaxLines,    \* MaxLines[s]: how many lines s = "panel", "node" writes
  FullBuffer,  \* the worker's buffer starts a push at this length (10)
  FullBatch,   \* the dispatcher flushes at this length (50)
  InCap,       \* inChanCap (4096)
  ReaderCap,   \* clientChanCap (64), in batches
  MaxCrashes

VARIABLES
  enabled,    \* the worker knows the panel's URL
  buffer,     \* LogPusher.logBuffer
  kicks,      \* goroutines in push() that have not yet taken the buffer
  flights,    \* posts the panel has not received
  serving,    \* posts whose lines pushNodeLogs is emitting
  count,      \* lines written so far, by source
  in,         \* Hub.in
  batch,      \* the dispatcher's batch
  fan,        \* the flush under way: its lines and the subscribers to come
  state,      \* of each reader: "new", "open" or "closed"
  chan,       \* subscriber.ch
  shown,      \* the lines written to the reader's connection
  crashes,
  due,        \* ghost: lines the hub accepted while the reader was open
  slow        \* ghost: lines dropped because the reader's channel was full

worker == <<enabled, buffer, kicks, crashes>>
net    == <<flights, serving>>
hub    == <<in, batch, fan>>
reader == <<state, chan, shown, due, slow>>
vars   == <<worker, net, count, hub, reader>>

Sources == {"panel", "node"}

LogAssumption ==
  /\ Source \in [Readers -> {"all"} \cup Sources]
  /\ MaxLines \in [Sources -> Nat] /\ MaxCrashes \in Nat
  /\ {FullBuffer, FullBatch, InCap, ReaderCap} \subseteq Nat \ {0}

Entry == [from : Sources, n : 1 .. (MaxLines["panel"] + MaxLines["node"])]

NoFan == [lines |-> <<>>, to |-> {}]

Init ==
  /\ enabled \in BOOLEAN
  /\ buffer = <<>> /\ kicks = 0 /\ crashes = 0
  /\ flights = {} /\ serving = {}
  /\ count = [s \in Sources |-> 0]
  /\ in = <<>> /\ batch = <<>> /\ fan = NoFan
  /\ state = [r \in Readers |-> "new"]
  /\ chan  = [r \in Readers |-> <<>>]
  /\ shown = [r \in Readers |-> <<>>]
  /\ due   = [r \in Readers |-> {}]
  /\ slow  = [r \in Readers |-> {}]

-------------------------------------------------------------------------------
(* Filters *)

Passes(r, e) == Source[r] = "all" \/ Source[r] = e.from

Kept(r, lines) == {i \in DOMAIN lines : Passes(r, lines[i])}

Nth(set, k) == CHOOSE i \in set : Cardinality({j \in set : j <= i}) = k

(* SelectSeq, told by positions: the k-th line that is kept.               *)
Filtered(r, lines) ==
  LET kept == Kept(r, lines)
  IN  [k \in 1 .. Cardinality(kept) |-> lines[Nth(kept, k)]]

-------------------------------------------------------------------------------
(* The worker *)

NextLine(s) == [from |-> s, n |-> count[s] + 1]

Counted(s) == count' = [count EXCEPT ![s] = @ + 1]

(* PushLog: a disabled pusher forgets the line; the line that fills the    *)
(* buffer, and each one after it until the buffer is taken, starts a push. *)
NodeWrites ==
  /\ count["node"] < MaxLines["node"]
  /\ Counted("node")
  /\ IF enabled
       THEN /\ buffer' = Append(buffer, NextLine("node"))
            /\ kicks' = kicks + (IF Len(buffer') >= FullBuffer THEN 1 ELSE 0)
       ELSE UNCHANGED <<buffer, kicks>>
  /\ UNCHANGED <<enabled, crashes, net, hub, reader>>

SetPanelURL ==
  /\ ~enabled
  /\ enabled' = TRUE
  /\ UNCHANGED <<buffer, kicks, crashes, net, count, hub, reader>>

(* (Mutant: the buffer is copied and not emptied.)                         *)
NotEmptied == buffer

(* run() and push(): the buffer is copied and emptied under the lock.      *)
Emptied == <<>>

TakeBuffer ==
  /\ buffer' = Emptied
  /\ flights' = IF buffer = <<>> THEN flights ELSE flights \cup {buffer}
  /\ UNCHANGED <<enabled, crashes, serving, count, hub, reader>>

TickerPush == buffer # <<>> /\ TakeBuffer /\ UNCHANGED kicks

KickedPush == kicks > 0 /\ kicks' = kicks - 1 /\ TakeBuffer

(* A worker that stops takes its buffer, and any post not yet on the wire, *)
(* with it: Stop, which would send the rest, is never called.              *)
NodeCrash ==
  /\ crashes < MaxCrashes
  /\ crashes' = crashes + 1
  /\ buffer' = <<>> /\ kicks' = 0
  /\ flights' \in SUBSET flights
  /\ UNCHANGED <<enabled, serving, count, hub, reader>>

-------------------------------------------------------------------------------
(* The way to the panel *)

(* The post fails, times out before it arrives, or is refused.             *)
PostLost(f) ==
  /\ f \in flights
  /\ flights' = flights \ {f}
  /\ UNCHANGED <<worker, serving, count, hub, reader>>

PostArrives(f) ==
  /\ f \in flights
  /\ flights' = flights \ {f}
  /\ serving' = serving \cup {f}
  /\ UNCHANGED <<worker, count, hub, reader>>

-------------------------------------------------------------------------------
(* The hub *)

(* Hub.Emit never waits: what does not fit is dropped.                     *)
Offered(q, lines) == q \o SubSeq(lines, 1, Min({Len(lines), InCap - Len(q)}))

Accept(lines) ==
  /\ in' = Offered(in, lines)
  /\ due' = [r \in Readers |->
               IF state[r] = "open"
                 THEN due[r] \cup {e \in ToSet(in') \ ToSet(in) : Passes(r, e)}
                 ELSE due[r]]
  /\ UNCHANGED <<batch, fan, state, chan, shown, slow>>

(* (Mutant: the hook forwards every line.)                                 *)
ForwardedAll(e) == <<e>>

(* What the hook installed by web.go makes of a line written to the        *)
(* panel's logger: a worker's line is left to pushNodeLogs.                *)
Forwarded(e) == IF e.from = "node" THEN <<>> ELSE <<e>>

PanelWrites ==
  /\ count["panel"] < MaxLines["panel"]
  /\ Counted("panel")
  /\ Accept(Forwarded(NextLine("panel")))
  /\ UNCHANGED <<worker, net>>

(* emitFromNode writes the line to the panel's logger and to the hub.      *)
EmitFromNode(f) ==
  /\ f \in serving
  /\ Accept(Append(Forwarded(Head(f)), Head(f)))
  /\ serving' = (serving \ {f}) \cup (IF Len(f) = 1 THEN {} ELSE {Tail(f)})
  /\ UNCHANGED <<worker, flights, count>>

Idle == fan = NoFan

Open == {r \in Readers : state[r] = "open"}

Flush(lines) ==
  /\ batch' = <<>>
  /\ fan' = IF lines = <<>> \/ Open = {} THEN NoFan ELSE [lines |-> lines, to |-> Open]

Gather ==
  /\ Idle /\ in # <<>>
  /\ in' = Tail(in)
  /\ LET b == Append(batch, Head(in)) IN
       IF Len(b) >= FullBatch THEN Flush(b) ELSE batch' = b /\ UNCHANGED fan
  /\ UNCHANGED <<worker, net, count, reader>>

Tick ==
  /\ Idle /\ batch # <<>>
  /\ Flush(batch)
  /\ UNCHANGED <<worker, net, count, in, reader>>

(* (Mutant: a full channel ends the flush.)                                *)
AfterUnlessFull(r) == IF Len(chan[r]) < ReaderCap THEN fan.to \ {r} ELSE {}

(* The subscribers still to be served after r; a full channel is passed    *)
(* over.                                                                   *)
After(r) == fan.to \ {r}

Offer(r) ==
  /\ r \in fan.to
  /\ LET lines == Filtered(r, fan.lines)
         room  == Len(chan[r]) < ReaderCap IN
       /\ chan' = IF lines # <<>> /\ room THEN [chan EXCEPT ![r] = Append(@, lines)] ELSE chan
       /\ slow' = IF room THEN slow ELSE [slow EXCEPT ![r] = @ \cup ToSet(lines)]
  /\ fan' = IF After(r) = {} THEN NoFan ELSE [fan EXCEPT !.to = After(r)]
  /\ UNCHANGED <<worker, net, count, in, batch, state, shown, due>>

-------------------------------------------------------------------------------
(* The readers *)

Subscribe(r) ==
  /\ state[r] = "new"
  /\ state' = [state EXCEPT ![r] = "open"]
  /\ UNCHANGED <<worker, net, count, hub, chan, shown, due, slow>>

Receive(r) ==
  /\ state[r] = "open" /\ chan[r] # <<>>
  /\ shown' = [shown EXCEPT ![r] = @ \o Head(chan[r])]
  /\ chan' = [chan EXCEPT ![r] = Tail(@)]
  /\ UNCHANGED <<worker, net, count, hub, state, due, slow>>

(* The request ends, or a write fails: cancel unregisters and drains.  A   *)
(* flush that had already taken the list of subscribers may still put a    *)
(* batch into the channel, where nobody reads it.                          *)
Cancel(r) ==
  /\ state[r] = "open"
  /\ state' = [state EXCEPT ![r] = "closed"]
  /\ chan' = [chan EXCEPT ![r] = <<>>]
  /\ UNCHANGED <<worker, net, count, hub, shown, due, slow>>

Next ==
  \/ NodeWrites \/ SetPanelURL \/ TickerPush \/ KickedPush \/ NodeCrash
  \/ \E f \in flights : PostLost(f) \/ PostArrives(f)
  \/ \E f \in serving : EmitFromNode(f)
  \/ PanelWrites \/ Gather \/ Tick
  \/ \E r \in Readers : Offer(r) \/ Subscribe(r) \/ Receive(r) \/ Cancel(r)

Spec == Init /\ [][Next]_vars

-------------------------------------------------------------------------------
(* Properties *)

TypeOK ==
  /\ enabled \in BOOLEAN /\ kicks \in Nat /\ crashes \in 0 .. MaxCrashes
  /\ buffer \in Seq(Entry) /\ flights \subseteq Seq(Entry) /\ serving \subseteq Seq(Entry)
  /\ count \in [Sources -> Nat] /\ \A s \in Sources : count[s] <= MaxLines[s]
  /\ in \in Seq(Entry) /\ Len(in) <= InCap
  /\ batch \in Seq(Entry) /\ Len(batch) < FullBatch
  /\ fan \in [lines : Seq(Entry), to : SUBSET Readers]
  /\ state \in [Readers -> {"new", "open", "closed"}]
  /\ chan \in [Readers -> Seq(Seq(Entry))] /\ \A r \in Readers : Len(chan[r]) <= ReaderCap
  /\ shown \in [Readers -> Seq(Entry)]
  /\ due \in [Readers -> SUBSET Entry] /\ slow \in [Readers -> SUBSET Entry]

(* A line the hub accepted while a reader was watching, and that passes    *)
(* his filter, is shown to him or still on its way, unless it was his own  *)
(* channel that was full: another reader's slowness, his leaving or the    *)
(* moment a flush takes the list of subscribers never cost him a line      *)
(* (Hub.run in web/logsse/hub.go).                                         *)
OnlyTheSlowLose ==
  \A r \in Open :
    due[r] \subseteq ToSet(in) \cup ToSet(batch) \cup slow[r] \cup ToSet(shown[r])
                     \cup (UNION {ToSet(chan[r][i]) : i \in DOMAIN chan[r]})
                     \cup (IF r \in fan.to THEN ToSet(fan.lines) ELSE {})

Written == UNION {{[from |-> s, n |-> k] : k \in 1 .. count[s]} : s \in Sources}

Log == INSTANCE LossyLog WITH
         Entries <- Entry,
         Wanted  <- [r \in Readers |-> {e \in Entry : Passes(r, e)}],
         written <- Written

(* Through the buffers, the posts, the two ways a worker's line is logged  *)
(* on the panel and the batches, each reader is shown the lines he asked   *)
(* for at most once, and the panel's own in order: the pipeline implements *)
(* the abstract log that only loses.                                       *)
AtMostOnce == Log!Spec

-------------------------------------------------------------------------------
(* The inductive invariant: a line is in one place of the pipeline, and    *)
(* each place is ahead of those behind it.                                 *)

Follows(d, e) == d # e /\ (d.from = "panel" /\ e.from = "panel" => d.n < e.n)

Ahead(S, T) == \A d \in S, e \in T : Follows(d, e)

Sorted(s) == \A i, j \in DOMAIN s : i < j => Follows(s[i], s[j])

InChan(r) == UNION {ToSet(chan[r][i]) : i \in DOMAIN chan[r]}

Sent(r) == ToSet(shown[r]) \cup InChan(r)

InHub == ToSet(batch) \cup ToSet(in)

Arrived == ToSet(fan.lines) \cup InHub \cup UNION {Sent(r) : r \in Readers}

Posts == flights \cup serving

Upstream == ToSet(buffer) \cup UNION {ToSet(f) : f \in Posts}

(* On its way to the panel a worker's line is in the buffer or in a post.  *)
UpstreamInv ==
  /\ Sorted(buffer) /\ flights \cap serving = {}
  /\ \A f \in Posts : f # <<>> /\ Sorted(f) /\ ToSet(f) \cap ToSet(buffer) = {}
  /\ \A f, g \in Posts : f # g => ToSet(f) \cap ToSet(g) = {}
  /\ Upstream \cap Arrived = {}
  /\ \A e \in Upstream : e.from = "node"
  /\ Upstream \cup Arrived \subseteq Written

HubInv ==
  /\ Sorted(in) /\ Sorted(batch) /\ Sorted(fan.lines)
  /\ Ahead(ToSet(batch), ToSet(in)) /\ Ahead(ToSet(fan.lines), InHub)

ReaderInv ==
  \A r \in Readers :
    /\ Sorted(shown[r]) /\ Ahead(ToSet(shown[r]), InChan(r))
    /\ \A i \in DOMAIN chan[r] : Sorted(chan[r][i])
    /\ \A i, j \in DOMAIN chan[r] : i < j => Ahead(ToSet(chan[r][i]), ToSet(chan[r][j]))
    /\ Ahead(Sent(r), InHub) /\ (r \in fan.to => Ahead(Sent(r), ToSet(fan.lines)))
    /\ \A e \in Sent(r) \cup due[r] : Passes(r, e)
    /\ state[r] = "new" => due[r] = {}

PipeInv == TypeOK /\ UpstreamInv /\ HubInv /\ ReaderInv /\ OnlyTheSlowLose
===============================================================================
