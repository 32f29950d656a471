------------------------------ MODULE Wireguard ------------------------------
(***************************************************************************)
(* A WireGuard inbound: its settings, whose peers are the clients, and     *)
(* what brings the rows of the clients to them.                            *)
(*                                                                         *)
(*   web/service/wireguard_inbound_client_peers.go   the merge             *)
(*   web/service/wireguard_inbound_settings.go       the panel's form      *)
(*   web/service/inbound.go                          UpdateInbound         *)
(*   sub/wireguard_panel.go                          what a client is told *)
(*                                                                         *)
(* After a row has changed, a handler reads the inbound, reads the         *)
(* clients, merges them into the settings, and saves the inbound; nothing  *)
(* holds the inbound between the reading and the saving.  Keys and         *)
(* addresses exist only in the settings, whose peers are a set: each has a *)
(* key of its own, and their order in the list means nothing.              *)
(***************************************************************************)
EXTENDS Naturals, FiniteSets, FiniteSetsExt, Sequences, Functions

CONSTANTS
  Handlers,
  Names,       \* the clients, in the order of their names
  Servers,     \* addresses an administrator gives the server
  Pool,        \* the addresses for clients, 2 .. 254
  Given,       \* the sets of peers an inbound may have to begin with
  MaxToggles,  \* changes of a client's row
  MaxEdits,    \* saves of the panel's form
  MaxFaults

Clients == Range(Names)
Manual == "manual"   \* the name of a peer that belongs to no client
NoHost == 0

Peer(name, key, host) == [name |-> name, key |-> key, host |-> host]
Named(peers, c) == {p \in peers : p.name = c}

\* Peers of the inbound, at most one of each client.
Proper(peers) ==
  /\ \A p \in peers : /\ p = Peer(p.name, p.key, p.host)
                      /\ p.name \in Clients \cup {Manual}
                      /\ p.host \in {NoHost} \cup Pool
  /\ \A p, q \in peers : p.name = q.name /\ p.name # Manual => p = q

Distinct(peers) ==
  \A p, q \in peers : p # q /\ p.host # NoHost => p.host # q.host

\* No address in common, nor with the server.
Apart(s) == Distinct(s.peers) /\ \A p \in s.peers : p.host # s.server.address

\* No client is named twice; the inbound is in order to begin with.
WireguardAssumption ==
  /\ Names \in Seq(Clients) /\ Manual \notin Clients
  /\ \A i, j \in DOMAIN Names : Names[i] = Names[j] => i = j
  /\ Pool \subseteq Nat \ {NoHost} /\ Pool # {} /\ IsFiniteSet(Pool)
  /\ NoHost \notin Servers
  /\ \A peers \in Given : Proper(peers) /\ Distinct(peers)

VARIABLES
  active,   \* clients of the inbound that are enabled and not expired
  settings, \* of the inbound: the server and its peers
  made,     \* of each client: keys made for it
  task,     \* of each handler
  shown,    \* what each client was last told of its peer
  toggles, edits, faults,
  raced,    \* ghost: two handlers have been at work at once
  excuses   \* ghost: why settings and rows may differ

vars == <<active, settings, made, task, shown, toggles, edits, faults, raced, excuses>>

-----------------------------------------------------------------------------
Key(c, n) == <<c, n>>

NoTask == [pc |-> "idle", form |-> FALSE, alone |-> TRUE, draft |-> {}]
Idle(h) == task[h].pc = "idle"
Alone(h) == \A g \in Handlers \ {h} : Idle(g)

Init ==
  /\ active = {}
  /\ \E peers \in Given, a \in Servers :
       /\ settings = [server |-> [address |-> a, secret |-> 0], peers |-> peers]
       /\ \A p \in peers : p.host # a
  /\ made = [c \in Clients |-> 0]
  /\ task = [h \in Handlers |-> NoTask]
  /\ shown = <<>>
  /\ toggles = 0 /\ edits = 0 /\ faults = 0
  /\ raced = FALSE /\ excuses = {}

-----------------------------------------------------------------------------
(* mergeWireGuardSettingsWithClients.  Peers without a client are kept as  *)
(* they are, peers of clients that may not connect are dropped, and whoever *)
(* has none gets a new key and the first free address.                     *)

\* Mutants: addresses of other peers are not looked at; a client is given a
\* new key at every merge.
ClientsOnly(s, entitled) ==
  {s.server.address} \cup {p.host : p \in {q \in s.peers : q.name \in entitled}}
NewKey(s, c, free) ==
  Peer(c, Key(c, made[c] + 1),
       IF \E p \in Named(s.peers, c) : p.host # NoHost
         THEN (CHOOSE p \in Named(s.peers, c) : TRUE).host ELSE free)

Used(s, entitled) ==
  {s.server.address}
    \cup {p.host : p \in {q \in s.peers : q.name \in entitled \cup {Manual}}}

Free(used) ==
  IF Pool \subseteq used THEN Min(Pool) ELSE Min(Pool \ used)

\* A peer that only has a key is given an address.
PeerOf(s, c, free) ==
  LET mine == Named(s.peers, c)
      old == CHOOSE p \in mine : TRUE
  IN IF mine = {} THEN Peer(c, Key(c, made[c] + 1), free)
     ELSE IF old.host = NoHost THEN [old EXCEPT !.host = free] ELSE old

Needy(s, entitled) == {c \in entitled : \A p \in Named(s.peers, c) : p.host = NoHost}

Before(c, d) ==
  \E i, j \in DOMAIN Names : i < j /\ Names[i] = c /\ Names[j] = d

\* In the order of their names, each is given what is free by then.
InTurn(used, hosts) ==
  \A d \in DOMAIN hosts :
    hosts[d] = Free(used \cup {hosts[c] : c \in {b \in DOMAIN hosts : Before(b, d)}})

NewHosts(s, entitled) ==
  CHOOSE hosts \in [Needy(s, entitled) -> Pool] : InTurn(Used(s, entitled), hosts)

Merge(s, entitled) ==
  LET hosts == NewHosts(s, entitled)
  IN [s EXCEPT !.peers = Named(@, Manual) \cup {PeerOf(s, c, hosts[c]) : c \in entitled}]

(* PreserveWireGuardPeersOnInboundUpdate: settings without any peer keep   *)
(* those of the inbound as it is in the database.                          *)
Preserved(new, old) == IF new.peers = {} THEN [new EXCEPT !.peers = old.peers] ELSE new

-----------------------------------------------------------------------------
\* A handler sets out; whoever is at work is not alone any more.
SetOut(h, pc, form, draft) ==
  /\ Idle(h)
  /\ task' = [g \in Handlers |->
                IF g = h
                  THEN [pc |-> pc, form |-> form, alone |-> Alone(h), draft |-> draft]
                  ELSE [task[g] EXCEPT !.alone = Idle(g)]]
  /\ raced' = (raced \/ ~Alone(h))

\* A client is added, removed, cut off or let in again; its row is committed.
Toggle(h) ==
  /\ toggles < MaxToggles /\ toggles' = toggles + 1
  /\ \E c \in Clients :
       /\ active' = (active \ {c}) \cup ({c} \ active)
       /\ shown' = Restrict(shown, DOMAIN shown \ {c})
  /\ SetOut(h, "due", FALSE, {})
  /\ UNCHANGED <<settings, made, edits, faults, excuses>>

\* The panel's form: the server block, or the peers too, without their names.
Edit(h) ==
  /\ edits < MaxEdits /\ edits' = edits + 1
  /\ \E a \in Servers, secret \in {0, 1},
         peers \in {{}, {[p EXCEPT !.name = Manual] : p \in settings.peers}} :
       LET new == [server |-> [address |-> a, secret |-> secret], peers |-> peers] IN
       /\ SetOut(h, "built", TRUE, {new})
       /\ excuses' = excuses
            \cup (IF a # settings.server.address THEN {"moved"} ELSE {})
            \cup (IF peers # {} THEN {"handed"} ELSE {})
  /\ UNCHANGED <<active, settings, made, shown, toggles, faults>>

ReadInbound(h) ==
  /\ task[h].pc = "due"
  /\ task' = [task EXCEPT ![h].pc = "read", ![h].draft = {settings}]
  /\ UNCHANGED <<active, settings, made, shown, toggles, edits, faults, raced, excuses>>

Build(h) ==
  /\ task[h].pc = "read"
  /\ \E s \in task[h].draft :
       LET new == Merge(s, active) IN
       /\ task' = [task EXCEPT ![h].pc = "built", ![h].draft = {new}]
       /\ made' = [c \in Clients |->
            made[c] + Cardinality({p \in new.peers : p.key = Key(c, made[c] + 1)})]
       /\ excuses' = IF Cardinality(Needy(s, active)) > Cardinality(Pool \ Used(s, active))
                     THEN excuses \cup {"full"} ELSE excuses
  /\ UNCHANGED <<active, settings, shown, toggles, edits, faults, raced>>

\* UpdateInbound; only the rebuilds hold the mutex of the inbound.
ReadOld(h) ==
  /\ task[h].pc = "built"
  /\ task[h].form \/ \A g \in Handlers : task[g].pc = "saving" => task[g].form
  /\ \E new \in task[h].draft :
       task' = [task EXCEPT ![h].pc = "saving", ![h].draft = {Preserved(new, settings)}]
  /\ UNCHANGED <<active, settings, made, shown, toggles, edits, faults, raced, excuses>>

\* A client is told anew of a server that is not the same.
Save(h) ==
  /\ task[h].pc = "saving"
  /\ \E new \in task[h].draft :
       /\ settings' = new
       /\ shown' = IF task[h].form /\ new.server # settings.server THEN <<>> ELSE shown
  /\ excuses' = IF ~task[h].alone THEN excuses \cup {"raced"}
                ELSE IF task[h].form THEN excuses
                ELSE excuses \ {"raced", "failed"}
  /\ task' = [task EXCEPT ![h] = NoTask]
  /\ UNCHANGED <<active, made, toggles, edits, faults, raced>>

\* A query fails; the error is logged, or an administrator sees it.
Fails(h) ==
  /\ task[h].pc \in {"due", "read", "saving"}
  /\ faults < MaxFaults /\ faults' = faults + 1
  /\ excuses' = excuses \cup {"failed"}
  /\ task' = [task EXCEPT ![h] = NoTask]
  /\ UNCHANGED <<active, settings, made, shown, toggles, edits, raced>>

\* buildWireguardPanelInfo: the key and the address for the client's device.
Look(c) ==
  /\ c \in active
  /\ \E p \in Named(settings.peers, c) :
       /\ p.host # NoHost
       /\ shown' = [d \in DOMAIN shown \cup {c} |-> IF d = c THEN p ELSE shown[d]]
  /\ UNCHANGED <<active, settings, made, task, toggles, edits, faults, raced, excuses>>

Next ==
  \/ \E h \in Handlers :
       \/ Toggle(h) \/ Edit(h) \/ ReadInbound(h) \/ Build(h)
       \/ ReadOld(h) \/ Save(h) \/ Fails(h)
  \/ \E c \in Clients : Look(c)

Spec == Init /\ [][Next]_vars

-----------------------------------------------------------------------------
Quiet == \A h \in Handlers : Idle(h)

TypeOK ==
  /\ active \subseteq Clients /\ DOMAIN shown \subseteq active
  /\ Proper(settings.peers)

\* The peers are those of the clients that may connect, or, for want of any,
\* those there were.
Follow(peers, entitled) ==
  /\ \A c \in entitled : Cardinality(Named(peers, c)) = 1
  /\ \/ \A p \in peers : p.name \in entitled \cup {Manual}
     \/ entitled = {} /\ Named(peers, Manual) = {}

(* Once all is quiet, nothing failed and nobody was at work at once, each  *)
(* client that may connect has one peer, and the others have none ("peers  *)
(* are maintained by client <-> inbound assignment", settings.go:230), but *)
(* when no peer at all would be left: the save then keeps those there were *)
(* (inbound.go:938), and the last client that is cut off stays.            *)
PeersFollowClients ==
  Quiet /\ excuses = {} /\ toggles > 0 => Follow(settings.peers, active)

(* No two peers have an address in common, nor a peer and the server,      *)
(* however merges overlap, until the pool is empty or an administrator     *)
(* gives the server another address (wireguard_inbound_client_peers.go).   *)
AddressesDistinct ==
  excuses \cap {"full", "moved"} = {} => Apart(settings)

(* What a client was told, its key and its address, goes on to work while  *)
(* it may connect, whatever other clients come and go, unless rebuilds     *)
(* overlapped or a form took over the peers (client.go:434).               *)
ShownStillWorks ==
  ~raced /\ "handed" \notin excuses =>
    \A c \in DOMAIN shown : shown[c] \in settings.peers

-----------------------------------------------------------------------------
(* The invariant behind them, in parts.                                    *)

IsSettings(s) ==
  /\ s = [server |-> s.server, peers |-> s.peers]
  /\ s.server.address \in Servers /\ Proper(s.peers)

IsTask(t) ==
  /\ t = [pc |-> t.pc, form |-> t.form, alone |-> t.alone, draft |-> t.draft]
  /\ t.pc \in {"idle", "due", "read", "built", "saving"}
  /\ t.form \in BOOLEAN /\ t.alone \in BOOLEAN
  /\ t.pc = "idle" => t = NoTask
  /\ t.form => t.pc \in {"built", "saving"}
  /\ \A s \in t.draft : IsSettings(s)

Shaped ==
  /\ active \subseteq Clients /\ IsSettings(settings)
  /\ task = [h \in Handlers |-> task[h]] /\ \A h \in Handlers : IsTask(task[h])
  /\ shown = [c \in DOMAIN shown |-> shown[c]] /\ DOMAIN shown \subseteq active
  /\ toggles \in Nat /\ raced \in BOOLEAN

\* Drafts are no worse than what they are to replace.
InOrder ==
  excuses \cap {"full", "moved"} = {} =>
    /\ Apart(settings)
    /\ \A h \in Handlers : \A s \in task[h].draft :
         Apart(s) /\ s.server.address = settings.server.address

\* Who is alone found the others idle, and they still are.
LeftAlone ==
  /\ \A h \in Handlers : task[h].alone /\ ~Idle(h) => Alone(h)
  /\ ~raced => \A h \in Handlers : task[h].alone

\* Whoever has an address keeps the peer, and peers without a client stay.
Keep(old, peers, entitled) ==
  /\ \A p \in old : p.name \in entitled /\ p.host # NoHost => p \in peers
  /\ Named(peers, Manual) = Named(old, Manual)

\* What a handler that is alone has in hand.
InHand(t) ==
  /\ t.pc = "read" => t.draft = {settings}
  /\ t.pc \in {"built", "saving"} /\ ~t.form =>
       \A s \in t.draft : Follow(s.peers, active) /\ Keep(settings.peers, s.peers, active)
  /\ t.form /\ "handed" \notin excuses =>
       \A s \in t.draft : \/ s.peers = settings.peers
                          \/ t.pc = "built" /\ s.peers = {}

AtHand == \A h \in Handlers : task[h].alone => InHand(task[h])

\* Only a form is at work, and alone, or nobody is.
Resting == \A h \in Handlers : Idle(h) \/ (task[h].form /\ task[h].alone)

Caught ==
  Resting /\ excuses \cap {"raced", "failed", "handed"} = {} /\ toggles > 0 =>
    Follow(settings.peers, active)

Told ==
  ~raced /\ "handed" \notin excuses =>
    \A c \in DOMAIN shown :
      shown[c] \in settings.peers /\ shown[c].name = c /\ shown[c].host # NoHost

TunnelInv == Shaped /\ InOrder /\ LeftAlone /\ AtHand /\ Caught /\ Told
=============================================================================
