--------------------------- MODULE Subscription ---------------------------
(***************************************************************************)
(* The subscription of a client: who may have it and which links it holds  *)
(* (sub/subController.go, subService.go, subJsonService.go,                *)
(* web/service/client_hwid.go, client_session_block.go, host.go).          *)
(*                                                                         *)
(* Requests are served concurrently by one SubService, whose address field *)
(* each of them sets.  A request for the links passes the gates (client,   *)
(* its address, its device) and then builds, inbound by inbound, a link to *)
(* every endpoint, reading the settings as it goes.  A link is where it    *)
(* points to and whether the host's overrides are in it; the rest of it    *)
(* copies the inbound's stream settings.                                   *)
(***************************************************************************)
EXTENDS Naturals, FiniteSets, Sequences, SequencesExt

CONSTANTS Requests,
          Devices,      \* values of the x-hwid header
          NoDevice,     \* a request without the header
          Names,        \* hosts requests are sent to
          Inbounds, Protocol,    \* the client's inbounds, and their protocols
          Nodes,        \* workers that may publish an inbound
          Hosts, Mode,  \* hosts, as naturals in order of assignment; apply modes
          Notices,      \* whether placeholders replace refusals
          MaxDevices,   \* values of clients.max_hwid
          Topics,       \* what administrators change in this instance
          MaxRows, MaxEdits

VARIABLES
  client,     \* clients: enable, over (its quota or date), hwid, max
  table,      \* client_hw_ids, by id
  banned,     \* client_blocked_session_ips: requests from blocked addresses
  multi,      \* multi-node mode
  published,  \* per inbound: nodes of its mappings included in subscriptions
  assigned,   \* host_inbound_mappings
  enabled,    \* hosts that are enabled
  proxies,    \* inbounds with external proxies in their stream settings
  listening,  \* inbounds that listen on an address of their own
  address,    \* SubService.address
  req,        \* the requests
  edits, excused   \* a bound, and a ghost: see the properties

vars == <<client, table, banned, multi, published, assigned, enabled, proxies,
          listening, address, req, edits, excused>>
settings == <<multi, published, assigned, enabled, proxies, listening>>

Ways == {"subs", "json", "page"}
NoRequest == [pc |-> "idle", way |-> "subs", host |-> "", device |-> NoDevice,
              todo |-> {}, links |-> {}, count |-> 0, shut |-> FALSE,
              hidden |-> {}]

Row(d) == [device |-> d, active |-> TRUE, blocked |-> FALSE]
Ids == DOMAIN table
RowsOf(d) == {k \in Ids : table[k].device = d}
Active == {k \in Ids : table[k].active /\ ~table[k].blocked}

Init ==
  /\ client = [enable |-> TRUE, over |-> FALSE, hwid |-> TRUE,
               max |-> CHOOSE m \in MaxDevices : \A n \in MaxDevices : n <= m]
  /\ table = <<>> /\ banned = {}
  /\ multi \in BOOLEAN
  /\ published \in [Inbounds -> SUBSET Nodes]
  /\ assigned = Inbounds \X Hosts
  /\ enabled = Hosts /\ proxies = {} /\ listening = {}
  /\ address = ""
  /\ req = [r \in Requests |-> NoRequest]
  /\ edits = 0 /\ excused = FALSE

---------------------------------------------------------------------------
(* The endpoints of an inbound.                                            *)

At(x, over) == [at |-> x, over |-> over]
Of(i, S) == {[of |-> i, at |-> l.at, over |-> l.over] : l \in S}

\* Addresses of nodes, in multi-node mode and where one is published.
NodeAddresses(i) == IF multi THEN published[i] ELSE {}

\* The inbound's own address, or the one the service has been asked for.
DefaultAddress(i, a) == IF i \in listening THEN "listen" ELSE a

\* The host of an inbound: that of its first mapping, if it is enabled.
\* (Mutant: the first of them that is.)
FirstEnabled(i) == {h \in Hosts : <<i, h>> \in assigned /\ h \in enabled /\
  \A g \in Hosts : <<i, g>> \in assigned /\ g \in enabled => h <= g}
HostFor(i) == {h \in Hosts : <<i, h>> \in assigned /\ h \in enabled /\
  \A g \in Hosts : <<i, g>> \in assigned => h <= g}

Replaced(i) == \E h \in HostFor(i) : Mode[h] = "replace"

\* Host mode replace stands alone, the others join it to the rest.  (Mutant:
\* the default joins as well.)
Joined(i, a) ==
  {At("host", TRUE) : h \in HostFor(i)} \cup {At(n, FALSE) : n \in NodeAddresses(i)}
    \cup IF NodeAddresses(i) = {} THEN {At(DefaultAddress(i, a), FALSE)} ELSE {}
AddressesForInbound(i, a) ==
  IF Replaced(i)
  THEN {At("host", TRUE) : h \in HostFor(i)}
  ELSE Joined(i, a)

\* vmess, vless, trojan, shadowsocks: external proxies take the place of all
\* addresses and have the overrides of any host.
ShareLinks(i, a) ==
  IF i \in proxies THEN {At("proxy", HostFor(i) # {})} ELSE AddressesForInbound(i, a)

\* mixed knows no external proxies and no overrides.
MixedLinks(i, a) == {At(l.at, FALSE) : l \in AddressesForInbound(i, a)}

\* hysteria: the host gives its overrides, never its address.
HysteriaLinks(i, a) ==
  {At(IF i \in proxies THEN "proxy" ELSE a, HostFor(i) # {})}

LinksOf(i, a) ==
  CASE Protocol[i] = "mixed" -> MixedLinks(i, a)
    [] Protocol[i] = "hysteria" -> HysteriaLinks(i, a)
    [] OTHER -> ShareLinks(i, a)

\* The JSON subscription knows neither nodes nor hosts.
JsonLinks(i, h) == {At(IF i \in proxies THEN "proxy" ELSE h, FALSE)}

---------------------------------------------------------------------------
(* Requests.                                                               *)

Answer(r, pc) == req' = [req EXCEPT ![r].pc = pc]

\* The devices are looked at only if the client has the limit switched on and
\* the header is there.
Registers(q) == client.hwid /\ q.device # NoDevice /\ q.way # "page"

\* The gates, which are not the same for links, JSON and the public page.
LinksRefused(r) == ~client.enable \/ (client.over /\ Notices) \/ r \in banned
JsonRefused(r) == ~client.enable \/ r \in banned
PageRefused == ~client.enable \/ (client.over /\ Notices)

\* A request arrives and passes the gates; its address is written before any
\* of them, but for JSON, and a page has a service of its own.
GetSubs(r, way, h, d) ==
  LET q == [NoRequest EXCEPT !.way = way, !.host = h, !.device = d, !.todo = Inbounds,
              !.hidden = {i \in Inbounds : Replaced(i)},
              !.shut = \E k \in RowsOf(d) : table[k].blocked]
      refused == CASE way = "subs" -> LinksRefused(r)
                   [] way = "json" -> JsonRefused(r)
                   [] way = "page" -> PageRefused
  IN /\ req[r].pc = "idle"
     /\ address' = IF way = "subs" THEN h ELSE address
     /\ req' = [req EXCEPT ![r] = [q EXCEPT !.pc =
                  IF refused THEN "refused"
                  ELSE IF Registers(q) THEN "register" ELSE "links"]]
     /\ UNCHANGED <<client, table, banned, settings, edits, excused>>

\* AddHWIDForClient looks for the device: a blocked one is refused, a known
\* one let in, a new one refused at the limit.  (Mutant: one
\* device too many.)
Known(d) == RowsOf(d) # {}
Shut(d) == \E k \in RowsOf(d) : table[k].blocked
FullBeyond == client.max > 0 /\ Cardinality(Active) > client.max
Full == client.max > 0 /\ Cardinality(Active) >= client.max
LookUp(r) ==
  LET d == req[r].device
  IN /\ req[r].pc = "register"
     /\ req' = [req EXCEPT ![r].pc =
                  IF Shut(d) THEN "refused"
                  ELSE IF Known(d) THEN "links" ELSE IF Full THEN "refused" ELSE "insert",
                  ![r].count = Cardinality(Active)]
     /\ UNCHANGED <<client, table, banned, settings, address, edits, excused>>

\* The new device is inserted, or fails to be, which does not stop the request:
\* the table is unique in the client and the device.
Insert(r) ==
  /\ req[r].pc = "insert"
  /\ \/ /\ Len(table) < MaxRows /\ ~Known(req[r].device)
        /\ table' = Append(table, Row(req[r].device))
        /\ excused' = (excused \/ Cardinality(Active) # req[r].count)
     \/ UNCHANGED <<table, excused>>
  /\ Answer(r, "links")
  /\ UNCHANGED <<client, banned, settings, address, edits>>

\* The links of the next inbound.
Link(r, i) ==
  /\ req[r].pc = "links" /\ i \in req[r].todo
  /\ req' = [req EXCEPT ![r].todo = @ \ {i}, ![r].links = @ \cup Of(i,
               IF req[r].way = "json" THEN JsonLinks(i, req[r].host)
               ELSE LinksOf(i, IF req[r].way = "subs" THEN address ELSE req[r].host))]
  /\ UNCHANGED <<client, table, banned, settings, address, edits, excused>>

Done(r) ==
  /\ req[r].pc = "refused" \/ (req[r].pc = "links" /\ req[r].todo = {})
  /\ req' = [req EXCEPT ![r] = NoRequest]
  /\ UNCHANGED <<client, table, banned, settings, address, edits, excused>>

---------------------------------------------------------------------------
(* Administrators, each about a topic.                                     *)

Edit(topic) == topic \in Topics /\ edits < MaxEdits /\ edits' = edits + 1

Toggle(S, x) == IF x \in S THEN S \ {x} ELSE S \cup {x}

\* Nobody who comes in from now on is let off: requests forget.
Forget(d) ==
  [r \in Requests |-> IF req[r].device = d THEN [req[r] EXCEPT !.shut = FALSE] ELSE req[r]]

\* The switch of the client, its quota, its limit of devices.
EditClient ==
  /\ Edit("client")
  /\ \/ client' = [client EXCEPT !.enable = ~@] /\ UNCHANGED req
     \/ client' = [client EXCEPT !.over = ~@] /\ UNCHANGED req
     \/ /\ \E m \in MaxDevices, e \in BOOLEAN : client' = [client EXCEPT !.max = m, !.hwid = e]
        /\ req' = [r \in Requests |-> [req[r] EXCEPT !.shut = FALSE]]
  /\ excused' = TRUE
  /\ UNCHANGED <<table, banned, settings, address>>

SetHWIDBlocked(k) ==
  /\ Edit("devices") /\ table[k].device # NoDevice
  /\ table' = [table EXCEPT ![k].blocked = ~@]
  /\ excused' = (excused \/ table[k].blocked)
  /\ req' = IF table[k].blocked THEN Forget(table[k].device) ELSE req
  /\ UNCHANGED <<client, banned, settings, address>>

DeactivateHWID(k) ==
  /\ Edit("devices") /\ table[k].device # NoDevice
  /\ table' = [table EXCEPT ![k].active = FALSE]
  /\ UNCHANGED <<client, banned, settings, address, req, excused>>

\* A row is deleted; its id is not used again.
RemoveHWID(k) ==
  /\ Edit("devices") /\ table[k].device # NoDevice
  /\ table' = [table EXCEPT ![k] = [device |-> NoDevice, active |-> FALSE, blocked |-> FALSE]]
  /\ req' = Forget(table[k].device)
  /\ UNCHANGED <<client, banned, settings, address, excused>>

ClearHWIDs ==
  /\ Edit("devices") /\ table # <<>>
  /\ table' = [k \in Ids |-> [device |-> NoDevice, active |-> FALSE, blocked |-> FALSE]]
  /\ req' = [r \in Requests |-> [req[r] EXCEPT !.shut = FALSE]]
  /\ UNCHANGED <<client, banned, settings, address, excused>>

SetSessionIPBlocked(r) ==
  /\ Edit("sessions")
  /\ banned' = Toggle(banned, r)
  /\ UNCHANGED <<client, table, settings, address, req, excused>>

EditHost(h) ==
  /\ Edit("hosts")
  /\ \/ enabled' = Toggle(enabled, h) /\ assigned' = assigned
     \/ \E i \in Inbounds : assigned' = Toggle(assigned, <<i, h>>) /\ enabled' = enabled
  /\ req' = [r \in Requests |->
               [req[r] EXCEPT !.hidden = {i \in @ : Replaced(i)'}]]
  /\ UNCHANGED <<client, table, banned, multi, published, proxies, listening,
                 address, excused>>

EditInbound(i) ==
  /\ Edit("inbounds")
  /\ \/ proxies' = Toggle(proxies, i) /\ UNCHANGED <<listening, published>>
     \/ listening' = Toggle(listening, i) /\ UNCHANGED <<proxies, published>>
     \/ \E n \in Nodes : published' = [published EXCEPT ![i] = Toggle(@, n)]
                         /\ UNCHANGED <<proxies, listening>>
  /\ UNCHANGED <<client, table, banned, multi, assigned, enabled, address, req, excused>>

---------------------------------------------------------------------------

Serves(r) ==
  \/ LookUp(r) \/ Insert(r) \/ Done(r) \/ \E i \in Inbounds : Link(r, i)
  \/ \E way \in Ways, h \in Names, d \in Devices \cup {NoDevice} : GetSubs(r, way, h, d)

Next ==
  \/ EditClient \/ ClearHWIDs
  \/ \E r \in Requests : Serves(r) \/ SetSessionIPBlocked(r)
  \/ \E k \in Ids : SetHWIDBlocked(k) \/ DeactivateHWID(k) \/ RemoveHWID(k)
  \/ \E h \in Hosts : EditHost(h)
  \/ \E i \in Inbounds : EditInbound(i)

Spec == Init /\ [][Next]_vars

---------------------------------------------------------------------------

TypeOK ==
  /\ client \in [enable : BOOLEAN, over : BOOLEAN, hwid : BOOLEAN, max : MaxDevices]
  /\ Len(table) <= MaxRows /\ banned \subseteq Requests
  /\ published \in [Inbounds -> SUBSET Nodes] /\ assigned \subseteq Inbounds \X Hosts
  /\ enabled \subseteq Hosts /\ proxies \cup listening \subseteq Inbounds
  /\ address \in Names \cup {""} /\ edits \in 0..MaxEdits
  /\ \A r \in Requests : req[r].todo \subseteq Inbounds

\* A client has no more devices than its limit, unless two requests counted
\* them before either had added its own, or an administrator changed the
\* limit or let a blocked device in.
DevicesWithinLimit ==
  ~excused /\ client.max > 0 => Cardinality(Active) <= client.max

\* A device that was blocked when its request came gets no links: neither a
\* lookup nor an addition under way, nor the request of another device, lets it
\* in, unless it is let in again, its row deleted or the limit edited meanwhile.
BlockedStaysOut ==
  \A r \in Requests :
    req[r].shut /\ req[r].way # "page" /\ client.hwid =>
      req[r].links = {} /\ req[r].pc \in {"register", "refused"}

\* A host that replaces the addresses of an inbound for the whole of a
\* request hides them from it: its links name no node, no listening address
\* and not the panel, whatever else is edited as they are built.  It is so for
\* a page and for links, not for JSON and not for hysteria.
HostHidesOrigin ==
  \A r \in Requests : \A l \in req[r].links :
    l.of \in req[r].hidden /\ Protocol[l.of] # "hysteria" /\ req[r].way # "json" =>
      l.at \in {"host", "proxy"}

\* GetSubs retrieves links for the host it is given: a link to the panel
\* itself names the host its own request was sent to.
OwnHost ==
  \A r \in Requests : \A l \in req[r].links : l.at \in Names => l.at = req[r].host

---------------------------------------------------------------------------
(* Why they hold (SubscriptionInv is inductive).                           *)

DevicesAssumption ==
  /\ MaxDevices \subseteq Nat /\ \E m \in MaxDevices : \A n \in MaxDevices : n <= m
  /\ MaxRows \in Nat /\ MaxEdits \in Nat

Places == Nodes \cup Names \cup {"", "host", "proxy", "listen"}
Points == [of : Inbounds, at : Places, over : BOOLEAN]
Asked == [pc : {"idle", "register", "insert", "links", "refused"}, way : Ways,
          host : Names \cup {""}, device : Devices \cup {NoDevice}, todo : SUBSET Inbounds,
          links : SUBSET Points, count : Nat, shut : BOOLEAN, hidden : SUBSET Inbounds]

\* A row that has been deleted blocks nobody.
RowsOK ==
  /\ table \in Seq([device : Devices \cup {NoDevice}, active : BOOLEAN, blocked : BOOLEAN])
  /\ \A k \in Ids : table[k].device = NoDevice => ~table[k].blocked

\* A request that is to look for its device is about one, and still finds it
\* blocked if it was when the request came; nobody else who was shut out has
\* got any further.
GateHolds(q) ==
  /\ q.pc \in {"register", "insert"} => q.device # NoDevice
  /\ q.shut /\ q.way # "page" /\ client.hwid =>
       q.links = {} /\ (q.pc = "refused" \/ (q.pc = "register" /\ Shut(q.device)))

\* Whoever is about to insert a device has counted fewer than the limit.
RoomFound(q) ==
  ~excused /\ q.pc = "insert" /\ client.max > 0 => q.count < client.max

\* What has been hidden so far is hidden now.
StillHidden(q) ==
  /\ \A i \in q.hidden : Replaced(i)
  /\ \A l \in q.links :
       l.of \in q.hidden /\ Protocol[l.of] # "hysteria" /\ q.way # "json" =>
         l.at \in {"host", "proxy"}

SubscriptionInv ==
  /\ TypeOK /\ RowsOK /\ req \in [Requests -> Asked]
  /\ \A r \in Requests : GateHolds(req[r]) /\ RoomFound(req[r]) /\ StillHidden(req[r])
  /\ DevicesWithinLimit
=============================================================================
