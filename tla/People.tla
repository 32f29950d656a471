------------------------------- MODULE People -------------------------------
(***************************************************************************)
(* The clients of a panel: who is charged and served, by the panel's own   *)
(* core (Clients) and by its workers (RemoteClients), and what those who   *)
(* subscribe get to see (Subscription, ShareLinks).  No state of the       *)
(* models is shared; they are side by side: a behaviour is one of one      *)
(* part, chosen at the start; the variables of the others keep a value     *)
(* that says nothing.                                                      *)
(*   quota     a client with a quota: traffic, edits, the goroutine that   *)
(*             cuts it off, and a core that reports in two ways            *)
(*   members   a client of several inbounds whose date passes, and what an *)
(*             older version may have left of it                           *)
(*   remote    a client of several inbounds, with workers                  *)
(*   pushed    the same with full pushes, lost calls and failed saves      *)
(*   devices   requests from several devices, and their limit              *)
(*   links     inbounds, nodes and hosts, and settings that change         *)
(*   wording   what the links of an inbound say                            *)
(* First and Second are their modules, taken with their proofs: First for  *)
(* "quota", "remote", "devices" and "wording", Second for "members",       *)
(* "pushed" and "links".                                                   *)
(***************************************************************************)

CONSTANTS Setup,  \* for each part, the constants of its module
          Parts   \* the parts of this instance

VARIABLES part,
  now, row, on, books, settings, core, silent, pending, before, tick, work,
  restart, edits, ticks, served, lowered, lost, stray,
  client, attached, listed, conf, calls, charge, jobs, budget, unsaved, behind,
  overwritten,
  subscriber, table, banned, multi, published, assigned, enabled, proxies,
  listening, address, asking, changes, excused,
  inbound, stream, configs

accounts == <<now, row, on, books, settings, core, silent, pending, before, tick,
              work, restart, edits, ticks, served, lowered, lost, stray>>
remote == <<client, attached, listed, conf, calls, charge, jobs, budget, unsaved,
            behind, overwritten>>
links == <<subscriber, table, banned, multi, published, assigned, enabled, proxies,
           listening, address, asking, changes, excused>>
wording == <<inbound, stream, configs>>

First == INSTANCE ClientsProofs WITH
  Clients <- Setup.quota.Clients, Inbounds <- Setup.quota.Inbounds,
  Requests <- Setup.quota.Requests, Disablers <- Setup.quota.Disablers,
  Limits <- Setup.quota.Limits, Dates <- Setup.quota.Dates, MaxNow <- Setup.quota.MaxNow,
  Silences <- Setup.quota.Silences, Amounts <- Setup.quota.Amounts, Books <- Setup.quota.Books,
  MaxServed <- Setup.quota.MaxServed, MaxEdits <- Setup.quota.MaxEdits,
  MaxTicks <- Setup.quota.MaxTicks,
  Sites <- Setup.remote, Offers <- Setup.devices, Wordings <- Setup.wording

Second == INSTANCE ClientsProofs WITH
  Clients <- Setup.members.Clients, Inbounds <- Setup.members.Inbounds,
  Requests <- Setup.members.Requests, Disablers <- Setup.members.Disablers,
  Limits <- Setup.members.Limits, Dates <- Setup.members.Dates, MaxNow <- Setup.members.MaxNow,
  Silences <- Setup.members.Silences, Amounts <- Setup.members.Amounts,
  Books <- Setup.members.Books, MaxServed <- Setup.members.MaxServed,
  MaxEdits <- Setup.members.MaxEdits, MaxTicks <- Setup.members.MaxTicks,
  Sites <- Setup.pushed, Offers <- Setup.links, Wordings <- Setup.wording

ASSUME PeopleAssumption ==
  /\ First!ClientsAssumption /\ Second!ClientsAssumption
  /\ First!Links!DevicesAssumption /\ Second!Links!DevicesAssumption
  /\ First!Words!LinksAssumption

NoAccounts ==
  /\ now = 0 /\ row = {} /\ on = {} /\ books = {} /\ settings = {} /\ core = {}
  /\ silent = FALSE /\ pending = {} /\ before = {} /\ tick = {} /\ work = {}
  /\ restart = FALSE /\ edits = 0 /\ ticks = 0 /\ served = {} /\ lowered = {}
  /\ lost = FALSE /\ stray = {}
NoRemote ==
  /\ client = {} /\ attached = {} /\ listed = {} /\ conf = {} /\ calls = {}
  /\ charge = {} /\ jobs = {} /\ budget = {} /\ unsaved = {} /\ behind = {}
  /\ overwritten = FALSE
NoLinks ==
  /\ subscriber = 0 /\ table = 0 /\ banned = 0 /\ multi = 0 /\ published = 0
  /\ assigned = 0 /\ enabled = 0 /\ proxies = 0 /\ listening = 0
  /\ address = 0 /\ asking = 0 /\ changes = 0 /\ excused = 0
NoWording == inbound = 0 /\ stream = 0 /\ configs = 0

\* A part may also be one of another module, in which nothing happens here.
PeopleInit ==
  /\ part \in Parts
  /\ \/ part = "quota" /\ First!Init /\ NoRemote /\ NoLinks /\ NoWording
     \/ part = "members" /\ Second!Init /\ NoRemote /\ NoLinks /\ NoWording
     \/ part = "remote" /\ NoAccounts /\ First!Remote!Init /\ NoLinks /\ NoWording
     \/ part = "pushed" /\ NoAccounts /\ Second!Remote!Init /\ NoLinks /\ NoWording
     \/ part = "devices" /\ NoAccounts /\ NoRemote /\ First!Links!Init /\ NoWording
     \/ part = "links" /\ NoAccounts /\ NoRemote /\ Second!Links!Init /\ NoWording
     \/ part = "wording" /\ NoAccounts /\ NoRemote /\ NoLinks /\ First!Words!Init
     \/ part = "hub" /\ NoAccounts /\ NoRemote /\ NoLinks /\ NoWording

PeopleNext ==
  /\ UNCHANGED part
  /\ \/ part = "quota" /\ First!Next /\ UNCHANGED <<remote, links, wording>>
     \/ part = "members" /\ Second!Next /\ UNCHANGED <<remote, links, wording>>
     \/ part = "remote" /\ First!Remote!Next /\ UNCHANGED <<accounts, links, wording>>
     \/ part = "pushed" /\ Second!Remote!Next /\ UNCHANGED <<accounts, links, wording>>
     \/ part = "devices" /\ First!Links!Next /\ UNCHANGED <<accounts, remote, wording>>
     \/ part = "links" /\ Second!Links!Next /\ UNCHANGED <<accounts, remote, wording>>
     \/ part = "wording" /\ First!Words!Next /\ UNCHANGED <<accounts, remote, links>>

people == <<accounts, remote, links, wording>>

PeopleSpec == PeopleInit /\ [][PeopleNext]_<<part, people>>

-----------------------------------------------------------------------------
(* No byte is charged twice, however ticks, goroutines that save stale     *)
(* rows and requests overlap (only the two fallbacks of a tick do that);   *)
(* and usage never passes a quota, unless an administrator has set the     *)
(* quota below it.                                                         *)
ChargedRight ==
  part = "quota" =>
    /\ First!TypeOK
    /\ First!ChargedWasDelivered /\ First!WithinLimit

(* Once everything has come to rest, every client that may connect is      *)
(* served by each of its inbounds, on each of their workers, unless        *)
(* somebody saved what he had read before another change or, with workers, *)
(* for a reason on record.                                                 *)
EntitledIsServed ==
  /\ part = "quota" => First!EntitledIsServed
  /\ part = "members" => Second!TypeOK /\ Second!EntitledIsServed
  /\ part = "remote" => First!Remote!TypeOK /\ First!Remote!EntitledIsServed
  /\ part = "pushed" => Second!Remote!TypeOK /\ Second!Remote!EntitledIsServed

(* Then a client that may not connect is served only in one of the ways    *)
(* the code has for it (Clients, RemoteClients).                           *)
OnlyKnownWaysToLinger ==
  /\ part = "quota" => First!OnlyKnownWaysToLinger
  /\ part = "members" => Second!OnlyKnownWaysToLinger
  /\ part = "remote" => First!Remote!OnlyKnownWaysToLinger
  /\ part = "pushed" => Second!Remote!OnlyKnownWaysToLinger

(* A client has no more devices than its limit, unless two requests        *)
(* counted them before either had added its own, or an administrator       *)
(* changed the limit or let a blocked device in; and a device that was     *)
(* blocked when its request came gets no links (Subscription).             *)
OnlyKnownDevices ==
  part = "devices" =>
    /\ First!Links!TypeOK
    /\ First!Links!DevicesWithinLimit /\ First!Links!BlockedStaysOut

(* A host that replaces the addresses of an inbound for the whole of a     *)
(* request hides them from it, whatever is edited meanwhile.               *)
HostHidesOrigin ==
  part = "links" => Second!Links!TypeOK /\ Second!Links!HostHidesOrigin

(* The two generators of a protocol write the same links for a client that *)
(* is in the settings and in the rows, unless the older one stops; and a   *)
(* connection without TLS carries none of the inbound's TLS values.        *)
GeneratorsAgree ==
  part = "wording" => First!Words!GeneratorsAgree /\ First!Words!PlainIsPlain

(* Links and configurations ask for the same security at each proxy, up to *)
(* the first that forces another (ShareLinks), and a configuration that    *)
(* asks for TLS brings the settings of TLS.                                *)
SameSecurity ==
  part = "wording" => First!Words!SameSecurity /\ First!Words!TlsHasSettings
=============================================================================
