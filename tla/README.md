# SharX: TLA+ models, checks and proofs

SharX-UI is a panel (Go) that manages Xray-core proxies: one on its own host
(*single mode*) or one on each of several *worker nodes* (*multi-node mode*).
This directory holds TLA+ models of the parts of it whose correctness depends
on the order of events, the TLC configurations that check them, and proofs of
their main theorems, checked by TLAPS.

    tlc -workers 2 -config Clients.cfg MCClients.tla         # one run
    tlapm NodeManagerProofs.tla                              # one set of proofs

`PROJECT.json` lists the runs, the lines of code every definition stands for,
the mutants that show each property can fail, the hazards and the findings.

## 1. The system

| Part | State | Operations | Talks to |
|---|---|---|---|
| **Worker: Xray manager** `node/xray/manager.go` | process handle, `m.config`, `config.json` | ApplyConfig, Reload, ForceReload, Stop, AddUser, RemoveUser, UpdateInbound, DelInbound, session-IP rules, InstallXrayVersion, LoadConfigFromFile | the core by gRPC and signals; the file system |
| **Worker: REST API** `node/api/server.go` | none of its own | one handler per operation | the manager; called by the panel |
| **Worker: boot** `node/main.go`, `node/configpull` | none | start from `config.json`, else pull from the panel | manager, panel |
| **Xray process** `xray/process.go`, `xray/api.go`, `xray/config.go` | the core itself, its start configuration | Start, Stop, hot changes, Equals | manager; the panel's XrayService |
| **Telemt sidecars** `node/telemt` | a process per tag, replay snapshot | Apply, Stop, Replay | called next to every Xray operation |
| **Log pusher** `node/logs` | buffer, ticker, panel URL | PushLog, SetPanelURL, push | panel |
| **Panel: node service** `web/service/node.go`, `web/controller/node.go` | `nodes` table | add, edit, enable, delete, check; calls into workers | database, workers, alerts |
| **Panel: alerts** `node_health_tg_hysteresis.go` | counters per node, in memory | one call after each check | Telegram bot |
| **Panel: XrayService** `web/service/xray.go` | `p`, `lock`, `isNeedXrayRestart`, `isManuallyStopped` | RestartXray, StopXray, SetToNeedRestart, pushes to workers, session blocks | database, own core, workers |
| **Panel: InboundService** `web/service/inbound.go` | `inbounds` table | AddInbound, UpdateInbound, DelInbound, AddTraffic | database, own core, workers |
| **Panel: ClientService** `web/service/client.go`, `client_traffic.go` | `client_entities` table, `config.json` of the own core | add, update, delete, disable; traffic against limits | inbound service, own core, workers |
| **Panel: devices, sessions** `client_hwid.go`, `client_session*.go` | tables of devices and blocked addresses | register, block, drop | XrayService, workers |
| **Panel: scheduler** `web/web.go`, `web/job/*` | cron entries; a tick does not wait for the one before | crash check (1 s), restart flag (30 s), node health, traffic, statistics, logs | all services |
| **Panel: hubs** `web/websocket/hub.go`, `web/logsse/hub.go` | clients, bounded channels | register, broadcast, disconnect | browsers |
| **Panel: statistics of workers** `collect_node_stats_job.go` | counters in `nodes`, `inbounds`, `clients`, `client_node_traffics` | one run: ask, add up, charge | workers, database |
| **Panel: WireGuard peers** `wireguard_inbound_*.go` | peers inside `inbounds.settings` | merge, preserve, build from the form | client and inbound services |
| **Panel: geofiles** `server.go`, `geofile_asset.go` | a file and its backup, on the panel and on each worker | upload, roll back, update | cores, workers |
| **Panel: migration** `migration.go` | one transaction | users, settings, inbounds, clients, traffic, rebuild | database |
| **Subscription server** `sub` | `SubService.address`, shared by all requests | links and configurations for a client's device | database, devices, hosts |
| Settings, pairing, LDAP, Telegram bot, frontend | rows, files | request/response | database |

What is hard in it:

* **Several copies of one configuration.** The database, the configuration a
  process was started with, `config.json`, and what the core really serves
  after hot changes. Every handler edits its own subset of the copies, and
  every step can fail. (NodeManager, LocalCore)
* **Calls with a deadline.** A removal may be executed and reported as failed;
  the panel repeats it. (NodeManager)
* **No order between goroutines.** Requests, cron ticks (which overlap) and
  asynchronous restarts interleave; only some take a lock, and the state they
  read may be old when they write it back. (NodeHealth, LocalCore)
* **Crashes.** Of the core, of a container with its core, of the panel between
  two steps; files torn by a crash.
* **Answers that get lost.** Counters are set to zero as they are read, log
  lines and hot calls are sent once, a goroutine that fails only logs it.
  (NodeTraffic, LogStream, Fleet)
* **Rows kept twice.** The clients of an inbound are rows of their own and a list
  in its settings; whoever changes the first has to rebuild the second.
  (Clients, Wireguard, Import)
* **Things that must happen in the end.** An alert, a recovery, the restart of a
  crashed core.

What makes each part correct is stated as properties in the modules (section
3); the hazards behind them are listed in `PROJECT.json`, each with the
properties that would fail.

## 2. Plan

| # | Module | Covers | State |
|---|---|---|---|
| 1 | `NodeManager` (+ proofs) | worker: manager, process, file, API | done |
| 2 | `NodeAlerts`, `NodeHealth` (+ proofs) | health checks implement the promised alerts | done |
| 3 | `LocalCore` (+ proofs) | panel's own core, restarts, inbound requests | done |
| 4 | `WebsocketHub` (+ proofs) | registration, broadcast, slow clients, shutdown | done |
| 5 | `Clients` (+ proofs) | requests about clients, quotas, expiry, what the core serves | done |
| 6 | `Fleet`, `NodeTraffic` (+ proofs) | multi-node mode: what workers are told, what they have counted | done |
| 7 | `LossyLog`, `LogStream` (+ proofs) | log lines from a worker to a reader implement what a reader may count on | done |
| 8 | `Sidecars`, `SidecarTraffic` (+ proofs) | Telemt processes and the traffic they count | done |
| 9 | `Subscription`, `ShareLinks`, `Wireguard` (+ proofs) | what a client is given | done |
| 10 | `Import`, `Geofiles` (+ proofs) | one-time operations of an administrator | done |
| 11 | `RemoteClients` (+ proofs) | clients' changes told to workers, in multi-node mode | done |
| 12 | `Maintenance` (+ proofs) | what takes the panel's core away for a while, in single mode | done |
| 13 | `Workers`, `Panel`, `People`, `HubLinks` | the parts above side by side, for any constants, and what follows for them | done |

A module that composes others instantiates them side by side: `Workers` the
parts of the workers, `Panel` those of the panel's server, `People` what becomes
of a client (`Clients`, `RemoteClients`, `Subscription`, `ShareLinks`), and
`HubLinks` these and the hub. `Workers` and `Panel` have a constant `Of`, `People`
a constant `Setup`: a record with the constants of each part, so that theorems
about them hold for any; `MCWorkers`, `MCPanel`, `MCClients` and `MCHubLinks` give
it its values for TLC. A part that has proofs is instantiated with them.

## 3. The modules

### NodeManager — a worker node

Variables: `core` (what the running process serves, or `None`), `saved`
(`m.config`; the process's own configuration is the same pointer), `file`
(`config.json`, possibly `Torn`), `phase` (booting), and four history
variables: `granted` (what the panel asked for and was not refused), `doubt`
(an error was answered for a change that happened, or an old file came back),
`orphan` (a core outlived its handle), `stale` (the last write failed).

A configuration is the set of inbound tags, the set of (tag, user) pairs, the
session rules and the observatory section; everything else in the JSON is
opaque and equal. Every handler of the manager holds `Manager.lock`, so a
handler is one action whose outcomes are the ways its calls can end:
`HotTags` are those whose protocol `XrayAPI.AddUser` knows; the constant
`Faults` chooses which failures exist: a gRPC call fails, its reply is lost,
a write fails or is torn, the binary does not start, the core survives the
signals, a download fails.

### NodeAlerts, NodeHealth — health checks and alerts

`NodeHealth` has the `nodes` table (`row`), the counters (`hyst`), what every
checker is doing (`check`: probing, resetting, saving, counting, undoing) and
whether each worker answers (`reach`). A check is four steps in the order of
the code: read the row, probe, write the row back, count. Checks by the job's
goroutines and by admins' requests overlap with each other and with edits,
`SetNodeEnabled`, `DeleteNode`, `addNode` (which deletes the node again when
its first check fails) and a panel restart. Writing the xray and Telemt state
columns of a row is left out: nothing modelled reads them.

`NodeAlerts` is what the comment in `node_health_tg_hysteresis.go` promises,
without counters: an alert "down" when two consecutive checks failed and none
is open, "up" when two consecutive checks succeeded and one is. `NodeHealth`
implements it (`AlertsAsPromised`, checked and proved).

### LocalCore — the panel's own core

Goroutines are the unit of interleaving: `call[a]` is what a caller of
RestartXray or StopXray is doing (waiting for `lock`, deciding, starting,
stopping), `req[q]` what an inbound request is doing (its calls into the core,
its transaction, setting the flag). Restarts read the database, decide and
start in three steps, under `lock`; requests take no lock. `db`, `core`,
`conf` (`p.GetConfig()`) are the copies; `flag`, `manual`, `checks` are
`isNeedXrayRestart`, `isManuallyStopped` and `checkTime`. `sure`, `fresh`,
`stuck` are history. A cron tick does not wait for the one before, so any
idle caller may be a tick.

Simplifications: a tag belongs to its inbound for good (a request that changes
the port is a removal and an addition); the two gRPC calls of an update are one
step with each outcome of the two; the calls a restart makes to the Telemt
sidecars and to AddTraffic(nil, nil) are left out; `checkTime` is capped at 1,
as the code only asks whether it exceeds 1 after incrementing it; cores that
survive Stop are counted, what they serve is not modelled.

`MCLocalForgotten` adds one history variable, a restart that is owed.

### WebsocketHub — live updates for browsers

`register`, `unregister` and `broadcast` are the hub's channels, `send` what
the channel of each client holds, `closed` which of those are closed; a send
waits for room unless the code's select has another branch. `clients` is the
hub's map, `hub` its loop (one action per branch of the select). The loop and
the job that calls BroadcastToUser each run `broadcastParallel`: `batch[s]`
says which clients its workers have still to serve (`todo`), which workers wait
in Unregister (`full`), and whether it uses the pool, whose WaitGroup both
share; a wait that finds the WaitGroup in use again panics, which Run recovers
(it starts again) and the job does not (`crashed`). `read`, `write` and `open`
are the pumps of each connection and the connection. History: `from`, `log`,
`missed`, `dispatched`.

A removal takes one message out of the client's channel before it closes it, as
the code does (its comment says the channel is empty then, which holds only if
it held one). Left out: the messages' content, the throttle and the 100 ms a
broadcast waits for room, which only decide that a message is not sent, the
message cache, and BroadcastToTopic, which nothing calls.

### Clients — quotas, dates and who is served (single mode)

Per client: its row (`row`), its inbounds (`on`) and, as an older version may
have left it, a row of the table `client_traffics` (`books`); per inbound the
clients in its `settings` and those the `core` knows. `tick` is the traffic job
(read and reset the counters, save, commit, the fallbacks for a core that
counts inbounds only, broadcast); `work` is every goroutine and request, each in
the steps the code takes: read the row, save it whole, read the members of an
inbound, write its settings. A transaction that is still open holds row locks
(`Unlocked`) and is not seen by others. Failures of the core are LocalCore's
subject; here its calls succeed, and a restart loads the settings or does
nothing. Traffic counted while a broadcast was under way, speeds and the online
list are left out. History: `served` (bytes the core has moved), `lowered` (a
quota set below what is used), `lost` (a row or settings saved over another
change), `stray` (clients left in a core in one of the known ways).

### RemoteClients — the same with workers

In multi-node mode no gRPC call of the panel serves a client: handlers call the
workers (`calls`: add a user, remove a user, a whole inbound, a full push), each
from a goroutine of its own, so in no order, and each rebuild calls before it
saves. The state is one client's `row` and inbounds (`on`), the inbounds whose
`settings` list it, and what each worker serves (`conf`). A quota is a bit of
the row (`full`) that traffic may set at any time; counting is `Clients` and
`NodeTraffic`. Equal calls count as one, since executing one twice in a row
changes nothing. `stale` says of a call, for each inbound, that it is not the
last word: another was made after it, or the rows it was made from have changed.
`left` is what remains of the edits, ticks, pushes and faults of a behaviour.
History: `behind` (a worker executed such a call last, or lost one), `unsaved`
(settings written from rows that had changed, not written, or left by a handler
that rebuilds nothing), `lost` (a row saved over another change). Which inbounds
a worker has does not change here; that is `Fleet`. Not repeated from `Clients`:
the reset of all clients, the deletion of depleted ones, assignment in bulk.

### Fleet — what the panel tells its workers

`row`, `enabled`, `assigned`, `nodes`, `on`, `blocked` are the database; `conf`
and `running` the workers; `calls` the hot calls on their way, one per goroutine
and in no order, `pushing` and `block` a full push and a fan-out under way,
`need` and `asked` the wishes for one. `owed` is history: what a worker is
behind with for a reason on record: a call or push failed, a worker was
stopped, a handler of the code tells nobody (an inbound disabled by
UpdateInbound, or deleted while disabled; an assignment emptied), or a hot
inbound arrived without the block rule. A deleted node keeps serving and is no
worker of an enabled node any more.

### NodeTraffic — statistics collected from workers

A run (`run`) asks each node with retries, adds the answers up, updates nodes
and inbounds, reads the clients and commits what it charges. Workers' counters
(`tags`, `users`) are zero once read; `late` are requests the panel gave up
that a worker has yet to see. History: `moved`, `carried`, `due`, `lossy`, `torn`.

### LossyLog, LogStream — the live log

`LogStream` follows a line from the worker's buffer through the post to the
panel, the hub's bounded channel, its batches and the subscribers' channels to
the reader. `LossyLog` is all a reader may count on: lines that were written and
pass his filter, each once, the panel's own in order. `LogStream` implements it
(`Log == INSTANCE LossyLog WITH ...`, checked as `AtMostOnce`).

### Sidecars, SidecarTraffic — Telemt processes

`Sidecars`: the rows, the payloads built from them by handlers that may overtake
each other (`task`), the manager's map (`entries`), the processes (`procs`) and
the `snapshot` that a restart replays; on a worker, or on a panel without
workers, whose manager may be dropped. `SidecarTraffic`: the totals of a
process (`octets`), the file of totals that handlers compare with, what was
`charged`. `excuses` lists, in both, what has gone wrong so far.

### Subscription, ShareLinks, Wireguard — what a client is given

`Subscription`: a request passes the gates (client, address, device) and then
builds links inbound by inbound, while administrators edit hosts, inbounds and
devices, and other requests set the shared `address`. `ShareLinks`: the
security of each link and where each of its parameters is from, by the two
generators of each protocol and by the JSON writer, whose map of stream
settings all proxies of an inbound share (`stream`). `Wireguard`: peers in the
settings of an inbound, merged with the clients by handlers that read and save
without a lock; `shown` is what a client was told of its peer. The peers are a
set: each has a key of its own, and nothing depends on their order in the list.
Whoever needs an address is given the first one free, in the order of the
clients' names (`InTurn`, which one function satisfies: `NewHosts`).

### Import, Geofiles — an administrator's operations

`Import`: table after table in one PostgreSQL transaction, which the first
failed statement spoils although the code goes on. `Geofiles`: one of the two
routing databases on every site (the panel and each worker), as a sequence of
renames and copies, each of which may be the last.

### Maintenance — another version of Xray, a dump restored

`UpdateXray` and `ImportDB` in single mode, next to stops, restarts, the crash
check, exits of the core and ends of the panel. Of `LocalCore` it keeps only who
is in RestartXray (`starting`), `isManuallyStopped` (`manual`) and the file the
core was started from (`core`). Archive and binary are one path each (`zip`,
`bin`) and, for each path, the files ever created there with what they hold:
`os.Remove` and `os.Create` change the path, a write changes the file that was
opened. The database is a connection (`open`) and the tables it shows
(`tables`). A request that stops the core in between has a step between looking
and stopping; that the stop itself fails is not modelled. `by` says who has
stopped the core last; `excuses` name what the code does not prevent.

## 4. The runs

| Run | Question | Size |
|---|---|---|
| `node_manager` (MCWorkers) | do the copies on a worker stay together, and what reaches workers and comes back from them? | 602,765 states |
| `node_observatory` | is an accepted configuration the one that runs? **No** | counterexample |
| `node_revoked` | is a removal answered with 200 for good? **No** | counterexample |
| `node_health` | do alerts and status follow the worker, with overlapping checks? | 324,476 states |
| `node_edit` | does an admin's edit survive a check? **No** | counterexample |
| `local_core` (MCPanel) | when does the core serve what the database says, and what holds of imports, geofiles, sidecars, WireGuard peers, updates of Xray? | 1,750,046 states |
| `local_revival` | one core at a time; does a crashed core come back? | 389,968 states |
| `local_forgotten` | is a restart that was asked for carried out? **No** | counterexample |
| `hub` (MCHubLinks) | is no channel closed twice, nobody left with a gap, Stop never stuck; who gets which links? | 820,583 states |
| `hub_stuck` | is a client with a full buffer disconnected in the end? **No** | counterexample |
| `clients` (MCClients) | who is charged, and who is served in the end? | 1,009,127 states |
| `sub_host` | do links name the host their request was sent to? **No** | counterexample |

`Workers`, `Panel`, `HubLinks` and `People` check several parts in one
run. The parts share no variable: the variable `part`, chosen at the start, says
which of them the behaviour is about, the variables of the others do not
change, and each property is stated of its part (`part = "traffic" => ...`,
with the part's type invariant as a first conjunct). So a run covers the union
of the parts' state spaces, not their product; parts that do interact are one
module. Where a property of a run joins several of a module, all their names are
in its definition, in the composing module.

What they show:

* **Worker.** Whatever fails, the running core serves nothing that `m.config`
  does not hold (`CoreWithinSaved`) and the file equals `m.config` unless its
  last write failed (`DiskMatchesMemory`). Without a lost reply and without an
  old file the core serves exactly what the panel was told
  (`ServesWhatWasGranted`); Reload never loses a core it could not stop
  (`ReloadKeepsHandle`).
* **Alerts.** The counters implement the promise step by step; a worker that
  stays down ends up reported and one that stays up does not stay reported;
  the status in the database converges.
* **Own core.** If the last request for an inbound ran alone and nothing it
  called failed, a running core serves that inbound as the database has it,
  whatever else happened (`SettledInSync`). Never two cores unless one could
  not be stopped (`OneCore`). A crashed core comes back unless the admin
  stopped it (`CrashedCoreComesBack`).
* **Hub.** However many workers and pumps ask for a client's removal, its
  channel is closed once (`RegisteredIsOpen`); a client gets every broadcast
  from its registration on in order (`NothingSkipped`) unless its buffer was
  once full, and then its removal is on its way (`MissedIsLeaving`); a shutdown
  frees whoever waits (`StopNeverBlocks`).
* **Clients.** No client pays for more than the core has moved for it and none
  passes its quota, however ticks, requests and goroutines with old rows
  overlap (`ChargedRight`); for cores that count inbounds only the two
  fallbacks of one tick together charge up to twice, summed over all clients
  (one may pay for another). At rest, if nobody saved
  what he had read before another change, whoever may connect is served
  (`EntitledIsServed`), and whoever may not is served only in one of four
  ways the code has for it (`OnlyKnownWaysToLinger`): expired with several
  inbounds, seen to expire by a page, deleted in bulk, or deleted as depleted
  by a row of the old table that names another inbound. With workers the same
  two hold of every worker of an inbound, but for calls that got lost or were
  overtaken, or that carried rows since changed: nothing repeats or orders
  them. A removal that arrives after the whole inbound was sent is one such
  case, a push built while a rebuild has called but not saved is another.
* **Workers.** A worker differs from what the panel wants only while something
  is on its way or for a reason on record (`BehindForAReason`); no byte is
  counted twice, however requests for statistics are repeated or late, and
  bytes are lost only with a core, an answer, a transaction or the panel
  (`TrafficCounted`).
* **Logs.** A reader sees each line at most once (`AtMostOnce`), and a reader who
  keeps up loses nothing the hub has accepted (`OnlyTheSlowLose`).
* **Sidecars.** At rest the processes are those of the rows unless a push failed
  or was overtaken (`SidecarsAsConfigured`); traffic is charged exactly but for
  listed losses, and twice only by questions that overlap (`SidecarCharged`).
* **Subscriptions.** More devices than the limit only by requests that overlap,
  a blocked device gets no link (`OnlyKnownDevices`); a host that replaces the
  addresses of an inbound hides them (`HostHidesOrigin`); the generators that
  repeat each other agree (`GeneratorsAgree`), and with the JSON writer up to
  the first proxy that forces another security (`SameSecurity`).
* **WireGuard.** At rest exactly the clients that may connect have a peer, except
  that the last one of an inbound keeps its peer (`PeersFollowClients`):
  PreserveWireGuardPeersOnInboundUpdate, meant for the panel's form, also sees
  the settings of a rebuild that has no peer left. Addresses are distinct
  unless the pool is used up or the server has moved into it
  (`AddressesDistinct`).
* **Import, geofiles.** All of a file or nothing of it (`AllOrNothing`), settings
  that list the clients linked to them (`SettingsFollowLinks`); a core never
  starts from a torn file but where the code writes in place,
  once all is quiet it has read the file that is there, and the last upload can
  be undone (all three in `GeofilesInOrder`).
* **Updates of Xray, dumps.** Whatever overlaps, a core stays stopped only
  because an administrator stopped it or because the request that did has
  failed (`StoppedForAReason`). At rest the binary is whole, is the one the
  version file names and is the one that runs (`RunsWhatIsInstalled`), and the
  database is the old one or the restored one (`DatabaseIsThere`; all three in
  `CoreGivenBack`). The exceptions are part of the statement, each needed: an
  update that failed half-way, two that wrote to one file or unpacked each
  other's archive, a version noted out of order, a core started from the old
  binary behind the back of an update that found none to stop, a start without
  the database, two dumps at once.

Six runs find disagreements between the code and what it says of itself:

1. `Config.Equals` ("deep equality", `xray/config.go:28`) skips the observatory
   sections: a push that changes only those is answered with 200 and ignored.
2. A removal that timed out and is repeated is "considered a success"
   (`node/xray/manager.go:898`) without touching `m.config` or the file: a
   reload brings the user back.
3. `CheckNodeHealth` writes back name, address and TLS settings it read up to
   ten seconds earlier (`web/service/node.go:547`).
4. The 30 s job clears the restart flag first (`web/web.go:251`); a failed
   GetXrayConfig, or a database that equals `p.GetConfig()` although a hot
   change half-failed, leaves the restart forgotten.
5. The hub's loop waits for workers (`web/websocket/hub.go:267`) that, at a full
   buffer, wait for room in `unregister`, which only the loop empties. It takes
   more pending removals than that channel holds, 100 in the code.
6. GetSubs keeps the host of a request in a field all requests share
   (`sub/subService.go:111`): links may name the host of another request.

### Bounds and why they are enough

* `NodeManager`: two tags, one hot and one cold, one user, one rule, one
  observatory (two in the run about it), every failure, no bound on their
  number. Handlers touch one tag, user or rule at a time and never compare two
  users; the proofs hold for any number of each.
* `NodeHealth`: one node, since nodes share no state (the proofs are for any
  set); one job goroutine and one admin, which is enough for a check to
  overlap another; `Cap` = 3 for `failStreak`, which the code only compares
  with 0 and 2; one failure (`MaxFaults`). Liveness is
  checked on the same instance.
* `LocalCore`: one tag, because steps on one tag do not read another and a
  restart treats all alike; one content, because an update that changes
  nothing but whether the inbound is enabled already makes the database, the
  start configuration and the core disagree. `local_core` has two requests and
  one caller, `local_revival` two callers and one request; one failure.
* `WebsocketHub`: two connections and a pool of two, so that a broadcast to one
  uses goroutines of its own and one to both uses the pool; every capacity is
  1, so that each channel is full in many states (the code has 100, 100, 2048
  and 512: the same states need that many connections or messages); two
  broadcasts, which overlap in the channel and in the buffers; one message of
  the job, beside any of the loop's broadcasts. The proofs are for any of these
  numbers.

* `Clients`: one client, since rows are charged and marked one by one and a
  rebuild copies the set of members whole; `quota` has a quota of one byte, two
  ticks, both kinds of core, and counts that fit and that exceed it; `members`
  has two inbounds, a date that passes, one tick and the old table. One request
  and one goroutine of a tick run beside the job, one edit.
* `RemoteClients`: one worker, since calls to different workers are independent
  goroutines. `remote` has two inbounds, a tick and a request; `pushed` one
  inbound with a full push and one fault beside them, or beside two requests
  that overlap. The proofs are for any numbers.
* `Fleet`: two inbounds that may claim one port, two workers, one blocked
  address, three edits and one failure, or two edits and a core stopped by hand.
* `NodeTraffic`: two workers, one client, two attempts per request and two runs,
  so that an answer given up meets the next request; one reset, restart or
  reassignment.
* `LogStream`: two lines of the panel and one of a worker, every queue of length
  1 or 2 so that each is full in many states (10, 50, 4096 and 64 in the code).
* `Sidecars`: two handlers, two tags on a worker (one on a panel), two changes,
  one failure. `SidecarTraffic`: two handlers, three questions, one restart.
* `Subscription`: two requests and two devices against a limit of one, with one
  edit; or one request with two inbounds, a node and two hosts, with two edits
  anywhere in it. `ShareLinks`: every protocol, transport and security, up to
  two external proxies. The proofs are for any of these numbers, any overrides
  of a host and any transports.
* `Wireguard`: two clients and a pool of two addresses, the server's being one
  of them or not; three changes of clients and a failure, or two and a form.
* `Import`: a file of three inbounds and three spellings of two addresses over
  three panels; two imports. `Geofiles`: two requests on one site, or one over
  two workers; one failure anywhere. `Maintenance`: two updates; an update and a
  dump with an exit of the core and an end of the panel; or two dumps with an end
  of the panel. Each with one stop or restart by somebody else and one failure.

### Deadlock

`Workers.cfg` checks it for the worker's manager (its other parts may stop,
and the module lets them stutter), and so do the health runs. The runs of `LocalCore` switch
it off: a panel whose requests are done and whose core runs may wait for ever.
So do those of `WebsocketHub`, whose connections come once; what must not block
is stated by `StopNeverBlocks` and `FullIsDisconnected`. The `clients` run and the
other parts of the composed runs end when their edits are used up.

### Fairness

* `NodeHealth`: each check goes on (`Continue`; the probe has a timeout of ten
  seconds) and the job's tick eventually checks each enabled node. Admins,
  edits, deletion, restarts and the worker are not fair.
* `LocalCore`: a caller that waits for the lock or holds it goes on
  (`sync.Mutex` does not starve a waiter, Stop has a deadline) and the
  once-per-second crash check ticks. Requests, the core and the other jobs are
  not fair.
* `WebsocketHub`: the loop and the workers go on when they can, and a select
  that has several branches ready takes each of them sooner or later (the Go
  runtime picks at random), hence strong fairness of the removal and of the
  shutdown. Connections, broadcasts and Stop are not fair.

## 5. Abstractions common to all modules

One statement or transaction on the database is atomic. Formatting, logging,
localisation and notification texts are left out. Symmetry
is used in the runs `local_core` (callers and requests are interchangeable; the
same names stand for the requests, goroutines and workers of the other parts,
which no part tells apart) and `hub` (both connections belong to the same user);
the parts composed with `hub` use none, and liveness runs have none.

## 6. The proofs

`NodeManagerProofs`: for every set of tags, users, rules and every choice of
failures, under `NodeAssumption`.

* `NodeInvariant`: `Spec => []NodeInv`. `ServesWhatWasGranted` speaks of the
  core only; a restart copies `m.config` or the file into the core, so
  `NodeInv` adds that each of them agrees with the panel (`SavedAgrees`,
  `FileAgrees`), and that the core has lost nothing `m.config` has
  (`CoreMirrorsSaved`), without which the early returns of RemoveUser and
  DelInbound would be wrong. One lemma per handler.
* `TypeCorrect`, `CoreStaysWithinSaved`, `DiskStaysInSync`,
  `PanelCanTrustReplies` follow from it.
* `ReloadNeverOrphans`: `Spec => ReloadKeepsHandle`, the action property.

`NodeHealthProofs`: for any nodes, checkers and addresses, under
`HealthAssumption`.

* `HealthInvariant`: `Spec => []HealthInv`; `CountersMeanChecks` says what each
  counter means in terms of the last counted check and the last alert and is
  inductive together with the types.
* `AlertsImplemented`: `Spec => Alerts!Spec`: every step of `NodeHealth` is a
  `Check`, a `Forget` or a stutter of `NodeAlerts`, by `CountersMeanChecks`.

`LocalCoreProofs`: for any number of inbounds, callers, requests and failures,
under `LocalAssumption`.

* `LocalInvariant`: `Spec => []LocalInv`. `SettledInSync` speaks of the core
  only, but a restart copies `cfg` into it, and between the read of the rows
  and the start every request may run: `CfgInSync` says for which inbounds
  `cfg` must still be right, `BusyIsUnsure` that no request under way touches
  one of them, and `CleanIsAlone` what a request that is still alone has
  already brought into the core or the database (`OnItsWay`). `OneCore` needs
  that only the holder of the lock is between stop and start (`OneHolder`) and
  that a start beside a running core follows a stop that failed
  (`StartsAlone`). The proof has three layers: types, what the lock protects
  (`LockInv`), what requests and restarts owe each other (`SyncInv`).
* `LocalTypes`, `OnlyOneCore` and `SettledStaysInSync` follow from it.

`WebsocketHubProofs`: for any connections, capacities, pool and number of
messages, under `HubAssumption`.

* `HubInvariant`: `Spec => []HubInv`. `RegisteredIsOpen` is not inductive: a
  client that waits in `register` twice, or is known already, could be closed
  and taken again, which `RegisteredOnce` excludes; workers meet only clients
  that were registered (`TargetsKnown`), so that a message is missed only by a
  client still in the map or closed; a batch that is over has no worker left
  (`DoneIsEmpty`), or its end would forget a removal.
* `HubTypes`, `NeverClosedTwice` and `NobodyStaysBehind` follow from it.
* `EveryBroadcast`: `Spec => []NothingSkipped`. What a client was given is a
  sequence that grows by one message per broadcast, served by workers in any
  order: `LogInv` numbers what is on its way (the messages in `broadcast` and
  in a batch), so that the next one to come is the next number for everybody.

`LogStreamProofs`: for any readers, numbers of lines, capacities and crashes,
under `LogAssumption`.

* `OnePlace`: `Spec => []PipeInv`. What a reader is shown says nothing of the
  lines behind it. `PipeInv` says that each line is in one place at a time
  (the worker's buffer, one post, the hub's queue, the batch, the fan-out, a
  channel, the page), and that each place is ahead of those behind it: `Follows`
  allows a worker's lines to overtake each other, and the panel's not. First
  come lemmas on sequences: what Append, Tail, a concatenation and a selection
  do to the set and the order of their elements.
* `PipeTypes` and `SlowReadersOnly` (`OnlyTheSlowLose`) follow from it, and
  `ImplementsLog`: each step is a `Write`, a `Show` or a stutter of `LossyLog`.

The same module, `F == INSTANCE Fleet`: for any nodes, inbounds, ports, edits,
lost calls and stopped cores, under `FleetAssumption`.

* `FleetInvariant`: `F!Spec => []F!FleetInv`. `BehindForAReason` says nothing of a
  disabled node, nor of what a call tells. `FleetInv` adds that a call tells
  what the panel wants now but for the things changed since it was made
  (`CallsAreCurrent`), and accounts for every node (`AllAccounted`): what a
  disabled one misses comes with the push of SetNodeEnabled. One lemma per
  handler; for the other inbounds nothing changes, and for its own each makes a
  call, asks for a push or leaves a debt.
* `FleetTypes` and `NoneForgotten` follow from it.

The same module, `Traffic == INSTANCE NodeTraffic`: for any finite sets of nodes,
clients and inbounds and any numbers of tries, runs and mishaps, under
`TrafficAssumption`; and `Octets == INSTANCE SidecarTraffic`: for any clients and
finitely many handlers, under `TotalsAssumption`.

* Both speak of sums (of a client over the nodes, of a client over the
  questions on their way), which the modules take with `FoldFunction`. The lemmas
  before them say what a sum is: there is one for each finite set (`AddsExist`),
  it is the same for every set it is taken over (`AddsAgree`), and a change of
  one entry changes it by as much (`TotalChange`). An induction over finite sets
  takes an operator, so each of these takes the smallest subset for which it
  fails (`Smallest`, from the well-founded ordering of the library).
* `BookedInvariant`: `Traffic!Spec => []Traffic!Booked`. A byte is in a core, in
  the run that asked for it, or booked; `Booked` adds up the three for each node
  (`NodesOnce`), inbound (`InboundsOnce`) and client (`OnlyKnownLosses`). A
  transaction reads, adds and writes, so that `ReadStands` must say that what it
  read is still there, but for a reset (`torn`); and `AskedFirst` that nothing is
  booked for a node before it was asked, for a second answer would count twice.
* `AccountedInvariant`: `Octets!Spec => []Octets!AccountedFor`. Unless questions
  overlap or a file could not be written, at most one is at work (`OneAtWork`),
  it knows the process as it is (`InTouch`), and what was charged, what it will
  charge (`Shares`) and what the next one finds (`Pending`) add up to what the
  process passed on (`Even`).
* `BookedCounts` and `AccountedCharges`: the properties follow.

`SidecarsProofs`: for any handlers, tags, clients, managers, changes and faults,
on a worker and on a panel, under `SidecarsAssumption`.

* `SidecarsInvariant`: `Spec => []SidecarsInv`. `Followed`: without an excuse
  somebody brings the rows as they are now, or was overtaken and will leave the
  excuse, or all is settled. A restart forgives what a failed push left behind,
  so a handler that clears the excuses must be alone; `NothingSince` says that
  nothing was started between the clearing of a manager and the removal of its
  snapshot.
* `SidecarsTypes` and `SidecarsFollow` follow from it.

`MaintenanceProofs`: for any updates, dumps, stops, restarts, exits, failures and
ends of the panel, under `MaintenanceAssumption` (no request is named like the
administrator or like nobody, and no update like a dump).

* `StoppedOnlyForAReason`: `Spec => []StoppedForAReason`. The property says
  nothing of a request that has stopped the core and nears its end. `Held`
  adds that it remembers that the core ran (`Remembers`, `Stopper`), so that it
  must pass by RestartXray, and that only the request in RestartXray can leave
  it (`Starter`): nobody can stop the core on its behalf after that.
* `WhatIsTakenIsGivenBack`: `Spec => []CoreGivenBack`, with `MaintenanceTypes`.
  `GivingBack` adds to `Held` what an update has in its hands at each step, which
  of the files ever created is whole, and whose name is noted (`Installing`),
  and how far the database is with the dump at work (`Restoring`).

The same module, `Geo == INSTANCE Geofiles`: for any requests, workers, contents
and failures, under `GeofilesAssumption`.

* `FilesInvariant`: `Geo!Spec => []Geo!FilesInv`. Whoever has changed a file is
  still at work on that site, has failed, or has had it read (`WillBeRead`);
  nobody has put a torn file aside but where the code writes in place (`Whole`);
  and a request by itself on a site can undo what it has done so far
  (`Undoable`), which says where the old file is between the two renames.
* `FilesInOrder` (`GeofilesInOrder`) follows from it.

The same module, `Wg(of) == INSTANCE Wireguard`, whose parameter is the record of
its constants (the two parts of `Panel` about an inbound differ in nothing else):
for any handlers, clients, changes, forms and failures and any finite pool, under
`WireguardAssumption` (clients and the peers to begin with have one name each, and
these peers have an address each that no other has).

* What a merge does comes first (`MergeIs`): that there is an address for whoever
  needs one, given in turn (`HostsExist`, for each number of clients from the one
  before: the least number without it has none before), that these are apart from
  each other and from those in use while the pool lasts (`HostsApart`), and what
  becomes of each peer (`PeerOfIs`).
* `TunnelInit`, `TunnelNext`: `TunnelInv` is inductive. The properties speak of the
  inbound as it is saved, and a handler saves what it read some steps before. So
  drafts are no worse than what they are to replace (`InOrder`); whoever set out
  alone and has not been joined finds the others idle (`LeftAlone`), and has the
  inbound as it is and the clients as they are in hand (`AtHand`): every entitled
  client one peer (`Follow`), every peer with an address where it was (`Keep`),
  and a form the peers it found. A form must not spoil what holds while nobody
  else is at work, so `Caught` holds also while a lone form is (`Resting`).
  `TunnelImplies` draws the properties from it.

`LocalCoreProofs` also proves `Import` (as the part `Imported` of `Panel`), for any
panels, files, rows that cannot be written and new inbounds, under
`ImportAssumption` (the settings of a panel list its links to begin with, the
traffics of a file are finitely many numbers, and its clients have an address in
lower case).

* `ImportInvariant`: `Imported!Spec => []Imported!ImportInv`. The rebuild at the end
  of an import goes over the inbounds of that moment, and the panel adds its own
  meanwhile. So nobody may be linked to an inbound that is not there, in the
  panel (`Linked`) or in the transaction, which writes every inbound of the file
  before the first link (`Ordered`); a new inbound then has no client to list.
* `ImportIsAllOrNothing` (`AllOrNothing`), from `Imported!ProgressInv`: while the
  transaction lives it has written every row it has been through, none that is
  to be skipped, and a client's traffic is what the panel had and the sum over
  the rows of the file counted so far (`Progress`). The commit comes when it has
  been through all tables. That a sum grows by the row that is added is proved
  from the recursion of the fold, over the smallest set for which it would fail
  (`UptoWithout`).

`ClientsProofs`: for finitely many clients, any inbounds, requests, goroutines,
quotas, dates and ticks, under `ClientsAssumption`.

* `ClientsInvariant`: `Spec => []ClientsInv`. Rows are read whole, kept while
  others write and saved whole; so `Charged` and `Limited` speak of every copy
  that may still be saved, in the table, with a goroutine or in the tick: what
  was counted and not charged fits on top of each of them. `WillBeServed` and
  `WillLeave` account for the moments when somebody is at work: whoever is not
  where he belongs will be brought there by a goroutine about to rebuild the
  inbound (`Due`), to add him again (`Comes`) or to cut him off (`Cut`), and
  each step that ends such a promise keeps it. They need that the tick's
  transaction saves rows nobody has changed (`OneTransaction`).
* A core without counters per client tells a tick what an inbound has moved. The
  fallbacks bill that to one client of the inbound, whoever caused it, so no
  client's row can be compared with what he has been served. `Billed` compares
  sums: there is a number for each client that no copy of his row exceeds
  (`Covers`), and these numbers and twice the traffic not yet billed (`Unbilled`)
  are together at most twice what all were served. It needs that a client's
  traffic of a tick is on one bill (`OneWay`): the payers of a tick's bills are
  then matched with those who caused them, no two with the same (`UptoInto`, one
  of the lemmas on sums the proof starts with).
* `ClientsTypes`, `PaysOnce`, `ChargedIsDelivered`, `StaysWithinLimit`,
  `TheEntitledAreServed` and `OnlyTheStrayLinger` follow from it.

The proof of `StaysWithinLimit` failed at first for a good reason: the history
variable `lowered`, the clients whose quota was set below what they had used,
was cleared by a reset of the row while a goroutine still held the row of
before, which it then saved. It is now cleared only when nobody else holds
a copy.

The same module, `Remote == INSTANCE RemoteClients`: for any inbounds, workers,
requests, goroutines and budgets (its constants need no assumption).

* `RemoteInvariant`: `Remote!Spec => []Remote!RemoteInv`. The properties speak
  of the moments at rest, `RemoteInv` of every moment, as long as no row was
  saved over another change. The settings of an inbound are right, on record or
  somebody will save them (`SettingsKept`); a call is right in all it is the
  last word about, unless somebody owes the worker another (`CallRight`); and a
  worker is right, on record, owed a call or about to be sent one (`ConfKept`).
  Somebody owes a call who has the inbound still to do (`Promised`), or who has
  been overtaken by a push between the call and the save and will leave that on
  record (`Owed`).

The same module, `Links == INSTANCE Subscription`: for any requests, devices,
names, inbounds, nodes, hosts, limits and edits, under `DevicesAssumption`
(`MaxDevices` has a largest limit); and `Words == INSTANCE ShareLinks`: for any
transports and overrides and any number of proxies, under `LinksAssumption` (no
protocol or security but the code's).

* `SubscriptionInvariant`: `Links!Spec => []Links!SubscriptionInv`. Between the
  count of the devices and the new row other requests act. `RoomFound` says that
  who is about to insert has counted fewer than the limit, so that a passed limit
  is excused by an edit or by a second request in the same place; `GateHolds`
  that a request that found its device blocked gets past no gate while it stays
  blocked; `StillHidden` that an inbound hidden so far is hidden by its hosts now.
* `LinksInvariant`: `Words!Spec => []Words!LinksInv`: what the JSON writer hands
  from one proxy to the next has the security of the inbound until a proxy
  forces another (`AsItWas`), and has TLS settings exactly if its security is
  TLS (`Brings`). The agreement of the two generators is a fact about
  functions of the inbound, proved by their cases.

An attempt at the proof of `RemoteInvariant` failed for a good reason: a goroutine
that cuts a client off may, after an edit, read a row that is active again and
over its quota, and marks it expired (`CutSave`). That takes the client off
inbounds the goroutine does not rebuild, so the client lingers there, and the
model had put nothing of that on record. TLC agrees, with two edits and two
inbounds; the step now leaves them in `unsaved` and `behind`.

What the runs check of the compositions follows for each part: a behaviour of
the composition is one of the part it is about (`PartsAreModules`,
`PeopleAreModules`), so the theorem of the part's module holds of it, for any `Of`
or `Setup` that satisfies the assumptions of the parts (`PartsAssumption`,
`PeopleAssumption`).

* At the end of `NodeManagerProofs`, of `Workers`: `NoWorkerForgotten`,
  `NobodyElseLoses`, `ShownAtMostOnce`, `WorkersSidecarsFollow`,
  `CountedInTheFleet`, `ChargedForSidecars`.
* At the end of `LocalCoreProofs`, of `Panel`: `ImportKeepsLinks`,
  `ImportIsAllOrNothing`, `FilesStayInOrder`, `PanelsSidecarsFollow`,
  `CoreIsGivenBack`, `PeersAreTheClients` (`PeersFollowClients`) and `NoAddressTwice`
  (`AddressesDistinct`), the last two from `TunnelInv` in both parts
  (`TunnelsInvariant`).
* At the end of `WebsocketHubProofs`, of `People`: `TheBillsAreRight`
  (`ChargedRight`), `TheEntitledAreServed`, `OnlyTheStrayLinger`; and of
  `HubLinks`, whose other part is the hub (`PartsAreBoth`): `DevicesAreKept`
  (`OnlyKnownDevices`), `OriginStaysHidden` (`HostHidesOrigin`),
  `GeneratorsWriteTheSame` (`GeneratorsAgree`), `SecurityIsTheSame`
  (`SameSecurity`).

TLC evaluates `PartsAssumption` and `PeopleAssumption` for the constants of the
runs.

Not proved, only model-checked:

* Liveness (`DownIsReported`, `RecoveryIsReported`, `StatusFollowsWorker`,
  `CrashedCoreComesBack`) and `StopNeverBlocks`, which speaks of ENABLED: out of
  the prover's reach.

Every other invariant that a run finds to hold is proved. These hold for the
instances of section 4.


## 7. What is not modelled

`PROJECT.json` gives the reason per component. Open: the composition of
`RemoteClients` with `Fleet`: clients and the assignment of their inbounds do not
change in one behaviour.

Left out for good, because no order of events matters to them or because their
correctness is a matter of text: wording and pages of subscriptions, defaults of
configurations, the conversion of settings between protocols, pairing material
and certificates, the database backup and downloads of releases, Loki and the
tail of local log files, the display of metrics and geography, rows of settings,
users and tokens, LDAP, the Telegram bot, the frontend and vendored code.

Seen while reading, in code no model covers:

* `periodic_traffic_reset_job.go:40` resets the counters of all inbounds whatever
  their period, and those of clients only in the old table `client_traffics`.
* `inbound.go:1646` (autoRenewClients) and `client.go` (DelDepletedClients) read
  `client_traffics`, which no statement of this version fills.
* `inbound.go:2372` uses `GROUP_CONCAT`, which PostgreSQL does not have.
* `server.go:1967` (ImportDB): only an error of `psql` with certain words in its
  output ends the import. Otherwise, also when `psql` is not installed, it reports
  success over tables that are empty. (`Maintenance` has the failure, and says
  nothing of the report.)
* `node.go:1774` only logs that a node has reached its traffic limit (a TODO).
