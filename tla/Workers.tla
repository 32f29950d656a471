------------------------------ MODULE Workers ------------------------------
(***************************************************************************)
(* The panel and its workers: parts that share no state of a model, side   *)
(* by side.  A behaviour is one of one part, chosen at the start; the      *)
(* manager's variables then keep their first value, those of the other     *)
(* parts are 0.                                                            *)
(*   manager   the Xray manager of a worker (NodeManager)                  *)
(*   fleet     what the panel tells its workers to serve (Fleet)           *)
(*   stopped   the same, while a worker's core is stopped by hand          *)
(*   traffic   the statistics it collects from them (NodeTraffic)          *)
(*   lines     the lines they send it, till a reader (LogStream)           *)
(*   watched   the same, with other readers                                *)
(*   sidecars  the Telemt processes beside a worker's core (Sidecars)      *)
(*   octets    the traffic they count (SidecarTraffic)                     *)
(* A part is taken with its proofs where it has some, for the theorems     *)
(* about Workers to rest on them (NodeManagerProofs); those of LogStream,  *)
(* Fleet (F there), NodeTraffic and SidecarTraffic are in one module, so   *)
(* that Lines stands for "lines", "fleet", "traffic" and "octets", and     *)
(* Watched for "watched" and "stopped".                                    *)
(***************************************************************************)
EXTENDS NodeManager

CONSTANT Of   \* for each part but the manager, the constants of its module

VARIABLES part,
  row, enabled, assigned, nodes, on, blocked, asks, need, asked, pushing, block,
  calls, conf, running, owed, edits, faults, stops,
  alive, tags, users, late, given, run, nodeRow, inboundRow, client, perNode,
  resetting, runs, events, moved, carried, due, lossy, torn,
  hasPanel, buffer, kicks, flights, serving, count, in, batch, fan, state, chan,
  shown, crashes, wanted, slow,
  rows, current, made, entries, procs, snapshot, task, changes, mishaps, excuses,
  octets, kept, handler, charged, starts, questions, passed, restarted, lapses

fleet == <<row, enabled, assigned, nodes, on, blocked, asks, need, asked, pushing,
           block, calls, conf, running, owed, edits, faults, stops>>
traffic == <<alive, tags, users, late, given, run, nodeRow, inboundRow, client, perNode,
             resetting, runs, events, moved, carried, due, lossy, torn>>
logs == <<hasPanel, buffer, kicks, flights, serving, count, in, batch, fan, state, chan,
          shown, crashes, wanted, slow>>
sidecars == <<rows, current, made, entries, procs, snapshot, task, changes,
              mishaps, excuses>>
totals == <<octets, kept, handler, charged, starts, questions, passed,
            restarted, lapses>>

Lines == INSTANCE LogStreamProofs WITH
  Readers <- Of.lines.Readers, Source <- Of.lines.Source, MaxLines <- Of.lines.MaxLines,
  FullBuffer <- Of.lines.FullBuffer, FullBatch <- Of.lines.FullBatch,
  InCap <- Of.lines.InCap, ReaderCap <- Of.lines.ReaderCap,
  MaxCrashes <- Of.lines.MaxCrashes, enabled <- hasPanel, due <- wanted,
  Nodes <- Of.fleet.Nodes, Inbounds <- Of.fleet.Inbounds, Ports <- Of.fleet.Ports,
  Rule <- Of.fleet.Rule, Given <- Of.fleet.Given, Profiled <- Of.fleet.Profiled,
  Blocks <- Of.fleet.Blocks, MaxAsks <- Of.fleet.MaxAsks, MaxEdits <- Of.fleet.MaxEdits,
  MaxFaults <- Of.fleet.MaxFaults, MaxStops <- Of.fleet.MaxStops, available <- enabled,
  Books <- Of.traffic, Meters <- Of.octets, billed <- due

Watched == INSTANCE LogStreamProofs WITH
  Readers <- Of.watched.Readers, Source <- Of.watched.Source, MaxLines <- Of.watched.MaxLines,
  FullBuffer <- Of.watched.FullBuffer, FullBatch <- Of.watched.FullBatch,
  InCap <- Of.watched.InCap, ReaderCap <- Of.watched.ReaderCap,
  MaxCrashes <- Of.watched.MaxCrashes, enabled <- hasPanel, due <- wanted,
  Nodes <- Of.stopped.Nodes, Inbounds <- Of.stopped.Inbounds, Ports <- Of.stopped.Ports,
  Rule <- Of.stopped.Rule, Given <- Of.stopped.Given, Profiled <- Of.stopped.Profiled,
  Blocks <- Of.stopped.Blocks, MaxAsks <- Of.stopped.MaxAsks, MaxEdits <- Of.stopped.MaxEdits,
  MaxFaults <- Of.stopped.MaxFaults, MaxStops <- Of.stopped.MaxStops, available <- enabled,
  Books <- Of.traffic, Meters <- Of.octets, billed <- due

Processes == INSTANCE SidecarsProofs WITH
  Handlers <- Of.sidecars.Handlers, Tags <- Of.sidecars.Tags,
  Clients <- Of.sidecars.Clients, Standalone <- FALSE, MaxManagers <- 1,
  MaxChanges <- Of.sidecars.MaxChanges, MaxFaults <- Of.sidecars.MaxFaults,
  faults <- mishaps

ASSUME PartsAssumption ==
  /\ Lines!LogAssumption /\ Lines!F!FleetAssumption
  /\ Watched!LogAssumption /\ Watched!F!FleetAssumption
  /\ Processes!SidecarsAssumption
  /\ Lines!Traffic!TrafficAssumption /\ Lines!Octets!TotalsAssumption

(* The variables of a part that is not the one of the behaviour. *)
NoFleet ==
  /\ row = 0 /\ enabled = 0 /\ assigned = 0 /\ nodes = 0 /\ on = 0
  /\ blocked = 0 /\ asks = 0 /\ need = 0 /\ asked = 0 /\ pushing = 0
  /\ block = 0 /\ calls = 0 /\ conf = 0 /\ running = 0 /\ owed = 0
  /\ edits = 0 /\ faults = 0 /\ stops = 0
NoTraffic ==
  /\ alive = 0 /\ tags = 0 /\ users = 0 /\ late = 0 /\ given = 0 /\ run = 0
  /\ nodeRow = 0 /\ inboundRow = 0 /\ client = 0 /\ perNode = 0
  /\ resetting = 0 /\ runs = 0 /\ events = 0 /\ moved = 0 /\ carried = 0
  /\ due = 0 /\ lossy = 0 /\ torn = 0
NoLogs ==
  /\ hasPanel = 0 /\ buffer = 0 /\ kicks = 0 /\ flights = 0 /\ serving = 0
  /\ count = 0 /\ in = 0 /\ batch = 0 /\ fan = 0 /\ state = 0 /\ chan = 0
  /\ shown = 0 /\ crashes = 0 /\ wanted = 0 /\ slow = 0

NoSidecars ==
  /\ rows = 0 /\ current = 0 /\ made = 0 /\ entries = 0 /\ procs = 0
  /\ snapshot = 0 /\ task = 0 /\ changes = 0 /\ mishaps = 0 /\ excuses = 0
NoTotals ==
  /\ octets = 0 /\ kept = 0 /\ handler = 0 /\ charged = 0 /\ starts = 0
  /\ questions = 0 /\ passed = 0 /\ restarted = 0 /\ lapses = 0

PartsInit ==
  /\ Init
  /\ \/ part = "manager" /\ NoFleet /\ NoTraffic /\ NoLogs /\ NoSidecars /\ NoTotals
     \/ part = "fleet" /\ Lines!F!Init /\ NoTraffic /\ NoLogs /\ NoSidecars /\ NoTotals
     \/ part = "stopped" /\ Watched!F!Init /\ NoTraffic /\ NoLogs /\ NoSidecars /\ NoTotals
     \/ part = "traffic" /\ NoFleet /\ Lines!Traffic!Init /\ NoLogs /\ NoSidecars /\ NoTotals
     \/ part = "lines" /\ NoFleet /\ NoTraffic /\ Lines!Init /\ NoSidecars /\ NoTotals
     \/ part = "watched" /\ NoFleet /\ NoTraffic /\ Watched!Init /\ NoSidecars /\ NoTotals
     \/ part = "sidecars" /\ NoFleet /\ NoTraffic /\ NoLogs /\ Processes!Init /\ NoTotals
     \/ part = "octets" /\ NoFleet /\ NoTraffic /\ NoLogs /\ NoSidecars /\ Lines!Octets!Init

PartsNext ==
  /\ UNCHANGED part
  /\ \/ part = "manager" /\ Next /\ UNCHANGED <<fleet, traffic, logs, sidecars, totals>>
     \/ part = "fleet" /\ Lines!F!Next /\ UNCHANGED <<vars, traffic, logs, sidecars, totals>>
     \/ part = "stopped" /\ Watched!F!Next /\ UNCHANGED <<vars, traffic, logs, sidecars, totals>>
     \/ part = "traffic" /\ Lines!Traffic!Next /\ UNCHANGED <<vars, fleet, logs, sidecars, totals>>
     \/ part = "lines" /\ Lines!Next /\ UNCHANGED <<vars, fleet, traffic, sidecars, totals>>
     \/ part = "watched" /\ Watched!Next /\ UNCHANGED <<vars, fleet, traffic, sidecars, totals>>
     \/ part = "sidecars" /\ Processes!Next /\ UNCHANGED <<vars, fleet, traffic, logs, totals>>
     \/ part = "octets" /\ Lines!Octets!Next /\ UNCHANGED <<vars, fleet, traffic, logs, sidecars>>
     \* Only a manager must never stop.
     \/ part # "manager" /\ UNCHANGED <<vars, fleet, traffic, logs, sidecars, totals>>

whole == <<part, vars, fleet, traffic, logs, sidecars, totals>>

PartsSpec == PartsInit /\ [][PartsNext]_whole

-----------------------------------------------------------------------------
(* A worker of an enabled node serves something else than the panel wants  *)
(* only while a call or a push is on its way, or for one of the reasons    *)
(* Fleet keeps on record.                                                  *)
BehindForAReason ==
  /\ part = "fleet" => Lines!F!TypeOK /\ Lines!F!BehindForAReason
  /\ part = "stopped" => Watched!F!TypeOK /\ Watched!F!BehindForAReason

(* However often a request for statistics is repeated, delayed or answered *)
(* in vain, no byte is counted twice for a node or an inbound; a byte a    *)
(* client has moved is charged or still to be collected, unless a core     *)
(* restarted, an answer or a transaction was lost or the panel died; and   *)
(* the rows of a client node by node never exceed what it is charged for.  *)
TrafficCounted ==
  part = "traffic" =>
    /\ Lines!Traffic!TypeOK /\ Lines!Traffic!CountedOnce
    /\ Lines!Traffic!OnlyKnownLosses /\ Lines!Traffic!PerNodeWithinClient

(* A line the log hub accepted while a reader was watching reaches him     *)
(* unless it was his own channel that was full.                            *)
OnlyTheSlowLose ==
  /\ part = "lines" => Lines!TypeOK /\ Lines!OnlyTheSlowLose
  /\ part = "watched" => Watched!TypeOK /\ Watched!OnlyTheSlowLose

(* The pipeline of logs implements LossyLog: each reader is shown the      *)
(* lines he asked for at most once, and the panel's own in order.          *)
AtMostOnce ==
  /\ part = "lines" => Lines!Log!Init
  /\ part = "watched" => Watched!Log!Init
  /\ [][part = "lines" => Lines!Log!Next \/ UNCHANGED Lines!Log!vars]_logs
  /\ [][part = "watched" => Watched!Log!Next \/ UNCHANGED Watched!Log!vars]_logs

(* Once nobody is at work, the Telemt processes of a worker are those of   *)
(* the rows, unless a push failed, was overtaken, or they were stopped;    *)
(* and a restart of them repeats what runs (Sidecars).                     *)
SidecarsAsConfigured ==
  part = "sidecars" => Processes!TypeOK /\ Processes!SidecarsAsConfigured

(* Between two questions a client has been charged for all a Telemt        *)
(* process has passed on for it but what the next answer brings, unless    *)
(* one of the losses SidecarTraffic lists has happened; and the same is    *)
(* charged twice only by questions that overlap, or after a file that      *)
(* could not be written.                                                   *)
SidecarCharged ==
  part = "octets" =>
    /\ Lines!Octets!TypeOK
    /\ Lines!Octets!SidecarChargedExactly /\ Lines!Octets!NeverChargedTwice
=============================================================================
