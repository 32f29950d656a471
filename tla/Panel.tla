-------------------------------- MODULE Panel --------------------------------
(***************************************************************************)
(* The panel's server: its own Xray core (LocalCore), the import of        *)
(* another panel's database (Import), the files of Xray's rules (Geofiles),*)
(* its Telemt processes (Sidecars), its WireGuard inbounds (Wireguard) and *)
(* what takes its core away for a while (Maintenance).                     *)
(* No state of the models is shared; they are side by side: a behaviour is *)
(* one of one part, chosen at the start; the variables of LocalCore then   *)
(* keep their first value, those of the others are 0.                      *)
(*   core      the panel's own core                                        *)
(*   import    a file of another panel                                     *)
(*   uploads   geofiles, the panel's own or those of its workers           *)
(*   workers   the same on another instance                                *)
(*   sidecars  the Telemt processes of a panel without workers (Sidecars)  *)
(*   tunnel    the clients of a WireGuard inbound (Wireguard)              *)
(*   form      the same, while the panel's form of it is saved             *)
(*   versions, restore, dumps   updates of Xray and restored dumps of the  *)
(*             database (Maintenance)                                      *)
(* A part is taken with its proofs where it has some, for the theorems     *)
(* about Panel to rest on them (LocalCoreProofs); those of Maintenance, of *)
(* Geofiles, which is Geo there, and of Wireguard, which is Wg there, are  *)
(* in one module, so that Versions stands for "versions", "uploads",       *)
(* "tunnel" and "form", Restore for "restore" and "workers", and Dumps for *)
(* "dumps".                                                                *)
(***************************************************************************)
EXTENDS LocalCore

CONSTANT Of   \* for each part but the core, the constants of its module

VARIABLES part,
  panel, given, stage, todo, tx, aborted, imports, live, backup, loaded,
  works, failures, overlap, written, previous, failed,
  rows, current, made, entries, procs, snapshot, errand, changes, mishaps, excuses,
  active, settings, keys, handling, shown, toggles, saves, losses, raced, reasons,
  binary, halted, starting, due, zip, bin, zipped, unpacked, noted, open, tables,
  jobs, asks, exits, trouble, kills, by, causes

import == <<panel, given, stage, todo, tx, aborted, imports>>
files == <<live, backup, loaded, works, failures, overlap, written, previous,
           failed>>
sidecars == <<rows, current, made, entries, procs, snapshot, errand, changes,
              mishaps, excuses>>
tunnel == <<active, settings, keys, handling, shown, toggles, saves, losses,
            raced, reasons>>
upkeep == <<binary, halted, starting, due, zip, bin, zipped, unpacked, noted, open,
            tables, jobs, asks, exits, trouble, kills, by, causes>>

Imported == INSTANCE Import WITH
  Lower <- Of.import.Lower, NoEmail <- Of.import.NoEmail,
  FileUsers <- Of.import.FileUsers, FileKeys <- Of.import.FileKeys,
  Ignored <- Of.import.Ignored, File <- Of.import.File, Usage <- Of.import.Usage,
  Panels <- Of.import.Panels, NewTags <- Of.import.NewTags, MaxId <- Of.import.MaxId,
  MaxImports <- Of.import.MaxImports, db <- panel

Processes == INSTANCE SidecarsProofs WITH
  Handlers <- Of.sidecars.Handlers, Tags <- Of.sidecars.Tags,
  Clients <- Of.sidecars.Clients, Standalone <- TRUE,
  MaxManagers <- Of.sidecars.MaxManagers, MaxChanges <- Of.sidecars.MaxChanges,
  MaxFaults <- Of.sidecars.MaxFaults, task <- errand, faults <- mishaps

Versions == INSTANCE MaintenanceProofs WITH
  Updates <- Of.versions.Updates, Imports <- Of.versions.Imports, MaxAsks <- Of.versions.MaxAsks,
  MaxExits <- Of.versions.MaxExits, MaxFaults <- Of.versions.MaxFaults, MaxKills <- Of.versions.MaxKills,
  core <- binary, manual <- halted, binary <- unpacked, req <- jobs, faults <- trouble,
  excuses <- causes,
  Requests <- Of.uploads.Requests, Nodes <- Of.uploads.Nodes, Contents <- Of.uploads.Contents,
  Default <- Of.uploads.Default, MaxFailures <- Of.uploads.MaxFaults, work <- works

Restore == INSTANCE MaintenanceProofs WITH
  Updates <- Of.restore.Updates, Imports <- Of.restore.Imports, MaxAsks <- Of.restore.MaxAsks,
  MaxExits <- Of.restore.MaxExits, MaxFaults <- Of.restore.MaxFaults, MaxKills <- Of.restore.MaxKills,
  core <- binary, manual <- halted, binary <- unpacked, req <- jobs, faults <- trouble,
  excuses <- causes,
  Requests <- Of.workers.Requests, Nodes <- Of.workers.Nodes, Contents <- Of.workers.Contents,
  Default <- Of.workers.Default, MaxFailures <- Of.workers.MaxFaults, work <- works

Dumps == INSTANCE MaintenanceProofs WITH
  Updates <- Of.dumps.Updates, Imports <- Of.dumps.Imports, MaxAsks <- Of.dumps.MaxAsks,
  MaxExits <- Of.dumps.MaxExits, MaxFaults <- Of.dumps.MaxFaults, MaxKills <- Of.dumps.MaxKills,
  core <- binary, manual <- halted, binary <- unpacked, req <- jobs, faults <- trouble,
  excuses <- causes,
  Requests <- Of.workers.Requests, Nodes <- Of.workers.Nodes, Contents <- Of.workers.Contents,
  Default <- Of.workers.Default, MaxFailures <- Of.workers.MaxFaults, work <- works

ASSUME PartsAssumption ==
  /\ Versions!MaintenanceAssumption /\ Restore!MaintenanceAssumption
  /\ Dumps!MaintenanceAssumption
  /\ Versions!Geo!GeofilesAssumption /\ Restore!Geo!GeofilesAssumption
  /\ Processes!SidecarsAssumption
  /\ Versions!Wg(Of.tunnel)!WireguardAssumption
  /\ Versions!Wg(Of.form)!WireguardAssumption
  /\ Imported!ImportAssumption

NoImport ==
  /\ panel = 0 /\ given = 0 /\ stage = 0 /\ todo = 0 /\ tx = 0 /\ aborted = 0
  /\ imports = 0
NoFiles ==
  /\ live = 0 /\ backup = 0 /\ loaded = 0 /\ works = 0 /\ failures = 0
  /\ overlap = 0 /\ written = 0 /\ previous = 0 /\ failed = 0
NoSidecars ==
  /\ rows = 0 /\ current = 0 /\ made = 0 /\ entries = 0 /\ procs = 0
  /\ snapshot = 0 /\ errand = 0 /\ changes = 0 /\ mishaps = 0 /\ excuses = 0
NoTunnel ==
  /\ active = 0 /\ settings = 0 /\ keys = 0 /\ handling = 0 /\ shown = 0
  /\ toggles = 0 /\ saves = 0 /\ losses = 0 /\ raced = 0 /\ reasons = 0

NoUpkeep ==
  /\ binary = 0 /\ halted = 0 /\ starting = 0 /\ due = 0 /\ zip = 0 /\ bin = 0
  /\ zipped = 0 /\ unpacked = 0 /\ noted = 0 /\ open = 0 /\ tables = 0 /\ jobs = 0
  /\ asks = 0 /\ exits = 0 /\ trouble = 0 /\ kills = 0 /\ by = 0 /\ causes = 0

NoneOfThese == NoImport /\ NoFiles /\ NoSidecars /\ NoTunnel

PartsInit ==
  /\ Init
  /\ \/ part = "core" /\ NoImport /\ NoFiles /\ NoSidecars /\ NoTunnel /\ NoUpkeep
     \/ part = "import" /\ Imported!Init /\ NoFiles /\ NoSidecars /\ NoTunnel /\ NoUpkeep
     \/ part = "uploads" /\ NoImport /\ Versions!Geo!Init /\ NoSidecars /\ NoTunnel /\ NoUpkeep
     \/ part = "workers" /\ NoImport /\ Restore!Geo!Init /\ NoSidecars /\ NoTunnel /\ NoUpkeep
     \/ part = "sidecars" /\ NoImport /\ NoFiles /\ Processes!Init /\ NoTunnel /\ NoUpkeep
     \/ /\ part = "tunnel" /\ NoImport /\ NoFiles /\ NoSidecars /\ NoUpkeep
        /\ Versions!Wg(Of.tunnel)!Init
     \/ /\ part = "form" /\ NoImport /\ NoFiles /\ NoSidecars /\ NoUpkeep
        /\ Versions!Wg(Of.form)!Init
     \/ part = "versions" /\ NoneOfThese /\ Versions!Init
     \/ part = "restore" /\ NoneOfThese /\ Restore!Init
     \/ part = "dumps" /\ NoneOfThese /\ Dumps!Init
  /\ part # "core" => db = [t \in Tags |-> NoRow]

others == <<import, files, sidecars, tunnel>>

PartsNext ==
  /\ UNCHANGED part
  /\ \/ part = "core" /\ Next /\ UNCHANGED <<others, upkeep>>
     \/ part = "import" /\ Imported!Next /\ UNCHANGED <<vars, files, sidecars, tunnel, upkeep>>
     \/ part = "uploads" /\ Versions!Geo!Next /\ UNCHANGED <<vars, import, sidecars, tunnel, upkeep>>
     \/ part = "workers" /\ Restore!Geo!Next /\ UNCHANGED <<vars, import, sidecars, tunnel, upkeep>>
     \/ part = "sidecars" /\ Processes!Next /\ UNCHANGED <<vars, import, files, tunnel, upkeep>>
     \/ /\ part = "tunnel" /\ Versions!Wg(Of.tunnel)!Next
        /\ UNCHANGED <<vars, import, files, sidecars, upkeep>>
     \/ /\ part = "form" /\ Versions!Wg(Of.form)!Next
        /\ UNCHANGED <<vars, import, files, sidecars, upkeep>>
     \/ part = "versions" /\ Versions!Next /\ UNCHANGED <<vars, others>>
     \/ part = "restore" /\ Restore!Next /\ UNCHANGED <<vars, others>>
     \/ part = "dumps" /\ Dumps!Next /\ UNCHANGED <<vars, others>>

whole == <<part, vars, others, upkeep>>

PartsSpec == PartsInit /\ [][PartsNext]_whole

-----------------------------------------------------------------------------
(* Whatever row of an import fails, the database has none of the file or   *)
(* the whole of it, its traffic counted once; and no import changes how    *)
(* the panel itself is reached (Import).                                   *)
AllOrNothing ==
  [][part = "import" => (Imported!Ends => Imported!Whole) /\ Imported!KeepsAccess]_import

(* The settings of an inbound list exactly the clients linked to it, after *)
(* any import over any database (Import).                                  *)
SettingsFollowLinks ==
  part = "import" => Imported!TypeOK /\ Imported!SettingsFollowLinks

(* No core finds a half-written geofile, but for the two cases where the   *)
(* code writes in place; once no request is at work and none has failed,   *)
(* each core has read the geofile that is there; and the backup is what    *)
(* the last upload or rollback replaced, so that it can be undone          *)
(* (Geofiles).                                                             *)
GeofilesInOrder ==
  /\ part = "uploads" => Versions!Geo!TypeOK /\ Versions!Geo!GeofilesInOrder
  /\ part = "workers" => Restore!Geo!TypeOK /\ Restore!Geo!GeofilesInOrder

(* Once nobody is at work, the Telemt processes of the panel are those of  *)
(* the rows, unless one failed, was overtaken, or they were stopped; and a *)
(* process no manager knows any more comes only from a goroutine that took *)
(* the manager before it was dropped (Sidecars).                           *)
SidecarsAsConfigured ==
  part = "sidecars" => Processes!TypeOK /\ Processes!SidecarsAsConfigured

(* Each client of a WireGuard inbound that may connect has one peer, and   *)
(* nobody else has, once all is quiet, but when no peer would be left; and *)
(* what a client was told of its peer goes on to work while it may connect *)
(* (Wireguard).                                                            *)
PeersFollowClients ==
  /\ part = "tunnel" => /\ Versions!Wg(Of.tunnel)!TypeOK
                        /\ Versions!Wg(Of.tunnel)!PeersFollowClients
                        /\ Versions!Wg(Of.tunnel)!ShownStillWorks
  /\ part = "form" => /\ Versions!Wg(Of.form)!TypeOK
                      /\ Versions!Wg(Of.form)!PeersFollowClients
                      /\ Versions!Wg(Of.form)!ShownStillWorks

(* No two peers share an address, however merges overlap (Wireguard).      *)
AddressesDistinct ==
  /\ part = "tunnel" => Versions!Wg(Of.tunnel)!AddressesDistinct
  /\ part = "form" => Versions!Wg(Of.form)!AddressesDistinct

(* Whoever takes the core away gives it back: a core stays stopped for a   *)
(* reason, a core that runs is the one installed, and the database is      *)
(* there, whatever updates, dumps, stops, restarts and ends of the panel   *)
(* overlap (Maintenance).                                                  *)
CoreGivenBack ==
  /\ part = "versions" => Versions!TypeOK /\ Versions!CoreGivenBack
  /\ part = "restore" => Restore!TypeOK /\ Restore!CoreGivenBack
  /\ part = "dumps" => Dumps!TypeOK /\ Dumps!CoreGivenBack
=============================================================================
