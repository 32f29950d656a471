----------------------------- MODULE Maintenance -----------------------------
(***************************************************************************)
(* Two requests of an administrator that take the panel's own core away    *)
(* and give it back (single mode):                                         *)
(*                                                                         *)
(*   web/service/server.go   UpdateXray  another version of Xray: stop,    *)
(*                           download, replace the binary, start           *)
(*                           ImportDB    a dump of the database: stop,     *)
(*                           drop every table, psql, reconnect, start, and *)
(*                           a restart of the panel                        *)
(*                                                                         *)
(* Nothing keeps requests apart but `lock`, held in StopXray and in        *)
(* RestartXray (LocalCore).  The binary and the archive it comes from are  *)
(* each at one path, where every request removes what is there, creates a  *)
(* file and writes to it, in steps of its own; a request that has a file   *)
(* open keeps it when the path is removed.                                 *)
(***************************************************************************)
EXTENDS Naturals

CONSTANTS
  Updates,   \* requests for a version, each named by the version it asks for
  Imports,   \* requests that restore a dump
  MaxAsks,   \* stops and restarts by an administrator or a job
  MaxExits,  \* exits of the core
  MaxFaults, \* failures of downloads, disk, psql
  MaxKills   \* ends of the panel's process, beside those after an import

Jobs == Updates \cup Imports
None == "none"
First == "first"                \* the version there is at first
Versions == Updates \cup {First}
Part == "part"                  \* a file of which something is missing
Mixed == "mixed"                \* a file two requests have written to
Admin == "admin"                \* a caller that is no request

\* The names of requests are none of the values beside them, and each request
\* is of one kind.
MaintenanceAssumption ==
  /\ None \notin Jobs /\ Admin \notin Jobs /\ First \notin Updates
  /\ Updates \cap Imports = {}

VARIABLES
  core,      \* the file that the running core was started from
  manual,    \* isManuallyStopped
  starting,  \* who is in RestartXray, between the stop and the start
  due,       \* a call of RestartXray by somebody else: "no", "soft", "force"
  zip, bin,  \* the files at the two paths
  zipped, binary, \* what each file holds
  noted,     \* xray-version.txt
  open,      \* the connection of database.GetDB
  tables,    \* "old", "new", "mixed" or "empty" when there are any
  req,
  asks, exits, faults, kills,
  by,        \* ghost: who has stopped the core last
  excuses    \* ghost: why core, binary and database may be at odds

files == <<zip, bin, zipped, binary, noted>>
database == <<open, tables>>
counts == <<asks, exits, faults, kills>>
vars == <<core, manual, starting, due, files, database, req, counts, by, excuses>>

NewReq == [pc |-> "new", was |-> FALSE, zip |-> None, bin |-> None]
Ended == {"new", "done", "failed", "killed"}
AtWork == {r \in Jobs : req[r].pc \notin Ended}
Running == core # None

Init ==
  /\ core = First /\ manual = FALSE /\ starting = None /\ due = "no"
  /\ zip = None /\ bin = First
  /\ zipped = [v \in Updates |-> None]
  /\ binary = [v \in Versions |-> IF v = First THEN First ELSE None]
  /\ noted = First /\ open = TRUE /\ tables = "old"
  /\ req = [r \in Jobs |-> NewReq]
  /\ asks = 0 /\ exits = 0 /\ faults = 0 /\ kills = 0
  /\ by = None /\ excuses = {}

Fault == faults < MaxFaults /\ faults' = faults + 1
Goto(r, pc) == req' = [req EXCEPT ![r].pc = pc]

-----------------------------------------------------------------------------
(* The core.                                                               *)

\* A binary that is not whole, or that somebody is writing to, does not start.
Started == IF bin # None /\ binary[bin] \in Versions THEN bin ELSE None

\* GetXrayConfig needs the tables.
Readable == open /\ tables # None

StopXray(who) ==
  /\ starting = None
  /\ core' = None /\ manual' = TRUE /\ by' = who

\* RestartXray, up to the stop; isManuallyStopped is cleared even if it fails.
Restart(who, force) ==
  /\ starting = None /\ manual' = FALSE
  /\ IF Readable /\ (force \/ ~Running) THEN core' = None /\ starting' = who
     ELSE UNCHANGED <<core, starting>>

\* StopXrayService and RestartXray, called by the administrator or a job; and
\* the crash check, which looks before it waits for the lock.
AskStop ==
  /\ Running /\ asks < MaxAsks /\ asks' = asks + 1
  /\ StopXray(Admin)
  /\ UNCHANGED <<starting, due, files, database, req, exits, faults, kills, excuses>>

AskRestart ==
  /\ due = "no" /\ asks < MaxAsks /\ asks' = asks + 1
  /\ due' \in {"soft", "force"}
  /\ UNCHANGED <<core, manual, starting, files, database, req, exits, faults, kills, by,
                 excuses>>

CrashSeen ==
  /\ due = "no" /\ ~Running /\ ~manual
  /\ due' = "soft"
  /\ UNCHANGED <<core, manual, starting, files, database, req, counts, by, excuses>>

JobRestart ==
  /\ due # "no" /\ due' = "no"
  /\ Restart(Admin, due = "force")
  /\ UNCHANGED <<files, database, req, counts, by, excuses>>

JobStart ==
  /\ starting = Admin /\ starting' = None /\ core' = Started
  /\ UNCHANGED <<manual, due, files, database, req, counts, by, excuses>>

CoreExit ==
  /\ Running /\ exits < MaxExits /\ exits' = exits + 1
  /\ core' = None
  /\ UNCHANGED <<manual, starting, due, files, database, req, asks, faults, kills, by,
                 excuses>>

-----------------------------------------------------------------------------
(* Both requests.                                                          *)

\* Only a running core is stopped, and only then will an update start it.
Begin(r) ==
  /\ req[r].pc = "new"
  /\ req' = [req EXCEPT ![r].was = Running,
                        ![r].pc = IF Running THEN "stop"
                                  ELSE IF r \in Updates THEN "fetch" ELSE "clear"]
  /\ excuses' = IF r \in Imports /\ AtWork \cap Imports # {} THEN excuses \cup {"both"}
                ELSE excuses
  /\ UNCHANGED <<core, manual, starting, due, files, database, counts, by>>

\* The core may have gone since: whether UpdateXray then calls StopXray at all
\* depends on when it looked again.
Stop(r) ==
  /\ req[r].pc = "stop"
  /\ Goto(r, IF r \in Updates THEN "fetch" ELSE "clear")
  /\ \/ StopXray(r)
     \/ r \in Updates /\ ~Running /\ UNCHANGED <<core, manual, by>>
  /\ UNCHANGED <<starting, due, files, database, counts, excuses>>

\* An error is returned; the archive is removed once it has been downloaded.
GivesUp(r) ==
  /\ Goto(r, "failed")
  /\ zip' = IF req[r].pc \in {"read", "unlink", "create", "extract", "note", "start", "started"}
            THEN None ELSE zip
  /\ excuses' = excuses
       \cup (IF req[r].pc \in {"create", "extract"} THEN {"broken"} ELSE {})
       \cup (IF req[r].pc = "start" THEN {"unstarted"} ELSE {})

\* Mutants: an update looks again whether the core runs; it asks for a restart
\* that may not happen; the tables are left for the dump to replace.
IfRunning(r) == r \in Imports \/ Running
NotForced == FALSE
LeftToPsql == tables

\* RestartXray(true): of an update that has stopped the core, and of every import.
MustStart(r) == r \in Imports \/ req[r].was
Forced == TRUE

StartAgain(r) ==
  /\ req[r].pc = "start"
  /\ IF MustStart(r)
     THEN /\ Restart(r, Forced)
          /\ IF Readable
             THEN /\ Goto(r, IF starting' = r THEN "started" ELSE "end")
                  /\ UNCHANGED <<zip, excuses>>
             ELSE GivesUp(r)
     ELSE Goto(r, "end") /\ UNCHANGED <<core, manual, starting, zip, excuses>>
  /\ UNCHANGED <<due, bin, zipped, binary, noted, database, counts, by>>

StartedAgain(r) ==
  /\ starting = r /\ starting' = None /\ core' = Started
  /\ IF core' # None THEN Goto(r, "end") /\ UNCHANGED <<zip, excuses>> ELSE GivesUp(r)
  /\ UNCHANGED <<manual, due, bin, zipped, binary, noted, database, counts, by>>

-----------------------------------------------------------------------------
(* UpdateXray.                                                             *)

Kept == <<core, manual, starting, due, database, asks, exits, kills, by>>

\* Somebody is writing to the file f, of those that "field" names.
Writing(f, field, pc) == \E v \in Updates : req[v].pc = pc /\ req[v][field] = f

\* os.Create: an empty file, or the one another request has just created.
Created(contents, f, field, pc) ==
  [contents EXCEPT ![f] = IF Writing(f, field, pc) THEN Mixed ELSE Part]

Filled(contents, f, with) == [contents EXCEPT ![f] = IF @ = Mixed THEN Mixed ELSE with]

\* downloadXRay, once the server has answered.
Fetch(u) ==
  /\ req[u].pc = "fetch"
  /\ \/ Fault /\ GivesUp(u)
     \/ zip' = None /\ Goto(u, "zip") /\ UNCHANGED <<faults, excuses>>
  /\ UNCHANGED <<bin, zipped, binary, noted, Kept>>

CreateZip(u) ==
  /\ req[u].pc = "zip"
  /\ LET f == IF zip = None THEN u ELSE zip
     IN /\ zip' = f /\ zipped' = Created(zipped, f, "zip", "download")
        /\ req' = [req EXCEPT ![u].pc = "download", ![u].zip = f]
  /\ UNCHANGED <<bin, binary, noted, faults, excuses, Kept>>

\* The transfer breaks off; or it is an error page that is saved, as the status
\* is not looked at.
Download(u) ==
  /\ req[u].pc = "download"
  /\ \/ zipped' = Filled(zipped, req[u].zip, u) /\ Goto(u, "read") /\ UNCHANGED <<faults, zip, excuses>>
     \/ Fault /\ GivesUp(u) /\ UNCHANGED zipped
     \/ Fault /\ Goto(u, "read") /\ UNCHANGED <<zipped, zip, excuses>>
  /\ UNCHANGED <<bin, binary, noted, Kept>>

\* zip.NewReader finds no archive in a file that is not whole.
ReadZip(u) ==
  /\ req[u].pc = "read"
  /\ \/ zip # None /\ zipped[zip] # Part
        /\ req' = [req EXCEPT ![u].pc = "unlink", ![u].zip = zip] /\ UNCHANGED <<zip, excuses>>
     \/ zip = None /\ GivesUp(u)
     \/ zip # None /\ zipped[zip] \in {Part, Mixed} /\ GivesUp(u)
  /\ UNCHANGED <<bin, zipped, binary, noted, faults, Kept>>

Unlink(u) ==
  /\ req[u].pc = "unlink"
  /\ bin' = None /\ Goto(u, "create")
  /\ UNCHANGED <<zip, zipped, binary, noted, faults, excuses, Kept>>

\* A binary that runs cannot be opened for writing.
CreateBin(u) ==
  /\ req[u].pc = "create"
  /\ \/ LET f == IF bin = None THEN u ELSE bin
        IN /\ f # core /\ bin' = f /\ binary' = Created(binary, f, "bin", "extract")
           /\ req' = [req EXCEPT ![u].pc = "extract", ![u].bin = f]
           /\ excuses' = IF bin = None THEN excuses ELSE excuses \cup {"shared"}
           /\ UNCHANGED <<zip, faults>>
     \/ bin # None /\ bin = core /\ GivesUp(u) /\ UNCHANGED <<bin, binary, faults>>
     \/ Fault /\ GivesUp(u) /\ UNCHANGED <<bin, binary>>
  /\ UNCHANGED <<zipped, noted, Kept>>

\* The checksum of what is read from the archive is verified at its end.
Extract(u) ==
  LET content == zipped[req[u].zip]
  IN /\ req[u].pc = "extract"
     /\ \/ /\ content \in Versions /\ binary' = Filled(binary, req[u].bin, content)
           /\ Goto(u, "note") /\ UNCHANGED <<zip, faults>>
           /\ excuses' = IF content = u THEN excuses ELSE excuses \cup {"swapped"}
        \/ content \notin Versions /\ GivesUp(u) /\ UNCHANGED <<binary, faults>>
        \/ Fault /\ GivesUp(u) /\ UNCHANGED binary
     /\ UNCHANGED <<bin, zipped, noted, Kept>>

NoteVersion(u) ==
  /\ req[u].pc = "note"
  /\ noted' = u /\ Goto(u, "start")
  /\ excuses' = IF bin = req[u].bin THEN excuses ELSE excuses \cup {"disorder"}
  /\ UNCHANGED <<zip, bin, zipped, binary, faults, Kept>>

\* A core that was not running then may run by now, from the binary before.
EndUpdate(u) ==
  /\ req[u].pc = "end" /\ u \in Updates
  /\ zip' = None /\ Goto(u, "done")
  /\ excuses' = IF ~req[u].was /\ core \notin {None, bin} THEN excuses \cup {"unseen"}
                ELSE excuses
  /\ UNCHANGED <<bin, zipped, binary, noted, faults, Kept>>

-----------------------------------------------------------------------------
(* ImportDB.                                                               *)

Rest == <<core, manual, starting, due, files, asks, exits, kills, by, excuses>>

\* Every table is dropped; a failure is logged.
Cleared == None
ClearTables(i) ==
  /\ req[i].pc = "clear" /\ Goto(i, "close")
  /\ \/ open /\ tables' = Cleared /\ UNCHANGED faults
     \/ ~open /\ UNCHANGED <<tables, faults>>
     \/ Fault /\ UNCHANGED tables
  /\ UNCHANGED <<open, Rest>>

CloseDB(i) ==
  /\ req[i].pc = "close" /\ Goto(i, "psql")
  /\ open' = FALSE
  /\ UNCHANGED <<tables, faults, Rest>>

\* psql goes on after errors.  Only an end with an error and certain words in
\* its output stops the import, which then returns without a connection.
Psql(i) ==
  /\ req[i].pc = "psql"
  /\ \/ tables' = (IF tables = None THEN "new" ELSE "mixed")
        /\ Goto(i, "init") /\ UNCHANGED faults
     \/ Fault /\ tables' \in {tables, "mixed"} /\ \E pc \in {"init", "failed"} : Goto(i, pc)
  /\ UNCHANGED <<open, Rest>>

\* InitDB connects and creates the tables that are missing.
InitDB(i) ==
  /\ req[i].pc = "init"
  /\ \/ /\ open' = TRUE /\ tables' = (IF tables = None THEN "empty" ELSE tables)
        /\ Goto(i, "start") /\ UNCHANGED faults
     \/ Fault /\ open' \in BOOLEAN /\ Goto(i, "failed") /\ UNCHANGED tables
  /\ UNCHANGED Rest

\* The panel's process ends: three seconds after an import, or at any time.
\* The next one connects, and starts the core.
Reboot ==
  /\ \/ \E i \in Imports : req[i].pc = "end" /\ UNCHANGED kills
     \/ kills < MaxKills /\ kills' = kills + 1
  /\ core' = None /\ manual' = FALSE /\ starting' = None /\ due' = "force"
  /\ open' = TRUE /\ tables' = IF tables = None THEN "empty" ELSE tables
  /\ req' = [r \in Jobs |->
               IF req[r].pc \in Ended THEN req[r]
               ELSE [req[r] EXCEPT !.pc = IF r \in Imports /\ @ = "end" THEN "done" ELSE "killed"]]
  /\ excuses' = excuses \cup
       (IF \E u \in Updates : req[u].pc \in {"create", "extract"} THEN {"broken"} ELSE {})
       \cup (IF \E u \in Updates : req[u].pc = "note" THEN {"unnoted"} ELSE {})
  /\ UNCHANGED <<files, asks, exits, faults, by>>

-----------------------------------------------------------------------------
Next ==
  \/ AskStop \/ AskRestart \/ CrashSeen \/ JobRestart \/ JobStart \/ CoreExit \/ Reboot
  \/ \E r \in Jobs : Begin(r) \/ Stop(r) \/ StartAgain(r) \/ StartedAgain(r)
  \/ \E u \in Updates :
       \/ Fetch(u) \/ CreateZip(u) \/ Download(u) \/ ReadZip(u) \/ Unlink(u)
       \/ CreateBin(u) \/ Extract(u) \/ NoteVersion(u) \/ EndUpdate(u)
  \/ \E i \in Imports : ClearTables(i) \/ CloseDB(i) \/ Psql(i) \/ InitDB(i)

Spec == Init /\ [][Next]_vars

-----------------------------------------------------------------------------
Quiet == AtWork = {} /\ due = "no" /\ starting = None

TypeOK ==
  /\ core \in Versions \cup {None} /\ bin \in Versions \cup {None} /\ zip \in Updates \cup {None}
  /\ starting \in Jobs \cup {Admin, None} /\ tables \in {None, "old", "new", "mixed", "empty"}
  /\ binary \in [Versions -> Versions \cup {None, Part, Mixed}]

(* A core that stays stopped was stopped by the administrator, or by a     *)
(* request that is still at work or has failed, however stops, restarts    *)
(* and requests overlap (server.go:1076, 1811).                            *)
StoppedForAReason == manual => by = Admin \/ req[by].pc \notin {"new", "done"}

(* At rest there is a whole binary, the one the version file names, and a  *)
(* core that runs was started from it: however updates overlap with each   *)
(* other, with stops, restarts and crashes, but for these reasons          *)
(* (server.go:1076-1156).  An update failed or was cut off between the     *)
(* removal of the old binary and the end of the new one; two wrote to one  *)
(* file; one unpacked the archive of another; one noted its version when   *)
(* another had removed its binary, or was cut off before it did; one found *)
(* no core to stop, and somebody started the old one before it was done;   *)
(* one could not start the core in the end, without the database.          *)
RunsWhatIsInstalled ==
  Quiet /\ excuses \subseteq {"both"} =>
    /\ bin # None /\ binary[bin] = noted
    /\ Running => core = bin

(* At rest the panel has its database, the one before or the one restored, *)
(* unless something failed or two dumps were restored at once              *)
(* (server.go:1764).                                                       *)
DatabaseIsThere ==
  Quiet /\ faults = 0 /\ "both" \notin excuses /\ (\A i \in Imports : req[i].pc # "killed") =>
    open /\ tables \in {"old", "new"}

(* The three together: whoever takes the core away gives it back.          *)
CoreGivenBack == StoppedForAReason /\ RunsWhatIsInstalled /\ DatabaseIsThere

-----------------------------------------------------------------------------
(* What makes them inductive.                                              *)

Clean == excuses \subseteq {"both"}

\* An update that has removed or will remove what the core runs from, and that
\* then starts the core, or finds that it runs (EndUpdate).
Replacing(u) ==
  \/ req[u].pc \in {"create", "extract", "note", "start"}
  \/ req[u].pc = "end" /\ ~req[u].was

\* The binary at the path is the one u has created, and how far it is with it.
InPlace(u) ==
  /\ req[u].bin = u
  /\ \/ req[u].pc = "extract"
     \/ req[u].pc = "note" /\ binary[u] = u
     \/ /\ req[u].pc \in {"start", "started", "end", "done", "failed", "killed"}
        /\ binary[u] = u /\ noted = u

Installing ==
  /\ starting # None => core = None
  /\ Clean =>
       /\ bin = None => \E u \in Updates : req[u].pc = "create"
       /\ bin = First => binary[First] = First /\ noted = First
       /\ bin \in Updates => InPlace(bin)
       /\ \A u \in Updates : /\ req[u].pc = "extract" => req[u].bin = u /\ binary[u] = Part
                             /\ req[u].pc = "note" => req[u].bin = u
       /\ core \notin {None, bin} => \E u \in Updates : Replacing(u)

\* The database while a restore is at pc.
At(pc) ==
  \/ pc \in {"stop", "clear"} /\ open /\ tables \in {"old", "new"}
  \/ pc = "close" /\ open /\ tables = None
  \/ pc = "psql" /\ ~open /\ tables = None
  \/ pc = "init" /\ ~open /\ tables = "new"
  \/ pc \in {"start", "started", "end"} /\ open /\ tables = "new"

Undisturbed ==
  faults = 0 /\ "both" \notin excuses /\ \A i \in Imports : req[i].pc # "killed"

Restoring ==
  Undisturbed =>
    /\ \A i, j \in AtWork \cap Imports : i = j
    /\ \A i \in AtWork \cap Imports : At(req[i].pc)
    /\ AtWork \cap Imports = {} => open /\ tables \in {"old", "new"}
=============================================================================
