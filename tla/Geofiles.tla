------------------------------- MODULE Geofiles -------------------------------
(***************************************************************************)
(* One of the two routing databases of the cores (geoip.dat, geosite.dat), *)
(* its copy on the panel and on each worker, and the requests that replace *)
(* it:                                                                     *)
(*                                                                         *)
(*   web/service/server.go   UploadGeofile, RollbackGeofile, UpdateGeofile *)
(*   web/service/geofile_asset.go   ApplyGeofileAsset                      *)
(*   web/service/node.go     UploadGeofileToNode, RollbackGeofileOnNode    *)
(*   node/api/server.go      uploadGeofile, rollbackGeofile                *)
(*                                                                         *)
(* A request changes the panel's copy, has the panel's core restarted, and *)
(* then goes through the workers.  On each site the change is a sequence   *)
(* of renames, one step each here; nothing keeps two requests apart, and   *)
(* the process may end between any two steps.  A new upload keeps the file *)
(* it replaces as the backup, a rollback exchanges the two.                *)
(***************************************************************************)
EXTENDS Naturals, FiniteSets, Functions

CONSTANTS
  Requests,
  Nodes,      \* the enabled workers; none in single mode
  Contents,   \* what can be uploaded
  Default,    \* what the image brought
  MaxFaults   \* restarts that fail, workers not reached, ends of the process

None == "none"   \* no such file
Torn == "torn"   \* a file written in part

Panel == "panel"
Sites == {Panel} \cup Nodes

\* Where the file is read by a core: the panel has one in single mode only.
Cores == IF Nodes = {} THEN {Panel} ELSE Nodes

\* What an instance has to fulfil: the panel is no worker, and a missing or a
\* torn file is none of those that are uploaded or come with the image.
GeofilesAssumption ==
  /\ Panel \notin Nodes /\ MaxFaults \in Nat
  /\ {None, Torn} \cap (Contents \cup {Default}) = {}

VARIABLES
  live,      \* of each site: the file
  backup,    \* of each site: the .bak file
  loaded,    \* of each core's site: the file its core has read
  req,       \* of each request: its work, NoWork when it has none
  faults,
  overlap,   \* ghost: two requests have been on this site at a time, or one
             \* was cut off there
  written,   \* ghost: sites where a file written in place became the live one
  previous,  \* ghost: what the last change of the site should be undone to
  failed     \* ghost: sites a request has reported as failed, or not reported

vars == <<live, backup, loaded, req, faults, overlap, written, previous, failed>>

NoWork == [kind |-> "none", new |-> None, site |-> Panel, pc |-> "idle", swap |-> None,
           left |-> {}]

Init ==
  /\ live = [s \in Sites |-> IF s = Panel THEN None ELSE Default]
  /\ backup = [s \in Sites |-> None]
  /\ loaded = live
  /\ req = [r \in Requests |-> NoWork]
  /\ faults = 0
  /\ overlap = {} /\ written = {} /\ failed = {}
  /\ previous = [s \in Sites |-> None]

Busy(s) == {r \in Requests : req[r].pc # "idle" /\ req[r].site = s}

\* A request comes to the site s, at its step pc.
Enter(r, q, s, pc) ==
  /\ req' = [req EXCEPT ![r] = [q EXCEPT !.site = s, !.pc = pc, !.swap = None]]
  /\ overlap' = IF Busy(s) \ {r} = {} THEN overlap ELSE overlap \cup {s}

Goto(r, pc) == req' = [req EXCEPT ![r].pc = pc]

\* The first step of each kind of request on a site.
Entry == [upload |-> "shift", rollback |-> "swap", update |-> "truncate"]

Start(r, kind, c) ==
  /\ req[r].pc = "idle"
  /\ Enter(r, [NoWork EXCEPT !.kind = kind, !.new = c,
                              !.left = IF kind = "update" THEN {} ELSE Nodes],
           Panel, Entry[kind])
  /\ UNCHANGED <<live, backup, loaded, faults, written, previous, failed>>

-------------------------------------------------------------------------------
(* saveGeofileWithBackup and writeNodeGeofileWithBackup: the content is in *)
(* a file of the request's own; the present one becomes the backup.  On    *)
(* the panel, where there is none at first, the image's file is copied.    *)

\* The panel's first backup is copied from the image's file, in place.
\* (Mutant: it is not made.)
NoCopy(s) == FALSE
Copied(s) == s = Panel /\ live[s] = None

Shift(r) ==
  LET s == req[r].site IN
  /\ req[r].pc = "shift"
  /\ IF live[s] # None
       THEN /\ backup' = [backup EXCEPT ![s] = live[s]]
            /\ live' = [live EXCEPT ![s] = None]
            /\ Goto(r, "activate")
       ELSE /\ backup' = IF Copied(s) THEN [backup EXCEPT ![s] = Torn] ELSE backup
            /\ Goto(r, IF Copied(s) THEN "fill" ELSE "activate")
            /\ UNCHANGED live
  /\ previous' = [previous EXCEPT ![s] =
                    IF live[s] = None /\ s = Panel THEN Default ELSE live[s]]
  /\ UNCHANGED <<loaded, faults, overlap, written, failed>>

\* The copy is completed under whatever name it has by now.
Fill(r) ==
  LET full(f) == IF f[Panel] = Torn THEN [f EXCEPT ![Panel] = Default] ELSE f IN
  /\ req[r].pc = "fill"
  /\ backup' = full(backup) /\ live' = full(live)
  /\ Goto(r, "activate")
  /\ UNCHANGED <<loaded, faults, overlap, written, previous, failed>>

\* The request's own file is renamed over the live one, whole.
Renamed(r) == {req[r].new}

Activate(r) ==
  LET s == req[r].site IN
  /\ req[r].pc = "activate"
  /\ live' \in {[live EXCEPT ![s] = c] : c \in Renamed(r)}
  /\ Goto(r, "restart")
  /\ UNCHANGED <<backup, loaded, faults, overlap, written, previous, failed>>

-------------------------------------------------------------------------------
(* rollbackLocalGeofile and rollbackNodeGeofile: the live file is put      *)
(* aside, the backup takes its place, the one put aside becomes the backup.*)

Fail(r, s) ==
  /\ failed' = failed \cup {s}
  /\ IF s = Panel THEN req' = [req EXCEPT ![r] = NoWork] ELSE Goto(r, "next")

Swap(r) ==
  LET s == req[r].site IN
  /\ req[r].pc = "swap"
  /\ IF backup[s] = None
       THEN Fail(r, s) /\ UNCHANGED <<live, previous>>
       ELSE /\ live' = [live EXCEPT ![s] = None]
            /\ previous' = [previous EXCEPT ![s] = live[s]]
            /\ req' = [req EXCEPT ![r].swap = live[s], ![r].pc = "restore"]
            /\ UNCHANGED failed
  /\ UNCHANGED <<backup, loaded, faults, overlap, written>>

\* If another request has taken the backup meanwhile, what was put aside comes
\* back.
Restore(r) ==
  LET s == req[r].site IN
  /\ req[r].pc = "restore"
  /\ IF backup[s] = None
       THEN /\ live' = [live EXCEPT ![s] = IF req[r].swap = None THEN @ ELSE req[r].swap]
            /\ Fail(r, s) /\ UNCHANGED backup
       ELSE /\ live' = [live EXCEPT ![s] = backup[s]]
            /\ backup' = [backup EXCEPT ![s] = None]
            /\ Goto(r, IF req[r].swap = None THEN "restart" ELSE "keep")
            /\ UNCHANGED failed
  /\ written' = IF backup[s] = Torn THEN written \cup {s} ELSE written
  /\ UNCHANGED <<loaded, faults, overlap, previous>>

Keep(r) ==
  /\ req[r].pc = "keep"
  /\ backup' = [backup EXCEPT ![req[r].site] = req[r].swap]
  /\ Goto(r, "restart")
  /\ UNCHANGED <<live, loaded, faults, overlap, written, previous, failed>>

-------------------------------------------------------------------------------
(* UpdateGeofile creates the live file anew and copies the download into   *)
(* it; whatever comes of that, the core is restarted.  No backup is made,  *)
(* and no worker is told.                                                  *)

Truncate(r) ==
  /\ req[r].pc = "truncate"
  /\ \/ live' = [live EXCEPT ![Panel] = Torn] /\ written' = written \cup {Panel}
        /\ Goto(r, "copy")
     \/ Goto(r, "restart") /\ UNCHANGED <<live, written>>
  /\ UNCHANGED <<backup, loaded, faults, overlap, previous, failed>>

Copy(r) ==
  /\ req[r].pc = "copy"
  /\ \/ live' = [live EXCEPT ![Panel] = req[r].new]
     \/ UNCHANGED live
  /\ Goto(r, "restart")
  /\ UNCHANGED <<backup, loaded, faults, overlap, written, previous, failed>>

-------------------------------------------------------------------------------
(* The core is restarted and reads the live file; then the next worker.    *)

\* What has been changed has to be read again.  (Mutant: a rollback forgets.)
UploadsOnly(r) == req[r].kind # "rollback"
MustRestart(r) == req[r].kind # "none"

RestartCore(r) ==
  LET s == req[r].site IN
  /\ req[r].pc = "restart"
  /\ \/ /\ loaded' = IF MustRestart(r) THEN [loaded EXCEPT ![s] = live[s]] ELSE loaded
        /\ Goto(r, "next")
        /\ UNCHANGED <<faults, failed>>
     \/ /\ faults < MaxFaults /\ faults' = faults + 1
        /\ Fail(r, s) /\ UNCHANGED loaded
  /\ UNCHANGED <<live, backup, overlap, written, previous>>

\* The next worker, if any; one that cannot be reached is passed over.
NextNode(r, n) ==
  /\ req[r].pc = "next" /\ n \in req[r].left
  /\ LET q == [req[r] EXCEPT !.left = @ \ {n}] IN
       \/ /\ Enter(r, q, n, Entry[q.kind])
          /\ UNCHANGED <<faults, failed>>
       \/ /\ faults < MaxFaults /\ faults' = faults + 1
          /\ req' = [req EXCEPT ![r] = q]
          /\ failed' = failed \cup {n} /\ UNCHANGED overlap
  /\ UNCHANGED <<live, backup, loaded, written, previous>>

Finish(r) ==
  /\ req[r].pc = "next" /\ req[r].left = {}
  /\ req' = [req EXCEPT ![r] = NoWork]
  /\ UNCHANGED <<live, backup, loaded, faults, overlap, written, previous, failed>>

\* The process on a site ends, and with it the requests at work there.  When
\* it is the panel, what a worker has begun goes on, and no other follows.  A
\* worker that comes back downloads a file that is missing; a new core reads
\* the file there is.
End(s) ==
  LET gone == Busy(s)
      cut(q) == IF s # Panel THEN {} ELSE q.left IN
  /\ faults < MaxFaults /\ faults' = faults + 1
  /\ req' = [r \in Requests |->
               IF r \notin gone THEN [req[r] EXCEPT !.left = @ \ cut(req[r])]
               ELSE IF s = Panel THEN NoWork ELSE [req[r] EXCEPT !.pc = "next"]]
  /\ failed' = failed \cup UNION {cut(req[r]) : r \in Requests}
                      \cup (IF gone = {} THEN {} ELSE {s})
  /\ overlap' = IF gone = {} THEN overlap ELSE overlap \cup {s}
  /\ live' = IF s # Panel /\ live[s] = None THEN [live EXCEPT ![s] = Default] ELSE live
  /\ loaded' = [loaded EXCEPT ![s] = live'[s]]
  /\ UNCHANGED <<backup, written, previous>>

Next ==
  \/ \E r \in Requests :
       \/ \E c \in Contents : Start(r, "upload", c) \/ Start(r, "update", c)
       \/ Start(r, "rollback", None)
       \/ Shift(r) \/ Fill(r) \/ Activate(r) \/ Swap(r) \/ Restore(r) \/ Keep(r)
       \/ Truncate(r) \/ Copy(r) \/ RestartCore(r) \/ Finish(r)
       \/ \E n \in Nodes : NextNode(r, n)
  \/ \E s \in Sites : End(s)

Spec == Init /\ [][Next]_vars

-------------------------------------------------------------------------------
(* Properties *)

Files == Contents \cup {Default, None, Torn}

TypeOK ==
  /\ live \in [Sites -> Files] /\ backup \in [Sites -> Files] /\ loaded \in [Sites -> Files]
  /\ previous \in [Sites -> Files]
  /\ \A r \in Requests :
       req[r].pc \in {"idle", "shift", "fill", "activate", "swap", "restore", "keep", "truncate",
                      "copy", "restart", "next"}
  /\ faults \in 0 .. MaxFaults

\* However requests interleave and wherever one is cut off, a core never finds
\* a half-written file, but for the two that are written in place: what
\* UpdateGeofile downloads, and the first backup when a rollback takes it
\* (saveGeofileWithBackup, "replace geofile atomically").
NeverTorn == \A s \in Sites : live[s] = Torn => s \in written

\* Once no request is at work on a site and none has failed there, its core
\* has read the file that is there, even if requests overlapped: whoever
\* renames last restarts last or has his file read by the other's restart.
CoreReadsTheFile ==
  \A s \in Cores : Busy(s) = {} /\ s \notin failed => loaded[s] = live[s]

\* A change can be undone: unless requests overlapped on the site or one was
\* cut off there, the backup is what the last upload or rollback replaced.
CanBeUndone ==
  \A s \in Sites : Busy(s) = {} /\ s \notin overlap \cup written \cup failed => backup[s] = previous[s]

GeofilesInOrder == NeverTorn /\ CoreReadsTheFile /\ CanBeUndone

-------------------------------------------------------------------------------
(* What makes GeofilesInOrder inductive (MaintenanceProofs).               *)

Steps == {"idle", "shift", "fill", "activate", "swap", "restore", "keep", "truncate",
          "copy", "restart", "next"}
Work == [kind : {"none", "upload", "rollback", "update"}, new : Contents \cup {None},
         site : Sites, pc : Steps, swap : Files, left : SUBSET Nodes]

\* What each kind of request does, and where.
WellFormed(q) ==
  /\ q.pc # "idle" => q.kind # "none"
  /\ q.pc \in {"shift", "fill", "activate"} => q.kind = "upload"
  /\ q.pc \in {"truncate", "copy"} => q.kind = "update"
  /\ q.pc \in {"fill", "truncate", "copy"} => q.site = Panel
  /\ q.kind \in {"upload", "update"} => q.new \in Contents
  /\ q.kind = "update" => q.left = {}
Shapes == req \in [Requests -> Work] /\ \A r \in Requests : WellFormed(req[r])

\* Nobody has a torn file put aside but where one was written in place.
Whole == NeverTorn /\ \A r \in Requests : req[r].swap = Torn => req[r].site \in written

\* Whoever has changed a file, or may, will have it read or report a failure.
Changing(s) == {r \in Requests : req[r].site = s /\ req[r].pc \notin {"idle", "next"}}
WillBeRead ==
  \A s \in Sites : loaded[s] = live[s] \/ s \in failed \/ Changing(s) # {}

\* A request by itself on a site: what it has done so far can be undone, and
\* a worker's file is missing only where it is being replaced.
Undoable(s) ==
  /\ \A r, q \in Busy(s) : r = q
  /\ s # Panel /\ (\A r \in Busy(s) : req[r].pc \notin {"activate", "restore"}) => live[s] # None
  /\ (\A r \in Busy(s) : req[r].pc \notin {"fill", "restore", "keep"}) => backup[s] = previous[s]
  /\ \A r \in Busy(s) :
       /\ req[r].pc = "fill" => backup[s] = Torn /\ previous[s] = Default /\ live[s] = None
       /\ req[r].pc = "restore" => backup[s] # None /\ live[s] = None /\ previous[s] = req[r].swap
       /\ req[r].pc = "keep" => previous[s] = req[r].swap

OneByOne ==
  /\ \A s \in Sites \ (overlap \cup written \cup failed) : Undoable(s)
  /\ \A r \in Requests : req[r].pc = "copy" => req[r].site \in written

FilesInv == TypeOK /\ Shapes /\ Whole /\ WillBeRead /\ OneByOne
===============================================================================
