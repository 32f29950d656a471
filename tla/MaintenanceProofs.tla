-------------------------- MODULE MaintenanceProofs --------------------------
(***************************************************************************)
(* Proof that, in Maintenance, a core never stays stopped without a reason *)
(* (StoppedForAReason); that it runs what is installed, and that the       *)
(* database is there, where nothing failed (with it, CoreGivenBack): for   *)
(* any numbers of updates, dumps, stops, restarts, exits, failures and     *)
(* ends of the panel.                                                      *)
(*                                                                         *)
(* Neither is inductive: they say nothing of a request that has stopped    *)
(* the core and reaches its end.  That such a request passes by            *)
(* RestartXray there follows from what it remembers, and from RestartXray  *)
(* being held by one caller at a time; Held has both.  GivingBack adds     *)
(* what an installation and a restore have in their hands at each step     *)
(* (Installing, Restoring).                                                *)
(*                                                                         *)
(* And proof of GeofilesInOrder in Geofiles, from what is inductive there  *)
(* (FilesInv): whoever has changed a file will have it read or reports a   *)
(* failure, nobody puts a torn file aside but where one was written in     *)
(* place, and a request by itself on a site can undo its step so far.      *)
(*                                                                         *)
(* And proof of what Wireguard promises, from TunnelInv: what a handler    *)
(* holds is as good as what it is to replace, and whoever is alone has the *)
(* inbound as it is and the clients as they are in hand.                   *)
(***************************************************************************)
EXTENDS Maintenance, Sequences, FiniteSetTheorems, TLAPS

\* Where a request is that may have stopped the core and not started it.
Holding == {"fetch", "zip", "download", "read", "unlink", "create", "extract", "note",
            "start", "clear", "close", "psql", "init", "failed", "killed"}

Phases == Holding \cup {"new", "stop", "started", "end", "done"}

Paths == Versions \cup {None}

ReqState == [pc : Phases, was : BOOLEAN, zip : Paths, bin : Paths]

Types == zip \in Paths /\ bin \in Paths /\ req \in [Jobs -> ReqState]

Remembers == \A r \in Jobs : req[r].pc = "stop" => req[r].was

Starter == starting \in Jobs => req[starting].pc = "started"

Stopper ==
  manual => \/ by = Admin
            \/ by \in Jobs /\ MustStart(by) /\ req[by].pc \in Holding

Held == Types /\ Remembers /\ Starter /\ Stopper

\* A request goes on, and nothing else does.
Moves(r) ==
  /\ req' \in [Jobs -> ReqState]
  /\ \A s \in Jobs \ {r} : req'[s] = req[s]
  /\ req'[r].was = req[r].was

-----------------------------------------------------------------------------
\* A request in a new state.
LEMMA Replaced ==
  ASSUME Types, NEW r \in Jobs, NEW s \in ReqState, s.was = req[r].was,
         req' = [req EXCEPT ![r] = s]
  PROVE  Moves(r) /\ req'[r] = s
BY DEF Types, Moves

\* What Goto does to a request.
LEMMA GotoMoves ==
  ASSUME Types, NEW r \in Jobs, NEW pc \in Phases, req' = [req EXCEPT ![r].pc = pc]
  PROVE  Moves(r) /\ req'[r].pc = pc
<1> DEFINE s == [req[r] EXCEPT !.pc = pc]
<1>1. s \in ReqState /\ s.was = req[r].was /\ s.pc = pc
  BY DEF Types, ReqState
<1>2. req' = [req EXCEPT ![r] = s]
  OBVIOUS
<1> QED
  BY <1>1, <1>2, Replaced DEF Moves

\* A request that goes on without the lock keeps what Held says.
LEMMA WorkKeepsHeld ==
  ASSUME Held, NEW r \in Jobs, Moves(r), req[r].pc # "started", req'[r].pc \in Holding,
         zip' \in Paths, bin' \in Paths, UNCHANGED <<manual, starting, by>>
  PROVE  Held'
<1>1. Types'
  BY DEF Types, Moves
<1>2. Remembers'
  BY DEF Held, Remembers, Moves, Holding
<1>3. Starter'
  BY DEF Held, Starter, Moves
<1>4. Stopper'
  BY DEF Held, Stopper, Moves, MustStart
<1> QED
  BY <1>1, <1>2, <1>3, <1>4 DEF Held

\* StopXray and the first half of RestartXray, whoever calls them, change
\* nothing that Types and Remembers speak of.
LEMMA OthersKeepHeld ==
  ASSUME Held, None \notin Jobs, Admin \notin Jobs,
         UNCHANGED <<req, zip, bin>>,
         \/ UNCHANGED <<manual, starting, by>>
         \/ StopXray(Admin) /\ UNCHANGED starting
         \/ \E force \in BOOLEAN : Restart(Admin, force) /\ UNCHANGED by
         \/ starting' = None /\ UNCHANGED <<manual, by>>
  PROVE  Held'
<1>1. Types' /\ Remembers'
  BY DEF Held, Types, Remembers
<1>2. CASE UNCHANGED <<manual, starting, by>>
  BY <1>1, <1>2 DEF Held, Starter, Stopper, MustStart
<1>3. CASE StopXray(Admin) /\ UNCHANGED starting
  BY <1>1, <1>3 DEF Held, Starter, Stopper, StopXray
<1>4. CASE \E force \in BOOLEAN : Restart(Admin, force) /\ UNCHANGED by
  <2>1. ~manual' /\ (starting' = Admin \/ starting' = starting)
    BY <1>4 DEF Restart
  <2> QED
    BY <1>1, <2>1 DEF Held, Starter, Stopper
<1>5. CASE starting' = None /\ UNCHANGED <<manual, by>>
  BY <1>1, <1>5 DEF Held, Starter, Stopper, MustStart
<1> QED
  BY <1>2, <1>3, <1>4, <1>5

-----------------------------------------------------------------------------
\* The steps of an update but for the core.
LEMMA UpdateKeepsHeld ==
  ASSUME Held, NEW u \in Updates,
         \/ Fetch(u) \/ CreateZip(u) \/ Download(u) \/ ReadZip(u) \/ Unlink(u)
         \/ CreateBin(u) \/ Extract(u) \/ NoteVersion(u)
  PROVE  Held'
<1> USE DEF Kept
<1>1. u \in Jobs /\ u \in Paths /\ None \in Paths /\ zip \in Paths /\ bin \in Paths
      /\ Types /\ req[u] \in ReqState
  BY DEF Jobs, Paths, Versions, Held, Types
<1>2. ASSUME req[u].pc \notin {"start", "started"}, GivesUp(u), UNCHANGED <<bin, manual, starting, by>>
      PROVE  Held'
  <2>1. Goto(u, "failed") /\ zip' \in Paths /\ bin' \in Paths
    BY <1>1, <1>2 DEF GivesUp
  <2>2. Moves(u) /\ req'[u].pc = "failed"
    BY <1>1, <2>1, GotoMoves DEF Goto, Moves, Phases, Holding
  <2> QED
    BY <1>1, <1>2, <2>1, <2>2, WorkKeepsHeld DEF Moves, Holding
<1>3. ASSUME NEW pc \in Holding, req[u].pc # "started", Goto(u, pc), zip' \in Paths, bin' \in Paths,
             UNCHANGED <<manual, starting, by>>
      PROVE  Held'
  <2>1. Moves(u) /\ req'[u].pc = pc
    BY <1>1, <1>3, GotoMoves DEF Goto, Moves, Phases
  <2> QED
    BY <1>1, <1>3, <2>1, WorkKeepsHeld DEF Moves
<1>4. CASE Fetch(u)
  BY <1>1, <1>2, <1>3, <1>4 DEF Fetch, Holding
<1>5. CASE CreateZip(u)
  <2> DEFINE f == IF zip = None THEN u ELSE zip
             s == [req[u] EXCEPT !.pc = "download", !.zip = f]
  <2>2. s \in ReqState /\ s.was = req[u].was /\ s.pc = "download"
    BY <1>1 DEF ReqState, Phases, Holding
  <2>3. req' = [req EXCEPT ![u] = s] /\ zip' = f /\ UNCHANGED bin
    BY <1>5 DEF CreateZip
  <2>1. Moves(u) /\ req'[u].pc = "download" /\ zip' \in Paths /\ bin' \in Paths
    BY <1>1, <2>2, <2>3, Replaced DEF Moves
  <2> QED
    BY <1>1, <1>5, <2>1, WorkKeepsHeld DEF CreateZip, Moves, Holding
<1>6. CASE Download(u)
  BY <1>1, <1>2, <1>3, <1>6 DEF Download, Holding
<1>7. CASE ReadZip(u)
  <2>1. CASE GivesUp(u)
    BY <1>2, <1>7, <2>1 DEF ReadZip
  <2>2. CASE req' = [req EXCEPT ![u].pc = "unlink", ![u].zip = zip] /\ UNCHANGED zip
    <3> DEFINE s == [req[u] EXCEPT !.pc = "unlink", !.zip = zip]
    <3>2. s \in ReqState /\ s.was = req[u].was /\ s.pc = "unlink"
      BY <1>1 DEF ReqState, Phases, Holding
    <3>3. req' = [req EXCEPT ![u] = s] /\ UNCHANGED bin
      BY <1>7, <2>2 DEF ReadZip
    <3>1. Moves(u) /\ req'[u].pc = "unlink" /\ zip' \in Paths /\ bin' \in Paths
      BY <1>1, <2>2, <3>2, <3>3, Replaced DEF Moves
    <3> QED
      BY <1>1, <1>7, <3>1, WorkKeepsHeld DEF ReadZip, Moves, Holding
  <2> QED
    BY <1>7, <2>1, <2>2 DEF ReadZip
<1>8. CASE Unlink(u)
  BY <1>1, <1>3, <1>8 DEF Unlink, Holding
<1>9. CASE CreateBin(u)
  <2>1. CASE GivesUp(u) /\ UNCHANGED bin
    BY <1>2, <1>9, <2>1 DEF CreateBin
  <2>2. CASE \E f \in {u, bin} \cap Paths :
               /\ req' = [req EXCEPT ![u].pc = "extract", ![u].bin = f]
               /\ bin' = f /\ UNCHANGED zip
    <3>4. PICK f \in Paths :
               /\ req' = [req EXCEPT ![u].pc = "extract", ![u].bin = f]
               /\ bin' = f /\ UNCHANGED zip
      BY <2>2
    <3> DEFINE s == [req[u] EXCEPT !.pc = "extract", !.bin = f]
    <3>2. s \in ReqState /\ s.was = req[u].was /\ s.pc = "extract"
      BY <1>1 DEF ReqState, Phases, Holding
    <3>3. req' = [req EXCEPT ![u] = s]
      BY <3>4
    <3>1. Moves(u) /\ req'[u].pc = "extract" /\ zip' \in Paths /\ bin' \in Paths
      BY <1>1, <3>2, <3>3, <3>4, Replaced DEF Moves
    <3> QED
      BY <1>1, <1>9, <3>1, WorkKeepsHeld DEF CreateBin, Moves, Holding
  <2> QED
    BY <1>1, <1>9, <2>1, <2>2 DEF CreateBin, Types
<1>10. CASE Extract(u)
  BY <1>1, <1>2, <1>3, <1>10 DEF Extract, Holding
<1>11. CASE NoteVersion(u)
  BY <1>1, <1>3, <1>11 DEF NoteVersion, Holding
<1> QED
  BY <1>4, <1>5, <1>6, <1>7, <1>8, <1>9, <1>10, <1>11

\* The steps of a restore but for the core.
LEMMA ImportKeepsHeld ==
  ASSUME Held, NEW i \in Imports,
         ClearTables(i) \/ CloseDB(i) \/ Psql(i) \/ InitDB(i)
  PROVE  Held'
<1>1. PICK pc \in Holding : Goto(i, pc)
  BY DEF ClearTables, CloseDB, Psql, InitDB, Holding
<1>2. req[i].pc # "started" /\ UNCHANGED <<zip, bin, manual, starting, by>>
  BY DEF ClearTables, CloseDB, Psql, InitDB, Rest, files
<1>3. i \in Jobs /\ zip' \in Paths /\ bin' \in Paths
  BY <1>2 DEF Jobs, Held, Types
<1>4. Moves(i) /\ req'[i].pc = pc
  BY <1>1, <1>3, GotoMoves DEF Held, Goto, Moves, Phases
<1> QED
  BY <1>1, <1>2, <1>3, <1>4, WorkKeepsHeld DEF Moves

-----------------------------------------------------------------------------
\* A request looks whether the core runs; it remembers that it did.
LEMMA BeginKeepsHeld ==
  ASSUME Held, NEW r \in Jobs, Begin(r)
  PROVE  Held'
<1> DEFINE next == IF Running THEN "stop" ELSE IF r \in Updates THEN "fetch" ELSE "clear"
<1>1. /\ req[r].pc = "new" /\ UNCHANGED <<zip, bin, manual, starting, by>>
      /\ req' = [req EXCEPT ![r].was = Running, ![r].pc = next]
  BY DEF Begin, files
<1> DEFINE new == [req[r] EXCEPT !.was = Running, !.pc = next]
<1>6. new \in ReqState /\ new.was = Running /\ new.pc = next
  <2>1. req[r] \in ReqState /\ next \in Phases /\ Running \in BOOLEAN
    BY DEF Held, Types, Running, Phases, Holding
  <2> HIDE DEF next
  <2> QED
    BY <2>1 DEF ReqState
<1>7. req' = [req EXCEPT ![r] = new]
  BY <1>1
<1>2. /\ req'[r].was = Running /\ req'[r].pc = next
      /\ \A s \in Jobs \ {r} : req'[s] = req[s]
      /\ Types'
  BY <1>1, <1>6, <1>7 DEF Held, Types
<1>3. Remembers'
  BY <1>2 DEF Held, Remembers
<1>4. Starter'
  BY <1>1, <1>2 DEF Held, Starter
<1>5. Stopper'
  BY <1>1, <1>2 DEF Held, Stopper, MustStart, Holding
<1> QED
  BY <1>2, <1>3, <1>4, <1>5 DEF Held

\* A request that stops the core has seen it run, and so will start it.
LEMMA StopKeepsHeld ==
  ASSUME Held, NEW r \in Jobs, Stop(r)
  PROVE  Held'
<1> DEFINE next == IF r \in Updates THEN "fetch" ELSE "clear"
<1>1. req[r].pc = "stop" /\ Goto(r, next) /\ UNCHANGED <<zip, bin, starting>>
  BY DEF Stop, files
<1>2. next \in Holding
  BY DEF Holding
<1>3. Moves(r) /\ req'[r].pc = next
  BY <1>1, <1>2, GotoMoves DEF Held, Goto, Moves, Phases
<1>4. CASE UNCHANGED <<manual, by>>
  BY <1>1, <1>2, <1>3, <1>4, WorkKeepsHeld DEF Held, Types, Moves
<1>5. CASE StopXray(r)
  <2>1. Types' /\ Remembers' /\ Starter'
    BY <1>1, <1>2, <1>3, <1>5 DEF Held, Types, Remembers, Starter, StopXray, Moves, Holding
  <2>2. by' = r /\ req[r].was
    BY <1>1, <1>5 DEF StopXray, Held, Remembers
  <2>3. Stopper'
    BY <1>2, <1>3, <2>2 DEF Stopper, Moves, MustStart
  <2> QED
    BY <2>1, <2>3 DEF Held
<1> QED
  BY <1>4, <1>5 DEF Stop

\* A request that must start the core passes by RestartXray, which ends the
\* stop; one that need not has not stopped it.
LEMMA StartKeepsHeld ==
  ASSUME Held, None \notin Jobs, NEW r \in Jobs, StartAgain(r)
  PROVE  Held'
<1>1. req[r].pc = "start" /\ UNCHANGED bin
  BY DEF StartAgain
<1>2. Types /\ Remembers /\ Starter /\ Stopper
  BY DEF Held
<1>3. CASE ~MustStart(r)
  <2>1. Goto(r, "end") /\ UNCHANGED <<manual, starting, zip, by>>
    BY <1>3 DEF StartAgain
  <2>2. Moves(r) /\ req'[r].pc = "end"
    BY <1>2, <2>1, GotoMoves DEF Goto, Moves, Phases
  <2>3. Types' /\ Remembers' /\ Starter'
    BY <1>1, <1>2, <2>1, <2>2 DEF Types, Remembers, Starter, Moves
  <2>4. Stopper'
    BY <1>2, <1>3, <2>1, <2>2 DEF Stopper, Moves, MustStart
  <2> QED
    BY <2>3, <2>4 DEF Held
<1>4. CASE MustStart(r)
  <2>1. /\ starting = None /\ ~manual'
        /\ \E pc \in {"started", "end", "failed"} :
             /\ Goto(r, pc)
             /\ starting' = r => pc = "started"
        /\ starting' \in {r, None} /\ zip' \in {zip, None}
    BY <1>4 DEF StartAgain, Restart, GivesUp
  <2>2. PICK pc \in {"started", "end", "failed"} :
          Goto(r, pc) /\ (starting' = r => pc = "started")
    BY <2>1
  <2>3. Moves(r) /\ req'[r].pc = pc
    BY <1>2, <2>2, GotoMoves DEF Goto, Moves, Phases, Holding
  <2>4. Types' /\ Remembers' /\ Starter'
    BY <1>1, <1>2, <2>1, <2>2, <2>3 DEF Types, Remembers, Starter, Moves, Paths
  <2> QED
    BY <2>1, <2>4 DEF Held, Stopper
<1> QED
  BY <1>3, <1>4

\* Who stops the core waits for RestartXray to be over, so that it is not the
\* request that leaves it.
LEMMA StartedKeepsHeld ==
  ASSUME Held, None \notin Jobs, NEW r \in Jobs, StartedAgain(r)
  PROVE  Held'
<1>1. Types /\ Remembers /\ Starter /\ Stopper
  BY DEF Held
<1>2. starting = r /\ starting' = None /\ UNCHANGED <<bin, manual, by>> /\ zip' \in {zip, None}
  BY DEF StartedAgain, GivesUp
<1>3. req[r].pc = "started"
  BY <1>1, <1>2 DEF Starter
<1>4. PICK pc \in {"end", "failed"} : Goto(r, pc)
  BY DEF StartedAgain, GivesUp
<1>5. Moves(r) /\ req'[r].pc = pc
  BY <1>1, <1>4, GotoMoves DEF Goto, Moves, Phases, Holding
<1>6. Types' /\ Remembers' /\ Starter'
  BY <1>1, <1>2, <1>3, <1>5 DEF Types, Remembers, Starter, Moves, Paths
<1>7. Stopper'
  <2>1. manual => by # r \/ by = Admin
    BY <1>1, <1>3 DEF Stopper, Holding
  <2> QED
    BY <1>1, <1>2, <1>5, <2>1 DEF Stopper, Moves, MustStart
<1> QED
  BY <1>6, <1>7 DEF Held

\* An update that ends holds no stop.
LEMMA EndKeepsHeld ==
  ASSUME Held, NEW u \in Updates, EndUpdate(u)
  PROVE  Held'
<1>1. Types /\ Remembers /\ Starter /\ Stopper
  BY DEF Held
<1>2. /\ u \in Jobs /\ req[u].pc = "end" /\ Goto(u, "done") /\ zip' = None
      /\ UNCHANGED <<bin, manual, starting, by>>
  BY DEF EndUpdate, Kept, Jobs
<1>3. Moves(u) /\ req'[u].pc = "done"
  BY <1>1, <1>2, GotoMoves DEF Goto, Moves, Phases
<1>4. Types' /\ Remembers' /\ Starter'
  BY <1>1, <1>2, <1>3 DEF Types, Remembers, Starter, Moves, Paths
<1>5. Stopper'
  <2>1. manual => by # u \/ by = Admin
    BY <1>1, <1>2 DEF Stopper, Holding
  <2> QED
    BY <1>1, <1>2, <1>3, <2>1 DEF Stopper, Moves, MustStart
<1> QED
  BY <1>4, <1>5 DEF Held

\* The next panel starts with nobody's stop.
LEMMA RebootKeepsHeld ==
  ASSUME Held, None \notin Jobs, Reboot
  PROVE  Held'
<1> DEFINE next(r) == IF r \in Imports /\ req[r].pc = "end" THEN "done" ELSE "killed"
           state(r) == IF req[r].pc \in Ended THEN req[r] ELSE [req[r] EXCEPT !.pc = next(r)]
<1>1. /\ ~manual' /\ starting' = None /\ UNCHANGED <<zip, bin>>
      /\ req' = [r \in Jobs |-> state(r)]
  BY DEF Reboot, files
<1>2. ASSUME NEW r \in Jobs
      PROVE  state(r) \in ReqState /\ state(r).pc # "stop"
  <2>1. req[r] \in ReqState /\ next(r) \in {"done", "killed"}
    BY DEF Held, Types
  <2> HIDE DEF next
  <2> QED
    BY <2>1 DEF ReqState, Ended, Phases, Holding
<1> HIDE DEF state
<1>3. Types'
  BY <1>1, <1>2 DEF Held, Types
<1>4. Remembers'
  BY <1>1, <1>2 DEF Remembers
<1> QED
  BY <1>1, <1>3, <1>4 DEF Held, Starter, Stopper

-----------------------------------------------------------------------------
\* Held is true of a panel that has just started.
THEOREM HeldInit == None \notin Jobs /\ Init => Held
<1> SUFFICES ASSUME None \notin Jobs, Init PROVE Held
  OBVIOUS
<1>1. NewReq \in ReqState /\ NewReq.pc = "new"
  BY DEF NewReq, ReqState, Phases, Paths
<1>2. req = [r \in Jobs |-> NewReq] /\ starting = None /\ ~manual /\ zip = None /\ bin = First
  BY DEF Init
<1> QED
  BY <1>1, <1>2 DEF Held, Types, Remembers, Starter, Stopper, Paths, Versions

\* Every step of the panel, of a request or of the core keeps Held.
THEOREM HeldInductive ==
  ASSUME None \notin Jobs, Admin \notin Jobs, Held, [Next]_vars
  PROVE  Held'
<1>1. CASE AskStop
  BY <1>1, OthersKeepHeld DEF AskStop, files
<1>2. CASE AskRestart \/ CrashSeen \/ CoreExit
  BY <1>2, OthersKeepHeld DEF AskRestart, CrashSeen, CoreExit, files, counts
<1>3. CASE JobRestart
  <2>1. \E force \in BOOLEAN : Restart(Admin, force)
    BY <1>3 DEF JobRestart
  <2> QED
    BY <1>3, <2>1, OthersKeepHeld DEF JobRestart, files
<1>4. CASE JobStart
  BY <1>4, OthersKeepHeld DEF JobStart, files
<1>5. CASE Reboot
  BY <1>5, RebootKeepsHeld
<1>6. ASSUME NEW r \in Jobs, Begin(r) \/ Stop(r) \/ StartAgain(r) \/ StartedAgain(r)
      PROVE  Held'
  BY <1>6, BeginKeepsHeld, StopKeepsHeld, StartKeepsHeld, StartedKeepsHeld
<1>7. ASSUME NEW u \in Updates,
             \/ Fetch(u) \/ CreateZip(u) \/ Download(u) \/ ReadZip(u) \/ Unlink(u)
             \/ CreateBin(u) \/ Extract(u) \/ NoteVersion(u)
      PROVE  Held'
  BY <1>7, UpdateKeepsHeld
<1>8. ASSUME NEW u \in Updates, EndUpdate(u)
      PROVE  Held'
  BY <1>8, EndKeepsHeld
<1>9. ASSUME NEW i \in Imports, ClearTables(i) \/ CloseDB(i) \/ Psql(i) \/ InitDB(i)
      PROVE  Held'
  BY <1>9, ImportKeepsHeld
<1>10. CASE UNCHANGED vars
  BY <1>10, OthersKeepHeld DEF vars, files
<1> QED
  BY <1>1, <1>2, <1>3, <1>4, <1>5, <1>6, <1>7, <1>8, <1>9, <1>10 DEF Next

\* What has stopped the core and holds a stop is neither new nor done.
LEMMA HeldHasReason == Held => StoppedForAReason
BY DEF Held, Stopper, StoppedForAReason, Holding

(* However updates, dumps, stops, restarts, exits and ends of the panel    *)
(* overlap, and whatever fails: a core that stays stopped was stopped by   *)
(* the administrator, or by a request that is still at work, has failed or *)
(* was cut off (UpdateXray, ImportDB and StopXray).                        *)
THEOREM StoppedOnlyForAReason ==
  ASSUME None \notin Jobs, Admin \notin Jobs
  PROVE  Spec => []StoppedForAReason
<1>1. Init => Held
  BY HeldInit
<1>2. Held /\ [Next]_vars => Held'
  BY HeldInductive
<1> QED
  BY <1>1, <1>2, HeldHasReason, PTL DEF Spec

-----------------------------------------------------------------------------
(* The core, the binary and the database.                                  *)

Shapes ==
  /\ core \in Paths /\ starting \in Jobs \cup {Admin, None} /\ zip \in Updates \cup {None}
  /\ binary \in [Versions -> Versions \cup {None, Part, Mixed}]
  /\ tables \in {None, "old", "new", "mixed", "empty"} /\ faults \in Nat

\* What Goto leaves of a request, and of the others.
LEMMA GotoFields ==
  ASSUME Types, NEW r \in Jobs, NEW pc, Goto(r, pc)
  PROVE  /\ req'[r].pc = pc /\ req'[r].bin = req[r].bin /\ req'[r].was = req[r].was
         /\ \A v \in Jobs \ {r} : req'[v] = req[v]
<1> DEFINE s == [req[r] EXCEPT !.pc = pc]
<1>1. s.pc = pc /\ s.bin = req[r].bin /\ s.was = req[r].was
  BY DEF Types, ReqState
<1>2. req' = [req EXCEPT ![r] = s]
  BY DEF Goto
<1> HIDE DEF s
<1>3. req'[r] = s /\ \A v \in Jobs \ {r} : req'[v] = req[v]
  BY <1>2 DEF Types
<1> QED
  BY <1>1, <1>3

LEMMA Names ==
  ASSUME MaintenanceAssumption
  PROVE  /\ None \notin Updates /\ First \notin Updates /\ None # First
         /\ Updates \subseteq Jobs /\ Imports \subseteq Jobs
         /\ Jobs \subseteq Updates \cup Imports /\ Updates \cap Imports = {}
         /\ Updates \subseteq Paths /\ First \in Paths /\ None \in Paths
         /\ None \notin Jobs /\ Admin \notin Jobs
  BY DEF MaintenanceAssumption, Jobs, None, First, Paths, Versions

\* A step that leaves the binaries and the updates at work on them alone, and lets the
\* core be, stops it, or starts it from what is in place.
LEMMA PlaceKept ==
  ASSUME Installing, UNCHANGED <<bin, binary, noted>>, core' \in {core, None, bin},
         starting' # None => core' = None, excuses \subseteq excuses',
         \A u \in Updates :
           \/ req'[u] = req[u]
           \/ /\ req[u].pc \in {"new", "stop", "fetch", "zip", "download", "read"}
              /\ req'[u].pc \notin {"create", "extract", "note"}
  PROVE  Installing'
<1>1. SUFFICES ASSUME Clean'
               PROVE  /\ bin = None => \E u \in Updates : req'[u].pc = "create"
                      /\ bin = First => binary[First] = First /\ noted = First
                      /\ bin \in Updates => InPlace(bin)'
                      /\ \A u \in Updates :
                           /\ req'[u].pc = "extract" => req'[u].bin = u /\ binary[u] = Part
                           /\ req'[u].pc = "note" => req'[u].bin = u
                      /\ core' \notin {None, bin} => \E u \in Updates : Replacing(u)'
  BY DEF Installing
<1>2. Clean
  BY <1>1 DEF Clean
<1>3. bin = None => \E u \in Updates : req'[u].pc = "create"
  BY <1>2 DEF Installing
<1>4. bin \in Updates => InPlace(bin)'
  BY <1>2 DEF Installing, InPlace
<1>5. ASSUME NEW u \in Updates
      PROVE  /\ req'[u].pc = "extract" => req'[u].bin = u /\ binary[u] = Part
             /\ req'[u].pc = "note" => req'[u].bin = u
  BY <1>2 DEF Installing
<1>6. core' \notin {None, bin} => \E u \in Updates : Replacing(u)'
  BY <1>2 DEF Installing, Replacing
<1> QED
  BY <1>2, <1>3, <1>4, <1>5, <1>6 DEF Installing

\* The old binary is removed, and the update that has done so is to create another.
LEMMA UnlinkKeeps ==
  ASSUME MaintenanceAssumption, Types, Installing, NEW u \in Updates, Unlink(u)
  PROVE  Installing'
<1>1. /\ u \in Jobs /\ req[u].pc = "unlink" /\ bin' = None /\ Goto(u, "create")
      /\ UNCHANGED <<core, starting, binary, noted, excuses>>
  BY Names DEF Unlink, Kept
<1>2. req'[u].pc = "create" /\ \A v \in Updates \ {u} : req'[v] = req[v]
  BY <1>1, GotoFields, Names
<1> QED
  BY <1>1, <1>2, Names DEF Installing, Clean, Replacing

\* A new file takes the path; under a reason, it is not one of its own.
LEMMA CreateKeeps ==
  ASSUME MaintenanceAssumption, Types, Shapes, Installing, NEW u \in Updates, CreateBin(u)
  PROVE  Installing'
<1>1. /\ u \in Jobs /\ req[u].pc = "create" /\ UNCHANGED <<core, starting, noted>>
      /\ excuses \subseteq excuses'
  BY Names DEF CreateBin, Kept, GivesUp
<1>2. CASE GivesUp(u)
  <2>1. ~Clean'
    BY <1>1, <1>2 DEF GivesUp, Clean
  <2> QED
    BY <1>1, <2>1 DEF Installing
<1>3. CASE ~GivesUp(u)
  <2> DEFINE f == IF bin = None THEN u ELSE bin
  <2>1. /\ bin' = f /\ binary' = Created(binary, f, "bin", "extract")
        /\ req' = [req EXCEPT ![u].pc = "extract", ![u].bin = f]
        /\ excuses' = IF bin = None THEN excuses ELSE excuses \cup {"shared"}
    BY <1>3 DEF CreateBin
  <2>2. CASE bin # None
    <3>1. ~Clean'
      BY <2>1, <2>2 DEF Clean
    <3> QED
      BY <1>1, <3>1 DEF Installing
  <2>3. CASE bin = None
    <3> DEFINE s == [req[u] EXCEPT !.pc = "extract", !.bin = u]
    <3>1. s.pc = "extract" /\ s.bin = u /\ req' = [req EXCEPT ![u] = s]
      BY <1>1, <2>1, <2>3 DEF Types, ReqState
    <3> HIDE DEF s
    <3>2. /\ req'[u].pc = "extract" /\ req'[u].bin = u
          /\ \A v \in Updates \ {u} : req'[v] = req[v]
      BY <1>1, <3>1, Names DEF Types
    <3>3. bin' = u /\ Clean' = Clean
      BY <2>1, <2>3 DEF Clean
    <3>4. ASSUME Clean PROVE binary' = [binary EXCEPT ![u] = Part]
      <4>1. ~Writing(u, "bin", "extract")
        BY <1>1, <3>4 DEF Writing, Installing
      <4> QED
        BY <2>1, <2>3, <4>1 DEF Created
    <3>5. ASSUME Clean
          PROVE  binary'[u] = Part /\ \A v \in Versions \ {u} : binary'[v] = binary[v]
      BY <3>4, <3>5 DEF Shapes, Versions
    <3>6. InPlace(u)' /\ Replacing(u)'
      BY <3>2 DEF InPlace, Replacing
    <3>7. ASSUME Clean, NEW v \in Updates
          PROVE  /\ req'[v].pc = "extract" => req'[v].bin = v /\ binary'[v] = Part
                 /\ req'[v].pc = "note" => req'[v].bin = v
      <4>1. CASE v = u
        BY <3>2, <3>5, <3>7, <4>1
      <4>2. CASE v # u
        BY <3>2, <3>5, <3>7, <4>2 DEF Installing, Versions
      <4> QED
        BY <4>1, <4>2
    <3> QED
      BY <1>1, <3>3, <3>6, <3>7, Names DEF Installing
  <2> QED
    BY <2>2, <2>3
<1> QED
  BY <1>2, <1>3

\* The file is filled with the version that was asked for, unless there is a reason.
LEMMA ExtractKeeps ==
  ASSUME MaintenanceAssumption, Types, Shapes, Installing, NEW u \in Updates, Extract(u)
  PROVE  Installing'
<1> DEFINE content == zipped[req[u].zip]
<1>1. /\ u \in Jobs /\ req[u].pc = "extract" /\ UNCHANGED <<bin, core, starting, noted>>
  BY Names DEF Extract, Kept
<1>2. CASE GivesUp(u)
  <2>1. ~Clean'
    BY <1>1, <1>2 DEF GivesUp, Clean
  <2> QED
    BY <1>1, <2>1 DEF Installing
<1>3. CASE ~GivesUp(u)
  <2>1. /\ binary' = Filled(binary, req[u].bin, content) /\ Goto(u, "note")
        /\ excuses' = IF content = u THEN excuses ELSE excuses \cup {"swapped"}
    BY <1>3 DEF Extract
  <2>2. /\ req'[u].pc = "note" /\ req'[u].bin = req[u].bin
        /\ \A v \in Updates \ {u} : req'[v] = req[v]
    BY <1>1, <2>1, GotoFields, Names
  <2>3. SUFFICES ASSUME Clean' PROVE Installing'
    BY <1>1 DEF Installing
  <2>4. Clean /\ content = u
    BY <2>1, <2>3 DEF Clean
  <2> HIDE DEF content
  <2>5. req[u].bin = u /\ binary[u] = Part
    BY <1>1, <2>4 DEF Installing
  <2>6. binary' = [binary EXCEPT ![u] = u]
    BY <2>1, <2>4, <2>5 DEF Filled, Part, Mixed
  <2>7. binary'[u] = u /\ \A v \in Versions \ {u} : binary'[v] = binary[v]
    BY <2>6 DEF Shapes, Versions
  <2>8. bin \in Updates => InPlace(bin)'
    <3>1. CASE bin = u
      BY <1>1, <2>2, <2>5, <2>7, <3>1 DEF InPlace
    <3>2. CASE bin # u
      BY <1>1, <2>2, <2>4, <2>7, <3>2 DEF InPlace, Installing, Versions
    <3> QED
      BY <3>1, <3>2
  <2>9. ASSUME NEW v \in Updates
        PROVE  /\ req'[v].pc = "extract" => req'[v].bin = v /\ binary'[v] = Part
               /\ req'[v].pc = "note" => req'[v].bin = v
    <3>1. CASE v = u
      BY <2>2, <2>5, <3>1
    <3>2. CASE v # u
      BY <2>2, <2>4, <2>7, <3>2 DEF Installing, Versions
    <3> QED
      BY <3>1, <3>2
  <2>10. bin = First => binary'[First] = First /\ noted = First
    BY <2>4, <2>7, Names DEF Installing, Versions
  <2>11. bin = None => \E v \in Updates : req'[v].pc = "create"
    BY <1>1, <2>2, <2>4 DEF Installing
  <2>12. core \notin {None, bin} => \E v \in Updates : Replacing(v)'
    BY <2>2 DEF Replacing
  <2> QED
    BY <1>1, <2>8, <2>9, <2>10, <2>11, <2>12 DEF Installing
<1> QED
  BY <1>2, <1>3

\* The version noted is that of the binary at the path, unless there is a reason.
LEMMA NoteKeeps ==
  ASSUME MaintenanceAssumption, Types, Installing, NEW u \in Updates, NoteVersion(u)
  PROVE  Installing'
<1>1. /\ u \in Jobs /\ req[u].pc = "note" /\ UNCHANGED <<bin, binary, core, starting>>
      /\ noted' = u /\ Goto(u, "start")
      /\ excuses' = IF bin = req[u].bin THEN excuses ELSE excuses \cup {"disorder"}
  BY Names DEF NoteVersion, Kept
<1>2. /\ req'[u].pc = "start" /\ req'[u].bin = req[u].bin
      /\ \A v \in Updates \ {u} : req'[v] = req[v]
  BY <1>1, GotoFields, Names
<1>3. SUFFICES ASSUME Clean' PROVE Installing'
  BY <1>1 DEF Installing
<1>4. Clean /\ bin = u /\ req[u].bin = u
  BY <1>1, <1>3 DEF Clean, Installing
<1>5. InPlace(u)' /\ Replacing(u)'
  BY <1>1, <1>2, <1>4 DEF InPlace, Replacing, Installing
<1> QED
  BY <1>1, <1>2, <1>4, <1>5, Names DEF Installing

\* An update past its note goes on to another such step, and either the core is not of
\* an older binary, or the update is no less about to replace it.
LEMMA LateKeeps ==
  ASSUME MaintenanceAssumption, Types, Installing, NEW u \in Updates,
         req[u].pc \in {"start", "started", "end"},
         req'[u].pc \in {"started", "end", "done", "failed"}, req'[u].bin = req[u].bin,
         \A v \in Updates \ {u} : req'[v] = req[v], UNCHANGED <<bin, binary, noted>>,
         excuses \subseteq excuses', starting' # None => core' = None,
         \/ core' \in {None, bin}
         \/ core' = core /\ (Replacing(u) /\ Clean' => Replacing(u)')
  PROVE  Installing'
<1>1. SUFFICES ASSUME Clean' PROVE Installing'
  BY DEF Installing
<1>2. Clean
  BY <1>1 DEF Clean
<1>3. bin \in Updates => InPlace(bin)'
  BY <1>2 DEF Installing, InPlace
<1>4. bin = None => \E v \in Updates : req'[v].pc = "create"
  BY <1>2 DEF Installing
<1>5. core' \notin {None, bin} => \E v \in Updates : Replacing(v)'
  <2>1. SUFFICES ASSUME core' \notin {None, bin} PROVE \E v \in Updates : Replacing(v)'
    OBVIOUS
  <2>2. PICK v \in Updates : Replacing(v)
    BY <1>2, <2>1 DEF Installing
  <2>3. CASE v = u
    BY <1>1, <2>1, <2>2, <2>3
  <2>4. CASE v # u
    BY <2>2, <2>4 DEF Replacing
  <2> QED
    BY <2>3, <2>4
<1> QED
  BY <1>2, <1>3, <1>4, <1>5 DEF Installing

\* An update that has stopped the core passes by RestartXray; one that has not goes to
\* its end, where it still looks.
LEMMA StartKeeps ==
  ASSUME MaintenanceAssumption, Types, Installing, NEW r \in Jobs, StartAgain(r)
  PROVE  Installing'
<1>1. req[r].pc = "start" /\ UNCHANGED <<bin, binary, noted>> /\ excuses \subseteq excuses'
  BY DEF StartAgain, GivesUp
<1>2. PICK pc \in {"started", "end", "failed"} :
        /\ Goto(r, pc)
        /\ starting' # None => core' = None
        /\ \/ core' \in {None, bin}
           \/ core' = core /\ (r \in Updates /\ Clean' => pc = "end" /\ ~req[r].was)
  <2>1. CASE ~MustStart(r)
    <3>1. Goto(r, "end") /\ UNCHANGED <<core, starting>> /\ (r \in Updates => ~req[r].was)
      BY <2>1 DEF StartAgain, MustStart
    <3> QED
      BY <3>1 DEF Installing
  <2>2. CASE MustStart(r) /\ Readable
    <3>1. core' = None /\ \E pc \in {"started", "end"} : Goto(r, pc)
      BY <2>2 DEF StartAgain, Restart, Forced
    <3> QED
      BY <3>1
  <2>3. CASE MustStart(r) /\ ~Readable
    <3>1. UNCHANGED <<core, starting>> /\ Goto(r, "failed") /\ "unstarted" \in excuses'
      BY <1>1, <2>3 DEF StartAgain, Restart, GivesUp
    <3> QED
      BY <3>1 DEF Installing, Clean
  <2> QED
    BY <2>1, <2>2, <2>3
<1>3. /\ req'[r].pc = pc /\ req'[r].bin = req[r].bin /\ req'[r].was = req[r].was
      /\ \A v \in Jobs \ {r} : req'[v] = req[v]
  BY <1>2, GotoFields
<1>4. CASE r \in Updates
  <2>1. req'[r].pc = "end" /\ ~req[r].was => Replacing(r)'
    BY <1>3 DEF Replacing
  <2> QED
    BY <1>1, <1>2, <1>3, <1>4, <2>1, LateKeeps, Names
<1>5. CASE r \notin Updates
  BY <1>1, <1>2, <1>3, <1>5, PlaceKept, Names
<1> QED
  BY <1>4, <1>5

LEMMA StartedKeeps ==
  ASSUME MaintenanceAssumption, Held, Installing, NEW r \in Jobs, StartedAgain(r)
  PROVE  Installing'
<1>1. /\ req[r].pc = "started" /\ UNCHANGED <<bin, binary, noted>> /\ excuses \subseteq excuses'
      /\ starting' = None /\ core' \in {None, bin} /\ Types
  BY DEF StartedAgain, GivesUp, Started, Held, Starter
<1>2. PICK pc \in {"end", "failed"} : Goto(r, pc)
  BY DEF StartedAgain, GivesUp
<1>3. /\ req'[r].pc = pc /\ req'[r].bin = req[r].bin /\ req'[r].was = req[r].was
      /\ \A v \in Jobs \ {r} : req'[v] = req[v]
  BY <1>1, <1>2, GotoFields
<1>4. CASE r \in Updates
  BY <1>1, <1>3, <1>4, LateKeeps, Names
<1>5. CASE r \notin Updates
  BY <1>1, <1>3, <1>5, PlaceKept, Names
<1> QED
  BY <1>4, <1>5

LEMMA EndKeeps ==
  ASSUME MaintenanceAssumption, Types, Installing, NEW u \in Updates, EndUpdate(u)
  PROVE  Installing'
<1>1. /\ u \in Jobs /\ req[u].pc = "end" /\ Goto(u, "done")
      /\ UNCHANGED <<bin, binary, noted, core, starting>>
      /\ excuses' = IF ~req[u].was /\ core \notin {None, bin} THEN excuses \cup {"unseen"}
                    ELSE excuses
  BY Names DEF EndUpdate, Kept
<1>2. /\ req'[u].pc = "done" /\ req'[u].bin = req[u].bin
      /\ \A v \in Updates \ {u} : req'[v] = req[v]
  BY <1>1, GotoFields, Names
<1>3. core \in {None, bin} \/ ~(Replacing(u) /\ Clean')
  BY <1>1 DEF Replacing, Clean
<1>4. starting' # None => core' = None
  BY <1>1 DEF Installing
<1> QED
  BY <1>1, <1>2, <1>3, <1>4, LateKeeps

\* The panel starts again: what it was cut off in, if it mattered, is a reason.
LEMMA RebootKeeps ==
  ASSUME MaintenanceAssumption, Types, Installing, Reboot
  PROVE  Installing'
<1> DEFINE next(r) == IF r \in Imports /\ req[r].pc = "end" THEN "done" ELSE "killed"
           state(r) == IF req[r].pc \in Ended THEN req[r] ELSE [req[r] EXCEPT !.pc = next(r)]
<1>1. /\ core' = None /\ starting' = None /\ UNCHANGED <<bin, binary, noted>>
      /\ excuses \subseteq excuses' /\ req' = [r \in Jobs |-> state(r)]
  BY DEF Reboot, files
<1>2. SUFFICES ASSUME Clean' PROVE Installing'
  BY <1>1 DEF Installing
<1>3. Clean
  BY <1>1, <1>2 DEF Clean
<1>4. \A u \in Updates : req[u].pc \notin {"create", "extract", "note"}
  BY <1>2 DEF Reboot, Clean
<1>5. ASSUME NEW u \in Updates
      PROVE  /\ req'[u].bin = req[u].bin
             /\ req'[u].pc = IF req[u].pc \in Ended THEN req[u].pc ELSE "killed"
  <2>1. u \in Jobs /\ u \notin Imports /\ req[u] \in ReqState
    BY Names DEF Types
  <2>2. req'[u] = state(u) /\ next(u) = "killed"
    BY <1>1, <2>1
  <2>3. state(u).bin = req[u].bin
    BY <2>1 DEF ReqState
  <2>4. state(u).pc = IF req[u].pc \in Ended THEN req[u].pc ELSE "killed"
    BY <2>1, <2>2 DEF ReqState
  <2> HIDE DEF state
  <2> QED
    BY <2>2, <2>3, <2>4
<1>6. bin \in Updates => InPlace(bin)'
  BY <1>1, <1>3, <1>4, <1>5 DEF Installing, InPlace, Ended
<1>7. \A u \in Updates : req'[u].pc \notin {"extract", "note"}
  BY <1>4, <1>5
<1> QED
  BY <1>1, <1>3, <1>4, <1>6, <1>7 DEF Installing

\* The steps of an update before it removes the old binary.
LEMMA EarlyKeeps ==
  ASSUME MaintenanceAssumption, Types, Installing, NEW r \in Jobs,
         \/ Begin(r) \/ Stop(r)
         \/ r \in Updates /\ (Fetch(r) \/ CreateZip(r) \/ Download(r) \/ ReadZip(r))
  PROVE  Installing'
<1>1. /\ req[r].pc \in {"new", "stop", "fetch", "zip", "download", "read"}
      /\ UNCHANGED <<bin, binary, noted, starting>> /\ core' \in {core, None}
      /\ excuses \subseteq excuses'
  BY DEF Begin, Stop, StopXray, Fetch, CreateZip, Download, ReadZip, Kept, files, GivesUp
<1>2. \E s : /\ req' = [req EXCEPT ![r] = s]
             /\ s.pc \notin {"create", "extract", "note"}
  <2>0. req[r] \in ReqState
    BY DEF Types
  <2>1. CASE \E pc \in {"fetch", "clear", "failed", "zip", "read"} : Goto(r, pc)
    <3>1. PICK pc \in {"fetch", "clear", "failed", "zip", "read"} : Goto(r, pc)
      BY <2>1
    <3> DEFINE s == [req[r] EXCEPT !.pc = pc]
    <3>2. s.pc = pc /\ req' = [req EXCEPT ![r] = s]
      BY <2>0, <3>1 DEF Goto, ReqState
    <3> QED
      BY <3>2
  <2>2. CASE Begin(r)
    <3> DEFINE pc == IF Running THEN "stop" ELSE IF r \in Updates THEN "fetch" ELSE "clear"
               s == [req[r] EXCEPT !.was = Running, !.pc = pc]
    <3>1. req' = [req EXCEPT ![r] = s]
      BY <2>2 DEF Begin
    <3>2. pc \in {"stop", "fetch", "clear"}
      OBVIOUS
    <3> HIDE DEF pc
    <3>3. s.pc = pc
      BY <2>0 DEF ReqState
    <3> QED
      BY <3>1, <3>2, <3>3
  <2>3. CASE CreateZip(r)
    <3> DEFINE f == IF zip = None THEN r ELSE zip
               s == [req[r] EXCEPT !.pc = "download", !.zip = f]
    <3>1. s.pc = "download" /\ req' = [req EXCEPT ![r] = s]
      BY <2>0, <2>3 DEF CreateZip, ReqState
    <3> QED
      BY <3>1
  <2>4. CASE req' = [req EXCEPT ![r].pc = "unlink", ![r].zip = zip]
    <3> DEFINE s == [req[r] EXCEPT !.pc = "unlink", !.zip = zip]
    <3>1. s.pc = "unlink" /\ req' = [req EXCEPT ![r] = s]
      BY <2>0, <2>4 DEF ReqState
    <3> QED
      BY <3>1
  <2> QED
    BY <2>1, <2>2, <2>3, <2>4 DEF Stop, Fetch, Download, ReadZip, GivesUp
<1>3. req'[r].pc \notin {"create", "extract", "note"} /\ \A v \in Jobs \ {r} : req'[v] = req[v]
  BY <1>2 DEF Types
<1>4. starting' # None => core' = None
  BY <1>1 DEF Installing
<1> QED
  BY <1>1, <1>3, <1>4, PlaceKept, Names

\* The steps that are not of an update.
LEMMA OthersKeep ==
  ASSUME MaintenanceAssumption, Types, Installing,
         \/ AskStop \/ AskRestart \/ CrashSeen \/ JobRestart \/ JobStart \/ CoreExit
         \/ \E i \in Imports : ClearTables(i) \/ CloseDB(i) \/ Psql(i) \/ InitDB(i)
         \/ UNCHANGED vars
  PROVE  Installing'
<1>1. UNCHANGED <<bin, binary, noted, excuses>>
  BY DEF AskStop, AskRestart, CrashSeen, JobRestart, JobStart, CoreExit, ClearTables,
         CloseDB, Psql, InitDB, Rest, files, vars
<1>2. core' \in {core, None, bin} /\ (starting' # None => core' = None)
  <2>1. starting # None => core = None
    BY DEF Installing
  <2> QED
    BY <2>1 DEF AskStop, AskRestart, CrashSeen, JobRestart, JobStart, CoreExit, ClearTables,
           CloseDB, Psql, InitDB, Rest, files, vars, StopXray, Restart, Started, Running
<1>3. \A u \in Updates : req'[u] = req[u]
  <2>1. CASE \E i \in Imports : ClearTables(i) \/ CloseDB(i) \/ Psql(i) \/ InitDB(i)
    <3>1. PICK i \in Imports : ClearTables(i) \/ CloseDB(i) \/ Psql(i) \/ InitDB(i)
      BY <2>1
    <3>2. \E pc : Goto(i, pc)
      BY <3>1 DEF ClearTables, CloseDB, Psql, InitDB
    <3> QED
      BY <3>2, GotoFields, Names
  <2>2. CASE ~(\E i \in Imports : ClearTables(i) \/ CloseDB(i) \/ Psql(i) \/ InitDB(i))
    BY <2>2 DEF AskStop, AskRestart, CrashSeen, JobRestart, JobStart, CoreExit, vars
  <2> QED
    BY <2>1, <2>2
<1> QED
  BY <1>1, <1>2, <1>3, PlaceKept

\* Every step keeps what an installation has in its hands.
LEMMA InstallingKept ==
  ASSUME MaintenanceAssumption, Held, Shapes, Installing, [Next]_vars
  PROVE  Installing'
<1>1. Types
  BY DEF Held
<1>2. CASE \/ AskStop \/ AskRestart \/ CrashSeen \/ JobRestart \/ JobStart \/ CoreExit
           \/ \E i \in Imports : ClearTables(i) \/ CloseDB(i) \/ Psql(i) \/ InitDB(i)
           \/ UNCHANGED vars
  BY <1>1, <1>2, OthersKeep
<1>3. CASE Reboot
  BY <1>1, <1>3, RebootKeeps
<1>4. ASSUME NEW r \in Jobs, Begin(r) \/ Stop(r) \/ StartAgain(r) \/ StartedAgain(r)
      PROVE  Installing'
  BY <1>1, <1>4, EarlyKeeps, StartKeeps, StartedKeeps
<1>5. ASSUME NEW u \in Updates,
             \/ Fetch(u) \/ CreateZip(u) \/ Download(u) \/ ReadZip(u) \/ Unlink(u)
             \/ CreateBin(u) \/ Extract(u) \/ NoteVersion(u) \/ EndUpdate(u)
      PROVE  Installing'
  BY <1>1, <1>5, Names, EarlyKeeps, UnlinkKeeps, CreateKeeps, ExtractKeeps, NoteKeeps, EndKeeps
<1> QED
  BY <1>2, <1>3, <1>4, <1>5 DEF Next

-----------------------------------------------------------------------------
\* What a step does to the values there are.
LEMMA ShapesKept ==
  ASSUME MaintenanceAssumption, Types, Shapes, [Next]_vars
  PROVE  Shapes'
<1> DEFINE OnDisk == Versions \cup {None, Part, Mixed}
           All == {None, "old", "new", "mixed", "empty"}
<1>1. bin \in Paths /\ Started \in Paths
  BY DEF Types, Started, Paths
<1>2. ASSUME core' \in {core, None, Started}, starting' \in {starting, None, Admin} \cup Jobs,
             zip' \in {zip, None} \cup Updates, UNCHANGED binary, tables' \in {tables} \cup All,
             faults' \in {faults, faults + 1}
      PROVE  Shapes'
  BY <1>1, <1>2, Names DEF Shapes
<1>3. CASE AskStop \/ AskRestart \/ CrashSeen \/ JobRestart \/ JobStart \/ CoreExit
  BY <1>2, <1>3 DEF AskStop, AskRestart, CrashSeen, JobRestart, JobStart, CoreExit, StopXray,
     Restart, files, database, counts
<1>4. CASE Reboot
  BY <1>2, <1>4 DEF Reboot, files
<1>5. CASE UNCHANGED vars
  BY <1>2, <1>5 DEF vars, files, database, counts
<1>6. ASSUME NEW i \in Imports, ClearTables(i) \/ CloseDB(i) \/ Psql(i) \/ InitDB(i)
      PROVE  Shapes'
  BY <1>2, <1>6 DEF ClearTables, CloseDB, Psql, InitDB, Rest, files, Fault, Cleared
<1>7. ASSUME NEW r \in Jobs, Begin(r) \/ Stop(r) \/ StartAgain(r) \/ StartedAgain(r)
      PROVE  Shapes'
  BY <1>2, <1>7 DEF Begin, Stop, StartAgain, StartedAgain, StopXray, Restart, GivesUp, files,
     database, counts
<1>8. ASSUME NEW u \in Updates, \/ Fetch(u) \/ CreateZip(u) \/ Download(u) \/ ReadZip(u)
                                \/ Unlink(u) \/ NoteVersion(u) \/ EndUpdate(u)
      PROVE  Shapes'
  <2>1. /\ UNCHANGED <<core, starting, binary, tables>> /\ zip' \in {zip, None} \cup Updates
        /\ faults' \in {faults, faults + 1}
    BY <1>8 DEF Fetch, CreateZip, Download, ReadZip, Unlink, NoteVersion, EndUpdate, Kept, Fault,
       database, GivesUp
  <2> QED
    BY <1>2, <2>1
<1>9. ASSUME NEW u \in Updates, CreateBin(u) \/ Extract(u)
      PROVE  Shapes'
  <2>1. /\ UNCHANGED <<core, starting, tables>> /\ zip' \in {zip, None}
        /\ faults' \in {faults, faults + 1}
    BY <1>9 DEF CreateBin, Extract, Kept, Fault, database, GivesUp
  <2>2. binary' \in [Versions -> OnDisk]
    <3>1. CASE UNCHANGED binary
      BY <3>1 DEF Shapes
    <3>2. CASE \E f : binary' = Created(binary, f, "bin", "extract")
      BY <3>2 DEF Created, Shapes
    <3>3. CASE \E f : \E c \in Versions : binary' = Filled(binary, f, c)
      <4>1. PICK f : \E c \in Versions : binary' = Filled(binary, f, c)
        BY <3>3
      <4>2. PICK c \in Versions : binary' = Filled(binary, f, c)
        BY <4>1
      <4>3. binary' = [binary EXCEPT ![f] = IF binary[f] = Mixed THEN Mixed ELSE c]
        BY <4>2 DEF Filled
      <4>4. (IF binary[f] = Mixed THEN Mixed ELSE c) \in OnDisk
        OBVIOUS
      <4> QED
        BY <4>3, <4>4 DEF Shapes
    <3> QED
      BY <1>9, <3>1, <3>2, <3>3 DEF CreateBin, Extract
  <2> QED
    BY <2>1, <2>2 DEF Shapes
<1> QED
  BY <1>3, <1>4, <1>5, <1>6, <1>7, <1>8, <1>9 DEF Next

-----------------------------------------------------------------------------
(* The database.                                                           *)

\* A step that is not of a restore.
LEMMA DatabaseKept ==
  ASSUME Restoring, faults \in Nat, UNCHANGED database, \A i \in Imports : req'[i] = req[i],
         faults' \in {faults, faults + 1}, excuses \subseteq excuses'
  PROVE  Restoring'
<1>1. Undisturbed' => Undisturbed
  BY DEF Undisturbed
<1>2. AtWork' \cap Imports = AtWork \cap Imports
  BY DEF AtWork
<1>3. UNCHANGED <<open, tables>>
  BY DEF database
<1> QED
  BY <1>1, <1>2, <1>3 DEF Restoring, At

\* A step of the one restore at work.
LEMMA RestoreMoves ==
  ASSUME MaintenanceAssumption, Restoring, faults \in Nat, NEW i \in Imports,
         req[i].pc \notin Ended, \A r \in Jobs \ {i} : req'[r] = req[r],
         faults' \in {faults, faults + 1}, excuses \subseteq excuses',
         Undisturbed' /\ At(req[i].pc) =>
           \/ req'[i].pc \notin Ended /\ At(req[i].pc)'
           \/ req'[i].pc \in Ended /\ open' /\ tables' \in {"old", "new"}
  PROVE  Restoring'
<1>1. SUFFICES ASSUME Undisturbed' PROVE Restoring'
  BY DEF Restoring
<1>2. Undisturbed
  BY <1>1, Names DEF Undisturbed, Ended
<1>3. i \in AtWork \cap Imports
  BY Names DEF AtWork
<1>4. AtWork \cap Imports = {i} /\ At(req[i].pc)
  BY <1>2, <1>3 DEF Restoring
<1>5. AtWork' \cap Imports = IF req'[i].pc \in Ended THEN {} ELSE {i}
  <2>1. \A r \in Imports \ {i} : r \notin AtWork'
    BY <1>4, Names DEF AtWork
  <2>2. i \in AtWork' <=> req'[i].pc \notin Ended
    BY Names DEF AtWork
  <2> QED
    BY <2>1, <2>2
<1> QED
  BY <1>1, <1>4, <1>5 DEF Restoring

LEMMA ImportRestores ==
  ASSUME MaintenanceAssumption, Types, Shapes, Restoring, NEW i \in Imports,
         ClearTables(i) \/ CloseDB(i) \/ Psql(i) \/ InitDB(i)
  PROVE  Restoring'
<1>1. /\ req[i].pc \in {"clear", "close", "psql", "init"} /\ i \in Jobs /\ faults \in Nat
      /\ faults' \in {faults, faults + 1} /\ UNCHANGED excuses
  BY Names DEF ClearTables, CloseDB, Psql, InitDB, Fault, Rest, Shapes
<1>2. PICK pc \in {"close", "psql", "init", "failed", "start"} : Goto(i, pc)
  BY DEF ClearTables, CloseDB, Psql, InitDB
<1>3. req'[i].pc = pc /\ \A r \in Jobs \ {i} : req'[r] = req[r]
  BY <1>1, <1>2, GotoFields
<1>4. ASSUME Undisturbed', At(req[i].pc)
      PROVE  req'[i].pc \notin Ended /\ At(req[i].pc)'
  <2>1. ~Fault
    BY <1>1, <1>4 DEF Fault, Undisturbed
  <2>2. CASE ClearTables(i)
    <3>1. req[i].pc = "clear" /\ Goto(i, "close") /\ open /\ tables' = None /\ open' = open
      BY <1>4, <2>1, <2>2 DEF ClearTables, At, Cleared
    <3>2. req'[i].pc = "close"
      BY <1>1, <3>1, GotoFields
    <3> QED
      BY <3>1, <3>2 DEF At, Ended
  <2>3. CASE CloseDB(i)
    <3>1. req[i].pc = "close" /\ Goto(i, "psql") /\ ~open' /\ tables' = tables
      BY <2>3 DEF CloseDB
    <3>2. req'[i].pc = "psql"
      BY <1>1, <3>1, GotoFields
    <3> QED
      BY <1>4, <3>1, <3>2 DEF At, Ended
  <2>4. CASE Psql(i)
    <3>1. /\ req[i].pc = "psql" /\ Goto(i, "init") /\ open' = open
          /\ tables' = IF tables = None THEN "new" ELSE "mixed"
      BY <2>1, <2>4 DEF Psql
    <3>2. req'[i].pc = "init"
      BY <1>1, <3>1, GotoFields
    <3> QED
      BY <1>4, <3>1, <3>2 DEF At, Ended
  <2>5. CASE InitDB(i)
    <3>1. /\ req[i].pc = "init" /\ Goto(i, "start") /\ open'
          /\ tables' = IF tables = None THEN "empty" ELSE tables
      BY <2>1, <2>5 DEF InitDB
    <3>2. req'[i].pc = "start"
      BY <1>1, <3>1, GotoFields
    <3> QED
      BY <1>4, <3>1, <3>2 DEF At, Ended, None
  <2> QED
    BY <2>2, <2>3, <2>4, <2>5
<1> QED
  BY <1>1, <1>3, <1>4, RestoreMoves DEF Ended

\* A restore that begins while another is at work is a reason.
LEMMA BeginRestores ==
  ASSUME MaintenanceAssumption, Types, Shapes, Restoring, NEW i \in Imports, Begin(i)
  PROVE  Restoring'
<1> DEFINE pc == IF Running THEN "stop" ELSE IF i \in Updates THEN "fetch" ELSE "clear"
           s == [req[i] EXCEPT !.was = Running, !.pc = pc]
<1>1. /\ req[i].pc = "new" /\ i \in Jobs /\ i \notin Updates /\ UNCHANGED <<open, tables, faults>>
      /\ excuses' = IF AtWork \cap Imports # {} THEN excuses \cup {"both"} ELSE excuses
  BY Names DEF Begin, database, counts
<1>2. s.pc = pc /\ req' = [req EXCEPT ![i] = s]
  BY <1>1 DEF Types, ReqState, Begin
<1>3. pc \in {"stop", "clear"}
  BY <1>1
<1> HIDE DEF s, pc
<1>4. req'[i].pc \in {"stop", "clear"} /\ \A r \in Jobs \ {i} : req'[r] = req[r]
  BY <1>1, <1>2, <1>3 DEF Types
<1>5. SUFFICES ASSUME Undisturbed' PROVE Restoring'
  BY DEF Restoring
<1>6. AtWork \cap Imports = {} /\ Undisturbed
  BY <1>1, <1>4, <1>5, Names DEF Undisturbed
<1>7. AtWork' \cap Imports = {i}
  <2>1. \A r \in Imports \ {i} : r \notin AtWork'
    BY <1>4, <1>6, Names DEF AtWork
  <2>2. i \in AtWork'
    BY <1>1, <1>4 DEF AtWork, Ended
  <2> QED
    BY <2>1, <2>2
<1>8. At(req[i].pc)'
  BY <1>1, <1>4, <1>6 DEF Restoring, At
<1> QED
  BY <1>7, <1>8 DEF Restoring

LEMMA CoreRestores ==
  ASSUME MaintenanceAssumption, Held, Shapes, Restoring, NEW i \in Imports,
         Stop(i) \/ StartAgain(i) \/ StartedAgain(i)
  PROVE  Restoring'
<1>1. /\ req[i].pc \in {"stop", "start", "started"} /\ i \in Jobs /\ i \notin Updates
      /\ faults \in Nat /\ UNCHANGED <<open, tables, faults>> /\ excuses \subseteq excuses' /\ Types
  BY Names DEF Stop, StartAgain, StartedAgain, Held, Starter, Shapes, GivesUp, database, counts
<1>2. \E pc \in {"started", "end", "failed", "clear"} :
         /\ Goto(i, pc)
         /\ pc = "clear" <=> req[i].pc = "stop"
  <2>1. CASE Stop(i)
    BY <1>1, <2>1 DEF Stop
  <2>2. CASE StartAgain(i)
    <3>1. req[i].pc = "start"
      BY <2>2 DEF StartAgain
    <3>2. Goto(i, "end") \/ Goto(i, "started") \/ Goto(i, "failed")
      BY <2>2 DEF StartAgain, GivesUp
    <3> QED
      BY <3>1, <3>2
  <2>3. CASE StartedAgain(i)
    <3>1. req[i].pc = "started"
      BY <1>1, <2>3 DEF StartedAgain, Held, Starter
    <3>2. Goto(i, "end") \/ Goto(i, "failed")
      BY <2>3 DEF StartedAgain, GivesUp
    <3> QED
      BY <3>1, <3>2
  <2> QED
    BY <2>1, <2>2, <2>3
<1>3. PICK pc \in {"started", "end", "failed", "clear"} :
         /\ Goto(i, pc)
         /\ pc = "clear" <=> req[i].pc = "stop"
  BY <1>2
<1>4. req'[i].pc = pc /\ \A r \in Jobs \ {i} : req'[r] = req[r]
  BY <1>1, <1>3, GotoFields
<1>5. ASSUME At(req[i].pc)
      PROVE  \/ req'[i].pc \notin Ended /\ At(req[i].pc)'
             \/ req'[i].pc \in Ended /\ open' /\ tables' \in {"old", "new"}
  BY <1>1, <1>3, <1>4, <1>5 DEF At, Ended
<1> QED
  BY <1>1, <1>4, <1>5, RestoreMoves DEF Ended

\* The panel ends after a restore; or in one, which is then cut off.
LEMMA RebootRestores ==
  ASSUME MaintenanceAssumption, Types, Shapes, Restoring, Reboot
  PROVE  Restoring'
<1> DEFINE next(r) == IF r \in Imports /\ req[r].pc = "end" THEN "done" ELSE "killed"
           state(r) == IF req[r].pc \in Ended THEN req[r] ELSE [req[r] EXCEPT !.pc = next(r)]
<1>1. /\ open' = TRUE /\ tables' = IF tables = None THEN "empty" ELSE tables
      /\ UNCHANGED faults /\ excuses \subseteq excuses' /\ req' = [r \in Jobs |-> state(r)]
  BY DEF Reboot
<1>2. ASSUME NEW i \in Imports
      PROVE  req'[i].pc = IF req[i].pc \in Ended THEN req[i].pc
                          ELSE IF req[i].pc = "end" THEN "done" ELSE "killed"
  <2>1. i \in Jobs /\ req[i] \in ReqState
    BY Names DEF Types
  <2>2. req'[i] = state(i)
    BY <1>1, <2>1
  <2>3. state(i).pc = IF req[i].pc \in Ended THEN req[i].pc ELSE next(i)
    BY <2>1 DEF ReqState
  <2> QED
    BY <2>2, <2>3
<1>3. SUFFICES ASSUME Undisturbed' PROVE Restoring'
  BY DEF Restoring
<1>4. Undisturbed
  BY <1>1, <1>2, <1>3 DEF Undisturbed, Ended
<1>5. AtWork' \cap Imports = {}
  BY <1>2 DEF AtWork, Ended
<1>6. \A i \in AtWork \cap Imports : req[i].pc = "end"
  BY <1>2, <1>3 DEF Undisturbed, AtWork
<1>7. tables \in {"old", "new"}
  BY <1>4, <1>6 DEF Restoring, At
<1>8. tables' \in {"old", "new"}
  BY <1>1, <1>7 DEF None
<1> QED
  BY <1>1, <1>5, <1>8 DEF Restoring

\* Every step keeps what a restore has in its hands.
LEMMA RestoringKept ==
  ASSUME MaintenanceAssumption, Held, Shapes, Restoring, [Next]_vars
  PROVE  Restoring'
<1>1. Types /\ faults \in Nat
  BY DEF Held, Shapes
<1>2. CASE \/ AskStop \/ AskRestart \/ CrashSeen \/ JobRestart \/ JobStart \/ CoreExit
           \/ UNCHANGED vars
  BY <1>1, <1>2, DatabaseKept DEF AskStop, AskRestart, CrashSeen, JobRestart, JobStart,
     CoreExit, vars, counts
<1>3. CASE Reboot
  BY <1>1, <1>3, RebootRestores
<1>4. ASSUME NEW i \in Imports,
             \/ Begin(i) \/ Stop(i) \/ StartAgain(i) \/ StartedAgain(i)
             \/ ClearTables(i) \/ CloseDB(i) \/ Psql(i) \/ InitDB(i)
      PROVE  Restoring'
  BY <1>1, <1>4, BeginRestores, CoreRestores, ImportRestores
<1>5. ASSUME NEW u \in Updates,
             \/ Begin(u) \/ Stop(u) \/ StartAgain(u) \/ StartedAgain(u)
             \/ Fetch(u) \/ CreateZip(u) \/ Download(u) \/ ReadZip(u) \/ Unlink(u)
             \/ CreateBin(u) \/ Extract(u) \/ NoteVersion(u) \/ EndUpdate(u)
      PROVE  Restoring'
  <2>1. \A i \in Imports : i \in Jobs /\ i # u
    BY Names
  <2>2. UNCHANGED database /\ faults' \in {faults, faults + 1} /\ excuses \subseteq excuses'
    BY <1>5 DEF Begin, Stop, StartAgain, StartedAgain, Fetch, CreateZip, Download, ReadZip, Unlink,
       CreateBin, Extract, NoteVersion, EndUpdate, Kept, GivesUp, Fault, counts
  <2>3. \E s : req' = [req EXCEPT ![u] = s]
    <3>1. CASE \E pc : Goto(u, pc)
      <4>1. PICK pc : Goto(u, pc)
        BY <3>1
      <4>2. req' = [req EXCEPT ![u] = [req[u] EXCEPT !.pc = pc]]
        BY <4>1 DEF Goto
      <4> QED
        BY <4>2
    <3>2. CASE Begin(u)
      <4> DEFINE pc == IF Running THEN "stop" ELSE IF u \in Updates THEN "fetch" ELSE "clear"
      <4>1. req' = [req EXCEPT ![u] = [req[u] EXCEPT !.was = Running, !.pc = pc]]
        BY <3>2 DEF Begin
      <4> QED
        BY <4>1
    <3>3. CASE CreateZip(u)
      <4> DEFINE f == IF zip = None THEN u ELSE zip
      <4>1. req' = [req EXCEPT ![u] = [req[u] EXCEPT !.pc = "download", !.zip = f]]
        BY <3>3 DEF CreateZip
      <4> QED
        BY <4>1
    <3>4. CASE req' = [req EXCEPT ![u].pc = "unlink", ![u].zip = zip]
      BY <3>4
    <3>5. CASE \E f : req' = [req EXCEPT ![u].pc = "extract", ![u].bin = f]
      <4>1. PICK f : req' = [req EXCEPT ![u].pc = "extract", ![u].bin = f]
        BY <3>5
      <4> QED
        BY <4>1
    <3>6. CASE StartAgain(u) \/ StartedAgain(u)
      <4>1. \E pc : Goto(u, pc)
        <5>1. Goto(u, "end") \/ Goto(u, "started") \/ Goto(u, "failed")
          BY <3>6 DEF StartAgain, StartedAgain, GivesUp
        <5> QED
          BY <5>1
      <4> QED
        BY <3>1, <4>1
    <3> QED
      BY <1>5, <3>1, <3>2, <3>3, <3>4, <3>5, <3>6
         DEF Stop, Fetch, Download, ReadZip, Unlink, CreateBin, Extract, NoteVersion, EndUpdate,
             GivesUp
  <2>4. \A i \in Imports : req'[i] = req[i]
    BY <1>1, <2>1, <2>3 DEF Types
  <2> QED
    BY <1>1, <2>2, <2>4, DatabaseKept
<1> QED
  BY <1>2, <1>3, <1>4, <1>5, Names DEF Next

-----------------------------------------------------------------------------
(* Whoever takes the core away gives it back.                              *)

\* The inductive invariant: who holds a stop, what the files and the values are, how far
\* the binary at the path is, and how far the database is with the restore at work.
GivingBack == Held /\ Shapes /\ Installing /\ Restoring

\* At first nobody has taken anything.
LEMMA GivingBackInit ==
  ASSUME MaintenanceAssumption, Init
  PROVE  GivingBack
<1>1. Held
  BY HeldInit DEF MaintenanceAssumption
<1>2. Shapes
  <2>1. First \in Versions /\ None # Part
    BY DEF Versions, None, Part
  <2> QED
    BY <2>1, Names DEF Init, Shapes
<1>3. \A r \in Jobs : req[r].pc = "new"
  BY DEF Init, NewReq
<1>4. Installing
  <2>1. /\ starting = None /\ bin = First /\ core = First /\ binary[First] = First
        /\ noted = First
    BY DEF Init, Versions
  <2> QED
    BY <1>3, <2>1, Names DEF Installing
<1>5. Restoring
  <2>1. AtWork = {} /\ open /\ tables = "old"
    BY <1>3 DEF Init, AtWork, Ended
  <2> QED
    BY <2>1 DEF Restoring
<1> QED
  BY <1>1, <1>2, <1>4, <1>5 DEF GivingBack

\* The invariant is inductive.
LEMMA GivingBackKept ==
  ASSUME MaintenanceAssumption, GivingBack, [Next]_vars
  PROVE  GivingBack'
<1>1. Held /\ Shapes /\ Installing /\ Restoring /\ Types
  BY DEF GivingBack, Held
<1>2. Held'
  BY <1>1, HeldInductive DEF MaintenanceAssumption
<1> QED
  BY <1>1, <1>2, ShapesKept, InstallingKept, RestoringKept DEF GivingBack

\* Whoever is at its end has given back what it took.
LEMMA GivesBack ==
  ASSUME MaintenanceAssumption, GivingBack
  PROVE  TypeOK /\ CoreGivenBack
<1>1. TypeOK
  BY Names DEF GivingBack, Held, Types, Shapes, TypeOK, Paths
<1>2. StoppedForAReason
  BY HeldHasReason DEF GivingBack
<1>3. RunsWhatIsInstalled
  <2>1. SUFFICES ASSUME Quiet, Clean
                 PROVE  bin # None /\ binary[bin] = noted /\ (Running => core = bin)
    BY DEF RunsWhatIsInstalled, Clean
  <2>2. \A u \in Updates : req[u].pc \in Ended
    BY <2>1, Names DEF Quiet, AtWork
  <2>3. Installing /\ bin \in Paths
    BY DEF GivingBack, Held, Types
  <2>4. bin # None /\ core \in {None, bin}
    <3>1. \A u \in Updates : ~Replacing(u) /\ req[u].pc # "create"
      BY <2>2 DEF Replacing, Ended
    <3> QED
      BY <2>1, <2>3, <3>1 DEF Installing
  <2>5. ASSUME bin = First PROVE binary[bin] = noted
    BY <2>1, <2>3, <2>5 DEF Installing
  <2>6. ASSUME bin \in Updates PROVE binary[bin] = noted
    BY <2>1, <2>2, <2>3, <2>6 DEF Installing, InPlace, Ended
  <2>7. binary[bin] = noted
    BY <2>3, <2>4, <2>5, <2>6 DEF Paths, Versions
  <2> QED
    BY <2>4, <2>7 DEF Running
<1>4. DatabaseIsThere
  BY DEF GivingBack, Restoring, DatabaseIsThere, Quiet, Undisturbed
<1> QED
  BY <1>1, <1>2, <1>3, <1>4 DEF CoreGivenBack

(* The values of the variables are what the module says they are.          *)
THEOREM MaintenanceTypes ==
  ASSUME MaintenanceAssumption
  PROVE  Spec => []TypeOK
<1>1. Init => GivingBack
  BY GivingBackInit
<1>2. GivingBack /\ [Next]_vars => GivingBack'
  BY GivingBackKept
<1>3. GivingBack => TypeOK
  BY GivesBack
<1> QED
  BY <1>1, <1>2, <1>3, PTL DEF Spec

(* However updates, dumps, stops, restarts, exits and ends of the panel    *)
(* overlap: a core stays stopped for a reason; at rest there is one whole  *)
(* binary, the one noted, from which a running core was started, but for   *)
(* the reasons `excuses` names; and the database is there unless something *)
(* failed or two dumps were restored at once (UpdateXray, ImportDB).       *)
THEOREM WhatIsTakenIsGivenBack ==
  ASSUME MaintenanceAssumption
  PROVE  Spec => []CoreGivenBack
<1>1. Init => GivingBack
  BY GivingBackInit
<1>2. GivingBack /\ [Next]_vars => GivingBack'
  BY GivingBackKept
<1>3. GivingBack => CoreGivenBack
  BY GivesBack
<1> QED
  BY <1>1, <1>2, <1>3, PTL DEF Spec

-----------------------------------------------------------------------------
(* The requests that replace a routing database (Geofiles), which the same *)
(* service and the workers serve: GeofilesInOrder for any numbers of       *)
(* requests, workers, contents and failures.                               *)

CONSTANTS Requests, Nodes, Contents, Default, MaxFailures
VARIABLES live, backup, loaded, work, failures, overlap, written, previous, failed

Geo == INSTANCE Geofiles WITH MaxFaults <- MaxFailures, req <- work, faults <- failures

-----------------------------------------------------------------------------
(* What a step does to the requests.                                       *)

\* The steps of a request.
Acts(r) ==
  \/ \E c \in Contents : Geo!Start(r, "upload", c) \/ Geo!Start(r, "update", c)
  \/ Geo!Start(r, "rollback", Geo!None)
  \/ Geo!Shift(r) \/ Geo!Fill(r) \/ Geo!Activate(r) \/ Geo!Swap(r) \/ Geo!Restore(r)
     \/ Geo!Keep(r)
  \/ Geo!Truncate(r) \/ Geo!Copy(r) \/ Geo!RestartCore(r) \/ Geo!Finish(r)
  \/ \E n \in Nodes : Geo!NextNode(r, n)

\* A step is one of a request, the end of a process, or none.
LEMMA GeoSteps ==
  ASSUME [Geo!Next]_Geo!vars
  PROVE  (\E r \in Requests : Acts(r)) \/ (\E s \in Geo!Sites : Geo!End(s))
         \/ UNCHANGED Geo!vars
BY DEF Geo!Next, Acts

\* No request is at work.
LEMMA NoWorkIs ==
  Geo!NoWork \in Geo!Work /\ Geo!NoWork.pc = "idle" /\ Geo!NoWork.swap = Geo!None
  /\ Geo!WellFormed(Geo!NoWork)
BY DEF Geo!NoWork, Geo!Work, Geo!WellFormed, Geo!Steps, Geo!Sites, Geo!Files, Geo!None,
       Geo!Panel

\* The next step of a request is all that changes about it.
LEMMA GoesTo ==
  ASSUME Geo!Shapes, NEW r \in Requests, NEW pc \in Geo!Steps, Geo!Goto(r, pc)
  PROVE  /\ work' \in [Requests -> Geo!Work] /\ work'[r].pc = pc
         /\ work'[r].kind = work[r].kind /\ work'[r].new = work[r].new
         /\ work'[r].site = work[r].site /\ work'[r].swap = work[r].swap
         /\ work'[r].left = work[r].left
         /\ \A q \in Requests \ {r} : work'[q] = work[q]
BY DEF Geo!Goto, Geo!Shapes, Geo!Work

\* A request comes to a site.
LEMMA Enters ==
  ASSUME Geo!Shapes, NEW r \in Requests, NEW w \in Geo!Work, NEW s \in Geo!Sites,
         NEW pc \in Geo!Steps,
         Geo!Enter(r, w, s, pc)
  PROVE  /\ work' \in [Requests -> Geo!Work] /\ work'[r].pc = pc /\ work'[r].site = s
         /\ work'[r].swap = Geo!None
         /\ work'[r].kind = w.kind /\ work'[r].new = w.new /\ work'[r].left = w.left
         /\ \A q \in Requests \ {r} : work'[q] = work[q]
         /\ overlap' = IF Geo!Busy(s) \ {r} = {} THEN overlap ELSE overlap \cup {s}
<1>1. [w EXCEPT !.site = s, !.pc = pc, !.swap = Geo!None] \in Geo!Work
  BY DEF Geo!Work, Geo!Files
<1> QED
  BY <1>1 DEF Geo!Enter, Geo!Shapes, Geo!Work

\* A request that starts comes to the panel; one that goes on, to a worker.
LEMMA Starts ==
  ASSUME Geo!Shapes, NEW r \in Requests, NEW kind \in {"upload", "rollback", "update"},
         NEW c \in Contents \cup {Geo!None}, Geo!Start(r, kind, c)
  PROVE  /\ work[r].pc = "idle"
         /\ work' \in [Requests -> Geo!Work] /\ work'[r].pc = Geo!Entry[kind]
            /\ work'[r].site = Geo!Panel
         /\ work'[r].swap = Geo!None /\ work'[r].kind = kind /\ work'[r].new = c
         /\ kind = "update" => work'[r].left = {}
         /\ \A q \in Requests \ {r} : work'[q] = work[q]
         /\ overlap' = IF Geo!Busy(Geo!Panel) \ {r} = {}
                         THEN overlap ELSE overlap \cup {Geo!Panel}
<1> DEFINE left == IF kind = "update" THEN {} ELSE Nodes
           w == [Geo!NoWork EXCEPT !.kind = kind, !.new = c, !.left = left]
<1>1. w \in Geo!Work /\ w.kind = kind /\ w.new = c /\ w.left = left
  BY NoWorkIs DEF Geo!Work, Geo!NoWork
<1>2. Geo!Entry[kind] \in Geo!Steps /\ Geo!Panel \in Geo!Sites
  BY DEF Geo!Entry, Geo!Steps, Geo!Sites
<1>3. Geo!Enter(r, w, Geo!Panel, Geo!Entry[kind]) /\ work[r].pc = "idle"
  BY DEF Geo!Start
<1>4. kind = "update" => left = {}
  OBVIOUS
<1> HIDE DEF w, left
<1> QED
  BY <1>1, <1>2, <1>3, <1>4, Enters

\* A request that goes on is an upload or a rollback; it comes to the worker, or
\* passes it over.
LEMMA Visits ==
  ASSUME Geo!Shapes, NEW r \in Requests, NEW n \in Nodes, Geo!NextNode(r, n)
  PROVE  /\ work[r].pc = "next" /\ work[r].kind \in {"upload", "rollback"}
         /\ work' \in [Requests -> Geo!Work]
         /\ work'[r].kind = work[r].kind /\ work'[r].new = work[r].new
         /\ \A q \in Requests \ {r} : work'[q] = work[q]
         /\ \/ /\ work'[r].pc = Geo!Entry[work[r].kind] /\ work'[r].site = n
                  /\ work'[r].swap = Geo!None
               /\ overlap' = IF Geo!Busy(n) \ {r} = {} THEN overlap ELSE overlap \cup {n}
            \/ /\ work'[r].pc = "next" /\ work'[r].site = work[r].site
               /\ work'[r].swap = work[r].swap /\ UNCHANGED overlap
<1> DEFINE w == [work[r] EXCEPT !.left = @ \ {n}]
<1>1. w \in Geo!Work /\ w.kind = work[r].kind /\ w.new = work[r].new /\ w.pc = work[r].pc
      /\ w.site = work[r].site /\ w.swap = work[r].swap
  BY DEF Geo!Shapes, Geo!Work
<1>2. work[r].pc = "next" /\ work[r].kind \in {"upload", "rollback"}
  BY DEF Geo!NextNode, Geo!Shapes, Geo!WellFormed, Geo!Work
<1>3. Geo!Entry[work[r].kind] \in Geo!Steps /\ n \in Geo!Sites
  BY <1>2 DEF Geo!Entry, Geo!Steps, Geo!Sites
<1>4. \/ Geo!Enter(r, w, n, Geo!Entry[work[r].kind])
      \/ work' = [work EXCEPT ![r] = w] /\ UNCHANGED overlap
  BY <1>1 DEF Geo!NextNode
<1> HIDE DEF w
<1>5. CASE Geo!Enter(r, w, n, Geo!Entry[work[r].kind])
  BY <1>1, <1>2, <1>3, <1>5, Enters
<1>6. CASE work' = [work EXCEPT ![r] = w] /\ UNCHANGED overlap
  BY <1>1, <1>2, <1>6 DEF Geo!Shapes
<1> QED
  BY <1>4, <1>5, <1>6

\* A request that fails ends on the panel, and leaves a worker for the next.
LEMMA Failing ==
  ASSUME Geo!Shapes, NEW r \in Requests, Geo!Fail(r, work[r].site)
  PROVE  /\ work' \in [Requests -> Geo!Work] /\ failed' = failed \cup {work[r].site}
         /\ \A q \in Requests \ {r} : work'[q] = work[q]
         /\ \/ work'[r] = Geo!NoWork
            \/ /\ work'[r].pc = "next" /\ work'[r].kind = work[r].kind
                  /\ work'[r].new = work[r].new
               /\ work'[r].site = work[r].site /\ work'[r].swap = work[r].swap
               /\ work'[r].left = work[r].left
<1>1. CASE work' = [work EXCEPT ![r] = Geo!NoWork]
  BY <1>1, NoWorkIs DEF Geo!Fail, Geo!Shapes
<1>2. CASE Geo!Goto(r, "next")
  BY <1>2, GoesTo DEF Geo!Fail, Geo!Steps
<1> QED
  BY <1>1, <1>2 DEF Geo!Fail

\* A step of one request leaves the others as they are.
LEMMA OthersWork ==
  ASSUME Geo!Shapes, NEW r \in Requests, Acts(r), NEW q \in Requests \ {r}
  PROVE  work'[q] = work[q]
<1>1. CASE \E c \in Contents, kind \in {"upload", "update"} : Geo!Start(r, kind, c)
  BY <1>1, Starts
<1>2. CASE Geo!Start(r, "rollback", Geo!None)
  BY <1>2, Starts
<1>3. CASE \E n \in Nodes : Geo!NextNode(r, n)
  BY <1>3, Visits
<1>4. CASE Geo!Swap(r) \/ Geo!Restore(r) \/ Geo!RestartCore(r)
  BY <1>4 DEF Geo!Swap, Geo!Restore, Geo!RestartCore, Geo!Fail, Geo!Goto, Geo!Shapes
<1>5. CASE Geo!Shift(r) \/ Geo!Fill(r) \/ Geo!Activate(r) \/ Geo!Keep(r) \/ Geo!Truncate(r)
           \/ Geo!Copy(r)
  BY <1>5 DEF Geo!Shift, Geo!Fill, Geo!Activate, Geo!Keep, Geo!Truncate, Geo!Copy, Geo!Goto,
              Geo!Shapes
<1>6. CASE Geo!Finish(r)
  BY <1>6 DEF Geo!Finish, Geo!Shapes
<1> QED
  BY <1>1, <1>2, <1>3, <1>4, <1>5, <1>6 DEF Acts

\* What is left of the requests when a process ends.
LEMMA Ends ==
  ASSUME Geo!Shapes, NEW s \in Geo!Sites, Geo!End(s)
  PROVE  /\ work' \in [Requests -> Geo!Work]
         /\ \A q \in Requests \ Geo!Busy(s) :
              /\ work'[q].pc = work[q].pc /\ work'[q].kind = work[q].kind
                 /\ work'[q].new = work[q].new
              /\ work'[q].site = work[q].site /\ work'[q].swap = work[q].swap
              /\ work'[q].left \subseteq work[q].left
         /\ \A q \in Geo!Busy(s) :
              \/ work'[q] = Geo!NoWork
              \/ /\ work'[q].pc = "next" /\ work'[q].kind = work[q].kind
                    /\ work'[q].new = work[q].new
                 /\ work'[q].site = work[q].site /\ work'[q].swap = work[q].swap
                 /\ work'[q].left = work[q].left
<1> DEFINE cut(q) == IF s # Geo!Panel THEN {} ELSE q.left
           spared(q) == [work[q] EXCEPT !.left = @ \ cut(work[q])]
           moved(q) == [work[q] EXCEPT !.pc = "next"]
<1>1. work' = [q \in Requests |-> IF q \notin Geo!Busy(s) THEN spared(q)
                                 ELSE IF s = Geo!Panel THEN Geo!NoWork ELSE moved(q)]
  BY DEF Geo!End
<1>2. ASSUME NEW q \in Requests
      PROVE  /\ spared(q) \in Geo!Work
             /\ spared(q).pc = work[q].pc /\ spared(q).kind = work[q].kind
                /\ spared(q).new = work[q].new
             /\ spared(q).site = work[q].site /\ spared(q).swap = work[q].swap
             /\ spared(q).left \subseteq work[q].left
  <2>1. cut(work[q]) \subseteq Nodes
    BY DEF Geo!Shapes, Geo!Work
  <2> HIDE DEF cut
  <2> QED
    BY <2>1 DEF Geo!Shapes, Geo!Work
<1>3. ASSUME NEW q \in Requests
      PROVE  /\ moved(q) \in Geo!Work /\ moved(q).pc = "next"
             /\ moved(q).kind = work[q].kind /\ moved(q).new = work[q].new
             /\ moved(q).site = work[q].site /\ moved(q).swap = work[q].swap
             /\ moved(q).left = work[q].left
  BY DEF Geo!Shapes, Geo!Work, Geo!Steps
<1>4. Geo!Busy(s) \subseteq Requests
  BY DEF Geo!Busy
<1> HIDE DEF spared, moved
<1>5. work' \in [Requests -> Geo!Work]
  BY <1>1, <1>2, <1>3, NoWorkIs
<1>6. \A q \in Requests \ Geo!Busy(s) : work'[q] = spared(q)
  BY <1>1
<1>7. \A q \in Geo!Busy(s) : work'[q] = Geo!NoWork \/ work'[q] = moved(q)
  BY <1>1, <1>4
<1> QED
  BY <1>2, <1>3, <1>4, <1>5, <1>6, <1>7

-----------------------------------------------------------------------------
(* The types.                                                              *)

\* The requests stay well formed.
LEMMA RequestsKept ==
  ASSUME Geo!TypeOK, Geo!Shapes, [Geo!Next]_Geo!vars
  PROVE  Geo!Shapes'
<1>1. ASSUME NEW r \in Requests, Acts(r)
      PROVE  work' \in [Requests -> Geo!Work] /\ Geo!WellFormed(work'[r])
  <2>1. work[r] \in Geo!Work /\ Geo!WellFormed(work[r])
    BY DEF Geo!Shapes
  <2>2. ASSUME NEW pc \in Geo!Steps, Geo!Goto(r, pc), work[r].pc # "idle",
               pc \in {"shift", "fill", "activate"} => work[r].kind = "upload",
               pc \in {"truncate", "copy"} => work[r].kind = "update",
               pc \in {"fill", "truncate", "copy"} => work[r].site = Geo!Panel
        PROVE  work' \in [Requests -> Geo!Work] /\ Geo!WellFormed(work'[r])
    BY <2>1, <2>2, GoesTo DEF Geo!WellFormed
  <2>3. CASE \E c \in Contents : Geo!Start(r, "upload", c) \/ Geo!Start(r, "update", c)
    <3>1. PICK c \in Contents : Geo!Start(r, "upload", c) \/ Geo!Start(r, "update", c)
      BY <2>3
    <3> QED
      BY <3>1, Starts DEF Geo!WellFormed, Geo!Entry
  <2>4. CASE Geo!Start(r, "rollback", Geo!None)
    BY <2>4, Starts DEF Geo!WellFormed, Geo!Entry
  <2>5. CASE \E n \in Nodes : Geo!NextNode(r, n)
    <3>1. PICK n \in Nodes : Geo!NextNode(r, n)
      BY <2>5
    <3> QED
      BY <2>1, <3>1, Visits DEF Geo!WellFormed, Geo!Entry
  <2>6. CASE Geo!Shift(r) \/ Geo!Fill(r) \/ Geo!Activate(r)
    <3>1. work[r].kind = "upload"
      BY <2>1, <2>6 DEF Geo!Shift, Geo!Fill, Geo!Activate, Geo!WellFormed
    <3>2. CASE Geo!Goto(r, "activate") \/ Geo!Goto(r, "restart")
      BY <2>2, <2>6, <3>1, <3>2 DEF Geo!Shift, Geo!Fill, Geo!Activate, Geo!Steps
    <3>3. CASE Geo!Goto(r, "fill") /\ work[r].site = Geo!Panel
      BY <2>2, <2>6, <3>1, <3>3 DEF Geo!Shift, Geo!Fill, Geo!Activate, Geo!Steps
    <3> QED
      BY <2>6, <3>2, <3>3 DEF Geo!Shift, Geo!Fill, Geo!Activate, Geo!Copied
  <2>7. ASSUME work[r].pc # "idle", Geo!Fail(r, work[r].site)
        PROVE  work' \in [Requests -> Geo!Work] /\ Geo!WellFormed(work'[r])
    BY <2>1, <2>7, Failing, NoWorkIs DEF Geo!WellFormed
  <2>8. CASE Geo!Swap(r)
    <3>1. CASE Geo!Fail(r, work[r].site)
      BY <2>7, <2>8, <3>1 DEF Geo!Swap
    <3>2. CASE work' = [work EXCEPT ![r].swap = live[work[r].site], ![r].pc = "restore"]
               /\ live[work[r].site] \in Geo!Files
      BY <2>1, <2>8, <3>2 DEF Geo!Swap, Geo!Shapes, Geo!Work, Geo!WellFormed, Geo!Steps
    <3>3. live[work[r].site] \in Geo!Files
      BY <2>1 DEF Geo!TypeOK, Geo!Work
    <3> QED
      BY <2>8, <3>1, <3>2, <3>3 DEF Geo!Swap
  <2>9. CASE Geo!Restore(r)
    <3>1. CASE Geo!Fail(r, work[r].site)
      BY <2>7, <2>9, <3>1 DEF Geo!Restore
    <3>2. CASE Geo!Goto(r, "restart") \/ Geo!Goto(r, "keep")
      BY <2>2, <2>9, <3>2 DEF Geo!Restore, Geo!Steps
    <3> QED
      BY <2>9, <3>1, <3>2 DEF Geo!Restore
  <2>10. CASE Geo!Keep(r) \/ Geo!Copy(r)
    BY <2>2, <2>10 DEF Geo!Keep, Geo!Copy, Geo!Steps
  <2>11. CASE Geo!Truncate(r)
    <3>1. work[r].kind = "update" /\ work[r].site = Geo!Panel /\ work[r].pc # "idle"
      BY <2>1, <2>11 DEF Geo!Truncate, Geo!WellFormed
    <3>2. Geo!Goto(r, "copy") \/ Geo!Goto(r, "restart")
      BY <2>11 DEF Geo!Truncate
    <3> QED
      BY <2>2, <3>1, <3>2 DEF Geo!Steps
  <2>12. CASE Geo!RestartCore(r)
    <3>1. CASE Geo!Fail(r, work[r].site)
      BY <2>7, <2>12, <3>1 DEF Geo!RestartCore
    <3>2. CASE Geo!Goto(r, "next")
      BY <2>2, <2>12, <3>2 DEF Geo!RestartCore, Geo!Steps
    <3> QED
      BY <2>12, <3>1, <3>2 DEF Geo!RestartCore
  <2>13. CASE Geo!Finish(r)
    BY <2>13, NoWorkIs DEF Geo!Finish, Geo!Shapes
  <2> QED
    BY <1>1, <2>3, <2>4, <2>5, <2>6, <2>8, <2>9, <2>10, <2>11, <2>12, <2>13 DEF Acts
<1>2. CASE \E r \in Requests : Acts(r)
  <2>1. PICK r \in Requests : Acts(r)
    BY <1>2
  <2>2. \A q \in Requests \ {r} : Geo!WellFormed(work'[q])
    BY <2>1, OthersWork DEF Geo!Shapes
  <2> QED
    BY <1>1, <2>1, <2>2 DEF Geo!Shapes
<1>3. CASE \E s \in Geo!Sites : Geo!End(s)
  <2>1. PICK s \in Geo!Sites : Geo!End(s)
    BY <1>3
  <2>2. \A q \in Requests : Geo!WellFormed(work[q])
    BY DEF Geo!Shapes
  <2>3. \A q \in Requests \ Geo!Busy(s) : Geo!WellFormed(work'[q])
    BY <2>1, <2>2, Ends DEF Geo!WellFormed
  <2>4. \A q \in Geo!Busy(s) : Geo!WellFormed(work'[q])
    <3>1. \A q \in Geo!Busy(s) : q \in Requests /\ work[q].pc # "idle"
      BY DEF Geo!Busy
    <3> QED
      BY <2>1, <2>2, <3>1, Ends, NoWorkIs DEF Geo!WellFormed
  <2> QED
    BY <2>1, <2>3, <2>4, Ends DEF Geo!Shapes
<1>4. CASE UNCHANGED Geo!vars
  BY <1>4 DEF Geo!Shapes, Geo!vars
<1> QED
  BY <1>2, <1>3, <1>4, GeoSteps

\* A file changes only on the site of the step, into another file.
LEMMA FilesKept ==
  ASSUME Geo!TypeOK, Geo!Shapes, [Geo!Next]_Geo!vars
  PROVE  /\ live' \in [Geo!Sites -> Geo!Files] /\ backup' \in [Geo!Sites -> Geo!Files]
         /\ loaded' \in [Geo!Sites -> Geo!Files] /\ previous' \in [Geo!Sites -> Geo!Files]
<1>1. /\ live \in [Geo!Sites -> Geo!Files] /\ backup \in [Geo!Sites -> Geo!Files]
      /\ loaded \in [Geo!Sites -> Geo!Files] /\ previous \in [Geo!Sites -> Geo!Files]
  BY DEF Geo!TypeOK
<1>2. Geo!None \in Geo!Files /\ Geo!Torn \in Geo!Files /\ Default \in Geo!Files
      /\ Contents \subseteq Geo!Files
      /\ Geo!Panel \in Geo!Sites
  BY DEF Geo!Files, Geo!Sites
<1>3. \A r \in Requests :
        work[r].site \in Geo!Sites /\ work[r].swap \in Geo!Files /\ work[r].new \in Geo!Files
  BY <1>2 DEF Geo!Shapes, Geo!Work
<1>4. CASE UNCHANGED <<live, backup, loaded, previous>>
  BY <1>1, <1>4
<1>5. CASE \E r \in Requests : Geo!Shift(r)
  BY <1>1, <1>2, <1>3, <1>5 DEF Geo!Shift
<1>6. CASE \E r \in Requests : Geo!Fill(r)
  BY <1>1, <1>2, <1>3, <1>6 DEF Geo!Fill
<1>7. CASE \E r \in Requests : Geo!Activate(r) \/ Geo!Keep(r) \/ Geo!Truncate(r) \/ Geo!Copy(r)
  BY <1>1, <1>2, <1>3, <1>7 DEF Geo!Activate, Geo!Keep, Geo!Truncate, Geo!Copy, Geo!Renamed
<1>8. CASE \E r \in Requests : Geo!Swap(r)
  BY <1>1, <1>2, <1>3, <1>8 DEF Geo!Swap
<1>9. CASE \E r \in Requests : Geo!Restore(r)
  BY <1>1, <1>2, <1>3, <1>9 DEF Geo!Restore
<1>10. CASE \E r \in Requests : Geo!RestartCore(r)
  BY <1>1, <1>2, <1>3, <1>10 DEF Geo!RestartCore
<1>11. CASE \E s \in Geo!Sites : Geo!End(s)
  BY <1>1, <1>2, <1>11 DEF Geo!End
<1> QED
  BY <1>4, <1>5, <1>6, <1>7, <1>8, <1>9, <1>10, <1>11
  DEF Geo!Next, Geo!vars, Geo!Start, Geo!NextNode, Geo!Finish

\* The types are kept.
LEMMA GeoTypesKept ==
  ASSUME Geo!GeofilesAssumption, Geo!TypeOK, Geo!Shapes, [Geo!Next]_Geo!vars
  PROVE  Geo!TypeOK'
<1>1. Geo!Shapes'
  BY RequestsKept
<1>2. \A r \in Requests : work'[r].pc \in Geo!Steps
  BY <1>1 DEF Geo!Shapes, Geo!Work
<1>3. failures' \in 0 .. MaxFailures
  <2>1. UNCHANGED failures \/ (failures < MaxFailures /\ failures' = failures + 1)
    BY ZenonT(30) DEF Geo!Next, Geo!vars, Geo!Start, Geo!Shift, Geo!Fill, Geo!Activate, Geo!Swap,
           Geo!Restore, Geo!Keep, Geo!Truncate, Geo!Copy, Geo!RestartCore, Geo!NextNode,
           Geo!Finish, Geo!End
  <2> QED
    BY <2>1 DEF Geo!TypeOK, Geo!GeofilesAssumption
<1> QED
  BY <1>2, <1>3, FilesKept DEF Geo!TypeOK, Geo!Steps

-----------------------------------------------------------------------------
(* No torn file.                                                           *)

\* What was written in place stays on record.
LEMMA WrittenGrows ==
  ASSUME [Geo!Next]_Geo!vars
  PROVE  written \subseteq written'
BY DEF Geo!Next, Geo!vars, Geo!Start, Geo!Shift, Geo!Fill, Geo!Activate, Geo!Swap,
       Geo!Restore, Geo!Keep, Geo!Truncate, Geo!Copy, Geo!RestartCore, Geo!NextNode,
       Geo!Finish, Geo!End

\* A live file that is torn was torn before, or was written in place.
LEMMA NoNewTear ==
  ASSUME Geo!GeofilesAssumption, Geo!TypeOK, Geo!Shapes, Geo!Whole, [Geo!Next]_Geo!vars
  PROVE  Geo!NeverTorn'
<1> SUFFICES ASSUME NEW s \in Geo!Sites, live'[s] = Geo!Torn, s \notin written
             PROVE  s \in written'
  BY WrittenGrows DEF Geo!NeverTorn
<1>1. live[s] # Geo!Torn /\ \A r \in Requests : work[r].site = s => work[r].swap # Geo!Torn
  BY DEF Geo!Whole, Geo!NeverTorn
<1>2. live \in [Geo!Sites -> Geo!Files]
  BY DEF Geo!TypeOK
<1>3. Geo!None # Geo!Torn /\ Default # Geo!Torn /\ \A c \in Contents : c # Geo!Torn
  BY DEF Geo!GeofilesAssumption, Geo!None, Geo!Torn
<1>4. CASE UNCHANGED live
  BY <1>1, <1>4
<1>5. CASE \E r \in Requests : Geo!Shift(r) \/ Geo!Swap(r)
  BY <1>1, <1>2, <1>3, <1>5 DEF Geo!Shift, Geo!Swap
<1>6. CASE \E r \in Requests : Geo!Fill(r)
  BY <1>1, <1>2, <1>3, <1>6 DEF Geo!Fill
<1>7. CASE \E r \in Requests : Geo!Activate(r)
  <2>1. PICK r \in Requests : Geo!Activate(r)
    BY <1>7
  <2>2. work[r].new # Geo!Torn
    BY <1>3, <2>1 DEF Geo!Activate, Geo!Shapes, Geo!WellFormed
  <2> QED
    BY <1>1, <1>2, <2>1, <2>2 DEF Geo!Activate, Geo!Renamed
<1>8. CASE \E r \in Requests : Geo!Restore(r)
  <2>1. PICK r \in Requests : Geo!Restore(r)
    BY <1>8
  <2>2. CASE work[r].site # s
    BY <1>1, <1>2, <2>1, <2>2 DEF Geo!Restore
  <2>3. CASE work[r].site = s
    BY <1>1, <1>2, <1>3, <2>1, <2>3 DEF Geo!Restore
  <2> QED
    BY <2>2, <2>3
<1>9. CASE \E r \in Requests : Geo!Truncate(r)
  BY <1>1, <1>2, <1>9 DEF Geo!Truncate
<1>10. CASE \E r \in Requests : Geo!Copy(r)
  <2>1. PICK r \in Requests : Geo!Copy(r)
    BY <1>10
  <2>2. work[r].new # Geo!Torn
    BY <1>3, <2>1 DEF Geo!Copy, Geo!Shapes, Geo!WellFormed
  <2> QED
    BY <1>1, <1>2, <2>1, <2>2 DEF Geo!Copy
<1>11. CASE \E t \in Geo!Sites : Geo!End(t)
  BY <1>1, <1>2, <1>3, <1>11 DEF Geo!End
<1> QED
  BY <1>4, <1>5, <1>6, <1>7, <1>8, <1>9, <1>10, <1>11
  DEF Geo!Next, Geo!vars, Geo!Start, Geo!Keep, Geo!RestartCore, Geo!NextNode, Geo!Finish

\* A request that acts puts aside what was live, keeps what it has put aside
\* where it is, or has nothing.
LEMMA PutAside ==
  ASSUME Geo!Shapes, NEW r \in Requests, Acts(r)
  PROVE  \/ work'[r].swap = Geo!None
         \/ work'[r].site = work[r].site /\ work'[r].swap = work[r].swap
         \/ work'[r].site = work[r].site /\ work'[r].swap = live[work[r].site]
<1>1. CASE \E c \in Contents, kind \in {"upload", "update"} : Geo!Start(r, kind, c)
  BY <1>1, Starts
<1>2. CASE Geo!Start(r, "rollback", Geo!None)
  BY <1>2, Starts
<1>3. CASE \E n \in Nodes : Geo!NextNode(r, n)
  BY <1>3, Visits
<1>4. CASE Geo!Fail(r, work[r].site)
  BY <1>4, Failing, NoWorkIs
<1>5. CASE \E pc \in Geo!Steps : Geo!Goto(r, pc)
  BY <1>5, GoesTo
<1>6. CASE Geo!Finish(r)
  BY <1>6, NoWorkIs DEF Geo!Finish, Geo!Shapes
<1>7. CASE work' = [work EXCEPT ![r].swap = live[work[r].site], ![r].pc = "restore"]
  BY <1>7 DEF Geo!Shapes, Geo!Work
<1> QED
  BY <1>1, <1>2, <1>3, <1>4, <1>5, <1>6, <1>7
  DEF Acts, Geo!Shift, Geo!Fill, Geo!Activate, Geo!Swap, Geo!Restore, Geo!Keep, Geo!Truncate,
      Geo!Copy, Geo!RestartCore, Geo!Steps

\* Nor is a torn file put aside.
LEMMA WholeKept ==
  ASSUME Geo!GeofilesAssumption, Geo!TypeOK, Geo!Shapes, Geo!Whole, [Geo!Next]_Geo!vars
  PROVE  Geo!Whole'
<1>1. Geo!None # Geo!Torn
  BY DEF Geo!None, Geo!Torn
<1>2. ASSUME NEW r \in Requests, work'[r].swap = Geo!Torn
      PROVE  work'[r].site \in written'
  <2>1. work[r].swap = Geo!Torn => work[r].site \in written
    BY DEF Geo!Whole
  <2>2. CASE Acts(r)
    <3>1. work[r].site \in Geo!Sites
      BY DEF Geo!Shapes, Geo!Work
    <3> QED
      BY <1>1, <1>2, <2>1, <2>2, <3>1, PutAside, WrittenGrows DEF Geo!Whole, Geo!NeverTorn
  <2>3. CASE \E q \in Requests \ {r} : Acts(q)
    BY <1>2, <2>1, <2>3, OthersWork, WrittenGrows
  <2>4. CASE \E s \in Geo!Sites : Geo!End(s)
    BY <1>1, <1>2, <2>1, <2>4, Ends, NoWorkIs, WrittenGrows
  <2>5. CASE UNCHANGED Geo!vars
    BY <1>2, <2>1, <2>5 DEF Geo!vars
  <2> QED
    BY <2>2, <2>3, <2>4, <2>5, GeoSteps
<1> QED
  BY <1>2, NoNewTear DEF Geo!Whole

-----------------------------------------------------------------------------
(* The core reads the file.                                                *)

\* What is on record stays there.
LEMMA RecordGrows ==
  ASSUME [Geo!Next]_Geo!vars
  PROVE  failed \subseteq failed' /\ overlap \subseteq overlap'
BY ZenonT(30) DEF Geo!Next, Geo!vars, Geo!Start, Geo!Enter, Geo!Shift, Geo!Fill, Geo!Activate, Geo!Swap,
       Geo!Restore, Geo!Keep, Geo!Truncate, Geo!Copy, Geo!RestartCore, Geo!NextNode,
       Geo!Finish, Geo!End, Geo!Fail

\* A request changes nothing but on its site, and nothing there before it has
\* begun and when it is through.
LEMMA OnItsSite ==
  ASSUME Geo!TypeOK, Geo!Shapes, NEW r \in Requests, Acts(r), NEW s \in Geo!Sites,
         work[r].site # s \/ work[r].pc \in {"idle", "next"}
  PROVE  /\ live'[s] = live[s] /\ loaded'[s] = loaded[s]
         /\ backup'[s] = backup[s] /\ previous'[s] = previous[s]
<1>1. CASE UNCHANGED <<live, loaded, backup, previous>>
  BY <1>1
<1>0. live \in [Geo!Sites -> Geo!Files] /\ backup \in [Geo!Sites -> Geo!Files]
      /\ loaded \in [Geo!Sites -> Geo!Files]
      /\ previous \in [Geo!Sites -> Geo!Files]
  BY DEF Geo!TypeOK
<1>2. CASE Geo!Fill(r) \/ Geo!Truncate(r) \/ Geo!Copy(r)
  <2>1. work[r].site = Geo!Panel /\ work[r].pc \notin {"idle", "next"}
    BY <1>2 DEF Geo!Fill, Geo!Truncate, Geo!Copy, Geo!Shapes, Geo!WellFormed
  <2>2. Geo!Panel # s
    BY <2>1
  <2> QED
    BY <1>0, <1>2, <2>2 DEF Geo!Fill, Geo!Truncate, Geo!Copy
<1>3. CASE Geo!Shift(r) \/ Geo!Activate(r) \/ Geo!Swap(r) \/ Geo!Restore(r) \/ Geo!Keep(r)
           \/ Geo!RestartCore(r)
  <2>1. work[r].site # s
    BY <1>3 DEF Geo!Shift, Geo!Activate, Geo!Swap, Geo!Restore, Geo!Keep, Geo!RestartCore
  <2> QED
    BY <1>0, <1>3, <2>1 DEF Geo!Shift, Geo!Activate, Geo!Swap, Geo!Restore, Geo!Keep,
                            Geo!RestartCore
<1> QED
  BY <1>1, <1>2, <1>3 DEF Acts, Geo!Start, Geo!NextNode, Geo!Finish

\* A request that changes files goes on doing so until the core has been
\* restarted, or has failed.
LEMMA GoesOn ==
  ASSUME Geo!TypeOK, Geo!Shapes, NEW r \in Requests, Acts(r),
         work[r].pc \notin {"idle", "next"}
  PROVE  \/ work[r].site \in failed'
         \/ work'[r].site = work[r].site /\ work'[r].pc \notin {"idle", "next"}
         \/ loaded'[work[r].site] = live'[work[r].site]
<1>1. CASE Geo!Fail(r, work[r].site)
  BY <1>1 DEF Geo!Fail
<1>2. CASE \E pc \in Geo!Steps \ {"idle", "next"} : Geo!Goto(r, pc)
  BY <1>2, GoesTo
<1>3. CASE work' = [work EXCEPT ![r].swap = live[work[r].site], ![r].pc = "restore"]
  BY <1>3 DEF Geo!Shapes, Geo!Work
<1>4. CASE Geo!RestartCore(r)
  <2>1. Geo!MustRestart(r) /\ work[r].site \in Geo!Sites
    BY <1>4 DEF Geo!RestartCore, Geo!MustRestart, Geo!Shapes, Geo!WellFormed, Geo!Work
  <2> QED
    BY <1>1, <1>4, <2>1 DEF Geo!RestartCore, Geo!TypeOK
<1> QED
  BY <1>1, <1>2, <1>3, <1>4
  DEF Acts, Geo!Start, Geo!Shift, Geo!Fill, Geo!Activate, Geo!Swap, Geo!Restore, Geo!Keep,
      Geo!Truncate, Geo!Copy, Geo!NextNode, Geo!Finish, Geo!Steps

\* What has been changed on a site is still going to be read there.
LEMMA ReadKept ==
  ASSUME Geo!TypeOK, Geo!Shapes, Geo!WillBeRead, [Geo!Next]_Geo!vars
  PROVE  Geo!WillBeRead'
<1> SUFFICES ASSUME NEW s \in Geo!Sites, s \notin failed', loaded'[s] # live'[s]
             PROVE  \E q \in Requests :
                       work'[q].site = s /\ work'[q].pc \notin {"idle", "next"}
  BY DEF Geo!WillBeRead, Geo!Changing
<1>1. s \notin failed
  BY RecordGrows
<1>2. loaded[s] # live[s] =>
        \E q \in Requests : work[q].site = s /\ work[q].pc \notin {"idle", "next"}
  BY <1>1 DEF Geo!WillBeRead, Geo!Changing
<1>3. CASE \E r \in Requests : Acts(r)
  <2>1. PICK r \in Requests : Acts(r)
    BY <1>3
  <2>2. CASE work[r].site = s /\ work[r].pc \notin {"idle", "next"}
    BY <2>1, <2>2, GoesOn
  <2>3. CASE ~(work[r].site = s /\ work[r].pc \notin {"idle", "next"})
    <3>1. loaded[s] # live[s]
      BY <2>1, <2>3, OnItsSite
    <3>2. PICK q \in Requests : work[q].site = s /\ work[q].pc \notin {"idle", "next"}
      BY <1>2, <3>1
    <3>3. q # r
      BY <2>3, <3>2
    <3> QED
      BY <2>1, <3>2, <3>3, OthersWork
  <2> QED
    BY <2>2, <2>3
<1>4. CASE \E t \in Geo!Sites : Geo!End(t)
  <2>1. PICK t \in Geo!Sites : Geo!End(t)
    BY <1>4
  <2>2. CASE t = s
    BY <2>1, <2>2 DEF Geo!End, Geo!TypeOK
  <2>3. CASE t # s
    <3>1. loaded[s] # live[s]
      BY <2>1, <2>3 DEF Geo!End, Geo!TypeOK
    <3>2. PICK q \in Requests : work[q].site = s /\ work[q].pc \notin {"idle", "next"}
      BY <1>2, <3>1
    <3>3. q \notin Geo!Busy(t)
      BY <2>3, <3>2 DEF Geo!Busy
    <3> QED
      BY <2>1, <3>2, <3>3, Ends
  <2> QED
    BY <2>2, <2>3
<1>5. CASE UNCHANGED Geo!vars
  BY <1>2, <1>5 DEF Geo!vars
<1> QED
  BY <1>3, <1>4, <1>5, GeoSteps

-----------------------------------------------------------------------------
(* A change can be undone.                                                 *)

\* What the only request on a site, if there is one, leaves there.
LEMMA ByItself ==
  ASSUME NEW s, NEW r, Geo!Busy(s)' \subseteq {r},
         Geo!Busy(s)' = {} =>
           backup'[s] = previous'[s] /\ (s # Geo!Panel => live'[s] # Geo!None),
         s # Geo!Panel /\ work'[r].pc \notin {"activate", "restore"} => live'[s] # Geo!None,
         work'[r].pc \notin {"fill", "restore", "keep"} => backup'[s] = previous'[s],
         work'[r].pc = "fill" =>
           backup'[s] = Geo!Torn /\ previous'[s] = Default /\ live'[s] = Geo!None,
         work'[r].pc = "restore" =>
           backup'[s] # Geo!None /\ live'[s] = Geo!None /\ previous'[s] = work'[r].swap,
         work'[r].pc = "keep" => previous'[s] = work'[r].swap
  PROVE  Geo!Undoable(s)'
<1>1. CASE Geo!Busy(s)' = {}
  BY <1>1 DEF Geo!Undoable
<1>2. CASE Geo!Busy(s)' = {r}
  BY <1>2 DEF Geo!Undoable
<1> QED
  BY <1>1, <1>2

\* Where nothing changes about the requests and the files of a site.
LEMMA LeftAlone ==
  ASSUME NEW s, Geo!Undoable(s), Geo!Busy(s)' = Geo!Busy(s),
         \A q \in Geo!Busy(s) : work'[q].pc = work[q].pc /\ work'[q].swap = work[q].swap,
         live'[s] = live[s] \/ (live'[s] # Geo!None /\ Geo!Busy(s) = {}),
         backup'[s] = backup[s], previous'[s] = previous[s]
  PROVE  Geo!Undoable(s)'
<1>1. CASE Geo!Busy(s) = {}
  BY <1>1 DEF Geo!Undoable, Geo!None, Geo!Panel, Geo!Torn
<1>2. CASE live'[s] = live[s]
  BY <1>2 DEF Geo!Undoable, Geo!None, Geo!Panel, Geo!Torn
<1> QED
  BY <1>1, <1>2

\* A request that is alone on a site does its next step there.
LEMMA AloneThere ==
  ASSUME Geo!GeofilesAssumption, Geo!TypeOK, Geo!Shapes, Geo!OneByOne, NEW r \in Requests,
         Acts(r),
         NEW s \in Geo!Sites, r \in Geo!Busy(s), Geo!Undoable(s),
         s \notin overlap' \cup written' \cup failed',
         s \notin written
  PROVE  Geo!Undoable(s)'
<1>1. Geo!Busy(s) = {r} /\ work[r].site = s /\ work[r].pc # "idle"
  BY DEF Geo!Busy, Geo!Undoable
<1>2. Geo!Busy(s)' \subseteq {r}
  BY <1>1, OthersWork DEF Geo!Busy
<1>3. work'[r].pc \notin {"idle"} /\ work'[r].site = s => Geo!Busy(s)' = {r}
  BY <1>2 DEF Geo!Busy
<1>4. live \in [Geo!Sites -> Geo!Files] /\ backup \in [Geo!Sites -> Geo!Files]
      /\ previous \in [Geo!Sites -> Geo!Files]
  BY DEF Geo!TypeOK
<1>5. /\ s # Geo!Panel /\ work[r].pc \notin {"activate", "restore"} => live[s] # Geo!None
      /\ work[r].pc \notin {"fill", "restore", "keep"} => backup[s] = previous[s]
      /\ work[r].pc = "fill" => backup[s] = Geo!Torn /\ previous[s] = Default
         /\ live[s] = Geo!None
      /\ work[r].pc = "restore" => backup[s] # Geo!None /\ live[s] = Geo!None
         /\ previous[s] = work[r].swap
      /\ work[r].pc = "keep" => previous[s] = work[r].swap
  BY <1>1 DEF Geo!Undoable
<1>6. Geo!None # Geo!Torn /\ Default # Geo!Torn /\ Default # Geo!None
      /\ \A c \in Contents : c # Geo!None /\ c # Geo!Torn
  BY DEF Geo!GeofilesAssumption, Geo!None, Geo!Torn
<1>7. ASSUME NEW pc \in Geo!Steps, Geo!Goto(r, pc)
      PROVE  work'[r].pc = pc /\ work'[r].swap = work[r].swap /\ work'[r].site = s
  BY <1>1, <1>7, GoesTo
<1>8. CASE Geo!Shift(r)
  <2>1. CASE live[s] # Geo!None
    <3>1. work'[r].pc = "activate" /\ backup'[s] = live[s] /\ previous'[s] = live[s]
          /\ work'[r].site = s
      BY <1>1, <1>4, <1>7, <1>8, <2>1 DEF Geo!Shift, Geo!Steps
    <3> QED
      BY <1>2, <1>3, <3>1, ByItself
  <2>2. CASE live[s] = Geo!None
    <3>1. s = Geo!Panel
      BY <1>5, <1>8, <2>2 DEF Geo!Shift
    <3>2. /\ work'[r].pc = "fill" /\ work'[r].site = s
          /\ backup'[s] = Geo!Torn /\ previous'[s] = Default /\ live'[s] = Geo!None
      BY <1>1, <1>4, <1>7, <1>8, <2>2, <3>1 DEF Geo!Shift, Geo!Copied, Geo!Steps
    <3> QED
      BY <1>2, <1>3, <3>1, <3>2, ByItself
  <2> QED
    BY <2>1, <2>2
<1>9. CASE Geo!Fill(r)
  <2>1. s = Geo!Panel
    BY <1>1, <1>9 DEF Geo!Fill, Geo!Shapes, Geo!WellFormed
  <2>2. work'[r].pc = "activate" /\ work'[r].site = s /\ backup'[s] = Default
        /\ previous'[s] = Default
    BY <1>4, <1>5, <1>7, <1>9, <2>1 DEF Geo!Fill, Geo!Steps
  <2> QED
    BY <1>2, <1>3, <2>1, <2>2, ByItself
<1>10. CASE Geo!Activate(r)
  <2>1. work[r].new # Geo!None
    BY <1>6, <1>10 DEF Geo!Activate, Geo!Shapes, Geo!WellFormed
  <2>2. /\ work'[r].pc = "restart" /\ work'[r].site = s
        /\ backup'[s] = previous'[s] /\ live'[s] # Geo!None
    BY <1>1, <1>4, <1>5, <1>7, <1>10, <2>1 DEF Geo!Activate, Geo!Renamed, Geo!Steps
  <2> QED
    BY <1>2, <1>3, <2>2, ByItself
<1>11. CASE Geo!Swap(r)
  <2>1. ~Geo!Fail(r, s)
    BY DEF Geo!Fail
  <2>2. /\ backup[s] # Geo!None /\ backup' = backup /\ live'[s] = Geo!None
           /\ previous'[s] = live[s]
        /\ work' = [work EXCEPT ![r].swap = live[s], ![r].pc = "restore"]
    BY <1>1, <1>4, <1>11, <2>1 DEF Geo!Swap
  <2>3. work'[r].pc = "restore" /\ work'[r].swap = live[s] /\ work'[r].site = s
    BY <1>1, <2>2 DEF Geo!Shapes, Geo!Work
  <2> QED
    BY <1>2, <1>3, <2>2, <2>3, ByItself
<1>12. CASE Geo!Restore(r)
  <2>1. ~Geo!Fail(r, s)
    BY DEF Geo!Fail
  <2>2. /\ backup[s] # Geo!None /\ live'[s] = backup[s] /\ backup'[s] = Geo!None
           /\ previous' = previous
        /\ Geo!Goto(r, IF work[r].swap = Geo!None THEN "restart" ELSE "keep")
        /\ work[r].pc = "restore"
    BY <1>1, <1>4, <1>12, <2>1 DEF Geo!Restore
  <2>3. CASE work[r].swap = Geo!None
    <3>1. work'[r].pc = "restart" /\ work'[r].site = s
      BY <1>7, <2>2, <2>3 DEF Geo!Steps
    <3>2. backup'[s] = previous'[s]
      BY <1>5, <2>2, <2>3
    <3> QED
      BY <1>2, <1>3, <2>2, <3>1, <3>2, ByItself
  <2>4. CASE work[r].swap # Geo!None
    <3>1. work'[r].pc = "keep" /\ work'[r].site = s /\ work'[r].swap = work[r].swap
      BY <1>7, <2>2, <2>4 DEF Geo!Steps
    <3> QED
      BY <1>2, <1>3, <1>5, <2>2, <3>1, ByItself
  <2> QED
    BY <2>3, <2>4
<1>13. CASE Geo!Keep(r)
  <2>1. /\ work'[r].pc = "restart" /\ work'[r].site = s
        /\ backup'[s] = previous'[s] /\ live'[s] = live[s]
    BY <1>1, <1>4, <1>5, <1>7, <1>13 DEF Geo!Keep, Geo!Steps
  <2> QED
    BY <1>2, <1>3, <1>5, <1>13, <2>1, ByItself DEF Geo!Keep
<1>14. CASE Geo!Truncate(r)
  <2>1. s = Geo!Panel
    BY <1>1, <1>14 DEF Geo!Truncate, Geo!Shapes, Geo!WellFormed
  <2>2. Geo!Goto(r, "restart") /\ UNCHANGED <<live, backup, previous>>
        /\ work[r].pc = "truncate"
    BY <1>14, <2>1 DEF Geo!Truncate
  <2>3. work'[r].pc = "restart" /\ work'[r].site = s
    BY <1>7, <2>2 DEF Geo!Steps
  <2> QED
    BY <1>2, <1>3, <1>5, <2>1, <2>2, <2>3, ByItself
<1>15. CASE Geo!Copy(r)
  BY <1>1, <1>15 DEF Geo!Copy, Geo!OneByOne
<1>16. CASE Geo!RestartCore(r)
  <2>1. ~Geo!Fail(r, s)
    BY DEF Geo!Fail
  <2>2. Geo!Goto(r, "next") /\ UNCHANGED <<live, backup, previous>> /\ work[r].pc = "restart"
    BY <1>1, <1>16, <2>1 DEF Geo!RestartCore
  <2>3. work'[r].pc = "next" /\ work'[r].site = s
    BY <1>7, <2>2 DEF Geo!Steps
  <2> QED
    BY <1>2, <1>3, <1>5, <2>2, <2>3, ByItself
<1>17. CASE \E n \in Nodes : Geo!NextNode(r, n)
  <2>1. PICK n \in Nodes : Geo!NextNode(r, n)
    BY <1>17
  <2>2. work[r].pc = "next" /\ UNCHANGED <<live, backup, previous>>
    BY <2>1 DEF Geo!NextNode
  <2>3. work'[r].pc \in {"shift", "swap", "next"}
    BY <2>1, Visits DEF Geo!Entry
  <2> QED
    BY <1>2, <1>5, <2>2, <2>3, ByItself
<1>18. CASE Geo!Finish(r)
  <2>1. work[r].pc = "next" /\ UNCHANGED <<live, backup, previous>> /\ work'[r] = Geo!NoWork
    BY <1>18 DEF Geo!Finish, Geo!Shapes
  <2>2. work'[r].pc = "idle"
    BY <2>1, NoWorkIs
  <2> QED
    BY <1>2, <1>5, <2>1, <2>2, ByItself
<1>19. ~(\E kind \in {"upload", "rollback", "update"}, c \in Contents \cup {Geo!None} :
            Geo!Start(r, kind, c))
  BY <1>1 DEF Geo!Start
<1> QED
  BY <1>8, <1>9, <1>10, <1>11, <1>12, <1>13, <1>14, <1>15, <1>16, <1>17, <1>18, <1>19 DEF Acts

\* A request that comes to a site is at its first step there, and is on record
\* when it is not alone.
LEMMA Arrives ==
  ASSUME Geo!Shapes, NEW r \in Requests, Acts(r), NEW s \in Geo!Sites, r \notin Geo!Busy(s),
         r \in Geo!Busy(s)'
  PROVE  /\ work'[r].pc \in {"shift", "swap", "truncate"}
         /\ Geo!Busy(s) # {} => s \in overlap'
<1>1. work'[r].pc # "idle" /\ work'[r].site = s /\ (work[r].pc = "idle" \/ work[r].site # s)
  BY DEF Geo!Busy
<1>2. Geo!Busy(s) \ {r} = Geo!Busy(s)
  OBVIOUS
<1>3. ASSUME NEW c \in Contents, Geo!Start(r, "upload", c) \/ Geo!Start(r, "update", c)
      PROVE  /\ work'[r].pc \in {"shift", "swap", "truncate"}
             /\ Geo!Busy(s) # {} => s \in overlap'
  BY <1>1, <1>2, <1>3, Starts DEF Geo!Entry
<1>4. CASE Geo!Start(r, "rollback", Geo!None)
  BY <1>1, <1>2, <1>4, Starts DEF Geo!Entry
<1>5. ASSUME NEW n \in Nodes, Geo!NextNode(r, n)
      PROVE  /\ work'[r].pc \in {"shift", "swap", "truncate"}
             /\ Geo!Busy(s) # {} => s \in overlap'
  BY <1>1, <1>2, <1>5, Visits DEF Geo!Entry
<1>6. ~Geo!Fail(r, work[r].site) \/ work[r].pc = "idle"
  BY <1>1, Failing, NoWorkIs
<1>7. ASSUME NEW pc \in Geo!Steps, Geo!Goto(r, pc)
      PROVE  work[r].pc = "idle"
  BY <1>1, <1>7, GoesTo
<1>8. ~Geo!Finish(r)
  BY <1>1, NoWorkIs DEF Geo!Finish, Geo!Shapes
<1>9. ~Geo!Swap(r)
  <2>1. SUFFICES ASSUME Geo!Swap(r) PROVE FALSE
    OBVIOUS
  <2>2. work' = [work EXCEPT ![r].swap = live[work[r].site], ![r].pc = "restore"]
    BY <1>1, <1>6, <2>1 DEF Geo!Swap
  <2> QED
    BY <1>1, <2>1, <2>2 DEF Geo!Swap, Geo!Shapes, Geo!Work
<1>10. ~(Geo!Shift(r) \/ Geo!Fill(r) \/ Geo!Activate(r) \/ Geo!Keep(r) \/ Geo!Truncate(r)
       \/ Geo!Copy(r))
  BY <1>7 DEF Geo!Shift, Geo!Fill, Geo!Activate, Geo!Keep, Geo!Truncate, Geo!Copy, Geo!Steps
<1>11. ~(Geo!Restore(r) \/ Geo!RestartCore(r))
  BY <1>6, <1>7 DEF Geo!Restore, Geo!RestartCore, Geo!Steps
<1> QED
  BY <1>3, <1>4, <1>5, <1>8, <1>9, <1>10, <1>11 DEF Acts

\* A request that is not at work on a site leaves what is there as it is, or
\* comes to it alone.
LEMMA AwayFrom ==
  ASSUME Geo!TypeOK, Geo!Shapes, NEW r \in Requests, Acts(r), NEW s \in Geo!Sites,
         r \notin Geo!Busy(s),
         Geo!Undoable(s), s \notin overlap'
  PROVE  Geo!Undoable(s)'
<1>1. work[r].site # s \/ work[r].pc = "idle"
  BY DEF Geo!Busy
<1>2. live'[s] = live[s] /\ backup'[s] = backup[s] /\ previous'[s] = previous[s]
  BY <1>1, OnItsSite
<1>3. \A q \in Requests \ {r} : work'[q] = work[q]
  BY OthersWork
<1>4. CASE r \in Geo!Busy(s)'
  <2>1. work'[r].pc \in {"shift", "swap", "truncate"} /\ Geo!Busy(s) = {}
    BY <1>4, Arrives
  <2>2. Geo!Busy(s)' \subseteq {r}
    BY <1>3, <2>1 DEF Geo!Busy
  <2>3. backup[s] = previous[s] /\ (s # Geo!Panel => live[s] # Geo!None)
    BY <2>1 DEF Geo!Undoable
  <2> QED
    BY <1>2, <2>1, <2>2, <2>3, ByItself
<1>5. CASE r \notin Geo!Busy(s)'
  <2>1. Geo!Busy(s)' = Geo!Busy(s)
    BY <1>3, <1>5 DEF Geo!Busy
  <2>2. \A q \in Geo!Busy(s) : q \in Requests /\ q # r
    BY DEF Geo!Busy
  <2>3. \A q \in Geo!Busy(s) : work'[q].pc = work[q].pc /\ work'[q].swap = work[q].swap
    BY <1>3, <2>2
  <2> QED
    BY <1>2, <2>1, <2>3, LeftAlone
<1> QED
  BY <1>4, <1>5

\* The process that ends had no request at work, or is on record; elsewhere
\* nothing changes.
LEMMA EndsElsewhere ==
  ASSUME Geo!GeofilesAssumption, Geo!TypeOK, Geo!Shapes, NEW t \in Geo!Sites, Geo!End(t),
         NEW s \in Geo!Sites,
         Geo!Undoable(s), s \notin overlap'
  PROVE  Geo!Undoable(s)'
<1>1. backup'[s] = backup[s] /\ previous'[s] = previous[s]
  BY DEF Geo!End
<1>2. Geo!Busy(t) \cap Geo!Busy(s) = {}
  <2>1. CASE t = s
    BY <2>1 DEF Geo!End
  <2>2. CASE t # s
    BY <2>2 DEF Geo!Busy
  <2> QED
    BY <2>1, <2>2
<1>3. \A q \in Geo!Busy(s) : q \in Requests \ Geo!Busy(t)
  BY <1>2 DEF Geo!Busy
<1>4. \A q \in Geo!Busy(s) : work'[q].pc = work[q].pc /\ work'[q].swap = work[q].swap
  BY <1>3, Ends
<1>5. ASSUME NEW q \in Requests
      PROVE  q \in Geo!Busy(s)' <=> q \in Geo!Busy(s)
  <2>1. CASE q \notin Geo!Busy(t)
    <3>1. work'[q].pc = work[q].pc /\ work'[q].site = work[q].site
      BY <2>1, Ends
    <3> QED
      BY <3>1 DEF Geo!Busy
  <2>2. CASE q \in Geo!Busy(t)
    <3>1. q \notin Geo!Busy(s) /\ t # s
      BY <1>2, <2>2
    <3>2. work[q].site = t
      BY <2>2 DEF Geo!Busy
    <3>3. work'[q].pc = "idle" \/ work'[q].site = t
      BY <2>2, <3>2, Ends, NoWorkIs
    <3> QED
      BY <3>1, <3>3 DEF Geo!Busy
  <2> QED
    BY <2>1, <2>2
<1>6. Geo!Busy(s)' = Geo!Busy(s)
  BY <1>5 DEF Geo!Busy
<1>7. live'[s] = live[s] \/ (live'[s] # Geo!None /\ Geo!Busy(s) = {})
  <2>1. CASE t = s
    <3>1. Geo!Busy(s) = {}
      BY <1>2, <2>1
    <3>2. live' = live \/ live' = [live EXCEPT ![s] = Default]
      BY <2>1 DEF Geo!End
    <3> QED
      BY <3>1, <3>2 DEF Geo!TypeOK, Geo!GeofilesAssumption
  <2>2. CASE t # s
    BY <2>2 DEF Geo!End, Geo!TypeOK
  <2> QED
    BY <2>1, <2>2
<1> QED
  BY <1>1, <1>4, <1>6, <1>7, LeftAlone

\* A file is being written in place where that is on record.
LEMMA CopyKept ==
  ASSUME Geo!TypeOK, Geo!Shapes, Geo!OneByOne, [Geo!Next]_Geo!vars, NEW r \in Requests,
         work'[r].pc = "copy"
  PROVE  work'[r].site \in written'
<1>1. work[r].pc = "copy" => work[r].site \in written
  BY DEF Geo!OneByOne
<1>2. CASE Acts(r)
  <2>1. CASE Geo!Truncate(r)
    <3>1. work[r].site = Geo!Panel
      BY <2>1 DEF Geo!Truncate, Geo!Shapes, Geo!WellFormed
    <3>2. Geo!Goto(r, "copy") \/ Geo!Goto(r, "restart")
      BY <2>1 DEF Geo!Truncate
    <3>3. ~Geo!Goto(r, "restart") /\ (Geo!Goto(r, "copy") => work'[r].site = Geo!Panel)
      BY <3>1, GoesTo DEF Geo!Steps
    <3> QED
      BY <2>1, <3>2, <3>3, GoesTo DEF Geo!Truncate, Geo!Steps
  <2>2. ~(\E c \in Contents : Geo!Start(r, "upload", c) \/ Geo!Start(r, "update", c))
    BY Starts DEF Geo!Entry
  <2>3. ~Geo!Start(r, "rollback", Geo!None)
    BY Starts DEF Geo!Entry
  <2>4. ~(\E n \in Nodes : Geo!NextNode(r, n))
    BY Visits DEF Geo!Entry
  <2>5. ~Geo!Finish(r)
    BY NoWorkIs DEF Geo!Finish, Geo!Shapes
  <2>6. ~Geo!Fail(r, work[r].site)
    BY Failing, NoWorkIs
  <2>7. ASSUME NEW pc \in Geo!Steps, Geo!Goto(r, pc) PROVE pc = "copy"
    BY <2>7, GoesTo
  <2>8. ~Geo!Swap(r)
    <3>1. work' # [work EXCEPT ![r].swap = live[work[r].site], ![r].pc = "restore"]
      BY DEF Geo!Shapes, Geo!Work
    <3> QED
      BY <2>6, <3>1 DEF Geo!Swap
  <2>9. ~(Geo!Shift(r) \/ Geo!Fill(r) \/ Geo!Activate(r) \/ Geo!Keep(r) \/ Geo!Copy(r)
        \/ Geo!Restore(r) \/ Geo!RestartCore(r))
    BY <2>6, <2>7 DEF Geo!Shift, Geo!Fill, Geo!Activate, Geo!Keep, Geo!Copy, Geo!Restore,
                      Geo!RestartCore, Geo!Steps
  <2> QED
    BY <1>2, <2>1, <2>2, <2>3, <2>4, <2>5, <2>8, <2>9 DEF Acts
<1>3. CASE \E q \in Requests \ {r} : Acts(q)
  BY <1>1, <1>3, OthersWork, WrittenGrows
<1>4. CASE \E s \in Geo!Sites : Geo!End(s)
  BY <1>1, <1>4, Ends, NoWorkIs, WrittenGrows
<1>5. CASE UNCHANGED Geo!vars
  BY <1>1, <1>5 DEF Geo!vars
<1> QED
  BY <1>2, <1>3, <1>4, <1>5, GeoSteps

\* A site where requests follow one another stays one.
LEMMA OneByOneKept ==
  ASSUME Geo!GeofilesAssumption, Geo!TypeOK, Geo!Shapes, Geo!OneByOne, [Geo!Next]_Geo!vars
  PROVE  Geo!OneByOne'
<1>1. ASSUME NEW s \in Geo!Sites, s \notin overlap' \cup written' \cup failed'
      PROVE  Geo!Undoable(s)'
  <2>1. s \notin overlap \cup written \cup failed
    BY <1>1, RecordGrows, WrittenGrows
  <2>2. Geo!Undoable(s)
    BY <2>1 DEF Geo!OneByOne
  <2>3. CASE \E r \in Requests : Acts(r)
    BY <1>1, <2>1, <2>2, <2>3, AloneThere, AwayFrom
  <2>4. CASE \E t \in Geo!Sites : Geo!End(t)
    BY <1>1, <2>2, <2>4, EndsElsewhere
  <2>5. CASE UNCHANGED Geo!vars
    BY <2>2, <2>5 DEF Geo!vars, Geo!Undoable, Geo!Busy
  <2> QED
    BY <2>3, <2>4, <2>5, GeoSteps
<1>2. \A s \in (Geo!Sites \ (overlap \cup written \cup failed))' : Geo!Undoable(s)'
  BY <1>1
<1>3. \A r \in Requests : work'[r].pc = "copy" => work'[r].site \in written'
  BY CopyKept
<1> QED
  BY <1>2, <1>3 DEF Geo!OneByOne

-----------------------------------------------------------------------------
(* The invariant.                                                          *)

\* It holds at the start: nobody is at work, and every core has read its file.
LEMMA FilesInit ==
  ASSUME Geo!GeofilesAssumption, Geo!Init
  PROVE  Geo!FilesInv
<1>1. /\ live \in [Geo!Sites -> Geo!Files] /\ backup \in [Geo!Sites -> Geo!Files]
         /\ loaded \in [Geo!Sites -> Geo!Files]
      /\ previous \in [Geo!Sites -> Geo!Files] /\ failures \in 0 .. MaxFailures
  BY DEF Geo!Init, Geo!Files, Geo!GeofilesAssumption
<1>2. work \in [Requests -> Geo!Work] /\ \A r \in Requests : work[r] = Geo!NoWork
  BY NoWorkIs DEF Geo!Init
<1>3. Geo!TypeOK /\ Geo!Shapes
  BY <1>1, <1>2, NoWorkIs DEF Geo!TypeOK, Geo!Shapes
<1>4. \A s \in Geo!Sites :
        /\ live[s] # Geo!Torn /\ loaded[s] = live[s] /\ backup[s] = previous[s]
        /\ s # Geo!Panel => live[s] # Geo!None
  BY DEF Geo!Init, Geo!GeofilesAssumption, Geo!None, Geo!Torn
<1>5. \A s \in Geo!Sites : Geo!Busy(s) = {}
  BY <1>2, NoWorkIs DEF Geo!Busy
<1>6. Geo!Whole
  <2>1. \A r \in Requests : work[r].swap # Geo!Torn
    BY <1>2, NoWorkIs DEF Geo!None, Geo!Torn
  <2> QED
    BY <1>4, <2>1 DEF Geo!Whole, Geo!NeverTorn
<1>7. Geo!WillBeRead
  BY <1>4 DEF Geo!WillBeRead
<1>8. ASSUME NEW s \in Geo!Sites
      PROVE  Geo!Undoable(s)
  BY <1>4, <1>5 DEF Geo!Undoable
<1> QED
  BY <1>2, <1>3, <1>6, <1>7, <1>8, NoWorkIs DEF Geo!FilesInv, Geo!OneByOne

\* Every step keeps it.
LEMMA FilesNext ==
  ASSUME Geo!GeofilesAssumption, Geo!FilesInv, [Geo!Next]_Geo!vars
  PROVE  Geo!FilesInv'
BY GeoTypesKept, RequestsKept, WholeKept, ReadKept, OneByOneKept DEF Geo!FilesInv

\* However requests to replace a database interleave, fail or are cut off, on
\* any number of workers, the inductive invariant holds
\* (web/service/server.go, node/api/server.go).
THEOREM FilesInvariant ==
  ASSUME Geo!GeofilesAssumption
  PROVE  Geo!Spec => []Geo!FilesInv
<1>1. Geo!Init => Geo!FilesInv
  BY FilesInit
<1>2. Geo!FilesInv /\ [Geo!Next]_Geo!vars => Geo!FilesInv'
  BY FilesNext
<1> QED
  BY <1>1, <1>2, PTL DEF Geo!Spec

\* A core never finds a half-written file but where one is written in place;
\* where no request is at work or has failed, the core has read the file that
\* is there; and what was replaced last is the backup, where requests came one
\* by one.
THEOREM FilesInOrder ==
  ASSUME Geo!GeofilesAssumption
  PROVE  Geo!Spec => []Geo!GeofilesInOrder
<1>1. Geo!FilesInv => Geo!GeofilesInOrder
  <2> SUFFICES ASSUME Geo!FilesInv
               PROVE  Geo!GeofilesInOrder
    OBVIOUS
  <2>1. Geo!Cores \subseteq Geo!Sites
    BY DEF Geo!Cores, Geo!Sites
  <2>2. \A s \in Geo!Sites : Geo!Changing(s) \subseteq Geo!Busy(s)
    BY DEF Geo!Changing, Geo!Busy
  <2>3. Geo!CoreReadsTheFile
    BY <2>1, <2>2 DEF Geo!CoreReadsTheFile, Geo!FilesInv, Geo!WillBeRead
  <2>4. Geo!CanBeUndone
    BY DEF Geo!CanBeUndone, Geo!FilesInv, Geo!OneByOne, Geo!Undoable
  <2> QED
    BY <2>3, <2>4 DEF Geo!GeofilesInOrder, Geo!FilesInv, Geo!Whole
<1> QED
  BY <1>1, FilesInvariant, PTL

-----------------------------------------------------------------------------
(* A WireGuard inbound (Wireguard), whose clients and settings the same    *)
(* server keeps: PeersFollowClients, ShownStillWorks and AddressesDistinct *)
(* for any numbers of handlers, clients, addresses, changes and failures.  *)

VARIABLES active, settings, keys, handling, shown, toggles, saves, losses, raced, reasons

Wg(of) == INSTANCE Wireguard WITH
  Handlers <- of.Handlers, Names <- of.Names, Servers <- of.Servers, Pool <- of.Pool,
  Given <- of.Given, MaxToggles <- of.MaxToggles, MaxEdits <- of.MaxEdits,
  MaxFaults <- of.MaxFaults,
  made <- keys, task <- handling, edits <- saves, faults <- losses, excuses <- reasons

-----------------------------------------------------------------------------
(* The addresses that a merge gives out.                                   *)

LEMMA CountsAlike ==
  ASSUME NEW CONSTANT of, NEW S
  PROVE  /\ Wg(of)!Cardinality(S) = Cardinality(S)
         /\ Wg(of)!IsFiniteSet(S) <=> IsFiniteSet(S)
BY DEF Wg!Cardinality, Cardinality, Wg!IsFiniteSet, IsFiniteSet

\* A set of numbers has a least one.
LEMMA LeastIs ==
  ASSUME NEW T, T \subseteq Nat, T # {}
  PROVE  \E m \in T : \A k \in T : m <= k
<1>1. PICK n : n \in T
  OBVIOUS
<1> DEFINE I == 0 .. n
<1> DEFINE Early(k) == {j \in I : j <= k}
<1> DEFINE U == {Early(k) : k \in {j \in T : j <= n}}
<1>2. IsWellFoundedOn(StrictSubsetOrdering(I), FiniteSubsetsOf(I))
  BY FS_StrictSubsetOrderingWellFounded
<1>3. U \subseteq FiniteSubsetsOf(I)
  <2>1. IsFiniteSet(I)
    BY <1>1, FS_Interval
  <2>2. \A X \in U : X \in SUBSET I
    OBVIOUS
  <2> HIDE DEF I, U
  <2>3. \A X \in SUBSET I : IsFiniteSet(X)
    BY <2>1, FS_Subset
  <2> QED
    BY <2>2, <2>3 DEF FiniteSubsetsOf
<1>4. U # {}
  <2>1. n \in {j \in T : j <= n}
    BY <1>1
  <2>2. Early(n) \in U
    BY <2>1
  <2> QED
    BY <2>2
<1>5. PICK X \in U : \A Y \in U : <<Y, X>> \notin StrictSubsetOrdering(I)
  <2> HIDE DEF U, I
  <2> QED
    BY <1>2, <1>3, <1>4, WFMin
<1>6. PICK m \in T : m <= n /\ X = Early(m)
  OBVIOUS
<1>7. ASSUME NEW k \in T, k < m PROVE FALSE
  <2>1. Early(k) \in U
    <3>1. k \in {j \in T : j <= n}
      BY <1>1, <1>6, <1>7
    <3> QED
      BY <3>1
  <2>2. m \in Early(m) /\ m \notin Early(k) /\ Early(k) \subseteq Early(m)
    BY <1>1, <1>6, <1>7
  <2>3. <<Early(k), X>> \in StrictSubsetOrdering(I)
    BY <2>2, <1>6 DEF StrictSubsetOrdering
  <2> QED
    BY <2>1, <2>3, <1>5
<1> QED
  BY <1>6, <1>7

LEMMA MinIs ==
  ASSUME NEW CONSTANT of, NEW T, T \subseteq Nat, T # {}
  PROVE  Wg(of)!Min(T) \in T
BY LeastIs DEF Wg!Min

LEMMA FreeIs ==
  ASSUME NEW CONSTANT of, Wg(of)!WireguardAssumption, NEW used
  PROVE  /\ Wg(of)!Free(used) \in of.Pool
         /\ ~(of.Pool \subseteq used) => Wg(of)!Free(used) \notin used
<1>1. of.Pool \subseteq Nat /\ of.Pool # {}
  BY DEF Wg!WireguardAssumption
<1>2. CASE of.Pool \subseteq used
  BY <1>1, <1>2, MinIs DEF Wg!Free
<1>3. CASE ~(of.Pool \subseteq used)
  <2>1. of.Pool \ used # {} /\ of.Pool \ used \subseteq Nat
    BY <1>1, <1>3
  <2>2. Wg(of)!Min(of.Pool \ used) \in of.Pool \ used
    BY <2>1, MinIs
  <2> QED
    BY <1>3, <2>2 DEF Wg!Free
<1> QED
  BY <1>2, <1>3

LEMMA OrderIs ==
  ASSUME NEW CONSTANT of, Wg(of)!WireguardAssumption
  PROVE  /\ \A c \in Wg(of)!Clients : ~Wg(of)!Before(c, c)
         /\ \A c, d \in Wg(of)!Clients :
              c # d => Wg(of)!Before(c, d) \/ Wg(of)!Before(d, c)
         /\ \A c, d \in Wg(of)!Clients : Wg(of)!Before(c, d) => ~Wg(of)!Before(d, c)
<1>1. \A i \in DOMAIN of.Names : i \in Nat
  BY DEF Wg!WireguardAssumption
<1>2. \A i, j \in DOMAIN of.Names : of.Names[i] = of.Names[j] => i = j
  BY DEF Wg!WireguardAssumption
<1>3. \A c \in Wg(of)!Clients : \E i \in DOMAIN of.Names : of.Names[i] = c
  BY DEF Wg!Clients, Wg!Range
<1> QED
  BY <1>1, <1>2, <1>3 DEF Wg!Before

\* Addresses can be given in turn.
LEMMA HostsExist ==
  ASSUME NEW CONSTANT of, Wg(of)!WireguardAssumption, NEW used,
         NEW N, N \subseteq Wg(of)!Clients
  PROVE  \E hosts \in [N -> of.Pool] : Wg(of)!InTurn(used, hosts)
<1> DEFINE L == Len(of.Names)
<1>1. L \in Nat /\ DOMAIN of.Names = 1 .. L
  BY DEF Wg!WireguardAssumption
<1>2. \A i, j \in DOMAIN of.Names : of.Names[i] = of.Names[j] => i = j
  BY DEF Wg!WireguardAssumption
<1> DEFINE Foremost(k) == {c \in N : \E i \in DOMAIN of.Names : i <= k /\ of.Names[i] = c}
           Served(k) == \E hosts \in [Foremost(k) -> of.Pool] : Wg(of)!InTurn(used, hosts)
           T == {k \in 0 .. L : ~Served(k)}
<1>3. Foremost(L) = N
  BY <1>1 DEF Wg!Clients, Wg!Range
<1> HIDE DEF L
<1> SUFFICES ASSUME T # {} PROVE FALSE
  <2>1. L \notin T
    OBVIOUS
  <2>2. L \in 0 .. L
    BY <1>1
  <2>3. Served(L)
    BY <2>1, <2>2
  <2> HIDE DEF Foremost
  <2> QED
    BY <1>3, <2>3
<1>4. T \subseteq Nat
  BY <1>1
<1>5. PICK m \in T : \A k \in T : m <= k
  <2> HIDE DEF T
  <2> QED
    BY <1>4, LeastIs
<1>6. m \in 0 .. L /\ ~Served(m)
  BY <1>5
<1>7. m # 0
  <2> SUFFICES ASSUME m = 0 PROVE FALSE
    OBVIOUS
  <2>1. Foremost(m) = {}
    BY <1>1
  <2>2. [c \in {} |-> 0] \in [{} -> of.Pool] /\ Wg(of)!InTurn(used, [c \in {} |-> 0])
    BY DEF Wg!InTurn
  <2> HIDE DEF Foremost
  <2> QED
    BY <1>6, <2>1, <2>2
<1>8. m - 1 \in 0 .. L /\ ~(m <= m - 1)
  BY <1>1, <1>6, <1>7
<1>9. Served(m - 1)
  BY <1>5, <1>8
<1>10. PICK old \in [Foremost(m - 1) -> of.Pool] : Wg(of)!InTurn(used, old)
  BY <1>9
<1> DEFINE d == of.Names[m]
<1>11. d \in N
  <2> SUFFICES ASSUME d \notin N PROVE FALSE
    OBVIOUS
  <2>1. Foremost(m) = Foremost(m - 1)
    BY <1>1, <1>6, <1>7
  <2> HIDE DEF Foremost
  <2> QED
    BY <1>6, <1>9, <2>1
<1>12. Foremost(m) = Foremost(m - 1) \cup {d} /\ d \notin Foremost(m - 1)
  BY <1>1, <1>2, <1>6, <1>7, <1>11
<1>13. \A b \in Foremost(m) : ~Wg(of)!Before(d, b)
  BY <1>1, <1>2, <1>6, <1>7 DEF Wg!Before
<1> HIDE DEF Foremost, d
<1> DEFINE Earlier(b) == {c \in Foremost(m - 1) : Wg(of)!Before(c, b)}
           new == [b \in Foremost(m) |-> IF b = d
                     THEN Wg(of)!Free(used \cup {old[c] : c \in Earlier(d)}) ELSE old[b]]
<1>14. new \in [Foremost(m) -> of.Pool]
  BY <1>12, FreeIs
<1>15. ASSUME NEW b \in Foremost(m)
       PROVE  new[b] = Wg(of)!Free(used \cup {new[c] : c \in {x \in Foremost(m) : Wg(of)!Before(x, b)}})
  <2>1. {x \in Foremost(m) : Wg(of)!Before(x, b)} = Earlier(b)
    BY <1>12, <1>13
  <2>2. \A c \in Earlier(b) : new[c] = old[c]
    BY <1>12
  <2>3. {new[c] : c \in Earlier(b)} = {old[c] : c \in Earlier(b)}
    BY <2>2
  <2>4. CASE b = d
    BY <2>1, <2>3, <2>4
  <2>5. CASE b # d
    <3>1. b \in Foremost(m - 1) /\ DOMAIN old = Foremost(m - 1)
      BY <1>12, <2>5, <1>10
    <3>2. old[b] = Wg(of)!Free(used \cup {old[c] : c \in Earlier(b)})
      BY <3>1, <1>10 DEF Wg!InTurn
    <3> QED
      BY <3>2, <2>1, <2>3, <2>5
  <2> QED
    BY <2>4, <2>5
<1>16. Wg(of)!InTurn(used, new)
  <2>1. DOMAIN new = Foremost(m)
    OBVIOUS
  <2> HIDE DEF new
  <2> QED
    BY <2>1, <1>15 DEF Wg!InTurn
<1> HIDE DEF new
<1> QED
  BY <1>6, <1>14, <1>16

LEMMA NewHostsAre ==
  ASSUME NEW CONSTANT of, Wg(of)!WireguardAssumption, NEW s, NEW entitled,
         entitled \subseteq Wg(of)!Clients
  PROVE  /\ Wg(of)!NewHosts(s, entitled) \in [Wg(of)!Needy(s, entitled) -> of.Pool]
         /\ Wg(of)!InTurn(Wg(of)!Used(s, entitled), Wg(of)!NewHosts(s, entitled))
<1>1. Wg(of)!Needy(s, entitled) \subseteq Wg(of)!Clients
  BY DEF Wg!Needy
<1>2. \E hosts \in [Wg(of)!Needy(s, entitled) -> of.Pool] :
        Wg(of)!InTurn(Wg(of)!Used(s, entitled), hosts)
  BY <1>1, HostsExist
<1> QED
  BY <1>2 DEF Wg!NewHosts

LEMMA ClientsAreFinite ==
  ASSUME NEW CONSTANT of, Wg(of)!WireguardAssumption
  PROVE  IsFiniteSet(Wg(of)!Clients)
<1> DEFINE D == DOMAIN of.Names
           f == [i \in D |-> of.Names[i]]
<1>1. D = 1 .. Len(of.Names) /\ Len(of.Names) \in Nat
  BY DEF Wg!WireguardAssumption
<1>2. IsFiniteSet(D)
  BY <1>1, FS_Interval
<1>3. f \in Surjection(D, Wg(of)!Clients)
  BY DEF Surjection, Wg!Clients, Wg!Range
<1> QED
  BY <1>2, <1>3, FS_Surjection

\* While there is an address for everybody, unowned gets one that is used.
LEMMA HostsApart ==
  ASSUME NEW CONSTANT of, Wg(of)!WireguardAssumption, NEW used,
         NEW N, N \subseteq Wg(of)!Clients, NEW hosts \in [N -> of.Pool],
         Wg(of)!InTurn(used, hosts),
         ~(Cardinality(N) > Cardinality(of.Pool \ used))
  PROVE  \A d \in N : /\ hosts[d] \notin used
                       /\ \A c \in N : c # d => hosts[c] # hosts[d]
<1> DEFINE Earlier(d) == {b \in N : Wg(of)!Before(b, d)}
           Taken(d) == {hosts[c] : c \in Earlier(d)}
<1>1. IsFiniteSet(N) /\ IsFiniteSet(of.Pool \ used)
  <2>1. IsFiniteSet(of.Pool)
    BY CountsAlike DEF Wg!WireguardAssumption
  <2> QED
    BY <2>1, ClientsAreFinite, FS_Subset
<1>2. ASSUME NEW d \in N PROVE hosts[d] \notin used /\ hosts[d] \notin Taken(d)
  <2>1. hosts[d] = Wg(of)!Free(used \cup Taken(d))
    BY DEF Wg!InTurn
  <2>2. ~(of.Pool \subseteq used \cup Taken(d))
    <3> SUFFICES ASSUME of.Pool \ used \subseteq Taken(d) PROVE FALSE
      OBVIOUS
    <3>1. d \notin Earlier(d) /\ Earlier(d) \in SUBSET N
      BY OrderIs
    <3>2. IsFiniteSet(Earlier(d)) /\ Cardinality(Earlier(d)) < Cardinality(N)
      <4> HIDE DEF Earlier
      <4>1. /\ IsFiniteSet(Earlier(d)) /\ Cardinality(Earlier(d)) <= Cardinality(N)
            /\ Cardinality(Earlier(d)) # Cardinality(N)
        BY <1>1, <3>1, FS_Subset
      <4> QED
        BY <1>1, <4>1, FS_CardinalityType
    <3> DEFINE f == [c \in Earlier(d) |-> hosts[c]]
    <3>3. f \in Surjection(Earlier(d), Taken(d))
      BY DEF Surjection
    <3> HIDE DEF f, Taken, Earlier
    <3>4. IsFiniteSet(Taken(d)) /\ Cardinality(Taken(d)) <= Cardinality(Earlier(d))
      BY <3>2, <3>3, FS_Surjection
    <3>5. Cardinality(of.Pool \ used) <= Cardinality(Taken(d))
      BY <3>4, FS_Subset
    <3>6. /\ Cardinality(N) \in Nat /\ Cardinality(of.Pool \ used) \in Nat
          /\ Cardinality(Taken(d)) \in Nat /\ Cardinality(Earlier(d)) \in Nat
      BY <1>1, <3>2, <3>4, FS_CardinalityType
    <3> QED
      BY <3>2, <3>4, <3>5, <3>6
  <2> QED
    BY <2>1, <2>2, FreeIs
<1> QED
  BY <1>2, OrderIs

LEMMA PeerOfIs ==
  ASSUME NEW CONSTANT of, Wg(of)!WireguardAssumption, NEW s, Wg(of)!IsSettings(s),
         NEW entitled, entitled \subseteq Wg(of)!Clients, NEW c \in entitled, NEW free,
         c \in Wg(of)!Needy(s, entitled) => free \in of.Pool,
         NEW p, p = Wg(of)!PeerOf(s, c, free)
  PROVE  /\ p = Wg(of)!Peer(p.name, p.key, p.host) /\ p.name = c /\ p.host \in of.Pool
         /\ c \in Wg(of)!Needy(s, entitled) => p.host = free
         /\ c \notin Wg(of)!Needy(s, entitled) => p \in s.peers
         /\ \A q \in s.peers : q.name = c /\ q.host # 0 => q = p
<1> DEFINE mine == Wg(of)!Named(s.peers, c)
           old == CHOOSE q \in mine : TRUE
<1>1. \A q \in mine : /\ q \in s.peers /\ q = Wg(of)!Peer(q.name, q.key, q.host)
                      /\ q.name = c /\ q.host \in {0} \cup of.Pool
                      /\ mine = {q}
  BY DEF Wg!IsSettings, Wg!Proper, Wg!Named, Wg!WireguardAssumption, Wg!NoHost
<1>2. \A q \in s.peers : q.name = c => q \in mine
  BY DEF Wg!Named
<1>3. 0 \notin of.Pool
  BY DEF Wg!WireguardAssumption, Wg!NoHost
<1>4. c \in Wg(of)!Needy(s, entitled) <=> \A q \in mine : q.host = 0
  BY DEF Wg!Needy, Wg!NoHost
<1>5. p = IF mine = {} THEN Wg(of)!Peer(c, Wg(of)!Key(c, keys[c] + 1), free)
          ELSE IF old.host = 0 THEN [old EXCEPT !.host = free] ELSE old
  BY DEF Wg!PeerOf, Wg!NoHost
<1> HIDE DEF mine
<1>6. CASE mine = {}
  BY <1>2, <1>3, <1>4, <1>5, <1>6 DEF Wg!Peer
<1>7. CASE mine # {}
  <2>1. PICK q \in mine : mine = {q} /\ old = q
    BY <1>1, <1>7
  <2>2. CASE q.host = 0
    <3>1. p = [q EXCEPT !.host = free] /\ free \in of.Pool
      BY <1>4, <1>5, <1>7, <2>1, <2>2
    <3>2. p = Wg(of)!Peer(c, q.key, free)
      BY <1>1, <3>1, <2>1 DEF Wg!Peer
    <3>3. p.name = c /\ p.key = q.key /\ p.host = free
      BY <3>2 DEF Wg!Peer
    <3>4. c \in Wg(of)!Needy(s, entitled)
      BY <1>4, <2>1, <2>2
    <3>5. \A r \in s.peers : r.name = c => r.host = 0
      BY <1>2, <2>1, <2>2
    <3> QED
      BY <3>1, <3>2, <3>3, <3>4, <3>5
  <2>3. CASE q.host # 0
    <3>1. p = q
      BY <1>5, <1>7, <2>1, <2>3
    <3> QED
      BY <1>1, <1>2, <1>4, <2>1, <2>3, <3>1
  <2> QED
    BY <2>2, <2>3
<1> QED
  BY <1>6, <1>7

\* What a merge makes of the settings.
LEMMA MergeIs ==
  ASSUME NEW CONSTANT of, Wg(of)!WireguardAssumption, NEW s, Wg(of)!IsSettings(s),
         NEW entitled, entitled \subseteq Wg(of)!Clients,
         NEW m, m = Wg(of)!Merge(s, entitled)
  PROVE  /\ Wg(of)!IsSettings(m) /\ m.server = s.server
         /\ Wg(of)!Named(m.peers, Wg(of)!Manual) = Wg(of)!Named(s.peers, Wg(of)!Manual)
         /\ \A c \in entitled : Cardinality(Wg(of)!Named(m.peers, c)) = 1
         /\ \A p \in m.peers : p.name \in entitled \cup {Wg(of)!Manual}
         /\ \A p \in s.peers : p.name \in entitled /\ p.host # 0 => p \in m.peers
         /\ Wg(of)!Apart(s)
            /\ ~(Cardinality(Wg(of)!Needy(s, entitled))
                   > Cardinality(of.Pool \ Wg(of)!Used(s, entitled)))
            => Wg(of)!Apart(m)
<1> DEFINE hosts == Wg(of)!NewHosts(s, entitled)
           N == Wg(of)!Needy(s, entitled)
           used == Wg(of)!Used(s, entitled)
           unowned == Wg(of)!Named(s.peers, Wg(of)!Manual)
           PeerFor(c) == Wg(of)!PeerOf(s, c, hosts[c])
<1>1. hosts \in [N -> of.Pool] /\ Wg(of)!InTurn(used, hosts)
  BY NewHostsAre
<1>2. \A c \in entitled :
        /\ PeerFor(c) = Wg(of)!Peer(PeerFor(c).name, PeerFor(c).key, PeerFor(c).host)
        /\ PeerFor(c).name = c
        /\ PeerFor(c).host \in of.Pool /\ (c \in N => PeerFor(c).host = hosts[c])
        /\ c \notin N => PeerFor(c) \in s.peers
        /\ \A q \in s.peers : q.name = c /\ q.host # 0 => q = PeerFor(c)
  <2> HIDE DEF hosts, N
  <2> TAKE c \in entitled
  <2>1. c \in N => hosts[c] \in of.Pool
    BY <1>1
  <2> QED
    BY <2>1, PeerOfIs DEF N
<1>3. m = [server |-> s.server, peers |-> unowned \cup {PeerFor(c) : c \in entitled}]
  <2>1. s = [server |-> s.server, peers |-> s.peers]
    BY DEF Wg!IsSettings
  <2>2. m = [s EXCEPT !.peers = unowned \cup {PeerFor(c) : c \in entitled}]
    BY DEF Wg!Merge
  <2> QED
    BY <2>1, <2>2
<1>4. /\ Wg(of)!Manual \notin Wg(of)!Clients /\ 0 \notin of.Pool /\ 0 \notin of.Servers
      /\ s.server.address \in of.Servers
  BY DEF Wg!WireguardAssumption, Wg!IsSettings, Wg!NoHost
<1>5. \A p \in s.peers : /\ p = Wg(of)!Peer(p.name, p.key, p.host)
                         /\ p.name \in Wg(of)!Clients \cup {Wg(of)!Manual}
                         /\ p.host \in {0} \cup of.Pool
  BY DEF Wg!IsSettings, Wg!Proper, Wg!NoHost
<1>6. unowned = {p \in s.peers : p.name = Wg(of)!Manual}
  BY DEF Wg!Named
<1> HIDE DEF PeerFor, hosts, N, used, unowned
<1>7. m.server = s.server /\ m.peers = unowned \cup {PeerFor(c) : c \in entitled}
  BY <1>3
<1>8. \A p \in m.peers : \/ p \in unowned
                         \/ p.name \in entitled /\ p = PeerFor(p.name)
  BY <1>2, <1>7
<1>9. Wg(of)!IsSettings(m)
  <2>1. \A p \in m.peers : /\ p = Wg(of)!Peer(p.name, p.key, p.host)
                           /\ p.name \in Wg(of)!Clients \cup {Wg(of)!Manual}
                           /\ p.host \in {0} \cup of.Pool
    BY <1>2, <1>5, <1>6, <1>7
  <2>2. \A p, q \in m.peers : p.name = q.name /\ p.name # Wg(of)!Manual => p = q
    BY <1>6, <1>8
  <2> QED
    BY <1>3, <1>4, <1>7, <2>1, <2>2 DEF Wg!IsSettings, Wg!Proper, Wg!NoHost
<1>10. Wg(of)!Named(m.peers, Wg(of)!Manual) = unowned
  BY <1>2, <1>4, <1>6, <1>7 DEF Wg!Named
<1>11. ASSUME NEW c \in entitled PROVE Cardinality(Wg(of)!Named(m.peers, c)) = 1
  <2>1. Wg(of)!Named(m.peers, c) = {PeerFor(c)}
    BY <1>2, <1>4, <1>6, <1>7 DEF Wg!Named
  <2> QED
    BY <2>1, FS_Singleton
<1>12. \A p \in m.peers : p.name \in entitled \cup {Wg(of)!Manual}
  BY <1>2, <1>6, <1>7
<1>13. \A p \in s.peers : p.name \in entitled /\ p.host # 0 => p \in m.peers
  BY <1>2, <1>7
<1>14. ASSUME Wg(of)!Apart(s), ~(Cardinality(N) > Cardinality(of.Pool \ used))
       PROVE  Wg(of)!Apart(m)
  <2>1. \A d \in N : hosts[d] \notin used /\ \A c \in N : c # d => hosts[c] # hosts[d]
    <3>1. N \subseteq Wg(of)!Clients
      BY DEF N, Wg!Needy
    <3> QED
      BY <1>1, <1>14, <3>1, HostsApart
  <2>2. /\ s.server.address \in used
        /\ \A p \in s.peers : p.name \in entitled \cup {Wg(of)!Manual} => p.host \in used
    BY DEF used, Wg!Used
  <2>3. /\ \A p, q \in s.peers : p # q /\ p.host # 0 => p.host # q.host
        /\ \A p \in s.peers : p.host # s.server.address
    BY <1>14 DEF Wg!Apart, Wg!Distinct, Wg!NoHost
  <2> DEFINE Fresh(p) == p.name \in N /\ p.host = hosts[p.name]
             Stays(p) == p \in s.peers /\ p.host \in used
  <2>4. \A p \in m.peers : Fresh(p) \/ Stays(p)
    BY <1>2, <1>6, <1>8, <2>2
  <2>5. \A p \in m.peers : p.host # m.server.address
    BY <1>7, <2>1, <2>2, <2>3, <2>4
  <2>6. ASSUME NEW p \in m.peers, NEW q \in m.peers, p # q, p.host # 0
        PROVE  p.host # q.host
    <3>1. CASE Fresh(p) /\ Fresh(q)
      <4>1. p.name # q.name
        BY <1>4, <1>6, <1>8, <2>6, <3>1 DEF N, Wg!Needy
      <4> QED
        BY <2>1, <3>1, <4>1
    <3>2. CASE Stays(p) /\ Stays(q)
      BY <2>3, <2>6, <3>2
    <3> QED
      BY <2>1, <2>4, <3>1, <3>2
  <2> QED
    BY <2>5, <2>6 DEF Wg!Apart, Wg!Distinct, Wg!NoHost
<1> QED
  BY <1>7, <1>9, <1>10, <1>11, <1>12, <1>13, <1>14 DEF N, used, unowned

-----------------------------------------------------------------------------
(* What a step does to the tasks.                                          *)

LEMMA TunnelSteps ==
  ASSUME NEW CONSTANT of, [Wg(of)!Next]_(Wg(of)!vars)
  PROVE  \/ \E h \in of.Handlers :
              \/ Wg(of)!Toggle(h) \/ Wg(of)!Edit(h) \/ Wg(of)!ReadInbound(h)
              \/ Wg(of)!Build(h) \/ Wg(of)!ReadOld(h) \/ Wg(of)!Save(h) \/ Wg(of)!Fails(h)
         \/ \E c \in Wg(of)!Clients : Wg(of)!Look(c)
         \/ UNCHANGED Wg(of)!vars
BY DEF Wg!Next

\* A handler goes on.
LEMMA TaskGoesOn ==
  ASSUME NEW CONSTANT of, Wg(of)!Shaped, NEW h \in of.Handlers, NEW step, NEW draft,
         handling' = [handling EXCEPT ![h].pc = step, ![h].draft = draft]
  PROVE  /\ handling' = [g \in of.Handlers |-> handling'[g]]
         /\ handling'[h] = [pc |-> step, form |-> handling[h].form,
                            alone |-> handling[h].alone, draft |-> draft]
         /\ \A g \in of.Handlers \ {h} : handling'[g] = handling[g]
<1>1. /\ handling = [g \in of.Handlers |-> handling[g]]
      /\ handling[h] = [pc |-> handling[h].pc, form |-> handling[h].form,
                        alone |-> handling[h].alone, draft |-> handling[h].draft]
  BY DEF Wg!Shaped, Wg!IsTask
<1> QED
  BY <1>1

LEMMA TaskEnds ==
  ASSUME NEW CONSTANT of, Wg(of)!Shaped, NEW h \in of.Handlers,
         handling' = [handling EXCEPT ![h] = Wg(of)!NoTask]
  PROVE  /\ handling' = [g \in of.Handlers |-> handling'[g]]
         /\ handling'[h] = Wg(of)!NoTask
         /\ \A g \in of.Handlers \ {h} : handling'[g] = handling[g]
<1>1. handling = [g \in of.Handlers |-> handling[g]]
  BY DEF Wg!Shaped
<1> QED
  BY <1>1

\* A handler sets out.
LEMMA TaskSetsOut ==
  ASSUME NEW CONSTANT of, Wg(of)!Shaped, NEW h \in of.Handlers, NEW step, NEW form, NEW draft,
         Wg(of)!SetOut(h, step, form, draft)
  PROVE  /\ handling' = [g \in of.Handlers |-> handling'[g]]
         /\ handling'[h] = [pc |-> step, form |-> form,
                            alone |-> handling'[h].alone, draft |-> draft]
         /\ handling'[h].alone \in BOOLEAN /\ (handling'[h].alone <=> Wg(of)!Alone(h))
         /\ handling[h].pc = "idle"
         /\ \A g \in of.Handlers \ {h} :
              /\ handling'[g] = [pc |-> handling[g].pc, form |-> handling[g].form,
                                 alone |-> handling'[g].alone, draft |-> handling[g].draft]
              /\ handling'[g].alone \in BOOLEAN
              /\ handling'[g].alone <=> handling[g].pc = "idle"
         /\ raced' <=> raced \/ ~Wg(of)!Alone(h)
<1>1. \A g \in of.Handlers :
        handling[g] = [pc |-> handling[g].pc, form |-> handling[g].form,
                       alone |-> handling[g].alone, draft |-> handling[g].draft]
  BY DEF Wg!Shaped, Wg!IsTask
<1>2. PICK alone : alone = Wg(of)!Alone(h)
  OBVIOUS
<1>3. PICK idle : idle = [g \in of.Handlers |-> Wg(of)!Idle(g)]
  OBVIOUS
<1>4. alone \in BOOLEAN /\ \A g \in of.Handlers : idle[g] \in BOOLEAN
  BY <1>2, <1>3 DEF Wg!Alone, Wg!Idle
<1>5. handling' = [g \in of.Handlers |->
                     IF g = h THEN [pc |-> step, form |-> form, alone |-> alone,
                                    draft |-> draft]
                     ELSE [handling[g] EXCEPT !.alone = idle[g]]]
  BY <1>2, <1>3 DEF Wg!SetOut
<1>6. handling[h].pc = "idle" /\ (raced' <=> raced \/ ~Wg(of)!Alone(h))
  BY DEF Wg!SetOut, Wg!Idle
<1>7. \A g \in of.Handlers : idle[g] <=> handling[g].pc = "idle"
  BY <1>3 DEF Wg!Idle
<1>8. handling' = [g \in of.Handlers |-> handling'[g]]
  BY <1>5
<1>9. handling'[h] = [pc |-> step, form |-> form, alone |-> alone, draft |-> draft]
  BY <1>5
<1>10. ASSUME NEW g \in of.Handlers \ {h}
       PROVE  /\ handling'[g] = [pc |-> handling[g].pc, form |-> handling[g].form,
                                 alone |-> handling'[g].alone, draft |-> handling[g].draft]
              /\ handling'[g].alone = idle[g]
  <2>1. handling'[g] = [handling[g] EXCEPT !.alone = idle[g]]
    BY <1>5
  <2>2. PICK w : w = handling[g]
    OBVIOUS
  <2>3. w = [pc |-> w.pc, form |-> w.form, alone |-> w.alone, draft |-> w.draft]
    BY <1>1, <2>2
  <2>4. handling'[g] = [pc |-> w.pc, form |-> w.form, alone |-> idle[g], draft |-> w.draft]
    BY <2>1, <2>2, <2>3
  <2>5. handling'[g].alone = idle[g]
    BY <2>4
  <2> QED
    BY <2>2, <2>4, <2>5
<1>11. handling'[h].alone = alone
  BY <1>9
<1>12. handling'[h].alone \in BOOLEAN /\ (handling'[h].alone <=> Wg(of)!Alone(h))
  BY <1>2, <1>4, <1>11
<1> QED
  BY <1>4, <1>6, <1>7, <1>8, <1>9, <1>10, <1>11, <1>12

LEMMA ToggleIs ==
  ASSUME NEW CONSTANT of, Wg(of)!Shaped, NEW h \in of.Handlers, Wg(of)!Toggle(h)
  PROVE  /\ Wg(of)!SetOut(h, "due", FALSE, {})
         /\ active' \subseteq Wg(of)!Clients
         /\ shown' = [d \in DOMAIN shown' |-> shown'[d]] /\ DOMAIN shown' \subseteq active'
         /\ \A d \in DOMAIN shown' : d \in DOMAIN shown /\ shown'[d] = shown[d]
         /\ toggles' = toggles + 1 /\ UNCHANGED <<settings, reasons>>
<1>1. PICK c \in Wg(of)!Clients :
        /\ active' = (active \ {c}) \cup ({c} \ active)
        /\ shown' = [d \in DOMAIN shown \ {c} |-> shown[d]]
  BY DEF Wg!Toggle, Wg!Restrict
<1>2. active \subseteq Wg(of)!Clients /\ DOMAIN shown \subseteq active
  BY DEF Wg!Shaped
<1>3. active' \subseteq Wg(of)!Clients /\ DOMAIN shown' \subseteq active'
  BY <1>1, <1>2
<1>5. Wg(of)!SetOut(h, "due", FALSE, {})
  BY DEF Wg!Toggle
<1>6. toggles' = toggles + 1 /\ UNCHANGED <<settings, reasons>>
  BY DEF Wg!Toggle
<1> QED
  BY <1>1, <1>3, <1>5, <1>6

\* The peers of an inbound without their names.
Nameless(of, peers) == {[p EXCEPT !.name = Wg(of)!Manual] : p \in peers}

LEMMA NamelessAre ==
  ASSUME NEW CONSTANT of, Wg(of)!WireguardAssumption, NEW peers, Wg(of)!Proper(peers),
         NEW nameless, nameless = Nameless(of, peers)
  PROVE  /\ Wg(of)!Proper(nameless)
         /\ Wg(of)!Distinct(peers) => Wg(of)!Distinct(nameless)
         /\ \A q \in nameless : \E p \in peers : q.host = p.host
<1>1. \A p \in peers : [p EXCEPT !.name = Wg(of)!Manual] = Wg(of)!Peer(Wg(of)!Manual, p.key, p.host)
  BY DEF Wg!Proper, Wg!Peer
<1>2. nameless = {Wg(of)!Peer(Wg(of)!Manual, p.key, p.host) : p \in peers}
  BY <1>1 DEF Nameless
<1>3. \A a, b, c : Wg(of)!Peer(a, b, c).name = a /\ Wg(of)!Peer(a, b, c).key = b
                  /\ Wg(of)!Peer(a, b, c).host = c
  BY DEF Wg!Peer
<1>4. \A q \in nameless : \E p \in peers : q.host = p.host /\ q.name = Wg(of)!Manual
                                            /\ q = Wg(of)!Peer(q.name, q.key, q.host)
                                            /\ q = Wg(of)!Peer(Wg(of)!Manual, p.key, p.host)
  BY <1>2, <1>3
<1>5. Wg(of)!Proper(nameless)
  BY <1>4 DEF Wg!Proper
<1>6. ASSUME Wg(of)!Distinct(peers) PROVE Wg(of)!Distinct(nameless)
  <2> SUFFICES ASSUME NEW p \in nameless, NEW q \in nameless, p # q, p.host # 0
               PROVE  p.host # q.host
    BY DEF Wg!Distinct, Wg!NoHost
  <2>1. PICK r \in peers : p.host = r.host /\ p = Wg(of)!Peer(Wg(of)!Manual, r.key, r.host)
    BY <1>4
  <2>2. PICK s \in peers : q.host = s.host /\ q = Wg(of)!Peer(Wg(of)!Manual, s.key, s.host)
    BY <1>4
  <2>3. r # s
    BY <2>1, <2>2
  <2> QED
    BY <1>6, <2>1, <2>2, <2>3 DEF Wg!Distinct, Wg!NoHost
<1> QED
  BY <1>4, <1>5, <1>6

LEMMA EditIs ==
  ASSUME NEW CONSTANT of, Wg(of)!WireguardAssumption, Wg(of)!Shaped, NEW h \in of.Handlers,
         Wg(of)!Edit(h)
  PROVE  \E new :
           /\ Wg(of)!SetOut(h, "built", TRUE, {new})
           /\ Wg(of)!IsSettings(new)
           /\ reasons \subseteq reasons' /\ reasons' \subseteq reasons \cup {"moved", "handed"}
           /\ "moved" \notin reasons' => new.server.address = settings.server.address
           /\ "handed" \notin reasons' => new.peers = {}
           /\ Wg(of)!Apart(settings) /\ "moved" \notin reasons' => Wg(of)!Apart(new)
           /\ UNCHANGED <<active, settings, shown, toggles>>
<1>1. PICK a \in of.Servers, secret \in {0, 1}, peers \in {{}, Nameless(of, settings.peers)} :
        LET new == [server |-> [address |-> a, secret |-> secret], peers |-> peers] IN
        /\ Wg(of)!SetOut(h, "built", TRUE, {new})
        /\ reasons' = reasons
             \cup (IF a # settings.server.address THEN {"moved"} ELSE {})
             \cup (IF peers # {} THEN {"handed"} ELSE {})
  BY DEF Wg!Edit, Nameless
<1> DEFINE new == [server |-> [address |-> a, secret |-> secret], peers |-> peers]
<1>2. Wg(of)!IsSettings(settings) /\ Wg(of)!Proper(settings.peers)
  BY DEF Wg!Shaped, Wg!IsSettings
<1>3. /\ Wg(of)!Proper(peers)
      /\ Wg(of)!Distinct(settings.peers) => Wg(of)!Distinct(peers)
      /\ \A q \in peers : \E p \in settings.peers : q.host = p.host
  <2>1. CASE peers = {}
    BY <2>1 DEF Wg!Proper, Wg!Distinct
  <2>2. CASE peers = Nameless(of, settings.peers)
    BY <1>2, <2>2, NamelessAre
  <2> QED
    BY <2>1, <2>2
<1>5. Wg(of)!SetOut(h, "built", TRUE, {new})
  BY <1>1
<1>6. Wg(of)!IsSettings(new)
  <2>1. new.server = [address |-> a, secret |-> secret] /\ new.peers = peers
    OBVIOUS
  <2>2. new = [server |-> new.server, peers |-> new.peers] /\ new.server.address = a
    BY <2>1
  <2> HIDE DEF new
  <2> QED
    BY <1>3, <2>1, <2>2 DEF Wg!IsSettings
<1>7. Wg(of)!Apart(settings) /\ a = settings.server.address => Wg(of)!Apart(new)
  BY <1>3 DEF Wg!Apart
<1>8. UNCHANGED <<active, settings, shown, toggles>>
  BY DEF Wg!Edit
<1>9. new.server.address = a /\ new.peers = peers
  OBVIOUS
<1>10. /\ reasons \subseteq reasons' /\ reasons' \subseteq reasons \cup {"moved", "handed"}
       /\ "moved" \notin reasons' => a = settings.server.address
       /\ "handed" \notin reasons' => peers = {}
  BY <1>1
<1> HIDE DEF new
<1> QED
  BY <1>5, <1>6, <1>7, <1>8, <1>9, <1>10

LEMMA PreservedIs ==
  ASSUME NEW CONSTANT of, NEW new, Wg(of)!IsSettings(new), NEW old, Wg(of)!IsSettings(old),
         NEW m, m = Wg(of)!Preserved(new, old)
  PROVE  /\ Wg(of)!IsSettings(m) /\ m.server = new.server
         /\ m.peers = IF new.peers = {} THEN old.peers ELSE new.peers
<1>1. new = [server |-> new.server, peers |-> new.peers]
  BY DEF Wg!IsSettings
<1>2. CASE new.peers = {}
  <2>1. m = [server |-> new.server, peers |-> old.peers]
    BY <1>1, <1>2 DEF Wg!Preserved
  <2> QED
    BY <1>2, <2>1 DEF Wg!IsSettings
<1>3. CASE new.peers # {}
  BY <1>3 DEF Wg!Preserved
<1> QED
  BY <1>2, <1>3

LEMMA BuildIs ==
  ASSUME NEW CONSTANT of, Wg(of)!WireguardAssumption, Wg(of)!Shaped, NEW h \in of.Handlers,
         Wg(of)!Build(h)
  PROVE  \E s, m :
           /\ s \in handling[h].draft
           /\ handling[h].pc = "read"
           /\ handling' = [handling EXCEPT ![h].pc = "built", ![h].draft = {m}]
           /\ reasons \subseteq reasons' /\ reasons' \subseteq reasons \cup {"full"}
           /\ Wg(of)!IsSettings(m) /\ m.server = s.server
           /\ Wg(of)!Keep(s.peers, m.peers, active)
           /\ Wg(of)!Follow(m.peers, active)
           /\ Wg(of)!Apart(s) /\ "full" \notin reasons' => Wg(of)!Apart(m)
           /\ UNCHANGED <<active, settings, shown, toggles, raced>>
<1>1. PICK s \in handling[h].draft :
        /\ handling' = [handling EXCEPT ![h].pc = "built",
                                        ![h].draft = {Wg(of)!Merge(s, active)}]
        /\ reasons' = IF Wg(of)!Cardinality(Wg(of)!Needy(s, active))
                           > Wg(of)!Cardinality(of.Pool \ Wg(of)!Used(s, active))
                      THEN reasons \cup {"full"} ELSE reasons
  BY DEF Wg!Build
<1>2. Wg(of)!IsSettings(s) /\ active \subseteq Wg(of)!Clients
  BY DEF Wg!Shaped, Wg!IsTask
<1>3. PICK m : m = Wg(of)!Merge(s, active)
  OBVIOUS
<1>4. reasons \subseteq reasons' /\ reasons' \subseteq reasons \cup {"full"}
  BY <1>1
<1>5. "full" \notin reasons' =>
        ~(Cardinality(Wg(of)!Needy(s, active)) > Cardinality(of.Pool \ Wg(of)!Used(s, active)))
  BY <1>1, CountsAlike
<1>6. /\ Wg(of)!IsSettings(m) /\ m.server = s.server
      /\ Wg(of)!Named(m.peers, Wg(of)!Manual) = Wg(of)!Named(s.peers, Wg(of)!Manual)
      /\ \A c \in active : Cardinality(Wg(of)!Named(m.peers, c)) = 1
      /\ \A p \in m.peers : p.name \in active \cup {Wg(of)!Manual}
      /\ \A p \in s.peers : p.name \in active /\ p.host # 0 => p \in m.peers
      /\ Wg(of)!Apart(s) /\ "full" \notin reasons' => Wg(of)!Apart(m)
  BY <1>2, <1>3, <1>5, MergeIs
<1>7. Wg(of)!Follow(m.peers, active) /\ Wg(of)!Keep(s.peers, m.peers, active)
  BY <1>6, CountsAlike DEF Wg!Follow, Wg!Keep, Wg!NoHost
<1>8. handling[h].pc = "read" /\ UNCHANGED <<active, settings, shown, toggles, raced>>
  BY DEF Wg!Build
<1>9. handling' = [handling EXCEPT ![h].pc = "built", ![h].draft = {m}]
  BY <1>1, <1>3
<1> QED
  BY <1>4, <1>6, <1>7, <1>8, <1>9

LEMMA ReadOldIs ==
  ASSUME NEW CONSTANT of, Wg(of)!Shaped, NEW h \in of.Handlers, Wg(of)!ReadOld(h)
  PROVE  \E s, m :
           /\ s \in handling[h].draft
           /\ handling[h].pc = "built"
           /\ handling' = [handling EXCEPT ![h].pc = "saving", ![h].draft = {m}]
           /\ Wg(of)!IsSettings(m) /\ m.server = s.server
           /\ m.peers = IF s.peers = {} THEN settings.peers ELSE s.peers
           /\ UNCHANGED <<active, settings, shown, toggles, raced, reasons>>
<1>1. PICK s \in handling[h].draft :
        handling' = [handling EXCEPT ![h].pc = "saving",
                                     ![h].draft = {Wg(of)!Preserved(s, settings)}]
  BY DEF Wg!ReadOld
<1>2. Wg(of)!IsSettings(s) /\ Wg(of)!IsSettings(settings)
  BY DEF Wg!Shaped, Wg!IsTask
<1>3. PICK m : m = Wg(of)!Preserved(s, settings)
  OBVIOUS
<1>4. /\ Wg(of)!IsSettings(m) /\ m.server = s.server
      /\ m.peers = IF s.peers = {} THEN settings.peers ELSE s.peers
  BY <1>2, <1>3, PreservedIs
<1>5. handling[h].pc = "built" /\ UNCHANGED <<active, settings, shown, toggles, raced, reasons>>
  BY DEF Wg!ReadOld
<1>6. handling' = [handling EXCEPT ![h].pc = "saving", ![h].draft = {m}]
  BY <1>1, <1>3
<1> QED
  BY <1>4, <1>5, <1>6

LEMMA SaveIs ==
  ASSUME NEW CONSTANT of, Wg(of)!Shaped, NEW h \in of.Handlers, Wg(of)!Save(h)
  PROVE  /\ settings' \in handling[h].draft /\ Wg(of)!IsSettings(settings')
         /\ handling[h].pc = "saving"
         /\ handling' = [handling EXCEPT ![h] = Wg(of)!NoTask]
         /\ shown' = shown \/ shown' = <<>>
         /\ \A x \in {"full", "moved", "handed"} : x \in reasons' <=> x \in reasons
         /\ ~handling[h].alone => "raced" \in reasons'
         /\ handling[h].form => reasons \subseteq reasons'
         /\ UNCHANGED <<active, toggles, raced>>
<1>1. settings' \in handling[h].draft /\ handling[h].pc = "saving"
      /\ UNCHANGED <<active, toggles, raced>>
  BY DEF Wg!Save
<1>2. Wg(of)!IsSettings(settings')
  BY <1>1 DEF Wg!Shaped, Wg!IsTask
<1>3. shown' = shown \/ shown' = <<>>
  BY DEF Wg!Save
<1>4. /\ \A x \in {"full", "moved", "handed"} : x \in reasons' <=> x \in reasons
      /\ ~handling[h].alone => "raced" \in reasons'
      /\ handling[h].form => reasons \subseteq reasons'
  BY DEF Wg!Save
<1>5. handling' = [handling EXCEPT ![h] = Wg(of)!NoTask]
  BY DEF Wg!Save
<1> QED
  BY <1>1, <1>2, <1>3, <1>4, <1>5

LEMMA LookIs ==
  ASSUME NEW CONSTANT of, Wg(of)!Shaped, NEW c \in Wg(of)!Clients, Wg(of)!Look(c)
  PROVE  /\ c \in active /\ shown' = [d \in DOMAIN shown' |-> shown'[d]]
         /\ DOMAIN shown' = DOMAIN shown \cup {c}
         /\ shown'[c] \in settings.peers /\ shown'[c].name = c /\ shown'[c].host # 0
         /\ \A d \in DOMAIN shown \ {c} : shown'[d] = shown[d]
         /\ UNCHANGED <<active, settings, handling, toggles, raced, reasons>>
<1>1. PICK p \in Wg(of)!Named(settings.peers, c) :
        /\ p.host # 0
        /\ shown' = [d \in DOMAIN shown \cup {c} |-> IF d = c THEN p ELSE shown[d]]
  BY DEF Wg!Look, Wg!NoHost
<1>2. p \in settings.peers /\ p.name = c
  BY DEF Wg!Named
<1>3. c \in active /\ UNCHANGED <<active, settings, handling, toggles, raced, reasons>>
  BY DEF Wg!Look
<1> QED
  BY <1>1, <1>2, <1>3

-----------------------------------------------------------------------------
(* The invariant, part by part.                                            *)

\* The parts of a task.
LEMMA TaskFields ==
  ASSUME NEW a, NEW b, NEW c, NEW d, NEW t,
         t = [pc |-> a, form |-> b, alone |-> c, draft |-> d]
  PROVE  t.pc = a /\ t.form = b /\ t.alone = c /\ t.draft = d
OBVIOUS

\* What a task must be to be one.
LEMMA IsTaskIs ==
  ASSUME NEW CONSTANT of, NEW t, NEW pc, NEW form, NEW alone, NEW draft,
         t = [pc |-> pc, form |-> form, alone |-> alone, draft |-> draft],
         pc \in {"due", "read", "built", "saving"}, form \in BOOLEAN, alone \in BOOLEAN,
         form => pc \in {"built", "saving"}, \A s \in draft : Wg(of)!IsSettings(s)
  PROVE  Wg(of)!IsTask(t)
<1>1. t.pc = pc /\ t.form = form /\ t.alone = alone /\ t.draft = draft
  BY TaskFields
<1> QED
  BY <1>1 DEF Wg!IsTask

LEMMA NoTaskIs ==
  ASSUME NEW CONSTANT of
  PROVE  /\ Wg(of)!IsTask(Wg(of)!NoTask) /\ Wg(of)!NoTask.pc = "idle"
         /\ ~Wg(of)!NoTask.form /\ Wg(of)!NoTask.alone /\ Wg(of)!NoTask.draft = {}
BY DEF Wg!NoTask, Wg!IsTask

\* Once set out, the tasks are tasks.
LEMMA TasksSetOut ==
  ASSUME NEW CONSTANT of, Wg(of)!Shaped, NEW h \in of.Handlers, NEW pc, NEW form, NEW draft,
         Wg(of)!SetOut(h, pc, form, draft),
         pc \in {"due", "read", "built", "saving"}, form \in BOOLEAN,
         form => pc \in {"built", "saving"}, \A s \in draft : Wg(of)!IsSettings(s)
  PROVE  /\ handling' = [g \in of.Handlers |-> handling'[g]]
         /\ \A g \in of.Handlers : Wg(of)!IsTask(handling'[g])
         /\ raced' \in BOOLEAN
<1>1. Wg(of)!IsTask(handling'[h])
  <2>1. handling'[h] = [pc |-> pc, form |-> form, alone |-> handling'[h].alone, draft |-> draft]
        /\ handling'[h].alone \in BOOLEAN
    BY TaskSetsOut
  <2> QED
    BY <2>1, IsTaskIs
<1>2. ASSUME NEW g \in of.Handlers \ {h} PROVE Wg(of)!IsTask(handling'[g])
  <2>1. Wg(of)!IsTask(handling[g])
    BY DEF Wg!Shaped
  <2>2. /\ handling'[g] = [pc |-> handling[g].pc, form |-> handling[g].form,
                           alone |-> handling'[g].alone, draft |-> handling[g].draft]
        /\ handling'[g].alone \in BOOLEAN
        /\ handling'[g].alone <=> handling[g].pc = "idle"
    BY TaskSetsOut
  <2>3. CASE handling[g].pc = "idle"
    <3>1. handling[g] = Wg(of)!NoTask
      BY <2>1, <2>3 DEF Wg!IsTask
    <3>2. handling'[g].alone = TRUE
      BY <2>2, <2>3
    <3>3. PICK no, yes : no = FALSE /\ yes = TRUE
      OBVIOUS
    <3>4. handling[g] = [pc |-> "idle", form |-> no, alone |-> yes, draft |-> {}]
      BY <3>1, <3>3 DEF Wg!NoTask
    <3>5. handling[g].pc = "idle" /\ handling[g].form = no /\ handling[g].draft = {}
      BY <3>4
    <3>6. handling'[g] = [pc |-> "idle", form |-> no, alone |-> yes, draft |-> {}]
      BY <2>2, <3>2, <3>3, <3>5
    <3>7. handling'[g] = Wg(of)!NoTask
      BY <3>1, <3>4, <3>6
    <3> QED
      BY <3>7, NoTaskIs
  <2>4. CASE handling[g].pc # "idle"
    BY <2>1, <2>2, <2>4, IsTaskIs DEF Wg!IsTask
  <2> QED
    BY <2>3, <2>4
<1>3. raced' \in BOOLEAN
  BY DEF Wg!SetOut
<1> QED
  BY <1>1, <1>2, <1>3, TaskSetsOut

LEMMA TasksGoOn ==
  ASSUME NEW CONSTANT of, Wg(of)!Shaped, NEW h \in of.Handlers, NEW pc, NEW draft,
         handling' = [handling EXCEPT ![h].pc = pc, ![h].draft = draft],
         pc \in {"read", "built", "saving"}, handling[h].form => pc \in {"built", "saving"},
         \A s \in draft : Wg(of)!IsSettings(s)
  PROVE  /\ handling' = [g \in of.Handlers |-> handling'[g]]
         /\ \A g \in of.Handlers : Wg(of)!IsTask(handling'[g])
<1>1. \A g \in of.Handlers : Wg(of)!IsTask(handling[g])
  BY DEF Wg!Shaped
<1>2. handling[h].form \in BOOLEAN /\ handling[h].alone \in BOOLEAN
  BY <1>1 DEF Wg!IsTask
<1>3. Wg(of)!IsTask(handling'[h])
  <2>1. handling'[h] = [pc |-> pc, form |-> handling[h].form,
                        alone |-> handling[h].alone, draft |-> draft]
    <3>1. /\ handling = [g \in of.Handlers |-> handling[g]]
          /\ handling[h] = [pc |-> handling[h].pc, form |-> handling[h].form,
                            alone |-> handling[h].alone, draft |-> handling[h].draft]
      BY <1>1 DEF Wg!Shaped, Wg!IsTask
    <3> QED
      BY <3>1
  <2> QED
    BY <1>2, <2>1, IsTaskIs
<1> QED
  BY <1>1, <1>3, TaskGoesOn

LEMMA TasksEnd ==
  ASSUME NEW CONSTANT of, Wg(of)!Shaped, NEW h \in of.Handlers,
         handling' = [handling EXCEPT ![h] = Wg(of)!NoTask]
  PROVE  /\ handling' = [g \in of.Handlers |-> handling'[g]]
         /\ \A g \in of.Handlers : Wg(of)!IsTask(handling'[g])
<1>1. \A g \in of.Handlers : Wg(of)!IsTask(handling[g])
  BY DEF Wg!Shaped
<1> QED
  BY <1>1, TaskEnds, NoTaskIs

LEMMA ShapedNext ==
  ASSUME NEW CONSTANT of, Wg(of)!WireguardAssumption, Wg(of)!Shaped,
         [Wg(of)!Next]_(Wg(of)!vars)
  PROVE  Wg(of)!Shaped'
<1>0. /\ active \subseteq Wg(of)!Clients /\ Wg(of)!IsSettings(settings)
      /\ handling = [h \in of.Handlers |-> handling[h]]
      /\ \A h \in of.Handlers : Wg(of)!IsTask(handling[h])
      /\ shown = [c \in DOMAIN shown |-> shown[c]] /\ DOMAIN shown \subseteq active
      /\ toggles \in Nat /\ raced \in BOOLEAN
  BY DEF Wg!Shaped
<1> SUFFICES /\ active' \subseteq Wg(of)!Clients /\ Wg(of)!IsSettings(settings')
             /\ handling' = [h \in of.Handlers |-> handling'[h]]
             /\ \A h \in of.Handlers : Wg(of)!IsTask(handling'[h])
             /\ shown' = [c \in DOMAIN shown' |-> shown'[c]] /\ DOMAIN shown' \subseteq active'
             /\ toggles' \in Nat /\ raced' \in BOOLEAN
  BY DEF Wg!Shaped, Wg!IsSettings, Wg!IsTask, Wg!NoTask, Wg!Proper, Wg!Clients, Wg!Range, Wg!Peer
<1>1. ASSUME NEW h \in of.Handlers, Wg(of)!Toggle(h)
      PROVE  /\ handling' = [g \in of.Handlers |-> handling'[g]]
             /\ \A g \in of.Handlers : Wg(of)!IsTask(handling'[g])
             /\ raced' \in BOOLEAN
  <2>1. Wg(of)!SetOut(h, "due", FALSE, {})
    BY <1>1, ToggleIs
  <2>2. PICK form, draft : form = FALSE /\ draft = {}
    OBVIOUS
  <2>3. Wg(of)!SetOut(h, "due", form, draft)
    BY <2>1, <2>2
  <2>4. form \in BOOLEAN /\ ~form /\ \A s \in draft : Wg(of)!IsSettings(s)
    BY <2>2
  <2> HIDE <2>2
  <2> QED
    BY <2>3, <2>4, TasksSetOut
<1>2. ASSUME NEW h \in of.Handlers, Wg(of)!Toggle(h)
      PROVE  /\ active' \subseteq Wg(of)!Clients /\ Wg(of)!IsSettings(settings')
             /\ shown' = [c \in DOMAIN shown' |-> shown'[c]] /\ DOMAIN shown' \subseteq active'
             /\ toggles' \in Nat
  <2>1. /\ active' \subseteq Wg(of)!Clients /\ settings' = settings /\ toggles' = toggles + 1
        /\ shown' = [d \in DOMAIN shown' |-> shown'[d]] /\ DOMAIN shown' \subseteq active'
    BY <1>2, ToggleIs
  <2> QED
    BY <1>0, <2>1
<1>3. ASSUME NEW h \in of.Handlers, Wg(of)!Edit(h)
      PROVE  /\ handling' = [g \in of.Handlers |-> handling'[g]]
             /\ \A g \in of.Handlers : Wg(of)!IsTask(handling'[g])
             /\ raced' \in BOOLEAN /\ UNCHANGED <<active, settings, shown, toggles>>
  <2>1. PICK new : /\ Wg(of)!SetOut(h, "built", TRUE, {new}) /\ Wg(of)!IsSettings(new)
                   /\ UNCHANGED <<active, settings, shown, toggles>>
    BY <1>3, EditIs
  <2>2. /\ handling' = [g \in of.Handlers |-> handling'[g]]
        /\ \A g \in of.Handlers : Wg(of)!IsTask(handling'[g])
        /\ raced' \in BOOLEAN
    <3>1. PICK form, draft : form = TRUE /\ draft = {new}
      OBVIOUS
    <3>2. Wg(of)!SetOut(h, "built", form, draft) /\ \A s \in draft : Wg(of)!IsSettings(s)
      BY <2>1, <3>1
    <3> QED
      BY <3>1, <3>2, TasksSetOut
  <2> QED
    BY <2>1, <2>2
<1>4. ASSUME NEW h \in of.Handlers, Wg(of)!ReadInbound(h)
      PROVE  /\ handling' = [g \in of.Handlers |-> handling'[g]]
             /\ \A g \in of.Handlers : Wg(of)!IsTask(handling'[g])
             /\ UNCHANGED <<active, settings, shown, toggles, raced>>
  <2>1. /\ handling[h].pc = "due" /\ UNCHANGED <<active, settings, shown, toggles, raced>>
        /\ handling' = [handling EXCEPT ![h].pc = "read", ![h].draft = {settings}]
    BY <1>4 DEF Wg!ReadInbound
  <2>2. ~handling[h].form
    BY <1>0, <2>1 DEF Wg!IsTask
  <2>3. PICK draft : draft = {settings}
    OBVIOUS
  <2>4. /\ handling' = [handling EXCEPT ![h].pc = "read", ![h].draft = draft]
        /\ \A s \in draft : Wg(of)!IsSettings(s)
    BY <1>0, <2>1, <2>3
  <2>5. /\ handling' = [g \in of.Handlers |-> handling'[g]]
        /\ \A g \in of.Handlers : Wg(of)!IsTask(handling'[g])
    BY <2>2, <2>4, TasksGoOn
  <2> QED
    BY <2>1, <2>5
<1>5. ASSUME NEW h \in of.Handlers, Wg(of)!Build(h)
      PROVE  /\ handling' = [g \in of.Handlers |-> handling'[g]]
             /\ \A g \in of.Handlers : Wg(of)!IsTask(handling'[g])
             /\ UNCHANGED <<active, settings, shown, toggles, raced>>
  <2>1. PICK m : /\ handling' = [handling EXCEPT ![h].pc = "built", ![h].draft = {m}]
                 /\ Wg(of)!IsSettings(m)
                 /\ UNCHANGED <<active, settings, shown, toggles, raced>>
    BY <1>5, BuildIs
  <2>2. PICK draft : draft = {m}
    OBVIOUS
  <2>3. /\ handling' = [handling EXCEPT ![h].pc = "built", ![h].draft = draft]
        /\ \A s \in draft : Wg(of)!IsSettings(s)
    BY <2>1, <2>2
  <2>4. /\ handling' = [g \in of.Handlers |-> handling'[g]]
        /\ \A g \in of.Handlers : Wg(of)!IsTask(handling'[g])
    BY <2>3, TasksGoOn
  <2> QED
    BY <2>1, <2>4
<1>6. ASSUME NEW h \in of.Handlers, Wg(of)!ReadOld(h)
      PROVE  /\ handling' = [g \in of.Handlers |-> handling'[g]]
             /\ \A g \in of.Handlers : Wg(of)!IsTask(handling'[g])
             /\ UNCHANGED <<active, settings, shown, toggles, raced>>
  <2>1. PICK m : /\ handling' = [handling EXCEPT ![h].pc = "saving", ![h].draft = {m}]
                 /\ Wg(of)!IsSettings(m)
                 /\ UNCHANGED <<active, settings, shown, toggles, raced>>
    BY <1>6, ReadOldIs
  <2>2. PICK draft : draft = {m}
    OBVIOUS
  <2>3. /\ handling' = [handling EXCEPT ![h].pc = "saving", ![h].draft = draft]
        /\ \A s \in draft : Wg(of)!IsSettings(s)
    BY <2>1, <2>2
  <2>4. /\ handling' = [g \in of.Handlers |-> handling'[g]]
        /\ \A g \in of.Handlers : Wg(of)!IsTask(handling'[g])
    BY <2>3, TasksGoOn
  <2> QED
    BY <2>1, <2>4
<1>7. ASSUME NEW h \in of.Handlers, Wg(of)!Save(h)
      PROVE  /\ handling' = [g \in of.Handlers |-> handling'[g]]
             /\ \A g \in of.Handlers : Wg(of)!IsTask(handling'[g])
             /\ Wg(of)!IsSettings(settings') /\ UNCHANGED <<active, toggles, raced>>
             /\ shown' = [c \in DOMAIN shown' |-> shown'[c]] /\ DOMAIN shown' \subseteq active
  <2>1. DOMAIN <<>> = {} /\ <<>> = [c \in {} |-> <<>>[c]]
    OBVIOUS
  <2>2. shown' = [c \in DOMAIN shown' |-> shown'[c]] /\ DOMAIN shown' \subseteq active
    BY <1>0, <1>7, <2>1, SaveIs
  <2> QED
    BY <1>7, <2>2, SaveIs, TasksEnd
<1>8. ASSUME NEW h \in of.Handlers, Wg(of)!Fails(h)
      PROVE  /\ handling' = [g \in of.Handlers |-> handling'[g]]
             /\ \A g \in of.Handlers : Wg(of)!IsTask(handling'[g])
             /\ UNCHANGED <<active, settings, shown, toggles, raced>>
  <2>1. /\ handling' = [handling EXCEPT ![h] = Wg(of)!NoTask]
        /\ UNCHANGED <<active, settings, shown, toggles, raced>>
    BY <1>8 DEF Wg!Fails
  <2> QED
    BY <2>1, TasksEnd
<1>9. ASSUME NEW c \in Wg(of)!Clients, Wg(of)!Look(c)
      PROVE  /\ UNCHANGED <<active, settings, handling, toggles, raced>>
             /\ shown' = [d \in DOMAIN shown' |-> shown'[d]] /\ DOMAIN shown' \subseteq active
  <2>1. /\ c \in active /\ shown' = [d \in DOMAIN shown' |-> shown'[d]]
        /\ DOMAIN shown' = DOMAIN shown \cup {c}
        /\ UNCHANGED <<active, settings, handling, toggles, raced, reasons>>
    BY <1>9, LookIs
  <2> QED
    BY <1>0, <2>1
<1>10. CASE UNCHANGED Wg(of)!vars
  BY <1>0, <1>10 DEF Wg!vars
<1> QED
  BY <1>0, <1>1, <1>2, <1>3, <1>4, <1>5, <1>6, <1>7, <1>8, <1>9, <1>10, TunnelSteps

\* A handler goes on.
TakesUp(h, step, draft) == handling' = [handling EXCEPT ![h].pc = step, ![h].draft = draft]

LEMMA GoesOnFields ==
  ASSUME NEW CONSTANT of, Wg(of)!Shaped, NEW h \in of.Handlers, NEW step, NEW draft,
         TakesUp(h, step, draft)
  PROVE  /\ handling'[h].pc = step /\ handling'[h].form = handling[h].form
         /\ handling'[h].alone = handling[h].alone /\ handling'[h].draft = draft
         /\ \A g \in of.Handlers \ {h} : handling'[g] = handling[g]
<1>1. /\ handling = [g \in of.Handlers |-> handling[g]]
      /\ handling[h] = [pc |-> handling[h].pc, form |-> handling[h].form,
                        alone |-> handling[h].alone, draft |-> handling[h].draft]
  BY DEF Wg!Shaped, Wg!IsTask
<1>2. handling'[h] = [pc |-> step, form |-> handling[h].form,
                      alone |-> handling[h].alone, draft |-> draft]
  BY <1>1 DEF TakesUp
<1>3. \A g \in of.Handlers \ {h} : handling'[g] = handling[g]
  BY <1>1 DEF TakesUp
<1>4. /\ handling'[h].pc = step /\ handling'[h].form = handling[h].form
      /\ handling'[h].alone = handling[h].alone /\ handling'[h].draft = draft
  BY <1>2
<1> QED
  BY <1>3, <1>4

LEMMA SetOutFields ==
  ASSUME NEW CONSTANT of, Wg(of)!Shaped, NEW h \in of.Handlers, NEW step, NEW form, NEW draft,
         Wg(of)!SetOut(h, step, form, draft)
  PROVE  /\ handling[h].pc = "idle" /\ handling'[h].pc = step /\ handling'[h].form = form
         /\ handling'[h].draft = draft
         /\ handling'[h].alone <=> Wg(of)!Alone(h)
         /\ \A g \in of.Handlers \ {h} :
              /\ handling'[g].pc = handling[g].pc /\ handling'[g].form = handling[g].form
              /\ handling'[g].draft = handling[g].draft
              /\ handling'[g].alone <=> handling[g].pc = "idle"
         /\ raced' <=> raced \/ ~Wg(of)!Alone(h)
<1>1. handling'[h] = [pc |-> step, form |-> form, alone |-> handling'[h].alone, draft |-> draft]
      /\ (handling'[h].alone <=> Wg(of)!Alone(h))
      /\ handling[h].pc = "idle" /\ (raced' <=> raced \/ ~Wg(of)!Alone(h))
  BY TaskSetsOut
<1>2. ASSUME NEW g \in of.Handlers \ {h}
      PROVE  /\ handling'[g].pc = handling[g].pc /\ handling'[g].form = handling[g].form
             /\ handling'[g].draft = handling[g].draft
             /\ handling'[g].alone <=> handling[g].pc = "idle"
  <2>1. /\ handling'[g] = [pc |-> handling[g].pc, form |-> handling[g].form,
                           alone |-> handling'[g].alone, draft |-> handling[g].draft]
        /\ handling'[g].alone <=> handling[g].pc = "idle"
    BY TaskSetsOut
  <2> QED
    BY <2>1
<1>3. handling'[h].pc = step /\ handling'[h].form = form /\ handling'[h].draft = draft
  BY <1>1
<1> QED
  BY <1>1, <1>2, <1>3

\* Each step, field by field.
LEMMA ToggleFields ==
  ASSUME NEW CONSTANT of, Wg(of)!Shaped, NEW h \in of.Handlers, Wg(of)!Toggle(h)
  PROVE  /\ handling[h].pc = "idle" /\ handling'[h].pc = "due" /\ ~handling'[h].form
         /\ handling'[h].draft = {}
         /\ handling'[h].alone <=> Wg(of)!Alone(h)
         /\ \A g \in of.Handlers \ {h} :
              /\ handling'[g].pc = handling[g].pc /\ handling'[g].form = handling[g].form
              /\ handling'[g].draft = handling[g].draft
              /\ handling'[g].alone <=> handling[g].pc = "idle"
         /\ raced' <=> raced \/ ~Wg(of)!Alone(h)
<1>1. PICK form, draft : form = FALSE /\ draft = {}
  OBVIOUS
<1>2. Wg(of)!SetOut(h, "due", form, draft)
  BY <1>1, ToggleIs
<1>3. /\ handling[h].pc = "idle" /\ handling'[h].pc = "due" /\ handling'[h].form = form
      /\ handling'[h].draft = draft
      /\ handling'[h].alone <=> Wg(of)!Alone(h)
      /\ \A g \in of.Handlers \ {h} :
           /\ handling'[g].pc = handling[g].pc /\ handling'[g].form = handling[g].form
           /\ handling'[g].draft = handling[g].draft
           /\ handling'[g].alone <=> handling[g].pc = "idle"
      /\ raced' <=> raced \/ ~Wg(of)!Alone(h)
  BY <1>2, SetOutFields
<1> QED
  BY <1>1, <1>3

LEMMA EditFields ==
  ASSUME NEW CONSTANT of, Wg(of)!WireguardAssumption, Wg(of)!Shaped, NEW h \in of.Handlers,
         Wg(of)!Edit(h)
  PROVE  \E new :
           /\ handling[h].pc = "idle" /\ handling'[h].pc = "built" /\ handling'[h].form
           /\ handling'[h].draft = {new}
           /\ handling'[h].alone <=> Wg(of)!Alone(h)
           /\ \A g \in of.Handlers \ {h} :
                /\ handling'[g].pc = handling[g].pc /\ handling'[g].form = handling[g].form
                /\ handling'[g].draft = handling[g].draft
                /\ handling'[g].alone <=> handling[g].pc = "idle"
           /\ raced' <=> raced \/ ~Wg(of)!Alone(h)
           /\ reasons \subseteq reasons' /\ reasons' \subseteq reasons \cup {"moved", "handed"}
           /\ "moved" \notin reasons' => new.server.address = settings.server.address
           /\ "handed" \notin reasons' => new.peers = {}
           /\ Wg(of)!Apart(settings) /\ "moved" \notin reasons' => Wg(of)!Apart(new)
           /\ UNCHANGED <<active, settings, shown, toggles>>
<1>1. PICK new :
        /\ Wg(of)!SetOut(h, "built", TRUE, {new})
        /\ reasons \subseteq reasons' /\ reasons' \subseteq reasons \cup {"moved", "handed"}
        /\ "moved" \notin reasons' => new.server.address = settings.server.address
        /\ "handed" \notin reasons' => new.peers = {}
        /\ Wg(of)!Apart(settings) /\ "moved" \notin reasons' => Wg(of)!Apart(new)
        /\ UNCHANGED <<active, settings, shown, toggles>>
  BY EditIs
<1>2. PICK form, draft : form = TRUE /\ draft = {new}
  OBVIOUS
<1>3. Wg(of)!SetOut(h, "built", form, draft)
  BY <1>1, <1>2
<1>4. /\ handling[h].pc = "idle" /\ handling'[h].pc = "built" /\ handling'[h].form = form
      /\ handling'[h].draft = draft
      /\ handling'[h].alone <=> Wg(of)!Alone(h)
      /\ \A g \in of.Handlers \ {h} :
           /\ handling'[g].pc = handling[g].pc /\ handling'[g].form = handling[g].form
           /\ handling'[g].draft = handling[g].draft
           /\ handling'[g].alone <=> handling[g].pc = "idle"
      /\ raced' <=> raced \/ ~Wg(of)!Alone(h)
  BY <1>3, SetOutFields
<1>5. handling'[h].form /\ handling'[h].draft = {new}
  BY <1>2, <1>4
<1> HIDE <1>2, <1>3
<1> QED
  BY <1>1, <1>4, <1>5

LEMMA ReadFields ==
  ASSUME NEW CONSTANT of, Wg(of)!Shaped, NEW h \in of.Handlers, Wg(of)!ReadInbound(h)
  PROVE  /\ handling[h].pc = "due" /\ handling'[h].pc = "read"
         /\ handling'[h].form = handling[h].form /\ handling'[h].alone = handling[h].alone
         /\ handling'[h].draft = {settings}
         /\ \A g \in of.Handlers \ {h} : handling'[g] = handling[g]
         /\ UNCHANGED <<active, settings, shown, toggles, raced, reasons>>
<1>1. PICK draft : draft = {settings}
  OBVIOUS
<1>2. /\ handling[h].pc = "due" /\ UNCHANGED <<active, settings, shown, toggles, raced, reasons>>
      /\ TakesUp(h, "read", draft)
  BY <1>1 DEF Wg!ReadInbound, TakesUp
<1>3. /\ handling'[h].pc = "read" /\ handling'[h].form = handling[h].form
      /\ handling'[h].alone = handling[h].alone /\ handling'[h].draft = draft
      /\ \A g \in of.Handlers \ {h} : handling'[g] = handling[g]
  BY <1>2, GoesOnFields
<1> QED
  BY <1>1, <1>2, <1>3

LEMMA BuildFields ==
  ASSUME NEW CONSTANT of, Wg(of)!WireguardAssumption, Wg(of)!Shaped, NEW h \in of.Handlers,
         Wg(of)!Build(h)
  PROVE  \E s, m :
           /\ s \in handling[h].draft
           /\ handling[h].pc = "read" /\ handling'[h].pc = "built"
           /\ handling'[h].form = handling[h].form /\ handling'[h].alone = handling[h].alone
           /\ handling'[h].draft = {m}
           /\ \A g \in of.Handlers \ {h} : handling'[g] = handling[g]
           /\ reasons \subseteq reasons' /\ reasons' \subseteq reasons \cup {"full"}
           /\ m.server = s.server
           /\ Wg(of)!Keep(s.peers, m.peers, active)
           /\ Wg(of)!Follow(m.peers, active)
           /\ Wg(of)!Apart(s) /\ "full" \notin reasons' => Wg(of)!Apart(m)
           /\ UNCHANGED <<active, settings, shown, toggles, raced>>
<1>1. PICK s, m :
        /\ s \in handling[h].draft
        /\ handling[h].pc = "read"
        /\ handling' = [handling EXCEPT ![h].pc = "built", ![h].draft = {m}]
        /\ reasons \subseteq reasons' /\ reasons' \subseteq reasons \cup {"full"}
        /\ m.server = s.server
        /\ Wg(of)!Keep(s.peers, m.peers, active)
        /\ Wg(of)!Follow(m.peers, active)
        /\ Wg(of)!Apart(s) /\ "full" \notin reasons' => Wg(of)!Apart(m)
        /\ UNCHANGED <<active, settings, shown, toggles, raced>>
  BY BuildIs
<1>2. PICK draft : draft = {m}
  OBVIOUS
<1>3. TakesUp(h, "built", draft)
  BY <1>1, <1>2 DEF TakesUp
<1>4. /\ handling'[h].pc = "built" /\ handling'[h].form = handling[h].form
      /\ handling'[h].alone = handling[h].alone /\ handling'[h].draft = draft
      /\ \A g \in of.Handlers \ {h} : handling'[g] = handling[g]
  BY <1>3, GoesOnFields
<1>5. handling'[h].draft = {m}
  BY <1>2, <1>4
<1> HIDE <1>2, <1>3
<1> QED
  BY <1>1, <1>4, <1>5

LEMMA ReadOldFields ==
  ASSUME NEW CONSTANT of, Wg(of)!Shaped, NEW h \in of.Handlers, Wg(of)!ReadOld(h)
  PROVE  \E s, m :
           /\ s \in handling[h].draft
           /\ handling[h].pc = "built" /\ handling'[h].pc = "saving"
           /\ handling'[h].form = handling[h].form /\ handling'[h].alone = handling[h].alone
           /\ handling'[h].draft = {m}
           /\ \A g \in of.Handlers \ {h} : handling'[g] = handling[g]
           /\ m.server = s.server
           /\ m.peers = IF s.peers = {} THEN settings.peers ELSE s.peers
           /\ UNCHANGED <<active, settings, shown, toggles, raced, reasons>>
<1>1. PICK s, m :
        /\ s \in handling[h].draft
        /\ handling[h].pc = "built"
        /\ handling' = [handling EXCEPT ![h].pc = "saving", ![h].draft = {m}]
        /\ m.server = s.server
        /\ m.peers = IF s.peers = {} THEN settings.peers ELSE s.peers
        /\ UNCHANGED <<active, settings, shown, toggles, raced, reasons>>
  BY ReadOldIs
<1>2. PICK draft : draft = {m}
  OBVIOUS
<1>3. TakesUp(h, "saving", draft)
  BY <1>1, <1>2 DEF TakesUp
<1>4. /\ handling'[h].pc = "saving" /\ handling'[h].form = handling[h].form
      /\ handling'[h].alone = handling[h].alone /\ handling'[h].draft = draft
      /\ \A g \in of.Handlers \ {h} : handling'[g] = handling[g]
  BY <1>3, GoesOnFields
<1>5. handling'[h].draft = {m}
  BY <1>2, <1>4
<1> HIDE <1>2, <1>3
<1> QED
  BY <1>1, <1>4, <1>5

\* A handler is done.
LEMMA EndFields ==
  ASSUME NEW CONSTANT of, Wg(of)!Shaped, NEW h \in of.Handlers,
         Wg(of)!Save(h) \/ Wg(of)!Fails(h)
  PROVE  /\ handling[h].pc # "idle" /\ handling'[h].pc = "idle" /\ ~handling'[h].form
         /\ handling'[h].alone /\ handling'[h].draft = {}
         /\ \A g \in of.Handlers \ {h} : handling'[g] = handling[g]
<1>1. handling' = [handling EXCEPT ![h] = Wg(of)!NoTask] /\ handling[h].pc # "idle"
  BY DEF Wg!Save, Wg!Fails
<1> QED
  BY <1>1, TaskEnds, NoTaskIs

LEMMA InOrderNext ==
  ASSUME NEW CONSTANT of, Wg(of)!WireguardAssumption, Wg(of)!Shaped, Wg(of)!InOrder,
         [Wg(of)!Next]_(Wg(of)!vars)
  PROVE  Wg(of)!InOrder'
<1> SUFFICES ASSUME "full" \notin reasons', "moved" \notin reasons'
             PROVE  /\ Wg(of)!Apart(settings')
                    /\ \A g \in of.Handlers : \A s \in handling'[g].draft :
                         Wg(of)!Apart(s) /\ s.server.address = settings'.server.address
  BY DEF Wg!InOrder, Wg!Apart, Wg!Distinct
<1> DEFINE Good(s, old) == Wg(of)!Apart(s) /\ s.server.address = old.server.address
           Before == "full" \notin reasons /\ "moved" \notin reasons
<1>0. Before => Good(settings, settings)
                /\ \A g \in of.Handlers : \A s \in handling[g].draft : Good(s, settings)
  BY DEF Wg!InOrder
<1>1. ASSUME NEW h \in of.Handlers, Wg(of)!Toggle(h)
      PROVE  Before /\ settings' = settings
             /\ \A g \in of.Handlers : \A s \in handling'[g].draft :
                  g # h /\ s \in handling[g].draft
  <2>1. reasons' = reasons /\ settings' = settings
    BY <1>1, ToggleIs
  <2> QED
    BY <1>1, <2>1, ToggleFields
<1>2. ASSUME NEW h \in of.Handlers, Wg(of)!Edit(h)
      PROVE  Before /\ settings' = settings
             /\ \A g \in of.Handlers : \A s \in handling'[g].draft :
                  IF g = h THEN Good(s, settings) ELSE s \in handling[g].draft
  <2>1. PICK new : /\ handling'[h].draft = {new}
                   /\ \A g \in of.Handlers \ {h} : handling'[g].draft = handling[g].draft
                   /\ new.server.address = settings.server.address
                   /\ Wg(of)!Apart(settings) => Wg(of)!Apart(new)
                   /\ reasons \subseteq reasons' /\ settings' = settings
    BY <1>2, EditFields
  <2> QED
    BY <1>0, <2>1
<1>3. ASSUME NEW h \in of.Handlers, Wg(of)!ReadInbound(h)
      PROVE  Before /\ settings' = settings
             /\ \A g \in of.Handlers : \A s \in handling'[g].draft :
                  IF g = h THEN Good(s, settings) ELSE s \in handling[g].draft
  <2>1. /\ handling'[h].draft = {settings} /\ reasons' = reasons /\ settings' = settings
        /\ \A g \in of.Handlers \ {h} : handling'[g] = handling[g]
    BY <1>3, ReadFields
  <2> QED
    BY <1>0, <2>1
<1>4. ASSUME NEW h \in of.Handlers, Wg(of)!Build(h)
      PROVE  Before /\ settings' = settings
             /\ \A g \in of.Handlers : \A s \in handling'[g].draft :
                  IF g = h THEN Good(s, settings) ELSE s \in handling[g].draft
  <2>1. PICK s, m :
          /\ s \in handling[h].draft
          /\ handling'[h].draft = {m}
          /\ \A g \in of.Handlers \ {h} : handling'[g] = handling[g]
          /\ reasons \subseteq reasons' /\ m.server = s.server
          /\ Wg(of)!Apart(s) => Wg(of)!Apart(m)
          /\ settings' = settings
    BY <1>4, BuildFields
  <2> QED
    BY <1>0, <2>1
<1>5. ASSUME NEW h \in of.Handlers, Wg(of)!ReadOld(h)
      PROVE  Before /\ settings' = settings
             /\ \A g \in of.Handlers : \A s \in handling'[g].draft :
                  IF g = h THEN Good(s, settings) ELSE s \in handling[g].draft
  <2>1. PICK s, m :
          /\ s \in handling[h].draft
          /\ handling'[h].draft = {m}
          /\ \A g \in of.Handlers \ {h} : handling'[g] = handling[g]
          /\ reasons' = reasons /\ m.server = s.server
          /\ m.peers = IF s.peers = {} THEN settings.peers ELSE s.peers
          /\ settings' = settings
    BY <1>5, ReadOldFields
  <2>2. Good(s, settings) /\ Good(settings, settings)
    BY <1>0, <2>1
  <2>3. Good(m, settings)
    BY <2>1, <2>2 DEF Wg!Apart
  <2> HIDE DEF Good
  <2> QED
    BY <2>1, <2>3
<1>6. ASSUME NEW h \in of.Handlers, Wg(of)!Save(h)
      PROVE  Before /\ settings' \in handling[h].draft
             /\ \A g \in of.Handlers : \A s \in handling'[g].draft : s \in handling[g].draft
  <2>1. settings' \in handling[h].draft /\ Before
    BY <1>6, SaveIs
  <2> QED
    BY <1>6, <2>1, EndFields
<1>7. ASSUME NEW h \in of.Handlers, Wg(of)!Fails(h)
      PROVE  Before /\ settings' = settings
             /\ \A g \in of.Handlers : \A s \in handling'[g].draft : s \in handling[g].draft
  <2>1. settings' = settings /\ Before
    BY <1>7 DEF Wg!Fails
  <2> QED
    BY <1>7, <2>1, EndFields
<1>8. ASSUME NEW c \in Wg(of)!Clients, Wg(of)!Look(c)
      PROVE  Before /\ UNCHANGED <<settings, handling>>
  BY <1>8, LookIs
<1>9. CASE UNCHANGED Wg(of)!vars
  BY <1>0, <1>9 DEF Wg!vars
<1> HIDE DEF Before
<1>10. ASSUME NEW h \in of.Handlers,
              \/ Wg(of)!Toggle(h) \/ Wg(of)!Edit(h) \/ Wg(of)!ReadInbound(h)
              \/ Wg(of)!Build(h) \/ Wg(of)!ReadOld(h) \/ Wg(of)!Fails(h)
       PROVE  /\ Good(settings', settings')
              /\ \A g \in of.Handlers : \A s \in handling'[g].draft : Good(s, settings')
  BY <1>0, <1>1, <1>2, <1>3, <1>4, <1>5, <1>7, <1>10
<1>11. ASSUME NEW h \in of.Handlers, Wg(of)!Save(h)
       PROVE  /\ Good(settings', settings')
              /\ \A g \in of.Handlers : \A s \in handling'[g].draft : Good(s, settings')
  BY <1>0, <1>6, <1>11
<1> QED
  BY <1>0, <1>8, <1>9, <1>10, <1>11, TunnelSteps

LEMMA LeftAloneNext ==
  ASSUME NEW CONSTANT of, Wg(of)!WireguardAssumption, Wg(of)!Shaped, Wg(of)!LeftAlone,
         [Wg(of)!Next]_(Wg(of)!vars)
  PROVE  Wg(of)!LeftAlone'
<1> DEFINE H == of.Handlers
           Apt == /\ \A g \in H : handling'[g].alone /\ handling'[g].pc # "idle" =>
                       \A k \in H \ {g} : handling'[k].pc = "idle"
                  /\ ~raced' => \A g \in H : handling'[g].alone
<1> SUFFICES Apt
  BY DEF Wg!LeftAlone, Wg!Alone, Wg!Idle
<1>0. /\ \A g \in H : handling[g].alone /\ handling[g].pc # "idle" =>
            \A k \in H \ {g} : handling[k].pc = "idle"
      /\ ~raced => \A g \in H : handling[g].alone
  BY DEF Wg!LeftAlone, Wg!Alone, Wg!Idle
<1>1. ASSUME NEW h \in H, Wg(of)!Toggle(h) \/ Wg(of)!Edit(h)
      PROVE  Apt
  <2>1. /\ handling[h].pc = "idle" /\ handling'[h].pc # "idle"
        /\ handling'[h].alone <=> Wg(of)!Alone(h)
        /\ \A g \in H \ {h} : /\ handling'[g].pc = handling[g].pc
                             /\ handling'[g].alone <=> handling[g].pc = "idle"
        /\ raced' <=> raced \/ ~Wg(of)!Alone(h)
    <3>1. CASE Wg(of)!Toggle(h)
      BY <3>1, ToggleFields
    <3>2. CASE Wg(of)!Edit(h)
      BY <3>2, EditFields
    <3> QED
      BY <1>1, <3>1, <3>2
  <2>2. Wg(of)!Alone(h) <=> \A k \in H \ {h} : handling[k].pc = "idle"
    BY DEF Wg!Alone, Wg!Idle
  <2>3. ASSUME NEW g \in H, handling'[g].alone, handling'[g].pc # "idle", NEW k \in H \ {g}
        PROVE  handling'[k].pc = "idle"
    <3>1. g = h
      <4> SUFFICES ASSUME g \in H \ {h} PROVE FALSE
        OBVIOUS
      <4>1. handling'[g].pc = handling[g].pc /\ (handling'[g].alone <=> handling[g].pc = "idle")
        <5>1. CASE Wg(of)!Toggle(h)
          BY <5>1, ToggleFields
        <5>2. CASE Wg(of)!Edit(h)
          BY <5>2, EditFields
        <5> QED
          BY <1>1, <5>1, <5>2
      <4> QED
        BY <2>3, <4>1
    <3>2. \A i \in H \ {h} : handling[i].pc = "idle"
      BY <2>1, <2>2, <2>3, <3>1
    <3> QED
      BY <2>1, <3>1, <3>2
  <2>4. ASSUME ~raced', NEW g \in H PROVE handling'[g].alone
    <3>1. \A i \in H \ {h} : handling[i].pc = "idle"
      BY <2>1, <2>2, <2>4
    <3>2. CASE g = h
      BY <2>1, <2>4, <3>2
    <3>3. CASE g # h
      BY <2>1, <3>1, <3>3
    <3> QED
      BY <3>2, <3>3
  <2> QED
    BY <2>3, <2>4
<1>2. ASSUME NEW h \in H,
             Wg(of)!ReadInbound(h) \/ Wg(of)!Build(h) \/ Wg(of)!ReadOld(h)
      PROVE  Apt
  <2>1. /\ handling[h].pc # "idle" /\ handling'[h].alone = handling[h].alone
        /\ \A g \in H \ {h} : handling'[g] = handling[g]
        /\ raced' = raced
    <3>1. CASE Wg(of)!ReadInbound(h)
      BY <3>1, ReadFields
    <3>2. CASE Wg(of)!Build(h)
      BY <3>2, BuildFields
    <3>3. CASE Wg(of)!ReadOld(h)
      BY <3>3, ReadOldFields
    <3> QED
      BY <1>2, <3>1, <3>2, <3>3
  <2> QED
    BY <1>0, <2>1
<1>3. ASSUME NEW h \in H, Wg(of)!Save(h) \/ Wg(of)!Fails(h)
      PROVE  Apt
  <2>1. raced' = raced
    BY <1>3 DEF Wg!Save, Wg!Fails
  <2> QED
    BY <1>0, <1>3, <2>1, EndFields
<1>4. ASSUME UNCHANGED <<handling, raced>>
      PROVE  Apt
  BY <1>0, <1>4
<1>5. ASSUME NEW c \in Wg(of)!Clients, Wg(of)!Look(c)
      PROVE  UNCHANGED <<handling, raced>>
  BY <1>5 DEF Wg!Look
<1>6. UNCHANGED Wg(of)!vars => UNCHANGED <<handling, raced>>
  BY DEF Wg!vars
<1> HIDE DEF Apt
<1> QED
  BY <1>1, <1>2, <1>3, <1>4, <1>5, <1>6, TunnelSteps

\* While a handler that is alone is at work, the others are idle.
LEMMA OthersIdle ==
  ASSUME NEW CONSTANT of, Wg(of)!Shaped, Wg(of)!LeftAlone,
         NEW h \in of.Handlers, handling[h].pc # "idle",
         NEW g \in of.Handlers \ {h}, handling[g].alone
  PROVE  handling[g].pc = "idle" /\ ~handling[g].form
<1>1. handling[g].pc = "idle"
  BY DEF Wg!LeftAlone, Wg!Alone, Wg!Idle
<1>2. Wg(of)!IsTask(handling[g])
  BY DEF Wg!Shaped
<1> QED
  BY <1>1, <1>2 DEF Wg!IsTask

LEMMA AtHandNext ==
  ASSUME NEW CONSTANT of, Wg(of)!WireguardAssumption, Wg(of)!Shaped, Wg(of)!LeftAlone,
         Wg(of)!AtHand, [Wg(of)!Next]_(Wg(of)!vars)
  PROVE  Wg(of)!AtHand'
<1> DEFINE H == of.Handlers
           Hand(t, s, who, why) ==
             /\ t.pc = "read" => t.draft = {s}
             /\ t.pc \in {"built", "saving"} /\ ~t.form =>
                  \A d \in t.draft : /\ Wg(of)!Follow(d.peers, who)
                                     /\ Wg(of)!Keep(s.peers, d.peers, who)
             /\ t.form /\ "handed" \notin why =>
                  \A d \in t.draft : \/ d.peers = s.peers
                                     \/ t.pc = "built" /\ d.peers = {}
<1>0. \A g \in H : handling[g].alone => Hand(handling[g], settings, active, reasons)
  BY DEF Wg!AtHand, Wg!InHand
<1> SUFFICES \A g \in H : handling'[g].alone => Hand(handling'[g], settings', active', reasons')
  BY DEF Wg!AtHand, Wg!InHand
<1>1. ASSUME NEW h \in H, Wg(of)!Toggle(h)
      PROVE  \A g \in H : handling'[g].alone => Hand(handling'[g], settings', active', reasons')
  <2>1. \A g \in H \ {h} : handling'[g].alone => handling'[g].pc = "idle" /\ ~handling'[g].form
    <3>1. \A g \in H : handling[g].pc = "idle" => ~handling[g].form
      BY DEF Wg!Shaped, Wg!IsTask
    <3> SUFFICES ASSUME NEW g \in H \ {h}, handling'[g].alone
                 PROVE  handling'[g].pc = "idle" /\ ~handling'[g].form
      OBVIOUS
    <3>2. /\ handling'[g].pc = handling[g].pc /\ handling'[g].form = handling[g].form
          /\ handling'[g].alone <=> handling[g].pc = "idle"
      BY <1>1, ToggleFields
    <3> QED
      BY <3>1, <3>2
  <2>2. handling'[h].pc = "due" /\ ~handling'[h].form
    BY <1>1, ToggleFields
  <2> QED
    BY <2>1, <2>2
<1>2. ASSUME NEW h \in H, Wg(of)!Edit(h)
      PROVE  \A g \in H : handling'[g].alone => Hand(handling'[g], settings', active', reasons')
  <2>1. \A g \in H \ {h} : handling'[g].alone => handling'[g].pc = "idle" /\ ~handling'[g].form
    <3>1. \A g \in H : handling[g].pc = "idle" => ~handling[g].form
      BY DEF Wg!Shaped, Wg!IsTask
    <3> SUFFICES ASSUME NEW g \in H \ {h}, handling'[g].alone
                 PROVE  handling'[g].pc = "idle" /\ ~handling'[g].form
      OBVIOUS
    <3>2. /\ handling'[g].pc = handling[g].pc /\ handling'[g].form = handling[g].form
          /\ handling'[g].alone <=> handling[g].pc = "idle"
      BY <1>2, EditFields
    <3> QED
      BY <3>1, <3>2
  <2>2. PICK new : /\ handling'[h].pc = "built" /\ handling'[h].form
                   /\ handling'[h].draft = {new} /\ ("handed" \notin reasons' => new.peers = {})
    BY <1>2, EditFields
  <2> QED
    BY <2>1, <2>2
<1>3. ASSUME NEW h \in H, handling[h].pc # "idle",
             \A g \in H \ {h} : handling'[g] = handling[g],
             handling'[h].alone => Hand(handling'[h], settings', active', reasons')
      PROVE  \A g \in H : handling'[g].alone => Hand(handling'[g], settings', active', reasons')
  <2>1. \A g \in H \ {h} : handling'[g].alone => handling'[g].pc = "idle" /\ ~handling'[g].form
    BY <1>3, OthersIdle
  <2> QED
    BY <1>3, <2>1
<1>4. ASSUME NEW h \in H, Wg(of)!ReadInbound(h)
      PROVE  \A g \in H : handling'[g].alone => Hand(handling'[g], settings', active', reasons')
  <2>1. /\ handling[h].pc = "due" /\ handling'[h].pc = "read"
        /\ handling'[h].form = handling[h].form /\ handling'[h].draft = {settings}
        /\ \A g \in H \ {h} : handling'[g] = handling[g]
        /\ settings' = settings
    BY <1>4, ReadFields
  <2>2. ~handling[h].form
    BY <2>1 DEF Wg!Shaped, Wg!IsTask
  <2>3. Hand(handling'[h], settings', active', reasons')
    BY <2>1, <2>2
  <2> HIDE DEF Hand
  <2> QED
    BY <1>3, <2>1, <2>3
<1>5. ASSUME NEW h \in H, Wg(of)!Build(h)
      PROVE  \A g \in H : handling'[g].alone => Hand(handling'[g], settings', active', reasons')
  <2>1. PICK s, m :
          /\ s \in handling[h].draft
          /\ handling[h].pc = "read" /\ handling'[h].pc = "built"
          /\ handling'[h].form = handling[h].form /\ handling'[h].alone = handling[h].alone
          /\ handling'[h].draft = {m}
          /\ \A g \in H \ {h} : handling'[g] = handling[g]
          /\ Wg(of)!Keep(s.peers, m.peers, active) /\ Wg(of)!Follow(m.peers, active)
          /\ UNCHANGED <<active, settings>>
    BY <1>5, BuildFields
  <2>2. ~handling[h].form
    BY <2>1 DEF Wg!Shaped, Wg!IsTask
  <2>3. handling[h].alone => s = settings
    BY <1>0, <2>1
  <2>4. handling'[h].alone => Hand(handling'[h], settings', active', reasons')
    BY <2>1, <2>2, <2>3
  <2> HIDE DEF Hand
  <2> QED
    BY <1>3, <2>1, <2>4
<1>6. ASSUME NEW h \in H, Wg(of)!ReadOld(h)
      PROVE  \A g \in H : handling'[g].alone => Hand(handling'[g], settings', active', reasons')
  <2>1. PICK s, m :
          /\ s \in handling[h].draft
          /\ handling[h].pc = "built" /\ handling'[h].pc = "saving"
          /\ handling'[h].form = handling[h].form /\ handling'[h].alone = handling[h].alone
          /\ handling'[h].draft = {m}
          /\ \A g \in H \ {h} : handling'[g] = handling[g]
          /\ m.peers = IF s.peers = {} THEN settings.peers ELSE s.peers
          /\ UNCHANGED <<active, settings, reasons>>
    BY <1>6, ReadOldFields
  <2>2. ASSUME ~handling[h].form, handling[h].alone
        PROVE  Wg(of)!Follow(m.peers, active) /\ Wg(of)!Keep(settings.peers, m.peers, active)
    <3>1. Wg(of)!Follow(s.peers, active) /\ Wg(of)!Keep(settings.peers, s.peers, active)
      BY <1>0, <2>1, <2>2
    <3>2. CASE s.peers = {}
      <4>1. \A c : Wg(of)!Named({}, c) = {}
        BY DEF Wg!Named
      <4>2. Wg(of)!Cardinality({}) = 0
        BY CountsAlike, FS_EmptySet
      <4>3. active = {} /\ Wg(of)!Named(settings.peers, Wg(of)!Manual) = {}
        BY <3>1, <3>2, <4>1, <4>2 DEF Wg!Follow, Wg!Keep
      <4> QED
        BY <2>1, <3>2, <4>3 DEF Wg!Follow, Wg!Keep
    <3>3. CASE s.peers # {}
      BY <2>1, <3>1, <3>3
    <3> QED
      BY <3>2, <3>3
  <2>3. handling[h].form /\ handling[h].alone /\ "handed" \notin reasons => m.peers = settings.peers
    BY <1>0, <2>1
  <2>4. handling'[h].alone => Hand(handling'[h], settings', active', reasons')
    BY <2>1, <2>2, <2>3
  <2> HIDE DEF Hand
  <2> QED
    BY <1>3, <2>1, <2>4
<1>7. ASSUME NEW h \in H, Wg(of)!Save(h) \/ Wg(of)!Fails(h)
      PROVE  \A g \in H : handling'[g].alone => Hand(handling'[g], settings', active', reasons')
  <2>1. /\ handling[h].pc # "idle" /\ handling'[h].pc = "idle" /\ ~handling'[h].form
        /\ \A g \in H \ {h} : handling'[g] = handling[g]
    BY <1>7, EndFields
  <2>2. Hand(handling'[h], settings', active', reasons')
    BY <2>1
  <2> HIDE DEF Hand
  <2> QED
    BY <1>3, <2>1, <2>2
<1>8. ASSUME UNCHANGED <<handling, settings, active, reasons>>
      PROVE  \A g \in H : handling'[g].alone => Hand(handling'[g], settings', active', reasons')
  <2> HIDE DEF Hand
  <2> QED
    BY <1>0, <1>8
<1>9. ASSUME NEW c \in Wg(of)!Clients, Wg(of)!Look(c)
      PROVE  UNCHANGED <<handling, settings, active, reasons>>
  BY <1>9 DEF Wg!Look
<1>10. UNCHANGED Wg(of)!vars => UNCHANGED <<handling, settings, active, reasons>>
  BY DEF Wg!vars
<1> HIDE DEF Hand
<1> QED
  BY <1>1, <1>2, <1>4, <1>5, <1>6, <1>7, <1>8, <1>9, <1>10, TunnelSteps

LEMMA CaughtNext ==
  ASSUME NEW CONSTANT of, Wg(of)!WireguardAssumption, Wg(of)!Shaped, Wg(of)!LeftAlone,
         Wg(of)!AtHand, Wg(of)!Caught, [Wg(of)!Next]_(Wg(of)!vars)
  PROVE  Wg(of)!Caught'
<1> DEFINE H == of.Handlers
           Still(tasks, why, n) ==
             /\ \A g \in H : tasks[g].pc = "idle" \/ (tasks[g].form /\ tasks[g].alone)
             /\ "raced" \notin why /\ "failed" \notin why /\ "handed" \notin why
             /\ n > 0
<1>0. Still(handling, reasons, toggles) => Wg(of)!Follow(settings.peers, active)
  BY DEF Wg!Caught, Wg!Resting, Wg!Idle
<1> SUFFICES ASSUME Still(handling', reasons', toggles')
             PROVE  Wg(of)!Follow(settings'.peers, active')
  BY DEF Wg!Caught, Wg!Resting, Wg!Idle, Wg!Follow, Wg!Named
<1>1. ASSUME NEW h \in H PROVE ~Wg(of)!Toggle(h)
  BY <1>1, ToggleFields
<1>2. ASSUME NEW h \in H, Wg(of)!Edit(h)
      PROVE  Wg(of)!Follow(settings'.peers, active')
  <2>1. /\ handling[h].pc = "idle" /\ handling'[h].pc = "built"
        /\ handling'[h].alone <=> Wg(of)!Alone(h)
        /\ reasons \subseteq reasons' /\ UNCHANGED <<active, settings, toggles>>
    BY <1>2, EditFields
  <2>2. \A g \in H \ {h} : handling[g].pc = "idle"
    BY <2>1 DEF Wg!Alone, Wg!Idle
  <2> QED
    BY <1>0, <2>1, <2>2
<1>3. ASSUME NEW h \in H PROVE ~Wg(of)!ReadInbound(h)
  <2> SUFFICES ASSUME Wg(of)!ReadInbound(h) PROVE FALSE
    OBVIOUS
  <2>1. handling[h].pc = "due" /\ handling'[h].pc = "read" /\ handling'[h].form = handling[h].form
    BY ReadFields
  <2>2. ~handling[h].form
    BY <2>1 DEF Wg!Shaped, Wg!IsTask
  <2> QED
    BY <2>1, <2>2
<1>4. ASSUME NEW h \in H PROVE ~Wg(of)!Build(h)
  <2> SUFFICES ASSUME Wg(of)!Build(h) PROVE FALSE
    OBVIOUS
  <2>1. handling[h].pc = "read" /\ handling'[h].pc = "built" /\ handling'[h].form = handling[h].form
    BY BuildFields
  <2>2. ~handling[h].form
    BY <2>1 DEF Wg!Shaped, Wg!IsTask
  <2> QED
    BY <2>1, <2>2
<1>5. ASSUME NEW h \in H, Wg(of)!ReadOld(h)
      PROVE  Wg(of)!Follow(settings'.peers, active')
  <2>1. /\ handling'[h].pc = "saving"
        /\ handling'[h].form = handling[h].form /\ handling'[h].alone = handling[h].alone
        /\ \A g \in H \ {h} : handling'[g] = handling[g]
        /\ UNCHANGED <<active, settings, toggles, reasons>>
    BY <1>5, ReadOldFields
  <2> QED
    BY <1>0, <2>1
<1>6. ASSUME NEW h \in H, Wg(of)!Save(h)
      PROVE  Wg(of)!Follow(settings'.peers, active')
  <2>1. /\ settings' \in handling[h].draft /\ handling[h].pc = "saving"
        /\ \A x \in {"full", "moved", "handed"} : x \in reasons' <=> x \in reasons
        /\ ~handling[h].alone => "raced" \in reasons'
        /\ handling[h].form => reasons \subseteq reasons'
        /\ UNCHANGED <<active, toggles>>
    BY <1>6, SaveIs
  <2>2. handling[h].alone /\ "handed" \notin reasons
    BY <2>1
  <2>3. Wg(of)!InHand(handling[h])
    BY <2>2 DEF Wg!AtHand
  <2>4. CASE ~handling[h].form
    BY <2>1, <2>3, <2>4 DEF Wg!InHand
  <2>5. CASE handling[h].form
    <3>1. settings'.peers = settings.peers
      BY <2>1, <2>2, <2>3, <2>5 DEF Wg!InHand
    <3>2. \A g \in H \ {h} : handling[g].pc = "idle"
      BY <2>1, <2>2 DEF Wg!LeftAlone, Wg!Alone, Wg!Idle
    <3> QED
      BY <1>0, <2>1, <2>2, <2>5, <3>1, <3>2
  <2> QED
    BY <2>4, <2>5
<1>7. ASSUME NEW h \in H PROVE ~Wg(of)!Fails(h)
  BY <1>7 DEF Wg!Fails
<1>8. UNCHANGED <<handling, settings, active, reasons, toggles>> =>
        Wg(of)!Follow(settings'.peers, active')
  BY <1>0
<1>9. ASSUME NEW c \in Wg(of)!Clients, Wg(of)!Look(c)
      PROVE  UNCHANGED <<handling, settings, active, reasons, toggles>>
  BY <1>9 DEF Wg!Look
<1>10. UNCHANGED Wg(of)!vars => UNCHANGED <<handling, settings, active, reasons, toggles>>
  BY DEF Wg!vars
<1> HIDE DEF Still
<1> QED
  BY <1>1, <1>2, <1>3, <1>4, <1>5, <1>6, <1>7, <1>8, <1>9, <1>10, TunnelSteps

LEMMA ToldNext ==
  ASSUME NEW CONSTANT of, Wg(of)!WireguardAssumption, Wg(of)!Shaped, Wg(of)!LeftAlone,
         Wg(of)!AtHand, Wg(of)!Told, [Wg(of)!Next]_(Wg(of)!vars)
  PROVE  Wg(of)!Told'
<1> DEFINE H == of.Handlers
           Right(peers, told) ==
             \A c \in DOMAIN told :
               told[c] \in peers /\ told[c].name = c /\ told[c].host # 0
<1>0. ~raced /\ "handed" \notin reasons => Right(settings.peers, shown)
  BY DEF Wg!Told, Wg!NoHost
<1> SUFFICES ASSUME ~raced', "handed" \notin reasons'
             PROVE  Right(settings'.peers, shown')
  BY DEF Wg!Told, Wg!NoHost
<1>1. ASSUME NEW h \in H, Wg(of)!Toggle(h)
      PROVE  Right(settings'.peers, shown')
  <2>1. /\ \A d \in DOMAIN shown' : d \in DOMAIN shown /\ shown'[d] = shown[d]
        /\ UNCHANGED <<settings, reasons>>
    BY <1>1, ToggleIs
  <2>2. ~raced
    BY <1>1, ToggleFields
  <2> QED
    BY <1>0, <2>1, <2>2
<1>2. ASSUME NEW h \in H, Wg(of)!Edit(h)
      PROVE  Right(settings'.peers, shown')
  <2>1. /\ raced' <=> raced \/ ~Wg(of)!Alone(h)
        /\ reasons \subseteq reasons' /\ UNCHANGED <<settings, shown>>
    BY <1>2, EditFields
  <2> QED
    BY <1>0, <2>1
<1>3. ASSUME raced' = raced, reasons \subseteq reasons', UNCHANGED <<settings, shown>>
      PROVE  Right(settings'.peers, shown')
  BY <1>0, <1>3
<1>4. ASSUME NEW h \in H,
             Wg(of)!ReadInbound(h) \/ Wg(of)!Build(h) \/ Wg(of)!ReadOld(h) \/ Wg(of)!Fails(h)
      PROVE  raced' = raced /\ reasons \subseteq reasons' /\ UNCHANGED <<settings, shown>>
  <2>1. CASE Wg(of)!ReadInbound(h)
    BY <2>1, ReadFields
  <2>2. CASE Wg(of)!Build(h)
    BY <2>2, BuildFields
  <2>3. CASE Wg(of)!ReadOld(h)
    BY <2>3, ReadOldFields
  <2>4. CASE Wg(of)!Fails(h)
    BY <2>4 DEF Wg!Fails
  <2> QED
    BY <1>4, <2>1, <2>2, <2>3, <2>4
<1>5. ASSUME NEW h \in H, Wg(of)!Save(h)
      PROVE  Right(settings'.peers, shown')
  <2>1. /\ settings' \in handling[h].draft /\ handling[h].pc = "saving"
        /\ shown' = shown \/ shown' = <<>>
        /\ "handed" \in reasons' <=> "handed" \in reasons
        /\ raced' = raced
    BY <1>5, SaveIs
  <2>2. handling[h].alone
    BY <2>1 DEF Wg!LeftAlone
  <2>3. Wg(of)!InHand(handling[h])
    BY <2>2 DEF Wg!AtHand
  <2>4. \A c \in DOMAIN shown : shown[c] \in settings'.peers
    <3>1. CASE ~handling[h].form
      <4>1. Wg(of)!Keep(settings.peers, settings'.peers, active)
        BY <2>1, <2>3, <3>1 DEF Wg!InHand
      <4>2. \A p \in settings.peers :
              p.name \in active /\ p.host # 0 => p \in settings'.peers
        BY <4>1 DEF Wg!Keep, Wg!NoHost
      <4>3. DOMAIN shown \subseteq active
        BY DEF Wg!Shaped
      <4> QED
        BY <1>0, <2>1, <4>2, <4>3
    <3>2. CASE handling[h].form
      <4>1. settings'.peers = settings.peers
        BY <2>1, <2>3, <3>2 DEF Wg!InHand
      <4> QED
        BY <1>0, <2>1, <4>1
    <3> QED
      BY <3>1, <3>2
  <2>5. DOMAIN <<>> = {}
    OBVIOUS
  <2> QED
    BY <1>0, <2>1, <2>4, <2>5
<1>6. ASSUME NEW c \in Wg(of)!Clients, Wg(of)!Look(c)
      PROVE  Right(settings'.peers, shown')
  <2>1. /\ DOMAIN shown' = DOMAIN shown \cup {c}
        /\ shown'[c] \in settings.peers /\ shown'[c].name = c /\ shown'[c].host # 0
        /\ \A d \in DOMAIN shown \ {c} : shown'[d] = shown[d]
        /\ UNCHANGED <<settings, raced, reasons>>
    BY <1>6, LookIs
  <2> QED
    BY <1>0, <2>1
<1>7. UNCHANGED Wg(of)!vars =>
        raced' = raced /\ reasons \subseteq reasons' /\ UNCHANGED <<settings, shown>>
  BY DEF Wg!vars
<1> HIDE DEF Right
<1> QED
  BY <1>1, <1>2, <1>3, <1>4, <1>5, <1>6, <1>7, TunnelSteps

LEMMA TunnelInit ==
  ASSUME NEW CONSTANT of, Wg(of)!WireguardAssumption, Wg(of)!Init
  PROVE  Wg(of)!TunnelInv
<1> DEFINE H == of.Handlers
<1>1. PICK peers \in of.Given, a \in of.Servers :
        /\ settings = [server |-> [address |-> a, secret |-> 0], peers |-> peers]
        /\ \A p \in peers : p.host # a
  BY DEF Wg!Init
<1>2. /\ active = {} /\ handling = [h \in H |-> Wg(of)!NoTask]
      /\ shown = <<>> /\ toggles = 0 /\ raced = FALSE /\ reasons = {}
  BY DEF Wg!Init
<1>3. Wg(of)!Proper(peers) /\ Wg(of)!Distinct(peers)
  BY DEF Wg!WireguardAssumption
<1>4. /\ settings.peers = peers /\ settings.server.address = a
      /\ settings = [server |-> settings.server, peers |-> settings.peers]
  BY <1>1
<1>5. Wg(of)!IsSettings(settings) /\ Wg(of)!Apart(settings)
  BY <1>1, <1>3, <1>4 DEF Wg!IsSettings, Wg!Apart
<1>6. \A h \in H : /\ Wg(of)!IsTask(handling[h]) /\ handling[h].pc = "idle"
                   /\ ~handling[h].form /\ handling[h].alone /\ handling[h].draft = {}
  BY <1>2, NoTaskIs
<1>7. DOMAIN shown = {}
  BY <1>2
<1>8. shown = [c \in DOMAIN shown |-> shown[c]]
  BY <1>2
<1>9. handling = [h \in H |-> handling[h]]
  BY <1>2
<1>10. Wg(of)!Shaped
  BY <1>2, <1>5, <1>6, <1>7, <1>8, <1>9 DEF Wg!Shaped
<1>11. Wg(of)!InOrder
  BY <1>5, <1>6 DEF Wg!InOrder
<1>12. Wg(of)!LeftAlone
  BY <1>6 DEF Wg!LeftAlone, Wg!Idle
<1>13. Wg(of)!AtHand
  BY <1>6 DEF Wg!AtHand, Wg!InHand
<1>14. Wg(of)!Caught
  BY <1>2 DEF Wg!Caught
<1>15. Wg(of)!Told
  BY <1>7 DEF Wg!Told
<1> QED
  BY <1>10, <1>11, <1>12, <1>13, <1>14, <1>15 DEF Wg!TunnelInv

LEMMA TunnelNext ==
  ASSUME NEW CONSTANT of, Wg(of)!WireguardAssumption, Wg(of)!TunnelInv,
         [Wg(of)!Next]_(Wg(of)!vars)
  PROVE  Wg(of)!TunnelInv'
<1>1. /\ Wg(of)!Shaped /\ Wg(of)!InOrder /\ Wg(of)!LeftAlone
      /\ Wg(of)!AtHand /\ Wg(of)!Caught /\ Wg(of)!Told
  BY DEF Wg!TunnelInv
<1>2. Wg(of)!Shaped' /\ Wg(of)!InOrder' /\ Wg(of)!LeftAlone'
  BY <1>1, ShapedNext, InOrderNext, LeftAloneNext
<1>3. Wg(of)!AtHand' /\ Wg(of)!Caught' /\ Wg(of)!Told'
  BY <1>1, AtHandNext, CaughtNext, ToldNext
<1> QED
  BY <1>2, <1>3 DEF Wg!TunnelInv

LEMMA TunnelImplies ==
  ASSUME NEW CONSTANT of, Wg(of)!TunnelInv
  PROVE  /\ Wg(of)!TypeOK /\ Wg(of)!PeersFollowClients
         /\ Wg(of)!AddressesDistinct /\ Wg(of)!ShownStillWorks
<1>1. /\ Wg(of)!Shaped /\ Wg(of)!InOrder /\ Wg(of)!Caught /\ Wg(of)!Told
  BY DEF Wg!TunnelInv
<1>2. Wg(of)!TypeOK
  BY <1>1 DEF Wg!TypeOK, Wg!Shaped, Wg!IsSettings
<1>3. Wg(of)!PeersFollowClients
  BY <1>1 DEF Wg!PeersFollowClients, Wg!Caught, Wg!Resting, Wg!Quiet
<1>4. Wg(of)!AddressesDistinct
  BY <1>1 DEF Wg!AddressesDistinct, Wg!InOrder
<1>5. Wg(of)!ShownStillWorks
  BY <1>1 DEF Wg!ShownStillWorks, Wg!Told
<1> QED
  BY <1>2, <1>3, <1>4, <1>5

=============================================================================
