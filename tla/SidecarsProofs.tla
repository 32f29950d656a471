--------------------------- MODULE SidecarsProofs ---------------------------
(***************************************************************************)
(* Proof that, in Sidecars, the Telemt processes follow the rows, that a   *)
(* restart of a worker repeats what runs, and that no process is without   *)
(* supervision (SidecarsAsConfigured), for any numbers of handlers, tags,  *)
(* clients, managers, changes and faults, of a worker and of a panel.      *)
(*                                                                         *)
(* The property is not inductive: it speaks of the moments when nobody is  *)
(* at work.  Followed accounts for the others: without an excuse, all is   *)
(* settled, or somebody sets out to bring the rows, holds them as they are *)
(* now, or was overtaken and will leave the excuse.  A handler that takes  *)
(* a manager through a walk or a stop makes late whoever holds payloads    *)
(* (WorkingNow), so that it may clear the excuses only when it is alone    *)
(* (Settles).  The snapshot of a worker is written apart from what it      *)
(* describes; NothingSince says that nothing was started in between.       *)
(***************************************************************************)
EXTENDS Sidecars, TLAPS

-----------------------------------------------------------------------------
(* Runs: a file for each of some tags.                                     *)

\* A run is a function from tags to files.
LEMMA RunIs ==
  ASSUME NEW run
  PROVE  run \in Runs <=> /\ run = [t \in DOMAIN run |-> run[t]]
                          /\ DOMAIN run \subseteq Tags
                          /\ \A t \in DOMAIN run : run[t] \in Files
<1>1. ASSUME run \in Runs
      PROVE  /\ run = [t \in DOMAIN run |-> run[t]]
             /\ DOMAIN run \subseteq Tags
             /\ \A t \in DOMAIN run : run[t] \in Files
  <2>1. PICK T \in SUBSET Tags : run \in [T -> Files]
    BY <1>1 DEF Runs
  <2>2. DOMAIN run = T /\ run = [t \in T |-> run[t]] /\ \A t \in T : run[t] \in Files
    BY <2>1
  <2> QED
    BY <2>2
<1>2. ASSUME run = [t \in DOMAIN run |-> run[t]], DOMAIN run \subseteq Tags,
             \A t \in DOMAIN run : run[t] \in Files
      PROVE  run \in Runs
  <2>1. run \in [DOMAIN run -> Files]
    BY <1>2
  <2> QED
    BY <2>1, <1>2 DEF Runs
<1> QED
  BY <1>1, <1>2

\* Two runs with the same files are the same.
LEMMA SameRun ==
  ASSUME NEW one \in Runs, NEW other \in Runs, DOMAIN one = DOMAIN other,
         \A t \in DOMAIN one : one[t] = other[t]
  PROVE  one = other
BY RunIs

\* Nothing is a run, the one of no tag.
LEMMA NothingRuns == Nothing \in Runs /\ DOMAIN Nothing = {}
BY RunIs DEF Nothing

\* What is built from the rows can be run.
LEMMA PayloadsRun ==
  ASSUME Shapes
  PROVE  Payloads \in Runs
<1>1. DOMAIN rows \subseteq Tags /\ \A t \in DOMAIN rows : Toml(rows[t]) \in Files
  BY DEF Shapes, Toml, Files
<1> QED
  BY <1>1, RunIs DEF Payloads

\* A walk leaves what was started and what was left alone.
LEMMA AfterWalk ==
  ASSUME NEW has \in Runs, NEW payloads \in Runs, NEW failing,
         NEW started, started \subseteq DOMAIN payloads
  PROVE  /\ After(has, payloads, started, failing) \in Runs
         /\ DOMAIN After(has, payloads, started, failing) =
              started \cup (DOMAIN has \cap (DOMAIN payloads \ failing))
         /\ \A t \in DOMAIN After(has, payloads, started, failing) :
              After(has, payloads, started, failing)[t] = IF t \in started THEN payloads[t] ELSE has[t]
<1> DEFINE after == After(has, payloads, started, failing)
           tags == started \cup (DOMAIN has \cap (DOMAIN payloads \ failing))
<1>1. after = [t \in tags |-> IF t \in started THEN payloads[t] ELSE has[t]]
  BY DEF After
<1>2. DOMAIN after = tags /\ \A t \in tags : after[t] = IF t \in started THEN payloads[t] ELSE has[t]
  BY <1>1
<1>3. tags \subseteq Tags /\ \A t \in tags : after[t] \in Files
  BY <1>2, RunIs
<1>4. after = [t \in DOMAIN after |-> after[t]]
  BY <1>1
<1> HIDE DEF after, tags
<1>5. after \in Runs
  BY <1>2, <1>3, <1>4, RunIs
<1> QED
  BY <1>2, <1>5 DEF after, tags

-----------------------------------------------------------------------------
(* Shapes and TypeOK.                                                      *)

Paired(run, alive) == DOMAIN alive \subseteq DOMAIN run /\ Restrict(run, DOMAIN alive) = alive

\* What lives was started with the file the map has.
LEMMA PairedIs ==
  ASSUME NEW run, NEW alive \in Runs
  PROVE  Paired(run, alive) <=>
           DOMAIN alive \subseteq DOMAIN run /\ \A t \in DOMAIN alive : alive[t] = run[t]
BY RunIs DEF Paired, Restrict

\* A manager that is stopped has nothing, the others have what they had.
LEMMA Stopping ==
  ASSUME Shapes, TypeOK, NEW m, StopAll(m)
  PROVE  /\ entries' \in [Managers -> Runs] /\ procs' \in [Managers -> Runs]
         /\ \A k \in Managers : Paired(entries'[k], procs'[k])
         /\ \A k \in Managers : k = m => entries'[k] = Nothing /\ procs'[k] = Nothing
         /\ \A k \in Managers \ {m} : entries'[k] = entries[k] /\ procs'[k] = procs[k]
<1>1. entries' \in [Managers -> Runs] /\ procs' \in [Managers -> Runs]
  BY NothingRuns DEF StopAll, Shapes
<1>2. /\ \A k \in Managers : k = m => entries'[k] = Nothing /\ procs'[k] = Nothing
      /\ \A k \in Managers \ {m} : entries'[k] = entries[k] /\ procs'[k] = procs[k]
  BY DEF StopAll, Shapes
<1>3. Paired(Nothing, Nothing)
  BY NothingRuns, PairedIs
<1>4. \A k \in Managers : Paired(entries[k], procs[k])
  BY DEF TypeOK, Paired
<1> QED
  BY <1>1, <1>2, <1>3, <1>4

\* A walk of a manager leaves it what was wanted, and leaves the others alone.
LEMMA Walking ==
  ASSUME Shapes, TypeOK, NEW h \in Handlers, NEW failing,
         NEW started \in SUBSET DOMAIN task[h].payloads, Walk(h, started, failing)
  PROVE  /\ entries' \in [Managers -> Runs] /\ procs' \in [Managers -> Runs]
         /\ \A k \in Managers : Paired(entries'[k], procs'[k])
         /\ \A k \in Managers \ {task[h].manager} :
              entries'[k] = entries[k] /\ procs'[k] = procs[k]
         /\ \A k \in Managers : k = task[h].manager =>
              entries'[k] = After(entries[k], task[h].payloads, started, failing)
<1> DEFINE m == task[h].manager
           payloads == task[h].payloads
           walked(run) == After(run, payloads, started, failing)
<1>1. payloads \in Runs
  BY DEF Shapes, Task
<1>2. \A run \in Runs : /\ walked(run) \in Runs
                        /\ DOMAIN walked(run) = started \cup (DOMAIN run \cap (DOMAIN payloads \ failing))
                        /\ \A t \in DOMAIN walked(run) :
                             walked(run)[t] = IF t \in started THEN payloads[t] ELSE run[t]
  <2> SUFFICES ASSUME NEW run \in Runs
               PROVE  /\ walked(run) \in Runs
                      /\ DOMAIN walked(run) = started \cup (DOMAIN run \cap (DOMAIN payloads \ failing))
                      /\ \A t \in DOMAIN walked(run) :
                           walked(run)[t] = IF t \in started THEN payloads[t] ELSE run[t]
    OBVIOUS
  <2>1. started \subseteq DOMAIN payloads
    OBVIOUS
  <2> HIDE DEF payloads
  <2>2. walked(run) \in Runs
    BY <1>1, <2>1, AfterWalk
  <2>3. DOMAIN walked(run) = started \cup (DOMAIN run \cap (DOMAIN payloads \ failing))
    BY DEF After
  <2>4. \A t \in DOMAIN walked(run) :
          walked(run)[t] = IF t \in started THEN payloads[t] ELSE run[t]
    BY DEF After
  <2> QED
    BY <2>2, <2>3, <2>4
<1>3. /\ entries' = [entries EXCEPT ![m] = walked(@)]
      /\ procs' = [procs EXCEPT ![m] = walked(@)]
  BY DEF Walk
<1>4. \A k \in Managers : entries[k] \in Runs /\ procs[k] \in Runs /\ Paired(entries[k], procs[k])
  BY DEF Shapes, TypeOK, Paired
<1>5. entries \in [Managers -> Runs] /\ procs \in [Managers -> Runs]
  BY DEF Shapes
<1>6. \A run \in Runs, alive \in Runs : Paired(run, alive) => Paired(walked(run), walked(alive))
  <2> SUFFICES ASSUME NEW run \in Runs, NEW alive \in Runs, Paired(run, alive)
               PROVE  Paired(walked(run), walked(alive))
    OBVIOUS
  <2>1. DOMAIN alive \subseteq DOMAIN run /\ \A t \in DOMAIN alive : alive[t] = run[t]
    BY PairedIs
  <2> HIDE DEF walked
  <2>2. DOMAIN walked(alive) \subseteq DOMAIN walked(run)
    BY <1>2, <2>1
  <2>3. \A t \in DOMAIN walked(alive) : walked(alive)[t] = walked(run)[t]
    BY <1>2, <2>1, <2>2
  <2>4. walked(alive) \in Runs
    BY <1>2
  <2> QED
    BY <2>2, <2>3, <2>4, PairedIs
<1> HIDE DEF walked, m
<1>7. entries' \in [Managers -> Runs] /\ procs' \in [Managers -> Runs]
  BY <1>2, <1>3, <1>5
<1>8. /\ \A k \in Managers \ {m} : entries'[k] = entries[k] /\ procs'[k] = procs[k]
      /\ \A k \in Managers : k = m => entries'[k] = walked(entries[k]) /\ procs'[k] = walked(procs[k])
  BY <1>3, <1>5
<1>9. \A k \in Managers : Paired(entries'[k], procs'[k])
  BY <1>4, <1>6, <1>8
<1> QED
  BY <1>7, <1>8, <1>9 DEF m, walked

\* Whoever stops the current manager, if there is one, stops it or nothing.
LEMMA Dropping ==
  ASSUME Shapes, TypeOK,
         IF current # NoManager THEN StopAll(current) ELSE UNCHANGED <<entries, procs>>
  PROVE  /\ entries' \in [Managers -> Runs] /\ procs' \in [Managers -> Runs]
         /\ \A k \in Managers : Paired(entries'[k], procs'[k])
         /\ \A k \in Managers : k = current => entries'[k] = Nothing /\ procs'[k] = Nothing
         /\ \A k \in Managers \ {current} : entries'[k] = entries[k] /\ procs'[k] = procs[k]
<1>1. CASE current # NoManager
  BY <1>1, Stopping
<1>2. CASE current = NoManager
  BY <1>2 DEF Shapes, TypeOK, Paired, Managers, NoManager
<1> QED
  BY <1>1, <1>2

\* After a step, too, each manager runs files, and what lives is in its map.
LEMMA ProcessesKept ==
  ASSUME Shapes, TypeOK, [Next]_vars
  PROVE  /\ entries' \in [Managers -> Runs] /\ procs' \in [Managers -> Runs]
         /\ \A m \in Managers : Paired(entries'[m], procs'[m])
<1>1. CASE UNCHANGED <<entries, procs>>
  BY <1>1 DEF Shapes, TypeOK, Paired
<1>2. CASE \E h \in Handlers : Clear(h) \/ StopForRestart(h)
  BY <1>2, Stopping DEF Clear, StopForRestart
<1>3. CASE \E h \in Handlers : StopTelemt(h)
  BY <1>3, Stopping DEF StopTelemt
<1>4. CASE \E h \in Handlers : NothingToRun(h) \/ StopXray(h) \/ Rebuild(h)
  BY <1>4, Dropping DEF NothingToRun, StopXray, Rebuild, DropManager
<1>5. CASE \E h \in Handlers : Apply(h)
  <2>1. PICK h \in Handlers : Apply(h)
    BY <1>5
  <2>2. Wanted(h) \in SUBSET DOMAIN task[h].payloads
    BY DEF Wanted
  <2>3. Walk(h, Wanted(h), {})
    BY <2>1 DEF Apply
  <2> QED
    BY <2>2, <2>3, Walking
<1>6. CASE \E h \in Handlers : ApplyFails(h)
  <2>1. PICK h \in Handlers : ApplyFails(h)
    BY <1>6
  <2>2. PICK failing \in Wanted(h), started \in SUBSET Wanted(h) : Walk(h, started, {failing})
    BY <2>1 DEF ApplyFails
  <2>3. started \in SUBSET DOMAIN task[h].payloads
    BY DEF Wanted
  <2> QED
    BY <2>2, <2>3, Walking
<1>7. CASE \E m \in Managers, t \in Tags : Exits(m, t)
  <2>1. PICK m \in Managers, t \in Tags : Exits(m, t)
    BY <1>7
  <2> DEFINE left == Restrict(procs[m], DOMAIN procs[m] \ {t})
  <2>2. procs[m] \in Runs /\ Paired(entries[m], procs[m])
    BY DEF Shapes, TypeOK, Paired
  <2>3. /\ left = [u \in DOMAIN procs[m] \ {t} |-> procs[m][u]]
        /\ DOMAIN left = DOMAIN procs[m] \ {t} /\ \A u \in DOMAIN left : left[u] = procs[m][u]
    BY DEF Restrict
  <2>4. procs' = [procs EXCEPT ![m] = left] /\ UNCHANGED entries
    BY <2>1 DEF Exits
  <2> HIDE DEF left
  <2>5. left \in Runs
    BY <2>2, <2>3, RunIs
  <2>6. Paired(entries[m], left)
    BY <2>2, <2>3, <2>5, PairedIs
  <2> QED
    BY <2>4, <2>5, <2>6 DEF Shapes, TypeOK, Paired
<1> QED
  BY <1>1, <1>2, <1>3, <1>4, <1>5, <1>6, <1>7
  DEF Next, vars, Change, Build, Undone, Take, Arrive, CommitNothing, NoBinary, ReadSnapshot

\* A task that is given up, and the tasks that were overtaken.
LEMMA NoTaskIs ==
  ASSUME SidecarsAssumption
  PROVE  /\ NoTask \in Task
         /\ NoTask.pc = "idle" /\ NoTask.payloads = Nothing /\ NoTask.stale = FALSE
BY NothingRuns DEF NoTask, Task, NoManager, SidecarsAssumption

\* A worker uses the one manager it has.
LEMMA WorkersManager ==
  ASSUME SidecarsAssumption, Wiring, ~Standalone
  PROVE  current \in Managers /\ current # NoManager
BY DEF SidecarsAssumption, Wiring, Managers, NoManager

\* Whoever else holds something is late; nothing else changes for him.
LEMMA Outdating ==
  ASSUME SidecarsAssumption, Shapes, NEW h \in Handlers
  PROVE  /\ Outdate(h) \in [Handlers -> Task] /\ Outdate(h)[h] = NoTask
         /\ \A g \in Handlers \ {h} :
              /\ Outdate(h)[g].pc = task[g].pc /\ Outdate(h)[g].payloads = task[g].payloads
              /\ Outdate(h)[g].manager = task[g].manager
              /\ Outdate(h)[g].stale = (task[g].stale \/ task[g].pc \in
                                        {"built", "taken", "replay", "stopped", "cleared"})
<1> DEFINE held == {"built", "taken", "replay", "stopped", "cleared"}
           late(g) == [task[g] EXCEPT !.stale = @ \/ task[g].pc \in held]
<1>1. \A g \in Handlers : task[g] \in Task
  BY DEF Shapes
<1>2. ASSUME NEW g \in Handlers
      PROVE  /\ late(g) \in Task /\ late(g).pc = task[g].pc /\ late(g).payloads = task[g].payloads
             /\ late(g).manager = task[g].manager
             /\ late(g).stale = (task[g].stale \/ task[g].pc \in held)
  BY <1>1, <1>2 DEF Task
<1>3. Outdate(h) = [g \in Handlers |-> IF g = h THEN NoTask ELSE late(g)]
  BY DEF Outdate
<1> HIDE DEF late, held
<1>4. Outdate(h) \in [Handlers -> Task] /\ Outdate(h)[h] = NoTask
      /\ \A g \in Handlers \ {h} : Outdate(h)[g] = late(g)
  BY <1>2, <1>3, NoTaskIs
<1> QED
  BY <1>2, <1>4 DEF held

\* After a step, too, the tasks are tasks.
LEMMA TasksKept ==
  ASSUME SidecarsAssumption, Shapes, Wiring, [Next]_vars
  PROVE  task' \in [Handlers -> Task]
<1>1. task \in [Handlers -> Task] /\ Payloads \in Runs
  BY PayloadsRun DEF Shapes
<1>2. CASE UNCHANGED task
  BY <1>1, <1>2
<1>3. CASE \E h \in Handlers : task' = [task EXCEPT ![h] = NoTask] \/ task' = Outdate(h)
  BY <1>1, <1>3, NoTaskIs, Outdating
<1>4. CASE \E h \in Handlers : Change(h) \/ Build(h) \/ Rebuild(h) \/ StopForRestart(h)
  BY <1>1, <1>4 DEF Change, Build, Rebuild, StopForRestart, Task
<1>5. CASE \E h \in Handlers : Take(h) \/ Arrive(h)
  <2>1. PICK h \in Handlers : Take(h) \/ Arrive(h)
    BY <1>5
  <2>2. PICK m \in 0 .. MaxManagers : task' = [task EXCEPT ![h].pc = "taken", ![h].manager = m]
    <3>1. current \in 0 .. MaxManagers /\ made \in 0 .. MaxManagers
      BY DEF Shapes, NoManager, SidecarsAssumption
    <3>2. CASE Arrive(h)
      BY <3>1, <3>2 DEF Arrive
    <3>3. CASE Take(h)
      <4>1. current' \in 0 .. MaxManagers
        BY <3>1, <3>3 DEF Take, SidecarsAssumption
      <4> QED
        BY <4>1, <3>3 DEF Take
    <3> QED
      BY <2>1, <3>2, <3>3
  <2> QED
    BY <1>1, <2>2 DEF Task
<1>6. CASE \E h \in Handlers : ReadSnapshot(h)
  <2>1. PICK h \in Handlers : ReadSnapshot(h)
    BY <1>6
  <2>2. PICK payloads \in snapshot[current] :
          task' = [task EXCEPT ![h] = [NoTask EXCEPT
                     !.pc = "replay", !.payloads = payloads, !.manager = current,
                     !.stale = \E g \in Handlers : task[g].pc = "cleared"]]
    BY <2>1 DEF ReadSnapshot
  <2> DEFINE late == \E g \in Handlers : task[g].pc = "cleared"
             read == [NoTask EXCEPT !.pc = "replay", !.payloads = payloads,
                                    !.manager = current, !.stale = late]
  <2>3. current \in 0 .. MaxManagers
    BY DEF Shapes, NoManager, SidecarsAssumption
  <2>4. payloads \in Runs
    BY <2>1, <2>2, WorkersManager DEF ReadSnapshot, Shapes
  <2>5. late \in BOOLEAN
    OBVIOUS
  <2> HIDE DEF late
  <2>6. read \in Task
    BY <2>3, <2>4, <2>5 DEF NoTask, Task
  <2> QED
    BY <1>1, <2>2, <2>6 DEF late
<1>7. CASE \E h \in Handlers : Clear(h)
  <2>1. PICK h \in Handlers : Clear(h)
    BY <1>7
  <2>2. [task[h] EXCEPT !.pc = "cleared", !.stale = FALSE] \in Task
    BY <1>1 DEF Task
  <2> QED
    BY <2>1, <2>2, Outdating DEF Clear
<1> QED
  BY <1>2, <1>3, <1>4, <1>5, <1>6, <1>7
  DEF Next, vars, Undone, NoBinary, CommitNothing, Apply, ApplyFails, Walk, NothingToRun,
      StopXray, StopTelemt, Exits

\* A change of a row leaves rows.
LEMMA RowsKept ==
  ASSUME Shapes, [Next]_vars
  PROVE  rows' \in UNION {[T -> [Clients -> Rows]] : T \in SUBSET Tags}
<1>1. PICK T \in SUBSET Tags : rows \in [T -> [Clients -> Rows]]
  BY DEF Shapes
<1>2. CASE UNCHANGED rows
  BY <1>1, <1>2
<1>3. CASE \E h \in Handlers : Change(h)
  <2>1. PICK t \in Tags :
          \/ \E members \in [Clients -> Rows] :
               rows' = [u \in DOMAIN rows \cup {t} |-> IF u = t THEN members ELSE rows[u]]
          \/ rows' = Restrict(rows, DOMAIN rows \ {t})
    BY <1>3 DEF Change
  <2>2. rows' \in [T \cup {t} -> [Clients -> Rows]] \/ rows' \in [T \ {t} -> [Clients -> Rows]]
    BY <1>1, <2>1 DEF Restrict
  <2>3. T \cup {t} \in SUBSET Tags /\ T \ {t} \in SUBSET Tags
    BY <1>1
  <2> QED
    BY <2>2, <2>3
<1> QED
  BY <1>2, <1>3
  DEF Next, vars, Build, Undone, NoBinary, Take, Arrive, Clear, CommitNothing, Apply, ApplyFails,
      Walk, NothingToRun, StopXray, StopTelemt, Rebuild, ReadSnapshot, StopForRestart, Exits

\* The manager in use is the last one made, or none.
LEMMA ManagersKept ==
  ASSUME SidecarsAssumption, Shapes, [Next]_vars
  PROVE  /\ made' \in 0 .. MaxManagers /\ current' \in {NoManager, made'} /\ made' >= made
         /\ ~Standalone => UNCHANGED <<current, made>>
<1>1. CASE UNCHANGED <<current, made>>
  BY <1>1 DEF Shapes, SidecarsAssumption
<1>2. CASE UNCHANGED made /\ current' = NoManager /\ Standalone
  BY <1>2 DEF Shapes, SidecarsAssumption
<1>3. CASE \E h \in Handlers : Take(h)
  BY <1>3 DEF Take, Shapes, SidecarsAssumption, NoManager
<1> QED
  BY <1>1, <1>2, <1>3
  DEF Next, vars, Change, Build, Undone, NoBinary, Arrive, Clear, CommitNothing, Apply, ApplyFails,
      Walk, NothingToRun, StopXray, DropManager, StopTelemt, Rebuild, ReadSnapshot,
      StopForRestart, Exits

\* A snapshot is of payloads that have been handed over.
LEMMA SnapshotsKept ==
  ASSUME Shapes, [Next]_vars
  PROVE  snapshot' \in [Managers -> SUBSET Runs]
<1>1. CASE UNCHANGED snapshot
  BY <1>1 DEF Shapes
<1>2. CASE \E h \in Handlers : CommitNothing(h)
  <2>1. PICK h \in Handlers : snapshot' = [snapshot EXCEPT ![task[h].manager] = {Nothing}]
    BY <1>2 DEF CommitNothing
  <2>2. {Nothing} \in SUBSET Runs
    BY NothingRuns
  <2> QED
    BY <2>1, <2>2 DEF Shapes
<1>3. CASE \E h \in Handlers : Apply(h)
  <2>1. PICK h \in Handlers : Apply(h)
    BY <1>3
  <2>2. task[h].payloads \in Runs
    BY DEF Shapes, Task
  <2>3. snapshot' = [snapshot EXCEPT ![task[h].manager] = {task[h].payloads}]
    BY <2>1 DEF Apply
  <2> QED
    BY <2>2, <2>3 DEF Shapes
<1> QED
  BY <1>1, <1>2, <1>3
  DEF Next, vars, Change, Build, Undone, NoBinary, Take, Arrive, Clear, ApplyFails, Walk,
      NothingToRun, StopXray, StopTelemt, Rebuild, ReadSnapshot, StopForRestart, Exits

\* No excuse but those there are.
LEMMA ExcusesKept ==
  ASSUME TypeOK, [Next]_vars
  PROVE  excuses' \subseteq {"failed", "overtaken", "dropped", "stopped"}
<1>1. CASE UNCHANGED excuses
  BY <1>1 DEF TypeOK
<1>2. CASE \E h \in Handlers, reason \in {"failed", "dropped"} : Excuse(h, reason)
  BY <1>2 DEF Excuse, TypeOK
<1>3. CASE \E h \in Handlers : Settle(h)
  BY <1>3 DEF Settle, TypeOK
<1>4. CASE excuses' = excuses \cup {"stopped"} \/ excuses' = excuses \cup {"overtaken"}
  BY <1>4 DEF TypeOK
<1>5. ASSUME NEW h \in Handlers, Apply(h) \/ ApplyFails(h)
      PROVE  Settle(h) \/ \E reason \in {"failed", "dropped"} : Excuse(h, reason)
  BY <1>5 DEF Apply, ApplyFails
<1> QED
  BY <1>1, <1>2, <1>3, <1>4, <1>5
  DEF Next, vars, Change, Build, Undone, NoBinary, Take, Arrive, Clear, CommitNothing,
      NothingToRun, StopXray, StopTelemt, Rebuild, ReadSnapshot, StopForRestart, Exits

\* Together: the types are kept.
LEMMA TypesKept ==
  ASSUME SidecarsAssumption, TypeOK, Shapes, Wiring, [Next]_vars
  PROVE  TypeOK' /\ Shapes'
<1>1. entries' \in [Managers -> Runs] /\ procs' \in [Managers -> Runs]
      /\ \A m \in Managers : Paired(entries'[m], procs'[m])
  BY ProcessesKept
<1>2. made' \in 0 .. MaxManagers /\ current' \in {NoManager, made'}
  BY ManagersKept
<1>3. rows' \in UNION {[T -> [Clients -> Rows]] : T \in SUBSET Tags}
  BY RowsKept
<1>4. Shapes'
  BY <1>1, <1>2, <1>3, TasksKept, SnapshotsKept DEF Shapes
<1>5. DOMAIN rows' \subseteq Tags
  BY <1>3
<1>6. \A m \in Managers : DOMAIN entries'[m] \subseteq Tags
  BY <1>1, RunIs
<1>7. TypeOK'
  BY <1>1, <1>2, <1>5, <1>6, ExcusesKept DEF TypeOK, Paired
<1> QED
  BY <1>4, <1>7

-----------------------------------------------------------------------------
(* What a step does to the managers and to the tasks.                      *)

Step(h) ==
  \/ Change(h) \/ Build(h) \/ Undone(h) \/ Take(h) \/ Arrive(h)
  \/ Clear(h) \/ CommitNothing(h) \/ Apply(h) \/ ApplyFails(h) \/ NoBinary(h)
  \/ NothingToRun(h) \/ StopXray(h) \/ StopTelemt(h)
  \/ Rebuild(h) \/ ReadSnapshot(h) \/ StopForRestart(h)

\* The steps that settle the processes: whoever holds payloads is then late.
Walks(h) == Apply(h) \/ ApplyFails(h)
Settling(h) == Clear(h) \/ NothingToRun(h) \/ Walks(h)

\* A step is somebody's, or the end of a process, or none.
LEMMA Steps ==
  ASSUME [Next]_vars
  PROVE  (\E h \in Handlers : Step(h)) \/ (\E m \in Managers, t \in Tags : Exits(m, t)) \/ UNCHANGED vars
BY DEF Next, Step

\* Only who has taken a manager starts anything with it.
LEMMA OnlyItsUsers ==
  ASSUME Shapes, TypeOK, [Next]_vars, NEW m \in Managers
  PROVE  \/ entries'[m] = entries[m] /\ procs'[m] = procs[m]
         \/ entries'[m] = Nothing /\ procs'[m] = Nothing
         \/ entries'[m] = entries[m] /\ procs[m] # Nothing
         \/ \E h \in Handlers : Walks(h) /\ task[h].manager = m
<1>1. CASE UNCHANGED <<entries, procs>>
  BY <1>1
<1>2. CASE \E h \in Handlers : Clear(h) \/ StopForRestart(h)
  <2>1. PICK h \in Handlers : StopAll(task[h].manager)
    BY <1>2 DEF Clear, StopForRestart
  <2> QED
    BY <2>1, Stopping
<1>3. CASE \E h \in Handlers : StopTelemt(h)
  BY <1>3, Stopping DEF StopTelemt
<1>4. CASE \E h \in Handlers : NothingToRun(h) \/ StopXray(h) \/ Rebuild(h)
  BY <1>4, Dropping DEF NothingToRun, StopXray, Rebuild, DropManager
<1>5. CASE \E h \in Handlers : Walks(h)
  <2>1. PICK h \in Handlers : Walks(h)
    BY <1>5
  <2>2. CASE task[h].manager = m
    BY <2>1, <2>2
  <2>3. CASE task[h].manager # m
    BY <2>1, <2>3 DEF Walks, Apply, ApplyFails, Walk, Shapes
  <2> QED
    BY <2>2, <2>3
<1>6. CASE \E k \in Managers, t \in Tags : Exits(k, t)
  BY <1>6, NothingRuns DEF Exits, Shapes
<1> QED
  BY <1>1, <1>2, <1>3, <1>4, <1>5, <1>6
  DEF Next, vars, Walks, Change, Build, Undone, Take, Arrive, CommitNothing, NoBinary, ReadSnapshot

\* The others go on with what they have in their hands.
LEMMA Others ==
  ASSUME SidecarsAssumption, Shapes, NEW h \in Handlers, Step(h), NEW g \in Handlers \ {h}
  PROVE  /\ task'[g].pc = task[g].pc /\ task'[g].payloads = task[g].payloads
         /\ task'[g].manager = task[g].manager
         /\ task'[g].stale = (task[g].stale \/ (Settling(h) /\ task[g].pc \in
                              {"built", "taken", "replay", "stopped", "cleared"}))
<1>1. CASE Settling(h)
  <2>1. task' = Outdate(h) \/ task' = [Outdate(h) EXCEPT ![h] = [task[h] EXCEPT !.pc = "cleared",
                                                                             !.stale = FALSE]]
    BY <1>1 DEF Settling, Walks, Clear, NothingToRun, Apply, ApplyFails, Walk
  <2>2. task'[g] = Outdate(h)[g]
    BY <2>1, Outdating
  <2> QED
    BY <1>1, <2>2, Outdating
<1>2. CASE ~Settling(h)
  <2>1. task'[g] = task[g]
    BY <1>2 DEF Shapes, Step, Settling, Walks, Change, Build, Undone, Take, Arrive, CommitNothing,
                NoBinary, StopXray, StopTelemt, Rebuild, ReadSnapshot, StopForRestart
  <2>2. task[g].stale \in BOOLEAN
    BY DEF Shapes, Task
  <2> QED
    BY <1>2, <2>1, <2>2
<1> QED
  BY <1>1, <1>2

\* Who has taken a manager, is about to restart it, or has stopped it.
LEMMA Actor ==
  ASSUME SidecarsAssumption, Shapes, NEW h \in Handlers, Step(h),
         task'[h].pc \in {"taken", "replay", "cleared"}
  PROVE  \/ Take(h) /\ task'[h].pc = "taken" /\ task'[h].manager = current'
            /\ task'[h].payloads = task[h].payloads
         \/ Arrive(h) /\ task'[h].pc = "taken" /\ task'[h].manager = current
         \/ Clear(h) /\ task'[h].pc = "cleared" /\ task'[h].manager = task[h].manager
         \/ ReadSnapshot(h) /\ task'[h].pc = "replay" /\ task'[h].manager = current
         \/ StopForRestart(h) /\ task'[h].pc = "taken" /\ task'[h].manager = task[h].manager
         \/ (StopXray(h) \/ StopTelemt(h)) /\ task'[h] = task[h]
<1>1. task[h] \in Task
  BY DEF Shapes
<1>2. CASE task'[h] = NoTask
  BY <1>2, NoTaskIs
<1>3. CASE Change(h) \/ Build(h) \/ Rebuild(h)
  BY <1>1, <1>3 DEF Change, Build, Rebuild, Shapes, Task
<1>4. CASE Take(h) \/ Arrive(h)
  BY <1>1, <1>4 DEF Take, Arrive, Shapes, Task
<1>5. CASE Clear(h)
  <2>1. task'[h] = [task[h] EXCEPT !.pc = "cleared", !.stale = FALSE]
    BY <1>5, Outdating DEF Clear
  <2> QED
    BY <1>1, <1>5, <2>1 DEF Task
<1>6. CASE ReadSnapshot(h)
  BY <1>6, ZenonT(30) DEF ReadSnapshot, NoTask, Shapes
<1>7. CASE StopForRestart(h)
  BY <1>1, <1>7 DEF StopForRestart, Shapes, Task
<1>8. CASE StopXray(h) \/ StopTelemt(h)
  BY <1>8 DEF StopXray, StopTelemt
<1>9. CASE NothingToRun(h) \/ Walks(h)
  BY <1>2, <1>9, Outdating DEF NothingToRun, Walks, Apply, ApplyFails, Walk
<1>10. CASE Undone(h) \/ CommitNothing(h) \/ NoBinary(h)
  BY <1>2, <1>10 DEF Undone, CommitNothing, NoBinary, Shapes
<1> QED
  BY <1>3, <1>4, <1>5, <1>6, <1>7, <1>8, <1>9, <1>10 DEF Step, Walks

-----------------------------------------------------------------------------
(* Wiring, Dropped and NothingSince.                                       *)

\* A step that is nobody's leaves the tasks, the rows and the managers.
LEMMA NobodysStep ==
  ASSUME (\E m \in Managers, t \in Tags : Exits(m, t)) \/ UNCHANGED vars
  PROVE  UNCHANGED <<rows, current, made, entries, snapshot, task, excuses>>
BY DEF Exits, vars

\* A manager that is taken exists, and stays one that exists.
LEMMA InUseKept ==
  ASSUME SidecarsAssumption, Shapes, Wiring, [Next]_vars, NEW h \in Handlers
  PROVE  InUse(h)'
<1>1. InUse(h) /\ (~Standalone => current = 1 /\ made = 1)
      /\ (current = NoManager \/ current = made) /\ made \in Nat
  BY DEF Wiring, Shapes, SidecarsAssumption
<1>2. current' \in {NoManager, made'} /\ made' \in Nat /\ made' >= made
  BY ManagersKept DEF SidecarsAssumption
<1>3. \A m \in 1 .. made : m \in 1 .. made'
  BY <1>1, <1>2
<1>4. CASE task'[h].pc = task[h].pc /\ task'[h].payloads = task[h].payloads
           /\ task'[h].manager = task[h].manager
  BY <1>1, <1>3, <1>4 DEF InUse
<1>5. CASE Step(h)
  <2> SUFFICES ASSUME task'[h].pc \in {"taken", "replay", "cleared"}
               PROVE  InUse(h)'
    BY DEF InUse
  <2>1. CASE Take(h) /\ task'[h].pc = "taken" /\ task'[h].manager = current'
             /\ task'[h].payloads = task[h].payloads
    <3>1. task[h].payloads # Nothing /\ current' = made' /\ current' # NoManager /\ Standalone
      BY <1>1, <2>1 DEF Take, NoManager
    <3>2. current' \in 1 .. made'
      BY <3>1, <1>2 DEF NoManager
    <3> QED
      BY <2>1, <3>1, <3>2 DEF InUse
  <2>2. CASE Arrive(h) /\ task'[h].pc = "taken" /\ task'[h].manager = current
    BY <1>1, <1>3, <2>2 DEF Arrive, InUse
  <2>3. CASE Clear(h) /\ task'[h].pc = "cleared" /\ task'[h].manager = task[h].manager
    BY <1>1, <1>3, <2>3 DEF Clear, InUse
  <2>4. CASE ReadSnapshot(h) /\ task'[h].pc = "replay" /\ task'[h].manager = current
    BY <1>1, <1>3, <2>4 DEF ReadSnapshot, InUse
  <2>5. CASE StopForRestart(h) /\ task'[h].pc = "taken" /\ task'[h].manager = task[h].manager
    BY <1>1, <1>3, <2>5 DEF StopForRestart, InUse
  <2>6. CASE (StopXray(h) \/ StopTelemt(h)) /\ task'[h] = task[h]
    BY <1>4, <2>6
  <2> QED
    BY <1>5, <2>1, <2>2, <2>3, <2>4, <2>5, <2>6, Actor
<1>6. CASE \E g \in Handlers \ {h} : Step(g)
  BY <1>4, <1>6, Others
<1>7. CASE UNCHANGED task
  BY <1>4, <1>7
<1> QED
  BY <1>5, <1>6, <1>7, Steps, NobodysStep

\* Nothing runs in a manager that does not exist yet.
LEMMA WiringKept ==
  ASSUME SidecarsAssumption, TypeOK, Shapes, Wiring, [Next]_vars
  PROVE  Wiring'
<1>1. ~Standalone => current' = 1 /\ made' = 1
  BY ManagersKept DEF Wiring
<1>2. ASSUME NEW m \in Managers, m > made'
      PROVE  entries'[m] = Nothing /\ procs'[m] = Nothing
  <2>1. m > made
    <3>1. m \in Int /\ made \in Int /\ made' \in Int /\ made' >= made
      BY ManagersKept DEF Managers, Shapes, SidecarsAssumption
    <3> QED
      BY <1>2, <3>1
  <2>2. entries[m] = Nothing /\ procs[m] = Nothing
    BY <2>1 DEF Wiring
  <2>3. ASSUME NEW h \in Handlers, Walks(h)
        PROVE  task[h].manager # m
    <3>1. task[h].manager \in 1 .. made
      BY <2>3 DEF Walks, Apply, ApplyFails, Wiring, InUse
    <3>2. made \in Int
      BY DEF Shapes, SidecarsAssumption
    <3> QED
      BY <2>1, <3>1, <3>2
  <2> QED
    BY <2>2, <2>3, OnlyItsUsers
<1>3. \A h \in Handlers : InUse(h)'
  BY InUseKept
<1> QED
  BY <1>1, <1>2, <1>3 DEF Wiring

\* That a dropped manager was used stays on record.
LEMMA OnRecord ==
  ASSUME [Next]_vars, "dropped" \notin excuses'
  PROVE  /\ "dropped" \notin excuses
         /\ \A h \in Handlers : Walks(h) => task[h].manager = current
<1>1. ASSUME NEW h \in Handlers, Step(h)
      PROVE  "dropped" \notin excuses
  BY <1>1 DEF Step, Change, Build, Undone, NoBinary, Take, Arrive, Clear, CommitNothing, Apply,
              ApplyFails, NothingToRun, StopXray, StopTelemt, Rebuild, ReadSnapshot,
              StopForRestart, Settle, Excuse
<1>2. ASSUME NEW h \in Handlers, Walks(h)
      PROVE  task[h].manager = current
  BY <1>2 DEF Walks, Apply, ApplyFails, Excuse
<1> QED
  BY <1>1, <1>2, Steps, NobodysStep

\* A manager is stopped when it is dropped, and not used after without record.
LEMMA DroppedKept ==
  ASSUME SidecarsAssumption, TypeOK, Shapes, Dropped, [Next]_vars
  PROVE  Dropped'
<1> SUFFICES ASSUME "dropped" \notin excuses', NEW m \in Managers, m # current'
             PROVE  entries'[m] = Nothing /\ procs'[m] = Nothing
  BY DEF Dropped
<1>1. CASE m # current
  <2>1. entries[m] = Nothing /\ procs[m] = Nothing
    BY <1>1, OnRecord DEF Dropped
  <2>2. \A h \in Handlers : Walks(h) => task[h].manager # m
    BY <1>1, OnRecord
  <2> QED
    BY <2>1, <2>2, OnlyItsUsers
<1>2. CASE m = current
  <2>1. current' # current /\ current # NoManager
    BY <1>2 DEF Managers, NoManager
  <2>2. PICK h \in Handlers : Step(h)
    BY <2>1, Steps, NobodysStep
  <2>3. NothingToRun(h) \/ StopXray(h)
    BY <2>1, <2>2 DEF Step, Change, Build, Undone, NoBinary, Take, Arrive, Clear, CommitNothing,
       Apply, ApplyFails, Walk, StopTelemt, Rebuild, ReadSnapshot, StopForRestart
  <2>4. StopAll(current)
    BY <2>1, <2>3 DEF NothingToRun, StopXray, DropManager
  <2> QED
    BY <1>2, <2>4, Stopping
<1> QED
  BY <1>1, <1>2

\* Whoever starts something makes late who has just stopped all.
LEMMA NothingSinceKept ==
  ASSUME SidecarsAssumption, TypeOK, Shapes, Wiring, NothingSince, [Next]_vars
  PROVE  NothingSince'
<1> SUFFICES ASSUME NEW g \in Handlers, Clearing(g)'
             PROVE  entries'[task'[g].manager] = Nothing
  BY DEF NothingSince
<1>1. task'[g].pc = "cleared" /\ task'[g].stale = FALSE
  BY DEF Clearing
<1>2. ASSUME NEW h \in Handlers, InUse(h), task[h].pc \in {"taken", "replay", "cleared"}
      PROVE  task[h].manager \in Managers
  BY <1>2 DEF InUse, Managers, Shapes, SidecarsAssumption
<1>3. CASE Clear(g)
  <2>1. StopAll(task[g].manager) /\ task[g].manager \in Managers
    BY <1>2, <1>3 DEF Clear, Wiring
  <2>2. task'[g].manager = task[g].manager
    <3>1. task'[g] = [task[g] EXCEPT !.pc = "cleared", !.stale = FALSE]
      BY <1>3, Outdating DEF Clear
    <3> QED
      BY <3>1 DEF Shapes, Task
  <2> QED
    BY <2>1, <2>2, Stopping
<1>4. ASSUME task'[g].manager = task[g].manager, task[g].pc = "cleared", ~task[g].stale,
             \A h \in Handlers : ~Walks(h)
      PROVE  entries'[task'[g].manager] = Nothing
  <2>1. entries[task[g].manager] = Nothing /\ task[g].manager \in Managers
    BY <1>2, <1>4 DEF NothingSince, Clearing, Wiring
  <2> QED
    BY <1>4, <2>1, OnlyItsUsers
<1>5. CASE \E h \in Handlers \ {g} : Step(h)
  <2>1. PICK h \in Handlers \ {g} : Step(h)
    BY <1>5
  <2>2. /\ task[g].pc = "cleared" /\ task'[g].manager = task[g].manager /\ ~task[g].stale
        /\ ~Settling(h)
    BY <1>1, <2>1, Others
  <2>3. CASE \E k \in Handlers : Walks(k)
    <3>1. PICK k \in Handlers : Walks(k)
      BY <2>3
    <3>2. k # g /\ Step(k) /\ Settling(k)
      BY <2>2, <3>1 DEF Walks, Apply, ApplyFails, Step, Settling
    <3> QED
      BY <1>1, <2>2, <3>2, Others
  <2> QED
    BY <1>4, <2>2, <2>3
<1>6. CASE Step(g) /\ ~Clear(g)
  <2>1. (StopXray(g) \/ StopTelemt(g)) /\ task'[g] = task[g]
    BY <1>1, <1>6, Actor
  <2> QED
    BY <1>1, <2>1 DEF StopXray, StopTelemt, Idle
<1>7. CASE UNCHANGED <<entries, task>>
  BY <1>7 DEF NothingSince, Clearing
<1> QED
  BY <1>3, <1>5, <1>6, <1>7, Steps, NobodysStep

-----------------------------------------------------------------------------
(* Followed.                                                               *)

\* Where somebody is at work, or was overtaken.
Working(h) == Bringing(h) \/ Overtaken(h)

\* The rows change only where somebody sets out to bring them.
LEMMA PayloadsKept ==
  ASSUME NEW h \in Handlers, Step(h), ~Change(h)
  PROVE  UNCHANGED rows /\ Payloads' = Payloads
<1>1. UNCHANGED rows
  BY DEF Step, Build, Undone, NoBinary, Take, Arrive, Clear, CommitNothing, Apply, ApplyFails, Walk,
         NothingToRun, StopXray, StopTelemt, Rebuild, ReadSnapshot, StopForRestart
<1> QED
  BY <1>1 DEF Payloads

\* Who is at work stays at work while others take their steps.
LEMMA StillWorking ==
  ASSUME SidecarsAssumption, Shapes, NEW h \in Handlers, Step(h), ~Change(h),
         NEW g \in Handlers \ {h}, Working(g)
  PROVE  Working(g)'
BY Others, PayloadsKept DEF Working, Bringing, Overtaken, Holding

\* Whoever is not idle when another settles is at work from then on.
LEMMA WorkingNow ==
  ASSUME SidecarsAssumption, Shapes, NEW h \in Handlers, Step(h), Settling(h),
         NEW g \in Handlers \ {h}, ~Idle(g)
  PROVE  Working(g)'
<1>1. task[g].pc \in {"due", "built", "taken", "replay", "cleared"}
  BY DEF Shapes, Task, Idle
<1> QED
  BY <1>1, Others DEF Working, Bringing, Overtaken, Holding

\* A handler that settles all leaves all settled; one that does not leaves
\* somebody at work, or an excuse.
LEMMA Settles ==
  ASSUME SidecarsAssumption, Shapes, Followed, NEW h \in Handlers, Step(h), Settling(h),
         Holding(h), Settle(h), excuses' = {}, ~Holding(h)',
         task[h].payloads = Payloads => InSync',
         ~Standalone => \A payloads \in snapshot'[current'] :
                          payloads = entries'[current'] \/ Clearing(h)'
  PROVE  Settled' \/ \E g \in Handlers : Working(g)'
<1>1. CASE task[h].payloads = Payloads /\ \A g \in Handlers \ {h} : Idle(g)
  <2>1. \A g \in Handlers \ {h} : ~Holding(g)'
    BY <1>1, Others DEF Idle, Holding
  <2> QED
    BY <1>1, <2>1 DEF Settled
<1>2. CASE ~(task[h].payloads = Payloads /\ \A g \in Handlers \ {h} : Idle(g))
  <2>1. excuses = {} /\ ~task[h].stale
    BY <1>2 DEF Settle
  <2>2. PICK g \in Handlers : Working(g)
    BY <2>1 DEF Followed, Settled, Working
  <2>3. CASE g # h
    BY <2>2, <2>3, WorkingNow DEF Working, Bringing, Overtaken, Holding, Idle
  <2>4. CASE g = h
    <3>1. task[h].payloads = Payloads
      BY <2>1, <2>2, <2>4 DEF Working, Bringing, Overtaken, Holding
    <3>2. PICK k \in Handlers \ {h} : ~Idle(k)
      BY <1>2, <3>1
    <3> QED
      BY <3>2, WorkingNow
  <2> QED
    BY <2>3, <2>4
<1> QED
  BY <1>1, <1>2

\* All payloads are run when a walk succeeds.
LEMMA WalkedAll ==
  ASSUME SidecarsAssumption, TypeOK, Shapes, Wiring, NEW h \in Handlers, Apply(h)
  PROVE  task[h].manager \in Managers /\ entries'[task[h].manager] = task[h].payloads
<1> DEFINE m == task[h].manager
           payloads == task[h].payloads
<1>1. m \in Managers /\ m \in 1 .. made
  BY DEF Apply, Wiring, InUse, Managers, Shapes, SidecarsAssumption
<1>2. entries[m] \in Runs /\ payloads \in Runs
  BY <1>1 DEF Shapes, Task
<1>3. entries'[m] = After(entries[m], payloads, Wanted(h), {})
  BY <1>1, <1>2 DEF Apply, Walk, Shapes
<1>4. DOMAIN entries'[m] = DOMAIN payloads /\ \A t \in DOMAIN payloads : entries'[m][t] = payloads[t]
  <2>1. \A t \in DOMAIN payloads : t \in Wanted(h) \/ (t \in DOMAIN entries[m] /\ entries[m][t] = payloads[t])
    BY DEF Wanted
  <2>2. Wanted(h) \subseteq DOMAIN payloads
    BY DEF Wanted
  <2> HIDE DEF payloads, m
  <2>3. DOMAIN entries'[m] = DOMAIN payloads
    BY <1>3, <2>1, <2>2 DEF After
  <2>4. \A t \in DOMAIN payloads : entries'[m][t] = payloads[t]
    BY <1>3, <2>1, <2>2 DEF After
  <2> QED
    BY <2>3, <2>4
<1>5. entries'[m] \in Runs
  BY <1>1, ProcessesKept DEF Next
<1> HIDE DEF payloads, m
<1>6. entries'[m] = payloads
  BY <1>2, <1>4, <1>5, SameRun
<1> QED
  BY <1>1, <1>6 DEF payloads, m

\* An apply of the current manager runs what it holds.
LEMMA ApplyFollows ==
  ASSUME SidecarsAssumption, TypeOK, Shapes, Wiring, Followed, NEW h \in Handlers, Apply(h)
  PROVE  Followed'
<1> SUFFICES ASSUME excuses' = {}
             PROVE  Settled' \/ \E g \in Handlers : Working(g)'
  BY DEF Followed, Working
<1>1. task[h].manager = current /\ Settle(h)
  BY DEF Apply, Excuse
<1>2. current \in Managers /\ entries'[current] = task[h].payloads
  BY <1>1, WalkedAll
<1>3. UNCHANGED current /\ Payloads' = Payloads /\ current # NoManager
  BY <1>2 DEF Apply, Walk, Payloads, Managers, NoManager
<1>4. task[h].payloads = Payloads => InSync'
  BY <1>2, <1>3 DEF InSync
<1>5. snapshot'[current] = {task[h].payloads}
  BY <1>1, <1>2 DEF Apply, Shapes
<1>6. Step(h) /\ Settling(h) /\ Holding(h)
  BY DEF Step, Settling, Walks, Holding, Apply
<1>7. ~Holding(h)'
  BY Outdating, NoTaskIs DEF Holding, Apply, Walk
<1> QED
  BY <1>1, <1>2, <1>3, <1>4, <1>5, <1>6, <1>7, Settles

\* An apply of nothing leaves nothing, and its snapshot still to be written.
LEMMA ClearFollows ==
  ASSUME SidecarsAssumption, TypeOK, Shapes, Wiring, Followed, NEW h \in Handlers, Clear(h)
  PROVE  Followed'
<1> SUFFICES ASSUME excuses' = {}
             PROVE  Settled' \/ \E g \in Handlers : Working(g)'
  BY DEF Followed, Working
<1>1. ~Standalone /\ task[h].manager = current /\ current \in Managers /\ current # NoManager
  <2>1. ~Standalone /\ task[h].manager \in 1 .. made
    BY DEF Clear, Wiring, InUse
  <2> QED
    BY <2>1, WorkersManager DEF Wiring
<1>2. entries'[current] = Nothing
  BY <1>1, Stopping DEF Clear
<1>3. UNCHANGED current /\ Payloads' = Payloads
  BY DEF Clear, Payloads
<1>4. task[h].payloads = Payloads => InSync'
  BY <1>1, <1>2, <1>3 DEF InSync, Clear
<1>5. task'[h] = [task[h] EXCEPT !.pc = "cleared", !.stale = FALSE]
  BY Outdating DEF Clear
<1>6. ~Holding(h)' /\ Clearing(h)'
  BY <1>5 DEF Holding, Clearing, Shapes, Task
<1>7. Step(h) /\ Settling(h) /\ Holding(h) /\ Settle(h)
  BY DEF Step, Settling, Holding, Clear
<1> QED
  BY <1>4, <1>6, <1>7, Settles

\* A panel with nothing to run drops its manager.
LEMMA NothingToRunFollows ==
  ASSUME SidecarsAssumption, TypeOK, Shapes, Wiring, Followed, NEW h \in Handlers, NothingToRun(h)
  PROVE  Followed'
<1> SUFFICES ASSUME excuses' = {}
             PROVE  Settled' \/ \E g \in Handlers : Working(g)'
  BY DEF Followed, Working
<1>1. Standalone /\ current' = NoManager /\ Payloads' = Payloads
  BY DEF NothingToRun, DropManager, Payloads
<1>2. task[h].payloads = Payloads => InSync'
  BY <1>1 DEF InSync, NothingToRun
<1>3. ~Holding(h)'
  BY Outdating, NoTaskIs DEF Holding, NothingToRun
<1>4. Step(h) /\ Settling(h) /\ Holding(h) /\ Settle(h)
  BY DEF Step, Settling, Holding, NothingToRun
<1> QED
  BY <1>1, <1>2, <1>3, <1>4, Settles

\* The snapshot is forgotten with what ran.
LEMMA CommitFollows ==
  ASSUME SidecarsAssumption, Shapes, Wiring, NothingSince, Followed,
         NEW h \in Handlers, CommitNothing(h)
  PROVE  Followed'
<1> SUFFICES ASSUME excuses' = {}
             PROVE  Settled' \/ \E g \in Handlers : Working(g)'
  BY DEF Followed, Working
<1>1. excuses = {} /\ ~task[h].stale /\ Step(h) /\ ~Change(h)
  BY DEF CommitNothing, Change, Idle, Step
<1>2. CASE Settled
  <2>1. ~Standalone /\ task[h].manager = current /\ current \in Managers
    BY WorkersManager DEF CommitNothing, Wiring, InUse
  <2>2. entries[current] = Nothing
    BY <1>1, <2>1 DEF NothingSince, Clearing, CommitNothing
  <2>3. snapshot'[current] = {Nothing} /\ UNCHANGED <<rows, current, entries>>
    BY <2>1 DEF CommitNothing, Shapes
  <2>4. Payloads' = Payloads
    BY <2>3 DEF Payloads
  <2>5. InSync'
    BY <1>2, <2>3, <2>4 DEF Settled, InSync
  <2>6. task'[h] = NoTask
    BY DEF CommitNothing, Shapes
  <2>7. \A g \in Handlers : ~Holding(g)'
    BY <1>1, <1>2, <2>6, NoTaskIs, Others DEF Settled, Holding
  <2> QED
    BY <2>2, <2>3, <2>5, <2>7 DEF Settled
<1>3. CASE ~Settled
  <2>1. PICK g \in Handlers : Working(g)
    BY <1>1, <1>3 DEF Followed, Working
  <2>2. g # h
    BY <1>1, <2>1 DEF CommitNothing, Working, Bringing, Overtaken, Holding
  <2> QED
    BY <1>1, <2>1, <2>2, StillWorking
<1> QED
  BY <1>2, <1>3

\* A restart repeats what runs, or what someone has just stopped.
LEMMA ReadFollows ==
  ASSUME SidecarsAssumption, Shapes, Wiring, Followed, NEW h \in Handlers, ReadSnapshot(h)
  PROVE  Followed'
<1> SUFFICES ASSUME excuses' = {}
             PROVE  Settled' \/ \E g \in Handlers : Working(g)'
  BY DEF Followed, Working
<1>1. excuses = {} /\ Step(h) /\ ~Change(h) /\ ~Standalone
  BY DEF ReadSnapshot, Change, Step
<1>2. PICK payloads \in snapshot[current] :
        task'[h] = [NoTask EXCEPT !.pc = "replay", !.payloads = payloads, !.manager = current,
                                  !.stale = \E g \in Handlers : task[g].pc = "cleared"]
  BY DEF ReadSnapshot, Shapes
<1>3. /\ task'[h].pc = "replay" /\ task'[h].payloads = payloads
      /\ task'[h].stale = \E g \in Handlers : task[g].pc = "cleared"
  BY <1>2 DEF NoTask
<1>4. CASE Settled
  <2>1. entries[current] = Payloads
    BY <1>1, <1>4, WorkersManager DEF Settled, InSync
  <2>2. payloads = Payloads \/ \E g \in Handlers : Clearing(g)
    BY <1>1, <1>4, <2>1 DEF Settled
  <2>3. Payloads' = Payloads
    BY <1>1, PayloadsKept
  <2> QED
    BY <1>3, <2>2, <2>3 DEF Working, Bringing, Overtaken, Holding, Clearing
<1>5. CASE ~Settled
  <2>1. PICK g \in Handlers : Working(g)
    BY <1>1, <1>5 DEF Followed, Working
  <2>2. g # h
    BY <2>1 DEF ReadSnapshot, Idle, Working, Bringing, Overtaken, Holding
  <2> QED
    BY <1>1, <2>1, <2>2, StillWorking
<1> QED
  BY <1>4, <1>5

\* Payloads in hand change hands, or the processes under them.
LEMMA HandingFollows ==
  ASSUME SidecarsAssumption, Shapes, Followed, NEW h \in Handlers,
         Take(h) \/ Arrive(h) \/ StopForRestart(h)
  PROVE  Followed'
<1> SUFFICES ASSUME excuses' = {}
             PROVE  Settled' \/ \E g \in Handlers : Working(g)'
  BY DEF Followed, Working
<1>1. excuses = {} /\ Step(h) /\ ~Change(h) /\ Holding(h)
  BY DEF Take, Arrive, StopForRestart, Change, Step, Idle, Holding
<1>2. PICK g \in Handlers : Working(g)
  BY <1>1 DEF Followed, Settled, Working
<1>3. CASE g = h
  <2>1. task'[h].pc = "taken" /\ task'[h].payloads = task[h].payloads /\ task'[h].stale = task[h].stale
    BY DEF Take, Arrive, StopForRestart, Shapes, Task
  <2>2. Payloads' = Payloads
    BY <1>1, PayloadsKept
  <2> QED
    BY <1>1, <1>2, <1>3, <2>1, <2>2 DEF Working, Bringing, Overtaken, Holding
<1>4. CASE g # h
  BY <1>1, <1>2, <1>4, StillWorking
<1> QED
  BY <1>3, <1>4

\* Together: whatever step is taken, the rows are followed.
LEMMA FollowedKept ==
  ASSUME SidecarsAssumption, TypeOK, Shapes, Wiring, NothingSince, Followed, [Next]_vars
  PROVE  Followed'
<1>1. CASE \E h \in Handlers : Step(h)
  <2>1. PICK h \in Handlers : Step(h)
    BY <1>1
  <2>2. CASE Change(h)
    BY <2>2 DEF Change, Followed, Bringing, Shapes, Task
  <2>3. CASE Build(h)
    <3>1. task'[h].pc = "built" /\ task'[h].payloads = Payloads /\ Payloads' = Payloads
      BY <2>3 DEF Build, Shapes, Task, Payloads
    <3> QED
      BY <3>1 DEF Followed, Bringing, Holding
  <2>4. CASE Undone(h) \/ NoBinary(h) \/ ApplyFails(h) \/ StopXray(h) \/ StopTelemt(h) \/ Rebuild(h)
    <3>1. excuses' # {}
      BY <2>4 DEF Undone, NoBinary, ApplyFails, StopXray, StopTelemt, Rebuild, Excuse
    <3> QED
      BY <3>1 DEF Followed
  <2>5. CASE Take(h) \/ Arrive(h) \/ StopForRestart(h)
    BY <2>5, HandingFollows
  <2>6. CASE Clear(h)
    BY <2>6, ClearFollows
  <2>7. CASE CommitNothing(h)
    BY <2>7, CommitFollows
  <2>8. CASE Apply(h)
    BY <2>8, ApplyFollows
  <2>9. CASE NothingToRun(h)
    BY <2>9, NothingToRunFollows
  <2>10. CASE ReadSnapshot(h)
    BY <2>10, ReadFollows
  <2> QED
    BY <2>1, <2>2, <2>3, <2>4, <2>5, <2>6, <2>7, <2>8, <2>9, <2>10 DEF Step
<1>2. CASE UNCHANGED <<rows, current, made, entries, snapshot, task, excuses>>
  <2>1. Payloads' = Payloads
    BY <1>2 DEF Payloads
  <2> QED
    BY <1>2, <2>1 DEF Followed, Settled, InSync, Bringing, Overtaken, Holding, Clearing
<1> QED
  BY <1>1, <1>2, Steps, NobodysStep

-----------------------------------------------------------------------------
(* The theorems.                                                           *)

\* At first there are no rows and nothing runs.
LEMMA SidecarsInit ==
  ASSUME SidecarsAssumption, Init
  PROVE  SidecarsInv
<1>1. Nothing \in Runs /\ DOMAIN Nothing = {}
  BY NothingRuns
<1>2. made \in 0 .. MaxManagers /\ current = made
  BY DEF Init, SidecarsAssumption
<1>3. entries = [m \in Managers |-> Nothing] /\ procs = entries
  BY DEF Init
<1>4. rows \in UNION {[T -> [Clients -> Rows]] : T \in SUBSET Tags} /\ DOMAIN rows = {}
  <2>1. rows \in [{} -> [Clients -> Rows]]
    BY DEF Init, Nothing
  <2> QED
    BY <2>1
<1>5. task \in [Handlers -> Task] /\ \A h \in Handlers : task[h].pc = "idle"
  <2>1. task = [h \in Handlers |-> NoTask]
    BY DEF Init
  <2> QED
    BY <2>1, NoTaskIs
<1>6. Payloads = Nothing
  <2>1. Payloads = [t \in {} |-> Toml(rows[t])]
    BY <1>4 DEF Payloads
  <2> QED
    BY <2>1 DEF Nothing
<1>7. Paired(Nothing, Nothing)
  BY <1>1, PairedIs
<1>8. TypeOK
  BY <1>1, <1>2, <1>3, <1>4, <1>7 DEF TypeOK, Paired, Init
<1>9. Shapes
  BY <1>1, <1>2, <1>3, <1>4, <1>5 DEF Shapes, Init
<1>10. Wiring
  BY <1>2, <1>3, <1>5 DEF Wiring, InUse, Init
<1>11. Dropped /\ NothingSince
  BY <1>3, <1>5 DEF Dropped, NothingSince, Clearing
<1>12. Followed
  <2>1. InSync
    BY <1>2, <1>3, <1>6 DEF InSync, Managers, NoManager, SidecarsAssumption
  <2>2. \A h \in Handlers : ~Holding(h)
    BY <1>5 DEF Holding
  <2>3. ~Standalone => snapshot[current] = {}
    BY DEF Init, Managers, SidecarsAssumption
  <2> QED
    BY <2>1, <2>2, <2>3 DEF Followed, Settled
<1> QED
  BY <1>8, <1>9, <1>10, <1>11, <1>12 DEF SidecarsInv

\* The invariant is inductive.
LEMMA SidecarsNext ==
  ASSUME SidecarsAssumption, SidecarsInv, [Next]_vars
  PROVE  SidecarsInv'
BY TypesKept, WiringKept, DroppedKept, NothingSinceKept, FollowedKept DEF SidecarsInv

\* The invariant behind the property: somebody brings the rows as they are to
\* the processes, was overtaken and will say so, or the processes have them.
THEOREM SidecarsInvariant ==
  ASSUME SidecarsAssumption
  PROVE  Spec => []SidecarsInv
<1>1. Init => SidecarsInv
  BY SidecarsInit
<1>2. SidecarsInv /\ [Next]_vars => SidecarsInv'
  BY SidecarsNext
<1> QED
  BY <1>1, <1>2, PTL DEF Spec

\* What lives is what was started, with the same file.
THEOREM SidecarsTypes ==
  ASSUME SidecarsAssumption
  PROVE  Spec => []TypeOK
<1>1. SidecarsInv => TypeOK
  BY DEF SidecarsInv
<1> QED
  BY <1>1, SidecarsInvariant, PTL

\* The processes follow the rows, a restart repeats what runs, and no process
\* is without supervision, for any numbers of handlers, tags, clients,
\* managers, changes and faults, of a worker and of a panel.
THEOREM SidecarsFollow ==
  ASSUME SidecarsAssumption
  PROVE  Spec => []SidecarsAsConfigured
<1>1. ASSUME SidecarsInv, Quiet, excuses = {}
      PROVE  Settled /\ \A h \in Handlers : ~Clearing(h)
  BY <1>1 DEF SidecarsInv, Followed, Quiet, Idle, Bringing, Overtaken, Holding, Clearing
<1>2. SidecarsInv => SidecarsFollowRows
  BY <1>1 DEF SidecarsFollowRows, Settled, InSync
<1>3. SidecarsInv => RestartRepeatsWhatRuns
  BY <1>1 DEF RestartRepeatsWhatRuns, Settled
<1>4. SidecarsInv => NoneUnsupervised
  BY DEF SidecarsInv, Dropped, NoneUnsupervised
<1>5. SidecarsInv => SidecarsAsConfigured
  BY <1>2, <1>3, <1>4 DEF SidecarsAsConfigured
<1> QED
  BY <1>5, SidecarsInvariant, PTL

=============================================================================
