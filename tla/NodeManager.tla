---------------------------- MODULE NodeManager ----------------------------
(***************************************************************************)
(* A worker node: the Manager of node/xray/manager.go, the Xray process it *)
(* owns (xray/process.go), config.json, and the REST handlers through      *)
(* which the panel drives them (node/api/server.go).                       *)
(*                                                                         *)
(* The node holds up to four copies of one configuration: what the core    *)
(* process really serves (changed by gRPC calls without a restart), the    *)
(* Manager's m.config, config.json, and what the panel was told.  Every    *)
(* handler runs under Manager.lock, so each is one action; the failures    *)
(* inside it are outcomes of that action.                                  *)
(*                                                                         *)
(* m.config and the process's own config are one pointer: every path that  *)
(* builds a Process passes m.config, so `saved` stands for both.           *)
(***************************************************************************)
CONSTANTS
  Tags,     \* inbound tags, the fixed "api" inbound left out
  HotTags,  \* those whose protocol XrayAPI.AddUser knows
  Users,    \* client e-mails
  Rules,    \* session-IP block rules (ruleTag)
  Obs,      \* contents of observatory/burstObservatory
  Faults,   \* which failures may happen: see FaultKinds
  None,     \* nil config, missing file, no process
  Torn      \* a config.json cut short by a failed write

FaultKinds == {"api",     \* a gRPC call fails and changes nothing
               "lost",    \* a gRPC call with a deadline is executed, its reply is not seen
               "save",    \* writing config.json fails, or a crash cuts it short
               "start",   \* the binary is missing or does not start
               "stop",    \* the core survives SIGTERM and SIGKILL
               "install"} \* a download or an extraction fails

\* The parts of xray.Config that the handlers tell apart.
Config ==
  {c \in [tags : SUBSET Tags, users : SUBSET (Tags \X Users),
          rules : SUBSET Rules, obs : Obs] :
     \A p \in c.users : p[1] \in c.tags}

ASSUME NodeAssumption ==
  /\ HotTags \subseteq Tags
  /\ Faults \subseteq FaultKinds
  /\ None \notin Config
  /\ Torn \notin Config
  /\ None # Torn

VARIABLES
  phase,    \* "down", "pull" (booting, before the config pull) or "up"
  core,     \* what the tracked core process serves, None if not running
  saved,    \* m.config
  file,     \* config.json
  orphan,   \* a core outlived the Process object that was replaced
  granted,  \* what the panel asked for and was not refused
  doubt,    \* the panel saw an error (or an old file came back) for a change that happened
  stale     \* the last write of config.json failed

vars == <<phase, core, saved, file, orphan, granted, doubt, stale>>

Init ==
  /\ phase = "down" /\ core = None /\ saved = None /\ file = None
  /\ orphan = FALSE /\ doubt = FALSE /\ stale = FALSE
  /\ granted \in [users : {{}}, rules : {{}}, obs : Obs]

Running == core # None

May(f) == f \in Faults

---------------------------------------------------------------------------
\* Operators on configurations.

\* Config.Equals: the comparison skips Observatory and BurstObservatory.
Equals(a, b) == a.tags = b.tags /\ a.users = b.users /\ a.rules = b.rules

At(t) == {t} \X Users

DropTag(c, t) == [c EXCEPT !.tags = @ \ {t}, !.users = @ \ At(t)]

PutTag(c, t, us) ==
  [c EXCEPT !.tags = @ \cup {t}, !.users = (@ \ At(t)) \cup ({t} \X us)]

AddPair(c, p) == [c EXCEPT !.users = @ \cup {p}]
DropPair(c, p) == [c EXCEPT !.users = @ \ {p}]

AccessOf(c) == [users |-> c.users, rules |-> c.rules, obs |-> c.obs]

---------------------------------------------------------------------------
\* The process and the file.

\* saveConfigToFile: os.WriteFile truncates, then writes.
Save(c) ==
  \/ file' = c /\ stale' = FALSE
  \/ May("save") /\ file' \in {file, Torn} /\ stale' = TRUE

\* process.Start: the config is written before the binary is looked up.
Start(c) ==
  \/ Save(c) /\ stale' = FALSE /\ core' = c
  \/ Save(c) /\ stale' = FALSE /\ core' = None /\ May("start")
  \/ Save(c) /\ stale' = TRUE /\ core' = None

\* process.Stop: TRUE when the core is "still running after stop".
StopSurvivors == IF Running /\ May("stop") THEN BOOLEAN ELSE {FALSE}

\* Reload as it would be if it warned about a failed Stop and went on, as ApplyConfig does.
ReloadIgnoringStop ==
  /\ Running /\ saved # None
  /\ \E survives \in StopSurvivors : orphan' = (orphan \/ survives)
  /\ UNCHANGED saved
  /\ Start(saved)

\* Reload returns Stop's error and keeps the process it could not stop.
Reload ==
  /\ Running /\ saved # None
  /\ UNCHANGED <<saved, orphan>>
  /\ \/ TRUE \in StopSurvivors /\ UNCHANGED <<core, file, stale>>
     \/ Start(saved)

\* ApplyConfig only warns when Stop fails and then replaces m.process.
ApplyConfig(c) ==
  \/ /\ Running /\ Equals(saved, c)
     /\ UNCHANGED <<core, saved, file, stale, orphan>>
  \/ /\ ~(Running /\ Equals(saved, c))
     /\ \E survives \in StopSurvivors : orphan' = (orphan \/ survives)
     /\ saved' = c
     /\ Start(c)

\* ForceReload: a readable config.json wins over m.config; a first Start that
\* fails is tried once more with the same config, which adds no outcome.
ForceReload ==
  /\ \E survives \in StopSurvivors : orphan' = (orphan \/ survives)
  /\ \/ file \in Config /\ saved' = file /\ Start(file)
     \/ file \notin Config /\ saved # None /\ saved' = saved /\ Start(saved)
     \/ /\ file \notin Config /\ saved = None
        /\ core' = None /\ UNCHANGED <<saved, file, stale>>

Stop ==
  /\ UNCHANGED <<saved, file, stale, orphan>>
  /\ core' \in (IF TRUE \in StopSurvivors THEN {None, core} ELSE {None})

\* InstallXrayVersion stops the core first; a failed download leaves it so.
InstallXrayVersion ==
  \E survives \in StopSurvivors :
    \/ /\ May("install")
       /\ core' = (IF survives THEN core ELSE None)
       /\ UNCHANGED <<saved, file, stale, orphan>>
    \/ /\ saved # None
       /\ orphan' = (orphan \/ survives)
       /\ UNCHANGED saved
       /\ Start(saved)

---------------------------------------------------------------------------
\* Changes made in the running core by gRPC, then in m.config and the file.
\* Each takes the outcome r the handler sees.

\* Persisting an added user without looking for its inbound first.
PersistAddAnywhere(t, u) ==
  /\ saved' = AddPair(saved, <<t, u>>)
  /\ Save(saved')

\* updateConfigFileAfterUserAddition
PersistAdd(t, u) ==
  IF t \in saved.tags /\ <<t, u>> \notin saved.users
  THEN saved' = AddPair(saved, <<t, u>>) /\ Save(saved')
  ELSE UNCHANGED <<saved, file, stale>>

\* A removal that edits m.config and forgets to write the file.
PersistRemoveInMemory(t, u) ==
  /\ saved' = DropPair(saved, <<t, u>>)
  /\ UNCHANGED <<file, stale>>

\* updateConfigFileAfterUserRemoval
PersistRemove(t, u) ==
  IF <<t, u>> \in saved.users
  THEN saved' = DropPair(saved, <<t, u>>) /\ Save(saved')
  ELSE UNCHANGED <<saved, file, stale>>

\* XrayAPI.AddUser returns nil without a call for a protocol it does not know.
AddUser(t, u, r) ==
  /\ Running
  /\ \/ t \notin HotTags /\ r = "ok" /\ UNCHANGED core /\ PersistAdd(t, u)
     \/ /\ t \in HotTags /\ t \in core.tags /\ <<t, u>> \notin core.users
        /\ r = "ok" /\ core' = AddPair(core, <<t, u>>) /\ PersistAdd(t, u)
     \/ /\ t \in HotTags /\ <<t, u>> \in core.users
        /\ r = "exists" /\ UNCHANGED <<core, saved, file, stale>>
     \/ /\ t \in HotTags /\ (t \notin core.tags \/ May("api"))
        /\ r = "error" /\ UNCHANGED <<core, saved, file, stale>>

\* A removal that takes the user out of m.config before the core has agreed.
RemoveUserSavedFirst(t, u, r) ==
  /\ Running
  /\ PersistRemove(t, u)
  /\ \/ t \in core.tags \cap HotTags /\ r = "ok" /\ core' = DropPair(core, <<t, u>>)
     \/ r = "error" /\ May("api") /\ UNCHANGED core

\* RemoveUser: "not found" counts as done and returns before the file is touched.
\* The call has a 5 s deadline, so an error may follow a removal that happened.
RemoveUser(t, u, r) ==
  /\ Running
  /\ \/ /\ t \in HotTags /\ <<t, u>> \in core.users
        /\ r = "ok" /\ core' = DropPair(core, <<t, u>>) /\ PersistRemove(t, u)
     \/ /\ t \notin core.tags \/ (t \in HotTags /\ <<t, u>> \notin core.users)
        /\ r = "ok" /\ UNCHANGED <<core, saved, file, stale>>
     \/ /\ t \in core.tags /\ (t \notin HotTags \/ May("api"))
        /\ r = "error" /\ UNCHANGED <<core, saved, file, stale>>
     \/ /\ May("lost") /\ t \in HotTags /\ <<t, u>> \in core.users
        /\ r = "error" /\ core' = DropPair(core, <<t, u>>)
        /\ UNCHANGED <<saved, file, stale>>

\* UpdateInbound removes the inbound, ignoring an error, and adds the new one.
UpdateInbound(t, us, r) ==
  /\ Running
  /\ \/ /\ r = "ok"
        /\ core' = PutTag(core, t, us) /\ saved' = PutTag(saved, t, us)
        /\ Save(saved')
     \/ /\ May("api") /\ r = "error"   \* the removal worked, the addition did not
        /\ core' = DropTag(core, t) /\ UNCHANGED <<saved, file, stale>>
     \/ /\ May("api") /\ r = "error"   \* the removal failed, so the tag is taken
        /\ UNCHANGED <<core, saved, file, stale>>

\* A removal that stops at the core.
DelInboundCoreOnly(t, r) ==
  /\ Running /\ r = "ok"
  /\ core' = DropTag(core, t)
  /\ UNCHANGED <<saved, file, stale>>

\* DelInbound: again "not found" returns before m.config is touched.
DelInbound(t, r) ==
  /\ Running
  /\ \/ /\ t \in core.tags /\ r = "ok"
        /\ core' = DropTag(core, t) /\ saved' = DropTag(saved, t)
        /\ Save(saved')
     \/ t \notin core.tags /\ r = "ok" /\ UNCHANGED <<core, saved, file, stale>>
     \/ May("api") /\ r = "error" /\ UNCHANGED <<core, saved, file, stale>>

\* persistSessionIPBlockRuleToSavedConfig, removeSessionIPBlockRuleFromSavedConfig
PersistRules(rs) == saved' = [saved EXCEPT !.rules = rs] /\ Save(saved')

\* The blocked = true half of ApplySessionIPBlockRoutingHot (15 s deadline).
BlockSession(x, r) ==
  /\ Running
  /\ \/ /\ x \notin core.rules /\ r = "ok"
        /\ core' = [core EXCEPT !.rules = @ \cup {x}]
        /\ PersistRules(saved.rules \cup {x})
     \/ /\ (x \in core.rules \/ May("api")) /\ r = "error"
        /\ UNCHANGED <<core, saved, file, stale>>
     \/ /\ May("lost") /\ r = "error"
        /\ core' = [core EXCEPT !.rules = @ \cup {x}]
        /\ UNCHANGED <<saved, file, stale>>

\* Its blocked = false half: a rule the core does not know is still forgotten.
UnblockSession(x, r) ==
  /\ Running
  /\ \/ /\ r = "ok"
        /\ core' = [core EXCEPT !.rules = @ \ {x}]
        /\ PersistRules(saved.rules \ {x})
     \/ May("api") /\ r = "error" /\ UNCHANGED <<core, saved, file, stale>>
     \/ /\ May("lost") /\ x \in core.rules /\ r = "error"
        /\ core' = [core EXCEPT !.rules = @ \ {x}]
        /\ UNCHANGED <<saved, file, stale>>

---------------------------------------------------------------------------
(***************************************************************************)
(* The REST handlers.  `granted` follows what the panel asked for: a full  *)
(* configuration counts as asked for even if the core did not start (the   *)
(* node keeps it as m.config), a refused hot change does not.  An error    *)
(* reply to a hot change that reached the core leaves the panel in doubt.  *)
(***************************************************************************)
HotReply(r) ==
  /\ UNCHANGED <<phase, orphan>>
  /\ doubt' = (doubt \/ (r = "error" /\ core' # core))

\* Handler applyConfig, also the last step of configpull.TryPullAndApply.
\* A restart makes core, m.config and file the panel's again; a skip does not.
AcceptConfig(c) ==
  /\ ApplyConfig(c)
  /\ granted' = AccessOf(c)
  /\ doubt' = (doubt /\ Running /\ Equals(saved, c))

applyConfig(c) == phase = "up" /\ AcceptConfig(c) /\ UNCHANGED phase

Restarted == UNCHANGED <<phase, granted>>

stopXray == phase = "up" /\ Stop /\ UNCHANGED doubt /\ Restarted

reload == phase = "up" /\ Reload /\ UNCHANGED doubt /\ Restarted

\* Handler forceReload; a geofile upload or rollback ends in it when the core runs.
forceReload ==
  /\ phase = "up" /\ ForceReload /\ Restarted
  /\ doubt' = (doubt \/ (file \in Config /\ stale))

installXray == phase = "up" /\ InstallXrayVersion /\ UNCHANGED doubt /\ Restarted

\* "already exists" is a 200 as well.
addUser(t, u) ==
  /\ phase = "up"
  /\ \E r \in {"ok", "exists", "error"} :
       /\ AddUser(t, u, r)
       /\ HotReply(r)
       /\ granted' = IF r = "error" THEN granted
                     ELSE [granted EXCEPT !.users = @ \cup {<<t, u>>}]

removeUser(t, u) ==
  /\ phase = "up"
  /\ \E r \in {"ok", "error"} :
       /\ RemoveUser(t, u, r)
       /\ HotReply(r)
       /\ granted' = IF r = "error" THEN granted
                     ELSE [granted EXCEPT !.users = @ \ {<<t, u>>}]

updateInbound(t, us) ==
  /\ phase = "up"
  /\ \E r \in {"ok", "error"} :
       /\ UpdateInbound(t, us, r)
       /\ HotReply(r)
       /\ granted' = IF r = "error" THEN granted
                     ELSE [granted EXCEPT !.users = (@ \ At(t)) \cup ({t} \X us)]

removeInbound(t) ==
  /\ phase = "up"
  /\ \E r \in {"ok", "error"} :
       /\ DelInbound(t, r)
       /\ HotReply(r)
       /\ granted' = IF r = "error" THEN granted
                     ELSE [granted EXCEPT !.users = @ \ At(t)]

sessionIPBlockRouting(x, blocked) ==
  /\ phase = "up"
  /\ \E r \in {"ok", "error"} :
       /\ IF blocked THEN BlockSession(x, r) ELSE UnblockSession(x, r)
       /\ HotReply(r)
       /\ granted' = CASE r = "error" -> granted
                       [] r = "ok" /\ blocked -> [granted EXCEPT !.rules = @ \cup {x}]
                       [] OTHER -> [granted EXCEPT !.rules = @ \ {x}]

---------------------------------------------------------------------------
\* The environment.

\* The core exits by itself: a crash, a kill, a port it cannot bind.
CoreExit ==
  /\ Running /\ core' = None
  /\ UNCHANGED <<phase, saved, file, orphan, granted, doubt, stale>>

\* The finalizer NewProcess sets stops the core of a collected Process, or it exits.
OrphanExit ==
  /\ orphan /\ orphan' = FALSE
  /\ UNCHANGED <<phase, core, saved, file, granted, doubt, stale>>

\* The container goes down with everything in it, maybe in the middle of a save.
NodeCrash ==
  /\ phase # "down"
  /\ phase' = "down" /\ core' = None /\ saved' = None /\ orphan' = FALSE
  /\ \/ UNCHANGED <<file, stale>>
     \/ May("save") /\ phase = "up" /\ file' = Torn /\ stale' = TRUE
  /\ UNCHANGED <<granted, doubt>>

\* NewManager, LoadConfigFromFile: a missing or broken file leaves Xray stopped.
NodeBoot ==
  /\ phase = "down" /\ phase' = "pull"
  /\ IF file \in Config
     THEN ApplyConfig(file) /\ doubt' = (doubt \/ stale)
     ELSE UNCHANGED <<core, saved, file, stale, orphan, doubt>>
  /\ UNCHANGED granted

\* TryPullAndApply gives up when Xray already runs, or when the panel does not answer.
ConfigPull ==
  /\ phase = "pull" /\ phase' = "up"
  /\ \/ UNCHANGED <<core, saved, file, orphan, granted, doubt, stale>>
     \/ ~Running /\ \E c \in Config : AcceptConfig(c)

Next ==
  \/ \E c \in Config : applyConfig(c)
  \/ stopXray \/ reload \/ forceReload \/ installXray
  \/ \E t \in Tags, u \in Users : addUser(t, u) \/ removeUser(t, u)
  \/ \E t \in Tags, us \in SUBSET Users : updateInbound(t, us)
  \/ \E t \in Tags : removeInbound(t)
  \/ \E x \in Rules, blocked \in BOOLEAN : sessionIPBlockRouting(x, blocked)
  \/ CoreExit \/ OrphanExit \/ NodeCrash \/ NodeBoot \/ ConfigPull

Spec == Init /\ [][Next]_vars

---------------------------------------------------------------------------
(***************************************************************************)
(* Properties.                                                             *)
(***************************************************************************)

\* Every copy of the configuration is well formed: no user without its inbound.
TypeOK ==
  /\ phase \in {"down", "pull", "up"}
  /\ core \in Config \cup {None}
  /\ saved \in Config \cup {None}
  /\ file \in Config \cup {None, Torn}
  /\ granted \in [users : SUBSET (Tags \X Users), rules : SUBSET Rules, obs : Obs]
  /\ orphan \in BOOLEAN /\ doubt \in BOOLEAN /\ stale \in BOOLEAN

Within(a, b) == a.tags \subseteq b.tags /\ a.users \subseteq b.users

\* Whatever fails, the running core never serves an inbound or a user that
\* m.config does not hold: the gRPC call goes first when something is removed and
\* m.config is written only after a call that added it, so no path of the manager
\* forgets a user while the core still lets him in.
CoreWithinSaved ==
  Running => saved # None /\ Within(core, saved)

\* config.json is the configuration in memory unless the last write of it failed:
\* every path that changes m.config ends in a write (manager.go's "the config file
\* stays in sync").
DiskMatchesMemory == saved # None /\ ~stale => file = saved

HotUsers(c) == {p \in c.users : p[1] \in HotTags}

\* A configuration serves what g grants; users of a protocol that cannot be changed
\* in the running core may be missing until the next restart.
Agree(g, c) ==
  /\ c.users \subseteq g.users
  /\ HotUsers(g) \subseteq c.users
  /\ c.rules = g.rules

\* As long as no change was answered with an error although it reached the core, and
\* no outdated file was loaded, the running core serves exactly what the panel was
\* told: across hot changes, repeated calls answered "already exists" or "not found",
\* failed writes, reloads, core crashes and node restarts.
ServesWhatWasGranted == ~doubt /\ Running => Agree(granted, core)

\* Reload never loses track of a core it could not stop (ApplyConfig may).
ReloadKeepsHandle == [][reload => orphan' = orphan]_vars

\* Removing a user was answered with 200: the core does not serve him until the panel
\* asks for it (RemoveUser: "User already removed, consider it success").
RevokedStaysRevoked == Running => core.users \subseteq granted.users

\* A full configuration answered with 200 is the one that runs ("ApplyConfig applies a
\* new XRAY configuration and restarts if needed"), its observatory part included.
ObservatoryApplied == ~doubt /\ ~stale /\ Running => core.obs = granted.obs

---------------------------------------------------------------------------
(***************************************************************************)
(* The inductive invariant.  ServesWhatWasGranted speaks of the core only; *)
(* a restart copies m.config or config.json into the core, so both must    *)
(* agree with the panel too, and the early returns of RemoveUser and       *)
(* DelInbound are right only if the core has lost nothing m.config has.    *)
(***************************************************************************)
Mirror(a, b) ==
  a.tags = b.tags /\ HotUsers(a) = HotUsers(b) /\ a.rules = b.rules

CoreMirrorsSaved == ~doubt /\ Running => Mirror(core, saved)

SavedAgrees == ~doubt /\ saved # None => Agree(granted, saved)

FileAgrees == ~doubt /\ ~stale /\ file \in Config => Agree(granted, file)

DownIsEmpty == phase = "down" => core = None /\ saved = None

NodeInv ==
  /\ TypeOK /\ CoreWithinSaved /\ DiskMatchesMemory
  /\ CoreMirrorsSaved /\ SavedAgrees /\ FileAgrees /\ DownIsEmpty
============================================================================
