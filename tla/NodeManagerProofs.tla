------------------------- MODULE NodeManagerProofs -------------------------
(***************************************************************************)
(* Proofs about NodeManager, for every choice of the constants; at the     *)
(* end, the other parts of Workers, from the proofs of their modules.      *)
(***************************************************************************)
EXTENDS Workers, TLAPS

---------------------------------------------------------------------------
\* The operators on configurations.

\* What each edit of a configuration leaves in its fields; all keep it well formed.
LEMMA DropTagFacts ==
  ASSUME NEW c \in Config, NEW t \in Tags
  PROVE  /\ DropTag(c, t) \in Config
         /\ DropTag(c, t).tags = c.tags \ {t}
         /\ DropTag(c, t).users = c.users \ At(t)
         /\ DropTag(c, t).rules = c.rules
BY DEF Config, DropTag, At

LEMMA PutTagFacts ==
  ASSUME NEW c \in Config, NEW t \in Tags, NEW us \in SUBSET Users
  PROVE  /\ PutTag(c, t, us) \in Config
         /\ PutTag(c, t, us).tags = c.tags \cup {t}
         /\ PutTag(c, t, us).users = (c.users \ At(t)) \cup ({t} \X us)
         /\ PutTag(c, t, us).rules = c.rules
BY DEF Config, PutTag, At

LEMMA AddPairFacts ==
  ASSUME NEW c \in Config, NEW t \in Tags, NEW u \in Users, t \in c.tags
  PROVE  /\ AddPair(c, <<t, u>>) \in Config
         /\ AddPair(c, <<t, u>>).tags = c.tags
         /\ AddPair(c, <<t, u>>).users = c.users \cup {<<t, u>>}
         /\ AddPair(c, <<t, u>>).rules = c.rules
BY DEF Config, AddPair

LEMMA DropPairFacts ==
  ASSUME NEW c \in Config, NEW p
  PROVE  /\ DropPair(c, p) \in Config
         /\ DropPair(c, p).tags = c.tags
         /\ DropPair(c, p).users = c.users \ {p}
         /\ DropPair(c, p).rules = c.rules
BY DEF Config, DropPair

LEMMA RulesFacts ==
  ASSUME NEW c \in Config, NEW rs \in SUBSET Rules
  PROVE  /\ [c EXCEPT !.rules = rs] \in Config
         /\ [c EXCEPT !.rules = rs].tags = c.tags
         /\ [c EXCEPT !.rules = rs].users = c.users
         /\ [c EXCEPT !.rules = rs].rules = rs
BY DEF Config

Grants == [users : SUBSET (Tags \X Users), rules : SUBSET Rules, obs : Obs]

LEMMA AccessFacts ==
  ASSUME NEW c \in Config
  PROVE  AccessOf(c) \in Grants /\ Agree(AccessOf(c), c)
BY DEF Config, AccessOf, Agree, HotUsers, Grants

---------------------------------------------------------------------------
\* Writing config.json and starting the core.

\* A write that is not remembered as failed left exactly c in the file.
LEMMA SaveFacts ==
  ASSUME NEW c \in Config, TypeOK, Save(c)
  PROVE  /\ file' \in Config \cup {None, Torn}
         /\ stale' \in BOOLEAN
         /\ ~stale' => file' = c
BY DEF Save, TypeOK

LEMMA StartFacts ==
  ASSUME NEW c \in Config, TypeOK, Start(c)
  PROVE  /\ core' \in {c, None}
         /\ file' \in Config \cup {None, Torn}
         /\ stale' \in BOOLEAN
         /\ ~stale' => file' = c
BY SaveFacts DEF Start

LEMMA SurvivorsBoolean == StopSurvivors \subseteq BOOLEAN
BY DEF StopSurvivors

\* The state in which a step leaves the four copies of the configuration, as far as
\* the invariant needs to know it.
Settled ==
  /\ saved' \in Config
  /\ core' \in Config \cup {None}
  /\ file' \in Config \cup {None, Torn}
  /\ granted' \in Grants
  /\ phase' \in {"pull", "up"}
  /\ orphan' \in BOOLEAN /\ doubt' \in BOOLEAN /\ stale' \in BOOLEAN
  /\ ~stale' => file' = saved'
  /\ core' # None => Within(core', saved')
  /\ ~doubt' /\ core' # None => Mirror(core', saved')
  /\ ~doubt' => Agree(granted', saved')

LEMMA SettledKeepsInv == Settled => NodeInv'
BY NodeAssumption
   DEF Settled, NodeInv, TypeOK, CoreWithinSaved, DiskMatchesMemory, CoreMirrorsSaved,
       SavedAgrees, FileAgrees, DownIsEmpty, Running, Grants

\* A start of m.config, whatever its outcome.
LEMMA StartSettles ==
  ASSUME NodeInv, NEW c \in Config, saved' = c, Start(c),
         orphan' \in BOOLEAN, doubt' \in BOOLEAN, phase' \in {"pull", "up"},
         granted' \in Grants, ~doubt' => Agree(granted', c)
  PROVE  NodeInv'
<1>1. /\ core' \in {c, None} /\ file' \in Config \cup {None, Torn}
      /\ stale' \in BOOLEAN /\ (~stale' => file' = c)
  BY StartFacts DEF NodeInv
<1>2. Within(c, c) /\ Mirror(c, c)
  BY DEF Within, Mirror
<1> QED
  BY <1>1, <1>2, SettledKeepsInv DEF Settled

\* ApplyConfig on behalf of anyone: the skip leaves the copies as they were, and they
\* are equal in all that Agree and Mirror look at.
LEMMA ApplyKeepsInv ==
  ASSUME NodeInv, NEW c \in Config, ApplyConfig(c),
         phase' \in {"pull", "up"}, doubt' \in BOOLEAN, granted' \in Grants,
         ~doubt' => Agree(granted', c),
         ~doubt' /\ Running /\ Equals(saved, c) => ~doubt
  PROVE  NodeInv'
<1>1. CASE Running /\ Equals(saved, c) /\ UNCHANGED <<core, saved, file, stale, orphan>>
  <2>1. saved \in Config /\ core \in Config
    BY <1>1 DEF NodeInv, TypeOK, CoreWithinSaved, Running
  <2>2. ~doubt' => Agree(granted', saved)
    BY <1>1, <2>1 DEF Equals, Agree, HotUsers
  <2>3. Settled
    BY <1>1, <2>1, <2>2
       DEF Settled, NodeInv, TypeOK, CoreWithinSaved, DiskMatchesMemory,
           CoreMirrorsSaved, Running
  <2> QED
    BY <2>3, SettledKeepsInv
<1>2. CASE /\ \E survives \in StopSurvivors : orphan' = (orphan \/ survives)
           /\ saved' = c
           /\ Start(c)
  <2>1. orphan' \in BOOLEAN
    BY <1>2 DEF NodeInv, TypeOK
  <2> QED
    BY <1>2, <2>1, StartSettles
<1> QED
  BY <1>1, <1>2 DEF ApplyConfig

\* What a hot change may assume: the core runs and both copies are configurations.
LEMMA RunningFacts ==
  ASSUME NodeInv, Running
  PROVE  /\ core \in Config /\ saved \in Config /\ Within(core, saved)
         /\ ~doubt => Mirror(core, saved) /\ Agree(granted, saved)
         /\ ~stale => file = saved
BY DEF NodeInv, TypeOK, CoreWithinSaved, DiskMatchesMemory, CoreMirrorsSaved,
       SavedAgrees, Running

\* A hot change that was refused and changed nothing but, perhaps, the core, from
\* which it can only have taken something away or to which it added a rule.
LEMMA RefusedKeepsInv ==
  ASSUME NodeInv, Running, phase = "up", HotReply("error"),
         UNCHANGED <<saved, file, stale, granted>>,
         core' \in Config, Within(core', core)
  PROVE  NodeInv'
<1>1. /\ core \in Config /\ saved \in Config /\ Within(core, saved)
      /\ (~doubt => Mirror(core, saved) /\ Agree(granted, saved))
      /\ (~stale => file = saved)
  BY RunningFacts
<1>2. Within(core', saved)
  BY <1>1 DEF Within
<1>3. ~doubt' => ~doubt /\ core' = core
  BY DEF HotReply, NodeInv, TypeOK
<1>4. Settled
  BY <1>1, <1>2, <1>3 DEF Settled, HotReply, NodeInv, TypeOK, Grants
<1> QED
  BY <1>4, SettledKeepsInv

\* A hot change that was acknowledged.
LEMMA AcceptedKeepsInv ==
  ASSUME NodeInv, Running, phase = "up", NEW r \in {"ok", "exists"}, HotReply(r),
         saved' \in Config, core' \in Config, granted' \in Grants,
         file' \in Config \cup {None, Torn}, stale' \in BOOLEAN,
         ~stale' => file' = saved',
         Within(core', saved'),
         ~doubt => Mirror(core', saved') /\ Agree(granted', saved')
  PROVE  NodeInv'
<1>1. doubt' = doubt
  BY DEF HotReply, NodeInv, TypeOK
<1>2. Settled
  BY <1>1 DEF Settled, HotReply, NodeInv, TypeOK
<1> QED
  BY <1>2, SettledKeepsInv

---------------------------------------------------------------------------
\* One lemma per handler and environment step.

LEMMA InitNodeInv == Init => NodeInv
BY NodeAssumption
   DEF Init, NodeInv, TypeOK, CoreWithinSaved, DiskMatchesMemory, CoreMirrorsSaved,
       SavedAgrees, FileAgrees, DownIsEmpty, Running

LEMMA ApplyConfigStep ==
  ASSUME NodeInv, NEW c \in Config, applyConfig(c)
  PROVE  NodeInv'
<1>1. doubt' \in BOOLEAN /\ granted' = AccessOf(c) /\ phase' = "up"
  BY DEF applyConfig, AcceptConfig, NodeInv, TypeOK
<1>2. ~doubt' /\ Running /\ Equals(saved, c) => ~doubt
  BY DEF applyConfig, AcceptConfig, NodeInv, TypeOK
<1> QED
  BY <1>1, <1>2, AccessFacts, ApplyKeepsInv DEF applyConfig, AcceptConfig

LEMMA StopStep ==
  ASSUME NodeInv, stopXray
  PROVE  NodeInv'
<1>1. core' \in {None, core} /\ UNCHANGED <<saved, file, stale, orphan, doubt, phase, granted>>
  BY DEF stopXray, Stop, Restarted
<1> QED
  BY <1>1 DEF NodeInv, TypeOK, CoreWithinSaved, DiskMatchesMemory, CoreMirrorsSaved,
              SavedAgrees, FileAgrees, DownIsEmpty, Running

LEMMA ReloadStep ==
  ASSUME NodeInv, reload
  PROVE  NodeInv'
<1>1. UNCHANGED <<saved, orphan, doubt, phase, granted>> /\ phase = "up" /\ Running
  BY DEF reload, Reload, Restarted
<1>2. CASE UNCHANGED <<core, file, stale>>
  BY <1>1, <1>2
     DEF NodeInv, TypeOK, CoreWithinSaved, DiskMatchesMemory, CoreMirrorsSaved,
         SavedAgrees, FileAgrees, DownIsEmpty, Running
<1>3. CASE Start(saved)
  BY <1>1, <1>3, RunningFacts, StartSettles DEF NodeInv, TypeOK, Grants
<1> QED
  BY <1>2, <1>3 DEF reload, Reload

LEMMA ForceReloadStep ==
  ASSUME NodeInv, forceReload
  PROVE  NodeInv'
<1>1. /\ phase = "up" /\ UNCHANGED <<phase, granted>>
      /\ orphan' \in BOOLEAN
      /\ doubt' = (doubt \/ (file \in Config /\ stale)) /\ doubt' \in BOOLEAN
  BY DEF forceReload, ForceReload, Restarted, NodeInv, TypeOK
<1>2. CASE file \in Config /\ saved' = file /\ Start(file)
  <2>1. ~doubt' => Agree(granted', file)
    BY <1>1, <1>2 DEF NodeInv, FileAgrees
  <2> QED
    BY <1>1, <1>2, <2>1, StartSettles DEF NodeInv, TypeOK, Grants
<1>3. CASE file \notin Config /\ saved # None /\ saved' = saved /\ Start(saved)
  <2>1. ~doubt' => Agree(granted', saved)
    BY <1>1, <1>3 DEF NodeInv, SavedAgrees
  <2> QED
    BY <1>1, <1>3, <2>1, StartSettles DEF NodeInv, TypeOK, Grants
<1>4. CASE /\ file \notin Config /\ saved = None
           /\ core' = None /\ UNCHANGED <<saved, file, stale>>
  BY <1>1, <1>4
     DEF NodeInv, TypeOK, CoreWithinSaved, DiskMatchesMemory, CoreMirrorsSaved,
         SavedAgrees, FileAgrees, DownIsEmpty, Running
<1> QED
  BY <1>2, <1>3, <1>4 DEF forceReload, ForceReload

LEMMA InstallStep ==
  ASSUME NodeInv, installXray
  PROVE  NodeInv'
<1>1. phase = "up" /\ UNCHANGED <<phase, granted, doubt, saved>>
  BY DEF installXray, InstallXrayVersion, Restarted
<1>2. CASE core' \in {core, None} /\ UNCHANGED <<saved, file, stale, orphan>>
  BY <1>1, <1>2
     DEF NodeInv, TypeOK, CoreWithinSaved, DiskMatchesMemory, CoreMirrorsSaved,
         SavedAgrees, FileAgrees, DownIsEmpty, Running
<1>3. CASE saved # None /\ orphan' \in BOOLEAN /\ Start(saved)
  <2>1. ~doubt' => Agree(granted', saved)
    BY <1>1, <1>3 DEF NodeInv, SavedAgrees
  <2> QED
    BY <1>1, <1>3, <2>1, StartSettles DEF NodeInv, TypeOK, Grants
<1> QED
  BY <1>2, <1>3 DEF installXray, InstallXrayVersion, NodeInv, TypeOK

\* Editing the same pair or inbound on both sides keeps Agree, Mirror and Within.
LEMMA AddPairKeeps ==
  ASSUME NEW a \in Config, NEW b \in Config, NEW g \in Grants,
         NEW t \in Tags, NEW u \in Users
  PROVE  LET p == <<t, u>>
             h == [g EXCEPT !.users = @ \cup {p}]
             aa == AddPair(a, p)
             bb == AddPair(b, p)
         IN /\ h \in Grants
            /\ Agree(g, b) => Agree(h, bb)
            /\ Agree(g, b) /\ t \notin HotTags => Agree(h, b)
            /\ Agree(g, b) /\ p \in b.users => Agree(h, b)
            /\ Within(a, b) => Within(a, bb) /\ Within(aa, bb)
            /\ Mirror(a, b) => Mirror(aa, bb)
            /\ Mirror(a, b) /\ t \notin HotTags => Mirror(a, bb)
            /\ Within(a, b) /\ p \in b.users => Within(aa, b)
            /\ Mirror(a, b) /\ p \in b.users => Mirror(aa, b)
BY DEF Config, Grants, AddPair, Agree, Within, Mirror, HotUsers

LEMMA DropPairKeeps ==
  ASSUME NEW a \in Config, NEW b \in Config, NEW g \in Grants,
         NEW t \in Tags, NEW u \in Users
  PROVE  LET p == <<t, u>>
             h == [g EXCEPT !.users = @ \ {p}]
             aa == DropPair(a, p)
             bb == DropPair(b, p)
         IN /\ h \in Grants
            /\ Agree(g, b) => Agree(h, bb)
            /\ Agree(g, b) /\ p \notin b.users => Agree(h, b)
            /\ Within(a, b) => Within(aa, b) /\ Within(aa, bb)
            /\ Mirror(a, b) => Mirror(aa, bb)
BY DEF Config, Grants, DropPair, Agree, Within, Mirror, HotUsers

LEMMA PutTagKeeps ==
  ASSUME NEW a \in Config, NEW b \in Config, NEW g \in Grants,
         NEW t \in Tags, NEW us \in SUBSET Users
  PROVE  LET h == [g EXCEPT !.users = (@ \ At(t)) \cup ({t} \X us)]
             aa == PutTag(a, t, us)
             bb == PutTag(b, t, us)
         IN /\ h \in Grants
            /\ Agree(g, b) => Agree(h, bb)
            /\ Within(a, b) => Within(aa, bb)
            /\ Mirror(a, b) => Mirror(aa, bb)
<1> DEFINE h == [g EXCEPT !.users = (@ \ At(t)) \cup ({t} \X us)]
           aa == PutTag(a, t, us)
           bb == PutTag(b, t, us)
<1>1. h \in Grants /\ h.users = (g.users \ At(t)) \cup ({t} \X us) /\ h.rules = g.rules
  BY DEF Grants, At
<1>2. /\ aa.tags = a.tags \cup {t} /\ aa.rules = a.rules
      /\ aa.users = (a.users \ At(t)) \cup ({t} \X us)
      /\ bb.tags = b.tags \cup {t} /\ bb.rules = b.rules
      /\ bb.users = (b.users \ At(t)) \cup ({t} \X us)
  BY PutTagFacts
<1> HIDE DEF h, aa, bb
<1>3. Agree(g, b) => Agree(h, bb)
  BY <1>1, <1>2 DEF Agree, HotUsers
<1>4. Within(a, b) => Within(aa, bb)
  BY <1>2 DEF Within
<1>5. Mirror(a, b) => Mirror(aa, bb)
  BY <1>2 DEF Mirror, HotUsers
<1> QED
  BY <1>1, <1>3, <1>4, <1>5 DEF h, aa, bb

LEMMA DropTagKeeps ==
  ASSUME NEW a \in Config, NEW b \in Config, NEW g \in Grants, NEW t \in Tags
  PROVE  LET h == [g EXCEPT !.users = @ \ At(t)]
             aa == DropTag(a, t)
             bb == DropTag(b, t)
         IN /\ h \in Grants
            /\ Agree(g, b) => Agree(h, bb)
            /\ Agree(g, b) /\ t \notin b.tags => Agree(h, b)
            /\ Within(aa, a)
            /\ Within(a, b) => Within(aa, bb)
            /\ Mirror(a, b) => Mirror(aa, bb)
<1> DEFINE h == [g EXCEPT !.users = @ \ At(t)]
           aa == DropTag(a, t)
           bb == DropTag(b, t)
<1>1. h \in Grants /\ h.users = g.users \ At(t) /\ h.rules = g.rules
  BY DEF Grants, At
<1>2. /\ aa.tags = a.tags \ {t} /\ aa.rules = a.rules /\ aa.users = a.users \ At(t)
      /\ bb.tags = b.tags \ {t} /\ bb.rules = b.rules /\ bb.users = b.users \ At(t)
  BY DropTagFacts
<1>3. t \notin b.tags => b.users \cap At(t) = {}
  BY DEF Config, At
<1> HIDE DEF h, aa, bb
<1>4. Agree(g, b) => Agree(h, bb)
  BY <1>1, <1>2 DEF Agree, HotUsers
<1>5. Agree(g, b) /\ t \notin b.tags => Agree(h, b)
  BY <1>1, <1>3 DEF Agree, HotUsers
<1>6. Within(aa, a) /\ (Within(a, b) => Within(aa, bb))
  BY <1>2 DEF Within
<1>7. Mirror(a, b) => Mirror(aa, bb)
  BY <1>2 DEF Mirror, HotUsers
<1> QED
  BY <1>1, <1>4, <1>5, <1>6, <1>7 DEF h, aa, bb

LEMMA PersistAddFacts ==
  ASSUME NodeInv, Running, NEW t \in Tags, NEW u \in Users, PersistAdd(t, u)
  PROVE  /\ saved' \in Config
         /\ file' \in Config \cup {None, Torn} /\ stale' \in BOOLEAN
         /\ ~stale' => file' = saved'
         /\ saved' = AddPair(saved, <<t, u>>) \/ saved' = saved
         /\ t \in saved.tags => saved' = AddPair(saved, <<t, u>>) \/ <<t, u>> \in saved.users
<1>1. saved \in Config /\ (~stale => file = saved)
  BY RunningFacts
<1>2. CASE t \in saved.tags /\ <<t, u>> \notin saved.users
  <2>1. saved' = AddPair(saved, <<t, u>>) /\ Save(saved')
    BY <1>2 DEF PersistAdd
  <2> QED
    BY <1>1, <1>2, <2>1, AddPairFacts, SaveFacts DEF NodeInv
<1>3. CASE ~(t \in saved.tags /\ <<t, u>> \notin saved.users)
  BY <1>1, <1>3 DEF PersistAdd, NodeInv, TypeOK
<1> QED
  BY <1>2, <1>3

LEMMA AddUserStep ==
  ASSUME NodeInv, NEW t \in Tags, NEW u \in Users, addUser(t, u)
  PROVE  NodeInv'
<1> DEFINE p == <<t, u>>
           h == [granted EXCEPT !.users = @ \cup {p}]
<1>1. PICK r \in {"ok", "exists", "error"} :
        /\ AddUser(t, u, r)
        /\ HotReply(r)
        /\ granted' = IF r = "error" THEN granted ELSE h
  BY DEF addUser
<1>2. Running /\ phase = "up" /\ granted \in Grants
  BY <1>1 DEF addUser, AddUser, NodeInv, TypeOK, Grants
<1>3. /\ core \in Config /\ saved \in Config /\ Within(core, saved)
      /\ (~doubt => Mirror(core, saved) /\ Agree(granted, saved))
      /\ (~stale => file = saved)
  BY <1>2, RunningFacts
<1>4. CASE t \notin HotTags /\ r = "ok" /\ UNCHANGED core /\ PersistAdd(t, u)
  <2>1. /\ saved' \in Config
        /\ file' \in Config \cup {None, Torn} /\ stale' \in BOOLEAN
        /\ ~stale' => file' = saved'
        /\ saved' = AddPair(saved, p) \/ saved' = saved
    BY <1>2, <1>4, PersistAddFacts
  <2>2. granted' = h
    BY <1>1, <1>4
  <2>3. granted' \in Grants /\ Within(core, saved')
    BY <1>2, <1>3, <2>1, <2>2, AddPairKeeps
  <2>4. ~doubt => Mirror(core, saved') /\ Agree(granted', saved')
    BY <1>2, <1>3, <1>4, <2>1, <2>2, AddPairKeeps
  <2> QED
    BY <1>1, <1>2, <1>3, <1>4, <2>1, <2>3, <2>4, AcceptedKeepsInv
<1>5. CASE /\ t \in HotTags /\ t \in core.tags /\ <<t, u>> \notin core.users
           /\ r = "ok" /\ core' = AddPair(core, <<t, u>>) /\ PersistAdd(t, u)
  <2>1. /\ saved' \in Config
        /\ file' \in Config \cup {None, Torn} /\ stale' \in BOOLEAN
        /\ ~stale' => file' = saved'
        /\ saved' = AddPair(saved, p) \/ (saved' = saved /\ p \in saved.users)
    BY <1>2, <1>3, <1>5, PersistAddFacts DEF Within
  <2>2. granted' = h
    BY <1>1, <1>5
  <2>3. core' \in Config
    BY <1>3, <1>5, AddPairFacts
  <2>4. granted' \in Grants /\ Within(core', saved')
    BY <1>2, <1>3, <1>5, <2>1, <2>2, AddPairKeeps
  <2>5. ~doubt => Mirror(core', saved') /\ Agree(granted', saved')
    BY <1>2, <1>3, <1>5, <2>1, <2>2, AddPairKeeps
  <2> QED
    BY <1>1, <1>2, <1>5, <2>1, <2>3, <2>4, <2>5, AcceptedKeepsInv
<1>6. CASE /\ t \in HotTags /\ <<t, u>> \in core.users
           /\ r = "exists" /\ UNCHANGED <<core, saved, file, stale>>
  <2>1. granted' = h /\ p \in saved.users
    BY <1>1, <1>3, <1>6 DEF Within
  <2>2. granted' \in Grants /\ (~doubt => Agree(granted', saved))
    BY <1>2, <1>3, <2>1, AddPairKeeps
  <2> QED
    BY <1>1, <1>2, <1>3, <1>6, <2>2, AcceptedKeepsInv DEF NodeInv, TypeOK
<1>7. CASE r = "error" /\ UNCHANGED <<core, saved, file, stale>>
  <2>1. Within(core', core)
    BY <1>7 DEF Within
  <2> QED
    BY <1>1, <1>2, <1>3, <1>7, <2>1, RefusedKeepsInv
<1> QED
  BY <1>1, <1>4, <1>5, <1>6, <1>7 DEF AddUser

LEMMA RemoveUserStep ==
  ASSUME NodeInv, NEW t \in Tags, NEW u \in Users, removeUser(t, u)
  PROVE  NodeInv'
<1> DEFINE p == <<t, u>>
           h == [granted EXCEPT !.users = @ \ {p}]
<1>1. PICK r \in {"ok", "error"} :
        /\ RemoveUser(t, u, r)
        /\ HotReply(r)
        /\ granted' = IF r = "error" THEN granted ELSE h
  BY DEF removeUser
<1>2. Running /\ phase = "up" /\ granted \in Grants
  BY <1>1 DEF removeUser, RemoveUser, NodeInv, TypeOK, Grants
<1>3. /\ core \in Config /\ saved \in Config /\ Within(core, saved)
      /\ (~doubt => Mirror(core, saved) /\ Agree(granted, saved))
      /\ (~stale => file = saved)
  BY <1>2, RunningFacts
<1>4. CASE /\ t \in HotTags /\ <<t, u>> \in core.users
           /\ r = "ok" /\ core' = DropPair(core, <<t, u>>) /\ PersistRemove(t, u)
  <2>1. saved' = DropPair(saved, p) /\ Save(saved')
    BY <1>3, <1>4 DEF PersistRemove, Within
  <2>2. saved' \in Config /\ core' \in Config
    BY <1>3, <1>4, <2>1, DropPairFacts
  <2>3. /\ file' \in Config \cup {None, Torn} /\ stale' \in BOOLEAN
        /\ ~stale' => file' = saved'
    BY <2>1, <2>2, SaveFacts DEF NodeInv
  <2>4. granted' = h
    BY <1>1, <1>4
  <2>5. /\ granted' \in Grants /\ Within(core', saved')
        /\ ~doubt => Mirror(core', saved') /\ Agree(granted', saved')
    BY <1>2, <1>3, <1>4, <2>1, <2>4, DropPairKeeps
  <2> QED
    BY <1>1, <1>2, <1>4, <2>2, <2>3, <2>5, AcceptedKeepsInv
<1>5. CASE /\ t \notin core.tags \/ (t \in HotTags /\ <<t, u>> \notin core.users)
           /\ r = "ok" /\ UNCHANGED <<core, saved, file, stale>>
  <2>1. granted' = h
    BY <1>1, <1>5
  <2>2. t \notin saved.tags => p \notin saved.users
    BY <1>3 DEF Config
  <2>3. Mirror(core, saved) => p \notin saved.users
    BY <1>5, <2>2 DEF Mirror, HotUsers
  <2>4. granted' \in Grants /\ (~doubt => Agree(granted', saved))
    BY <1>2, <1>3, <2>1, <2>3, DropPairKeeps
  <2> QED
    BY <1>1, <1>2, <1>3, <1>5, <2>4, AcceptedKeepsInv DEF NodeInv, TypeOK
<1>6. CASE r = "error" /\ UNCHANGED <<core, saved, file, stale>>
  <2>1. Within(core', core)
    BY <1>6 DEF Within
  <2> QED
    BY <1>1, <1>2, <1>3, <1>6, <2>1, RefusedKeepsInv
<1>7. CASE r = "error" /\ core' = DropPair(core, <<t, u>>) /\ UNCHANGED <<saved, file, stale>>
  <2>1. core' \in Config /\ Within(core', core)
    BY <1>3, <1>7, DropPairFacts DEF Within
  <2> QED
    BY <1>1, <1>2, <1>7, <2>1, RefusedKeepsInv
<1> QED
  BY <1>1, <1>4, <1>5, <1>6, <1>7 DEF RemoveUser

LEMMA UpdateInboundStep ==
  ASSUME NodeInv, NEW t \in Tags, NEW us \in SUBSET Users, updateInbound(t, us)
  PROVE  NodeInv'
<1> DEFINE h == [granted EXCEPT !.users = (@ \ At(t)) \cup ({t} \X us)]
<1>1. PICK r \in {"ok", "error"} :
        /\ UpdateInbound(t, us, r)
        /\ HotReply(r)
        /\ granted' = IF r = "error" THEN granted ELSE h
  BY DEF updateInbound
<1>2. Running /\ phase = "up" /\ granted \in Grants
  BY <1>1 DEF updateInbound, UpdateInbound, NodeInv, TypeOK, Grants
<1>3. /\ core \in Config /\ saved \in Config /\ Within(core, saved)
      /\ (~doubt => Mirror(core, saved) /\ Agree(granted, saved))
  BY <1>2, RunningFacts
<1>4. CASE /\ r = "ok" /\ core' = PutTag(core, t, us) /\ saved' = PutTag(saved, t, us)
           /\ Save(saved')
  <2>1. core' \in Config /\ saved' \in Config
    BY <1>3, <1>4, PutTagFacts
  <2>2. /\ file' \in Config \cup {None, Torn} /\ stale' \in BOOLEAN
        /\ ~stale' => file' = saved'
    BY <1>4, <2>1, SaveFacts DEF NodeInv
  <2>3. granted' = h
    BY <1>1, <1>4
  <2>4. /\ granted' \in Grants /\ Within(core', saved')
        /\ ~doubt => Mirror(core', saved') /\ Agree(granted', saved')
    BY <1>2, <1>3, <1>4, <2>3, PutTagKeeps
  <2> QED
    BY <1>1, <1>2, <1>4, <2>1, <2>2, <2>4, AcceptedKeepsInv
<1>5. CASE /\ r = "error" /\ core' \in {core, DropTag(core, t)}
           /\ UNCHANGED <<saved, file, stale>>
  <2>1. core' \in Config /\ Within(core', core)
    BY <1>3, <1>5, DropTagFacts DEF Within
  <2> QED
    BY <1>1, <1>2, <1>5, <2>1, RefusedKeepsInv
<1> QED
  BY <1>1, <1>4, <1>5 DEF UpdateInbound

LEMMA RemoveInboundStep ==
  ASSUME NodeInv, NEW t \in Tags, removeInbound(t)
  PROVE  NodeInv'
<1> DEFINE h == [granted EXCEPT !.users = @ \ At(t)]
<1>1. PICK r \in {"ok", "error"} :
        /\ DelInbound(t, r)
        /\ HotReply(r)
        /\ granted' = IF r = "error" THEN granted ELSE h
  BY DEF removeInbound
<1>2. Running /\ phase = "up" /\ granted \in Grants
  BY <1>1 DEF removeInbound, DelInbound, NodeInv, TypeOK, Grants
<1>3. /\ core \in Config /\ saved \in Config /\ Within(core, saved)
      /\ (~doubt => Mirror(core, saved) /\ Agree(granted, saved))
      /\ (~stale => file = saved)
  BY <1>2, RunningFacts
<1>4. CASE /\ t \in core.tags /\ r = "ok"
           /\ core' = DropTag(core, t) /\ saved' = DropTag(saved, t)
           /\ Save(saved')
  <2>1. core' \in Config /\ saved' \in Config
    BY <1>3, <1>4, DropTagFacts
  <2>2. /\ file' \in Config \cup {None, Torn} /\ stale' \in BOOLEAN
        /\ ~stale' => file' = saved'
    BY <1>4, <2>1, SaveFacts DEF NodeInv
  <2>3. granted' = h
    BY <1>1, <1>4
  <2>4. /\ granted' \in Grants /\ Within(core', saved')
        /\ ~doubt => Mirror(core', saved') /\ Agree(granted', saved')
    BY <1>2, <1>3, <1>4, <2>3, DropTagKeeps
  <2> QED
    BY <1>1, <1>2, <1>4, <2>1, <2>2, <2>4, AcceptedKeepsInv
<1>5. CASE t \notin core.tags /\ r = "ok" /\ UNCHANGED <<core, saved, file, stale>>
  <2>1. granted' = h
    BY <1>1, <1>5
  <2>2. Mirror(core, saved) => t \notin saved.tags
    BY <1>5 DEF Mirror
  <2>3. granted' \in Grants /\ (~doubt => Agree(granted', saved))
    BY <1>2, <1>3, <2>1, <2>2, DropTagKeeps
  <2> QED
    BY <1>1, <1>2, <1>3, <1>5, <2>3, AcceptedKeepsInv DEF NodeInv, TypeOK
<1>6. CASE r = "error" /\ UNCHANGED <<core, saved, file, stale>>
  <2>1. Within(core', core)
    BY <1>6 DEF Within
  <2> QED
    BY <1>1, <1>2, <1>3, <1>6, <2>1, RefusedKeepsInv
<1> QED
  BY <1>1, <1>4, <1>5, <1>6 DEF DelInbound

\* Setting the rules of core, m.config and the panel's view in the same way.
LEMMA RulesKeep ==
  ASSUME NEW a \in Config, NEW b \in Config, NEW g \in Grants,
         NEW ra \in SUBSET Rules, NEW rb \in SUBSET Rules, NEW rg \in SUBSET Rules
  PROVE  LET h == [g EXCEPT !.rules = rg]
             aa == [a EXCEPT !.rules = ra]
             bb == [b EXCEPT !.rules = rb]
         IN /\ h \in Grants /\ aa \in Config /\ bb \in Config
            /\ Within(aa, a)
            /\ Within(a, b) => Within(aa, bb)
            /\ Mirror(a, b) /\ ra = rb => Mirror(aa, bb)
            /\ Agree(g, b) /\ rg = rb => Agree(h, bb)
BY DEF Config, Grants, Agree, Within, Mirror, HotUsers

LEMMA SessionRuleStep ==
  ASSUME NodeInv, NEW x \in Rules, NEW blocks \in BOOLEAN,
         sessionIPBlockRouting(x, blocks)
  PROVE  NodeInv'
<1> DEFINE Set(rs) == IF blocks THEN rs \cup {x} ELSE rs \ {x}
           h == [granted EXCEPT !.rules = Set(@)]
<1>1. PICK r \in {"ok", "error"} :
        /\ IF blocks THEN BlockSession(x, r) ELSE UnblockSession(x, r)
        /\ HotReply(r)
        /\ granted' = IF r = "error" THEN granted ELSE h
  BY DEF sessionIPBlockRouting
<1>2. Running /\ phase = "up" /\ granted \in Grants
  BY <1>1 DEF sessionIPBlockRouting, BlockSession, UnblockSession, NodeInv, TypeOK, Grants
<1>3. /\ core \in Config /\ saved \in Config /\ Within(core, saved)
      /\ (~doubt => Mirror(core, saved) /\ Agree(granted, saved))
  BY <1>2, RunningFacts
<1>4. /\ Set(core.rules) \in SUBSET Rules /\ Set(saved.rules) \in SUBSET Rules
      /\ Set(granted.rules) \in SUBSET Rules
  BY <1>2, <1>3 DEF Config, Grants
<1>5. CASE /\ r = "ok" /\ core' = [core EXCEPT !.rules = Set(core.rules)]
           /\ PersistRules(Set(saved.rules))
  <2>1. saved' = [saved EXCEPT !.rules = Set(saved.rules)] /\ Save(saved')
    BY <1>5 DEF PersistRules
  <2>2. granted' = [granted EXCEPT !.rules = Set(granted.rules)]
    BY <1>1, <1>5
  <2>3. Mirror(core, saved) => Set(core.rules) = Set(saved.rules)
    BY DEF Mirror
  <2>4. Agree(granted, saved) => Set(granted.rules) = Set(saved.rules)
    BY DEF Agree
  <2> HIDE DEF Set
  <2>5. /\ saved' \in Config /\ core' \in Config /\ granted' \in Grants
        /\ Within(core', saved')
        /\ ~doubt => Mirror(core', saved') /\ Agree(granted', saved')
    BY <1>2, <1>3, <1>4, <1>5, <2>1, <2>2, <2>3, <2>4, RulesKeep
  <2>6. /\ file' \in Config \cup {None, Torn} /\ stale' \in BOOLEAN
        /\ ~stale' => file' = saved'
    BY <2>1, <2>5, SaveFacts DEF NodeInv
  <2> QED
    BY <1>1, <1>2, <1>5, <2>5, <2>6, AcceptedKeepsInv
<1>6. CASE /\ r = "error" /\ core' \in {core, [core EXCEPT !.rules = Set(core.rules)]}
           /\ UNCHANGED <<saved, file, stale>>
  <2> DEFINE rs == Set(core.rules)
  <2>1. rs \in SUBSET Rules /\ core' \in {core, [core EXCEPT !.rules = rs]}
    BY <1>4, <1>6
  <2> HIDE DEF rs
  <2>2. /\ core \in Config /\ rs \in SUBSET Rules
        /\ core' = core \/ core' = [core EXCEPT !.rules = rs]
    BY <1>3, <2>1
  <2>3. core' \in Config /\ core'.tags = core.tags /\ core'.users = core.users
    <3>1. CASE core' = core
      BY <2>2, <3>1
    <3>2. CASE core' = [core EXCEPT !.rules = rs]
      <4>1. /\ [core EXCEPT !.rules = rs] \in Config
            /\ [core EXCEPT !.rules = rs].tags = core.tags
            /\ [core EXCEPT !.rules = rs].users = core.users
        BY <2>2, RulesFacts
      <4> QED
        BY <3>2, <4>1
    <3> QED
      BY <2>2, <3>1, <3>2
  <2>4. Within(core', core)
    BY <2>3 DEF Within
  <2> QED
    BY <1>1, <1>2, <1>6, <2>3, <2>4, RefusedKeepsInv
<1>7. CASE blocks
  <2>1. Set(core.rules) = core.rules \cup {x} /\ Set(saved.rules) = saved.rules \cup {x}
    BY <1>7
  <2>2. BlockSession(x, r)
    BY <1>1, <1>7
  <2> HIDE DEF Set
  <2> QED
    BY <1>5, <1>6, <2>1, <2>2 DEF BlockSession
<1>8. CASE ~blocks
  <2>1. Set(core.rules) = core.rules \ {x} /\ Set(saved.rules) = saved.rules \ {x}
    BY <1>8
  <2>2. UnblockSession(x, r)
    BY <1>1, <1>8
  <2> HIDE DEF Set
  <2> QED
    BY <1>5, <1>6, <2>1, <2>2 DEF UnblockSession
<1> QED
  BY <1>7, <1>8

LEMMA CoreExitStep ==
  ASSUME NodeInv, CoreExit \/ OrphanExit
  PROVE  NodeInv'
BY DEF CoreExit, OrphanExit, NodeInv, TypeOK, CoreWithinSaved, DiskMatchesMemory,
       CoreMirrorsSaved, SavedAgrees, FileAgrees, DownIsEmpty, Running

LEMMA NodeCrashStep ==
  ASSUME NodeInv, NodeCrash
  PROVE  NodeInv'
<1>1. phase' = "down" /\ core' = None /\ saved' = None /\ orphan' = FALSE
  BY DEF NodeCrash
<1>2. granted' = granted /\ doubt' = doubt
  BY DEF NodeCrash
<1>3. \/ file' = file /\ stale' = stale
      \/ file' = Torn /\ stale' = TRUE
  BY DEF NodeCrash
<1>4. TypeOK'
  BY <1>1, <1>2, <1>3 DEF NodeInv, TypeOK
<1>5. FileAgrees'
  BY <1>2, <1>3 DEF NodeInv, FileAgrees, Agree, HotUsers
<1> QED
  BY <1>1, <1>4, <1>5
     DEF NodeInv, CoreWithinSaved, DiskMatchesMemory, CoreMirrorsSaved, SavedAgrees,
         DownIsEmpty, Running

LEMMA NodeBootStep ==
  ASSUME NodeInv, NodeBoot
  PROVE  NodeInv'
<1>1. phase' = "pull" /\ granted' = granted /\ granted \in Grants /\ ~Running
  BY DEF NodeBoot, NodeInv, TypeOK, DownIsEmpty, Running, Grants
<1>2. CASE file \in Config
  <2>1. ApplyConfig(file) /\ doubt' = (doubt \/ stale)
    BY <1>2 DEF NodeBoot
  <2>2. doubt' \in BOOLEAN /\ (~doubt' => Agree(granted', file))
    BY <1>1, <1>2, <2>1 DEF NodeInv, TypeOK, FileAgrees
  <2> QED
    BY <1>1, <1>2, <2>1, <2>2, ApplyKeepsInv
<1>3. CASE file \notin Config
  BY <1>1, <1>3
     DEF NodeBoot, NodeInv, TypeOK, CoreWithinSaved, DiskMatchesMemory, CoreMirrorsSaved,
         SavedAgrees, FileAgrees, DownIsEmpty, Running
<1> QED
  BY <1>2, <1>3

LEMMA ConfigPullStep ==
  ASSUME NodeInv, ConfigPull
  PROVE  NodeInv'
<1>1. CASE UNCHANGED <<core, saved, file, orphan, granted, doubt, stale>>
  BY <1>1
     DEF ConfigPull, NodeInv, TypeOK, CoreWithinSaved, DiskMatchesMemory, CoreMirrorsSaved,
         SavedAgrees, FileAgrees, DownIsEmpty, Running
<1>2. CASE ~Running /\ \E c \in Config : AcceptConfig(c)
  <2>1. PICK c \in Config : AcceptConfig(c)
    BY <1>2
  <2>2. ApplyConfig(c) /\ granted' = AccessOf(c) /\ doubt' = FALSE /\ phase' = "up"
    BY <1>2, <2>1 DEF AcceptConfig, ConfigPull
  <2> QED
    BY <1>2, <2>2, AccessFacts, ApplyKeepsInv
<1> QED
  BY <1>1, <1>2 DEF ConfigPull

LEMMA NextNodeInv == NodeInv /\ [Next]_vars => NodeInv'
<1> SUFFICES ASSUME NodeInv, [Next]_vars PROVE NodeInv'
  OBVIOUS
<1>1. CASE Next
  BY <1>1, ApplyConfigStep, StopStep, ReloadStep, ForceReloadStep, InstallStep,
     AddUserStep, RemoveUserStep, UpdateInboundStep, RemoveInboundStep, SessionRuleStep,
     CoreExitStep, NodeCrashStep, NodeBootStep, ConfigPullStep
     DEF Next
<1>2. CASE UNCHANGED vars
  BY <1>2
     DEF vars, NodeInv, TypeOK, CoreWithinSaved, DiskMatchesMemory, CoreMirrorsSaved,
         SavedAgrees, FileAgrees, DownIsEmpty, Running
<1> QED
  BY <1>1, <1>2

---------------------------------------------------------------------------
\* The inductive invariant holds in every reachable state, whatever the faults.
THEOREM NodeInvariant == Spec => []NodeInv
BY InitNodeInv, NextNodeInv, PTL DEF Spec

\* Each copy of the configuration stays well formed.
THEOREM TypeCorrect == Spec => []TypeOK
<1>1. NodeInv => TypeOK
  BY DEF NodeInv
<1> QED
  BY <1>1, NodeInvariant, PTL

\* The running core never serves what m.config does not hold.
THEOREM CoreStaysWithinSaved == Spec => []CoreWithinSaved
<1>1. NodeInv => CoreWithinSaved
  BY DEF NodeInv
<1> QED
  BY <1>1, NodeInvariant, PTL

\* config.json is m.config unless the last write failed.
THEOREM DiskStaysInSync == Spec => []DiskMatchesMemory
<1>1. NodeInv => DiskMatchesMemory
  BY DEF NodeInv
<1> QED
  BY <1>1, NodeInvariant, PTL

\* Without a lost change or an outdated file the core serves what the panel was told.
THEOREM PanelCanTrustReplies == Spec => []ServesWhatWasGranted
<1>1. NodeInv => ServesWhatWasGranted
  <2> SUFFICES ASSUME NodeInv, ~doubt, Running PROVE Agree(granted, core)
    BY DEF ServesWhatWasGranted
  <2>1. Mirror(core, saved) /\ Agree(granted, saved) /\ Within(core, saved)
        /\ granted \in Grants
    BY RunningFacts DEF NodeInv, TypeOK, Grants
  <2>2. core \in Config /\ saved \in Config
    BY RunningFacts
  <2> QED
    BY <2>1, <2>2 DEF Mirror, Agree, Within, HotUsers
<1> QED
  BY <1>1, NodeInvariant, PTL

\* A reload that cannot stop the core fails before anything is done, so that no
\* core runs on without its handle.
THEOREM ReloadNeverOrphans == Spec => ReloadKeepsHandle
<1>1. [Next]_vars => [reload => orphan' = orphan]_vars
  BY DEF reload, Reload
<1> QED
  BY <1>1, PTL DEF Spec, ReloadKeepsHandle

----------------------------------------------------------------------------
(* The parts of Workers: each behaves as its module says, so that what is  *)
(* proved of the module is true of the part, for any constants.            *)

\* A behaviour stays in its part and begins and goes on as the part does.
LEMMA PartsAreModules ==
  /\ [PartsNext]_whole =>
       /\ (part = "fleet")' <=> part = "fleet"
       /\ (part = "stopped")' <=> part = "stopped"
       /\ (part = "lines")' <=> part = "lines"
       /\ (part = "watched")' <=> part = "watched"
       /\ (part = "sidecars")' <=> part = "sidecars"
       /\ (part = "traffic")' <=> part = "traffic"
       /\ (part = "octets")' <=> part = "octets"
  /\ PartsInit =>
       /\ part = "fleet" => Lines!F!Init
       /\ part = "stopped" => Watched!F!Init
       /\ part = "lines" => Lines!Init
       /\ part = "watched" => Watched!Init
       /\ part = "sidecars" => Processes!Init
       /\ part = "traffic" => Lines!Traffic!Init
       /\ part = "octets" => Lines!Octets!Init
  /\ [PartsNext]_whole =>
       /\ part = "fleet" => [Lines!F!Next]_Lines!F!vars
       /\ part = "stopped" => [Watched!F!Next]_Watched!F!vars
       /\ part = "lines" => [Lines!Next]_Lines!vars
       /\ part = "watched" => [Watched!Next]_Watched!vars
       /\ part = "sidecars" => [Processes!Next]_Processes!vars
       /\ part = "traffic" => [Lines!Traffic!Next]_Lines!Traffic!vars
       /\ part = "octets" => [Lines!Octets!Next]_Lines!Octets!vars
<1>1. [PartsNext]_whole => part' = part
  BY DEF PartsNext, whole
<1>2. PartsInit =>
        /\ part = "fleet" => Lines!F!Init
        /\ part = "stopped" => Watched!F!Init
        /\ part = "lines" => Lines!Init
        /\ part = "watched" => Watched!Init
        /\ part = "sidecars" => Processes!Init
        /\ part = "traffic" => Lines!Traffic!Init
        /\ part = "octets" => Lines!Octets!Init
  BY DEF PartsInit
<1>3. [PartsNext]_whole =>
        /\ part = "fleet" => [Lines!F!Next]_fleet
        /\ part = "stopped" => [Watched!F!Next]_fleet
        /\ part = "lines" => [Lines!Next]_logs
        /\ part = "watched" => [Watched!Next]_logs
        /\ part = "sidecars" => [Processes!Next]_sidecars
        /\ part = "traffic" => [Lines!Traffic!Next]_traffic
        /\ part = "octets" => [Lines!Octets!Next]_totals
  BY DEF PartsNext, whole
<1>4. /\ UNCHANGED fleet => UNCHANGED Lines!F!vars /\ UNCHANGED Watched!F!vars
      /\ UNCHANGED logs => UNCHANGED Lines!vars /\ UNCHANGED Watched!vars
      /\ UNCHANGED sidecars => UNCHANGED Processes!vars
      /\ UNCHANGED traffic => UNCHANGED Lines!Traffic!vars
      /\ UNCHANGED totals => UNCHANGED Lines!Octets!vars
  BY DEF fleet, logs, sidecars, traffic, totals, Lines!Traffic!vars,
         Lines!Octets!vars,
         Lines!F!vars, Watched!F!vars, Lines!vars, Watched!vars,
         Lines!worker, Lines!net, Lines!hub, Lines!reader,
         Watched!worker, Watched!net, Watched!hub, Watched!reader, Processes!vars
<1> QED
  BY <1>1, <1>2, <1>3, <1>4

\* A worker serves something else than the panel wants only while a call or a
\* push is on its way, or for a reason on record (Fleet), for any numbers of
\* nodes, inbounds, ports, edits, lost calls and stopped cores.
THEOREM NoWorkerForgotten == PartsSpec => []BehindForAReason
<1>1. Lines!F!Spec => [](Lines!F!TypeOK /\ Lines!F!BehindForAReason)
  BY PartsAssumption, Lines!FleetTypes, Lines!NoneForgotten, PTL
<1>2. Watched!F!Spec => [](Watched!F!TypeOK /\ Watched!F!BehindForAReason)
  BY PartsAssumption, Watched!FleetTypes, Watched!NoneForgotten, PTL
<1> QED
  BY <1>1, <1>2, PartsAreModules, PTL
     DEF PartsSpec, BehindForAReason, Lines!F!Spec, Watched!F!Spec

\* A line the log hub accepted while a reader was watching reaches him unless
\* it was his own channel that was full (LogStream), for any readers, numbers
\* of lines, capacities and crashes.
THEOREM NobodyElseLoses == PartsSpec => []OnlyTheSlowLose
<1>1. Lines!Spec => [](Lines!TypeOK /\ Lines!OnlyTheSlowLose)
  BY PartsAssumption, Lines!PipeTypes, Lines!SlowReadersOnly, PTL
<1>2. Watched!Spec => [](Watched!TypeOK /\ Watched!OnlyTheSlowLose)
  BY PartsAssumption, Watched!PipeTypes, Watched!SlowReadersOnly, PTL
<1> QED
  BY <1>1, <1>2, PartsAreModules, PTL
     DEF PartsSpec, OnlyTheSlowLose, Lines!Spec, Watched!Spec

\* The pipeline implements LossyLog: each reader is shown the lines he asked for
\* at most once, and the panel's own in order.
THEOREM ShownAtMostOnce == PartsSpec => AtMostOnce
<1>1. Lines!Spec => Lines!Log!Init /\ [][Lines!Log!Next]_Lines!Log!vars
  BY PartsAssumption, Lines!ImplementsLog DEF Lines!AtMostOnce, Lines!Log!Spec
<1>2. Watched!Spec => Watched!Log!Init /\ [][Watched!Log!Next]_Watched!Log!vars
  BY PartsAssumption, Watched!ImplementsLog DEF Watched!AtMostOnce, Watched!Log!Spec
<1>3. [Lines!Log!Next]_Lines!Log!vars =>
        [part = "lines" => Lines!Log!Next \/ UNCHANGED Lines!Log!vars]_logs
  OBVIOUS
<1>4. [Watched!Log!Next]_Watched!Log!vars =>
        [part = "watched" => Watched!Log!Next \/ UNCHANGED Watched!Log!vars]_logs
  OBVIOUS
<1>5. part # "lines" =>
        [part = "lines" => Lines!Log!Next \/ UNCHANGED Lines!Log!vars]_logs
  OBVIOUS
<1>6. part # "watched" =>
        [part = "watched" => Watched!Log!Next \/ UNCHANGED Watched!Log!vars]_logs
  OBVIOUS
<1> QED
  BY <1>1, <1>2, <1>3, <1>4, <1>5, <1>6, PartsAreModules, PTL
     DEF PartsSpec, AtMostOnce, Lines!Spec, Watched!Spec

\* Once nobody is at work, the Telemt processes of a worker are those of the rows,
\* a restart repeats what runs, and none is without supervision, but for the
\* excuses of Sidecars, for any numbers of handlers, tags, clients and changes.
THEOREM WorkersSidecarsFollow == PartsSpec => []SidecarsAsConfigured
<1>1. Processes!Spec => [](Processes!TypeOK /\ Processes!SidecarsAsConfigured)
  BY PartsAssumption, Processes!SidecarsTypes, Processes!SidecarsFollow, PTL
<1> QED
  BY <1>1, PartsAreModules, PTL DEF PartsSpec, SidecarsAsConfigured, Processes!Spec

\* Statistics however often asked for, delayed or lost count no byte twice, and lose
\* one only in the ways NodeTraffic lists; for any finite sets of nodes, clients and
\* inbounds and any number of tries, runs and mishaps.
THEOREM CountedInTheFleet == PartsSpec => []TrafficCounted
<1>1. Lines!Traffic!TrafficAssumption
  BY PartsAssumption
<1>2. Lines!Traffic!Booked =>
        /\ Lines!Traffic!TypeOK /\ Lines!Traffic!CountedOnce
        /\ Lines!Traffic!OnlyKnownLosses /\ Lines!Traffic!PerNodeWithinClient
  BY <1>1, Lines!BookedCounts
<1>3. Lines!Traffic!Spec => []Lines!Traffic!Booked
  BY <1>1, Lines!BookedInvariant
<1> QED
  BY <1>2, <1>3, PartsAreModules, PTL DEF PartsSpec, TrafficCounted, Lines!Traffic!Spec

\* A client has been charged for what a Telemt process passed on for it but what the
\* next answer brings, or a loss SidecarTraffic lists has happened; for any clients,
\* finitely many questions at a time, and any number of restarts.
THEOREM ChargedForSidecars == PartsSpec => []SidecarCharged
<1>1. Lines!Octets!TotalsAssumption
  BY PartsAssumption
<1>2. Lines!Octets!AccountedFor =>
        /\ Lines!Octets!TypeOK
        /\ Lines!Octets!SidecarChargedExactly /\ Lines!Octets!NeverChargedTwice
  BY <1>1, Lines!AccountedCharges
<1>3. Lines!Octets!Spec => []Lines!Octets!AccountedFor
  BY <1>1, Lines!AccountedInvariant
<1> QED
  BY <1>2, <1>3, PartsAreModules, PTL DEF PartsSpec, SidecarCharged, Lines!Octets!Spec

============================================================================
