\* The manager under every kind of failure, with one client, one session rule
\* and one observatory; the other parts as MCWorkers bounds them.
CONSTANTS
  hot = hot
  cold = cold
  None = None
  Torn = Torn
  Tags <- MCTags
  HotTags <- MCHotTags
  Users = {u1}
  Rules = {r1}
  Obs = {o1}
  Of <- MCOf
  Faults = {"api", "lost", "save", "start", "stop", "install"}
SPECIFICATION PartsSpec
INVARIANTS
  TypeOK CoreWithinSaved DiskMatchesMemory ServesWhatWasGranted
    OnlyTheSlowLose SidecarsAsConfigured SidecarCharged
PROPERTIES ReloadKeepsHandle AtMostOnce
CHECK_DEADLOCK TRUE
