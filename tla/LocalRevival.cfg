\* Two callers that restart, check and stop at once, one request, one failure.
CONSTANTS
  Tags = {t1}
  Contents = {v1}
  Callers = {c1, c2}
  Requests = {q1}
  Nobody = Nobody
  NoRow = NoRow
  Off = Off
  NoCore = NoCore
  MaxFaults = 1

SPECIFICATION FairSpec
INVARIANTS OneCore
PROPERTIES CrashedCoreComesBack
CHECK_DEADLOCK FALSE
