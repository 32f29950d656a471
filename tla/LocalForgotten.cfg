\* A restart that was asked for is forgotten.
CONSTANTS
  Tags = {t1}
  Contents = {v1}
  Callers = {c1}
  Requests = {q1}
  Nobody = Nobody
  NoRow = NoRow
  Off = Off
  NoCore = NoCore
  MaxFaults = 1

SPECIFICATION OwedSpec
INVARIANT RestartIsNotForgotten
CHECK_DEADLOCK FALSE
