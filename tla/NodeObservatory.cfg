\* No failure at all: two configurations that differ in the observatory part only.
CONSTANTS
  hot = hot
  cold = cold
  None = None
  Torn = Torn
  Tags <- MCTags
  HotTags <- MCHotTags
  Users = {u1}
  Rules = {r1}
  Obs = {o1, o2}
  Faults = {}
SPECIFICATION Spec
INVARIANT ObservatoryApplied
CHECK_DEADLOCK TRUE
