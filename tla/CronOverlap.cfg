SPECIFICATION Spec
CONSTANTS
  j1 = j1  j2 = j2  s1 = s1  s2 = s2  None = None
  Jobs = {j1}
  Schedulers = {s1, s2}
  Forbid = {j1}
  KindOf <- MCKindOf
  NextAfter <- MCNextAfter
  Limit = 1
  MaxTime = 3
  MaxFaults = 0
  MaxLive = 2
INVARIANT NoOverlap
CHECK_DEADLOCK FALSE
