SPECIFICATION FairSpec
CONSTANTS
  j1 = j1  j2 = j2  s1 = s1  s2 = s2  None = None
  Jobs = {j1, j2}
  Schedulers = {s1, s2}
  Forbid = {j1}
  KindOf <- MCKindOf
  NextAfter <- MCNextAfter
  Limit = 1
  MaxTime = 2
  MaxFaults = 1
  MaxLive = 1
INVARIANTS TypeOK AtMostOncePerSlot
PROPERTY DueIsHandled
CHECK_DEADLOCK FALSE
