SPECIFICATION Spec
CONSTANTS
  t1 = t1  t2 = t2  t3 = t3
  Tasks = {t1, t2, t3}
  Concurrency = 2
  MinBackoff = 1
  MaxBackoff = 3
INVARIANT PanicContained
CHECK_DEADLOCK FALSE
