SPECIFICATION FairSpec
CONSTANTS
  t1 = t1  t2 = t2  t3 = t3
  Tasks = {t1, t2, t3}
  Concurrency = 2
  MinBackoff = 1
  MaxBackoff = 3
INVARIANTS TypeOK SlotsHeld ResultNotNil DrainComplete
PROPERTIES SlotsRecover DrainEnds
CHECK_DEADLOCK FALSE
