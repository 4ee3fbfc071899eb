SPECIFICATION FairSpec
CONSTANTS
  w1 = w1  w2 = w2  q0 = q0  q1 = q1  q2 = q2  None = None
  Workers = {w1}
  QueuesOf <- MCQueuesOf
  DefaultQueue = q0
  StaleAfter = 1
  ChanCap = 2
  MaxChanges = 2
PROPERTY ViewFollows
