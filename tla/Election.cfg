SPECIFICATION FairSpec
CONSTANTS
  n1 = n1  n2 = n2  n3 = n3  None = None
  Nodes = {n1, n2}
  MaxRev = 7
  MaxLosses = 4
INVARIANTS TypeOK OneValidLeader
PROPERTIES DeposedStops Takeover
CHECK_DEADLOCK FALSE
