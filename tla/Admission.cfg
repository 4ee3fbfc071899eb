SPECIFICATION Spec
CONSTANTS
  h1 = h1  h2 = h2  w1 = w1  w2 = w2  qd = qd  q2 = q2  ta = ta  tb = tb
  Malformed = Malformed  Empty = Empty
  Handlers = {h1, h2}
  Proto <- MCProto
  Workers = {w1, w2}
  QueuesOf <- MCQueuesOf
  TypesOf <- MCTypesOf
  Bodies <- MCBodies
  DefaultQueue = qd
  RefreshEvery = 1
  MaxHold = 1
  MaxChanges = 4
INVARIANT TypeOK
PROPERTIES RefusalJustified AdmissionJustified
