SPECIFICATION FairSpec
CONSTANTS
  c1 = c1  c2 = c2  q1 = q1  q2 = q2  Main = Main  None = None
  Queues = {q1, q2}
  Callers = {c1, c2}
  Configured = {q1}
  Rate <- MCRate
  Burst <- MCBurst
  Unit = 2
  MaxAge = 4
  Window = 2
INVARIANTS TypeOK RateBounded
PROPERTY NotStarved
