SPECIFICATION Spec
CONSTANTS
  t1 = t1  t2 = t2  q1 = q1  c1 = c1  c2 = c2  w1 = w1  w2 = w2  None = None
  Tasks = {t1}
  Queues = {q1}
  Clients = {c1, c2}
  Workers = {w1, w2}
  QueueOf <- MCQueueOf
  Subscribed <- MCSubscribed
  Priority <- MCPriority
  MaxRetries <- MCMaxRetries
  Delay <- MCDelay
  RetryDelays <- MCRetryDelays
  Visibility <- MCShortLease
  DefaultVisibility = 1
  BatchSize = 1
  MaxTime = 3
  Horizon = 9
  MaxStat = 0
  WorkerOf <- MCTwoWorkers
  HasHandler <- MCAllHandle
  Cancellable = {}
  StaleAfter = 1
  CompensateLimit = 1
  Retention = 9
  CleanupLimit = 1
  MaxCrashes = 1
  MaxFaults = 0
  MaxLost = 1
INVARIANT NeverForgotten
CHECK_DEADLOCK FALSE
