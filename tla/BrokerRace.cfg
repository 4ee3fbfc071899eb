SPECIFICATION BrokerSpec
CONSTANTS
  t1 = t1  t2 = t2  q1 = q1  q2 = q2  c1 = c1  c2 = c2  None = None
  Tasks = {t1}
  Queues = {q1}
  Clients = {c1, c2}
  QueueOf <- MCQueueOf
  Subscribed <- MCOneQueue
  Priority <- MCPriority
  MaxRetries <- MCMaxRetries
  Delay <- MCDelay
  RetryDelays <- MCRetryDelays
  Visibility <- MCVisibility
  DefaultVisibility = 1
  Cancellable = {t1}
  BatchSize = 1
  MaxTime = 3
  Horizon = 9
  MaxStat = 0
INVARIANT BrokerTypeOK
PROPERTIES LeasedUnlessOvertaken LossesKnown
CHECK_DEADLOCK FALSE
