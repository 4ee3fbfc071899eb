SPECIFICATION Spec
CONSTANTS
  Timeouts <- MCTimeouts
  Backoffs <- MCBackoffs
  SubmitTimeout = 6
  TaskTimeout = 6
  DefaultVisibility = 5
  LeaseBuffer = 3
  MaxRetryBackoff = 7
  MaxShift = 3
  Half = 32
  MaxRetries = 6
  MaxSlack = 1
  Skew = 1
INVARIANT BackoffNeverShort
CHECK_DEADLOCK FALSE
