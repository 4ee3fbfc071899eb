------------------------------ MODULE Attempt -------------------------------
(***************************************************************************)
(* The clocks of one task: how long the lease of an attempt lasts          *)
(* (computeVisibilityTimeout), how long the attempt may take (the Timeout  *)
(* middleware) and how long the task waits for the next one                *)
(* (computeRetryBackoff).  The three are computed in different processes   *)
(* from the same fields of the task and have to fit together.              *)
(*                                                                         *)
(* Time is counted in ticks from the moment Dequeue reads its clock.       *)
(* Outside of the handler an attempt takes at most MaxSlack ticks; the     *)
(* clock of the scheduler that reclaims is ahead by at most Skew.          *)
(* Durations are the integers from -Half to Half - 1, as Go's int64;       *)
(* timeouts of 292 years, to which the buffer cannot be added, are left    *)
(* out.                                                                    *)
(***************************************************************************)
EXTENDS Integers

CONSTANTS
  Timeouts,           \* values of the field timeout of a request, 0 for none
  Backoffs,           \* values of the field retry_backoff
  SubmitTimeout,      \* SubmitTask's default, 5 minutes
  TaskTimeout,        \* worker.task_timeout, the default of the Timeout middleware
  DefaultVisibility,  \* DefaultVisibilityTimeout
  LeaseBuffer,
  MaxRetryBackoff,
  MaxShift,           \* largest shift of the backoff, 30
  Half,               \* half the number of integers, 2^63
  MaxRetries,         \* SubmitTask replaces 0 by 3
  MaxSlack,
  Skew

ASSUME AttemptAssumption ==
  /\ Timeouts \subseteq Int /\ \A t \in Timeouts \cup {SubmitTimeout} : t + LeaseBuffer < Half
  /\ Backoffs \subseteq Int
  /\ SubmitTimeout \in Nat \ {0} /\ TaskTimeout \in Nat \ {0}
  /\ DefaultVisibility \in Nat /\ LeaseBuffer \in Nat /\ MaxRetryBackoff \in Nat
  /\ MaxShift \in Nat /\ Half \in Nat \ {0} /\ MaxRetries \in Nat \ {0}
  /\ MaxSlack \in Nat /\ Skew \in Nat
  /\ LeaseBuffer <= DefaultVisibility /\ MaxSlack + Skew < LeaseBuffer

\* Arithmetic of the powers that occur, of which the provers know nothing.
ASSUME PowerAssumption ==
  \A m, n \in 0..MaxShift \cup 0..(MaxRetries - 1) :
    2^m \in Nat \ {0} /\ (m <= n => 2^m <= 2^n)

VARIABLES
  origin,   \* none, api or cron
  timeout,  \* task.Timeout
  base,     \* task.RetryBackoff
  retry,    \* task.RetryCount
  pc,       \* where the task is
  lease,    \* deadline in the lease set
  age,      \* ticks since Dequeue read its clock
  slack,    \* of these, ticks outside of the handler
  delay,    \* delay of the entry in the delayed set
  wait      \* ticks since Nack

vars == <<origin, timeout, base, retry, pc, lease, age, slack, delay, wait>>
taskVars == <<origin, timeout, base>>

Init ==
  /\ origin = "none" /\ timeout = 0 /\ base = 0 /\ retry = 0 /\ pc = "new"
  /\ lease = 0 /\ age = 0 /\ slack = 0 /\ delay = 0 /\ wait = 0

\* What a Go int64 makes of an integer.
Wrapped(x) == ((x + Half) % (2 * Half)) - Half

\* SubmitTask: a task without a timeout gets the default.
SubmitTask(t, b) ==
  /\ pc = "new" /\ pc' = "ready" /\ origin' = "api"
  /\ timeout' = IF t = 0 THEN SubmitTimeout ELSE t
  /\ base' = b
  /\ UNCHANGED <<retry, lease, age, slack, delay, wait>>

\* CreateCronJob and ToTask pass the timeout on as it is.
TriggerCronJob(t, b) ==
  /\ pc = "new" /\ pc' = "ready" /\ origin' = "cron"
  /\ timeout' = t /\ base' = b
  /\ UNCHANGED <<retry, lease, age, slack, delay, wait>>

\* Mutant: the lease is as long as the handler may take.
NoBuffer(t) == IF t < DefaultVisibility THEN DefaultVisibility ELSE t

\* computeVisibilityTimeout.
VisibilityTimeout(t) ==
  LET v == Wrapped(t + LeaseBuffer) IN
  IF t <= 0 \/ v < DefaultVisibility THEN DefaultVisibility ELSE v

\* Dequeue: the script leases for the default, counted from a clock read before it ...
Dequeue ==
  /\ pc = "ready"
  /\ lease' = DefaultVisibility /\ age' = 0 /\ slack' = 0
  /\ pc' = IF VisibilityTimeout(timeout) > DefaultVisibility THEN "extend" ELSE "setup"
  /\ UNCHANGED <<taskVars, retry, delay, wait>>

\* ... and a second call extends the lease, counted from the same clock.
ExtendLease ==
  /\ pc = "extend" /\ pc' = "setup"
  /\ lease' = VisibilityTimeout(timeout)
  /\ UNCHANGED <<taskVars, retry, age, slack, delay, wait>>

\* processTask up to the handler.
Setup ==
  /\ pc = "setup" /\ pc' = "handling"
  /\ UNCHANGED <<taskVars, retry, lease, age, slack, delay, wait>>

\* The deadline of the Timeout middleware; a negative one is over at once.
HandlerLimit == IF timeout = 0 THEN TaskTimeout ELSE IF timeout < 0 THEN 0 ELSE timeout
Spent == age - slack

\* The handler ends, well or not, by itself or by its deadline.
HandlerEnds(failed) ==
  /\ pc = "handling"
  /\ pc' = IF failed THEN "fail" ELSE "complete"
  /\ UNCHANGED <<taskVars, retry, lease, age, slack, delay, wait>>

\* Mutant: an overflow to a negative number is kept.
CappedAbove(b) == IF b > MaxRetryBackoff THEN MaxRetryBackoff ELSE b

\* The cap, which a negative number means too.
Capped(b) == IF b > MaxRetryBackoff \/ b < 0 THEN MaxRetryBackoff ELSE b

\* Mutant: the count before this failure.
LateBackoff(b, n) ==
  IF b <= 0 \/ n <= 1 THEN 0
  ELSE Capped(Wrapped(b * 2^(IF n - 2 > MaxShift THEN MaxShift ELSE n - 2)))

\* computeRetryBackoff without the jitter.
RetryBackoff(b, n) ==
  IF b <= 0 \/ n <= 0 THEN 0
  ELSE Capped(Wrapped(b * 2^(IF n - 1 > MaxShift THEN MaxShift ELSE n - 1)))

\* rand.Int64N(base/4 + 1)
Jitter(b) == IF b <= 0 THEN {0} ELSE 0..(b \div 4)

\* handleSuccess, or handleFailure without a retry left: the entry is acknowledged.
Ack ==
  /\ pc \in {"complete", "fail"}
  /\ pc = "fail" => retry + 1 >= MaxRetries
  /\ retry' = IF pc = "fail" THEN retry + 1 ELSE retry
  /\ pc' = "done"
  /\ UNCHANGED <<taskVars, lease, age, slack, delay, wait>>

\* handleFailure with a retry left, and Nack: to the delayed set, or back to ready.
Nack ==
  /\ pc = "fail" /\ retry + 1 < MaxRetries
  /\ retry' = retry + 1
  /\ wait' = 0
  /\ \E j \in Jitter(base) : delay' = RetryBackoff(base, retry + 1) + j
  /\ pc' = IF base > 0 THEN "delayed" ELSE "ready"
  /\ UNCHANGED <<taskVars, lease, age, slack>>

\* PromoteDelayed takes entries whose time has come.
PromoteDelayed ==
  /\ pc = "delayed" /\ wait >= delay
  /\ pc' = "ready"
  /\ UNCHANGED <<taskVars, retry, lease, age, slack, delay, wait>>

Outside == pc \in {"extend", "setup", "complete", "fail"}

Tick ==
  \/ /\ Outside /\ slack < MaxSlack
     /\ slack' = slack + 1 /\ age' = age + 1
     /\ UNCHANGED <<taskVars, retry, pc, lease, delay, wait>>
  \/ /\ pc = "handling" /\ Spent < HandlerLimit
     /\ age' = age + 1
     /\ UNCHANGED <<taskVars, retry, pc, lease, slack, delay, wait>>
  \/ /\ pc = "delayed" /\ wait < delay
     /\ wait' = wait + 1
     /\ UNCHANGED <<taskVars, retry, pc, lease, age, slack, delay>>

Next ==
  \/ \E t \in Timeouts, b \in Backoffs : SubmitTask(t, b) \/ TriggerCronJob(t, b)
  \/ Dequeue \/ ExtendLease \/ Setup \/ (\E failed \in BOOLEAN : HandlerEnds(failed))
  \/ Ack \/ Nack \/ PromoteDelayed \/ Tick

Spec == Init /\ [][Next]_vars

-----------------------------------------------------------------------------
(* Types; a retry is never due in the past, nor later than the cap and its *)
(* jitter, whatever the shift overflowed to.                               *)
TypeOK ==
  /\ origin \in {"none", "api", "cron"}
  /\ timeout \in Int /\ base \in Int
  /\ retry \in 0..MaxRetries
  /\ pc \in {"new", "ready", "extend", "setup", "handling", "complete", "fail", "delayed", "done"}
  /\ lease \in Nat /\ age \in Nat /\ slack \in 0..MaxSlack /\ slack <= age
  /\ delay \in Nat /\ wait \in 0..delay
  /\ base > 0 => delay <= MaxRetryBackoff + base \div 4

Attempting == pc \in {"extend", "setup", "handling", "complete", "fail"}
Expired == age + Skew >= lease

(* The lease of a task with a timeout, its own or the default of           *)
(* SubmitTask, outlives the attempt up to the Ack or the Nack: reclaim     *)
(* takes nothing from a worker that is alive.  The buffer pays for what    *)
(* happens outside of the handler, the first lease for the call that       *)
(* extends it.                                                             *)
LeaseCovers == Attempting /\ timeout # 0 => ~Expired

\* base * 2^(retry - 1), up to the cap, without overflow.
Documented ==
  LET b == base * 2^(retry - 1) IN IF b > MaxRetryBackoff THEN MaxRetryBackoff ELSE b
Fits == /\ base * 2^(IF retry - 1 > MaxShift THEN MaxShift ELSE retry - 1) < Half
        /\ retry - 1 > MaxShift => base * 2^MaxShift >= MaxRetryBackoff

(* A failed task with a backoff is not offered again before base *         *)
(* 2^(retry-1) or the cap has passed, and its delay is at most the jitter  *)
(* above that, as long as the shift does not overflow.                     *)
RetrySpacing ==
  [][pc = "delayed" /\ pc' = "ready" /\ Fits =>
       wait >= Documented /\ delay <= Documented + base \div 4]_vars

-----------------------------------------------------------------------------
(* What the documents say and the code does not do.                        *)

(* queue_broker.go: the lease is strictly longer than the handler's        *)
(* timeout.  Not so for a cron job created without a timeout, which the    *)
(* API reference gives 5 minutes: it gets the default lease and the        *)
(* worker's task_timeout.                                                  *)
LeaseAlwaysCovers == Attempting => ~Expired

(* queue_broker.go: base * 2^(retryCount-1), with a cap; the test for a    *)
(* negative number guards against overflow.                                *)
BackoffNeverShort == pc = "delayed" => delay >= Documented
=============================================================================
