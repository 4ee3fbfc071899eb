--------------------------- MODULE AttemptProofs ----------------------------
(***************************************************************************)
(* The lease of a task with a timeout outlives the attempt, for every      *)
(* timeout, buffer, default, slack and skew.  LeaseCovers is not           *)
(* inductive: it does not say how the age of the lease divides into time   *)
(* in the handler, which the Timeout middleware bounds, and time outside   *)
(* of it, which the buffer pays for.  Budget says so.                      *)
(***************************************************************************)
EXTENDS Attempt, TLAPS

\* The part of the types that the argument uses.
Typed ==
  /\ timeout \in Int /\ lease \in Int /\ age \in Int
  /\ slack \in 0..MaxSlack
  /\ timeout + LeaseBuffer < Half

\* What an attempt may have used at each of its points, and its lease.
Budget ==
  /\ pc = "extend" => Spent = 0 /\ lease = DefaultVisibility
  /\ pc = "setup" => Spent = 0 /\ lease = VisibilityTimeout(timeout)
  /\ pc \in {"handling", "complete", "fail"} =>
       Spent >= 0 /\ Spent <= HandlerLimit /\ lease = VisibilityTimeout(timeout)

IInv == Typed /\ Budget

-----------------------------------------------------------------------------
(* An int64 holds what fits into it.                                       *)
LEMMA WrappedFits ==
  ASSUME NEW x \in Int, -Half <= x, x < Half
  PROVE  Wrapped(x) = x
<1>1. Half \in Int /\ Half > 0
  BY AttemptAssumption
<1>2. (x + Half) \in Int /\ 0 <= x + Half /\ x + Half < 2 * Half
  BY <1>1
<1>3. ASSUME NEW a \in Int, NEW m \in Int, 0 <= a, a < m PROVE a % m = a
  BY <1>3
<1>4. (x + Half) % (2 * Half) = x + Half
  BY <1>1, <1>2, <1>3
<1>5. QED
  BY <1>1, <1>4 DEF Wrapped

(* computeVisibilityTimeout never returns less than the default, and for a *)
(* positive timeout at least the buffer more than it.                      *)
LEMMA VisibilityLong ==
  ASSUME NEW t \in Int, t + LeaseBuffer < Half
  PROVE  /\ VisibilityTimeout(t) \in Int /\ VisibilityTimeout(t) >= DefaultVisibility
         /\ t > 0 => VisibilityTimeout(t) >= t + LeaseBuffer
<1>1. LeaseBuffer \in Nat /\ DefaultVisibility \in Nat /\ Half \in Nat
  BY AttemptAssumption
<1>2. CASE t <= 0
  BY <1>1, <1>2 DEF VisibilityTimeout
<1>3. CASE t > 0
  <2>1. Wrapped(t + LeaseBuffer) = t + LeaseBuffer
    BY <1>1, <1>3, WrappedFits
  <2>2. QED
    BY <1>1, <1>3, <2>1 DEF VisibilityTimeout
<1>4. QED
  BY <1>2, <1>3

(* The deadline of the Timeout middleware.                                 *)
LEMMA LimitType ==
  ASSUME timeout \in Int
  PROVE  HandlerLimit \in Nat /\ (timeout > 0 => HandlerLimit = timeout)
                              /\ (timeout < 0 => HandlerLimit = 0)
  BY AttemptAssumption DEF HandlerLimit

-----------------------------------------------------------------------------
(* Nothing is leased at first.                                             *)
LEMMA InitInv == Init => IInv
<1> SUFFICES ASSUME Init PROVE IInv
  OBVIOUS
<1>1. LeaseBuffer \in Nat /\ Half \in Nat /\ SubmitTimeout \in Nat /\ MaxSlack \in Nat
      /\ SubmitTimeout + LeaseBuffer < Half
  BY AttemptAssumption
<1>2. QED
  BY <1>1 DEF Init, IInv, Typed, Budget

(* Creation by either way gives a timeout that the buffer can be added to. *)
LEMMA CreateInv ==
  ASSUME IInv, NEW t \in Timeouts, NEW b \in Backoffs, SubmitTask(t, b) \/ TriggerCronJob(t, b)
  PROVE  IInv'
<1>1. t \in Int /\ SubmitTimeout \in Int /\ t + LeaseBuffer < Half
      /\ SubmitTimeout + LeaseBuffer < Half
  BY AttemptAssumption
<1>2. pc' = "ready" /\ timeout' \in {t, SubmitTimeout} /\ UNCHANGED <<lease, age, slack>>
  BY DEF SubmitTask, TriggerCronJob
<1>3. QED
  BY <1>1, <1>2 DEF IInv, Typed, Budget

(* A new attempt starts with an unused budget.                             *)
LEMMA DequeueInv == ASSUME IInv, Dequeue PROVE IInv'
<1>1. MaxSlack \in Nat /\ DefaultVisibility \in Nat
  BY AttemptAssumption
<1>2. timeout' = timeout /\ lease' = DefaultVisibility /\ age' = 0 /\ slack' = 0
      /\ pc' = IF VisibilityTimeout(timeout) > DefaultVisibility THEN "extend" ELSE "setup"
  BY DEF Dequeue, taskVars
<1>3. pc' = "setup" => VisibilityTimeout(timeout) = DefaultVisibility
  BY <1>1, <1>2, VisibilityLong DEF IInv, Typed
<1>4. QED
  BY <1>1, <1>2, <1>3 DEF IInv, Typed, Budget, Spent, VisibilityTimeout, Wrapped

(* The extension sets the full lease.                                      *)
LEMMA ExtendInv == ASSUME IInv, ExtendLease PROVE IInv'
<1>1. VisibilityTimeout(timeout) \in Int
  BY VisibilityLong DEF IInv, Typed
<1>2. timeout' = timeout /\ age' = age /\ slack' = slack /\ pc = "extend" /\ pc' = "setup"
      /\ lease' = VisibilityTimeout(timeout)
  BY DEF ExtendLease, taskVars
<1>3. QED
  BY <1>1, <1>2 DEF IInv, Typed, Budget, Spent, VisibilityTimeout, Wrapped

(* Steps that leave the clocks alone.                                      *)
LEMMA MoveInv ==
  ASSUME IInv, UNCHANGED <<timeout, lease, age, slack>>,
         pc' \in {"ready", "delayed", "done"} \/ (pc = "setup" /\ pc' = "handling")
           \/ (pc = "handling" /\ pc' \in {"complete", "fail"})
  PROVE  IInv'
<1>1. HandlerLimit \in Nat
  BY LimitType DEF IInv, Typed
<1>2. Typed'
  BY DEF IInv, Typed
<1>3. /\ Spent' = Spent /\ HandlerLimit' = HandlerLimit
      /\ VisibilityTimeout(timeout)' = VisibilityTimeout(timeout)
  BY DEF Spent, HandlerLimit, VisibilityTimeout, Wrapped
<1>4. Budget'
  BY <1>1, <1>3 DEF IInv, Budget
<1>5. QED
  BY <1>2, <1>4 DEF IInv

(* Time passes inside or outside of the handler, within its bound.         *)
LEMMA TickInv == ASSUME IInv, Tick PROVE IInv'
<1>1. timeout' = timeout /\ lease' = lease /\ pc' = pc
  BY DEF Tick, taskVars
<1>2. /\ HandlerLimit' = HandlerLimit /\ HandlerLimit \in Nat
      /\ VisibilityTimeout(timeout)' = VisibilityTimeout(timeout)
  BY <1>1, LimitType DEF IInv, Typed, HandlerLimit, VisibilityTimeout, Wrapped
<1>3. MaxSlack \in Nat
  BY AttemptAssumption
<1>4. CASE Outside /\ slack < MaxSlack /\ slack' = slack + 1 /\ age' = age + 1
  <2>1. Typed'
    BY <1>1, <1>3, <1>4 DEF IInv, Typed
  <2>2. Spent' = Spent
    BY <1>4, <1>3 DEF IInv, Typed, Spent
  <2>3. Budget'
    BY <1>1, <1>2, <2>2 DEF IInv, Budget
  <2>4. QED
    BY <2>1, <2>3 DEF IInv
<1>5. CASE pc = "handling" /\ Spent < HandlerLimit /\ age' = age + 1 /\ slack' = slack
  <2>1. Typed'
    BY <1>1, <1>5 DEF IInv, Typed
  <2>2. Spent' = Spent + 1 /\ Spent \in Int
    BY <1>5, <1>3 DEF IInv, Typed, Spent
  <2>3. Budget'
    BY <1>1, <1>2, <1>5, <2>2 DEF IInv, Budget
  <2>4. QED
    BY <2>1, <2>3 DEF IInv
<1>6. CASE pc = "delayed" /\ age' = age /\ slack' = slack
  BY <1>1, <1>6 DEF IInv, Typed, Budget
<1>7. QED
  BY <1>4, <1>5, <1>6 DEF Tick

(* Every step keeps the budget.                                            *)
LEMMA StepInv == IInv /\ [Next]_vars => IInv'
<1> SUFFICES ASSUME IInv, [Next]_vars PROVE IInv'
  OBVIOUS
<1>1. CASE UNCHANGED vars
  BY <1>1 DEF vars, IInv, Typed, Budget, Spent, HandlerLimit, VisibilityTimeout, Wrapped
<1>2. ASSUME NEW t \in Timeouts, NEW b \in Backoffs, SubmitTask(t, b) \/ TriggerCronJob(t, b)
      PROVE  IInv'
  BY <1>2, CreateInv
<1>3. CASE Dequeue
  BY <1>3, DequeueInv
<1>4. CASE ExtendLease
  BY <1>4, ExtendInv
<1>5. CASE Setup
  BY <1>5, MoveInv DEF Setup, taskVars
<1>6. ASSUME NEW failed \in BOOLEAN, HandlerEnds(failed) PROVE IInv'
  BY <1>6, MoveInv DEF HandlerEnds, taskVars
<1>7. CASE Ack
  BY <1>7, MoveInv DEF Ack, taskVars
<1>8. CASE Nack
  BY <1>8, MoveInv DEF Nack, taskVars
<1>9. CASE PromoteDelayed
  BY <1>9, MoveInv DEF PromoteDelayed, taskVars
<1>10. CASE Tick
  BY <1>10, TickInv
<1>11. QED
  BY <1>1, <1>2, <1>3, <1>4, <1>5, <1>6, <1>7, <1>8, <1>9, <1>10 DEF Next

(* The budget stays within the lease.                                      *)
LEMMA BudgetCovers == IInv => LeaseCovers
<1> SUFFICES ASSUME IInv, Attempting, timeout # 0 PROVE age + Skew < lease
  BY AttemptAssumption DEF LeaseCovers, Expired, IInv, Typed
<1>1. /\ MaxSlack \in Nat /\ Skew \in Nat /\ LeaseBuffer \in Nat /\ DefaultVisibility \in Nat
      /\ LeaseBuffer <= DefaultVisibility /\ MaxSlack + Skew < LeaseBuffer
  BY AttemptAssumption
<1>2. timeout \in Int /\ age \in Int /\ slack \in Int /\ slack <= MaxSlack /\ age = Spent + slack
      /\ Spent \in Int
  BY <1>1 DEF IInv, Typed, Spent
<1>3. CASE pc \in {"extend", "setup"}
  <2>1. Spent = 0 /\ lease \in Int /\ lease >= DefaultVisibility
    BY <1>3, <1>1, VisibilityLong DEF IInv, Typed, Budget
  <2>2. QED
    BY <2>1, <1>1, <1>2
<1>4. CASE pc \in {"handling", "complete", "fail"}
  <2>1. Spent <= HandlerLimit /\ HandlerLimit \in Nat /\ lease \in Int
    BY <1>4, LimitType DEF IInv, Typed, Budget
  <2>2. HandlerLimit + LeaseBuffer <= lease
    <3>1. CASE timeout > 0
      BY <3>1, <1>4, VisibilityLong, LimitType DEF IInv, Typed, Budget
    <3>2. CASE timeout < 0
      <4>1. HandlerLimit = 0 /\ lease >= DefaultVisibility
        BY <3>2, <1>4, VisibilityLong, LimitType DEF IInv, Typed, Budget
      <4>2. QED
        BY <4>1, <2>1, <1>1
    <3>3. QED
      BY <3>1, <3>2, <1>2
  <2>3. QED
    BY <2>1, <2>2, <1>1, <1>2
<1>5. QED
  BY <1>3, <1>4 DEF Attempting

(* For every task with a timeout, its own or the default of SubmitTask,    *)
(* the lease that Dequeue takes outlives the attempt under the Timeout     *)
(* middleware up to its Ack or Nack, as long as what happens outside of    *)
(* the handler, together with the skew of the clocks, is shorter than      *)
(* LeaseBuffer.                                                            *)
THEOREM LeaseSafe == Spec => []LeaseCovers
<1>1. Init => IInv
  BY InitInv
<1>2. IInv /\ [Next]_vars => IInv'
  BY StepInv
<1>3. IInv => LeaseCovers
  BY BudgetCovers
<1>4. QED
  BY <1>1, <1>2, <1>3, PTL DEF Spec
-----------------------------------------------------------------------------
(* TypeOK bounds the retry count and the delay.  It is inductive together  *)
(* with Typed, and with the facts that a failure below MaxRetries precedes *)
(* every further attempt and that nothing is delayed before the first.     *)
TInv ==
  /\ TypeOK /\ Typed
  /\ pc # "done" => retry < MaxRetries
  /\ pc = "new" => delay = 0 /\ wait = 0

(* Whatever the shift overflows to, the backoff is within 0 and the cap.   *)
LEMMA BackoffBounded ==
  ASSUME NEW b \in Int, NEW n \in Nat
  PROVE  RetryBackoff(b, n) \in 0..MaxRetryBackoff
<1>1. MaxRetryBackoff \in Nat /\ MaxShift \in Nat /\ Half \in Nat \ {0}
  BY AttemptAssumption
<1>2. ASSUME NEW x \in Int PROVE Capped(x) \in 0..MaxRetryBackoff
  BY <1>1 DEF Capped
<1>3. CASE b <= 0 \/ n <= 0
  BY <1>1, <1>3 DEF RetryBackoff
<1>4. CASE b > 0 /\ n > 0
  <2> DEFINE k == IF n - 1 > MaxShift THEN MaxShift ELSE n - 1
  <2>1. k \in Nat
    BY <1>1, <1>4
  <2>2. 2^k \in Int
    BY <2>1
  <2>3. b * 2^k \in Int
    BY <2>2
  <2>4. Wrapped(b * 2^k) \in Int
    BY <1>1, <2>3 DEF Wrapped
  <2>5. Capped(Wrapped(b * 2^k)) \in 0..MaxRetryBackoff
    BY <1>2, <2>4
  <2>6. QED
    BY <1>4, <2>5 DEF RetryBackoff
<1>5. QED
  BY <1>3, <1>4

(* The delay of a Nack.                                                    *)
LEMMA DelayBounded ==
  ASSUME NEW b \in Int, NEW n \in Nat, NEW j \in Jitter(b)
  PROVE  /\ RetryBackoff(b, n) + j \in Nat
         /\ b > 0 => RetryBackoff(b, n) + j <= MaxRetryBackoff + b \div 4
<1>1. RetryBackoff(b, n) \in 0..MaxRetryBackoff /\ MaxRetryBackoff \in Nat
  BY BackoffBounded, AttemptAssumption
<1>2. j \in Nat /\ (b > 0 => j <= b \div 4)
  BY DEF Jitter
<1>3. b \div 4 \in Int
  OBVIOUS
<1>4. QED
  BY <1>1, <1>2, <1>3

LEMMA TypesStep == ASSUME TInv, Next PROVE TInv'
<1>0. /\ MaxRetries \in Nat \ {0} /\ MaxSlack \in Nat /\ DefaultVisibility \in Nat
      /\ MaxRetryBackoff \in Nat /\ Backoffs \subseteq Int /\ Timeouts \subseteq Int
      /\ SubmitTimeout \in Int /\ LeaseBuffer \in Nat /\ Half \in Nat
      /\ \A t \in Timeouts \cup {SubmitTimeout} : t + LeaseBuffer < Half
  BY AttemptAssumption
<1>1. ASSUME NEW t \in Timeouts, NEW b \in Backoffs, SubmitTask(t, b) \/ TriggerCronJob(t, b)
      PROVE  TInv'
  <2>1. /\ t \in Int /\ b \in Int /\ pc = "new" /\ pc' = "ready" /\ origin' \in {"api", "cron"}
        /\ timeout' \in {t, SubmitTimeout} /\ base' = b
        /\ UNCHANGED <<retry, lease, age, slack, delay, wait>>
    BY <1>0, <1>1 DEF SubmitTask, TriggerCronJob
  <2>2. b > 0 => 0 <= MaxRetryBackoff + b \div 4
    BY <1>0, <2>1
  <2>3. TypeOK' /\ Typed'
    BY <1>0, <2>1, <2>2 DEF TInv, TypeOK, Typed
  <2>4. QED
    BY <2>1, <2>3 DEF TInv
<1>2. CASE Dequeue \/ ExtendLease
  <2>1. VisibilityTimeout(timeout) \in Nat
    BY <1>0, VisibilityLong DEF TInv, Typed
  <2>2. /\ lease' \in {DefaultVisibility, VisibilityTimeout(timeout)}
        /\ (age' = 0 /\ slack' = 0) \/ (age' = age /\ slack' = slack)
        /\ pc \in {"ready", "extend"} /\ pc' \in {"extend", "setup"}
        /\ UNCHANGED <<origin, timeout, base, retry, delay, wait>>
    BY <1>2 DEF Dequeue, ExtendLease, taskVars
  <2>3. TypeOK' /\ Typed'
    BY <1>0, <2>1, <2>2 DEF TInv, TypeOK, Typed
  <2>4. QED
    BY <2>2, <2>3 DEF TInv
<1>3. CASE Setup \/ PromoteDelayed \/ \E failed \in BOOLEAN : HandlerEnds(failed)
  <2>1. /\ pc \in {"setup", "delayed", "handling"} /\ pc' \in {"handling", "ready", "fail", "complete"}
        /\ UNCHANGED <<origin, timeout, base, retry, lease, age, slack, delay, wait>>
    BY <1>3 DEF Setup, PromoteDelayed, HandlerEnds, taskVars
  <2>2. TypeOK' /\ Typed'
    BY <2>1 DEF TInv, TypeOK, Typed
  <2>3. QED
    BY <2>1, <2>2 DEF TInv
<1>4. CASE Ack
  <2>1. /\ pc \in {"complete", "fail"} /\ pc' = "done" /\ retry' \in {retry, retry + 1}
        /\ UNCHANGED <<origin, timeout, base, lease, age, slack, delay, wait>>
    BY <1>4 DEF Ack, taskVars
  <2>2. retry' \in 0..MaxRetries
    BY <1>0, <2>1 DEF TInv, TypeOK
  <2>3. TypeOK' /\ Typed'
    BY <2>1, <2>2 DEF TInv, TypeOK, Typed
  <2>4. QED
    BY <2>1, <2>3 DEF TInv
<1>5. CASE Nack
  <2>1. PICK j \in Jitter(base) : delay' = RetryBackoff(base, retry + 1) + j
    BY <1>5 DEF Nack
  <2>2. /\ retry + 1 < MaxRetries /\ retry' = retry + 1 /\ wait' = 0 /\ pc' \in {"delayed", "ready"}
        /\ UNCHANGED <<origin, timeout, base, lease, age, slack>>
    BY <1>5 DEF Nack, taskVars
  <2>3. base \in Int /\ retry + 1 \in Nat
    BY DEF TInv, TypeOK
  <2>4. delay' \in Nat /\ (base > 0 => delay' <= MaxRetryBackoff + base \div 4)
    BY <2>1, <2>3, DelayBounded
  <2>5. TypeOK' /\ Typed'
    BY <1>0, <2>2, <2>3, <2>4 DEF TInv, TypeOK, Typed
  <2>6. QED
    BY <2>2, <2>5 DEF TInv
<1>6. CASE Tick
  <2>1. /\ UNCHANGED <<origin, timeout, base, retry, pc, lease, delay>> /\ pc # "new"
        /\ \/ slack < MaxSlack /\ slack' = slack + 1 /\ age' = age + 1 /\ wait' = wait
           \/ slack' = slack /\ age' = age + 1 /\ wait' = wait
           \/ wait < delay /\ slack' = slack /\ age' = age /\ wait' = wait + 1
    BY <1>6 DEF Tick, Outside, taskVars
  <2>2. /\ age' \in Nat /\ slack' \in 0..MaxSlack /\ slack' <= age' /\ wait' \in 0..delay
    BY <1>0, <2>1 DEF TInv, TypeOK
  <2>3. TypeOK' /\ Typed'
    BY <2>1, <2>2 DEF TInv, TypeOK, Typed
  <2>4. QED
    BY <2>1, <2>3 DEF TInv
<1>7. QED
  BY <1>1, <1>2, <1>3, <1>4, <1>5, <1>6 DEF Next

(* Retry counts stay within MaxRetries, and whatever retry_backoff a task  *)
(* is given and whatever the shift of computeRetryBackoff overflows to, a  *)
(* retry is delayed by at most MaxRetryBackoff and its jitter, never into  *)
(* the past.                                                               *)
THEOREM AttemptTypes == Spec => []TypeOK
<1>1. Init => TInv
  BY AttemptAssumption, InitInv DEF Init, TInv, TypeOK, IInv
<1>2. TInv /\ [Next]_vars => TInv'
  <2>1. ASSUME TInv, UNCHANGED vars PROVE TInv'
    BY <2>1 DEF vars, TInv, TypeOK, Typed
  <2>2. QED
    BY <2>1, TypesStep
<1>3. TInv => TypeOK
  BY DEF TInv
<1>4. QED
  BY <1>1, <1>2, <1>3, PTL DEF Spec
-----------------------------------------------------------------------------
(* RetrySpacing.  The delay was drawn by the Nack; what ties it to the     *)
(* documented backoff when the entry is promoted is Drawn.                 *)
Drawn ==
  pc = "delayed" =>
    /\ base > 0 /\ retry > 0
    /\ RetryBackoff(base, retry) <= delay
    /\ delay <= RetryBackoff(base, retry) + base \div 4

SInv == TInv /\ Drawn

LEMMA ProductPositive == ASSUME NEW b \in Int, b > 0, NEW p \in Nat \ {0} PROVE b * p \in Nat
  OBVIOUS

LEMMA ProductMonotone ==
  ASSUME NEW b \in Int, b > 0, NEW p \in Nat, NEW q \in Nat, p <= q
  PROVE  b * p <= b * q
  OBVIOUS

(* What fits is not wrapped.                                               *)
LEMMA WrappedSame == ASSUME NEW x \in Nat, x < Half PROVE Wrapped(x) = x
<1>1. Half \in Nat \ {0} /\ x + Half \in 0..(2 * Half - 1)
  BY AttemptAssumption
<1>2. (x + Half) % (2 * Half) = x + Half
  BY <1>1
<1>3. QED
  BY <1>1, <1>2 DEF Wrapped

(* Without overflow computeRetryBackoff is the documented formula.  Past   *)
(* MaxShift the formula grows on while the code repeats the last shift:    *)
(* the two agree when that one reaches the cap.                            *)
LEMMA BackoffDocumented ==
  ASSUME TInv, base > 0, retry > 0, Fits, retry < MaxRetries
  PROVE  RetryBackoff(base, retry) = Documented
<1> DEFINE k == IF retry - 1 > MaxShift THEN MaxShift ELSE retry - 1
<1>1. /\ MaxShift \in Nat /\ MaxRetries \in Nat /\ MaxRetryBackoff \in Nat /\ Half \in Nat
      /\ base \in Int /\ retry \in Nat
  BY AttemptAssumption DEF TInv, TypeOK
<1>2. /\ k \in 0..MaxShift \cup 0..(MaxRetries - 1)
      /\ retry - 1 \in 0..MaxShift \cup 0..(MaxRetries - 1)
      /\ k <= retry - 1
  BY <1>1
<1>3. /\ 2^k \in Nat \ {0} /\ 2^(retry - 1) \in Nat \ {0} /\ 2^k <= 2^(retry - 1)
  BY <1>2, PowerAssumption
<1>4. base * 2^k \in Nat /\ base * 2^(retry - 1) \in Nat /\ base * 2^k <= base * 2^(retry - 1)
  BY <1>1, <1>3, ProductPositive, ProductMonotone
<1>5. base * 2^k < Half /\ (retry - 1 > MaxShift => base * 2^k >= MaxRetryBackoff)
  BY DEF Fits
<1>6. Wrapped(base * 2^k) = base * 2^k
  BY <1>4, <1>5, WrappedSame
<1>7. RetryBackoff(base, retry) = Capped(base * 2^k)
  BY <1>1, <1>6 DEF RetryBackoff
<1>8. CASE retry - 1 > MaxShift
  <2>1. Capped(base * 2^k) = MaxRetryBackoff
    BY <1>1, <1>4, <1>5, <1>8 DEF Capped
  <2>2. Documented = MaxRetryBackoff
    BY <1>1, <1>4, <1>5, <1>8 DEF Documented
  <2>3. QED
    BY <1>7, <2>1, <2>2
<1>9. CASE ~(retry - 1 > MaxShift)
  <2>1. k = retry - 1
    BY <1>9
  <2>2. Capped(base * 2^(retry - 1)) = Documented
    BY <1>1, <1>4 DEF Capped, Documented
  <2>3. QED
    BY <1>7, <2>1, <2>2
<1>10. QED
  BY <1>8, <1>9

LEMMA DrawnStep == ASSUME SInv, Next PROVE Drawn'
<1>1. CASE Nack
  <2>1. PICK j \in Jitter(base) : delay' = RetryBackoff(base, retry + 1) + j
    BY <1>1 DEF Nack
  <2>2. /\ base' = base /\ retry' = retry + 1 /\ (pc' = "delayed" => base > 0)
    BY <1>1 DEF Nack, taskVars
  <2>3. base \in Int /\ retry + 1 \in Nat /\ retry + 1 > 0
    BY DEF SInv, TInv, TypeOK
  <2>4. RetryBackoff(base, retry + 1) \in Nat
    BY <2>3, BackoffBounded, AttemptAssumption
  <2>5. base > 0 => j \in Nat /\ j <= base \div 4
    BY <2>1, <2>3 DEF Jitter
  <2>6. base \div 4 \in Int
    BY <2>3
  <2>7. RetryBackoff(base', retry') = RetryBackoff(base, retry + 1)
    BY <2>2
  <2>8. QED
    BY <2>1, <2>2, <2>3, <2>4, <2>5, <2>6, <2>7 DEF Drawn
<1>2. ASSUME NEW t \in Timeouts, NEW b \in Backoffs, SubmitTask(t, b) \/ TriggerCronJob(t, b)
      PROVE  Drawn'
  BY <1>2 DEF SubmitTask, TriggerCronJob, Drawn
<1>3. CASE Dequeue \/ ExtendLease \/ Setup \/ Ack \/ PromoteDelayed \/ \E failed \in BOOLEAN : HandlerEnds(failed)
  <2>1. pc' # "delayed"
    BY <1>3 DEF Dequeue, ExtendLease, Setup, Ack, PromoteDelayed, HandlerEnds
  <2>2. QED
    BY <2>1 DEF Drawn
<1>4. CASE Tick
  <2>1. UNCHANGED <<pc, base, retry, delay>>
    BY <1>4 DEF Tick, taskVars
  <2>2. QED
    BY <2>1 DEF SInv, Drawn
<1>5. QED
  BY <1>1, <1>2, <1>3, <1>4 DEF Next

(* Spacing: PromoteDelayed, the only way from the delayed set back to the  *)
(* ready list, waits for the whole delay that was drawn, and that delay is *)
(* the documented backoff and at most a quarter of the base more, for      *)
(* every base, cap, shift and width that does not overflow.                *)
THEOREM RetriesSpaced == Spec => RetrySpacing
<1> DEFINE Step == pc = "delayed" /\ pc' = "ready" /\ Fits =>
                     wait >= Documented /\ delay <= Documented + base \div 4
<1>1. Init => SInv
  <2>1. Init => TInv
    BY AttemptAssumption, InitInv DEF Init, TInv, TypeOK, IInv
  <2>2. QED
    BY <2>1 DEF Init, SInv, Drawn
<1>2. SInv /\ [Next]_vars => SInv'
  <2>1. ASSUME SInv, UNCHANGED vars PROVE SInv'
    BY <2>1 DEF vars, SInv, Drawn, TInv, TypeOK, Typed
  <2>2. QED
    BY <2>1, TypesStep, DrawnStep DEF SInv
<1>3. SInv /\ [Next]_vars => [Step]_vars
  <2> SUFFICES ASSUME SInv, Next, pc = "delayed", pc' = "ready", Fits
               PROVE  wait >= Documented /\ delay <= Documented + base \div 4
    OBVIOUS
  <2>1. wait >= delay
    <3>1. PromoteDelayed
      BY DEF Next, SubmitTask, TriggerCronJob, Dequeue, ExtendLease, Setup, HandlerEnds, Ack,
             Nack, Tick
    <3>2. QED
      BY <3>1 DEF PromoteDelayed
  <2>2. /\ base > 0 /\ retry > 0 /\ RetryBackoff(base, retry) <= delay
        /\ delay <= RetryBackoff(base, retry) + base \div 4
    BY DEF SInv, Drawn
  <2>3. retry < MaxRetries /\ base \in Int /\ retry \in Nat /\ delay \in Nat /\ wait \in Nat
    BY DEF SInv, TInv, TypeOK
  <2>4. RetryBackoff(base, retry) = Documented
    BY <2>2, <2>3, BackoffDocumented DEF SInv
  <2>5. RetryBackoff(base, retry) \in Nat
    BY <2>3, BackoffBounded, AttemptAssumption
  <2>6. QED
    BY <2>1, <2>2, <2>3, <2>4, <2>5
<1>4. QED
  BY <1>1, <1>2, <1>3, PTL DEF Spec, RetrySpacing
=============================================================================
