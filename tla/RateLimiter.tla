---------------------------- MODULE RateLimiter -----------------------------
(***************************************************************************)
(* The per-queue rate limiter in front of SubmitTask                       *)
(* (pkg/ratelimit/ratelimit.go), called by concurrent request handlers.    *)
(* MultiQueueLimiter.Allow looks the queue's Limiter up under a read lock, *)
(* creates it under the write lock if it is missing, and then calls its    *)
(* Allow, which refills the bucket and takes a token under the Limiter's   *)
(* own mutex: three critical sections, three steps.  Wait only repeats     *)
(* Allow.                                                                  *)
(*                                                                         *)
(* A token is Unit parts, so that fractions are exact; the rounding of     *)
(* float64 is left out.  Go's clock is monotonic: a bucket keeps the age   *)
(* of its lastTime instead, which saturates at MaxAge, when a refill fills *)
(* any bucket.                                                             *)
(***************************************************************************)
EXTENDS Integers

CONSTANTS
  Queues,
  Callers,     \* goroutines that handle submissions
  Configured,  \* queues with an entry in rate_limit.per_queue
  Rate,        \* queue -> parts of a token added per tick: its entry, or the default
  Burst,       \* queue -> size of the bucket in tokens
  Unit,        \* parts of a token
  MaxAge,
  Window,      \* longest window, in ticks, over which admissions are counted
  Main,        \* cmd/apiserver, which creates the configured limiters at start
  None

ASSUME LimiterAssumption ==
  /\ Configured \subseteq Queues
  /\ Rate \in [Queues -> Nat] /\ Burst \in [Queues -> Nat]
  /\ Unit \in Nat \ {0} /\ MaxAge \in Nat \ {0} /\ Window \in Nat
  /\ Main \notin Callers /\ None \notin Callers \cup {Main}
  /\ \A q \in Queues : Rate[q] = 0 \/ MaxAge * Rate[q] >= Burst[q] * Unit

VARIABLES
  limiters,  \* queue -> MultiQueueLimiter.limiters: who created the Limiter, or None
  bucket,    \* queue -> creator -> the Limiter it created: tokens, age of lastTime
  call,      \* caller -> where its Allow is, for which queue, with which Limiter
  passed     \* queue -> n -> how often Allow said yes in the last n ticks (history)

vars == <<limiters, bucket, call, passed>>

Creators == Callers \cup {Main}
NewLimiter(q) == [tokens |-> Burst[q] * Unit, age |-> 0]
Idle == [pc |-> "idle", queue |-> None, lim |-> None]

Init ==
  /\ limiters = [q \in Queues |-> IF q \in Configured THEN Main ELSE None]
  /\ bucket = [q \in Queues |-> [c \in Creators |-> NewLimiter(q)]]
  /\ call = [c \in Callers |-> Idle]
  /\ passed = [q \in Queues |-> [n \in 0..Window |-> 0]]

\* beforeSubmit hook: limiter.Allow(task.QueueName).
Submit(c, q) ==
  /\ call[c] = Idle
  /\ call' = [call EXCEPT ![c] = [pc |-> "lookup", queue |-> q, lim |-> None]]
  /\ UNCHANGED <<limiters, bucket, passed>>

\* The map read under RLock.
Lookup(c) ==
  LET l == limiters[call[c].queue] IN
  /\ call[c].pc = "lookup"
  /\ call' = [call EXCEPT ![c].lim = l, ![c].pc = IF l = None THEN "create" ELSE "take"]
  /\ UNCHANGED <<limiters, bucket, passed>>

\* Mutant: the map is not read again under the write lock.
CreateUnchecked(c) ==
  LET q == call[c].queue IN
  /\ call[c].pc = "create"
  /\ limiters' = [limiters EXCEPT ![q] = c]
  /\ bucket' = [bucket EXCEPT ![q][c] = NewLimiter(q)]
  /\ call' = [call EXCEPT ![c].lim = c, ![c].pc = "take"]
  /\ UNCHANGED passed

\* Under Lock: read the map again, and create the Limiter if it is still missing.
Create(c) ==
  LET q == call[c].queue
      missing == limiters[q] = None IN
  /\ call[c].pc = "create"
  /\ limiters' = [limiters EXCEPT ![q] = IF missing THEN c ELSE @]
  /\ bucket' = [bucket EXCEPT ![q][c] = IF missing THEN NewLimiter(q) ELSE @]
  /\ call' = [call EXCEPT ![c].lim = IF missing THEN c ELSE limiters[q], ![c].pc = "take"]
  /\ UNCHANGED passed

\* Mutant: only whole tokens are added.
RefillWhole(q, b) ==
  LET sum == b.tokens + ((b.age * Rate[q]) \div Unit) * Unit IN
  IF sum > Burst[q] * Unit THEN Burst[q] * Unit ELSE sum

\* Mutant: an idle bucket grows past the burst.
RefillUncapped(q, b) == b.tokens + b.age * Rate[q]

\* The tokens after refill().
Refill(q, b) ==
  LET sum == b.tokens + b.age * Rate[q] IN
  IF sum > Burst[q] * Unit THEN Burst[q] * Unit ELSE sum

\* Limiter.Allow under the Limiter's mutex.
Take(c) ==
  LET q == call[c].queue
      l == call[c].lim
      tokens == Refill(q, bucket[q][l])
      yes == tokens >= Unit IN
  /\ call[c].pc = "take"
  /\ bucket' = [bucket EXCEPT ![q][l] =
       [tokens |-> IF yes THEN tokens - Unit ELSE tokens, age |-> 0]]
  /\ passed' = [passed EXCEPT ![q] = [n \in 0..Window |-> IF yes THEN @[n] + 1 ELSE @[n]]]
  /\ call' = [call EXCEPT ![c] = Idle]
  /\ UNCHANGED limiters

Tick ==
  /\ bucket' = [q \in Queues |-> [c \in Creators |->
       [bucket[q][c] EXCEPT !.age = IF @ < MaxAge THEN @ + 1 ELSE @]]]
  /\ passed' = [q \in Queues |-> [n \in 0..Window |-> IF n = 0 THEN 0 ELSE passed[q][n - 1]]]
  /\ UNCHANGED <<limiters, call>>

Next ==
  \/ \E c \in Callers : Lookup(c) \/ Create(c) \/ Take(c) \/ \E q \in Queues : Submit(c, q)
  \/ Tick

Spec == Init /\ [][Next]_vars

\* Calls end and time passes; nobody has to submit.
Fairness ==
  /\ \A c \in Callers : WF_vars(Lookup(c)) /\ WF_vars(Create(c)) /\ WF_vars(Take(c))
  /\ WF_vars(Tick)

FairSpec == Spec /\ Fairness

-----------------------------------------------------------------------------
(* Types; a bucket never holds more than its burst.                        *)
TypeOK ==
  /\ limiters \in [Queues -> Creators \cup {None}]
  /\ bucket \in [Queues -> [Creators -> [tokens : Nat, age : 0..MaxAge]]]
  /\ \A q \in Queues, c \in Creators : bucket[q][c].tokens <= Burst[q] * Unit
  /\ call \in [Callers -> [pc : {"idle", "lookup", "create", "take"},
                           queue : Queues \cup {None}, lim : Creators \cup {None}]]
  /\ passed \in [Queues -> [0..Window -> Nat]]

(* The promise of a token bucket, per queue and over every window: in n    *)
(* ticks at most Burst + n * Rate submissions pass, however many handlers  *)
(* race for the first Limiter of a queue and however long it was idle.     *)
RateBounded ==
  \A q \in Queues, n \in 0..Window : passed[q][n] * Unit <= Burst[q] * Unit + n * Rate[q]

(* Fractions of a token are not lost between calls: while submissions to a *)
(* queue keep coming, however often, some of them pass.                    *)
NotStarved ==
  \A q \in Queues : Rate[q] > 0 /\ Burst[q] > 0 =>
    ([]<>(\E c \in Callers : call[c].pc = "take" /\ call[c].queue = q) => []<>(passed[q][0] > 0))
=============================================================================
