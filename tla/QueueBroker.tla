---------------------------- MODULE QueueBroker -----------------------------
(***************************************************************************)
(* The Redis queue broker                                                  *)
(* (internal/shared/infrastructure/persistence/redis/queue_broker.go) and  *)
(* the processes that call it.  Every Lua script is one action: Redis runs *)
(* it atomically.  Ack and Nack are pipelines, which Redis does not run    *)
(* atomically: their commands are separate actions (Exec...), a command of *)
(* another client may come between two of them and a lost connection may   *)
(* drop the rest.  Dequeue is a script followed, for long tasks, by a      *)
(* separate ZADD that extends the lease.                                   *)
(*                                                                         *)
(* A client is one goroutine that consumes: a slot of a worker's pool.     *)
(* Members of ready, delayed and inflight are task JSON (Member of Task).  *)
(***************************************************************************)
EXTENDS Task, FiniteSets, Sequences, Redis

CONSTANTS
  Clients,           \* consuming goroutines
  Subscribed,        \* client -> its worker's cfg.Queues, in order
  RetryDelays,       \* task -> backoffs computeRetryBackoff may return; {} for RetryBackoff = 0
  Visibility,        \* task -> computeVisibilityTimeout(Timeout)
  DefaultVisibility, \* DefaultVisibilityTimeout
  Cancellable,       \* the tasks a user may cancel
  BatchSize,         \* batch of PromoteDelayed and ReclaimInflight
  MaxTime,           \* bound on the clock
  Horizon,           \* due times beyond it are cut to it (see Later)
  MaxStat            \* the statistics counters saturate here

ASSUME BrokerAssumption ==
  /\ Subscribed \in [Clients -> Seq(Queues)]
  /\ RetryDelays \in [Tasks -> SUBSET Nat]
  /\ Visibility \in [Tasks -> Nat]
  /\ DefaultVisibility \in Nat
  /\ Cancellable \subseteq Tasks
  /\ BatchSize \in Nat \ {0}
  /\ MaxTime \in Nat
  /\ Horizon \in Nat
  /\ MaxStat \in Nat

VARIABLES
  now,       \* the clock, in units of the lease and delay constants
  ready,     \* queue -> sorted set of members, score = -priority
  delayed,   \* queue -> sorted set of members, score = time it is due
  inflight,  \* queue -> hash: task id -> member
  lease,     \* queue -> sorted set of task ids, score = deadline
  stats,     \* queue -> hash of counters
  held,      \* client -> the task struct it got from Dequeue
  pipe       \* client -> what it still has to send to Redis

brokerVars == <<now, ready, delayed, inflight, lease, stats, held, pipe>>

(* The rest of a pipeline: cmd is the next command; "last" stands for the  *)
(* third command, which the kind of the pipeline decides.  "extend" is the *)
(* lone ZADD at the end of Dequeue.                                        *)
Cmds == {"none", "extend", "hdel", "zrem", "last"}
Kinds == {"none", "extend", "completed", "failed", "retryAt", "retryNow"}
Pipeline == [cmd : Cmds, kind : Kinds, task : Member \cup {None}, at : Nat]
NoPipe == [cmd |-> "none", kind |-> "none", task |-> None, at |-> 0]

\* The counters GetStats reads from the stats hash.
Counters == {"enqueued", "completed", "failed"}

Score(m) == -Priority[m.id]

(* The time d after t at which a delayed task is due.  With Horizon =      *)
(* MaxTime it is due at the latest when the model's clock stops.           *)
Later(t, d) == IF t + d > Horizon THEN Horizon ELSE t + d

\* Redis has executed a part of the client's pipeline.
Started(c) == pipe[c].cmd \in {"zrem", "last"}

HIncrBy(q, field) ==
  [stats EXCEPT ![q][field] = IF @ < MaxStat THEN @ + 1 ELSE @]

BrokerInit ==
  /\ now = 1
  /\ ready = [q \in Queues |-> {}]
  /\ delayed = [q \in Queues |-> {}]
  /\ inflight = [q \in Queues |-> [t \in Tasks |-> None]]
  /\ lease = [q \in Queues |-> {}]
  /\ stats = [q \in Queues |-> [f \in Counters |-> 0]]
  /\ held = [c \in Clients |-> None]
  /\ pipe = [c \in Clients |-> NoPipe]

-----------------------------------------------------------------------------
(* Producers: the API server and the scheduler.                            *)

\* Enqueue: EnqueueWithCap with no cap.
Enqueue(m) ==
  LET q == QueueOf[m.id] IN
  /\ ready' = [ready EXCEPT ![q] = ZAdd(@, Score(m), m)]
  /\ stats' = HIncrBy(q, "enqueued")
  /\ UNCHANGED <<now, delayed, inflight, lease, held, pipe>>

\* ScheduleAt or now + Delay, both given by Delay.
EnqueueDelayed(m) ==
  LET q == QueueOf[m.id] IN
  /\ delayed' = [delayed EXCEPT ![q] = ZAdd(@, Later(now, Delay[m.id]), m)]
  /\ UNCHANGED <<now, ready, inflight, lease, stats, held, pipe>>

\* The compensation loop: only the inflight hash is looked at.
InInflight(t) == inflight[QueueOf[t]][t] # None

\* Mutant: the script forgets the score.
EnqueueUnscored(m) ==
  LET q == QueueOf[m.id] IN
  /\ ready' = IF InInflight(m.id) THEN ready ELSE [ready EXCEPT ![q] = ZAdd(@, 0, m)]
  /\ UNCHANGED <<now, delayed, inflight, lease, stats, held, pipe>>

EnqueueIfNotInflight(m) ==
  LET q == QueueOf[m.id] IN
  /\ ready' = IF InInflight(m.id) THEN ready
              ELSE [ready EXCEPT ![q] = ZAdd(@, Score(m), m)]
  /\ UNCHANGED <<now, delayed, inflight, lease, stats, held, pipe>>

\* Mutant: the inflight hash is left alone.
RemoveKeepsEntry(t) ==
  LET q == QueueOf[t]
      Others(z) == {e \in z : e.member.id # t} IN
  /\ lease' = [lease EXCEPT ![q] = ZRem(@, t)]
  /\ ready' = [ready EXCEPT ![q] = Others(@)]
  /\ delayed' = [delayed EXCEPT ![q] = Others(@)]
  /\ UNCHANGED <<now, inflight, stats, held, pipe>>

\* Every copy of the task, in all four structures.
Remove(t) ==
  LET q == QueueOf[t]
      Others(z) == {e \in z : e.member.id # t} IN
  /\ inflight' = [inflight EXCEPT ![q][t] = None]
  /\ lease' = [lease EXCEPT ![q] = ZRem(@, t)]
  /\ ready' = [ready EXCEPT ![q] = Others(@)]
  /\ delayed' = [delayed EXCEPT ![q] = Others(@)]
  /\ UNCHANGED <<now, stats, held, pipe>>

-----------------------------------------------------------------------------
(* The scheduler's loops.                                                  *)

\* Mutant: the due time stays the score.
PromoteUnscored(q) ==
  \E B \in ZRangeByScore(delayed[q], now, BatchSize) :
    /\ B # {}
    /\ ready' = [ready EXCEPT ![q] = {e \in @ : e.member \notin ZMembers(B)} \cup B]
    /\ delayed' = [delayed EXCEPT ![q] = @ \ B]
    /\ UNCHANGED <<now, inflight, lease, stats, held, pipe>>

PromoteDelayed(q) ==
  \E B \in ZRangeByScore(delayed[q], now, BatchSize) :
    LET D == ZMembers(B) IN
    /\ B # {}
    /\ ready' = [ready EXCEPT ![q] =
         {e \in @ : e.member \notin D} \cup {[member |-> m, score |-> Score(m)] : m \in D}]
    /\ delayed' = [delayed EXCEPT ![q] = @ \ B]
    /\ UNCHANGED <<now, inflight, lease, stats, held, pipe>>

\* Mutant: HGET asks the wrong hash, finds nothing and puts nothing back.
ReclaimWrongKey(q) ==
  \E B \in ZRangeByScore(lease[q], now, BatchSize) :
    /\ B # {}
    /\ lease' = [lease EXCEPT ![q] = @ \ B]
    /\ UNCHANGED <<now, ready, delayed, inflight, stats, held, pipe>>

(* Expired ids leave lease; those that still have an inflight entry go     *)
(* back to ready as the JSON that was dequeued.                            *)
ReclaimInflight(q) ==
  \E B \in ZRangeByScore(lease[q], now, BatchSize) :
    LET expired == ZMembers(B)
        D == {inflight[q][t] : t \in {u \in expired : inflight[q][u] # None}} IN
    /\ B # {}
    /\ lease' = [lease EXCEPT ![q] = @ \ B]
    /\ inflight' = [inflight EXCEPT ![q] =
         [t \in Tasks |-> IF t \in expired THEN None ELSE @[t]]]
    /\ ready' = [ready EXCEPT ![q] =
         {e \in @ : e.member \notin D} \cup {[member |-> m, score |-> Score(m)] : m \in D}]
    /\ UNCHANGED <<now, delayed, stats, held, pipe>>

-----------------------------------------------------------------------------
(* Consumers.                                                              *)

(* dequeueScript: pop from the first queue that is not empty, register in  *)
(* inflight, lease for the default time.                                   *)
Dequeue(c) ==
  \E i \in DOMAIN Subscribed[c] : \E e \in ZMin(ready[Subscribed[c][i]]) :
    LET q == Subscribed[c][i]
        m == e.member IN
    /\ \A j \in DOMAIN Subscribed[c] : j < i => ready[Subscribed[c][j]] = {}
    /\ held[c] = None /\ pipe[c] = NoPipe
    /\ ready' = [ready EXCEPT ![q] = @ \ {e}]
    /\ inflight' = [inflight EXCEPT ![q][m.id] = m]
    /\ lease' = [lease EXCEPT ![q] = ZAdd(@, now + DefaultVisibility, m.id)]
    /\ held' = [held EXCEPT ![c] = m]
    /\ pipe' = [pipe EXCEPT ![c] =
         IF Visibility[m.id] > DefaultVisibility
         THEN [cmd |-> "extend", kind |-> "extend", task |-> m, at |-> now + Visibility[m.id]]
         ELSE NoPipe]
    /\ UNCHANGED <<now, delayed, stats>>

\* The separate ZADD of the longer deadline, computed from the script's now.
ExtendLease(c) ==
  LET p == pipe[c] IN
  /\ p.cmd = "extend"
  /\ lease' = [lease EXCEPT ![QueueOf[p.task.id]] = ZAdd(@, p.at, p.task.id)]
  /\ pipe' = [pipe EXCEPT ![c] = NoPipe]
  /\ UNCHANGED <<now, ready, delayed, inflight, stats, held>>

\* Ack hands its three commands to the client library.
Ack(c) ==
  /\ held[c] # None /\ pipe[c] = NoPipe
  /\ pipe' = [pipe EXCEPT ![c] =
       [cmd |-> "hdel", kind |-> "completed", task |-> held[c], at |-> 0]]
  /\ UNCHANGED <<now, ready, delayed, inflight, lease, stats, held>>

(* Nack of the struct m in the client's memory.  The time of a retry is    *)
(* fixed when the pipeline is built.                                       *)
Nack(c, m) ==
  /\ held[c] # None /\ pipe[c] = NoPipe
  /\ \E d \in RetryDelays[m.id] \cup {0} :
       /\ (RetryDelays[m.id] # {}) => (d \in RetryDelays[m.id])
       /\ pipe' = [pipe EXCEPT ![c] =
            [cmd |-> "hdel",
             kind |-> IF ~CanRetry(m) THEN "failed"
                      ELSE IF RetryDelays[m.id] # {} THEN "retryAt" ELSE "retryNow",
             task |-> m, at |-> Later(now, d)]]
  /\ held' = [held EXCEPT ![c] = m]
  /\ UNCHANGED <<now, ready, delayed, inflight, lease, stats>>

ExecHDel(c) ==
  LET t == pipe[c].task.id IN
  /\ pipe[c].cmd = "hdel"
  /\ inflight' = [inflight EXCEPT ![QueueOf[t]][t] = None]
  /\ pipe' = [pipe EXCEPT ![c].cmd = "zrem"]
  /\ UNCHANGED <<now, ready, delayed, lease, stats, held>>

ExecZRem(c) ==
  LET t == pipe[c].task.id IN
  /\ pipe[c].cmd = "zrem"
  /\ lease' = [lease EXCEPT ![QueueOf[t]] = ZRem(@, t)]
  /\ pipe' = [pipe EXCEPT ![c].cmd = "last"]
  /\ UNCHANGED <<now, ready, delayed, inflight, stats, held>>

\* The last command: count, or put the task back.  The call returns.
ExecLast(c) ==
  LET p == pipe[c]
      q == QueueOf[p.task.id] IN
  /\ p.cmd = "last"
  /\ \/ /\ p.kind \in {"completed", "failed"}
        /\ stats' = HIncrBy(q, p.kind)
        /\ UNCHANGED <<ready, delayed>>
     \/ /\ p.kind = "retryAt"
        /\ delayed' = [delayed EXCEPT ![q] = ZAdd(@, p.at, p.task)]
        /\ UNCHANGED <<ready, stats>>
     \/ /\ p.kind = "retryNow"
        /\ ready' = [ready EXCEPT ![q] = ZAdd(@, Score(p.task), p.task)]
        /\ UNCHANGED <<delayed, stats>>
  /\ pipe' = [pipe EXCEPT ![c] = NoPipe]
  /\ held' = [held EXCEPT ![c] = None]
  /\ UNCHANGED <<now, inflight, lease>>

(* The client forgets its task and what it had not sent is not executed:   *)
(* its process died, the connection broke, the ZADD of Dequeue failed, or  *)
(* the worker returned without Ack or Nack.  The task stays in flight.     *)
Vanish(c) ==
  /\ held[c] # None
  /\ held' = [held EXCEPT ![c] = None]
  /\ pipe' = [pipe EXCEPT ![c] = NoPipe]
  /\ UNCHANGED <<now, ready, delayed, inflight, lease, stats>>

Tick ==
  /\ now < MaxTime
  /\ now' = now + 1
  /\ UNCHANGED <<ready, delayed, inflight, lease, stats, held, pipe>>

-----------------------------------------------------------------------------
(* The broker under arbitrary callers: any task may be submitted or        *)
(* compensated at any time, any cancellable one removed, and any holder    *)
(* may Ack, Nack or vanish.                                                *)

Copy(t, s) == [id |-> t, version |-> 1, retry |-> 0, stamp |-> s]

\* handleFailure counts the retry before Nack; the two Updates of an execution raised version.
Retried(m) == [m EXCEPT !.retry = @ + 1, !.version = @ + 2]

Produce(t) ==
  \/ IF Delay[t] > 0 THEN EnqueueDelayed(Copy(t, 0)) ELSE Enqueue(Copy(t, 0))
  \/ EnqueueIfNotInflight(Copy(t, 1))
  \/ t \in Cancellable /\ Remove(t)

Exec(c) == ExecHDel(c) \/ ExecZRem(c) \/ ExecLast(c)

Consume(c) ==
  \/ Dequeue(c)
  \/ ExtendLease(c)
  \/ Ack(c)
  \/ held[c] # None /\ held[c].retry < MaxRetries[held[c].id] /\ Nack(c, Retried(held[c]))
  \/ Exec(c)
  \/ Vanish(c)

BrokerNext ==
  \/ \E t \in Tasks : Produce(t)
  \/ \E q \in Queues : PromoteDelayed(q) \/ ReclaimInflight(q)
  \/ \E c \in Clients : Consume(c)
  \/ Tick

BrokerSpec == BrokerInit /\ [][BrokerNext]_brokerVars

-----------------------------------------------------------------------------
(* Properties.                                                             *)

SortedSet(z) == \A e, f \in z : e.member = f.member => e = f

(* Types, and every sorted set has one score per member, that of ready     *)
(* being the priority of the task.                                         *)
BrokerTypeOK ==
  /\ now \in Nat
  /\ ready \in [Queues -> SUBSET [member : Member, score : Int]]
  /\ delayed \in [Queues -> SUBSET [member : Member, score : Nat]]
  /\ inflight \in [Queues -> [Tasks -> Member \cup {None}]]
  /\ lease \in [Queues -> SUBSET [member : Tasks, score : Nat]]
  /\ stats \in [Queues -> [Counters -> 0..MaxStat]]
  /\ held \in [Clients -> Member \cup {None}]
  /\ pipe \in [Clients -> Pipeline]
  /\ \A q \in Queues : SortedSet(delayed[q]) /\ SortedSet(lease[q])
  /\ \A q \in Queues : \A e \in ready[q] : e.score = Score(e.member)

Leased(t) == t \in ZMembers(lease[QueueOf[t]])

(* The comment of dequeueScript: inflight and lease are kept together, so  *)
(* that the reclaim loop finds every inflight entry.                       *)
InflightLeased == \A t \in Tasks : InInflight(t) => Leased(t)

(* A client has sent HDEL of its Ack or Nack and not yet ZREM, and another *)
(* one has the same task in its hands.                                     *)
Overtaken ==
  \E c, d \in Clients : /\ c # d /\ pipe[c].cmd = "zrem"
                        /\ held[d] # None /\ held[d].id = pipe[c].task.id

(* What is left of InflightLeased with pipelines that Redis does not run   *)
(* atomically: as long as no client holds a task while another one is      *)
(* between HDEL and ZREM of it, every inflight entry has a lease, whoever  *)
(* vanished at which command and whatever was reclaimed, compensated,      *)
(* retried or removed in between.                                          *)
LeasedUnlessOvertaken == []~Overtaken => []InflightLeased

InReady(t) == \E m \in ZMembers(ready[QueueOf[t]]) : m.id = t
InDelayed(t) == \E m \in ZMembers(delayed[QueueOf[t]]) : m.id = t
InRetry(t) ==
  \E c \in Clients : /\ Started(c)
                     /\ pipe[c].kind \in {"retryAt", "retryNow"}
                     /\ pipe[c].task.id = t

\* Somebody will still deliver the task.
Tracked(t) ==
  InReady(t) \/ InDelayed(t) \/ (InInflight(t) /\ Leased(t)) \/ InRetry(t)

\* A client that is done with the task drops its inflight entry.
Settles(t) ==
  \E c \in Clients : /\ pipe[c].cmd = "hdel" /\ pipe'[c].cmd = "zrem"
                     /\ pipe[c].kind \in {"completed", "failed"}
                     /\ pipe[c].task.id = t

\* A client vanishes between HDEL and the last command of a retry.
Breaks(t) ==
  \E c \in Clients : /\ Started(c) /\ pipe'[c] = NoPipe
                     /\ pipe[c].kind \in {"retryAt", "retryNow"}
                     /\ pipe[c].task.id = t
                     /\ UNCHANGED <<ready, delayed>>

\* ZREM of an Ack or Nack takes the lease of an entry that came after its HDEL.
TakesLease(t) ==
  \E c \in Clients : /\ pipe[c].cmd = "zrem" /\ pipe'[c].cmd = "last"
                     /\ pipe[c].task.id = t
                     /\ InInflight(t)

KnownLoss(t) ==
  Settles(t) \/ (t \in Cancellable /\ Remove(t)) \/ Breaks(t) \/ TakesLease(t)

(* The ways in which the queue loses a task, and there is no other: after  *)
(* any step a task that would be delivered still will be, unless a client  *)
(* acknowledges it or gives it up, the API removes a task its user         *)
(* cancelled, the connection of a retry breaks after HDEL, or the ZREM of  *)
(* an overtaken pipeline takes the lease of a later delivery.              *)
LossesKnown == [][\A t \in Tasks : Tracked(t) /\ ~Tracked(t)' => KnownLoss(t)]_brokerVars
=============================================================================
