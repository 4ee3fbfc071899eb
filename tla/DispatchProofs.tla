--------------------------- MODULE DispatchProofs ---------------------------
(***************************************************************************)
(* The broker, and over it and the table the API server, the workers and   *)
(* the scheduler, for any tasks, queues, clients, handlers, failures and   *)
(* clock.                                                                  *)
(*                                                                         *)
(* The broker first: it keeps its types; as long as no client overtakes a  *)
(* pipeline of another, every inflight entry has a lease; and the ways to  *)
(* lose a task are the four of KnownLoss.  The steps are those of any      *)
(* callers that provide tasks, make each client's calls in turn and may    *)
(* forget clients (CallerStep), of which the free callers of BrokerSpec    *)
(* and the whole system are instances.  The end of that part follows the   *)
(* copies of one task through the calls.                                   *)
(*                                                                         *)
(* Then the system: the types, and with them that every step is one of the *)
(* calls CallerStep allows, which carries over what is proved of the       *)
(* broker.  Then the table.  The optimistic lock is all that orders the    *)
(* writers, so the invariants speak of versions: every attempt raises the  *)
(* version of its row twice, and what a copy or a struct may still write   *)
(* follows from the version it carries (Attempts, Stages).  Then           *)
(* cancellation (CancelInv), and last that no attempt that has begun is    *)
(* forgotten (Begun).                                                      *)
(***************************************************************************)
EXTENDS Dispatch, TLAPS

(* Redis commands on a sorted set.                                         *)
Entries(M, S) == [member : M, score : S]

(* ZADD keeps the types, and one score per member.                         *)
LEMMA ZAddType ==
  ASSUME NEW M, NEW S, NEW z \in SUBSET Entries(M, S), NEW m \in M, NEW s \in S
  PROVE  ZAdd(z, s, m) \in SUBSET Entries(M, S) /\ (SortedSet(z) => SortedSet(ZAdd(z, s, m)))
  BY DEF ZAdd, Entries, SortedSet

(* Removing entries keeps the types, and one score per member.             *)
LEMMA SubsetType ==
  ASSUME NEW M, NEW S, NEW z \in SUBSET Entries(M, S), NEW y \in SUBSET z
  PROVE  y \in SUBSET Entries(M, S) /\ (SortedSet(z) => SortedSet(y))
  BY DEF SortedSet

(* ZREM only removes.                                                      *)
LEMMA ZRemSubset == ASSUME NEW z, NEW m PROVE ZRem(z, m) \in SUBSET z
  BY DEF ZRem

(* The members are those of the entries.                                   *)
LEMMA MembersOf == \A z, m : m \in ZMembers(z) <=> \E e \in z : e.member = m
  BY DEF ZMembers

(* After ZADD of one member the others are the members there were.         *)
LEMMA ZAddMembers ==
  ASSUME NEW z, NEW s, NEW m PROVE ZMembers(ZAdd(z, s, m)) = ZMembers(z) \cup {m}
<1>1. ASSUME NEW x \in ZMembers(z) PROVE x \in ZMembers(ZAdd(z, s, m))
  <2>1. PICK e \in z : e.member = x
    BY DEF ZMembers
  <2>2. CASE x # m
    BY <2>1, <2>2 DEF ZAdd, ZMembers
  <2>3. CASE x = m
    BY <2>3 DEF ZAdd, ZMembers
  <2> QED
    BY <2>2, <2>3
<1>2. m \in ZMembers(ZAdd(z, s, m))
  <2>1. [member |-> m, score |-> s] \in ZAdd(z, s, m) /\ [member |-> m, score |-> s].member = m
    BY DEF ZAdd
  <2> QED
    BY <2>1 DEF ZMembers
<1>3. ASSUME NEW x \in ZMembers(ZAdd(z, s, m)) PROVE x \in ZMembers(z) \cup {m}
  BY DEF ZAdd, ZMembers
<1> QED
  BY <1>1, <1>2, <1>3

(* Putting several members on a ready list keeps those that are there.     *)
LEMMA AddAllMembers ==
  ASSUME NEW z, NEW D
  PROVE  ZMembers(z) \cup D \subseteq
           ZMembers({e \in z : e.member \notin D} \cup {[member |-> m, score |-> Score(m)] : m \in D})
<1> DEFINE y == {e \in z : e.member \notin D} \cup {[member |-> m, score |-> Score(m)] : m \in D}
<1>1. ASSUME NEW m \in D PROVE m \in ZMembers(y)
  <2>1. [member |-> m, score |-> Score(m)] \in y /\ [member |-> m, score |-> Score(m)].member = m
    OBVIOUS
  <2> QED
    BY <2>1, MembersOf
<1>2. ASSUME NEW m \in ZMembers(z), m \notin D PROVE m \in ZMembers(y)
  <2>1. PICK e \in z : e.member = m
    BY MembersOf
  <2>2. e \in y
    BY <1>2, <2>1
  <2> QED
    BY <2>1, <2>2, MembersOf
<1> QED
  BY <1>1, <1>2

(* A member put on a ready list has the score of its priority.             *)
LEMMA ScoreType == ASSUME NEW m \in Member PROVE m.id \in Tasks /\ QueueOf[m.id] \in Queues /\ Score(m) \in Int
  BY TaskAssumption DEF Score, Member

(* Due times are natural numbers.                                          *)
LEMMA LaterType == ASSUME NEW t \in Nat, NEW d \in Nat PROVE Later(t, d) \in Nat
  BY BrokerAssumption DEF Later

(* The counters keep their range.                                          *)
LEMMA StatsType ==
  ASSUME stats \in [Queues -> [Counters -> 0..MaxStat]], NEW q \in Queues, NEW f \in Counters
  PROVE  HIncrBy(q, f) \in [Queues -> [Counters -> 0..MaxStat]]
<1>1. stats[q] \in [Counters -> 0..MaxStat]
  OBVIOUS
<1>2. stats[q][f] \in 0..MaxStat
  BY <1>1
<1>3. (IF stats[q][f] < MaxStat THEN stats[q][f] + 1 ELSE stats[q][f]) \in 0..MaxStat
  BY <1>2, BrokerAssumption
<1>4. [stats[q] EXCEPT ![f] = IF stats[q][f] < MaxStat THEN stats[q][f] + 1 ELSE stats[q][f]]
        \in [Counters -> 0..MaxStat]
  BY <1>1, <1>3
<1> QED
  BY <1>4 DEF HIncrBy

-----------------------------------------------------------------------------
(* The type invariant, one part per variable.                              *)

ReadyOK(z) == z \in SUBSET Entries(Member, Int) /\ \A e \in z : e.score = Score(e.member)
DelayedOK(z) == z \in SUBSET Entries(Member, Nat) /\ SortedSet(z)
LeaseOK(z) == z \in SUBSET Entries(Tasks, Nat) /\ SortedSet(z)

ReadyT == ready \in [Queues -> SUBSET Entries(Member, Int)] /\ \A q \in Queues : ReadyOK(ready[q])
DelayedT == delayed \in [Queues -> SUBSET Entries(Member, Nat)] /\ \A q \in Queues : DelayedOK(delayed[q])
LeaseT == lease \in [Queues -> SUBSET Entries(Tasks, Nat)] /\ \A q \in Queues : LeaseOK(lease[q])
InflightT == inflight \in [Queues -> [Tasks -> Member \cup {None}]]
StatsT == stats \in [Queues -> [Counters -> 0..MaxStat]]
HeldT == held \in [Clients -> Member \cup {None}]

(* A client with something left to send knows the task it is about.        *)
PipeT == /\ pipe \in [Clients -> Pipeline]
         /\ \A c \in Clients : pipe[c].cmd # "none" => pipe[c].task \in Member

Types == now \in Nat /\ ReadyT /\ DelayedT /\ LeaseT /\ InflightT /\ StatsT /\ HeldT /\ PipeT

(* The parts make up BrokerTypeOK.                                         *)
LEMMA TypesAre == Types => BrokerTypeOK
  BY DEF Types, BrokerTypeOK, ReadyT, DelayedT, LeaseT, InflightT, StatsT, HeldT, PipeT,
     ReadyOK, DelayedOK, LeaseOK, Entries

(* Initially.                                                              *)
LEMMA InitTypes == BrokerInit => Types
<1> SUFFICES ASSUME BrokerInit PROVE Types
  OBVIOUS
<1>1. now \in Nat /\ ReadyT /\ DelayedT /\ LeaseT
  BY DEF BrokerInit, ReadyT, DelayedT, LeaseT, ReadyOK, DelayedOK, LeaseOK, SortedSet
<1>2. InflightT /\ StatsT /\ HeldT
  BY BrokerAssumption DEF BrokerInit, InflightT, StatsT, HeldT
<1>3. PipeT
  BY DEF BrokerInit, PipeT, Pipeline, NoPipe, Cmds, Kinds
<1> QED
  BY <1>1, <1>2, <1>3 DEF Types

(* Updates of one queue's part.                                            *)
LEMMA ReadyUpdate ==
  ASSUME ReadyT, NEW q \in Queues, NEW z, ReadyOK(z), ready' = [ready EXCEPT ![q] = z]
  PROVE  ReadyT'
  BY DEF ReadyT, ReadyOK

(* Updates of one queue's part.                                            *)
LEMMA DelayedUpdate ==
  ASSUME DelayedT, NEW q \in Queues, NEW z, DelayedOK(z), delayed' = [delayed EXCEPT ![q] = z]
  PROVE  DelayedT'
  BY DEF DelayedT, DelayedOK

(* Updates of one queue's part.                                            *)
LEMMA LeaseUpdate ==
  ASSUME LeaseT, NEW q \in Queues, NEW z, LeaseOK(z), lease' = [lease EXCEPT ![q] = z]
  PROVE  LeaseT'
  BY DEF LeaseT, LeaseOK

(* Updates of one hash entry.                                              *)
LEMMA InflightUpdate ==
  ASSUME InflightT, NEW q \in Queues, NEW t \in Tasks, NEW v \in Member \cup {None},
         inflight' = [inflight EXCEPT ![q][t] = v]
  PROVE  InflightT'
  BY DEF InflightT

(* Updates of one client's pipeline.                                       *)
LEMMA PipeUpdate ==
  ASSUME PipeT, NEW c \in Clients, NEW p \in Pipeline, p.cmd # "none" => p.task \in Member,
         pipe' = [pipe EXCEPT ![c] = p]
  PROVE  PipeT'
  BY DEF PipeT

(* ZADD of a ready member.                                                 *)
LEMMA ReadyAdd ==
  ASSUME NEW z, ReadyOK(z), NEW m \in Member PROVE ReadyOK(ZAdd(z, Score(m), m))
<1>1. Score(m) \in Int
  BY ScoreType
<1> QED
  BY <1>1 DEF ReadyOK, ZAdd, Entries

(* ZADD of several ready members at once.                                  *)
LEMMA ReadyAddAll ==
  ASSUME NEW z, ReadyOK(z), NEW D \in SUBSET Member
  PROVE  ReadyOK({e \in z : e.member \notin D} \cup {[member |-> m, score |-> Score(m)] : m \in D})
<1>1. \A m \in D : Score(m) \in Int
  BY ScoreType
<1> QED
  BY <1>1 DEF ReadyOK, Entries

(* The copies that Produce enqueues.                                       *)
LEMMA CopyType == ASSUME NEW t \in Tasks, NEW s \in Nat PROVE Copy(t, s) \in Member /\ Copy(t, s).id = t
  BY DEF Copy, Member

(* Enqueue and the compensation's enqueue keep the types.                  *)
LEMMA EnqueueTypes ==
  ASSUME Types, NEW m \in Member, Enqueue(m) \/ EnqueueIfNotInflight(m) PROVE Types'
<1>1. m.id \in Tasks /\ QueueOf[m.id] \in Queues
  BY ScoreType
<1>2. ReadyOK(ready[QueueOf[m.id]])
  BY <1>1 DEF Types, ReadyT
<1>3. ReadyOK(ZAdd(ready[QueueOf[m.id]], Score(m), m))
  BY <1>2, ReadyAdd
<1>4. \/ ready' = [ready EXCEPT ![QueueOf[m.id]] = ZAdd(ready[QueueOf[m.id]], Score(m), m)]
      \/ ready' = ready
  BY DEF Enqueue, EnqueueIfNotInflight
<1>5. ReadyT'
  <2>1. CASE ready' = ready
    BY <2>1 DEF Types, ReadyT
  <2> QED
    BY <1>1, <1>3, <1>4, <2>1, ReadyUpdate DEF Types
<1>6. StatsT'
  BY <1>1, StatsType DEF Types, StatsT, Enqueue, EnqueueIfNotInflight, Counters
<1>7. UNCHANGED <<now, delayed, inflight, lease, held, pipe>>
  BY DEF Enqueue, EnqueueIfNotInflight
<1> QED
  BY <1>5, <1>6, <1>7 DEF Types, DelayedT, LeaseT, InflightT, HeldT, PipeT

(* EnqueueDelayed keeps the types.                                         *)
LEMMA EnqueueDelayedTypes == ASSUME Types, NEW m \in Member, EnqueueDelayed(m) PROVE Types'
<1>1. m.id \in Tasks /\ QueueOf[m.id] \in Queues
  BY ScoreType
<1>2. Later(now, Delay[m.id]) \in Nat
  BY <1>1, LaterType, TaskAssumption DEF Types
<1>3. DelayedOK(ZAdd(delayed[QueueOf[m.id]], Later(now, Delay[m.id]), m))
  BY <1>1, <1>2, ZAddType DEF Types, DelayedT, DelayedOK
<1>4. DelayedT'
  BY <1>1, <1>3, DelayedUpdate DEF Types, EnqueueDelayed
<1>5. UNCHANGED <<now, ready, inflight, lease, stats, held, pipe>>
  BY DEF EnqueueDelayed
<1> QED
  BY <1>4, <1>5 DEF Types, ReadyT, LeaseT, InflightT, StatsT, HeldT, PipeT

(* Remove keeps the types.                                                 *)
LEMMA RemoveTypes == ASSUME Types, NEW t \in Tasks, Remove(t) PROVE Types'
<1> DEFINE q == QueueOf[t]
           Others(z) == {e \in z : e.member.id # t}
<1>1. q \in Queues
  BY TaskAssumption
<1>2. InflightT'
  BY <1>1, InflightUpdate DEF Types, Remove
<1>3. LeaseT'
  <2>1. LeaseOK(ZRem(lease[q], t))
    BY <1>1, ZRemSubset, SubsetType DEF Types, LeaseT, LeaseOK
  <2> QED
    BY <1>1, <2>1, LeaseUpdate DEF Types, Remove
<1>4. ReadyT'
  <2>1. ReadyOK(Others(ready[q]))
    BY <1>1 DEF Types, ReadyT, ReadyOK
  <2> QED
    BY <1>1, <2>1, ReadyUpdate DEF Types, Remove
<1>5. DelayedT'
  <2>1. DelayedOK(Others(delayed[q]))
    BY <1>1, SubsetType DEF Types, DelayedT, DelayedOK
  <2> QED
    BY <1>1, <2>1, DelayedUpdate DEF Types, Remove
<1>6. UNCHANGED <<now, stats, held, pipe>>
  BY DEF Remove
<1> QED
  BY <1>2, <1>3, <1>4, <1>5, <1>6 DEF Types, StatsT, HeldT, PipeT

(* PromoteDelayed keeps the types.                                         *)
LEMMA PromoteTypes == ASSUME Types, NEW q \in Queues, PromoteDelayed(q) PROVE Types'
<1>1. PICK B \in ZRangeByScore(delayed[q], now, BatchSize) :
        /\ ready' = [ready EXCEPT ![q] = {e \in ready[q] : e.member \notin ZMembers(B)}
                       \cup {[member |-> m, score |-> Score(m)] : m \in ZMembers(B)}]
        /\ delayed' = [delayed EXCEPT ![q] = delayed[q] \ B]
        /\ UNCHANGED <<now, inflight, lease, stats, held, pipe>>
  BY DEF PromoteDelayed
<1>2. B \in SUBSET delayed[q]
  BY DEF ZRangeByScore
<1>3. ZMembers(B) \in SUBSET Member
  BY <1>2 DEF ZMembers, Types, DelayedT, Entries
<1>4. ReadyT'
  BY <1>1, <1>3, ReadyAddAll, ReadyUpdate DEF Types, ReadyT
<1>5. DelayedT'
  <2>1. DelayedOK(delayed[q] \ B)
    BY SubsetType DEF Types, DelayedT, DelayedOK
  <2> QED
    BY <1>1, <2>1, DelayedUpdate DEF Types
<1> QED
  BY <1>1, <1>4, <1>5 DEF Types, LeaseT, InflightT, StatsT, HeldT, PipeT

(* What ReclaimInflight does with the batch B of expired leases.           *)
Reclaims(q, B) ==
  LET D == {inflight[q][t] : t \in {u \in ZMembers(B) : inflight[q][u] # None}} IN
  /\ B \in SUBSET lease[q]
  /\ lease' = [lease EXCEPT ![q] = lease[q] \ B]
  /\ inflight' = [inflight EXCEPT ![q] = [t \in Tasks |-> IF t \in ZMembers(B) THEN None ELSE inflight[q][t]]]
  /\ ready' = [ready EXCEPT ![q] = {e \in ready[q] : e.member \notin D}
                 \cup {[member |-> m, score |-> Score(m)] : m \in D}]
  /\ UNCHANGED <<now, delayed, stats, held, pipe>>

(* ReclaimInflight reclaims some batch.                                    *)
LEMMA ReclaimPicks == ASSUME NEW q, ReclaimInflight(q) PROVE \E B : Reclaims(q, B)
  BY DEF ReclaimInflight, Reclaims, ZRangeByScore

(* ReclaimInflight keeps the types.                                        *)
LEMMA ReclaimTypes == ASSUME Types, NEW q \in Queues, ReclaimInflight(q) PROVE Types'
<1>1. PICK B : Reclaims(q, B)
  BY ReclaimPicks
<1> DEFINE D == {inflight[q][t] : t \in {u \in ZMembers(B) : inflight[q][u] # None}}
<1>2. ZMembers(B) \in SUBSET Tasks
  BY <1>1 DEF Reclaims, ZMembers, Types, LeaseT, Entries
<1>3. D \in SUBSET Member
  BY <1>2 DEF Types, InflightT
<1>4. ReadyT'
  <2>1. ReadyOK({e \in ready[q] : e.member \notin D} \cup {[member |-> m, score |-> Score(m)] : m \in D})
    BY <1>3, ReadyAddAll DEF Types, ReadyT
  <2> QED
    BY <1>1, <2>1, ReadyUpdate DEF Types, Reclaims
<1>5. LeaseT'
  <2>1. LeaseOK(lease[q] \ B)
    BY SubsetType DEF Types, LeaseT, LeaseOK
  <2> QED
    BY <1>1, <2>1, LeaseUpdate DEF Types, Reclaims
<1>6. InflightT'
  <2>1. [t \in Tasks |-> IF t \in ZMembers(B) THEN None ELSE inflight[q][t]] \in [Tasks -> Member \cup {None}]
    BY DEF Types, InflightT
  <2> QED
    BY <1>1, <2>1 DEF Types, InflightT, Reclaims
<1>7. UNCHANGED <<now, delayed, stats, held, pipe>>
  BY <1>1 DEF Reclaims
<1> QED
  BY <1>4, <1>5, <1>6, <1>7 DEF Types, DelayedT, StatsT, HeldT, PipeT

(* What Dequeue does with the entry e of queue q.                          *)
Dequeues(c, q, e) ==
  /\ e \in ready[q]
  /\ held[c] = None /\ pipe[c] = NoPipe
  /\ ready' = [ready EXCEPT ![q] = @ \ {e}]
  /\ inflight' = [inflight EXCEPT ![q][e.member.id] = e.member]
  /\ lease' = [lease EXCEPT ![q] = ZAdd(@, now + DefaultVisibility, e.member.id)]
  /\ held' = [held EXCEPT ![c] = e.member]
  /\ pipe' = [pipe EXCEPT ![c] =
       IF Visibility[e.member.id] > DefaultVisibility
       THEN [cmd |-> "extend", kind |-> "extend", task |-> e.member,
             at |-> now + Visibility[e.member.id]]
       ELSE NoPipe]
  /\ UNCHANGED <<now, delayed, stats>>

(* Dequeue takes some entry of some queue.                                 *)
LEMMA DequeuePicks ==
  ASSUME NEW c \in Clients, Dequeue(c) PROVE \E q \in Queues : \E e \in ready[q] : Dequeues(c, q, e)
<1>1. PICK i \in DOMAIN Subscribed[c] : \E e \in ready[Subscribed[c][i]] : Dequeues(c, Subscribed[c][i], e)
  BY DEF Dequeue, Dequeues, ZMin
<1>2. Subscribed[c][i] \in Queues
  BY BrokerAssumption
<1> QED
  BY <1>1, <1>2

(* Dequeue keeps the types.                                                *)
LEMMA DequeueTypes == ASSUME Types, NEW c \in Clients, Dequeue(c) PROVE Types'
<1>1. PICK q \in Queues : \E e \in ready[q] : Dequeues(c, q, e)
  BY DequeuePicks
<1>2. PICK e \in ready[q] : Dequeues(c, q, e)
  BY <1>1
<1> DEFINE m == e.member
<1>3. m \in Member /\ m.id \in Tasks
  <2>1. e \in Entries(Member, Int)
    BY DEF Types, ReadyT
  <2> QED
    BY <2>1, ScoreType DEF Entries
<1>4. now + DefaultVisibility \in Nat /\ now + Visibility[m.id] \in Nat
  BY <1>3, BrokerAssumption DEF Types
<1>5. ReadyT'
  <2>1. ReadyOK(ready[q] \ {e})
    BY DEF Types, ReadyT, ReadyOK
  <2> QED
    BY <1>2, <2>1, ReadyUpdate DEF Types, Dequeues
<1>6. InflightT'
  BY <1>2, <1>3, InflightUpdate DEF Types, Dequeues
<1>7. LeaseT'
  <2>1. LeaseOK(ZAdd(lease[q], now + DefaultVisibility, m.id))
    BY <1>3, <1>4, ZAddType DEF Types, LeaseT, LeaseOK
  <2> QED
    BY <1>2, <2>1, LeaseUpdate DEF Types, Dequeues
<1>8. HeldT'
  BY <1>2, <1>3 DEF Types, HeldT, Dequeues
<1>9. PipeT'
  <2>1. [cmd |-> "extend", kind |-> "extend", task |-> m, at |-> now + Visibility[m.id]] \in Pipeline
    BY <1>3, <1>4 DEF Pipeline, Cmds, Kinds
  <2>2. NoPipe \in Pipeline /\ NoPipe.cmd = "none"
    BY DEF NoPipe, Pipeline, Cmds, Kinds
  <2> QED
    BY <1>2, <1>3, <2>1, <2>2, PipeUpdate DEF Types, Dequeues
<1> QED
  BY <1>2, <1>5, <1>6, <1>7, <1>8, <1>9 DEF Types, Dequeues, DelayedT, StatsT

(* The task of a pipeline that is under way.                               *)
LEMMA PipeTask ==
  ASSUME Types, NEW c \in Clients, pipe[c].cmd # "none"
  PROVE  /\ pipe[c] \in Pipeline /\ pipe[c].task \in Member /\ pipe[c].at \in Nat
         /\ pipe[c].task.id \in Tasks /\ QueueOf[pipe[c].task.id] \in Queues
<1>1. pipe[c] \in Pipeline /\ pipe[c].task \in Member
  BY DEF Types, PipeT
<1> QED
  BY <1>1, ScoreType DEF Pipeline

(* No pipeline at all is a pipeline.                                       *)
LEMMA NoPipeType == NoPipe \in Pipeline /\ NoPipe.cmd = "none"
  BY DEF NoPipe, Pipeline, Cmds, Kinds

(* The second half of Dequeue keeps the types.                             *)
LEMMA ExtendTypes == ASSUME Types, NEW c \in Clients, ExtendLease(c) PROVE Types'
<1>1. pipe[c].cmd # "none"
  BY DEF ExtendLease
<1>2. LeaseT'
  <2>1. LeaseOK(ZAdd(lease[QueueOf[pipe[c].task.id]], pipe[c].at, pipe[c].task.id))
    BY <1>1, PipeTask, ZAddType DEF Types, LeaseT, LeaseOK
  <2> QED
    BY <1>1, <2>1, PipeTask, LeaseUpdate DEF Types, ExtendLease
<1>3. PipeT'
  BY NoPipeType, PipeUpdate DEF Types, ExtendLease
<1>4. UNCHANGED <<now, ready, delayed, inflight, stats, held>>
  BY DEF ExtendLease
<1> QED
  BY <1>2, <1>3, <1>4 DEF Types, ReadyT, DelayedT, InflightT, StatsT, HeldT

(* The start of an Ack keeps the types.                                    *)
LEMMA AckTypes == ASSUME Types, NEW c \in Clients, Ack(c) PROVE Types'
<1>1. held[c] \in Member
  BY DEF Ack, Types, HeldT
<1>2. [cmd |-> "hdel", kind |-> "completed", task |-> held[c], at |-> 0] \in Pipeline
  BY <1>1 DEF Pipeline, Cmds, Kinds
<1>3. PipeT'
  BY <1>1, <1>2, PipeUpdate DEF Types, Ack
<1>4. UNCHANGED <<now, ready, delayed, inflight, lease, stats, held>>
  BY DEF Ack
<1> QED
  BY <1>3, <1>4 DEF Types, ReadyT, DelayedT, LeaseT, InflightT, StatsT, HeldT

(* The start of a Nack keeps the types.                                    *)
LEMMA NackTypes == ASSUME Types, NEW c \in Clients, NEW m \in Member, Nack(c, m) PROVE Types'
<1> DEFINE P(d) == [cmd |-> "hdel",
                    kind |-> IF ~CanRetry(m) THEN "failed"
                             ELSE IF RetryDelays[m.id] # {} THEN "retryAt" ELSE "retryNow",
                    task |-> m, at |-> Later(now, d)]
<1>1. PICK d \in RetryDelays[m.id] \cup {0} : pipe' = [pipe EXCEPT ![c] = P(d)]
  BY DEF Nack
<1>2. d \in Nat
  BY ScoreType, BrokerAssumption
<1>3. Later(now, d) \in Nat
  BY <1>2, LaterType DEF Types
<1>4. P(d) \in Pipeline /\ P(d).task \in Member
  BY <1>3 DEF Pipeline, Cmds, Kinds
<1>5. PipeT'
  BY <1>1, <1>4, PipeUpdate DEF Types
<1>6. HeldT'
  BY DEF Nack, Types, HeldT
<1>7. UNCHANGED <<now, ready, delayed, inflight, lease, stats>>
  BY DEF Nack
<1> QED
  BY <1>5, <1>6, <1>7 DEF Types, ReadyT, DelayedT, LeaseT, InflightT, StatsT

(* A pipeline moves to its next command.                                   *)
LEMMA NextCmd ==
  ASSUME Types, NEW c \in Clients, pipe[c].cmd # "none", NEW x \in {"zrem", "last"},
         pipe' = [pipe EXCEPT ![c].cmd = x]
  PROVE  PipeT'
<1>1. [pipe[c] EXCEPT !.cmd = x] \in Pipeline
  BY PipeTask DEF Pipeline, Cmds
<1>2. [pipe[c] EXCEPT !.cmd = x].task = pipe[c].task
  BY PipeTask DEF Pipeline
<1>3. pipe' = [pipe EXCEPT ![c] = [pipe[c] EXCEPT !.cmd = x]]
  OBVIOUS
<1> QED
  BY <1>1, <1>2, <1>3, PipeTask, PipeUpdate DEF Types

(* The first two commands of a pipeline keep the types.                    *)
LEMMA ExecRemTypes == ASSUME Types, NEW c \in Clients, ExecHDel(c) \/ ExecZRem(c) PROVE Types'
<1> DEFINE t == pipe[c].task.id
<1>1. pipe[c].cmd # "none" /\ PipeT'
  BY NextCmd DEF ExecHDel, ExecZRem
<1>2. t \in Tasks /\ QueueOf[t] \in Queues
  BY <1>1, PipeTask
<1>3. CASE ExecHDel(c)
  <2>1. InflightT'
    BY <1>2, <1>3, InflightUpdate DEF Types, ExecHDel
  <2>2. UNCHANGED <<now, ready, delayed, lease, stats, held>>
    BY <1>3 DEF ExecHDel
  <2> QED
    BY <1>1, <2>1, <2>2 DEF Types, ReadyT, DelayedT, LeaseT, StatsT, HeldT
<1>4. CASE ExecZRem(c)
  <2>1. LeaseOK(ZRem(lease[QueueOf[t]], t))
    BY <1>2, ZRemSubset, SubsetType DEF Types, LeaseT, LeaseOK
  <2>2. LeaseT'
    BY <1>2, <1>4, <2>1, LeaseUpdate DEF Types, ExecZRem
  <2>3. UNCHANGED <<now, ready, delayed, inflight, stats, held>>
    BY <1>4 DEF ExecZRem
  <2> QED
    BY <1>1, <2>2, <2>3 DEF Types, ReadyT, DelayedT, InflightT, StatsT, HeldT
<1> QED
  BY <1>3, <1>4

(* The last command of a pipeline keeps the types.                         *)
LEMMA ExecLastTypes == ASSUME Types, NEW c \in Clients, ExecLast(c) PROVE Types'
<1> DEFINE m == pipe[c].task
           q == QueueOf[m.id]
<1>1. m \in Member /\ m.id \in Tasks /\ q \in Queues /\ pipe[c].at \in Nat
  BY PipeTask DEF ExecLast
<1>2. PipeT'
  BY NoPipeType, PipeUpdate DEF Types, ExecLast
<1>3. HeldT'
  BY DEF ExecLast, Types, HeldT
<1>4. UNCHANGED <<now, inflight, lease>>
  BY DEF ExecLast
<1>5. ReadyT'
  <2>1. ReadyOK(ZAdd(ready[q], Score(m), m))
    BY <1>1, ReadyAdd DEF Types, ReadyT
  <2>2. ready' = ready \/ ready' = [ready EXCEPT ![q] = ZAdd(ready[q], Score(m), m)]
    BY DEF ExecLast
  <2>3. CASE ready' = ready
    BY <2>3 DEF Types, ReadyT
  <2> QED
    BY <1>1, <2>1, <2>2, <2>3, ReadyUpdate DEF Types
<1>6. DelayedT'
  <2>1. DelayedOK(ZAdd(delayed[q], pipe[c].at, m))
    BY <1>1, ZAddType DEF Types, DelayedT, DelayedOK
  <2>2. delayed' = delayed \/ delayed' = [delayed EXCEPT ![q] = ZAdd(delayed[q], pipe[c].at, m)]
    BY DEF ExecLast
  <2>3. CASE delayed' = delayed
    BY <2>3 DEF Types, DelayedT
  <2> QED
    BY <1>1, <2>1, <2>2, <2>3, DelayedUpdate DEF Types
<1>7. StatsT'
  <2>1. \/ stats' = stats
        \/ pipe[c].kind \in {"completed", "failed"} /\ stats' = HIncrBy(q, pipe[c].kind)
    BY DEF ExecLast
  <2> QED
    BY <1>1, <2>1, StatsType DEF Types, StatsT, Counters
<1> QED
  BY <1>2, <1>3, <1>4, <1>5, <1>6, <1>7 DEF Types, LeaseT, InflightT

(***************************************************************************)
(* What callers may do to the broker.  BrokerNext enqueues and retries     *)
(* certain copies only; the proofs need no more than that they are copies. *)
(* Stated this way they also hold for the callers of module Dispatch, whose *)
(* clients may vanish together and write new versions into their structs.  *)
(***************************************************************************)
Provide(m) == Enqueue(m) \/ EnqueueDelayed(m) \/ EnqueueIfNotInflight(m)

Revise(c, m) ==
  /\ held' = [held EXCEPT ![c] = m]
  /\ UNCHANGED <<now, ready, delayed, inflight, lease, stats, pipe>>

Calls(c) ==
  \/ Dequeue(c) \/ ExtendLease(c) \/ Ack(c) \/ Exec(c)
  \/ \E m \in Member : Nack(c, m) \/ Revise(c, m)

Forget(G) ==
  /\ held' = [c \in Clients |-> IF c \in G THEN None ELSE held[c]]
  /\ pipe' = [c \in Clients |-> IF c \in G THEN NoPipe ELSE pipe[c]]
  /\ UNCHANGED <<now, ready, delayed, inflight, lease, stats>>

\* Every call but Remove.
QueueStep ==
  \/ \E m \in Member : Provide(m)
  \/ \E q \in Queues : PromoteDelayed(q) \/ ReclaimInflight(q)
  \/ \E c \in Clients : Calls(c)
  \/ \E G \in SUBSET Clients : Forget(G)
  \/ Tick

CallerStep == QueueStep \/ \E t \in Cancellable : Remove(t)

(* A client that vanishes is forgotten alone.                              *)
LEMMA VanishForgets ==
  ASSUME Types, NEW c \in Clients, Vanish(c) PROVE \E G \in SUBSET Clients : Forget(G)
<1>1. /\ held' = [d \in Clients |-> IF d \in {c} THEN None ELSE held[d]]
      /\ pipe' = [d \in Clients |-> IF d \in {c} THEN NoPipe ELSE pipe[d]]
  BY DEF Vanish, Types, HeldT, PipeT
<1>2. Forget({c})
  BY <1>1 DEF Forget, Vanish
<1> QED
  BY <1>2

(* Clients that vanish or write to their structs, and the clock, keep the  *)
(* types.                                                                  *)
LEMMA ForgetTypes ==
  ASSUME Types, \/ \E G \in SUBSET Clients : Forget(G)
                \/ \E c \in Clients, m \in Member : Revise(c, m)
                \/ Tick \/ UNCHANGED brokerVars
  PROVE  Types'
<1>1. ASSUME NEW G \in SUBSET Clients, Forget(G) PROVE Types'
  <2>1. PipeT'
    BY <1>1, NoPipeType DEF Types, Forget, PipeT
  <2>2. HeldT'
    BY <1>1 DEF Forget, Types, HeldT
  <2> QED
    BY <1>1, <2>1, <2>2 DEF Forget, Types, ReadyT, DelayedT, LeaseT, InflightT, StatsT
<1>2. CASE Tick \/ UNCHANGED brokerVars
  BY <1>2 DEF Tick, brokerVars, Types, ReadyT, DelayedT, LeaseT, InflightT, StatsT, HeldT, PipeT
<1>3. ASSUME NEW c \in Clients, NEW m \in Member, Revise(c, m) PROVE Types'
  BY <1>3 DEF Revise, Types, ReadyT, DelayedT, LeaseT, InflightT, StatsT, HeldT, PipeT
<1> QED
  BY <1>1, <1>2, <1>3

(* The copy a failed attempt hands to Nack.                                *)
LEMMA RetriedType == ASSUME NEW m \in Member PROVE Retried(m) \in Member /\ Retried(m).id = m.id
<1>1. [m EXCEPT !.retry = @ + 1] \in Member /\ [m EXCEPT !.retry = @ + 1].id = m.id
  BY DEF Member
<1>2. \A x \in Member : [x EXCEPT !.version = @ + 2] \in Member /\ [x EXCEPT !.version = @ + 2].id = x.id
  BY DEF Member
<1>3. Retried(m) = [[m EXCEPT !.retry = @ + 1] EXCEPT !.version = @ + 2]
  BY DEF Retried
<1> QED
  BY <1>1, <1>2, <1>3

(* The callers of BrokerNext are among them.                               *)
LEMMA CallersAre == ASSUME Types, BrokerNext PROVE CallerStep
<1>1. ASSUME NEW t \in Tasks, Produce(t) PROVE CallerStep
  <2>1. Copy(t, 0) \in Member /\ Copy(t, 1) \in Member
    BY CopyType
  <2> QED
    BY <1>1, <2>1 DEF Produce, CallerStep, QueueStep, Provide
<1>2. ASSUME NEW c \in Clients, Consume(c) PROVE CallerStep
  <2>1. CASE held[c] # None /\ held[c].retry < MaxRetries[held[c].id] /\ Nack(c, Retried(held[c]))
    <3>1. Retried(held[c]) \in Member
      BY <2>1, RetriedType DEF Types, HeldT
    <3> QED
      BY <2>1, <3>1 DEF CallerStep, QueueStep, Calls
  <2>2. CASE Vanish(c)
    BY <2>2, VanishForgets DEF CallerStep, QueueStep
  <2> QED
    BY <1>2, <2>1, <2>2 DEF Consume, CallerStep, QueueStep, Calls
<1> QED
  BY <1>1, <1>2 DEF BrokerNext, CallerStep, QueueStep

(* Every step of a caller keeps the types ...                              *)
LEMMA CallerTypes == ASSUME Types, [CallerStep]_brokerVars PROVE Types'
<1>1. ASSUME NEW m \in Member, Provide(m) PROVE Types'
  BY <1>1, EnqueueTypes, EnqueueDelayedTypes DEF Provide
<1>2. ASSUME NEW t \in Cancellable, Remove(t) PROVE Types'
  BY <1>2, RemoveTypes, BrokerAssumption
<1>3. ASSUME NEW c \in Clients, Calls(c) PROVE Types'
  BY <1>3, DequeueTypes, ExtendTypes, AckTypes, NackTypes, ExecRemTypes, ExecLastTypes, ForgetTypes
  DEF Calls, Exec
<1> QED
  BY <1>1, <1>2, <1>3, PromoteTypes, ReclaimTypes, ForgetTypes DEF CallerStep, QueueStep

(* ... and so does every step of BrokerNext.                               *)
LEMMA NextTypes == Types /\ [BrokerNext]_brokerVars => Types'
  BY CallersAre, CallerTypes

(* The broker keeps its types: in particular a member has one score in     *)
(* each sorted set, and on a ready list it is that of its priority, however *)
(* often the task was enqueued, reclaimed, promoted or retried.            *)
THEOREM BrokerTypes == BrokerSpec => []BrokerTypeOK
  BY InitTypes, NextTypes, TypesAre, PTL DEF BrokerSpec

-----------------------------------------------------------------------------
(* Where members live, and the pairing of inflight entries with leases.    *)

(* A task is only ever in the structures of its own queue.                 *)
Homed ==
  \A q \in Queues :
    /\ \A e \in ready[q] : QueueOf[e.member.id] = q
    /\ \A e \in delayed[q] : QueueOf[e.member.id] = q
    /\ \A t \in Tasks : inflight[q][t] # None => inflight[q][t].id = t /\ QueueOf[t] = q

(* A pipeline of Ack or Nack is of one of the four kinds.                  *)
Removing(c) == pipe[c].cmd \in {"hdel", "zrem", "last"}
PipeKinds == \A c \in Clients : Removing(c) => pipe[c].kind \in {"completed", "failed", "retryAt", "retryNow"}

(* Inside a pipeline, after HDEL and before ZREM, the entry is gone: true  *)
(* until another client dequeues the task in between (Overtaken).          *)
EntryGone ==
  \A c \in Clients : pipe[c].cmd = "zrem" => inflight[QueueOf[pipe[c].task.id]][pipe[c].task.id] = None

EntryLeased == \A q \in Queues, t \in Tasks : inflight[q][t] # None => t \in ZMembers(lease[q])

(* What is in q, and how pipelines look, after a step.                     *)
HomeInv == Homed /\ PipeKinds

(* Initially.                                                              *)
LEMMA InitHome == BrokerInit => HomeInv /\ EntryGone /\ EntryLeased
  BY DEF BrokerInit, HomeInv, Homed, PipeKinds, Removing, EntryGone, EntryLeased, NoPipe

(* Producers put members where they belong.                                *)
LEMMA ProvideHome ==
  ASSUME Types, HomeInv, NEW m \in Member, Provide(m) PROVE HomeInv'
<1>1. m.id \in Tasks
  BY ScoreType
<1>2. UNCHANGED <<inflight, pipe>>
  BY DEF Provide, Enqueue, EnqueueDelayed, EnqueueIfNotInflight
<1>3. ASSUME NEW q \in Queues, NEW e \in ready'[q] PROVE QueueOf[e.member.id] = q
  <2>1. e \in ready[q] \/ (q = QueueOf[m.id] /\ e.member = m)
    BY <1>1 DEF Provide, Enqueue, EnqueueDelayed, EnqueueIfNotInflight, ZAdd, Types, ReadyT
  <2> QED
    BY <2>1 DEF HomeInv, Homed
<1>4. ASSUME NEW q \in Queues, NEW e \in delayed'[q] PROVE QueueOf[e.member.id] = q
  <2>1. e \in delayed[q] \/ (q = QueueOf[m.id] /\ e.member = m)
    BY <1>1 DEF Provide, Enqueue, EnqueueDelayed, EnqueueIfNotInflight, ZAdd, Types, DelayedT
  <2> QED
    BY <2>1 DEF HomeInv, Homed
<1> QED
  BY <1>2, <1>3, <1>4 DEF HomeInv, Homed, PipeKinds, Removing

(* Remove only takes members away.                                         *)
LEMMA RemoveHome ==
  ASSUME Types, HomeInv, NEW t \in Tasks, Remove(t) PROVE HomeInv'
<1>1. \A q \in Queues : ready'[q] \subseteq ready[q] /\ delayed'[q] \subseteq delayed[q]
  BY DEF Remove, Types, ReadyT, DelayedT
<1>2. pipe' = pipe /\ \A q \in Queues, u \in Tasks : inflight'[q][u] \in {inflight[q][u], None}
  BY TaskAssumption DEF Remove, Types, InflightT
<1> QED
  BY <1>1, <1>2 DEF HomeInv, Homed, PipeKinds, Removing

(* Clients that vanish or write to their structs move no member.           *)
LEMMA ForgetHome ==
  ASSUME Types, HomeInv, \/ \E G \in SUBSET Clients : Forget(G)
                         \/ \E c \in Clients, m \in Member : Revise(c, m)
                         \/ Tick \/ UNCHANGED brokerVars
  PROVE  HomeInv'
<1>1. UNCHANGED <<ready, delayed, inflight>>
  BY DEF Forget, Revise, Tick, brokerVars
<1>2. \A c \in Clients : pipe'[c] \in {pipe[c], NoPipe}
  BY DEF Forget, Revise, Tick, brokerVars
<1> QED
  BY <1>1, <1>2, NoPipeType DEF HomeInv, Homed, PipeKinds, Removing

(* The scheduler's loops move members within their queue.                  *)
LEMMA LoopsHome ==
  ASSUME Types, HomeInv, NEW q \in Queues, PromoteDelayed(q) \/ ReclaimInflight(q) PROVE HomeInv'
<1>1. CASE PromoteDelayed(q)
  <2>1. PICK B \in ZRangeByScore(delayed[q], now, BatchSize) :
          /\ ready' = [ready EXCEPT ![q] = {e \in ready[q] : e.member \notin ZMembers(B)}
                         \cup {[member |-> m, score |-> Score(m)] : m \in ZMembers(B)}]
          /\ delayed' = [delayed EXCEPT ![q] = delayed[q] \ B]
          /\ UNCHANGED <<now, inflight, lease, stats, held, pipe>>
    BY <1>1 DEF PromoteDelayed
  <2>2. \A m \in ZMembers(B) : QueueOf[m.id] = q
    BY DEF ZRangeByScore, ZMembers, HomeInv, Homed
  <2>3. ASSUME NEW p \in Queues, NEW e \in ready'[p] PROVE QueueOf[e.member.id] = p
    BY <2>1, <2>2 DEF HomeInv, Homed, Types, ReadyT
  <2>4. \A p \in Queues : delayed'[p] \subseteq delayed[p]
    BY <2>1 DEF Types, DelayedT
  <2> QED
    BY <2>1, <2>3, <2>4 DEF HomeInv, Homed, PipeKinds, Removing
<1>2. CASE ReclaimInflight(q)
  <2>1. PICK B : Reclaims(q, B)
    BY <1>2, ReclaimPicks
  <2> DEFINE D == {inflight[q][t] : t \in {u \in ZMembers(B) : inflight[q][u] # None}}
  <2>2. ZMembers(B) \in SUBSET Tasks
    BY <2>1 DEF Reclaims, ZMembers, Types, LeaseT, Entries
  <2>3. \A m \in D : QueueOf[m.id] = q
    BY <2>2 DEF HomeInv, Homed
  <2>4. ASSUME NEW p \in Queues, NEW e \in ready'[p] PROVE QueueOf[e.member.id] = p
    BY <2>1, <2>3 DEF Reclaims, HomeInv, Homed, Types, ReadyT
  <2>5. \A p \in Queues, t \in Tasks : inflight'[p][t] \in {inflight[p][t], None}
    BY <2>1 DEF Reclaims, Types, InflightT
  <2> QED
    BY <2>1, <2>4, <2>5 DEF Reclaims, HomeInv, Homed, PipeKinds, Removing
<1> QED
  BY <1>1, <1>2

(* Only one client's pipeline changes in a step of that client.            *)
LEMMA PipeKindsUpdate ==
  ASSUME PipeT, PipeKinds, NEW c \in Clients, NEW p, pipe' = [pipe EXCEPT ![c] = p],
         p.cmd \in {"hdel", "zrem", "last"} => p.kind \in {"completed", "failed", "retryAt", "retryNow"}
  PROVE  PipeKinds'
  BY DEF PipeKinds, Removing, PipeT

(* Consumers take members from, and return them to, their own queue.       *)
LEMMA CallsHome ==
  ASSUME Types, HomeInv, NEW c \in Clients, Calls(c) PROVE HomeInv'
<1> USE DEF HomeInv
<1>1. PipeT /\ PipeKinds /\ NoPipe.cmd = "none"
  BY NoPipeType DEF Types
<1>2. CASE Dequeue(c)
  <2>1. PICK q \in Queues : \E e \in ready[q] : Dequeues(c, q, e)
    BY <1>2, DequeuePicks
  <2>2. PICK e \in ready[q] : Dequeues(c, q, e)
    BY <2>1
  <2>3. QueueOf[e.member.id] = q /\ e.member.id \in Tasks
    BY ScoreType DEF Homed, Types, ReadyT, Entries
  <2>4. \A p \in Queues : ready'[p] \subseteq ready[p] /\ delayed'[p] = delayed[p]
    BY <2>2 DEF Dequeues, Types, ReadyT
  <2>5. \A p \in Queues, t \in Tasks : \/ inflight'[p][t] = inflight[p][t]
                                       \/ p = q /\ t = e.member.id /\ inflight'[p][t] = e.member
    BY <2>2, <2>3 DEF Dequeues, Types, InflightT
  <2>6. Homed'
    BY <2>3, <2>4, <2>5 DEF Homed
  <2>7. PipeKinds'
    BY <1>1, <2>2, PipeKindsUpdate DEF Dequeues
  <2> QED
    BY <2>6, <2>7
<1>3. CASE ExtendLease(c) \/ Ack(c) \/ \E m : Nack(c, m)
  <2>1. UNCHANGED <<ready, delayed, inflight>>
    BY <1>3 DEF ExtendLease, Ack, Nack
  <2>2. PICK p : /\ pipe' = [pipe EXCEPT ![c] = p]
                 /\ p.cmd \in {"hdel", "zrem", "last"} => p.kind \in {"completed", "failed", "retryAt", "retryNow"}
    BY <1>1, <1>3 DEF ExtendLease, Ack, Nack
  <2>3. PipeKinds'
    BY <1>1, <2>2, PipeKindsUpdate
  <2> QED
    BY <2>1, <2>3 DEF Homed
<1>4. CASE ExecHDel(c) \/ ExecZRem(c)
  <2>1. pipe[c].cmd # "none" /\ Removing(c)
    BY <1>4 DEF ExecHDel, ExecZRem, Removing
  <2>2. pipe[c] \in Pipeline /\ pipe[c].task.id \in Tasks /\ QueueOf[pipe[c].task.id] \in Queues
    BY <2>1, PipeTask
  <2>3. PICK x \in {"zrem", "last"} : pipe' = [pipe EXCEPT ![c] = [pipe[c] EXCEPT !.cmd = x]]
    BY <1>4 DEF ExecHDel, ExecZRem
  <2>4. [pipe[c] EXCEPT !.cmd = x].kind = pipe[c].kind
    BY <2>2 DEF Pipeline
  <2>5. PipeKinds'
    BY <1>1, <2>1, <2>3, <2>4, PipeKindsUpdate DEF PipeKinds
  <2>6. UNCHANGED <<ready, delayed>> /\ \A q \in Queues, t \in Tasks : inflight'[q][t] \in {inflight[q][t], None}
    BY <1>4, <2>2 DEF ExecHDel, ExecZRem, Types, InflightT
  <2> QED
    BY <2>5, <2>6 DEF Homed
<1>5. CASE ExecLast(c)
  <2>1. pipe[c].task.id \in Tasks /\ QueueOf[pipe[c].task.id] \in Queues
    BY <1>5, PipeTask DEF ExecLast
  <2>2. ASSUME NEW q \in Queues, NEW e \in ready'[q] PROVE QueueOf[e.member.id] = q
    <3>1. e \in ready[q] \/ (q = QueueOf[pipe[c].task.id] /\ e.member = pipe[c].task)
      BY <1>5, <2>1 DEF ExecLast, ZAdd, Types, ReadyT
    <3> QED
      BY <3>1 DEF Homed
  <2>3. ASSUME NEW q \in Queues, NEW e \in delayed'[q] PROVE QueueOf[e.member.id] = q
    <3>1. e \in delayed[q] \/ (q = QueueOf[pipe[c].task.id] /\ e.member = pipe[c].task)
      BY <1>5, <2>1 DEF ExecLast, ZAdd, Types, DelayedT
    <3> QED
      BY <3>1 DEF Homed
  <2>4. inflight' = inflight /\ PipeKinds'
    BY <1>1, <1>5, PipeKindsUpdate DEF ExecLast
  <2> QED
    BY <2>2, <2>3, <2>4 DEF Homed
<1> QED
  BY <1>2, <1>3, <1>4, <1>5, ForgetHome DEF Calls, Exec

(* The entry stays gone while its pipeline runs, and every entry has a     *)
(* lease: to register the entry again a client must take the task in the   *)
(* middle of that pipeline.                                                *)
LEMMA LeaseStep ==
  ASSUME Types, EntryGone, EntryLeased, [CallerStep]_brokerVars, ~Overtaken'
  PROVE  EntryGone' /\ EntryLeased'
<1>1. CASE UNCHANGED <<inflight, lease, pipe>>
  BY <1>1 DEF EntryGone, EntryLeased
<1>2. ASSUME NEW t \in Tasks, Remove(t) PROVE EntryGone' /\ EntryLeased'
  <2>1. pipe' = pipe
    BY <1>2 DEF Remove
  <2>2. QueueOf[t] \in Queues
    BY TaskAssumption
  <2>3. \A q \in Queues, u \in Tasks :
          /\ inflight'[q][u] \in {inflight[q][u], None}
          /\ inflight'[q][u] # None => (q # QueueOf[t] \/ u # t)
    BY <1>2, <2>2 DEF Remove, Types, InflightT
  <2>4. \A q \in Queues, u \in Tasks : (q # QueueOf[t] \/ u # t) /\ u \in ZMembers(lease[q])
                                         => u \in ZMembers(lease'[q])
    BY <1>2, <2>2 DEF Remove, ZMembers, ZRem, Types, LeaseT
  <2>5. EntryLeased'
    BY <2>3, <2>4 DEF EntryLeased
  <2>6. EntryGone'
    BY <2>1, <2>3, PipeTask DEF EntryGone
  <2> QED
    BY <2>5, <2>6
<1>3. ASSUME NEW q \in Queues, ReclaimInflight(q) PROVE EntryGone' /\ EntryLeased'
  <2>1. PICK B : Reclaims(q, B)
    BY <1>3, ReclaimPicks
  <2>2. pipe' = pipe
    BY <2>1 DEF Reclaims
  <2>3. \A p \in Queues, u \in Tasks :
          /\ inflight'[p][u] \in {inflight[p][u], None}
          /\ inflight'[p][u] # None => (p # q \/ u \notin ZMembers(B))
    BY <2>1 DEF Reclaims, Types, InflightT
  <2>4. \A p \in Queues, u \in Tasks : (p # q \/ u \notin ZMembers(B)) /\ u \in ZMembers(lease[p])
                                         => u \in ZMembers(lease'[p])
    BY <2>1 DEF Reclaims, ZMembers, Types, LeaseT
  <2>5. EntryLeased'
    BY <2>3, <2>4 DEF EntryLeased
  <2>6. EntryGone'
    BY <2>2, <2>3, PipeTask DEF EntryGone
  <2> QED
    BY <2>5, <2>6
<1>4. ASSUME NEW c \in Clients, Dequeue(c) PROVE EntryGone' /\ EntryLeased'
  <2>1. PICK q \in Queues : \E e \in ready[q] : Dequeues(c, q, e)
    BY <1>4, DequeuePicks
  <2>2. PICK e \in ready[q] : Dequeues(c, q, e)
    BY <2>1
  <2>3. e.member.id \in Tasks
    BY ScoreType DEF Types, ReadyT, Entries
  <2>4. /\ \A d \in Clients : d # c => pipe'[d] = pipe[d]
        /\ pipe'[c].cmd # "zrem"
    BY <2>2, NoPipeType DEF Dequeues, Types, PipeT
  <2>5. \A p \in Queues, u \in Tasks : inflight'[p][u] = inflight[p][u] \/ (p = q /\ u = e.member.id)
    BY <2>2, <2>3 DEF Dequeues, Types, InflightT
  <2>6. /\ \A p \in Queues : ZMembers(lease[p]) \subseteq ZMembers(lease'[p])
        /\ e.member.id \in ZMembers(lease'[q])
    BY <2>2, ZAddMembers DEF Dequeues, Types, LeaseT
  <2>7. held'[c] = e.member /\ e.member # None
    BY <2>2, NoneAssumption DEF Dequeues, Types, HeldT, ReadyT, Entries
  <2>8. ASSUME NEW d \in Clients, pipe'[d].cmd = "zrem"
        PROVE  pipe'[d] = pipe[d] /\ pipe[d].task.id # e.member.id
    BY <2>4, <2>7, <2>8 DEF Overtaken
  <2>9. EntryGone'
    BY <2>5, <2>8, PipeTask DEF EntryGone
  <2> QED
    BY <2>5, <2>6, <2>9 DEF EntryLeased
<1>5. ASSUME NEW c \in Clients, ExtendLease(c) PROVE EntryGone' /\ EntryLeased'
  <2>1. \A d \in Clients : pipe'[d].cmd = "zrem" => pipe'[d] = pipe[d]
    BY <1>5, NoPipeType DEF ExtendLease, Types, PipeT
  <2>2. inflight' = inflight /\ \A p \in Queues : ZMembers(lease[p]) \subseteq ZMembers(lease'[p])
    BY <1>5, ZAddMembers DEF ExtendLease, Types, LeaseT
  <2> QED
    BY <2>1, <2>2 DEF EntryGone, EntryLeased
<1>6. ASSUME NEW c \in Clients, Ack(c) \/ (\E m : Nack(c, m)) \/ ExecLast(c)
      PROVE  EntryGone' /\ EntryLeased'
  <2>1. UNCHANGED <<inflight, lease>>
    BY <1>6 DEF Ack, Nack, ExecLast
  <2>2. PICK p : pipe' = [pipe EXCEPT ![c] = p] /\ p.cmd # "zrem"
    BY <1>6, NoPipeType DEF Ack, Nack, ExecLast
  <2>3. \A d \in Clients : pipe'[d].cmd = "zrem" => pipe'[d] = pipe[d]
    BY <2>2 DEF Types, PipeT
  <2> QED
    BY <2>1, <2>3 DEF EntryGone, EntryLeased
<1>7. ASSUME NEW c \in Clients, ExecHDel(c) PROVE EntryGone' /\ EntryLeased'
  <2> DEFINE t == pipe[c].task.id
  <2>1. pipe[c] \in Pipeline /\ t \in Tasks /\ QueueOf[t] \in Queues
    BY <1>7, PipeTask DEF ExecHDel
  <2>2. \A d \in Clients : pipe'[d].task = pipe[d].task /\ (pipe'[d].cmd = "zrem" => d = c \/ pipe[d].cmd = "zrem")
    BY <1>7, <2>1 DEF ExecHDel, Types, PipeT, Pipeline
  <2>3. \A q \in Queues, u \in Tasks : inflight'[q][u] \in {inflight[q][u], None}
    BY <1>7, <2>1 DEF ExecHDel, Types, InflightT
  <2>4. inflight'[QueueOf[t]][t] = None /\ lease' = lease
    BY <1>7, <2>1 DEF ExecHDel, Types, InflightT
  <2> QED
    BY <2>2, <2>3, <2>4, PipeTask DEF EntryGone, EntryLeased
<1>8. ASSUME NEW c \in Clients, ExecZRem(c) PROVE EntryGone' /\ EntryLeased'
  <2> DEFINE t == pipe[c].task.id
  <2>1. pipe[c] \in Pipeline /\ t \in Tasks /\ QueueOf[t] \in Queues
    BY <1>8, PipeTask DEF ExecZRem
  <2>2. \A d \in Clients : pipe'[d].task = pipe[d].task /\ (pipe'[d].cmd = "zrem" => pipe[d].cmd = "zrem")
    BY <1>8, <2>1 DEF ExecZRem, Types, PipeT, Pipeline
  <2>3. inflight' = inflight /\ inflight[QueueOf[t]][t] = None
    BY <1>8 DEF ExecZRem, EntryGone
  <2>4. \A q \in Queues, u \in Tasks : (q # QueueOf[t] \/ u # t) /\ u \in ZMembers(lease[q])
                                         => u \in ZMembers(lease'[q])
    BY <1>8, <2>1 DEF ExecZRem, ZMembers, ZRem, Types, LeaseT
  <2> QED
    BY <2>2, <2>3, <2>4 DEF EntryGone, EntryLeased
<1>9. ASSUME NEW G \in SUBSET Clients, Forget(G) PROVE EntryGone' /\ EntryLeased'
  <2>1. \A d \in Clients : pipe'[d].cmd = "zrem" => pipe'[d] = pipe[d]
    BY <1>9, NoPipeType DEF Forget
  <2>2. UNCHANGED <<inflight, lease>>
    BY <1>9 DEF Forget
  <2> QED
    BY <2>1, <2>2 DEF EntryGone, EntryLeased
<1>10. CASE \E c \in Clients : Calls(c)
  BY <1>1, <1>4, <1>5, <1>6, <1>7, <1>8, <1>10 DEF Calls, Exec, Revise
<1>11. CASE \/ \E m \in Member : Provide(m)
            \/ \E q \in Queues : PromoteDelayed(q)
            \/ Tick \/ UNCHANGED brokerVars
  BY <1>1, <1>11 DEF Provide, Enqueue, EnqueueDelayed, EnqueueIfNotInflight, PromoteDelayed, Tick, brokerVars
<1> QED
  BY <1>2, <1>3, <1>9, <1>10, <1>11, BrokerAssumption DEF CallerStep, QueueStep

BrokerInv == Types /\ HomeInv

(* Where nobody is overtaken, entries and leases are paired as well.       *)
Paired == EntryGone /\ EntryLeased

(* The inductive invariant holds initially ...                             *)
LEMMA InitInv == BrokerInit => BrokerInv /\ Paired
  BY InitTypes, InitHome DEF BrokerInv, Paired

(* ... is kept by every step of a caller ...                               *)
LEMMA CallerInv == ASSUME BrokerInv, [CallerStep]_brokerVars PROVE BrokerInv'
<1>1. Types'
  BY CallerTypes DEF BrokerInv
<1>2. HomeInv'
  BY ProvideHome, RemoveHome, LoopsHome, CallsHome, ForgetHome, BrokerAssumption DEF BrokerInv, CallerStep, QueueStep
<1> QED
  BY <1>1, <1>2 DEF BrokerInv

(* ... hence by every step of BrokerNext ...                               *)
LEMMA NextInv == BrokerInv /\ [BrokerNext]_brokerVars => BrokerInv'
  BY CallersAre, CallerInv DEF BrokerInv

(* ... and the pairing by those that overtake nobody ...                   *)
LEMMA CallerPairs ==
  ASSUME BrokerInv, Paired, [CallerStep]_brokerVars, ~Overtaken' PROVE Paired'
  BY LeaseStep DEF BrokerInv, Paired

(* ... and says that entries are leased.                                   *)
LEMMA PairedLeased == Paired => InflightLeased
  BY TaskAssumption DEF Paired, EntryLeased, InflightLeased, InInflight, Leased

(* In every run of the broker in which no client takes a task while        *)
(* another one is between HDEL and ZREM of it, every inflight entry has a  *)
(* lease, so the reclaim loop finds every task that was taken and not      *)
(* finished, whichever clients vanish inside their pipelines.              *)
THEOREM EveryEntryLeased == BrokerSpec => LeasedUnlessOvertaken
<1>1. BrokerInv /\ Paired /\ ~Overtaken' /\ [BrokerNext]_brokerVars => Paired'
  BY CallersAre, CallerPairs DEF BrokerInv
<1> QED
  BY <1>1, PairedLeased, InitInv, NextInv, PTL DEF BrokerSpec, LeasedUnlessOvertaken

-----------------------------------------------------------------------------
(* How a task is lost.                                                     *)

(* The four places Tracked looks at, for one task.                         *)
Stays(t) ==
  /\ InReady(t) => Tracked(t)'
  /\ InDelayed(t) => Tracked(t)'
  /\ InInflight(t) /\ Leased(t) => Tracked(t)'
  /\ InRetry(t) => Tracked(t)'

(* A task that stays in each of its places is not lost.                    *)
LEMMA StaysTracked == ASSUME NEW t, Stays(t) PROVE Tracked(t) => Tracked(t)'
  BY DEF Stays, Tracked

(* A step that leaves the entry of t and the pipelines with a part         *)
(* executed alone, and t on its lists, does not lose t.                    *)
LEMMA KeptStays ==
  ASSUME NEW t \in Tasks,
         InReady(t) => InReady(t)', InDelayed(t) => InDelayed(t)',
         inflight'[QueueOf[t]][t] = inflight[QueueOf[t]][t], Leased(t) => Leased(t)',
         \A c \in Clients : Started(c) => pipe'[c] = pipe[c]
  PROVE  Stays(t)
<1>1. InInflight(t) => InInflight(t)'
  BY DEF InInflight
<1>2. InRetry(t) => InRetry(t)'
  BY DEF InRetry, Started
<1> QED
  BY <1>1, <1>2 DEF Stays, Tracked

(* A list that grows still holds t.                                        *)
LEMMA Growth ==
  ASSUME NEW t \in Tasks
  PROVE  /\ ZMembers(ready[QueueOf[t]]) \subseteq ZMembers(ready'[QueueOf[t]]) => (InReady(t) => InReady(t)')
         /\ ZMembers(delayed[QueueOf[t]]) \subseteq ZMembers(delayed'[QueueOf[t]]) => (InDelayed(t) => InDelayed(t)')
         /\ ZMembers(lease[QueueOf[t]]) \subseteq ZMembers(lease'[QueueOf[t]]) => (Leased(t) => Leased(t)')
  BY DEF InReady, InDelayed, Leased

(* Producers lose nothing.                                                 *)
LEMMA ProvideStays ==
  ASSUME BrokerInv, NEW m \in Member, Provide(m), NEW t \in Tasks PROVE Stays(t)
<1>1. QueueOf[t] \in Queues /\ QueueOf[m.id] \in Queues
  BY TaskAssumption, ScoreType
<1>2. UNCHANGED <<inflight, lease, pipe>>
  BY DEF Provide, Enqueue, EnqueueDelayed, EnqueueIfNotInflight
<1>3. ZMembers(ready[QueueOf[t]]) \subseteq ZMembers(ready'[QueueOf[t]])
  BY <1>1, ZAddMembers
  DEF Provide, Enqueue, EnqueueDelayed, EnqueueIfNotInflight, BrokerInv, Types, ReadyT
<1>4. ZMembers(delayed[QueueOf[t]]) \subseteq ZMembers(delayed'[QueueOf[t]])
  BY <1>1, ZAddMembers
  DEF Provide, Enqueue, EnqueueDelayed, EnqueueIfNotInflight, BrokerInv, Types, DelayedT
<1> QED
  BY <1>2, <1>3, <1>4, Growth, KeptStays DEF Leased

(* Remove loses no task but its own.                                       *)
LEMMA RemoveStays ==
  ASSUME BrokerInv, NEW u \in Tasks, Remove(u), NEW t \in Tasks, u # t PROVE Stays(t)
<1>1. QueueOf[t] \in Queues /\ QueueOf[u] \in Queues
  BY TaskAssumption
<1>2. pipe' = pipe /\ inflight'[QueueOf[t]][t] = inflight[QueueOf[t]][t]
  BY <1>1 DEF Remove, BrokerInv, Types, InflightT
<1>3. Leased(t) => Leased(t)'
  BY <1>1 DEF Remove, Leased, ZMembers, ZRem, BrokerInv, Types, LeaseT
<1>4. InReady(t) => InReady(t)'
  BY <1>1 DEF Remove, InReady, ZMembers, BrokerInv, Types, ReadyT
<1>5. InDelayed(t) => InDelayed(t)'
  BY <1>1 DEF Remove, InDelayed, ZMembers, BrokerInv, Types, DelayedT
<1> QED
  BY <1>2, <1>3, <1>4, <1>5, KeptStays

(* A task stays where it is when clients write to their structs or time    *)
(* passes.                                                                 *)
LEMMA IdleStays ==
  ASSUME NEW t \in Tasks, Tick \/ \E c \in Clients, m \in Member : Revise(c, m)
  PROVE  Stays(t)
<1>1. UNCHANGED <<ready, delayed, inflight, lease, pipe>>
  BY DEF Revise, Tick
<1> QED
  BY <1>1, KeptStays DEF InReady, InDelayed, Leased

(* Clients that vanish lose the retries they had begun to send.            *)
LEMMA ForgetStays ==
  ASSUME NEW t \in Tasks, NEW G \in SUBSET Clients, Forget(G)
  PROVE  Breaks(t) \/ Stays(t)
<1>1. UNCHANGED <<ready, delayed, inflight, lease>>
  BY DEF Forget
<1>2. ASSUME InRetry(t) PROVE Breaks(t) \/ InRetry(t)'
  <2>1. PICK c \in Clients : Started(c) /\ pipe[c].kind \in {"retryAt", "retryNow"} /\ pipe[c].task.id = t
    BY <1>2 DEF InRetry
  <2>2. CASE c \in G
    <3>1. pipe'[c] = NoPipe
      BY <2>2 DEF Forget
    <3> QED
      BY <1>1, <2>1, <3>1 DEF Breaks
  <2>3. CASE c \notin G
    <3>1. pipe'[c] = pipe[c]
      BY <2>3 DEF Forget
    <3> QED
      BY <2>1, <3>1 DEF InRetry, Started
  <2> QED
    BY <2>2, <2>3
<1>3. /\ InReady(t) => InReady(t)'
      /\ InDelayed(t) => InDelayed(t)'
      /\ InInflight(t) /\ Leased(t) => InInflight(t)' /\ Leased(t)'
  BY <1>1 DEF InReady, InDelayed, InInflight, Leased
<1> QED
  BY <1>2, <1>3 DEF Stays, Tracked

(* A promoted task is ready, a reclaimed one too.                          *)
LEMMA LoopsStay ==
  ASSUME BrokerInv, NEW q \in Queues, PromoteDelayed(q) \/ ReclaimInflight(q), NEW t \in Tasks
  PROVE  Stays(t)
<1>1. QueueOf[t] \in Queues
  BY TaskAssumption
<1>2. CASE PromoteDelayed(q)
  <2>1. PICK B \in SUBSET delayed[q] :
          /\ ready' = [ready EXCEPT ![q] = {e \in ready[q] : e.member \notin ZMembers(B)}
                         \cup {[member |-> m, score |-> Score(m)] : m \in ZMembers(B)}]
          /\ delayed' = [delayed EXCEPT ![q] = delayed[q] \ B]
          /\ UNCHANGED <<now, inflight, lease, stats, held, pipe>>
    BY <1>2 DEF PromoteDelayed, ZRangeByScore
  <2>2. /\ \A p \in Queues : p # q => ready'[p] = ready[p] /\ delayed'[p] = delayed[p]
        /\ delayed'[q] = delayed[q] \ B
        /\ ready'[q] = {e \in ready[q] : e.member \notin ZMembers(B)}
                         \cup {[member |-> m, score |-> Score(m)] : m \in ZMembers(B)}
    BY <2>1 DEF BrokerInv, Types, ReadyT, DelayedT
  <2>3. ZMembers(ready[q]) \cup ZMembers(B) \subseteq ZMembers(ready'[q])
    BY <2>2, AddAllMembers
  <2>4. ZMembers(delayed[q]) \subseteq ZMembers(delayed'[q]) \cup ZMembers(B)
    BY <2>2, MembersOf
  <2>5. InReady(t) => InReady(t)'
    BY <1>1, <2>2, <2>3 DEF InReady
  <2>6. InDelayed(t) => InDelayed(t)' \/ InReady(t)'
    BY <1>1, <2>2, <2>3, <2>4 DEF InReady, InDelayed
  <2>7. InInflight(t) /\ Leased(t) => InInflight(t)' /\ Leased(t)'
    BY <2>1 DEF InInflight, Leased
  <2>8. InRetry(t) => InRetry(t)'
    BY <2>1 DEF InRetry, Started
  <2> QED
    BY <2>5, <2>6, <2>7, <2>8 DEF Stays, Tracked
<1>3. CASE ReclaimInflight(q)
  <2>1. PICK B : Reclaims(q, B)
    BY <1>3, ReclaimPicks
  <2> DEFINE D == {inflight[q][u] : u \in {v \in ZMembers(B) : inflight[q][v] # None}}
  <2>2. /\ \A p \in Queues : p # q => ready'[p] = ready[p] /\ lease'[p] = lease[p] /\ inflight'[p] = inflight[p]
        /\ lease'[q] = lease[q] \ B
        /\ \A u \in Tasks : u \notin ZMembers(B) => inflight'[q][u] = inflight[q][u]
        /\ ready'[q] = {e \in ready[q] : e.member \notin D} \cup {[member |-> m, score |-> Score(m)] : m \in D}
    BY <2>1 DEF Reclaims, BrokerInv, Types, ReadyT, LeaseT, InflightT
  <2>3. ZMembers(ready[q]) \cup D \subseteq ZMembers(ready'[q])
    BY <2>2, AddAllMembers
  <2>4. InReady(t) => InReady(t)'
    BY <1>1, <2>2, <2>3 DEF InReady
  <2>5. InDelayed(t) => InDelayed(t)'
    BY <2>1 DEF InDelayed, Reclaims
  <2>6. InInflight(t) /\ Leased(t) => InReady(t)' \/ (InInflight(t)' /\ Leased(t)')
    <3>1. CASE QueueOf[t] # q
      BY <1>1, <2>2, <3>1 DEF InInflight, Leased
    <3>2. CASE QueueOf[t] = q /\ t \in ZMembers(B) /\ InInflight(t)
      <4>1. inflight[q][t] \in D /\ inflight[q][t].id = t
        BY <3>2 DEF InInflight, BrokerInv, HomeInv, Homed
      <4> QED
        BY <2>3, <3>2, <4>1 DEF InReady
    <3>3. CASE QueueOf[t] = q /\ t \notin ZMembers(B)
      BY <2>2, <3>3, MembersOf DEF InInflight, Leased
    <3> QED
      BY <3>1, <3>2, <3>3
  <2>7. InRetry(t) => InRetry(t)'
    BY <2>1 DEF InRetry, Started, Reclaims
  <2> QED
    BY <2>4, <2>5, <2>6, <2>7 DEF Stays, Tracked
<1> QED
  BY <1>2, <1>3

(* A client loses a task only by settling it, or by the ZREM of a pipeline *)
(* that was overtaken.                                                     *)
LEMMA CallsStay ==
  ASSUME BrokerInv, NEW c \in Clients, Calls(c), NEW t \in Tasks
  PROVE  Settles(t) \/ TakesLease(t) \/ Stays(t)
<1>1. QueueOf[t] \in Queues
  BY TaskAssumption
<1>2. CASE Dequeue(c)
  <2>1. PICK q \in Queues : \E e \in ready[q] : Dequeues(c, q, e)
    BY <1>2, DequeuePicks
  <2>2. PICK e \in ready[q] : Dequeues(c, q, e)
    BY <2>1
  <2>3. e.member \in Member /\ e.member.id \in Tasks /\ QueueOf[e.member.id] = q
    BY ScoreType DEF BrokerInv, HomeInv, Homed, Types, ReadyT, Entries
  <2>4. CASE e.member.id = t
    <3>1. inflight'[q][t] = e.member /\ e.member # None
      BY <2>2, <2>3, <2>4, NoneAssumption DEF Dequeues, BrokerInv, Types, InflightT
    <3>2. t \in ZMembers(lease'[q])
      BY <2>2, <2>4, ZAddMembers DEF Dequeues, BrokerInv, Types, LeaseT
    <3>3. InInflight(t)' /\ Leased(t)'
      BY <2>3, <2>4, <3>1, <3>2 DEF InInflight, Leased
    <3> QED
      BY <3>3 DEF Stays, Tracked
  <2>5. CASE e.member.id # t
    <3>1. inflight'[QueueOf[t]][t] = inflight[QueueOf[t]][t]
      BY <1>1, <2>2, <2>3, <2>5 DEF Dequeues, BrokerInv, Types, InflightT
    <3>2. Leased(t) => Leased(t)'
      BY <1>1, <2>2, ZAddMembers DEF Dequeues, Leased, BrokerInv, Types, LeaseT
    <3>3. InReady(t) => InReady(t)'
      <4>1. ready'[QueueOf[t]] = ready[QueueOf[t]] \/ ready'[QueueOf[t]] = ready[QueueOf[t]] \ {e}
        BY <1>1, <2>2 DEF Dequeues, BrokerInv, Types, ReadyT
      <4> QED
        BY <2>5, <4>1, MembersOf DEF InReady
    <3>4. InDelayed(t) => InDelayed(t)'
      BY <2>2 DEF Dequeues, InDelayed
    <3>5. \A d \in Clients : Started(d) => pipe'[d] = pipe[d]
      BY <2>2, NoPipeType DEF Dequeues, Started, BrokerInv, Types, PipeT
    <3> QED
      BY <3>1, <3>2, <3>3, <3>4, <3>5, KeptStays
  <2> QED
    BY <2>4, <2>5
<1>3. CASE ExtendLease(c) \/ Ack(c) \/ \E m : Nack(c, m)
  <2>1. UNCHANGED <<ready, delayed, inflight>>
    BY <1>3 DEF ExtendLease, Ack, Nack
  <2>2. Leased(t) => Leased(t)'
    <3>1. CASE lease' = lease
      BY <3>1 DEF Leased
    <3>2. CASE ExtendLease(c)
      <4>1. ZMembers(lease[QueueOf[t]]) \subseteq ZMembers(lease'[QueueOf[t]])
        BY <1>1, <3>2, ZAddMembers DEF ExtendLease, BrokerInv, Types, LeaseT
      <4> QED
        BY <4>1, Growth
    <3> QED
      BY <1>3, <3>1, <3>2 DEF Ack, Nack
  <2>3. \A d \in Clients : Started(d) => pipe'[d] = pipe[d]
    <3>1. ~Started(c)
      BY <1>3, NoPipeType DEF ExtendLease, Ack, Nack, Started
    <3>2. \A d \in Clients : d # c => pipe'[d] = pipe[d]
      BY <1>3 DEF ExtendLease, Ack, Nack, BrokerInv, Types, PipeT
    <3> QED
      BY <3>1, <3>2
  <2>4. (InReady(t) => InReady(t)') /\ (InDelayed(t) => InDelayed(t)')
    BY <2>1 DEF InReady, InDelayed
  <2> QED
    BY <2>1, <2>2, <2>3, <2>4, KeptStays
<1>4. CASE ExecHDel(c) \/ ExecZRem(c)
  <2> DEFINE u == pipe[c].task.id
  <2>1. pipe[c].cmd # "none" /\ Removing(c)
    BY <1>4 DEF ExecHDel, ExecZRem, Removing
  <2>2. pipe[c] \in Pipeline /\ u \in Tasks /\ QueueOf[u] \in Queues
    BY <2>1, PipeTask DEF BrokerInv
  <2>3. /\ \A d \in Clients : pipe'[d].kind = pipe[d].kind /\ pipe'[d].task = pipe[d].task
        /\ \A d \in Clients : Started(d) => Started(d)'
        /\ Started(c)'
    BY <1>4, <2>2 DEF ExecHDel, ExecZRem, Started, BrokerInv, Types, PipeT, Pipeline
  <2>4. InRetry(t) => InRetry(t)'
    BY <2>3 DEF InRetry
  <2>5. (InReady(t) => InReady(t)') /\ (InDelayed(t) => InDelayed(t)')
    BY <1>4 DEF InReady, InDelayed, ExecHDel, ExecZRem
  <2>6. CASE ExecHDel(c)
    <3>1. lease' = lease /\ pipe[c].cmd = "hdel" /\ pipe'[c].cmd = "zrem"
      BY <2>2, <2>6 DEF ExecHDel, BrokerInv, Types, PipeT, Pipeline
    <3>2. CASE u # t
      <4>1. InInflight(t) /\ Leased(t) => InInflight(t)' /\ Leased(t)'
        BY <1>1, <2>2, <2>6, <3>1, <3>2 DEF ExecHDel, InInflight, Leased, BrokerInv, Types, InflightT
      <4> QED
        BY <2>4, <2>5, <4>1 DEF Stays, Tracked
    <3>3. CASE u = t /\ pipe[c].kind \in {"completed", "failed"}
      BY <3>1, <3>3 DEF Settles
    <3>4. CASE u = t /\ pipe[c].kind \in {"retryAt", "retryNow"}
      <4>1. InRetry(t)'
        BY <2>3, <3>4 DEF InRetry
      <4> QED
        BY <4>1 DEF Stays, Tracked
    <3> QED
      BY <2>1, <3>2, <3>3, <3>4 DEF BrokerInv, HomeInv, PipeKinds
  <2>7. CASE ExecZRem(c)
    <3>1. inflight' = inflight /\ pipe[c].cmd = "zrem" /\ pipe'[c].cmd = "last"
      BY <2>2, <2>7 DEF ExecZRem, BrokerInv, Types, PipeT, Pipeline
    <3>2. u # t /\ Leased(t) => Leased(t)'
      BY <1>1, <2>2, <2>7 DEF ExecZRem, Leased, ZMembers, ZRem, BrokerInv, Types, LeaseT
    <3>3. CASE u = t /\ InInflight(t)
      BY <3>1, <3>3 DEF TakesLease
    <3>4. CASE u # t \/ ~InInflight(t)
      <4>1. InInflight(t) /\ Leased(t) => InInflight(t)' /\ Leased(t)'
        BY <3>1, <3>2, <3>4 DEF InInflight
      <4> QED
        BY <2>4, <2>5, <4>1 DEF Stays, Tracked
    <3> QED
      BY <3>3, <3>4
  <2> QED
    BY <1>4, <2>6, <2>7
<1>5. CASE ExecLast(c)
  <2> DEFINE m == pipe[c].task
  <2>1. m \in Member /\ m.id \in Tasks /\ QueueOf[m.id] \in Queues /\ UNCHANGED <<inflight, lease>>
    BY <1>5, PipeTask DEF ExecLast, BrokerInv
  <2>2. /\ ZMembers(ready[QueueOf[t]]) \subseteq ZMembers(ready'[QueueOf[t]])
        /\ pipe[c].kind = "retryNow" => m \in ZMembers(ready'[QueueOf[m.id]])
    BY <1>1, <1>5, <2>1, ZAddMembers DEF ExecLast, BrokerInv, Types, ReadyT
  <2>3. /\ ZMembers(delayed[QueueOf[t]]) \subseteq ZMembers(delayed'[QueueOf[t]])
        /\ pipe[c].kind = "retryAt" => m \in ZMembers(delayed'[QueueOf[m.id]])
    BY <1>1, <1>5, <2>1, ZAddMembers DEF ExecLast, BrokerInv, Types, DelayedT
  <2>4. (InReady(t) => InReady(t)') /\ (InDelayed(t) => InDelayed(t)')
    BY <2>2, <2>3, Growth
  <2>5. InInflight(t) /\ Leased(t) => InInflight(t)' /\ Leased(t)'
    BY <2>1 DEF InInflight, Leased
  <2>6. InRetry(t) => Tracked(t)'
    <3>1. ASSUME InRetry(t) PROVE Tracked(t)'
      <4>1. PICK d \in Clients : Started(d) /\ pipe[d].kind \in {"retryAt", "retryNow"} /\ pipe[d].task.id = t
        BY <3>1 DEF InRetry
      <4>2. CASE d = c
        BY <2>2, <2>3, <4>1, <4>2 DEF Tracked, InReady, InDelayed
      <4>3. CASE d # c
        <5>1. pipe'[d] = pipe[d]
          BY <1>5, <4>3 DEF ExecLast, BrokerInv, Types, PipeT
        <5> QED
          BY <4>1, <5>1 DEF Tracked, InRetry, Started
      <4> QED
        BY <4>2, <4>3
    <3> QED
      BY <3>1
  <2> QED
    BY <2>4, <2>5, <2>6 DEF Stays, Tracked
<1> QED
  BY <1>2, <1>3, <1>4, <1>5, IdleStays DEF Calls, Exec

(* A step of a caller loses a task only in the ways of KnownLoss.          *)
LEMMA CallerKeeps ==
  ASSUME BrokerInv, CallerStep, NEW t \in Tasks, Tracked(t), ~Tracked(t)'
  PROVE  KnownLoss(t)
<1>1. ~Stays(t)
  BY StaysTracked
<1>2. CASE \E u \in Cancellable : Remove(u)
  BY <1>1, <1>2, RemoveStays, BrokerAssumption DEF KnownLoss
<1>3. CASE \E c \in Clients : Calls(c)
  BY <1>1, <1>3, CallsStay DEF KnownLoss
<1>4. CASE \E G \in SUBSET Clients : Forget(G)
  BY <1>1, <1>4, ForgetStays DEF KnownLoss
<1>5. CASE \/ \E m \in Member : Provide(m)
           \/ \E q \in Queues : PromoteDelayed(q) \/ ReclaimInflight(q)
           \/ Tick
  BY <1>1, <1>5, ProvideStays, LoopsStay, IdleStays
<1> QED
  BY <1>2, <1>3, <1>4, <1>5 DEF CallerStep, QueueStep

(* The broker loses a task in no other way than those of KnownLoss: each   *)
(* loop, script and pipeline hands the task on; Ack, a final Nack or       *)
(* Remove end it, and what else may lose it are a retry whose client       *)
(* vanishes after HDEL and the ZREM of a pipeline that was overtaken.      *)
THEOREM LossesAre == BrokerSpec => LossesKnown
<1>1. BrokerInv /\ [BrokerNext]_brokerVars =>
        [\A t \in Tasks : Tracked(t) /\ ~Tracked(t)' => KnownLoss(t)]_brokerVars
  BY CallersAre, CallerKeeps DEF BrokerInv
<1> QED
  BY <1>1, InitInv, NextInv, PTL DEF BrokerSpec, LossesKnown

-----------------------------------------------------------------------------
(* Where a copy of a task comes from.                                      *)

OnReady(m) == \E q \in Queues : \E e \in ready[q] : e.member = m
OnDelayed(m) == \E q \in Queues : \E e \in delayed[q] : e.member = m
OnInflight(m) == \E q \in Queues, t \in Tasks : inflight[q][t] = m

\* Redis has the copy.
Stored(m) == OnReady(m) \/ OnDelayed(m) \/ OnInflight(m)

\* A Nack under way is about to put the copy back.
Waiting(m) == \E c \in Clients : /\ pipe[c].cmd # "none" /\ pipe[c].kind \in {"retryAt", "retryNow"}
                                 /\ pipe[c].task = m

(* A producer stores the copy it was given, and no other.                  *)
LEMMA ProvideStored ==
  ASSUME Types, NEW x \in Member, Provide(x), NEW m \in Member, Stored(m)' PROVE Stored(m) \/ m = x
<1>1. QueueOf[x.id] \in Queues
  BY ScoreType
<1>2. OnReady(m)' => OnReady(m) \/ m = x
  BY <1>1 DEF Provide, Enqueue, EnqueueDelayed, EnqueueIfNotInflight, OnReady, ZAdd, Types, ReadyT
<1>3. OnDelayed(m)' => OnDelayed(m) \/ m = x
  BY <1>1 DEF Provide, Enqueue, EnqueueDelayed, EnqueueIfNotInflight, OnDelayed, ZAdd, Types, DelayedT
<1>4. OnInflight(m)' => OnInflight(m)
  BY DEF Provide, Enqueue, EnqueueDelayed, EnqueueIfNotInflight, OnInflight
<1> QED
  BY <1>2, <1>3, <1>4 DEF Stored

(* The loops move copies, Remove drops them.                               *)
LEMMA LoopsStored ==
  ASSUME Types, NEW m \in Member, Stored(m)',
         (\E q \in Queues : PromoteDelayed(q) \/ ReclaimInflight(q)) \/ (\E t \in Tasks : Remove(t))
  PROVE  Stored(m)
<1>1. ASSUME NEW q \in Queues, PromoteDelayed(q) PROVE Stored(m)
  <2>1. PICK B \in SUBSET delayed[q] :
          /\ ready' = [ready EXCEPT ![q] = {e \in ready[q] : e.member \notin ZMembers(B)}
                         \cup {[member |-> x, score |-> Score(x)] : x \in ZMembers(B)}]
          /\ delayed' = [delayed EXCEPT ![q] = delayed[q] \ B]
          /\ UNCHANGED <<now, inflight, lease, stats, held, pipe>>
    BY <1>1 DEF PromoteDelayed, ZRangeByScore
  <2>2. OnReady(m)' => OnReady(m) \/ OnDelayed(m)
    BY <2>1 DEF OnReady, OnDelayed, ZMembers, Types, ReadyT
  <2>3. (OnDelayed(m)' => OnDelayed(m)) /\ (OnInflight(m)' => OnInflight(m))
    BY <2>1 DEF OnDelayed, OnInflight, Types, DelayedT
  <2> QED
    BY <2>2, <2>3 DEF Stored
<1>2. ASSUME NEW q \in Queues, ReclaimInflight(q) PROVE Stored(m)
  <2>1. PICK B : Reclaims(q, B)
    BY <1>2, ReclaimPicks
  <2>2. ZMembers(B) \in SUBSET Tasks
    BY <2>1 DEF Reclaims, ZMembers, Types, LeaseT, Entries
  <2>3. OnReady(m)' => OnReady(m) \/ OnInflight(m)
    BY <2>1, <2>2 DEF Reclaims, OnReady, OnInflight, Types, ReadyT
  <2>4. (OnDelayed(m)' => OnDelayed(m)) /\ (OnInflight(m)' => OnInflight(m))
    BY <2>1, NoneAssumption DEF Reclaims, OnDelayed, OnInflight, Types, InflightT
  <2> QED
    BY <2>3, <2>4 DEF Stored
<1>3. ASSUME NEW t \in Tasks, Remove(t) PROVE Stored(m)
  <2>1. QueueOf[t] \in Queues
    BY TaskAssumption
  <2>2. (OnReady(m)' => OnReady(m)) /\ (OnDelayed(m)' => OnDelayed(m))
    BY <1>3, <2>1 DEF Remove, OnReady, OnDelayed, Types, ReadyT, DelayedT
  <2>3. OnInflight(m)' => OnInflight(m)
    BY <1>3, <2>1, NoneAssumption DEF Remove, OnInflight, Types, InflightT
  <2> QED
    BY <2>2, <2>3 DEF Stored
<1> QED
  BY <1>1, <1>2, <1>3

(* A consumer only stores the copy a Nack carries.                         *)
LEMMA CallsStored ==
  ASSUME Types, NEW c \in Clients, Calls(c), NEW m \in Member, Stored(m)' PROVE Stored(m) \/ Waiting(m)
<1>1. CASE Dequeue(c)
  <2>1. PICK q \in Queues : \E e \in ready[q] : Dequeues(c, q, e)
    BY <1>1, DequeuePicks
  <2>2. PICK e \in ready[q] : Dequeues(c, q, e)
    BY <2>1
  <2>3. OnReady(m)' \/ OnDelayed(m)' => Stored(m)
    BY <2>2 DEF Dequeues, OnReady, OnDelayed, Stored, Types, ReadyT
  <2>4. OnInflight(m)' => OnInflight(m) \/ m = e.member
    BY <2>2 DEF Dequeues, OnInflight, Types, InflightT
  <2> QED
    BY <2>2, <2>3, <2>4 DEF Stored, OnReady
<1>2. CASE ExecHDel(c)
  <2>1. pipe[c].task.id \in Tasks /\ QueueOf[pipe[c].task.id] \in Queues
    BY <1>2, PipeTask DEF ExecHDel
  <2>2. (OnReady(m)' => OnReady(m)) /\ (OnDelayed(m)' => OnDelayed(m))
    BY <1>2 DEF ExecHDel, OnReady, OnDelayed
  <2>3. OnInflight(m)' => OnInflight(m)
    BY <1>2, <2>1, NoneAssumption DEF ExecHDel, OnInflight, Types, InflightT
  <2> QED
    BY <2>2, <2>3 DEF Stored
<1>3. CASE ExecLast(c)
  <2>1. QueueOf[pipe[c].task.id] \in Queues /\ pipe[c].cmd # "none"
    BY <1>3, PipeTask DEF ExecLast
  <2>2. (OnReady(m)' => OnReady(m) \/ Waiting(m))
    BY <1>3, <2>1 DEF ExecLast, OnReady, Waiting, ZAdd, Types, ReadyT
  <2>3. (OnDelayed(m)' => OnDelayed(m) \/ Waiting(m))
    BY <1>3, <2>1 DEF ExecLast, OnDelayed, Waiting, ZAdd, Types, DelayedT
  <2>4. OnInflight(m)' => OnInflight(m)
    BY <1>3 DEF ExecLast, OnInflight
  <2> QED
    BY <2>2, <2>3, <2>4 DEF Stored
<1>4. CASE ExtendLease(c) \/ Ack(c) \/ ExecZRem(c) \/ \E x \in Member : Nack(c, x) \/ Revise(c, x)
  <2>1. UNCHANGED <<ready, delayed, inflight>>
    BY <1>4 DEF ExtendLease, Ack, ExecZRem, Nack, Revise
  <2> QED
    BY <2>1 DEF Stored, OnReady, OnDelayed, OnInflight
<1> QED
  BY <1>1, <1>2, <1>3, <1>4 DEF Calls, Exec

(* The rest stores nothing.                                                *)
LEMMA ForgetStored ==
  ASSUME NEW m, Stored(m)', (\E G \in SUBSET Clients : Forget(G)) \/ Tick \/ UNCHANGED brokerVars
  PROVE  Stored(m)
<1>1. UNCHANGED <<ready, delayed, inflight>>
  BY DEF Forget, Tick, brokerVars
<1> QED
  BY <1>1 DEF Stored, OnReady, OnDelayed, OnInflight

\* The copy waits in its queue.
Listed(m) == m \in ZMembers(ready[QueueOf[m.id]]) \/ m \in ZMembers(delayed[QueueOf[m.id]])

(* Remove of one task leaves the copies of the others.                     *)
LEMMA ListedOthers ==
  ASSUME Types, NEW t \in Tasks, Remove(t), NEW m \in Member, Listed(m), m.id # t
  PROVE  Listed(m)'
<1> DEFINE q0 == QueueOf[m.id]
<1>1. QueueOf[t] \in Queues /\ q0 \in Queues
  BY ScoreType, TaskAssumption
<1>2. ASSUME NEW e \in ready[q0], e.member = m PROVE m \in ZMembers(ready'[q0])
  <2>1. e \in ready'[q0]
    BY <1>1, <1>2 DEF Remove, Types, ReadyT
  <2> QED
    BY <1>2, <2>1, MembersOf
<1>3. ASSUME NEW e \in delayed[q0], e.member = m PROVE m \in ZMembers(delayed'[q0])
  <2>1. e \in delayed'[q0]
    BY <1>1, <1>3 DEF Remove, Types, DelayedT
  <2> QED
    BY <1>3, <2>1, MembersOf
<1> QED
  BY <1>2, <1>3, MembersOf DEF Listed

(* Other than by Remove, a copy leaves its queue only with a consumer.     *)
LEMMA ListedStays ==
  ASSUME Types, [QueueStep]_brokerVars, NEW m \in Member, Listed(m)
  PROVE  Listed(m)' \/ \E c \in Clients : Dequeue(c) /\ held'[c] = m
<1> DEFINE q0 == QueueOf[m.id]
           Kept == /\ ZMembers(ready[q0]) \subseteq ZMembers(ready'[q0])
                   /\ ZMembers(delayed[q0]) \subseteq ZMembers(delayed'[q0])
<1>1. q0 \in Queues /\ (Kept => Listed(m)')
  BY ScoreType DEF Listed
<1>2. ASSUME UNCHANGED <<ready, delayed>> PROVE Listed(m)'
  BY <1>2 DEF Listed
<1>3. ASSUME NEW x \in Member, Provide(x) PROVE Listed(m)'
  <2>1. QueueOf[x.id] \in Queues
    BY ScoreType
  <2>2. ZMembers(ready[q0]) \subseteq ZMembers(ready'[q0])
    BY <1>1, <1>3, <2>1, ZAddMembers DEF Provide, Enqueue, EnqueueDelayed, EnqueueIfNotInflight, Types, ReadyT
  <2>3. ZMembers(delayed[q0]) \subseteq ZMembers(delayed'[q0])
    BY <1>1, <1>3, <2>1, ZAddMembers DEF Provide, Enqueue, EnqueueDelayed, EnqueueIfNotInflight, Types, DelayedT
  <2> QED
    BY <1>1, <2>2, <2>3
<1>4. ASSUME NEW q \in Queues, PromoteDelayed(q) PROVE Listed(m)'
  <2>1. PICK B \in SUBSET delayed[q] :
          /\ ready' = [ready EXCEPT ![q] = {e \in ready[q] : e.member \notin ZMembers(B)}
                         \cup {[member |-> x, score |-> Score(x)] : x \in ZMembers(B)}]
          /\ delayed' = [delayed EXCEPT ![q] = delayed[q] \ B]
    BY <1>4 DEF PromoteDelayed, ZRangeByScore
  <2>2. CASE q # q0
    <3>1. ready'[q0] = ready[q0] /\ delayed'[q0] = delayed[q0]
      BY <1>1, <2>1, <2>2 DEF Types, ReadyT, DelayedT
    <3> QED
      BY <3>1 DEF Listed
  <2>3. CASE q = q0
    <3>1. ZMembers(ready[q]) \cup ZMembers(B) \subseteq ZMembers(ready'[q])
      BY <2>1, AddAllMembers DEF Types, ReadyT
    <3>2. ZMembers(delayed[q]) \subseteq ZMembers(B) \cup ZMembers(delayed'[q])
      BY <2>1, MembersOf DEF Types, DelayedT
    <3> QED
      BY <2>3, <3>1, <3>2 DEF Listed
  <2> QED
    BY <2>2, <2>3
<1>5. ASSUME NEW q \in Queues, ReclaimInflight(q) PROVE Listed(m)'
  <2>1. PICK B : Reclaims(q, B)
    BY <1>5, ReclaimPicks
  <2> DEFINE D == {inflight[q][t] : t \in {u \in ZMembers(B) : inflight[q][u] # None}}
  <2>2. /\ ready' = [ready EXCEPT ![q] = {e \in ready[q] : e.member \notin D}
                                         \cup {[member |-> x, score |-> Score(x)] : x \in D}]
        /\ delayed' = delayed
    BY <2>1 DEF Reclaims
  <2>3. CASE q # q0
    BY <1>1, <2>2, <2>3 DEF Types, ReadyT
  <2>4. CASE q = q0
    <3>1. ZMembers(ready[q]) \subseteq ZMembers(ready'[q])
      <4> HIDE DEF D
      <4> QED
        BY <2>2, AddAllMembers DEF Types, ReadyT
    <3> QED
      BY <1>1, <2>2, <2>4, <3>1
  <2> QED
    BY <2>3, <2>4
<1>6. ASSUME NEW c \in Clients, Dequeue(c) PROVE Listed(m)' \/ held'[c] = m
  <2>1. PICK q \in Queues : \E e \in ready[q] : Dequeues(c, q, e)
    BY <1>6, DequeuePicks
  <2>2. PICK e \in ready[q] : Dequeues(c, q, e)
    BY <2>1
  <2>3. held'[c] = e.member /\ delayed' = delayed /\ ready' = [ready EXCEPT ![q] = @ \ {e}]
    BY <2>2 DEF Dequeues, Types, HeldT
  <2>4. ZMembers(ready[q0]) \subseteq ZMembers(ready'[q0]) \cup {e.member}
    BY <1>1, <2>3, MembersOf DEF Types, ReadyT
  <2> QED
    BY <2>3, <2>4 DEF Listed
<1>7. ASSUME NEW c \in Clients, ExecLast(c) PROVE Listed(m)'
  <2>1. QueueOf[pipe[c].task.id] \in Queues
    BY <1>7, PipeTask DEF ExecLast
  <2>2. ZMembers(ready[q0]) \subseteq ZMembers(ready'[q0])
    BY <1>1, <1>7, <2>1, ZAddMembers DEF ExecLast, Types, ReadyT
  <2>3. ZMembers(delayed[q0]) \subseteq ZMembers(delayed'[q0])
    BY <1>1, <1>7, <2>1, ZAddMembers DEF ExecLast, Types, DelayedT
  <2> QED
    BY <1>1, <2>2, <2>3
<1>8. ASSUME NEW c \in Clients, Calls(c), ~Dequeue(c), ~ExecLast(c) PROVE Listed(m)'
  BY <1>2, <1>8 DEF Calls, Exec, ExtendLease, Ack, ExecHDel, ExecZRem, Nack, Revise
<1>9. CASE (\E G \in SUBSET Clients : Forget(G)) \/ Tick \/ UNCHANGED brokerVars
  BY <1>2, <1>9 DEF Forget, Tick, brokerVars
<1> QED
  BY <1>3, <1>4, <1>5, <1>6, <1>7, <1>8, <1>9 DEF QueueStep

(* The last command of a Nack puts its copy into the queue.                *)
LEMMA ReturnListed ==
  ASSUME Types, NEW c \in Clients, ExecLast(c), pipe[c].kind \in {"retryAt", "retryNow"},
         NEW m, pipe[c].task = m
  PROVE  Listed(m)'
<1>1. QueueOf[m.id] \in Queues
  BY PipeTask DEF ExecLast
<1>2. pipe[c].kind = "retryNow" => m \in ZMembers(ready'[QueueOf[m.id]])
  BY <1>1, ZAddMembers DEF ExecLast, Types, ReadyT
<1>3. pipe[c].kind = "retryAt" => m \in ZMembers(delayed'[QueueOf[m.id]])
  BY <1>1, ZAddMembers DEF ExecLast, Types, DelayedT
<1> QED
  BY <1>2, <1>3 DEF Listed

-----------------------------------------------------------------------------
(* The system.                                                             *)

(* The version Update leaves in the struct.                                *)
LEMMA BumpedType ==
  ASSUME NEW m \in Member
  PROVE  /\ Bumped(m) \in Member /\ Bumped(m).id = m.id
         /\ Bumped(m).version = m.version + 1 /\ Bumped(m).retry = m.retry
  BY DEF Bumped, Member

\* The struct handleFailure writes.
Failing(m) == [m EXCEPT !.retry = @ + 1]

(* handleFailure counts the attempt.                                       *)
LEMMA FailingType ==
  ASSUME NEW m \in Member
  PROVE  /\ Failing(m) \in Member /\ Failing(m).id = m.id
         /\ Failing(m).version = m.version /\ Failing(m).retry = m.retry + 1
  BY DEF Failing, Member

\* The struct CancelTask writes.
Cancelling(t) == [Copy(t, 0) EXCEPT !.version = request[t].version]

(* CancelTask writes the version it loaded, and no count.                  *)
LEMMA CancellingType ==
  ASSUME NEW t \in Tasks, request[t].version \in Nat
  PROVE  /\ Cancelling(t) \in Member /\ Cancelling(t).id = t
         /\ Cancelling(t).version = request[t].version /\ Cancelling(t).retry = 0
  BY DEF Cancelling, Copy, Member

(* A struct read from the table.                                           *)
LEMMA LoadedType ==
  ASSUME NEW t \in Tasks, rows[t] \in Row
  PROVE  /\ Loaded(t) \in Member /\ Loaded(t).id = t
         /\ Loaded(t).version = rows[t].version /\ Loaded(t).retry = rows[t].retry
  BY DEF Loaded, Member, Row

-----------------------------------------------------------------------------
(* The type invariant, one part per group of variables.                    *)

ApiT ==
  /\ submit \in [Tasks -> {"new", "created", "done"}]
  /\ due \in [Tasks -> Nat]
  /\ request \in [Tasks -> [pc : {"none", "loaded", "remove", "publish", "done"}, version : Nat]]

(* Only what may be cancelled is cancelled.                                *)
Asked == \A t \in Tasks : request[t].pc # "none" => t \in Cancellable

SlotT == slot \in [Clients -> [pc : PCs, id : Tasks \cup {None}]]
MapT == dead \in [Clients -> BOOLEAN] /\ cancels \in [Workers -> [Tasks -> Clients \cup {None}]]
SignalT == signals \subseteq Workers \X Tasks /\ delivered \subseteq Workers \X Tasks
CompT == comp \in [todo : SUBSET Member, touch : Tasks \cup {None}]
BudgetT == crashes \in Nat /\ faults \in Nat /\ lost \in Nat

Early == {"extend", "check1", "track", "check2", "start"}
Late == {"handling", "failing"}
Ending == {"acking", "finishing"}

(* What processTask has in its hands at each place: the task it was given, *)
(* until it returned it or lost it, and a pipeline only while Redis works  *)
(* on one.                                                                 *)
SlotOK(c) ==
  /\ slot[c].pc \in {"idle", "untrack"} => held[c] = None /\ pipe[c] = NoPipe
  /\ slot[c].pc = "idle" => slot[c] = IdleSlot
  /\ slot[c].pc \in Early \cup Late \cup Ending => held[c] \in Member /\ held[c].id = slot[c].id
  /\ slot[c].pc # "idle" => slot[c].id \in Tasks
  /\ slot[c].pc \in (Early \ {"extend"}) \cup Late => pipe[c] = NoPipe
  /\ slot[c].pc = "extend" => pipe[c].cmd = "extend"
  /\ slot[c].pc \in Ending => pipe[c].cmd \in {"hdel", "zrem", "last"} /\ pipe[c].task = held[c]

Slots == \A c \in Clients : SlotOK(c)

DTypes == Types /\ StoreTypeOK /\ ApiT /\ Asked /\ SlotT /\ MapT /\ SignalT /\ CompT /\ BudgetT

Base == DTypes /\ Slots

(* The parts make up TypeOK.                                               *)
LEMMA BaseTypeOK == Base => TypeOK
  BY TypesAre DEF Base, DTypes, TypeOK, ApiT, SlotT, MapT, SignalT, CompT, BudgetT

(* Initially.                                                              *)
LEMMA InitBase == Init => Base
<1> SUFFICES ASSUME Init PROVE Base
  OBVIOUS
<1>1. Types
  BY InitTypes DEF Init
<1>2. StoreTypeOK /\ ApiT /\ Asked
  BY DEF Init, StoreInit, StoreTypeOK, ApiT, Asked, NoRequest
<1>3. SlotT /\ MapT /\ SignalT /\ BudgetT
  BY DEF Init, SlotT, MapT, SignalT, BudgetT, IdleSlot, PCs
<1>4. CompT
  BY DEF Init, CompT, NoComp
<1>5. Slots
  BY DEF Init, BrokerInit, Slots, SlotOK, IdleSlot, Early, Late, Ending
<1> QED
  BY <1>1, <1>2, <1>3, <1>4, <1>5 DEF Base, DTypes

(* The task a busy client works on.                                        *)
LEMMA HeldMember ==
  ASSUME Base, NEW c \in Clients, slot[c].pc \in Early \cup Late \cup Ending
  PROVE  held[c] \in Member /\ held[c].id = slot[c].id /\ slot[c].id \in Tasks
  BY DEF Base, Slots, SlotOK, Early, Late, Ending

(* What the steps of processTask never touch.                              *)
LEMMA ProcessFrame ==
  ASSUME NEW c \in Clients, Process(c)
  PROVE  UNCHANGED <<submit, due, request, signals, delivered, comp, crashes, lost>>
  BY DEF Process, Fetch, FetchExtend, Check1, Track, Check2, Start, HandleSuccess, HandlerFails,
     HandleFailure, Pipelined, PipelineFails, Untrack, notWorker, apiVars, signalVars, budget,
     SeesTerminal, SeesLive, Succeeds, Errs, Fault, NoFault

(* What the API never touches.                                             *)
LEMMA ApiFrame ==
  ASSUME NEW t \in Tasks, Api(t)
  PROVE  UNCHANGED <<slot, dead, cancels, delivered, comp, crashes>>
  BY DEF Api, SubmitCreate, SubmitEnqueue, CancelGet, CancelUpdate, CancelRemove, CancelPublish,
     workerVars, signalVars, budget, Fault, NoFault

(* What the scheduler and the clock never touch.                           *)
LEMMA SchedulerFrame ==
  ASSUME Scheduler \/ Clock
  PROVE  UNCHANGED <<submit, due, request, slot, dead, cancels, signals, delivered, crashes, lost>>
  BY DEF Scheduler, Clock, Promote, Reclaim, CompensateFind, CompensateEnqueue, CompensateTouch,
     Cleanup, notScheduler, apiVars, workerVars, signalVars, budget, Fault, NoFault

-----------------------------------------------------------------------------
(* Every step is a step of a caller of the broker.                         *)

(* A client that loses its task.                                           *)
LEMMA VanishCalls ==
  ASSUME Base, NEW c \in Clients, Vanish(c) PROVE QueueStep
  BY VanishForgets DEF Base, DTypes, QueueStep

(* Reading and writing rows makes no call; each operation that does is one *)
(* of the broker's, on a copy of the task.                                 *)
LEMMA ApiCalls ==
  ASSUME Base, NEW t \in Tasks, Api(t)
  PROVE  QueueStep \/ UNCHANGED brokerVars \/ (CancelRemove(t) /\ t \in Cancellable /\ Remove(t))
<1>1. Copy(t, 0) \in Member
  BY CopyType
<1>2. CASE SubmitEnqueue(t)
  BY <1>1, <1>2 DEF SubmitEnqueue, brokerVars, QueueStep, Provide
<1>3. CASE CancelRemove(t)
  <2>1. t \in Cancellable
    BY <1>3 DEF CancelRemove, Base, DTypes, Asked
  <2> QED
    BY <1>3, <2>1 DEF CancelRemove
<1>4. CASE SubmitCreate(t) \/ CancelGet(t) \/ CancelUpdate(t) \/ CancelPublish(t)
  BY <1>4 DEF SubmitCreate, CancelGet, CancelUpdate, CancelPublish
<1> QED
  BY <1>2, <1>3, <1>4 DEF Api

(* The same of processTask: Start writes the new version into its struct.  *)
LEMMA ProcessCalls ==
  ASSUME Base, NEW c \in Clients, Process(c) PROVE Calls(c) \/ Vanish(c) \/ UNCHANGED brokerVars
<1>1. CASE Fetch(c)
  BY <1>1 DEF Fetch, Calls
<1>2. CASE FetchExtend(c)
  BY <1>2 DEF FetchExtend, Calls
<1>3. CASE Check1(c) \/ Check2(c) \/ HandlerFails(c)
  BY <1>3 DEF Check1, Check2, HandlerFails, Calls, brokerVars
<1>4. CASE Track(c) \/ Untrack(c)
  BY <1>4 DEF Track, Untrack
<1>5. CASE Start(c)
  <2>1. held[c] \in Member
    BY <1>5, HeldMember DEF Start, Early
  <2>2. Revise(c, Bumped(held[c])) /\ Bumped(held[c]) \in Member
    BY <1>5, <2>1, BumpedType DEF Start, Revise
  <2> QED
    BY <2>2 DEF Calls
<1>6. CASE HandleSuccess(c)
  BY <1>6 DEF HandleSuccess, Calls
<1>7. CASE HandleFailure(c)
  <2>1. held[c] \in Member
    BY <1>7, HeldMember DEF HandleFailure, Late
  <2>2. Bumped(Failing(held[c])) \in Member
    BY <2>1, FailingType, BumpedType
  <2>3. Nack(c, Bumped(Failing(held[c]))) \/ Vanish(c) \/ Ack(c)
    BY <1>7 DEF HandleFailure, Failing
  <2> QED
    BY <2>2, <2>3 DEF Calls
<1>8. CASE Pipelined(c)
  BY <1>8 DEF Pipelined, Calls, Exec
<1>9. CASE PipelineFails(c)
  BY <1>9 DEF PipelineFails
<1> QED
  BY <1>1, <1>2, <1>3, <1>4, <1>5, <1>6, <1>7, <1>8, <1>9 DEF Process

(* The same of a crash, which forgets the tasks of the worker's clients.   *)
LEMMA CrashCalls == ASSUME Base, NEW w \in Workers, Crash(w) PROVE QueueStep
<1>1. Forget({c \in Clients : WorkerOf[c] = w})
  BY DEF Crash, Forget
<1> QED
  BY <1>1 DEF QueueStep

(* The same of the scheduler and the clock.                                *)
LEMMA SchedulerCalls == ASSUME Base, Scheduler \/ Clock PROVE QueueStep \/ UNCHANGED brokerVars
<1>1. CASE CompensateEnqueue
  <2>1. comp.todo \subseteq Member
    BY DEF Base, DTypes, CompT
  <2> QED
    BY <1>1, <2>1 DEF CompensateEnqueue, QueueStep, Provide
<1>2. CASE CompensateFind \/ CompensateTouch \/ Cleanup
  BY <1>2 DEF CompensateFind, CompensateTouch, Cleanup
<1>3. CASE Clock \/ \E q \in Queues : Promote(q) \/ Reclaim(q)
  BY <1>3 DEF Clock, Promote, Reclaim, QueueStep
<1> QED
  BY <1>1, <1>2, <1>3 DEF Scheduler

(* So every step of Dispatch is a call, none to the broker, or the Remove  *)
(* of a cancellation.                                                      *)
LEMMA QueueCalls ==
  ASSUME Base, [Next]_vars
  PROVE  [QueueStep]_brokerVars \/ \E t \in Tasks : CancelRemove(t) /\ t \in Cancellable /\ Remove(t)
<1>1. ASSUME NEW w \in Workers, NEW t \in Tasks, CancelListen(w, t) PROVE UNCHANGED brokerVars
  BY <1>1 DEF CancelListen
<1>2. CASE UNCHANGED vars
  BY <1>2 DEF vars
<1>3. ASSUME NEW c \in Clients, Process(c) PROVE QueueStep \/ UNCHANGED brokerVars
  BY <1>3, ProcessCalls, VanishCalls DEF QueueStep
<1> QED
  BY <1>1, <1>2, <1>3, ApiCalls, CrashCalls, SchedulerCalls DEF Next

(* In particular, one of a caller of the broker.                           *)
LEMMA DispatchCalls == ASSUME Base, [Next]_vars PROVE [CallerStep]_brokerVars
  BY QueueCalls DEF CallerStep

-----------------------------------------------------------------------------
(* The steps of the tasks table.                                           *)

CreateStep(t) == submit[t] = "new" /\ submit'[t] = "created" /\ Create(t, now)
CancelStep(t) == t \in Cancellable /\ request[t].pc = "loaded" /\ UpdateOk(Cancelling(t), "cancelled", now)
StartStep(c) == slot[c].pc = "start" /\ UpdateOk(held[c], "running", now)
SuccessStep(c) == slot[c].pc = "handling" /\ UpdateOk(held[c], "completed", now)
FailureStep(c) ==
  /\ slot[c].pc = "failing"
  /\ UpdateOk(Failing(held[c]), IF CanRetry(Failing(held[c])) THEN "retrying" ELSE "failed", now)
TouchStep(t) == TouchUpdatedAt(t, now)
DeleteStep(B) == /\ \A t \in B : GotTerminal(t)
                 /\ rows' = [t \in Tasks |-> IF t \in B THEN None ELSE rows[t]]

TableStep ==
  \/ \E t \in Tasks : CreateStep(t) \/ CancelStep(t) \/ TouchStep(t)
  \/ \E c \in Clients : StartStep(c) \/ SuccessStep(c) \/ FailureStep(c)
  \/ \E B \in SUBSET Tasks : DeleteStep(B)

(* One Update, whatever it returns, wrote the struct or nothing.           *)
LEMMA UpdateOrNot ==
  ASSUME NEW m, NEW s, Succeeds(m, s) \/ Errs(m, s) PROVE UpdateOk(m, s, now) \/ rows' = rows
  BY DEF Succeeds, Errs, UpdateConflict, UpdateFails

(* processTask writes only in its three Updates.                           *)
LEMMA ProcessTable ==
  ASSUME Base, NEW c \in Clients, Process(c)
  PROVE  StartStep(c) \/ SuccessStep(c) \/ FailureStep(c) \/ rows' = rows
<1>1. CASE Start(c)
  BY <1>1, UpdateOrNot DEF Start, StartStep
<1>2. CASE HandleSuccess(c)
  BY <1>2, UpdateOrNot DEF HandleSuccess, SuccessStep
<1>3. CASE HandleFailure(c)
  <2>1. CASE CanRetry(Failing(held[c]))
    BY <1>3, <2>1, UpdateOrNot DEF HandleFailure, FailureStep, Failing
  <2>2. CASE ~CanRetry(Failing(held[c]))
    BY <1>3, <2>2, UpdateOrNot DEF HandleFailure, FailureStep, Failing
  <2> QED
    BY <2>1, <2>2
<1> QED
  BY <1>1, <1>2, <1>3 DEF Process, Fetch, FetchExtend, Check1, Track, Check2, HandlerFails,
     Pipelined, PipelineFails, Untrack, notWorker

(* The API creates a row, and cancels.                                     *)
LEMMA ApiTable ==
  ASSUME Base, NEW t \in Tasks, Api(t) PROVE CreateStep(t) \/ CancelStep(t) \/ rows' = rows
<1>1. CASE CancelUpdate(t)
  <2>1. request[t].pc = "loaded" /\ t \in Cancellable
    BY <1>1 DEF CancelUpdate, Base, DTypes, Asked
  <2> QED
    BY <1>1, <2>1 DEF CancelUpdate, CancelStep, Cancelling, UpdateConflict, UpdateFails
<1>2. CASE SubmitCreate(t)
  <2>1. submit'[t] = "created"
    BY <1>2 DEF SubmitCreate, Base, DTypes, ApiT
  <2> QED
    BY <1>2, <2>1 DEF SubmitCreate, CreateStep
<1> QED
  BY <1>1, <1>2 DEF Api, SubmitEnqueue, CancelGet, CancelRemove, CancelPublish

(* The scheduler refreshes updated_at, and deletes.                        *)
LEMMA SchedulerTable ==
  ASSUME Base, Scheduler \/ Clock
  PROVE  (\E t \in Tasks : TouchStep(t)) \/ (\E B \in SUBSET Tasks : DeleteStep(B)) \/ rows' = rows
<1>1. CASE CompensateTouch
  <2>1. comp.touch # None => comp.touch \in Tasks
    BY DEF Base, DTypes, CompT
  <2> QED
    BY <1>1, <2>1 DEF CompensateTouch, TouchStep
<1>2. CASE Cleanup
  BY <1>2 DEF Cleanup, DeleteTerminalOlderThan, DeleteStep
<1> QED
  BY <1>1, <1>2 DEF Scheduler, Clock, Promote, Reclaim, CompensateFind, CompensateEnqueue

(* So every step of Dispatch is a step of the table, or none.              *)
LEMMA DispatchTable == ASSUME Base, [Next]_vars PROVE TableStep \/ rows' = rows
<1>1. CASE \/ \E w \in Workers : Crash(w) \/ \E t \in Tasks : CancelListen(w, t)
           \/ UNCHANGED vars
  BY <1>1 DEF Crash, CancelListen, vars
<1> QED
  BY <1>1, ApiTable, ProcessTable, SchedulerTable DEF Next, TableStep

(* What an Update that matched does to its row.                            *)
LEMMA UpdateEffect ==
  ASSUME StoreTypeOK, now \in Nat, NEW m \in Member, NEW s \in TaskState, UpdateOk(m, s, now)
  PROVE  /\ m.id \in Tasks /\ rows[m.id] \in Row /\ rows[m.id].version = m.version
         /\ rows' \in [Tasks -> Row \cup {None}]
         /\ rows'[m.id] \in Row /\ rows'[m.id].state = s /\ rows'[m.id].version = m.version + 1
         /\ rows'[m.id].retry = IF m.retry = 0 THEN rows[m.id].retry ELSE m.retry
         /\ rows'[m.id].updated = now
         /\ \A u \in Tasks : u # m.id => rows'[u] = rows[u]
<1>1. m.id \in Tasks /\ m.version \in Nat /\ m.retry \in Nat
  BY DEF Member
<1>2. rows[m.id] \in Row /\ rows[m.id].version = m.version
  BY <1>1 DEF UpdateOk, Matches, StoreTypeOK
<1> DEFINE new == [state |-> s, version |-> m.version + 1,
                   retry |-> IF m.retry = 0 THEN rows[m.id].retry ELSE m.retry,
                   updated |-> now,
                   finished |-> IF IsTerminal(s) THEN now ELSE rows[m.id].finished]
<1>3. rows' = [rows EXCEPT ![m.id] = new]
  BY DEF UpdateOk, Written
<1>4. new \in Row
  BY <1>1, <1>2 DEF Row
<1>5. rows'[m.id] = new /\ \A u \in Tasks : u # m.id => rows'[u] = rows[u]
  BY <1>1, <1>3 DEF StoreTypeOK
<1>6. rows' \in [Tasks -> Row \cup {None}]
  BY <1>3, <1>4 DEF StoreTypeOK
<1> QED
  BY <1>1, <1>2, <1>4, <1>5, <1>6

(* The steps of the table keep its type.                                   *)
LEMMA TableType == ASSUME Base, TableStep \/ rows' = rows PROVE StoreTypeOK'
<1>1. StoreTypeOK /\ now \in Nat
  BY DEF Base, DTypes, Types
<1>2. ASSUME NEW t \in Tasks, CreateStep(t) PROVE StoreTypeOK'
  BY <1>1, <1>2 DEF CreateStep, Create, StoreTypeOK, Row, TaskState
<1>3. ASSUME NEW t \in Tasks, CancelStep(t) PROVE StoreTypeOK'
  <2>1. request[t].version \in Nat
    BY DEF Base, DTypes, ApiT
  <2> QED
    BY <1>1, <1>3, <2>1, CancellingType, UpdateEffect DEF CancelStep, StoreTypeOK, TaskState
<1>4. ASSUME NEW t \in Tasks, TouchStep(t) PROVE StoreTypeOK'
  <2>1. CASE rows[t] # None
    <3>1. rows[t] \in Row
      BY <1>1, <2>1 DEF StoreTypeOK
    <3>2. [rows[t] EXCEPT !.updated = now] \in Row
      BY <1>1, <3>1 DEF Row
    <3> QED
      BY <1>1, <1>4, <2>1, <3>2 DEF TouchStep, TouchUpdatedAt, StoreTypeOK
  <2> QED
    BY <1>1, <1>4, <2>1 DEF TouchStep, TouchUpdatedAt, StoreTypeOK
<1>5. ASSUME NEW c \in Clients, StartStep(c) \/ SuccessStep(c) \/ FailureStep(c) PROVE StoreTypeOK'
  <2>1. held[c] \in Member /\ Failing(held[c]) \in Member
    BY <1>5, HeldMember, FailingType DEF StartStep, SuccessStep, FailureStep, Early, Late
  <2> QED
    BY <1>1, <1>5, <2>1, UpdateEffect DEF StartStep, SuccessStep, FailureStep, StoreTypeOK, TaskState
<1>6. ASSUME NEW B \in SUBSET Tasks, DeleteStep(B) PROVE StoreTypeOK'
  BY <1>1, <1>6 DEF DeleteStep, StoreTypeOK
<1> QED
  BY <1>1, <1>2, <1>3, <1>4, <1>5, <1>6 DEF TableStep, StoreTypeOK

-----------------------------------------------------------------------------
(* Where processTask is, and what it has in its hands.                     *)

(* The types of the parts of one client.                                   *)
LEMMA ClientTypes ==
  ASSUME Base
  PROVE  /\ slot \in [Clients -> [pc : PCs, id : Tasks \cup {None}]]
         /\ held \in [Clients -> Member \cup {None}] /\ pipe \in [Clients -> Pipeline]
         /\ \A c \in Clients : SlotOK(c) /\ (pipe[c].cmd # "none" => pipe[c].task \in Member)
  BY DEF Base, DTypes, Types, SlotT, HeldT, PipeT, Slots

(* A step of the broker leaves one client's hands as they are, or is a     *)
(* step of that client.                                                    *)
SameHands(d) == held'[d] = held[d] /\ pipe'[d] = pipe[d]

(* processTask touches nothing of another client.                          *)
LEMMA ProcessOthers ==
  ASSUME Base, NEW c \in Clients, Process(c), NEW d \in Clients, d # c
  PROVE  slot'[d] = slot[d] /\ SameHands(d)
<1>1. /\ slot \in [Clients -> [pc : PCs, id : Tasks \cup {None}]]
      /\ held \in [Clients -> Member \cup {None}] /\ pipe \in [Clients -> Pipeline]
  BY ClientTypes
<1>2. slot'[d] = slot[d]
  BY <1>1 DEF Process, Fetch, FetchExtend, Check1, Track, Check2, Start, HandleSuccess, HandlerFails,
     HandleFailure, Pipelined, PipelineFails, Untrack, Goto, Leave
<1>3. ASSUME Dequeue(c) PROVE SameHands(d)
  BY <1>1, <1>3 DEF Dequeue, SameHands
<1>4. ASSUME \/ ExtendLease(c) \/ Ack(c) \/ (\E m : Nack(c, m)) \/ Vanish(c)
             \/ ExecHDel(c) \/ ExecZRem(c) \/ ExecLast(c) \/ UNCHANGED brokerVars
      PROVE SameHands(d)
  BY <1>1, <1>4 DEF ExtendLease, Ack, Nack, Vanish, ExecHDel, ExecZRem, ExecLast, SameHands, brokerVars
<1>5. CASE Start(c)
  BY <1>1, <1>2, <1>5 DEF Start, SameHands
<1>6. CASE Fetch(c) \/ FetchExtend(c) \/ Check1(c) \/ Track(c) \/ Check2(c) \/ HandleSuccess(c)
           \/ HandlerFails(c)
  BY <1>2, <1>3, <1>4, <1>6 DEF Fetch, FetchExtend, Check1, Track, Check2, HandleSuccess, HandlerFails, brokerVars
<1>7. CASE HandleFailure(c) \/ Pipelined(c) \/ PipelineFails(c) \/ Untrack(c)
  BY <1>2, <1>4, <1>7 DEF HandleFailure, Pipelined, PipelineFails, Untrack, brokerVars
<1> QED
  BY <1>2, <1>5, <1>6, <1>7 DEF Process

(* The hands of the client itself, call by call.                           *)
LEMMA DequeueHands ==
  ASSUME Base, NEW c \in Clients, Dequeue(c)
  PROVE  /\ held'[c] \in Member /\ held'[c].id \in Tasks
         /\ pipe'[c] = NoPipe \/ pipe'[c].cmd = "extend"
         /\ pipe'[c].kind \notin {"retryAt", "retryNow"}
         /\ \E q \in Queues : \E e \in ready[q] : held'[c] = e.member
<1>1. PICK q \in Queues : \E e \in ready[q] : Dequeues(c, q, e)
  BY DequeuePicks
<1>2. PICK e \in ready[q] : Dequeues(c, q, e)
  BY <1>1
<1>3. /\ held'[c] = e.member /\ (pipe'[c] = NoPipe \/ pipe'[c].cmd = "extend")
      /\ pipe'[c].kind \notin {"retryAt", "retryNow"}
  BY <1>2, ClientTypes DEF Dequeues, NoPipe
<1>4. e.member \in Member /\ e.member.id \in Tasks
  BY ScoreType DEF Base, DTypes, Types, ReadyT, Entries
<1> QED
  BY <1>2, <1>3, <1>4

(* The other calls.                                                        *)
LEMMA CallHands ==
  ASSUME Base, NEW c \in Clients
  PROVE  /\ ExtendLease(c) => held'[c] = held[c] /\ pipe'[c] = NoPipe
         /\ Ack(c) => /\ held'[c] = held[c]
                      /\ pipe'[c].cmd = "hdel" /\ pipe'[c].kind = "completed" /\ pipe'[c].task = held[c]
         /\ Vanish(c) => held'[c] = None /\ pipe'[c] = NoPipe
         /\ \A m : Nack(c, m) => /\ held'[c] = m /\ pipe'[c].cmd = "hdel" /\ pipe'[c].task = m
                                 /\ CanRetry(m) => pipe'[c].kind \in {"retryAt", "retryNow"}
         /\ ExecHDel(c) => /\ held'[c] = held[c] /\ pipe[c].cmd = "hdel" /\ pipe'[c].cmd = "zrem"
                           /\ pipe'[c].kind = pipe[c].kind /\ pipe'[c].task = pipe[c].task
         /\ ExecZRem(c) => /\ held'[c] = held[c] /\ pipe[c].cmd = "zrem" /\ pipe'[c].cmd = "last"
                           /\ pipe'[c].kind = pipe[c].kind /\ pipe'[c].task = pipe[c].task
         /\ ExecLast(c) => held'[c] = None /\ pipe'[c] = NoPipe
<1>1. held \in [Clients -> Member \cup {None}] /\ pipe \in [Clients -> Pipeline]
  BY ClientTypes
<1>2. ASSUME NEW m, Nack(c, m)
      PROVE  /\ held'[c] = m /\ pipe'[c].cmd = "hdel" /\ pipe'[c].task = m
             /\ CanRetry(m) => pipe'[c].kind \in {"retryAt", "retryNow"}
  BY <1>1, <1>2 DEF Nack
<1>3. ASSUME NEW x \in {"zrem", "last"}, pipe' = [pipe EXCEPT ![c].cmd = x]
      PROVE  pipe'[c].cmd = x /\ pipe'[c].kind = pipe[c].kind /\ pipe'[c].task = pipe[c].task
  BY <1>1, <1>3 DEF Pipeline
<1>4. ASSUME Ack(c)
      PROVE  /\ held'[c] = held[c]
             /\ pipe'[c].cmd = "hdel" /\ pipe'[c].kind = "completed" /\ pipe'[c].task = held[c]
  BY <1>1, <1>4 DEF Ack
<1>5. ASSUME ExecHDel(c)
      PROVE  /\ held'[c] = held[c] /\ pipe[c].cmd = "hdel" /\ pipe'[c].cmd = "zrem"
             /\ pipe'[c].kind = pipe[c].kind /\ pipe'[c].task = pipe[c].task
  BY <1>3, <1>5 DEF ExecHDel
<1>6. ASSUME ExecZRem(c)
      PROVE  /\ held'[c] = held[c] /\ pipe[c].cmd = "zrem" /\ pipe'[c].cmd = "last"
             /\ pipe'[c].kind = pipe[c].kind /\ pipe'[c].task = pipe[c].task
  BY <1>3, <1>6 DEF ExecZRem
<1>7. /\ ExtendLease(c) => held'[c] = held[c] /\ pipe'[c] = NoPipe
      /\ Vanish(c) => held'[c] = None /\ pipe'[c] = NoPipe
      /\ ExecLast(c) => held'[c] = None /\ pipe'[c] = NoPipe
  BY <1>1 DEF ExtendLease, Vanish, ExecLast
<1> QED
  BY <1>2, <1>4, <1>5, <1>6, <1>7

(* The client's own place and hands, step by step.                         *)
LEMMA ProcessSlot == ASSUME Base, NEW c \in Clients, Process(c) PROVE SlotOK(c)' /\ SlotT'
<1> DEFINE S == [pc : PCs, id : Tasks \cup {None}]
<1>1. slot \in [Clients -> S] /\ SlotOK(c) /\ slot[c] \in S /\ slot[c].pc \in PCs
  BY ClientTypes
<1>2. ASSUME NEW x \in PCs, Goto(c, x)
      PROVE  slot'[c].pc = x /\ slot'[c].id = slot[c].id /\ SlotT'
  BY <1>1, <1>2 DEF Goto, SlotT
<1>3. ASSUME Leave(c) PROVE slot'[c] = IdleSlot /\ SlotT'
  BY <1>1, <1>3 DEF Leave, SlotT, IdleSlot, PCs
<1>4. ASSUME Ack(c), NEW x \in Ending, Goto(c, x), held[c] \in Member, held[c].id = slot[c].id,
              slot[c].id \in Tasks
       PROVE  SlotOK(c)' /\ SlotT'
  <2>1. held'[c] = held[c] /\ pipe'[c].cmd = "hdel" /\ pipe'[c].task = held[c]
    BY <1>4, CallHands
  <2>2. slot'[c].pc = x /\ slot'[c].id = slot[c].id /\ SlotT'
    BY <1>2, <1>4 DEF Ending, PCs
  <2> QED
    BY <1>4, <2>1, <2>2 DEF SlotOK, Early, Late, Ending
<1>5. ASSUME ExecLast(c) \/ Vanish(c), Leave(c) \/ Goto(c, "untrack"), slot[c].id \in Tasks
       PROVE  SlotOK(c)' /\ SlotT'
  <2>1. held'[c] = None /\ pipe'[c] = NoPipe
    BY <1>5, CallHands
  <2>2. SlotT' /\ (slot'[c] = IdleSlot \/ (slot'[c].pc = "untrack" /\ slot'[c].id \in Tasks))
    BY <1>2, <1>3, <1>5 DEF PCs
  <2> QED
    BY <2>1, <2>2 DEF SlotOK, Early, Late, Ending, IdleSlot
<1>6. CASE Fetch(c)
  <2>1. /\ slot' = [slot EXCEPT ![c] = [pc |-> IF pipe'[c] = NoPipe THEN "check1" ELSE "extend",
                                        id |-> held'[c].id]]
        /\ Dequeue(c)
    BY <1>6 DEF Fetch
  <2>2. held'[c] \in Member /\ held'[c].id \in Tasks /\ (pipe'[c] = NoPipe \/ pipe'[c].cmd = "extend")
    BY <2>1, DequeueHands
  <2>3. slot'[c] = [pc |-> IF pipe'[c] = NoPipe THEN "check1" ELSE "extend", id |-> held'[c].id] /\ SlotT'
    BY <1>1, <2>1, <2>2 DEF SlotT, PCs
  <2> QED
    BY <2>2, <2>3 DEF SlotOK, Early, Late, Ending
<1>7. CASE FetchExtend(c)
  <2>1. slot[c].pc = "extend" /\ held[c] \in Member /\ held[c].id = slot[c].id /\ slot[c].id \in Tasks
    BY <1>1, <1>7 DEF FetchExtend, SlotOK, Early
  <2>2. CASE ExtendLease(c) /\ Goto(c, "check1")
    BY <1>2, <2>1, <2>2, CallHands DEF SlotOK, Early, Late, Ending, PCs
  <2>3. CASE Vanish(c) /\ Leave(c)
    BY <1>5, <2>1, <2>3
  <2> QED
    BY <1>7, <2>2, <2>3 DEF FetchExtend
<1>8. CASE Check1(c) \/ Check2(c) \/ HandlerFails(c)
  <2>1. /\ slot[c].pc \in {"check1", "check2", "handling"}
        /\ held[c] \in Member /\ held[c].id = slot[c].id /\ slot[c].id \in Tasks /\ pipe[c] = NoPipe
    BY <1>1, <1>8 DEF Check1, Check2, HandlerFails, SlotOK, Early, Late
  <2>2. \/ \E x \in {"acking", "finishing"} : Ack(c) /\ Goto(c, x)
        \/ \E x \in {"track", "start", "failing"} : UNCHANGED brokerVars /\ Goto(c, x)
    BY <1>8 DEF Check1, Check2, HandlerFails, brokerVars
  <2>3. ASSUME NEW x \in {"acking", "finishing"}, Ack(c), Goto(c, x) PROVE SlotOK(c)' /\ SlotT'
    BY <1>4, <2>1, <2>3 DEF Ending
  <2>4. ASSUME NEW x \in {"track", "start", "failing"}, UNCHANGED brokerVars, Goto(c, x)
        PROVE  SlotOK(c)' /\ SlotT'
    BY <1>2, <2>1, <2>4 DEF SlotOK, Early, Late, Ending, PCs, brokerVars
  <2> QED
    BY <2>2, <2>3, <2>4
<1>9. CASE Track(c)
  BY <1>1, <1>2, <1>9 DEF Track, SlotOK, Early, Late, Ending, PCs, brokerVars
<1>10. CASE Start(c)
  <2>1. held[c] \in Member /\ held[c].id = slot[c].id /\ slot[c].id \in Tasks /\ pipe[c] = NoPipe
    BY <1>1, <1>10 DEF Start, SlotOK, Early
  <2>2. held'[c] = Bumped(held[c]) /\ pipe'[c] = pipe[c]
    BY <1>10, ClientTypes DEF Start
  <2>3. slot'[c].pc = "handling" /\ slot'[c].id = slot[c].id /\ SlotT'
    BY <1>2, <1>10 DEF Start, PCs
  <2> QED
    BY <2>1, <2>2, <2>3, BumpedType DEF SlotOK, Early, Late, Ending
<1>11. CASE HandleSuccess(c)
  <2>1. held[c] \in Member /\ held[c].id = slot[c].id /\ slot[c].id \in Tasks
    BY <1>1, <1>11 DEF HandleSuccess, SlotOK, Late
  <2> QED
    BY <1>11, <1>4, <2>1 DEF HandleSuccess, Ending
<1>12. CASE HandleFailure(c)
  <2> DEFINE m == Bumped(Failing(held[c]))
  <2>1. held[c] \in Member /\ held[c].id = slot[c].id /\ slot[c].id \in Tasks
    BY <1>1, <1>12 DEF HandleFailure, SlotOK, Late
  <2>2. m \in Member /\ m.id = slot[c].id
    BY <2>1, FailingType, BumpedType
  <2>3. CASE Nack(c, m) /\ Goto(c, "finishing")
    <3>1. held'[c] = m /\ pipe'[c].cmd = "hdel" /\ pipe'[c].task = m
      BY <2>3, CallHands
    <3>2. slot'[c].pc = "finishing" /\ slot'[c].id = slot[c].id /\ SlotT'
      BY <1>2, <2>3 DEF PCs
    <3> QED
      BY <2>1, <2>2, <3>1, <3>2 DEF SlotOK, Early, Late, Ending
  <2>4. CASE Vanish(c) /\ Goto(c, "untrack")
    BY <1>5, <2>1, <2>4
  <2>5. CASE Ack(c) /\ Goto(c, "finishing")
    BY <1>4, <2>1, <2>5 DEF Ending
  <2> QED
    BY <1>12, <2>3, <2>4, <2>5 DEF HandleFailure, Failing
<1>13. CASE Pipelined(c) \/ PipelineFails(c)
  <2>1. /\ slot[c].pc \in Ending /\ slot[c].id \in Tasks
        /\ held[c] \in Member /\ held[c].id = slot[c].id /\ pipe[c].task = held[c] /\ pipe[c] \in Pipeline
    BY <1>1, <1>13, ClientTypes DEF Pipelined, PipelineFails, SlotOK, Ending
  <2>2. CASE (ExecHDel(c) \/ ExecZRem(c)) /\ UNCHANGED slot
    <3>1. held'[c] = held[c] /\ pipe'[c].cmd \in {"zrem", "last"} /\ pipe'[c].task = pipe[c].task
      BY <2>2, CallHands
    <3> QED
      BY <1>1, <2>1, <2>2, <3>1 DEF SlotOK, Early, Late, Ending, SlotT
  <2>3. CASE (ExecLast(c) \/ Vanish(c)) /\ (Leave(c) \/ Goto(c, "untrack"))
    BY <1>5, <2>1, <2>3
  <2> QED
    BY <1>13, <2>2, <2>3 DEF Pipelined, PipelineFails
<1>14. CASE Untrack(c)
  BY <1>1, <1>3, <1>14 DEF Untrack, SlotOK, Early, Late, Ending, IdleSlot, brokerVars
<1> QED
  BY <1>6, <1>7, <1>8, <1>9, <1>10, <1>11, <1>12, <1>13, <1>14 DEF Process

(* The API, the scheduler and the clock leave every client's hands alone.  *)
LEMMA OthersHands ==
  ASSUME (\E t \in Tasks : Api(t)) \/ Scheduler \/ Clock PROVE UNCHANGED <<held, pipe>>
<1>1. ASSUME \/ \E m : Enqueue(m) \/ EnqueueDelayed(m) \/ EnqueueIfNotInflight(m)
             \/ \E t : Remove(t)
             \/ \E q : PromoteDelayed(q) \/ ReclaimInflight(q)
             \/ Tick \/ UNCHANGED brokerVars
      PROVE  UNCHANGED <<held, pipe>>
  BY <1>1 DEF Enqueue, EnqueueDelayed, EnqueueIfNotInflight, Remove, PromoteDelayed, ReclaimInflight,
     Tick, brokerVars
<1>2. ASSUME NEW t \in Tasks, Api(t) PROVE UNCHANGED <<held, pipe>>
  BY <1>1, <1>2 DEF Api, SubmitCreate, SubmitEnqueue, CancelGet, CancelUpdate, CancelRemove, CancelPublish
<1>3. CASE Scheduler \/ Clock
  BY <1>1, <1>3 DEF Scheduler, Clock, Promote, Reclaim, CompensateFind, CompensateEnqueue,
     CompensateTouch, Cleanup
<1> QED
  BY <1>2, <1>3

(* Every step keeps place and hands together.                              *)
LEMMA NextSlots == ASSUME Base, [Next]_vars PROVE Slots' /\ SlotT'
<1>1. Slots /\ SlotT
  BY DEF Base, DTypes
<1>2. CASE UNCHANGED <<slot, held, pipe>>
  BY <1>1, <1>2 DEF Slots, SlotOK, SlotT
<1>3. ASSUME NEW c \in Clients, Process(c) PROVE Slots' /\ SlotT'
  <2>1. ASSUME NEW d \in Clients, d # c PROVE SlotOK(d)'
    BY <1>1, <1>3, <2>1, ProcessOthers DEF Slots, SlotOK, SameHands
  <2> QED
    BY <1>3, <2>1, ProcessSlot DEF Slots
<1>4. ASSUME NEW w \in Workers, Crash(w) PROVE Slots' /\ SlotT'
  <2>1. ASSUME NEW c \in Clients
        PROVE  \/ slot'[c] = IdleSlot /\ held'[c] = None /\ pipe'[c] = NoPipe
               \/ slot'[c] = slot[c] /\ SameHands(c)
    BY <1>4 DEF Crash, SameHands
  <2>2. SlotT'
    BY <1>1, <1>4 DEF Crash, SlotT, IdleSlot, PCs
  <2>3. Slots'
    BY <1>1, <2>1 DEF Slots, SlotOK, SameHands, IdleSlot, Early, Late, Ending
  <2> QED
    BY <2>2, <2>3
<1>5. ASSUME NEW w \in Workers, NEW t \in Tasks, CancelListen(w, t) PROVE UNCHANGED <<slot, held, pipe>>
  BY <1>5 DEF CancelListen, brokerVars
<1>6. CASE (\E t \in Tasks : Api(t)) \/ Scheduler \/ Clock
  BY <1>2, <1>6, ApiFrame, SchedulerFrame, OthersHands
<1>7. CASE UNCHANGED vars
  BY <1>2, <1>7 DEF vars, brokerVars, workerVars
<1> QED
  BY <1>2, <1>3, <1>4, <1>5, <1>6, <1>7 DEF Next

-----------------------------------------------------------------------------
(* Every step keeps the types.                                             *)

(* A step is one of the API, of a worker, of the scheduler or of the clock. *)
LEMMA Cases ==
  ASSUME [Next]_vars
  PROVE  \/ \E t \in Tasks : Api(t)
         \/ \E c \in Clients : Process(c)
         \/ \E w \in Workers : Crash(w)
         \/ \E w \in Workers, t \in Tasks : CancelListen(w, t)
         \/ Scheduler \/ Clock
         \/ UNCHANGED vars
  BY DEF Next

(* The requests of the API's users.                                        *)
LEMMA ApiTypes == ASSUME Base, [Next]_vars PROVE ApiT' /\ Asked'
<1> DEFINE R == [pc : {"none", "loaded", "remove", "publish", "done"}, version : Nat]
<1>1. ApiT /\ Asked /\ now \in Nat /\ StoreTypeOK
  BY DEF Base, DTypes, Types
<1>2. CASE UNCHANGED apiVars
  BY <1>1, <1>2 DEF ApiT, Asked, apiVars
<1>3. ASSUME NEW t \in Tasks, NEW r \in R, request' = [request EXCEPT ![t] = r], UNCHANGED <<submit, due>>,
             r.pc # "none" => t \in Cancellable
      PROVE  ApiT' /\ Asked'
  BY <1>1, <1>3 DEF ApiT, Asked
<1>4. ASSUME NEW t \in Tasks, Api(t) PROVE ApiT' /\ Asked'
  <2>1. CASE SubmitCreate(t)
    <3>1. Later(now, Delay[t]) \in Nat
      BY <1>1, LaterType, TaskAssumption
    <3> QED
      BY <1>1, <2>1, <3>1 DEF SubmitCreate, ApiT, Asked
  <2>2. CASE SubmitEnqueue(t)
    BY <1>1, <2>2 DEF SubmitEnqueue, ApiT, Asked
  <2>3. CASE CancelGet(t)
    <3>1. rows[t].version \in Nat
      BY <1>1, <2>3 DEF CancelGet, StoreTypeOK, Row
    <3>2. [pc |-> "loaded", version |-> rows[t].version] \in R /\ t \in Cancellable
      BY <2>3, <3>1 DEF CancelGet
    <3> QED
      BY <1>3, <2>3, <3>2 DEF CancelGet
  <2>4. CASE CancelUpdate(t)
    <3>1. NoRequest \in R /\ [pc |-> "remove", version |-> 0] \in R /\ NoRequest.pc = "none"
      BY DEF NoRequest
    <3>2. t \in Cancellable
      BY <1>1, <2>4 DEF CancelUpdate, Asked
    <3> QED
      BY <1>3, <2>4, <3>1, <3>2 DEF CancelUpdate
  <2>5. CASE CancelRemove(t) \/ CancelPublish(t)
    <3>1. request[t] \in R /\ t \in Cancellable
      BY <1>1, <2>5 DEF CancelRemove, CancelPublish, ApiT, Asked
    <3>2. PICK x \in {"publish", "done"} : request' = [request EXCEPT ![t].pc = x]
      BY <2>5 DEF CancelRemove, CancelPublish
    <3>3. [request[t] EXCEPT !.pc = x] \in R
      BY <3>1
    <3> QED
      BY <1>3, <2>5, <3>1, <3>2, <3>3 DEF CancelRemove, CancelPublish
  <2> QED
    BY <1>4, <2>1, <2>2, <2>3, <2>4, <2>5 DEF Api
<1> QED
  BY <1>2, <1>4, Cases, ProcessFrame, SchedulerFrame DEF Crash, CancelListen, vars, apiVars

(* The contexts and the cancel functions of the workers.                   *)
LEMMA MapTypes == ASSUME Base, [Next]_vars PROVE MapT'
<1>1. MapT
  BY DEF Base, DTypes
<1>2. CASE UNCHANGED <<dead, cancels>>
  BY <1>1, <1>2 DEF MapT
<1>3. ASSUME NEW c \in Clients, Process(c) PROVE MapT'
  <2>1. ASSUME NEW x \in Clients \cup {None}, slot[c].id \in Tasks,
               cancels' = [cancels EXCEPT ![WorkerOf[c]][slot[c].id] = x],
               dead' = [dead EXCEPT ![c] = FALSE]
        PROVE  MapT'
    BY <1>1, <2>1, DispatchAssumption DEF MapT
  <2>2. slot[c].pc # "idle" => slot[c].id \in Tasks
    BY DEF Base, Slots, SlotOK
  <2>3. CASE Track(c) \/ Untrack(c)
    BY <2>1, <2>2, <2>3 DEF Track, Untrack
  <2> QED
    BY <1>2, <1>3, <2>3 DEF Process, Fetch, FetchExtend, Check1, Check2, Start, HandleSuccess,
       HandlerFails, HandleFailure, Pipelined, PipelineFails
<1>4. ASSUME NEW w \in Workers, Crash(w) PROVE MapT'
  BY <1>1, <1>4 DEF Crash, MapT
<1>5. ASSUME NEW w \in Workers, NEW t \in Tasks, CancelListen(w, t) PROVE MapT'
  BY <1>1, <1>5 DEF CancelListen, MapT
<1> QED
  BY <1>2, <1>3, <1>4, <1>5, Cases, ApiFrame, SchedulerFrame DEF vars, workerVars

(* The messages of pub/sub.                                                *)
LEMMA SignalTypes == ASSUME Base, [Next]_vars PROVE SignalT'
<1>1. SignalT
  BY DEF Base, DTypes
<1>2. CASE UNCHANGED signalVars
  BY <1>1, <1>2 DEF SignalT, signalVars
<1>3. ASSUME NEW t \in Tasks, Api(t) PROVE SignalT'
  BY <1>1, <1>2, <1>3 DEF Api, SubmitCreate, SubmitEnqueue, CancelGet, CancelUpdate, CancelRemove,
     CancelPublish, SignalT
<1>4. ASSUME NEW w \in Workers, Crash(w) PROVE SignalT'
  BY <1>1, <1>4 DEF Crash, SignalT
<1>5. ASSUME NEW w \in Workers, NEW t \in Tasks, CancelListen(w, t) PROVE SignalT'
  BY <1>1, <1>5 DEF CancelListen, SignalT
<1> QED
  BY <1>2, <1>3, <1>4, <1>5, Cases, ProcessFrame, SchedulerFrame DEF vars, signalVars

\* What FindStaleByState returns: rows that exist.
Batch(B) == B \in SUBSET Tasks /\ \A t \in B : rows[t] # None /\ rows[t].state = "pending"

(* The batch CompensateFind reads.                                         *)
LEMMA BatchRead ==
  ASSUME CompensateFind
  PROVE  \E B : Batch(B) /\ comp'.todo = {Loaded(t) : t \in B} /\ comp'.touch = None
                /\ comp' = [todo |-> {Loaded(t) : t \in B}, touch |-> None]
  BY DEF CompensateFind, FindStale, Batch, NoComp

(* The compensation under way.                                             *)
LEMMA CompTypes == ASSUME Base, [Next]_vars PROVE CompT'
<1>1. CompT /\ StoreTypeOK
  BY DEF Base, DTypes
<1>2. CASE UNCHANGED comp
  BY <1>1, <1>2 DEF CompT
<1>3. CASE CompensateFind
  <2>1. PICK B : Batch(B) /\ comp' = [todo |-> {Loaded(t) : t \in B}, touch |-> None]
    BY <1>3, BatchRead
  <2>2. \A t \in B : Loaded(t) \in Member
    BY <1>1, <2>1, LoadedType DEF Batch, StoreTypeOK
  <2> QED
    BY <2>1, <2>2 DEF CompT
<1>4. CASE CompensateEnqueue
  <2>1. comp.todo \subseteq Member /\ \A m \in comp.todo : m.id \in Tasks
    BY <1>1 DEF CompT, Member
  <2> QED
    BY <1>4, <2>1 DEF CompensateEnqueue, CompT, NoComp
<1>5. CASE CompensateTouch
  BY <1>1, <1>5 DEF CompensateTouch, CompT
<1>6. CASE Scheduler
  BY <1>2, <1>3, <1>4, <1>5, <1>6 DEF Scheduler, Promote, Reclaim, Cleanup
<1> QED
  BY <1>2, <1>6, Cases, ApiFrame, ProcessFrame DEF Crash, CancelListen, Clock, vars

(* The failures that happened.                                             *)
LEMMA BudgetTypes == ASSUME Base, [Next]_vars PROVE BudgetT'
<1>1. BudgetT
  BY DEF Base, DTypes
<1>2. ASSUME Fault \/ NoFault PROVE BudgetT'
  BY <1>1, <1>2 DEF Fault, NoFault, budget, BudgetT
<1>3. ASSUME NEW t \in Tasks, Api(t) PROVE BudgetT'
  BY <1>1, <1>2, <1>3 DEF Api, SubmitCreate, SubmitEnqueue, CancelGet, CancelUpdate, CancelRemove,
     CancelPublish, NoFault, BudgetT
<1>4. ASSUME NEW c \in Clients, Process(c) PROVE BudgetT'
  <2>1. Fault \/ NoFault
    BY <1>4 DEF Process, Fetch, FetchExtend, Check1, Track, Check2, Start, HandleSuccess, HandlerFails,
       HandleFailure, Pipelined, PipelineFails, Untrack, SeesTerminal, SeesLive, Succeeds, Errs, NoFault
  <2> QED
    BY <1>2, <2>1
<1>5. CASE Scheduler \/ Clock
  <2>1. Fault \/ NoFault
    BY <1>5 DEF Scheduler, Clock, Promote, Reclaim, CompensateFind, CompensateEnqueue, CompensateTouch,
       Cleanup, NoFault
  <2> QED
    BY <1>2, <2>1
<1>6. ASSUME NEW w \in Workers, Crash(w) \/ \E t \in Tasks : CancelListen(w, t) PROVE BudgetT'
  <2>1. crashes' \in {crashes, crashes + 1} /\ UNCHANGED <<faults, lost>>
    BY <1>6 DEF Crash, CancelListen, budget
  <2> QED
    BY <1>1, <2>1 DEF BudgetT
<1>7. CASE UNCHANGED vars
  BY <1>2, <1>7 DEF vars, NoFault
<1> QED
  BY <1>3, <1>4, <1>5, <1>6, <1>7, Cases

(* All parts together.                                                     *)
LEMMA NextBase == ASSUME Base, [Next]_vars PROVE Base'
<1>1. Types'
  BY DispatchCalls, CallerTypes DEF Base, DTypes
<1>2. StoreTypeOK'
  BY DispatchTable, TableType
<1> QED
  BY <1>1, <1>2, NextSlots, ApiTypes, MapTypes, SignalTypes, CompTypes, BudgetTypes DEF Base, DTypes

(* The whole system keeps its types, whatever fails: in particular a slot  *)
(* has a task and a pipeline exactly when processTask needs them.          *)
THEOREM DispatchTypes == Spec => []TypeOK
  BY InitBase, NextBase, BaseTypeOK, PTL DEF Spec

(* The whole system runs the broker that way too: every inflight entry has *)
(* a lease until a worker takes a task while another is between HDEL and   *)
(* ZREM of it, which no crash, failed call, cancellation or compensation   *)
(* can replace.                                                            *)
THEOREM DispatchLeased == Spec => LeasedUnlessOvertaken
<1>1. Init => Base /\ BrokerInv /\ Paired
  BY InitBase, InitInv DEF Init
<1>2. Base /\ BrokerInv /\ [Next]_vars => Base' /\ BrokerInv'
  BY NextBase, DispatchCalls, CallerInv
<1>3. Base /\ BrokerInv /\ Paired /\ ~Overtaken' /\ [Next]_vars => Paired'
  BY DispatchCalls, CallerPairs
<1> QED
  BY <1>1, <1>2, <1>3, PairedLeased, PTL DEF Spec, LeasedUnlessOvertaken

(* And it loses tasks in no other way: whatever crashes or fails, a task   *)
(* leaves the queue because it was settled or cancelled, because a worker  *)
(* died after HDEL of a retry, or because an overtaken ZREM took its lease. *)
THEOREM DispatchLosses == Spec => LossesKnown
<1>1. Init => Base /\ BrokerInv
  BY InitBase, InitInv DEF Init
<1>2. Base /\ BrokerInv /\ [Next]_vars => Base' /\ BrokerInv'
  BY NextBase, DispatchCalls, CallerInv
<1>3. Base /\ BrokerInv /\ [Next]_vars =>
        [\A t \in Tasks : Tracked(t) /\ ~Tracked(t)' => KnownLoss(t)]_brokerVars
  BY DispatchCalls, CallerKeeps
<1> QED
  BY <1>1, <1>2, <1>3, PTL DEF Spec, LossesKnown

-----------------------------------------------------------------------------
(* Where the copies of a task come from.  A copy is a struct that nobody   *)
(* has begun to execute: in Redis, on its way back there, in the hands of  *)
(* a worker before State = Running, or in the batch of the compensation.   *)

InHand(m) == \E c \in Clients : slot[c].pc \in Early /\ held[c] = m
IsCopy(m) == Stored(m) \/ Waiting(m) \/ InHand(m) \/ m \in comp.todo

\* SubmitTask enqueues the struct it created.
Submitted(m) ==
  \E t \in Tasks : submit[t] = "created" /\ submit'[t] = "done" /\ m = Copy(t, 0) /\ rows' = rows

\* The compensation reads a pending row.
Reread(m) == \E t \in Tasks : rows[t] # None /\ rows[t].state = "pending" /\ m = Loaded(t) /\ rows' = rows

\* handleFailure returns the struct it wrote.
Renewed(m) ==
  \E c \in Clients : /\ slot[c].pc = "failing" /\ CanRetry(Failing(held[c]))
                     /\ UpdateOk(Failing(held[c]), "retrying", now)
                     /\ m = Bumped(Failing(held[c]))

(* What a step of a worker leaves in Redis was there, or on its way there. *)
LEMMA ProcessStored ==
  ASSUME Base, NEW c \in Clients, Process(c), NEW m \in Member, Stored(m)' PROVE Stored(m) \/ Waiting(m)
<1>1. Types
  BY DEF Base, DTypes
<1>2. ASSUME Vanish(c) PROVE \E G \in SUBSET Clients : Forget(G)
  BY <1>1, <1>2, VanishForgets
<1> QED
  BY <1>1, <1>2, ProcessCalls, CallsStored, ForgetStored

(* Only handleFailure has a Nack put a copy back.                          *)
LEMMA ProcessWaiting ==
  ASSUME Base, NEW c \in Clients, Process(c), NEW m \in Member, Waiting(m)' PROVE Waiting(m) \/ Renewed(m)
<1>1. PICK d \in Clients : /\ pipe'[d].cmd # "none" /\ pipe'[d].kind \in {"retryAt", "retryNow"}
                           /\ pipe'[d].task = m
  BY DEF Waiting
<1>2. CASE pipe'[d] = pipe[d]
  BY <1>1, <1>2 DEF Waiting
<1>3. CASE d # c
  BY <1>2, <1>3, ProcessOthers DEF SameHands
<1>4. CASE d = c /\ HandleFailure(c)
  <2> DEFINE m0 == Failing(held[c])
  <2>1. slot[c].pc = "failing"
    BY <1>4 DEF HandleFailure
  <2>2. CASE CanRetry(m0) /\ Succeeds(m0, "retrying") /\ Nack(c, Bumped(m0))
    <3>1. pipe'[c].task = Bumped(m0)
      BY <2>2, CallHands
    <3> QED
      BY <1>1, <1>4, <2>1, <2>2, <3>1 DEF Succeeds, Renewed
  <2>3. CASE Vanish(c) \/ Ack(c)
    BY <1>1, <1>4, <2>3, CallHands DEF NoPipe
  <2> QED
    BY <1>4, <2>2, <2>3 DEF HandleFailure, Failing
<1>5. CASE d = c /\ ~HandleFailure(c)
  <2>1. Dequeue(c) \/ ExtendLease(c) \/ Vanish(c) \/ Ack(c) \/ ExecHDel(c) \/ ExecZRem(c) \/ ExecLast(c)
        \/ pipe' = pipe
    BY <1>5 DEF Process, Fetch, FetchExtend, Check1, Track, Check2, Start, HandleSuccess, HandlerFails,
       Pipelined, PipelineFails, Untrack, brokerVars
  <2>2. CASE Dequeue(c)
    BY <1>1, <1>5, <2>2, DequeueHands
  <2>3. CASE ExtendLease(c) \/ Vanish(c) \/ Ack(c) \/ ExecLast(c)
    BY <1>1, <1>5, <2>3, CallHands DEF NoPipe
  <2>4. CASE ExecHDel(c) \/ ExecZRem(c)
    <3>1. pipe'[c].kind = pipe[c].kind /\ pipe'[c].task = pipe[c].task /\ pipe[c].cmd # "none"
      BY <2>4, CallHands
    <3> QED
      BY <1>1, <1>5, <3>1 DEF Waiting
  <2>5. CASE pipe' = pipe
    BY <1>2, <2>5
  <2> QED
    BY <2>1, <2>2, <2>3, <2>4, <2>5
<1> QED
  BY <1>3, <1>4, <1>5

(* Where a step of processTask takes its own client: it fetches a copy     *)
(* that is ready, goes on with the one it has, raises its version with     *)
(* State = Running, or is done with it.  The handler is missing only if    *)
(* the worker has none for the task.                                       *)
Fetches(c) ==
  /\ slot'[c].pc \in {"extend", "check1"} /\ OnReady(held'[c]) /\ held'[c] \in Member
  /\ slot'[c].id = held'[c].id
GoesOn(c) ==
  /\ slot[c].pc \in Early \ {"start"} /\ slot'[c].pc \in Early \ {"extend"}
  /\ slot'[c].id = slot[c].id /\ held'[c] = held[c]
Runs(c) ==
  /\ slot[c].pc = "start" /\ slot'[c].pc = "handling" /\ slot'[c].id = slot[c].id
  /\ held'[c] = Bumped(held[c])
Fails(c) ==
  /\ slot[c].pc = "handling" \/ (slot[c].pc = "check2" /\ slot[c].id \notin HasHandler[WorkerOf[c]])
  /\ slot'[c].pc = "failing" /\ slot'[c].id = slot[c].id /\ held'[c] = held[c]
Ends(c) == slot'[c].pc \notin Early \cup Late

(* One of these.                                                           *)
LEMMA ProcessPath ==
  ASSUME Base, NEW c \in Clients, Process(c)
  PROVE  Fetches(c) \/ GoesOn(c) \/ Runs(c) \/ Fails(c) \/ Ends(c)
<1>1. slot \in [Clients -> [pc : PCs, id : Tasks \cup {None}]] /\ held \in [Clients -> Member \cup {None}]
  BY ClientTypes
<1>2. ASSUME NEW x \in PCs, Goto(c, x) PROVE slot'[c].pc = x /\ slot'[c].id = slot[c].id
  BY <1>1, <1>2 DEF Goto
<1>3. ASSUME Leave(c) \/ (\E x \in {"untrack", "acking", "finishing"} : Goto(c, x)) PROVE Ends(c)
  <2>1. CASE Leave(c)
    BY <1>1, <2>1 DEF Leave, Ends, IdleSlot, Early, Late
  <2>2. ASSUME NEW x \in {"untrack", "acking", "finishing"}, Goto(c, x) PROVE Ends(c)
    BY <1>2, <2>2 DEF Ends, Early, Late, PCs
  <2> QED
    BY <1>3, <2>1, <2>2
<1>4. CASE Fetch(c)
  <2>1. /\ slot' = [slot EXCEPT ![c] = [pc |-> IF pipe'[c] = NoPipe THEN "check1" ELSE "extend",
                                        id |-> held'[c].id]]
        /\ Dequeue(c)
    BY <1>4 DEF Fetch
  <2>2. held'[c] \in Member /\ OnReady(held'[c])
    BY <2>1, DequeueHands DEF OnReady
  <2> QED
    BY <1>1, <2>1, <2>2 DEF Fetches
<1>5. CASE FetchExtend(c)
  <2>1. CASE ExtendLease(c) /\ Goto(c, "check1")
    BY <1>2, <1>5, <2>1, CallHands DEF FetchExtend, GoesOn, Early, PCs
  <2> QED
    BY <1>3, <1>5, <2>1 DEF FetchExtend
<1>6. CASE Check1(c)
  <2>1. CASE Goto(c, "track") /\ UNCHANGED brokerVars
    BY <1>2, <1>6, <2>1 DEF Check1, GoesOn, Early, PCs, brokerVars
  <2> QED
    BY <1>3, <1>6, <2>1 DEF Check1
<1>7. CASE Track(c)
  BY <1>2, <1>7 DEF Track, GoesOn, Early, PCs, brokerVars
<1>8. CASE Check2(c)
  <2>1. CASE Goto(c, "start") /\ UNCHANGED brokerVars
    BY <1>2, <1>8, <2>1 DEF Check2, GoesOn, Early, PCs, brokerVars
  <2>2. CASE slot[c].id \notin HasHandler[WorkerOf[c]] /\ Goto(c, "failing") /\ UNCHANGED brokerVars
    BY <1>2, <1>8, <2>2 DEF Check2, Fails, PCs, brokerVars
  <2> QED
    BY <1>3, <1>8, <2>1, <2>2 DEF Check2
<1>9. CASE Start(c)
  BY <1>1, <1>2, <1>9 DEF Start, Runs, PCs
<1>10. CASE HandlerFails(c)
  <2>1. CASE Goto(c, "failing") /\ UNCHANGED brokerVars
    BY <1>2, <1>10, <2>1 DEF HandlerFails, Fails, PCs, brokerVars
  <2> QED
    BY <1>3, <1>10, <2>1 DEF HandlerFails, brokerVars
<1>11. CASE HandleSuccess(c) \/ HandleFailure(c)
  BY <1>3, <1>11 DEF HandleSuccess, HandleFailure
<1>12. CASE Pipelined(c) \/ PipelineFails(c)
  <2>1. slot[c].pc \in {"acking", "finishing"}
    BY <1>12 DEF Pipelined, PipelineFails
  <2>2. CASE UNCHANGED slot
    BY <2>1, <2>2 DEF Ends, Early, Late
  <2> QED
    BY <1>3, <1>12, <2>2 DEF Pipelined, PipelineFails
<1>13. CASE Untrack(c)
  BY <1>3, <1>13 DEF Untrack
<1> QED
  BY <1>4, <1>5, <1>6, <1>7, <1>8, <1>9, <1>10, <1>11, <1>12, <1>13 DEF Process

(* The places of all clients after any step.                               *)
LEMMA Paths ==
  ASSUME Base, [Next]_vars, NEW c \in Clients
  PROVE  \/ Fetches(c) \/ GoesOn(c) \/ Runs(c) \/ Fails(c) \/ Ends(c)
         \/ slot'[c] = slot[c] /\ SameHands(c)
<1>1. CASE UNCHANGED <<slot, held, pipe>>
  BY <1>1 DEF SameHands
<1>2. ASSUME NEW d \in Clients, Process(d)
      PROVE  \/ Fetches(c) \/ GoesOn(c) \/ Runs(c) \/ Fails(c) \/ Ends(c)
             \/ slot'[c] = slot[c] /\ SameHands(c)
  BY <1>2, ProcessPath, ProcessOthers
<1>3. ASSUME NEW w \in Workers, Crash(w) PROVE Ends(c) \/ (slot'[c] = slot[c] /\ SameHands(c))
  BY <1>3 DEF Crash, SameHands, Ends, IdleSlot, Early, Late
<1>4. ASSUME NEW w \in Workers, NEW t \in Tasks, CancelListen(w, t) PROVE UNCHANGED <<slot, held, pipe>>
  BY <1>4 DEF CancelListen, brokerVars
<1>5. CASE (\E t \in Tasks : Api(t)) \/ Scheduler \/ Clock
  BY <1>1, <1>5, ApiFrame, SchedulerFrame, OthersHands
<1>6. CASE UNCHANGED vars
  BY <1>1, <1>6 DEF vars, brokerVars, workerVars
<1> QED
  BY <1>1, <1>2, <1>3, <1>4, <1>5, <1>6, Cases

(* After any step, a copy on its way back was so, or handleFailure wrote   *)
(* it.                                                                     *)
LEMMA NewWaiting ==
  ASSUME Base, [Next]_vars, NEW m \in Member, Waiting(m)' PROVE Waiting(m) \/ Renewed(m)
<1>1. CASE UNCHANGED pipe
  BY <1>1 DEF Waiting
<1>2. ASSUME NEW w \in Workers, Crash(w) PROVE Waiting(m)
  <2>1. \A c \in Clients : pipe'[c] = pipe[c] \/ pipe'[c] = NoPipe
    BY <1>2 DEF Crash
  <2> QED
    BY <2>1 DEF Waiting, NoPipe
<1>3. (\E w \in Workers, t \in Tasks : CancelListen(w, t)) \/ UNCHANGED vars => UNCHANGED pipe
  BY DEF CancelListen, vars, brokerVars
<1> QED
  BY <1>1, <1>2, <1>3, ProcessWaiting, OthersHands, Cases

(* Every copy there is after a step was there, or is one of the three.     *)
LEMMA NewCopies ==
  ASSUME Base, [Next]_vars, NEW m \in Member, IsCopy(m)'
  PROVE  IsCopy(m) \/ Submitted(m) \/ Reread(m) \/ Renewed(m)
<1>1. Types /\ CompT
  BY DEF Base, DTypes
<1>2. ASSUME NEW t \in Tasks, Api(t), Stored(m)' PROVE Stored(m) \/ Submitted(m)
  <2>1. CASE SubmitEnqueue(t)
    <3>1. Copy(t, 0) \in Member
      BY CopyType
    <3>2. CASE Provide(Copy(t, 0))
      <4>1. submit[t] = "created" /\ submit'[t] = "done" /\ rows' = rows
        BY <2>1 DEF SubmitEnqueue, Base, DTypes, ApiT
      <4> QED
        BY <1>1, <1>2, <3>1, <3>2, <4>1, ProvideStored DEF Submitted
    <3>3. CASE UNCHANGED brokerVars
      BY <1>2, <3>3, ForgetStored
    <3> QED
      BY <2>1, <3>2, <3>3 DEF SubmitEnqueue, Provide, brokerVars
  <2>2. CASE Remove(t)
    BY <1>1, <1>2, <2>2, LoopsStored
  <2>3. CASE UNCHANGED brokerVars
    BY <1>2, <2>3, ForgetStored
  <2> QED
    BY <1>2, <2>1, <2>2, <2>3 DEF Api, SubmitCreate, CancelGet, CancelUpdate, CancelRemove, CancelPublish
<1>3. ASSUME Scheduler \/ Clock, Stored(m)' PROVE Stored(m) \/ m \in comp.todo
  <2>1. CASE CompensateEnqueue
    <3>1. UNCHANGED brokerVars \/ \E x \in comp.todo : Provide(x)
      BY <2>1 DEF CompensateEnqueue, Provide
    <3>2. \A x \in comp.todo : x \in Member
      BY <1>1 DEF CompT
    <3> QED
      BY <1>1, <1>3, <3>1, <3>2, ProvideStored, ForgetStored
  <2>2. CASE \E q \in Queues : PromoteDelayed(q) \/ ReclaimInflight(q)
    BY <1>1, <1>3, <2>2, LoopsStored
  <2>3. CASE Tick \/ UNCHANGED brokerVars
    BY <1>3, <2>3, ForgetStored
  <2> QED
    BY <1>3, <2>1, <2>2, <2>3 DEF Scheduler, Clock, Promote, Reclaim, CompensateFind, CompensateTouch, Cleanup
<1>4. ASSUME \/ \E w \in Workers : Crash(w) \/ \E t \in Tasks : CancelListen(w, t)
             \/ UNCHANGED vars,
             Stored(m)'
      PROVE  Stored(m)
  <2>1. UNCHANGED <<ready, delayed, inflight>>
    BY <1>4 DEF Crash, CancelListen, vars, brokerVars
  <2> QED
    BY <1>4, <2>1 DEF Stored, OnReady, OnDelayed, OnInflight
<1>5. ASSUME Stored(m)' PROVE IsCopy(m) \/ Submitted(m)
  BY <1>2, <1>3, <1>4, <1>5, ProcessStored, Cases DEF IsCopy
<1>6. ASSUME Waiting(m)' PROVE Waiting(m) \/ Renewed(m)
  BY <1>6, NewWaiting
<1>7. ASSUME InHand(m)' PROVE InHand(m) \/ Stored(m)
  <2>1. PICK c \in Clients : slot'[c].pc \in Early /\ held'[c] = m
    BY <1>7 DEF InHand
  <2>2. Fetches(c) \/ GoesOn(c) \/ (slot'[c] = slot[c] /\ SameHands(c))
    BY <2>1, Paths DEF Runs, Fails, Ends, Early
  <2> QED
    BY <2>1, <2>2 DEF Fetches, GoesOn, SameHands, InHand, Stored
<1>8. ASSUME m \in comp'.todo PROVE m \in comp.todo \/ Reread(m)
  <2>1. CASE CompensateFind
    <3>1. PICK B : Batch(B) /\ comp'.todo = {Loaded(t) : t \in B}
      BY <2>1, BatchRead
    <3>2. rows' = rows
      BY <2>1 DEF CompensateFind
    <3> QED
      BY <1>8, <3>1, <3>2 DEF Batch, Reread
  <2>2. CASE CompensateEnqueue \/ CompensateTouch
    BY <1>1, <1>8, <2>2 DEF CompensateEnqueue, CompensateTouch, CompT, NoComp
  <2>3. CASE comp' = comp
    BY <1>8, <2>3
  <2>4. Scheduler \/ Clock => CompensateFind \/ CompensateEnqueue \/ CompensateTouch \/ comp' = comp
    BY DEF Scheduler, Clock, Promote, Reclaim, Cleanup
  <2>5. \/ \E w \in Workers : Crash(w) \/ \E t \in Tasks : CancelListen(w, t)
        \/ UNCHANGED vars
        => comp' = comp
    BY DEF Crash, CancelListen, vars
  <2> QED
    BY <2>1, <2>2, <2>3, <2>4, <2>5, Cases, ApiFrame, ProcessFrame
<1> QED
  BY <1>5, <1>6, <1>7, <1>8 DEF IsCopy

-----------------------------------------------------------------------------
(* The optimistic lock counts attempts.  Every attempt of a task that all  *)
(* workers can handle raises the version twice, so the version tells which *)
(* attempt a copy belongs to.                                              *)

(* The row, if it is there, has reached attempt r, and while it is in that *)
(* attempt it has its count.                                               *)
Known(t, r) ==
  rows[t] # None => /\ rows[t].version >= 2 * r + 1
                    /\ rows[t].version <= 2 * r + 2 => rows[t].retry = r

\* There is an attempt r of t.
Backed(t, r) == (r = 0 \/ r < MaxRetries[t]) /\ submit[t] # "new" /\ Known(t, r)

CopyOK(m) == m.id \in Handled => m.version = 2 * m.retry + 1 /\ Backed(m.id, m.retry)

\* From State = Running on the struct is one version ahead.
LateOK(c) ==
  slot[c].pc \in Late /\ slot[c].id \in Handled =>
    held[c].version = 2 * held[c].retry + 2 /\ Backed(slot[c].id, held[c].retry)

RowOK(t) ==
  t \in Handled /\ rows[t] # None =>
    /\ submit[t] # "new" /\ Known(t, 0)
    /\ rows[t].state = "pending" => rows[t].version = 1 /\ rows[t].retry = 0

Attempts ==
  /\ \A m \in Member : IsCopy(m) => CopyOK(m)
  /\ \A c \in Clients : LateOK(c)
  /\ \A t \in Tasks : RowOK(t)

(* What a step may do to the row of a task that every worker can handle.   *)
Same(t) ==
  /\ rows[t] \in Row /\ rows'[t] \in Row
  /\ rows'[t].state = rows[t].state /\ rows'[t].version = rows[t].version /\ rows'[t].retry = rows[t].retry
Gone(t) == rows'[t] = None /\ (rows[t] = None \/ GotTerminal(t))
Born(t) ==
  /\ rows[t] = None /\ submit[t] = "new" /\ submit'[t] = "created"
  /\ rows'[t] \in Row /\ rows'[t].state = "pending" /\ rows'[t].version = 1 /\ rows'[t].retry = 0
Raised(t) ==
  /\ rows[t] \in Row /\ rows'[t] \in Row
  /\ rows'[t].version = rows[t].version + 1 /\ rows'[t].retry = rows[t].retry
  /\ \/ /\ rows'[t].state = "running" /\ rows[t].version = 2 * rows[t].retry + 1
        /\ rows[t].retry = 0 \/ rows[t].retry < MaxRetries[t]
     \/ rows'[t].state = "completed" /\ rows[t].version = 2 * rows[t].retry + 2
     \/ rows'[t].state = "cancelled" /\ t \in Cancellable
Counted(t) ==
  /\ rows[t] \in Row /\ rows'[t] \in Row
  /\ rows[t].version = 2 * rows[t].retry + 2
  /\ rows'[t].version = rows[t].version + 1 /\ rows'[t].retry = rows[t].retry + 1
  /\ rows'[t].state = IF rows'[t].retry < MaxRetries[t] THEN "retrying" ELSE "failed"
Moves(t) == Same(t) \/ Gone(t) \/ Born(t) \/ Raised(t) \/ Counted(t)

(* A row that a step leaves alone.                                         *)
LEMMA StillMoves == ASSUME StoreTypeOK, NEW t \in Tasks, rows'[t] = rows[t] PROVE Moves(t)
<1>1. CASE rows[t] = None
  BY <1>1 DEF Moves, Gone
<1>2. CASE rows[t] \in Row
  BY <1>2 DEF Moves, Same
<1> QED
  BY <1>1, <1>2 DEF StoreTypeOK

(* The three Updates of processTask and the cancellation, on their row:    *)
(* what matches the version belongs to the attempt the row is in.          *)
LEMMA UpdateMoves ==
  ASSUME Base, Attempts, NEW t \in Handled,
         \/ \E c \in Clients : /\ slot[c].id = t
                               /\ StartStep(c) \/ SuccessStep(c) \/ FailureStep(c)
         \/ CancelStep(t)
  PROVE  Moves(t)
<1>1. StoreTypeOK /\ now \in Nat /\ ApiT
  BY DEF Base, DTypes, Types
<1>2. t \in Tasks /\ MaxRetries[t] \in Nat
  BY TaskAssumption DEF Handled
<1>3. rows[t] \in Row => rows[t].version \in Nat /\ rows[t].retry \in Nat
  BY DEF Row
<1>4. CASE CancelStep(t)
  <2>1. Cancelling(t) \in Member /\ Cancelling(t).id = t /\ Cancelling(t).retry = 0
    BY <1>1, <1>2, CancellingType DEF ApiT
  <2>2. /\ rows[t] \in Row /\ rows[t].version = Cancelling(t).version
        /\ rows'[t] \in Row /\ rows'[t].state = "cancelled" /\ rows'[t].version = Cancelling(t).version + 1
        /\ rows'[t].retry = rows[t].retry
    BY <1>1, <1>4, <2>1, UpdateEffect DEF CancelStep, TaskState
  <2> QED
    BY <1>4, <2>2 DEF CancelStep, Moves, Raised
<1>5. ASSUME NEW c \in Clients, slot[c].id = t, StartStep(c) PROVE Raised(t)
  <2>1. held[c] \in Member /\ held[c].id = t /\ held[c].retry \in Nat
    BY <1>5, HeldMember DEF StartStep, Early, Member
  <2>2. IsCopy(held[c])
    BY <1>5 DEF StartStep, IsCopy, InHand, Early
  <2>3. held[c].version = 2 * held[c].retry + 1 /\ Backed(t, held[c].retry)
    BY <2>1, <2>2 DEF Attempts, CopyOK
  <2>4. /\ rows[t] \in Row /\ rows[t].version = held[c].version
        /\ rows'[t] \in Row /\ rows'[t].state = "running" /\ rows'[t].version = held[c].version + 1
        /\ rows'[t].retry = IF held[c].retry = 0 THEN rows[t].retry ELSE held[c].retry
    BY <1>1, <1>5, <2>1, UpdateEffect DEF StartStep, TaskState
  <2>5. rows[t] # None
    BY <2>4, StoreAssumption
  <2>6. rows[t].retry = held[c].retry /\ (held[c].retry = 0 \/ held[c].retry < MaxRetries[t])
    BY <2>1, <2>3, <2>4, <2>5 DEF Backed, Known
  <2> QED
    BY <2>1, <2>3, <2>4, <2>6 DEF Raised
<1>6. ASSUME NEW c \in Clients, slot[c].id = t, SuccessStep(c) \/ FailureStep(c)
      PROVE  /\ held[c] \in Member /\ held[c].id = t /\ held[c].retry \in Nat
             /\ held[c].version = 2 * held[c].retry + 2
             /\ rows[t] \in Row /\ rows[t].version = held[c].version => rows[t].retry = held[c].retry
  <2>1. held[c] \in Member /\ held[c].id = t /\ held[c].retry \in Nat /\ slot[c].pc \in Late
    BY <1>6, HeldMember DEF SuccessStep, FailureStep, Late, Member
  <2>2. held[c].version = 2 * held[c].retry + 2 /\ Backed(t, held[c].retry)
    BY <1>6, <2>1 DEF Attempts, LateOK
  <2> QED
    BY <2>1, <2>2, StoreAssumption DEF Backed, Known
<1>7. ASSUME NEW c \in Clients, slot[c].id = t, SuccessStep(c) PROVE Raised(t)
  <2>1. held[c] \in Member /\ held[c].id = t
    BY <1>6, <1>7
  <2>2. /\ rows[t] \in Row /\ rows[t].version = held[c].version
        /\ rows'[t] \in Row /\ rows'[t].state = "completed" /\ rows'[t].version = held[c].version + 1
        /\ rows'[t].retry = IF held[c].retry = 0 THEN rows[t].retry ELSE held[c].retry
    BY <1>1, <1>7, <2>1, UpdateEffect DEF SuccessStep, TaskState
  <2> QED
    BY <1>6, <1>7, <2>2 DEF Raised
<1>8. ASSUME NEW c \in Clients, slot[c].id = t, FailureStep(c) PROVE Counted(t)
  <2> DEFINE m == Failing(held[c])
             s == IF CanRetry(m) THEN "retrying" ELSE "failed"
  <2>1. m \in Member /\ m.id = t /\ m.retry = held[c].retry + 1 /\ m.version = held[c].version
    BY <1>6, <1>8, FailingType
  <2>2. s \in TaskState /\ UpdateOk(m, s, now)
    BY <1>8 DEF FailureStep, TaskState
  <2>3. /\ rows[t] \in Row /\ rows[t].version = m.version
        /\ rows'[t] \in Row /\ rows'[t].state = s /\ rows'[t].version = m.version + 1
        /\ rows'[t].retry = IF m.retry = 0 THEN rows[t].retry ELSE m.retry
    BY <1>1, <2>1, <2>2, UpdateEffect
  <2>4. rows[t].retry = held[c].retry /\ held[c].retry \in Nat /\ held[c].version = 2 * held[c].retry + 2
    BY <1>6, <1>8, <2>1, <2>3
  <2>5. rows'[t].retry = held[c].retry + 1
    BY <2>1, <2>3, <2>4
  <2> QED
    BY <2>1, <2>3, <2>4, <2>5 DEF Counted, CanRetry
<1> QED
  BY <1>4, <1>5, <1>7, <1>8 DEF Moves

(* Only the row of the task concerned changes, or rows are deleted.        *)
LEMMA OneRow ==
  ASSUME Base, TableStep \/ rows' = rows
  PROVE  \/ \E B \in SUBSET Tasks : DeleteStep(B)
         \/ rows' = rows
         \/ \E t \in Tasks :
              /\ \A u \in Tasks : u # t => rows'[u] = rows[u]
              /\ \/ CreateStep(t) \/ CancelStep(t) \/ TouchStep(t)
                 \/ \E c \in Clients : /\ slot[c].id = t
                                       /\ StartStep(c) \/ SuccessStep(c) \/ FailureStep(c)
<1>1. StoreTypeOK /\ now \in Nat /\ ApiT
  BY DEF Base, DTypes, Types
<1>2. ASSUME NEW t \in Tasks, CreateStep(t) \/ TouchStep(t) \/ CancelStep(t)
      PROVE  \A u \in Tasks : u # t => rows'[u] = rows[u]
  <2>1. CASE CreateStep(t) \/ TouchStep(t)
    BY <1>1, <2>1 DEF CreateStep, Create, TouchStep, TouchUpdatedAt, StoreTypeOK
  <2>2. CASE CancelStep(t)
    BY <1>1, <2>2, CancellingType, UpdateEffect DEF CancelStep, ApiT, TaskState
  <2> QED
    BY <1>2, <2>1, <2>2
<1>3. ASSUME NEW c \in Clients, StartStep(c) \/ SuccessStep(c) \/ FailureStep(c)
      PROVE  slot[c].id \in Tasks /\ \A u \in Tasks : u # slot[c].id => rows'[u] = rows[u]
  <2>1. held[c] \in Member /\ held[c].id = slot[c].id /\ slot[c].id \in Tasks
    BY <1>3, HeldMember DEF StartStep, SuccessStep, FailureStep, Early, Late
  <2>2. Failing(held[c]) \in Member /\ Failing(held[c]).id = held[c].id
    BY <2>1, FailingType
  <2> QED
    BY <1>1, <1>3, <2>1, <2>2, UpdateEffect DEF StartStep, SuccessStep, FailureStep, TaskState
<1> QED
  BY <1>2, <1>3 DEF TableStep

(* So every step moves the row of every such task in one of these ways.    *)
LEMMA RowMoves == ASSUME Base, Attempts, [Next]_vars, NEW t \in Handled PROVE Moves(t)
<1>1. StoreTypeOK /\ t \in Tasks /\ now \in Nat
  BY DEF Base, DTypes, Types, Handled
<1>2. CASE rows' = rows
  BY <1>1, <1>2, StillMoves
<1>3. ASSUME NEW B \in SUBSET Tasks, DeleteStep(B) PROVE Moves(t)
  <2>1. CASE t \in B
    BY <1>1, <1>3, <2>1 DEF DeleteStep, Moves, Gone
  <2>2. CASE t \notin B
    BY <1>1, <1>3, <2>2, StillMoves DEF DeleteStep
  <2> QED
    BY <2>1, <2>2
<1>4. CASE CreateStep(t)
  <2>1. rows'[t] = [state |-> "pending", version |-> 1, retry |-> 0, updated |-> now, finished |-> 0]
    BY <1>1, <1>4 DEF CreateStep, Create, StoreTypeOK
  <2>2. rows'[t] \in Row
    BY <1>1, <2>1 DEF Row, TaskState
  <2> QED
    BY <1>4, <2>1, <2>2 DEF CreateStep, Create, Moves, Born
<1>5. CASE TouchStep(t)
  <2>1. CASE rows[t] = None
    BY <1>1, <1>5, <2>1, StillMoves DEF TouchStep, TouchUpdatedAt
  <2>2. CASE rows[t] # None
    <3>1. rows[t] \in Row /\ rows'[t] = [rows[t] EXCEPT !.updated = now]
      BY <1>1, <1>5, <2>2 DEF TouchStep, TouchUpdatedAt, StoreTypeOK
    <3>2. /\ [rows[t] EXCEPT !.updated = now] \in Row
          /\ rows'[t].state = rows[t].state /\ rows'[t].version = rows[t].version
          /\ rows'[t].retry = rows[t].retry
      BY <1>1, <3>1 DEF Row
    <3> QED
      BY <3>1, <3>2 DEF Moves, Same
  <2> QED
    BY <2>1, <2>2
<1>6. CASE rows'[t] = rows[t]
  BY <1>1, <1>6, StillMoves
<1> QED
  BY <1>2, <1>3, <1>4, <1>5, <1>6, OneRow, DispatchTable, UpdateMoves DEF Handled

(* A submission is never undone.                                           *)
LEMMA SubmitStays ==
  ASSUME Base, [Next]_vars, NEW t \in Tasks, submit[t] # "new" PROVE submit'[t] # "new"
<1>1. submit \in [Tasks -> {"new", "created", "done"}]
  BY DEF Base, DTypes, ApiT
<1>2. CASE submit' = submit
  BY <1>2
<1>3. ASSUME NEW u \in Tasks, Api(u) PROVE submit'[t] # "new"
  BY <1>1, <1>3 DEF Api, SubmitCreate, SubmitEnqueue, CancelGet, CancelUpdate, CancelRemove, CancelPublish
<1> QED
  BY <1>2, <1>3, Cases, ProcessFrame, SchedulerFrame DEF Crash, CancelListen, vars, apiVars

(* A row that reached an attempt stays past it: this is what stops a       *)
(* stale writer.                                                           *)
LEMMA BackedStays ==
  ASSUME Base, Attempts, [Next]_vars, NEW t \in Handled, NEW r \in Nat, Backed(t, r) PROVE Backed(t, r)'
<1>1. t \in Tasks /\ Moves(t)
  BY RowMoves DEF Handled
<1>2. submit[t] # "new" /\ submit'[t] # "new"
  BY <1>1, SubmitStays DEF Backed
<1>3. rows[t] \in Row => rows[t] # None /\ rows[t].version \in Nat /\ rows[t].retry \in Nat
  BY StoreAssumption DEF Row
<1>4. Known(t, r)
  BY DEF Backed
<1>5. Gone(t) => Known(t, r)'
  BY DEF Gone, Known
<1>6. Same(t) => Known(t, r)'
  BY <1>3, <1>4 DEF Same, Known
<1>7. Raised(t) => Known(t, r)'
  BY <1>3, <1>4 DEF Raised, Known
<1>8. Counted(t) => Known(t, r)'
  BY <1>3, <1>4 DEF Counted, Known
<1> QED
  BY <1>1, <1>2, <1>5, <1>6, <1>7, <1>8 DEF Moves, Born, Backed

(* The rows.                                                               *)
LEMMA RowsOK == ASSUME Base, Attempts, [Next]_vars, NEW t \in Tasks PROVE RowOK(t)'
<1> SUFFICES ASSUME t \in Handled, rows'[t] # None
             PROVE  /\ submit'[t] # "new" /\ Known(t, 0)'
                    /\ rows'[t].state = "pending" => rows'[t].version = 1 /\ rows'[t].retry = 0
  BY DEF RowOK, Handled
<1>1. Moves(t) /\ RowOK(t)
  BY RowMoves DEF Attempts
<1>2. CASE Born(t)
  BY <1>2 DEF Born, Known
<1>3. CASE rows[t] \in Row /\ ~Born(t)
  <2>1. rows[t] # None /\ submit[t] # "new" /\ Backed(t, 0)
    BY <1>1, <1>3, StoreAssumption DEF RowOK, Backed
  <2>2. submit'[t] # "new" /\ Known(t, 0)'
    BY <2>1, BackedStays, SubmitStays DEF Backed
  <2>3. rows'[t].state = "pending" => Same(t)
    BY <1>1, <1>3 DEF Moves, Gone, Raised, Counted
  <2> QED
    BY <1>1, <2>1, <2>2, <2>3 DEF RowOK, Same
<1> QED
  BY <1>1, <1>2, <1>3 DEF Moves, Same, Gone, Raised, Counted

(* The copies.                                                             *)
LEMMA CopiesOK ==
  ASSUME Base, Attempts, [Next]_vars, NEW m \in Member, IsCopy(m)' PROVE CopyOK(m)'
<1> SUFFICES ASSUME m.id \in Handled PROVE m.version = 2 * m.retry + 1 /\ Backed(m.id, m.retry)'
  BY DEF CopyOK, Handled
<1>1. m.id \in Tasks /\ m.retry \in Nat /\ m.version \in Nat /\ StoreTypeOK
  BY DEF Member, Base, DTypes
<1>2. CASE IsCopy(m)
  BY <1>1, <1>2, BackedStays DEF Attempts, CopyOK
<1>3. CASE Submitted(m)
  <2>1. PICK t \in Tasks : submit[t] = "created" /\ submit'[t] = "done" /\ m = Copy(t, 0) /\ rows' = rows
    BY <1>3 DEF Submitted
  <2>2. m.id = t /\ m.version = 1 /\ m.retry = 0
    BY <2>1 DEF Copy
  <2>3. Backed(t, 0)
    BY <2>1, <2>2 DEF Attempts, RowOK, Backed, Known
  <2> QED
    BY <2>2, <2>3, BackedStays
<1>4. CASE Reread(m)
  <2>1. PICK t \in Tasks : rows[t] # None /\ rows[t].state = "pending" /\ m = Loaded(t)
    BY <1>4 DEF Reread
  <2>2. m.id = t /\ m.version = rows[t].version /\ m.retry = rows[t].retry
    BY <1>1, <2>1, LoadedType DEF StoreTypeOK
  <2>3. Backed(t, 0) /\ rows[t].version = 1 /\ rows[t].retry = 0
    BY <2>1, <2>2 DEF Attempts, RowOK, Backed
  <2> QED
    BY <2>2, <2>3, BackedStays
<1>5. CASE Renewed(m)
  <2>1. PICK c \in Clients : /\ slot[c].pc = "failing" /\ CanRetry(Failing(held[c]))
                             /\ UpdateOk(Failing(held[c]), "retrying", now)
                             /\ m = Bumped(Failing(held[c]))
    BY <1>5 DEF Renewed
  <2> DEFINE x == Failing(held[c])
  <2>2. held[c] \in Member /\ held[c].id = slot[c].id
    BY <2>1, HeldMember DEF Late
  <2>3. x \in Member /\ x.id = slot[c].id /\ x.version = held[c].version /\ x.retry = held[c].retry + 1
    BY <2>2, FailingType
  <2>4. m.id = slot[c].id /\ m.version = held[c].version + 1 /\ m.retry = held[c].retry + 1
    BY <2>1, <2>3, BumpedType
  <2>5. held[c].version = 2 * held[c].retry + 2 /\ submit[m.id] # "new" /\ held[c].retry \in Nat
    BY <2>1, <2>2, <2>4 DEF Attempts, LateOK, Late, Backed, Member
  <2>6. m.version = 2 * m.retry + 1 /\ m.retry < MaxRetries[m.id]
    BY <2>1, <2>3, <2>4, <2>5 DEF CanRetry
  <2>7. rows'[m.id] \in Row /\ rows'[m.id].version = m.version /\ rows'[m.id].retry = m.retry
    <3>1. now \in Nat /\ "retrying" \in TaskState
      BY DEF Base, DTypes, Types, TaskState
    <3>2. /\ rows'[x.id] \in Row /\ rows'[x.id].version = x.version + 1
          /\ rows'[x.id].retry = IF x.retry = 0 THEN rows[x.id].retry ELSE x.retry
      BY <1>1, <2>1, <2>3, <3>1, UpdateEffect
    <3> QED
      BY <2>3, <2>4, <2>5, <3>2
  <2>8. Known(m.id, m.retry)'
    BY <1>1, <2>6, <2>7 DEF Known
  <2> QED
    BY <1>1, <2>5, <2>6, <2>8, SubmitStays DEF Backed
<1> QED
  BY <1>2, <1>3, <1>4, <1>5, NewCopies

(* The attempts under way.                                                 *)
LEMMA LatesOK == ASSUME Base, Attempts, [Next]_vars, NEW c \in Clients PROVE LateOK(c)'
<1> SUFFICES ASSUME NEW t \in Handled, NEW r, slot'[c].pc \in Late, slot'[c].id = t, held'[c].retry = r
             PROVE  held'[c].version = 2 * r + 2 /\ Backed(t, r)'
  BY DEF LateOK, Handled, Backed, Known
<1>1. CASE slot[c].pc \in Late /\ slot'[c].id = slot[c].id /\ held'[c] = held[c]
  <2>1. r \in Nat
    BY <1>1, HeldMember DEF Member
  <2>2. held[c].version = 2 * r + 2 /\ Backed(t, r)
    BY <1>1 DEF Attempts, LateOK
  <2> QED
    BY <1>1, <2>1, <2>2, BackedStays
<1>2. CASE Runs(c)
  <2>1. held[c] \in Member /\ held[c].id = slot[c].id /\ held[c].retry \in Nat
    BY <1>2, HeldMember DEF Runs, Early, Member
  <2>2. IsCopy(held[c])
    BY <1>2 DEF Runs, IsCopy, InHand, Early
  <2>3. held[c].version = 2 * held[c].retry + 1 /\ Backed(slot[c].id, held[c].retry)
    BY <1>2, <2>1, <2>2 DEF Attempts, CopyOK, Runs
  <2>4. held'[c].version = held[c].version + 1 /\ r = held[c].retry /\ t = slot[c].id
    BY <1>2, <2>1, BumpedType DEF Runs
  <2> QED
    BY <2>1, <2>3, <2>4, BackedStays
<1>3. CASE Fails(c)
  <2>1. WorkerOf[c] \in Workers
    BY DispatchAssumption
  <2> QED
    BY <1>1, <1>3, <2>1 DEF Fails, Handled, Late
<1> QED
  BY <1>1, <1>2, <1>3, Paths DEF Fetches, GoesOn, Ends, SameHands, Early, Late

(* Initially there are no copies ...                                       *)
LEMMA InitCopies == ASSUME Init, NEW m \in Member PROVE ~IsCopy(m)
<1>1. ~Stored(m)
  BY NoneAssumption DEF Init, BrokerInit, Stored, OnReady, OnDelayed, OnInflight
<1>2. ~Waiting(m)
  BY DEF Init, BrokerInit, Waiting, NoPipe
<1>3. ~InHand(m) /\ m \notin comp.todo
  BY DEF Init, InHand, IdleSlot, Early, NoComp
<1> QED
  BY <1>1, <1>2, <1>3 DEF IsCopy

(* ... and no rows.                                                        *)
LEMMA InitAttempts == Init => Attempts
<1> SUFFICES ASSUME Init PROVE Attempts
  OBVIOUS
<1>1. \A m \in Member : ~IsCopy(m)
  BY InitCopies
<1>2. ASSUME NEW c \in Clients PROVE LateOK(c)
  BY DEF Init, LateOK, IdleSlot, Late
<1>3. ASSUME NEW t \in Tasks PROVE RowOK(t)
  BY DEF Init, StoreInit, RowOK
<1> QED
  BY <1>1, <1>2, <1>3 DEF Attempts

(* Versions and counts stay together.                                      *)
LEMMA NextAttempts == ASSUME Base, Attempts, [Next]_vars PROVE Attempts'
<1>1. \A m \in Member : IsCopy(m)' => CopyOK(m)'
  BY CopiesOK
<1>2. \A c \in Clients : LateOK(c)'
  BY LatesOK
<1>3. \A t \in Tasks : RowOK(t)'
  BY RowsOK
<1> QED
  BY <1>1, <1>2, <1>3 DEF Attempts

(* retry_count only ever grows, by one and with a failed attempt: no       *)
(* redelivered, compensated, reclaimed or half-written copy puts an old    *)
(* count back, as long as every worker has the handler (RetryAlwaysCounted *)
(* says what happens otherwise).                                           *)
THEOREM RetriesCounted == Spec => RetryCounted
<1>1. ASSUME Base, Attempts, [Next]_vars, NEW t \in Handled PROVE CountsUp(t)
  <2>1. Moves(t)
    BY <1>1, RowMoves
  <2>2. rows[t] \in Row => rows[t].retry \in Nat
    BY DEF Row
  <2> QED
    BY <2>1, <2>2 DEF Moves, Same, Gone, Born, Raised, Counted, CountsUp
<1>2. Base /\ Attempts /\ [Next]_vars => [\A t \in Handled : CountsUp(t)]_vars
  BY <1>1
<1> QED
  BY <1>2, InitBase, NextBase, InitAttempts, NextAttempts, PTL DEF Spec, RetryCounted

-----------------------------------------------------------------------------
(* The refinement of TaskLifecycle.                                        *)

(* In which state a row of a regular task is, is decided by its version    *)
(* and its count.                                                          *)
StageOK(t) ==
  rows[t] # None =>
    LET s == rows[t].state
        v == rows[t].version
        r == rows[t].retry
    IN  \/ s = "pending" /\ v = 1 /\ r = 0
        \/ s = "running" /\ v = 2 * r + 2
        \/ s = "retrying" /\ v = 2 * r + 1
        \/ s = "completed" /\ v = 2 * r + 3
        \/ s = "failed" /\ v = 2 * r + 1 /\ r > 0 /\ r >= MaxRetries[t]

Stages == \A t \in Regular : StageOK(t)

(* Moves keep the stages.                                                  *)
LEMMA NextStages == ASSUME Base, Attempts, Stages, [Next]_vars PROVE Stages'
<1> SUFFICES ASSUME NEW t \in Regular, rows'[t] # None PROVE StageOK(t)'
  BY DEF Stages, StageOK, Regular, Handled
<1>1. Moves(t) /\ StageOK(t) /\ t \notin Cancellable
  BY RowMoves DEF Stages, Regular
<1>2. rows[t] \in Row => rows[t] # None /\ rows[t].version \in Nat /\ rows[t].retry \in Nat
  BY StoreAssumption DEF Row
<1>3. MaxRetries[t] \in Nat
  BY TaskAssumption DEF Regular, Handled
<1>4. CASE Same(t)
  BY <1>1, <1>2, <1>4 DEF Same, StageOK
<1>5. CASE Born(t)
  BY <1>5 DEF Born, StageOK
<1>6. CASE Raised(t)
  BY <1>1, <1>2, <1>6 DEF Raised, StageOK
<1>7. CASE Counted(t)
  BY <1>1, <1>2, <1>3, <1>7 DEF Counted, StageOK
<1> QED
  BY <1>1, <1>4, <1>5, <1>6, <1>7 DEF Moves, Gone

(* What moves the state of a regular task.                                 *)
LEMMA StateMoves ==
  ASSUME Base, Attempts, Stages, [Next]_vars, NEW t \in Regular
  PROVE  \/ StateOf(t)' = StateOf(t)
         \/ StateOf(t) = "absent" /\ StateOf(t)' = "pending"
         \/ StateOf(t) \in {"pending", "retrying"} /\ StateOf(t)' = "running"
         \/ StateOf(t) = "running" /\ StateOf(t)' \in {"completed", "failed", "retrying"}
         \/ StateOf(t) \in {"completed", "failed"} /\ StateOf(t)' = "absent"
<1>1. Moves(t) /\ StageOK(t) /\ t \notin Cancellable
  BY RowMoves DEF Stages, Regular
<1>2. rows[t] \in Row => rows[t] # None /\ rows[t].version \in Nat /\ rows[t].retry \in Nat
  BY StoreAssumption DEF Row
<1>3. rows'[t] \in Row => rows'[t] # None
  BY StoreAssumption
<1>4. MaxRetries[t] \in Nat
  BY TaskAssumption DEF Regular, Handled
<1>5. CASE Same(t) \/ Born(t)
  BY <1>2, <1>3, <1>5 DEF Same, Born, StateOf
<1>6. CASE Gone(t)
  BY <1>1, <1>6 DEF Gone, StateOf, GotTerminal, IsTerminal, StageOK
<1>7. CASE Raised(t)
  <2>1. StateOf(t) = rows[t].state /\ StateOf(t)' = rows'[t].state
    BY <1>2, <1>3, <1>7 DEF Raised, StateOf
  <2>2. PICK v \in Nat, r \in Nat : rows[t].version = v /\ rows[t].retry = r
    BY <1>2, <1>7 DEF Raised
  <2>3. ASSUME v = 2 * r + 1, r = 0 \/ r < MaxRetries[t] PROVE rows[t].state \in {"pending", "retrying"}
    BY <1>1, <1>2, <1>4, <1>7, <2>2, <2>3 DEF Raised, StageOK
  <2>4. ASSUME v = 2 * r + 2 PROVE rows[t].state = "running"
    BY <1>1, <1>2, <1>7, <2>2, <2>4 DEF Raised, StageOK
  <2> QED
    BY <1>1, <1>7, <2>1, <2>2, <2>3, <2>4 DEF Raised
<1>8. CASE Counted(t)
  BY <1>1, <1>2, <1>3, <1>8 DEF Counted, StateOf, StageOK
<1> QED
  BY <1>1, <1>5, <1>6, <1>7, <1>8 DEF Moves

\* The state the abstract specification sees.
Seen == [t \in Regular |-> StateOf(t)]

(* Every step is a step of the abstract specification, or none.            *)
LEMMA LifecycleStep ==
  ASSUME Base, Attempts, Stages, [Next]_vars PROVE [Lifecycle!Next]_Seen
<1>1. Regular \subseteq Tasks
  BY DEF Regular, Handled
<1>2. CASE rows' = rows
  BY <1>2 DEF Seen, StateOf
<1>3. ASSUME NEW B \in SUBSET Tasks, DeleteStep(B) PROVE Lifecycle!Next
  <2> DEFINE D == B \cap Regular
  <2>1. ASSUME NEW t \in Regular PROVE StateOf(t)' = IF t \in D THEN "absent" ELSE StateOf(t)
    BY <1>1, <1>3, <2>1 DEF DeleteStep, StateOf
  <2>2. ASSUME NEW t \in D PROVE StateOf(t) \in {"completed", "failed"}
    BY <1>3, <2>2 DEF DeleteStep, GotTerminal, IsTerminal, StateOf, Stages, StageOK
  <2>3. D \in SUBSET {t \in Regular : Seen[t] \in {"completed", "failed"}}
    BY <2>2 DEF Seen
  <2>4. Seen' = [t \in Regular |-> IF t \in D THEN "absent" ELSE Seen[t]]
    BY <2>1 DEF Seen
  <2>5. Lifecycle!Purge
    BY <2>3, <2>4 DEF Lifecycle!Purge, Seen
  <2> QED
    BY <2>5 DEF Lifecycle!Next
<1>4. ASSUME NEW t \in Tasks, \A u \in Tasks : u # t => rows'[u] = rows[u] PROVE [Lifecycle!Next]_Seen
  <2>1. \A u \in Regular : u # t => StateOf(u)' = StateOf(u)
    BY <1>1, <1>4 DEF StateOf
  <2>2. CASE t \notin Regular \/ StateOf(t)' = StateOf(t)
    BY <2>1, <2>2 DEF Seen
  <2>3. CASE t \in Regular
    <3>1. Seen[t] = StateOf(t) /\ Seen' = [Seen EXCEPT ![t] = StateOf(t)']
      BY <2>1, <2>3 DEF Seen
    <3>2. CASE StateOf(t) = "absent" /\ StateOf(t)' = "pending"
      BY <2>3, <3>1, <3>2 DEF Lifecycle!Next, Lifecycle!Submit, Lifecycle!Move, Seen
    <3>3. CASE StateOf(t) \in {"pending", "retrying"} /\ StateOf(t)' = "running"
      BY <2>3, <3>1, <3>3 DEF Lifecycle!Next, Lifecycle!Start, Lifecycle!Move, Seen
    <3>4. CASE StateOf(t) = "running" /\ StateOf(t)' \in {"completed", "failed", "retrying"}
      BY <2>3, <3>1, <3>4 DEF Lifecycle!Next, Lifecycle!Finish, Lifecycle!Move, Seen
    <3>5. CASE StateOf(t) \in {"completed", "failed"} /\ StateOf(t)' = "absent"
      <4>1. Seen' = [u \in Regular |-> IF u \in {t} THEN "absent" ELSE Seen[u]]
        BY <3>1, <3>5 DEF Seen
      <4>2. {t} \in SUBSET {u \in Regular : Seen[u] \in {"completed", "failed"}}
        BY <2>3, <3>1, <3>5
      <4> QED
        BY <4>1, <4>2 DEF Lifecycle!Next, Lifecycle!Purge, Seen
    <3> QED
      BY <2>2, <2>3, <3>2, <3>3, <3>4, <3>5, StateMoves
  <2> QED
    BY <2>2, <2>3
<1> QED
  BY <1>2, <1>3, <1>4, OneRow, DispatchTable

(* Initially no task has a row.                                            *)
LEMMA LifecycleInit == Init => Stages /\ Lifecycle!Init
<1> SUFFICES ASSUME Init PROVE Stages /\ Lifecycle!Init
  OBVIOUS
<1>1. \A t \in Regular : rows[t] = None
  BY DEF Init, StoreInit, Regular, Handled
<1> QED
  BY <1>1 DEF Stages, StageOK, Lifecycle!Init, StateOf

(* The whole system, with its copies, redeliveries, crashes, failed calls  *)
(* and broken pipelines, implements the state table: the optimistic lock   *)
(* alone lets exactly one writer make each transition.                     *)
THEOREM ImplementsLifecycle == Spec => LifecycleSpec
<1>1. Init => Base /\ Attempts /\ Stages /\ Lifecycle!Init
  BY InitBase, InitAttempts, LifecycleInit
<1>2. Base /\ Attempts /\ Stages /\ [Next]_vars => Base' /\ Attempts' /\ Stages'
  BY NextBase, NextAttempts, NextStages
<1>3. Base /\ Attempts /\ Stages /\ [Next]_vars => [Lifecycle!Next]_Seen
  BY LifecycleStep
<1> QED
  BY <1>1, <1>2, <1>3, PTL DEF Spec, LifecycleSpec, Lifecycle!Spec, Seen

-----------------------------------------------------------------------------
(* A cancellation reaches the handler.                                     *)

(* A message says that the request has done its work.                      *)
Published == \A w \in Workers, t \in Tasks : <<w, t>> \in signals \cup delivered => request[t].pc = "done"

(* Between trackCancel and untrackCancel the map holds the context of the  *)
(* task's own execution.                                                   *)
TracksOwn(c) ==
  slot[c].pc \in {"check2", "start", "handling", "failing"} => cancels[WorkerOf[c]][slot[c].id] = c

Reached(c) ==
  faults = 0 /\ slot[c].pc \in {"start", "handling"} /\ <<WorkerOf[c], slot[c].id>> \in delivered
    /\ StateOf(slot[c].id) = "cancelled" => dead[c]

CancelInv == Published /\ \A c \in Clients : TracksOwn(c) /\ Reached(c)

(* No worker works on two copies of one task at the same time.             *)
Alone ==
  \A c, d \in Clients :
    slot[c].pc # "idle" /\ WorkerOf[c] = WorkerOf[d] /\ slot[c].id = slot[d].id => c = d

(* A message comes after the removal.                                      *)
LEMMA NextPublished == ASSUME Base, Published, [Next]_vars PROVE Published'
<1>1. SignalT /\ ApiT
  BY DEF Base, DTypes
<1>2. CASE UNCHANGED <<signals, delivered, request>>
  BY <1>2 DEF Published
<1>3. ASSUME NEW t \in Tasks, Api(t) PROVE Published'
  <2>1. CASE CancelPublish(t)
    <3>1. /\ \A u \in Tasks : u # t => request'[u] = request[u]
          /\ request'[t].pc = "done"
      BY <1>1, <2>1 DEF CancelPublish, ApiT
    <3>2. delivered' = delivered /\ signals' \subseteq signals \cup (Workers \X {t})
      BY <2>1 DEF CancelPublish
    <3> QED
      BY <3>1, <3>2 DEF Published
  <2>2. CASE SubmitCreate(t) \/ SubmitEnqueue(t)
    BY <1>2, <2>2 DEF SubmitCreate, SubmitEnqueue, signalVars
  <2>3. CASE CancelGet(t) \/ CancelUpdate(t) \/ CancelRemove(t)
    <3>1. request[t].pc # "done" /\ UNCHANGED <<signals, delivered>>
      BY <2>3 DEF CancelGet, CancelUpdate, CancelRemove, signalVars
    <3>2. \A u \in Tasks : u # t => request'[u] = request[u]
      BY <1>1, <2>3 DEF CancelGet, CancelUpdate, CancelRemove, ApiT
    <3> QED
      BY <3>1, <3>2 DEF Published
  <2> QED
    BY <1>3, <2>1, <2>2, <2>3 DEF Api
<1>4. ASSUME NEW w \in Workers, Crash(w) PROVE Published'
  BY <1>4 DEF Crash, Published, apiVars
<1>5. ASSUME NEW w \in Workers, NEW t \in Tasks, CancelListen(w, t) PROVE Published'
  BY <1>5 DEF CancelListen, Published, apiVars
<1> QED
  BY <1>2, <1>3, <1>4, <1>5, Cases, ProcessFrame, SchedulerFrame DEF vars, apiVars, signalVars

(* What a step does to the map and to the contexts.                        *)
LEMMA MapSteps ==
  ASSUME Base, [Next]_vars
  PROVE  \/ UNCHANGED <<dead, cancels>>
         \/ \E c \in Clients : Track(c) \/ Untrack(c)
         \/ \E w \in Workers : Crash(w)
         \/ \E w \in Workers, t \in Tasks : CancelListen(w, t)
<1>1. ASSUME NEW c \in Clients, Process(c) PROVE Track(c) \/ Untrack(c) \/ UNCHANGED <<dead, cancels>>
  BY <1>1 DEF Process, Fetch, FetchExtend, Check1, Check2, Start, HandleSuccess, HandlerFails,
     HandleFailure, Pipelined, PipelineFails
<1> QED
  BY <1>1, Cases, ApiFrame, SchedulerFrame DEF vars, workerVars

(* From trackCancel to the end of the attempt a client has the same task,  *)
(* and only the second check leads to the handler.                         *)
LEMMA SameTask ==
  ASSUME Base, [Next]_vars, NEW c \in Clients, ~Track(c),
         slot'[c].pc \in {"check2", "start", "handling", "failing"}
  PROVE  /\ slot[c].pc \in {"check2", "start", "handling", "failing"} /\ slot'[c].id = slot[c].id
         /\ slot'[c].pc \in {"start", "handling"} => slot[c].pc \in {"start", "handling"} \/ Check2(c)
<1>1. slot \in [Clients -> [pc : PCs, id : Tasks \cup {None}]]
  BY ClientTypes
<1>2. CASE Process(c)
  <2>1. ASSUME NEW x, Goto(c, x) PROVE slot'[c].pc = x /\ slot'[c].id = slot[c].id
    BY <1>1, <2>1 DEF Goto
  <2>2. ASSUME Leave(c) PROVE FALSE
    BY <1>1, <2>2 DEF Leave, IdleSlot
  <2>3. ~Fetch(c)
    BY <1>1 DEF Fetch
  <2>4. ~FetchExtend(c) /\ ~Check1(c) /\ ~HandleSuccess(c) /\ ~HandleFailure(c)
    BY <2>1, <2>2 DEF FetchExtend, Check1, HandleSuccess, HandleFailure
  <2>5. ~Pipelined(c) /\ ~PipelineFails(c) /\ ~Untrack(c)
    BY <2>1, <2>2 DEF Pipelined, PipelineFails, Untrack
  <2>6. Check2(c) \/ Start(c) \/ HandlerFails(c)
    BY <1>2, <2>3, <2>4, <2>5 DEF Process
  <2> QED
    BY <2>1, <2>6 DEF Check2, Start, HandlerFails
<1>3. CASE slot'[c] = slot[c]
  BY <1>3
<1>4. ASSUME NEW w \in Workers, Crash(w) PROVE slot'[c] = slot[c]
  BY <1>4 DEF Crash, IdleSlot
<1>5. ASSUME NEW d \in Clients, Process(d), d # c PROVE slot'[c] = slot[c]
  BY <1>5, ProcessOthers
<1>6. (\E w \in Workers, t \in Tasks : CancelListen(w, t)) \/ UNCHANGED vars => slot' = slot
  BY DEF CancelListen, vars, workerVars
<1> QED
  BY <1>2, <1>3, <1>4, <1>5, <1>6, Cases, ApiFrame, SchedulerFrame

(* Nobody else touches the entry of a copy that is alone on its worker.    *)
LEMMA NextTracks ==
  ASSUME Base, Alone, CancelInv, [Next]_vars, NEW c \in Clients PROVE TracksOwn(c)'
<1> DEFINE P == {"check2", "start", "handling", "failing"}
<1> SUFFICES ASSUME slot'[c].pc \in P PROVE cancels'[WorkerOf[c]][slot'[c].id] = c
  BY DEF TracksOwn
<1>1. MapT /\ WorkerOf[c] \in Workers /\ slot \in [Clients -> [pc : PCs, id : Tasks \cup {None}]]
  BY ClientTypes, DispatchAssumption DEF Base, DTypes
<1>2. CASE Track(c)
  <2>1. slot'[c].id = slot[c].id /\ slot[c].id \in Tasks
    BY <1>1, <1>2, ClientTypes DEF Track, Goto, SlotOK
  <2> QED
    BY <1>1, <1>2, <2>1 DEF Track, MapT
<1>3. CASE ~Track(c)
  <2>1. slot[c].pc \in P /\ slot'[c].id = slot[c].id
    BY <1>3, SameTask
  <2>2. cancels[WorkerOf[c]][slot[c].id] = c /\ slot[c].id \in Tasks
    BY <2>1, ClientTypes DEF CancelInv, TracksOwn, SlotOK
  <2>3. ASSUME NEW d \in Clients, Track(d) \/ Untrack(d) PROVE cancels'[WorkerOf[c]][slot[c].id] = c
    <3>1. d # c
      BY <1>3, <2>1, <2>3 DEF Untrack
    <3>2. ~(WorkerOf[c] = WorkerOf[d] /\ slot[c].id = slot[d].id)
      BY <2>1, <3>1 DEF Alone
    <3>3. \E x : cancels' = [cancels EXCEPT ![WorkerOf[d]][slot[d].id] = x]
      BY <2>3 DEF Track, Untrack
    <3> QED
      BY <1>1, <2>2, <3>2, <3>3 DEF MapT
  <2>4. ASSUME NEW w \in Workers, Crash(w) PROVE cancels'[WorkerOf[c]][slot[c].id] = c
    <3>1. WorkerOf[c] # w
      BY <2>4 DEF Crash, IdleSlot
    <3> QED
      BY <1>1, <2>2, <2>4, <3>1 DEF Crash, MapT
  <2>5. ASSUME NEW w \in Workers, NEW t \in Tasks, CancelListen(w, t) PROVE cancels' = cancels
    BY <2>5 DEF CancelListen
  <2> QED
    BY <2>1, <2>2, <2>3, <2>4, <2>5, MapSteps
<1> QED
  BY <1>2, <1>3

(* Only the API cancels.                                                   *)
LEMMA CancelOnly ==
  ASSUME Base, [Next]_vars, NEW t \in Tasks, StateOf(t)' = "cancelled", StateOf(t) # "cancelled"
  PROVE  request[t].pc = "loaded"
<1>1. StoreTypeOK /\ now \in Nat
  BY DEF Base, DTypes, Types
<1>2. rows'[t] # rows[t] /\ rows'[t] # None /\ rows'[t].state = "cancelled"
  BY DEF StateOf
<1>3. ~\E B \in SUBSET Tasks : DeleteStep(B)
  BY <1>1, <1>2 DEF DeleteStep, StoreTypeOK
<1>4. ~CreateStep(t)
  BY <1>1, <1>2 DEF CreateStep, Create, StoreTypeOK
<1>5. ~TouchStep(t)
  BY <1>1, <1>2 DEF TouchStep, TouchUpdatedAt, StoreTypeOK, Row, StateOf
<1>6. ASSUME NEW c \in Clients, slot[c].id = t, StartStep(c) \/ SuccessStep(c) \/ FailureStep(c) PROVE FALSE
  <2>1. held[c] \in Member /\ held[c].id = t
    BY <1>6, HeldMember DEF StartStep, SuccessStep, FailureStep, Early, Late
  <2>2. Failing(held[c]) \in Member /\ Failing(held[c]).id = t
    BY <2>1, FailingType
  <2> QED
    BY <1>1, <1>2, <1>6, <2>1, <2>2, UpdateEffect DEF StartStep, SuccessStep, FailureStep, TaskState
<1> QED
  BY <1>2, <1>3, <1>4, <1>5, <1>6, OneRow, DispatchTable DEF CancelStep

(* A failure stays on record.                                              *)
LEMMA FaultsStay == ASSUME Base, [Next]_vars, faults' = 0 PROVE faults = 0 /\ ~Fault
<1>1. faults \in Nat
  BY DEF Base, DTypes, BudgetT
<1>2. ~Fault
  BY <1>1 DEF Fault
<1>3. CASE faults' = faults
  BY <1>2, <1>3
<1>4. ASSUME NEW t \in Tasks, Api(t) PROVE faults' = faults
  BY <1>2, <1>4 DEF Api, SubmitCreate, SubmitEnqueue, CancelGet, CancelUpdate, CancelRemove,
     CancelPublish, NoFault, budget
<1>5. ASSUME NEW c \in Clients, Process(c) PROVE faults' = faults
  BY <1>2, <1>5 DEF Process, Fetch, FetchExtend, Check1, Track, Check2, Start, HandleSuccess, HandlerFails,
     HandleFailure, Pipelined, PipelineFails, Untrack, SeesTerminal, SeesLive, Succeeds, Errs, NoFault, budget
<1>6. CASE Scheduler \/ Clock
  BY <1>2, <1>6 DEF Scheduler, Clock, Promote, Reclaim, CompensateFind, CompensateEnqueue, CompensateTouch,
     Cleanup, NoFault, budget
<1> QED
  BY <1>3, <1>4, <1>5, <1>6, Cases DEF Crash, CancelListen, vars, budget

(* The message finds the context, or the second check finds the row.       *)
LEMMA NextReached ==
  ASSUME Base, Alone, CancelInv, [Next]_vars, NEW c \in Clients PROVE Reached(c)'
<1> SUFFICES ASSUME NEW t, slot'[c].id = t, faults' = 0, slot'[c].pc \in {"start", "handling"},
                    <<WorkerOf[c], t>> \in delivered', StateOf(t)' = "cancelled"
             PROVE  dead'[c]
  BY DEF Reached, StateOf
<1>1. faults = 0 /\ ~Fault
  BY FaultsStay
<1>2. /\ MapT /\ WorkerOf[c] \in Workers
      /\ slot \in [Clients -> [pc : PCs, id : Tasks \cup {None}]]
  BY ClientTypes, DispatchAssumption DEF Base, DTypes
<1>3. ~Track(c)
  BY <1>2 DEF Track, Goto
<1>4. /\ slot[c].pc \in {"check2", "start", "handling", "failing"} /\ slot[c].id = t /\ t \in Tasks
      /\ slot[c].pc \in {"start", "handling"} \/ Check2(c)
  <2>1. /\ slot[c].pc \in {"check2", "start", "handling", "failing"} /\ slot[c].id = t
        /\ slot[c].pc \in {"start", "handling"} \/ Check2(c)
    BY <1>3, SameTask
  <2> QED
    BY <2>1, ClientTypes DEF SlotOK
<1>5. CASE Check2(c)
  <2>1. slot'[c].pc # "finishing" /\ ~GotTerminal(t) /\ rows' = rows
    BY <1>1, <1>2, <1>4, <1>5 DEF Check2, SeesLive, Goto, notWorker
  <2> QED
    BY <2>1 DEF GotTerminal, IsTerminal, StateOf
<1>6. CASE slot[c].pc \in {"start", "handling"}
  <2>1. CASE CancelListen(WorkerOf[c], t)
    <3>1. cancels[WorkerOf[c]][t] = c
      BY <1>4 DEF CancelInv, TracksOwn
    <3> QED
      BY <2>1, <3>1 DEF CancelListen
  <2>2. CASE <<WorkerOf[c], t>> \in delivered
    <3>1. request[t].pc = "done"
      BY <1>2, <1>4, <2>2 DEF CancelInv, Published
    <3>2. StateOf(t) = "cancelled"
      BY <1>4, <3>1, CancelOnly
    <3>3. dead[c]
      BY <1>1, <1>4, <1>6, <2>2, <3>2 DEF CancelInv, Reached
    <3>4. ASSUME NEW d \in Clients, Track(d) \/ Untrack(d) PROVE dead'[c]
      <4>1. d # c
        BY <1>3, <1>6, <3>4 DEF Untrack
      <4> QED
        BY <1>2, <3>3, <3>4, <4>1 DEF Track, Untrack, MapT
    <3>5. ASSUME NEW w \in Workers, Crash(w) PROVE dead'[c]
      <4>1. WorkerOf[c] # w
        BY <3>5 DEF Crash, IdleSlot
      <4> QED
        BY <3>3, <3>5, <4>1 DEF Crash
    <3>6. ASSUME NEW w \in Workers, NEW u \in Tasks, CancelListen(w, u) PROVE dead'[c]
      BY <3>3, <3>6 DEF CancelListen
    <3> QED
      BY <3>3, <3>4, <3>5, <3>6, MapSteps
  <2>3. CASE <<WorkerOf[c], t>> \notin delivered /\ ~CancelListen(WorkerOf[c], t)
    <3>1. CASE delivered' = delivered
      BY <2>3, <3>1
    <3>2. ASSUME NEW w \in Workers, NEW u \in Tasks, CancelListen(w, u) PROVE FALSE
      <4>1. <<WorkerOf[c], t>> = <<w, u>>
        BY <2>3, <3>2 DEF CancelListen
      <4> QED
        BY <2>3, <3>2, <4>1
    <3> QED
      BY <3>1, <3>2, Cases, ApiFrame, ProcessFrame, SchedulerFrame DEF Crash, vars, signalVars
  <2> QED
    BY <2>1, <2>2, <2>3
<1> QED
  BY <1>4, <1>5, <1>6

(* As long as no worker works on two copies of one task at once and no     *)
(* call fails, a cancel message that was handled has stopped the handler,  *)
(* whichever of the message, the checks and trackCancel came first.        *)
THEOREM CancelReaches == Spec /\ []Alone => []CancelReachesHandler
<1>1. Init => Base /\ CancelInv
  <2>1. ASSUME Init PROVE Published
    BY <2>1 DEF Init, Published
  <2>2. ASSUME Init, NEW c \in Clients PROVE TracksOwn(c) /\ Reached(c)
    BY <2>2 DEF Init, IdleSlot, TracksOwn, Reached
  <2> QED
    BY <2>1, <2>2, InitBase DEF CancelInv
<1>2. Base /\ Alone /\ CancelInv /\ [Next]_vars => Base' /\ CancelInv'
  BY NextBase, NextPublished, NextTracks, NextReached DEF CancelInv
<1>3. CancelInv => CancelReachesHandler
  BY DEF CancelInv, Reached, CancelReachesHandler
<1> QED
  BY <1>1, <1>2, <1>3, PTL DEF Spec

-----------------------------------------------------------------------------
(* Nothing that has begun is forgotten.  The version tells whose turn it   *)
(* is: a running row has a worker whose struct still matches it, a         *)
(* retrying row a copy that does.                                          *)

DrivenBy(c, t, v) == slot[c].pc \in Late /\ slot[c].id = t /\ held[c].version = v
HeldBy(c, t, v) == slot[c].pc \in Early \cup {"failing"} /\ slot[c].id = t /\ held[c].version = v
ReturnedBy(c, t, v) ==
  /\ pipe[c].cmd \in {"hdel", "zrem", "last"} /\ pipe[c].kind \in {"retryAt", "retryNow"}
  /\ pipe[c].task.id = t /\ pipe[c].task.version = v

Waits(t, v) == \E m \in Member : Listed(m) /\ m.id = t /\ m.version = v

Driven(t, v) == \E c \in Clients : DrivenBy(c, t, v)
Alive(t, v) == Waits(t, v) \/ \E c \in Clients : HeldBy(c, t, v) \/ ReturnedBy(c, t, v)

BegunOK(t) ==
  /\ StateOf(t) = "running" => Driven(t, rows[t].version)
  /\ StateOf(t) = "retrying" => Alive(t, rows[t].version) \/ Withdrawn(t)

Begun == \A t \in Tasks : BegunOK(t)

(* No worker crashes, and the calls by which a worker takes a task, writes *)
(* an outcome and returns the task succeed.  Every other call may fail:    *)
(* the reads of the row, and all that the API server and the scheduler do. *)
Calm ==
  /\ crashes' = crashes
  /\ \A c \in Clients :
       FetchExtend(c) \/ Start(c) \/ HandleSuccess(c) \/ HandleFailure(c) \/ PipelineFails(c)
         => faults' = faults

(* What a calm step is not.                                                *)
LEMMA NoFailures ==
  ASSUME Calm, Base
  PROVE  /\ \A w \in Workers : ~Crash(w)
         /\ \A c \in Clients : /\ FetchExtend(c) \/ Start(c) \/ HandleSuccess(c) \/ HandleFailure(c) => ~Fault
                             /\ ~PipelineFails(c)
<1>1. crashes \in Nat /\ faults \in Nat
  BY DEF Base, DTypes, BudgetT
<1>2. \A w \in Workers : ~Crash(w)
  BY <1>1 DEF Calm, Crash
<1>3. Fault => faults' # faults
  BY <1>1 DEF Fault
<1>4. \A c \in Clients : PipelineFails(c) => Fault
  BY DEF PipelineFails
<1> QED
  BY <1>2, <1>3, <1>4 DEF Calm

(* A consumer of a copy has it in its hands.                               *)
LEMMA DequeueHeld ==
  ASSUME Base, [Next]_vars, NEW c \in Clients, Dequeue(c), NEW m \in Member, held'[c] = m
  PROVE  HeldBy(c, m.id, m.version)'
<1>1. held[c] = None /\ (pipe'[c] = NoPipe \/ pipe'[c].cmd = "extend")
  BY DequeueHands DEF Dequeue
<1>2. SlotOK(c) /\ SlotOK(c)' /\ slot'[c].pc \in PCs
  BY ClientTypes, NextSlots DEF Slots, SlotT
<1>3. slot[c].pc \notin Early \cup Late
  BY <1>1, <1>2, NoneAssumption DEF SlotOK, Early, Late
<1>4. slot'[c].pc \in Early \cup Late
  BY <1>1, <1>2, NoneAssumption DEF SlotOK, Early, Late, Ending, PCs, NoPipe
<1>5. ~SameHands(c)
  BY <1>1, NoneAssumption DEF SameHands
<1>6. Fetches(c)
  BY <1>3, <1>4, <1>5, Paths DEF GoesOn, Runs, Fails, Ends, Early, Late
<1> QED
  BY <1>6 DEF Fetches, HeldBy, Early

(* A withdrawn task stays withdrawn.                                       *)
LEMMA WithdrawnStays == ASSUME Base, [Next]_vars, NEW t \in Tasks, Withdrawn(t) PROVE Withdrawn(t)'
<1>1. request \in [Tasks -> [pc : {"none", "loaded", "remove", "publish", "done"}, version : Nat]]
  BY DEF Base, DTypes, ApiT
<1>2. ASSUME NEW u \in Tasks, Api(u) PROVE Withdrawn(t)'
  <2>1. CASE CancelPublish(u) \/ CancelRemove(u)
    BY <1>1, <2>1 DEF CancelPublish, CancelRemove, Withdrawn
  <2>2. CASE CancelGet(u) \/ CancelUpdate(u)
    BY <1>1, <2>2 DEF CancelGet, CancelUpdate, Withdrawn
  <2>3. CASE SubmitCreate(u) \/ SubmitEnqueue(u)
    BY <2>3 DEF SubmitCreate, SubmitEnqueue, Withdrawn
  <2> QED
    BY <1>2, <2>1, <2>2, <2>3 DEF Api
<1>3. ASSUME UNCHANGED request PROVE Withdrawn(t)'
  BY <1>3 DEF Withdrawn
<1>4. ASSUME NEW c \in Clients, Process(c) PROVE UNCHANGED request
  BY <1>4, ProcessFrame
<1>5. (\E w \in Workers : Crash(w) \/ \E u \in Tasks : CancelListen(w, u)) \/ UNCHANGED vars => UNCHANGED request
  BY DEF Crash, CancelListen, vars, apiVars
<1> QED
  BY <1>2, <1>3, <1>4, <1>5, SchedulerFrame DEF Next

(* A copy in its queue waits there, is taken or is withdrawn.              *)
LEMMA WaitsOn ==
  ASSUME Base, [Next]_vars, NEW t \in Tasks, NEW v, Waits(t, v) PROVE Alive(t, v)' \/ Withdrawn(t)'
<1>1. PICK m \in Member : Listed(m) /\ m.id = t /\ m.version = v
  BY DEF Waits
<1>2. \/ Listed(m)' \/ \E c \in Clients : Dequeue(c) /\ held'[c] = m
      \/ CancelRemove(t)
  BY <1>1, ListedStays, ListedOthers, QueueCalls DEF Base, DTypes
<1>3. CASE Listed(m)'
  BY <1>1, <1>3 DEF Alive, Waits
<1>4. ASSUME NEW c \in Clients, Dequeue(c), held'[c] = m PROVE Alive(t, v)'
  <2>1. HeldBy(c, t, v)'
    BY <1>1, <1>4, DequeueHeld
  <2> QED
    BY <2>1 DEF Alive
<1>5. CASE CancelRemove(t)
  BY <1>5 DEF CancelRemove, Withdrawn, Base, DTypes, ApiT
<1> QED
  BY <1>2, <1>3, <1>4, <1>5

(* A row that processTask changes goes to the one who changed it.          *)
LEMMA WriterOwns ==
  ASSUME Calm, Base, NEW c \in Clients, Process(c), NEW t \in Tasks, rows'[t] # rows[t]
  PROVE  BegunOK(t)'
<1>1. Start(c) \/ HandleSuccess(c) \/ HandleFailure(c)
  BY DEF Process, Fetch, FetchExtend, Check1, Track, Check2, HandlerFails, Pipelined, PipelineFails,
     Untrack, notWorker
<1>2. StoreTypeOK /\ now \in Nat /\ ~Fault
  BY <1>1, NoFailures DEF Base, DTypes, Types
<1>3. held[c] \in Member /\ held[c].id = slot[c].id
  BY <1>1, HeldMember DEF Start, HandleSuccess, HandleFailure, Early, Late
<1>4. ASSUME NEW m, NEW s, Succeeds(m, s) \/ Errs(m, s) PROVE Succeeds(m, s)
  BY <1>2, <1>4 DEF Errs, UpdateConflict
<1>5. ASSUME NEW m \in Member, NEW s \in TaskState, Succeeds(m, s)
      PROVE  m.id = t /\ rows'[t] # None /\ StateOf(t)' = s /\ rows'[t].version = m.version + 1
  <2>1. /\ rows'[m.id] \in Row /\ rows'[m.id].state = s /\ rows'[m.id].version = m.version + 1
        /\ \A u \in Tasks : u # m.id => rows'[u] = rows[u]
    BY <1>2, <1>5, UpdateEffect DEF Succeeds
  <2> QED
    BY <2>1, StoreAssumption DEF StateOf
<1>6. CASE Start(c)
  <2>1. Succeeds(held[c], "running")
    BY <1>4, <1>6 DEF Start
  <2>2. slot[c].id = t /\ StateOf(t)' = "running" /\ rows'[t].version = held[c].version + 1
    BY <1>3, <1>5, <2>1 DEF TaskState
  <2>3. slot'[c].pc = "handling" /\ slot'[c].id = slot[c].id /\ held'[c] = Bumped(held[c])
    BY <1>6, ClientTypes DEF Start, Goto
  <2>4. DrivenBy(c, t, rows[t].version)'
    BY <1>3, <2>2, <2>3, BumpedType DEF DrivenBy, Late
  <2> QED
    BY <2>2, <2>4 DEF BegunOK, Driven
<1>7. CASE HandleSuccess(c)
  <2>1. Succeeds(held[c], "completed")
    BY <1>4, <1>7 DEF HandleSuccess
  <2>2. StateOf(t)' = "completed"
    BY <1>3, <1>5, <2>1 DEF TaskState
  <2> QED
    BY <2>2 DEF BegunOK
<1>8. CASE HandleFailure(c)
  <2> DEFINE m == Failing(held[c])
  <2>1. m \in Member
    BY <1>3, FailingType
  <2>2. CASE CanRetry(m) /\ Succeeds(m, "retrying") /\ Nack(c, Bumped(m))
    <3>1. m.id = t /\ StateOf(t)' = "retrying" /\ rows'[t].version = m.version + 1
      BY <1>5, <2>1, <2>2 DEF TaskState
    <3>2. Bumped(m).id = t /\ Bumped(m).version = m.version + 1 /\ Bumped(m).retry = m.retry
      BY <2>1, <3>1, BumpedType
    <3>3. pipe'[c].cmd = "hdel" /\ pipe'[c].task = Bumped(m) /\ pipe'[c].kind \in {"retryAt", "retryNow"}
      BY <2>2, <3>1, <3>2, CallHands DEF CanRetry
    <3>4. ReturnedBy(c, t, rows[t].version)'
      BY <3>1, <3>2, <3>3 DEF ReturnedBy
    <3> QED
      BY <3>1, <3>4 DEF BegunOK, Alive
  <2>3. CASE ~CanRetry(m)
    <3>1. Succeeds(m, "failed")
      BY <1>4, <1>8, <2>3 DEF HandleFailure, Failing
    <3>2. StateOf(t)' = "failed"
      BY <1>5, <2>1, <3>1 DEF TaskState
    <3> QED
      BY <3>2 DEF BegunOK
  <2>4. CASE CanRetry(m) /\ Errs(m, "retrying")
    BY <1>2, <2>4 DEF Errs, UpdateConflict
  <2> QED
    BY <1>8, <2>2, <2>3, <2>4 DEF HandleFailure, Failing
<1> QED
  BY <1>1, <1>6, <1>7, <1>8

(* A worker whose struct matches the row does not let go of it without     *)
(* writing the row.                                                        *)
LEMMA OwnerKeeps ==
  ASSUME Calm, Base, NEW c \in Clients, Process(c), NEW t \in Tasks, NEW v,
         rows'[t] = rows[t], rows[t] # None, rows[t].version = v
  PROVE  /\ StateOf(t) = "running" /\ DrivenBy(c, t, v) => DrivenBy(c, t, v)'
         /\ StateOf(t) = "retrying" /\ HeldBy(c, t, v) => HeldBy(c, t, v)'
<1>1. /\ StoreTypeOK /\ now \in Nat
      /\ FetchExtend(c) \/ Start(c) \/ HandleSuccess(c) \/ HandleFailure(c) => ~Fault
  BY NoFailures DEF Base, DTypes, Types
<1>2. slot \in [Clients -> [pc : PCs, id : Tasks \cup {None}]] /\ held \in [Clients -> Member \cup {None}]
  BY ClientTypes
<1>3. ASSUME NEW x, Goto(c, x) PROVE slot'[c].pc = x /\ slot'[c].id = slot[c].id
  BY <1>2, <1>3 DEF Goto
<1>4. ASSUME slot[c].id = t, held[c].version = v, Start(c) \/ HandleSuccess(c) \/ HandleFailure(c) PROVE FALSE
  <2>1. held[c] \in Member /\ held[c].id = t
    BY <1>4, HeldMember DEF Start, HandleSuccess, HandleFailure, Early, Late
  <2>2. Failing(held[c]) \in Member /\ Failing(held[c]).id = t /\ Failing(held[c]).version = v
    BY <1>4, <2>1, FailingType
  <2>3. ASSUME NEW m \in Member, m.id = t, m.version = v, NEW s \in TaskState,
               Succeeds(m, s) \/ Errs(m, s)
        PROVE  FALSE
    <3>1. UpdateOk(m, s, now)
      BY <1>1, <1>4, <2>3 DEF Succeeds, Errs, UpdateConflict, Matches
    <3>2. rows'[t].version = v + 1 /\ v \in Nat
      BY <1>1, <2>3, <3>1, UpdateEffect DEF Member
    <3> QED
      BY <3>2
  <2>4. CASE Start(c) \/ HandleSuccess(c)
    BY <1>4, <2>1, <2>3, <2>4 DEF Start, HandleSuccess, TaskState
  <2>5. CASE HandleFailure(c)
    <3>1. \E s \in {"retrying", "failed"} : Succeeds(Failing(held[c]), s) \/ Errs(Failing(held[c]), s)
      BY <2>5 DEF HandleFailure, Failing
    <3> QED
      BY <2>2, <2>3, <3>1 DEF TaskState
  <2> QED
    BY <1>4, <2>4, <2>5
<1>5. ASSUME StateOf(t) = "running", DrivenBy(c, t, v) PROVE DrivenBy(c, t, v)'
  <2>1. slot[c].pc \in Late /\ slot[c].id = t /\ held[c].version = v
    BY <1>5 DEF DrivenBy
  <2>2. HandlerFails(c)
    <3>1. ~Fetch(c) /\ ~FetchExtend(c) /\ ~Check1(c) /\ ~Track(c) /\ ~Check2(c)
      BY <2>1 DEF Fetch, FetchExtend, Check1, Track, Check2, Late, IdleSlot
    <3>2. ~Pipelined(c) /\ ~PipelineFails(c) /\ ~Untrack(c)
      BY <2>1 DEF Pipelined, PipelineFails, Untrack, Late
    <3> QED
      BY <1>4, <2>1, <3>1, <3>2 DEF Process
  <2>3. Goto(c, "failing") /\ held' = held
    BY <1>1, <1>5, <2>1, <2>2 DEF HandlerFails, brokerVars
  <2> QED
    BY <1>3, <2>1, <2>3 DEF DrivenBy, Late
<1>6. ASSUME StateOf(t) = "retrying", HeldBy(c, t, v) PROVE HeldBy(c, t, v)'
  <2>1. slot[c].pc \in Early \cup {"failing"} /\ slot[c].id = t /\ held[c].version = v
    BY <1>6 DEF HeldBy
  <2>2. ~GotTerminal(t)
    BY <1>6 DEF GotTerminal, IsTerminal, StateOf
  <2>3. FetchExtend(c) \/ Check1(c) \/ Track(c) \/ Check2(c)
    <3>1. ~Fetch(c) /\ ~HandlerFails(c)
      BY <2>1 DEF Fetch, HandlerFails, Early, IdleSlot
    <3>2. ~Pipelined(c) /\ ~PipelineFails(c) /\ ~Untrack(c)
      BY <2>1 DEF Pipelined, PipelineFails, Untrack, Early
    <3> QED
      BY <1>4, <2>1, <3>1, <3>2 DEF Process
  <2>4. held' = held /\ \E x \in {"check1", "track", "check2", "start", "failing"} : Goto(c, x)
    <3>1. CASE FetchExtend(c)
      BY <1>1, <3>1 DEF FetchExtend, ExtendLease
    <3>2. CASE Check1(c)
      BY <2>1, <2>2, <3>2 DEF Check1, SeesTerminal, brokerVars
    <3>3. CASE Track(c)
      BY <3>3 DEF Track, brokerVars
    <3>4. CASE Check2(c)
      BY <2>1, <2>2, <3>4 DEF Check2, SeesTerminal, brokerVars
    <3> QED
      BY <2>3, <3>1, <3>2, <3>3, <3>4
  <2> QED
    BY <1>3, <2>1, <2>4 DEF HeldBy, Early
<1> QED
  BY <1>5, <1>6

(* A Nack goes on to its last command, which queues the copy.              *)
LEMMA ReturnGoesOn ==
  ASSUME Calm, Base, NEW c \in Clients, Process(c), NEW t, NEW v, ReturnedBy(c, t, v)
  PROVE  Alive(t, v)'
<1>1. ~PipelineFails(c) /\ Types
  BY NoFailures DEF Base, DTypes
<1>2. SlotOK(c) /\ pipe[c].task \in Member
  BY ClientTypes DEF ReturnedBy
<1>3. slot[c].pc \in Ending
  <2>1. slot[c].pc \in PCs
    BY ClientTypes
  <2> QED
    BY <1>2, <2>1 DEF SlotOK, ReturnedBy, Early, Late, Ending, PCs, NoPipe
<1>4. Pipelined(c)
  <2>1. ~Fetch(c) /\ ~FetchExtend(c) /\ ~Check1(c) /\ ~Track(c) /\ ~Check2(c)
    BY <1>3 DEF Fetch, FetchExtend, Check1, Track, Check2, Ending, IdleSlot
  <2>2. ~Start(c) /\ ~HandleSuccess(c) /\ ~HandlerFails(c) /\ ~HandleFailure(c) /\ ~Untrack(c)
    BY <1>3 DEF Start, HandleSuccess, HandlerFails, HandleFailure, Untrack, Ending
  <2> QED
    BY <1>1, <2>1, <2>2 DEF Process
<1>5. CASE ExecHDel(c) \/ ExecZRem(c)
  <2>1. /\ pipe'[c].cmd \in {"zrem", "last"} /\ pipe'[c].kind = pipe[c].kind
        /\ pipe'[c].task = pipe[c].task
    BY <1>5, CallHands
  <2>2. ReturnedBy(c, t, v)'
    BY <2>1 DEF ReturnedBy
  <2> QED
    BY <2>2 DEF Alive
<1>6. CASE ExecLast(c)
  <2>1. PICK m \in Member : pipe[c].task = m /\ m.id = t /\ m.version = v
    BY <1>2 DEF ReturnedBy
  <2>2. Listed(m)'
    BY <1>1, <1>6, <2>1, ReturnListed DEF ReturnedBy
  <2> QED
    BY <2>1, <2>2 DEF Alive, Waits
<1> QED
  BY <1>4, <1>5, <1>6 DEF Pipelined

(* Nobody but a worker brings a row to running or retrying.                *)
LEMMA RowKept ==
  ASSUME Calm, Base, [Next]_vars, ~\E c \in Clients : Process(c),
         NEW t \in Tasks, StateOf(t)' \in {"running", "retrying"}
  PROVE  StateOf(t) = StateOf(t)' /\ rows'[t].version = rows[t].version
<1>1. StoreTypeOK /\ now \in Nat
  BY DEF Base, DTypes, Types
<1>2. CASE rows'[t] = rows[t]
  BY <1>2 DEF StateOf
<1>3. ASSUME NEW u \in Tasks, CreateStep(u) PROVE rows'[t] = rows[t]
  <2>1. u # t
    BY <1>1, <1>3 DEF CreateStep, Create, StoreTypeOK, StateOf
  <2> QED
    BY <1>1, <1>3, <2>1 DEF CreateStep, Create, StoreTypeOK
<1>4. ASSUME NEW u \in Tasks, TouchStep(u)
      PROVE  StateOf(t) = StateOf(t)' /\ rows'[t].version = rows[t].version
  <2>1. CASE rows[t] # None /\ u = t
    <3>1. rows[t] \in Row /\ rows'[t] = [rows[t] EXCEPT !.updated = now]
      BY <1>1, <1>4, <2>1 DEF TouchStep, TouchUpdatedAt, StoreTypeOK
    <3>2. /\ [rows[t] EXCEPT !.updated = now] \in Row
          /\ rows'[t].state = rows[t].state /\ rows'[t].version = rows[t].version
      BY <1>1, <3>1 DEF Row
    <3> QED
      BY <2>1, <3>1, <3>2, StoreAssumption DEF StateOf
  <2>2. CASE rows[t] = None \/ u # t
    BY <1>1, <1>2, <1>4, <2>2 DEF TouchStep, TouchUpdatedAt, StoreTypeOK
  <2> QED
    BY <2>1, <2>2
<1>5. ASSUME NEW B \in SUBSET Tasks, DeleteStep(B) PROVE rows'[t] = rows[t]
  BY <1>1, <1>5 DEF DeleteStep, StateOf, StoreTypeOK
<1>6. ASSUME NEW u \in Tasks, CancelStep(u) PROVE rows'[t] = rows[t]
  <2>1. request[u].version \in Nat
    BY DEF Base, DTypes, ApiT
  <2>2. Cancelling(u) \in Member /\ Cancelling(u).id = u
    BY <2>1, CancellingType
  <2>3. /\ rows'[u] \in Row /\ rows'[u].state = "cancelled"
        /\ \A x \in Tasks : x # u => rows'[x] = rows[x]
    BY <1>1, <1>6, <2>2, UpdateEffect DEF CancelStep, TaskState
  <2>4. u # t
    BY <2>3, StoreAssumption DEF StateOf
  <2> QED
    BY <2>3, <2>4
<1>7. (\E w \in Workers, u \in Tasks : CancelListen(w, u)) \/ UNCHANGED vars => rows' = rows
  BY DEF CancelListen, vars
<1> QED
  BY <1>2, <1>3, <1>4, <1>5, <1>6, <1>7, Cases, NoFailures, ApiTable, SchedulerTable

(* Every step hands on what has begun.                                     *)
LEMMA NextBegun == ASSUME Calm, Base, Begun, [Next]_vars PROVE Begun'
<1> SUFFICES ASSUME NEW t \in Tasks PROVE BegunOK(t)'
  BY DEF Begun
<1>1. BegunOK(t)
  BY DEF Begun
<1>2. ASSUME NEW c \in Clients, Process(c) PROVE BegunOK(t)'
  <2>1. CASE rows'[t] # rows[t]
    BY <1>2, <2>1, WriterOwns
  <2>2. CASE rows'[t] = rows[t] /\ StateOf(t) = "running"
    <3>1. StateOf(t)' = "running" /\ rows[t] # None
      BY <2>2 DEF StateOf
    <3>2. PICK v : v = rows[t].version
      OBVIOUS
    <3>3. PICK d \in Clients : DrivenBy(d, t, v)
      BY <1>1, <2>2, <3>2 DEF BegunOK, Driven
    <3>4. CASE d = c
      <4>1. DrivenBy(d, t, v)'
        BY <1>2, <2>2, <3>1, <3>2, <3>3, <3>4, OwnerKeeps
      <4> QED
        BY <2>2, <3>1, <3>2, <4>1 DEF BegunOK, Driven, DrivenBy
    <3>5. CASE d # c
      <4>1. DrivenBy(d, t, v)'
        BY <1>2, <3>3, <3>5, ProcessOthers DEF DrivenBy, SameHands
      <4> QED
        BY <2>2, <3>1, <3>2, <4>1 DEF BegunOK, Driven, DrivenBy
    <3> QED
      BY <3>4, <3>5
  <2>3. CASE rows'[t] = rows[t] /\ StateOf(t) = "retrying"
    <3>1. StateOf(t)' = "retrying" /\ rows[t] # None
      BY <2>3 DEF StateOf
    <3>2. PICK v : v = rows[t].version
      OBVIOUS
    <3>3. Alive(t, v) \/ Withdrawn(t)
      BY <1>1, <2>3, <3>2 DEF BegunOK
    <3>4. ASSUME NEW d \in Clients, HeldBy(d, t, v) PROVE Alive(t, v)'
      <4>1. HeldBy(d, t, v)'
        <5>1. CASE d = c
          BY <1>2, <2>3, <3>1, <3>2, <3>4, <5>1, OwnerKeeps
        <5>2. CASE d # c
          BY <1>2, <3>4, <5>2, ProcessOthers DEF HeldBy, SameHands
        <5> QED
          BY <5>1, <5>2
      <4> QED
        BY <4>1 DEF Alive
    <3>5. ASSUME NEW d \in Clients, ReturnedBy(d, t, v) PROVE Alive(t, v)'
      <4>1. CASE d = c
        BY <1>2, <3>5, <4>1, ReturnGoesOn
      <4>2. CASE d # c
        <5>1. ReturnedBy(d, t, v)'
          BY <1>2, <3>5, <4>2, ProcessOthers DEF ReturnedBy, SameHands
        <5> QED
          BY <5>1 DEF Alive
      <4> QED
        BY <4>1, <4>2
    <3>6. Alive(t, v)' \/ Withdrawn(t)'
      BY <3>3, <3>4, <3>5, <1>2, WaitsOn, WithdrawnStays DEF Alive
    <3>7. Alive(t, rows[t].version)' \/ Withdrawn(t)'
      BY <2>3, <3>2, <3>6 DEF Alive, Waits, HeldBy, ReturnedBy
    <3> QED
      BY <3>1, <3>7 DEF BegunOK
  <2>4. CASE rows'[t] = rows[t] /\ StateOf(t) \notin {"running", "retrying"}
    BY <2>4 DEF BegunOK, StateOf
  <2> QED
    BY <2>1, <2>2, <2>3, <2>4
<1>3. CASE ~\E c \in Clients : Process(c)
  <2>1. UNCHANGED <<slot, held, pipe>>
    <3>1. (\E w \in Workers, u \in Tasks : CancelListen(w, u)) \/ UNCHANGED vars => UNCHANGED <<slot, held, pipe>>
      BY DEF CancelListen, vars, workerVars, brokerVars
    <3> QED
      BY <1>3, <3>1, Cases, NoFailures, ApiFrame, SchedulerFrame, OthersHands
  <2>2. PICK v : v = rows[t].version
    OBVIOUS
  <2>3. ASSUME StateOf(t)' = "running" PROVE Driven(t, rows[t].version)'
    <3>1. StateOf(t) = "running" /\ rows'[t].version = v
      BY <1>3, <2>2, <2>3, RowKept
    <3>2. Driven(t, v)
      BY <1>1, <2>2, <3>1 DEF BegunOK
    <3> QED
      BY <2>1, <3>1, <3>2 DEF Driven, DrivenBy
  <2>4. ASSUME StateOf(t)' = "retrying" PROVE Alive(t, rows[t].version)' \/ Withdrawn(t)'
    <3>1. StateOf(t) = "retrying" /\ rows'[t].version = v
      BY <1>3, <2>2, <2>4, RowKept
    <3>2. Alive(t, v) \/ Withdrawn(t)
      BY <1>1, <2>2, <3>1 DEF BegunOK
    <3>3. Alive(t, v)' \/ Withdrawn(t)'
      <4>1. ASSUME NEW c \in Clients, HeldBy(c, t, v) \/ ReturnedBy(c, t, v) PROVE Alive(t, v)'
        <5>1. HeldBy(c, t, v)' \/ ReturnedBy(c, t, v)'
          BY <2>1, <4>1 DEF HeldBy, ReturnedBy
        <5> QED
          BY <5>1 DEF Alive
      <4> QED
        BY <3>2, <4>1, WaitsOn, WithdrawnStays DEF Alive
    <3> QED
      BY <3>1, <3>3 DEF Alive, Waits, HeldBy, ReturnedBy
  <2> QED
    BY <2>3, <2>4 DEF BegunOK
<1> QED
  BY <1>2, <1>3

(* What has begun is somewhere.                                            *)
LEMMA BegunKnown == ASSUME Base, Begun PROVE NeverForgotten
<1> SUFFICES ASSUME NEW t \in Tasks, StateOf(t) \in {"running", "retrying"}, ~OnRecord(t)
             PROVE  StateOf(t) = "retrying" /\ Withdrawn(t)
  BY DEF NeverForgotten
<1>1. BegunOK(t)
  BY DEF Begun
<1>2. CASE StateOf(t) = "running"
  BY <1>1, <1>2 DEF BegunOK, Driven, DrivenBy, OnRecord, InWork, Late
<1>3. CASE StateOf(t) = "retrying"
  <2>1. PICK v : Alive(t, v) \/ Withdrawn(t)
    BY <1>1, <1>3 DEF BegunOK
  <2>2. ~Waits(t, v)
    BY DEF Waits, Listed, OnRecord, Tracked, InReady, InDelayed
  <2>3. ASSUME NEW c \in Clients PROVE ~HeldBy(c, t, v)
    BY DEF HeldBy, OnRecord, InWork, Early
  <2>4. ASSUME NEW c \in Clients PROVE ~ReturnedBy(c, t, v)
    BY DEF ReturnedBy, OnRecord
  <2> QED
    BY <1>3, <2>1, <2>2, <2>3, <2>4 DEF Alive
<1> QED
  BY <1>2, <1>3

(* As long as no worker crashes and none of the calls of Calm fails, a     *)
(* task whose attempt has begun is always in a queue, under a lease or in  *)
(* a worker's hands, however often it was redelivered, whatever else       *)
(* fails, whether or not the workers have its handler, whatever is         *)
(* cancelled around it, and however Redis interleaves the pipelines; only  *)
(* a cancelled task that is retried all the same may have left the queue.  *)
(* CrashStrands.cfg and FaultStrands.cfg show that one crash or one failed *)
(* write is enough to lose it.                                             *)
THEOREM NothingForgotten == Spec /\ [][Calm]_vars => []NeverForgotten
<1>1. Init => Base /\ Begun
  <2>1. ASSUME Init, NEW t \in Tasks PROVE BegunOK(t)
    BY <2>1 DEF Init, StoreInit, BegunOK, StateOf
  <2> QED
    BY <2>1, InitBase DEF Begun
<1>2. Base /\ Begun /\ [Next]_vars /\ [Calm]_vars => Base' /\ Begun'
  <2>1. UNCHANGED vars => Calm
    BY DEF vars, budget, Calm
  <2> QED
    BY <2>1, NextBase, NextBegun
<1>3. Base /\ Begun => NeverForgotten
  BY BegunKnown
<1> QED
  BY <1>1, <1>2, <1>3, PTL DEF Spec

(* In particular where nothing fails but enqueues of new tasks, the case   *)
(* DispatchLive.cfg checks.                                                *)
THEOREM NothingForgottenQuietly ==
  ASSUME MaxFaults = 0, MaxCrashes = 0 PROVE Spec => []NeverForgotten
<1>1. Base /\ [Next]_vars => [Calm]_vars
  <2>1. ASSUME Base, [Next]_vars PROVE Calm
    <3>1. ~Fault /\ \A w \in Workers : ~Crash(w)
      BY <2>1 DEF Base, DTypes, BudgetT, Fault, Crash
    <3>2. ASSUME NEW c \in Clients,
                 FetchExtend(c) \/ Start(c) \/ HandleSuccess(c) \/ HandleFailure(c) \/ PipelineFails(c)
          PROVE  faults' = faults
      BY <3>1, <3>2 DEF FetchExtend, Start, HandleSuccess, HandleFailure, PipelineFails, Succeeds, Errs,
         NoFault, budget
    <3>3. crashes' = crashes
      <4>1. (\E w \in Workers, t \in Tasks : CancelListen(w, t)) \/ UNCHANGED vars => crashes' = crashes
        BY DEF CancelListen, vars, budget
      <4> QED
        BY <2>1, <3>1, <4>1, Cases, ApiFrame, ProcessFrame, SchedulerFrame
    <3> QED
      BY <3>2, <3>3 DEF Calm
  <2> QED
    BY <2>1
<1>2. Spec => []Base
  BY InitBase, NextBase, PTL DEF Spec
<1>3. Spec => [][Calm]_vars
  BY <1>1, <1>2, PTL DEF Spec
<1> QED
  BY <1>3, NothingForgotten, PTL

-----------------------------------------------------------------------------
(* Delays.  A copy gets out of the delayed set when its time has come, or  *)
(* around it: the compensation reads the row of a task that nobody seems   *)
(* to have.  That row is then older than the threshold, and so is the      *)
(* submission.                                                             *)

\* The copy is on a ready list or in flight.
Shelved(m) == OnReady(m) \/ OnInflight(m)

\* Its time in the delayed set has come.
Ripe(m) == \E q \in Queues : \E e \in delayed[q] : e.member = m /\ e.score <= now

(* A producer shelves what it enqueues without delay.                      *)
LEMMA ProvideShelved ==
  ASSUME Types, NEW x \in Member, NEW m \in Member, Shelved(m)'
  PROVE  /\ EnqueueDelayed(x) => Shelved(m)
         /\ Enqueue(x) \/ EnqueueIfNotInflight(x) => Shelved(m) \/ m = x
<1>1. QueueOf[x.id] \in Queues
  BY ScoreType
<1>2. EnqueueDelayed(x) => Shelved(m)
  BY DEF EnqueueDelayed, Shelved, OnReady, OnInflight
<1>3. ASSUME Enqueue(x) \/ EnqueueIfNotInflight(x) PROVE Shelved(m) \/ m = x
  <2>1. OnReady(m)' => OnReady(m) \/ m = x
    BY <1>1, <1>3 DEF Enqueue, EnqueueIfNotInflight, OnReady, ZAdd, Types, ReadyT
  <2>2. OnInflight(m)' => OnInflight(m)
    BY <1>3 DEF Enqueue, EnqueueIfNotInflight, OnInflight
  <2> QED
    BY <2>1, <2>2 DEF Shelved
<1> QED
  BY <1>2, <1>3

(* The promote loop shelves what is due.                                   *)
LEMMA LoopsShelved ==
  ASSUME Types, NEW m \in Member, Shelved(m)',
         (\E q \in Queues : PromoteDelayed(q) \/ ReclaimInflight(q)) \/ (\E t \in Tasks : Remove(t))
  PROVE  Shelved(m) \/ Ripe(m)
<1>1. ASSUME NEW q \in Queues, PromoteDelayed(q) PROVE Shelved(m) \/ Ripe(m)
  <2>1. PICK B \in SUBSET {e \in delayed[q] : e.score <= now} :
          /\ ready' = [ready EXCEPT ![q] = {e \in ready[q] : e.member \notin ZMembers(B)}
                         \cup {[member |-> x, score |-> Score(x)] : x \in ZMembers(B)}]
          /\ inflight' = inflight
    BY <1>1 DEF PromoteDelayed, ZRangeByScore
  <2>2. OnReady(m)' => OnReady(m) \/ m \in ZMembers(B)
    BY <2>1 DEF OnReady, Types, ReadyT
  <2>3. m \in ZMembers(B) => Ripe(m)
    BY <2>1 DEF ZMembers, Ripe
  <2>4. OnInflight(m)' => OnInflight(m)
    BY <2>1 DEF OnInflight
  <2> QED
    BY <2>2, <2>3, <2>4 DEF Shelved
<1>2. ASSUME NEW q \in Queues, ReclaimInflight(q) PROVE Shelved(m)
  <2>1. PICK B : Reclaims(q, B)
    BY <1>2, ReclaimPicks
  <2>2. ZMembers(B) \in SUBSET Tasks
    BY <2>1 DEF Reclaims, ZMembers, Types, LeaseT, Entries
  <2>3. OnReady(m)' => OnReady(m) \/ OnInflight(m)
    BY <2>1, <2>2 DEF Reclaims, OnReady, OnInflight, Types, ReadyT
  <2>4. OnInflight(m)' => OnInflight(m)
    BY <2>1, NoneAssumption DEF Reclaims, OnInflight, Types, InflightT
  <2> QED
    BY <2>3, <2>4 DEF Shelved
<1>3. ASSUME NEW t \in Tasks, Remove(t) PROVE Shelved(m)
  <2>1. QueueOf[t] \in Queues
    BY TaskAssumption
  <2>2. OnReady(m)' => OnReady(m)
    BY <1>3, <2>1 DEF Remove, OnReady, Types, ReadyT
  <2>3. OnInflight(m)' => OnInflight(m)
    BY <1>3, <2>1, NoneAssumption DEF Remove, OnInflight, Types, InflightT
  <2> QED
    BY <2>2, <2>3 DEF Shelved
<1> QED
  BY <1>1, <1>2, <1>3

(* A consumer shelves what it takes, which was shelved, and what its Nack  *)
(* returns.                                                                *)
LEMMA CallsShelved ==
  ASSUME Types, NEW c \in Clients, Calls(c), NEW m \in Member, Shelved(m)' PROVE Shelved(m) \/ Waiting(m)
<1>1. CASE Dequeue(c)
  <2>1. PICK q \in Queues : \E e \in ready[q] : Dequeues(c, q, e)
    BY <1>1, DequeuePicks
  <2>2. PICK e \in ready[q] : Dequeues(c, q, e)
    BY <2>1
  <2>3. OnReady(m)' => OnReady(m)
    BY <2>2 DEF Dequeues, OnReady, Types, ReadyT
  <2>4. OnInflight(m)' => OnInflight(m) \/ m = e.member
    BY <2>2 DEF Dequeues, OnInflight, Types, InflightT
  <2> QED
    BY <2>2, <2>3, <2>4 DEF Shelved, OnReady
<1>2. CASE ExecHDel(c)
  <2>1. pipe[c].task.id \in Tasks /\ QueueOf[pipe[c].task.id] \in Queues
    BY <1>2, PipeTask DEF ExecHDel
  <2>2. (OnReady(m)' => OnReady(m)) /\ (OnInflight(m)' => OnInflight(m))
    BY <1>2, <2>1, NoneAssumption DEF ExecHDel, OnReady, OnInflight, Types, InflightT
  <2> QED
    BY <2>2 DEF Shelved
<1>3. CASE ExecLast(c)
  <2>1. QueueOf[pipe[c].task.id] \in Queues /\ pipe[c].cmd # "none"
    BY <1>3, PipeTask DEF ExecLast
  <2>2. OnReady(m)' => OnReady(m) \/ Waiting(m)
    BY <1>3, <2>1 DEF ExecLast, OnReady, Waiting, ZAdd, Types, ReadyT
  <2>3. OnInflight(m)' => OnInflight(m)
    BY <1>3 DEF ExecLast, OnInflight
  <2> QED
    BY <2>2, <2>3 DEF Shelved
<1>4. CASE ExtendLease(c) \/ Ack(c) \/ ExecZRem(c) \/ \E x \in Member : Nack(c, x) \/ Revise(c, x)
  <2>1. UNCHANGED <<ready, inflight>>
    BY <1>4 DEF ExtendLease, Ack, ExecZRem, Nack, Revise
  <2> QED
    BY <2>1 DEF Shelved, OnReady, OnInflight
<1> QED
  BY <1>1, <1>2, <1>3, <1>4 DEF Calls, Exec

(* What waits in a delayed set was put there with the delay of its task,   *)
(* or by a Nack.                                                           *)
LEMMA DelayedBy ==
  ASSUME Types, [CallerStep]_brokerVars, NEW q \in Queues, NEW e \in delayed'[q]
  PROVE  e \in delayed[q] \/ e.score = Later(now, Delay[e.member.id]) \/ Waiting(e.member)
<1>1. ASSUME NEW x \in Member, Provide(x) PROVE e \in delayed[q] \/ e.score = Later(now, Delay[e.member.id])
  <2>1. QueueOf[x.id] \in Queues
    BY ScoreType
  <2> QED
    BY <1>1, <2>1 DEF Provide, Enqueue, EnqueueDelayed, EnqueueIfNotInflight, ZAdd, Types, DelayedT
<1>2. ASSUME NEW p \in Queues, PromoteDelayed(p) \/ ReclaimInflight(p) PROVE e \in delayed[q]
  BY <1>2 DEF PromoteDelayed, ReclaimInflight, Types, DelayedT
<1>3. ASSUME NEW t \in Cancellable, Remove(t) PROVE e \in delayed[q]
  BY <1>3 DEF Remove, Types, DelayedT
<1>4. ASSUME NEW c \in Clients, ExecLast(c) PROVE e \in delayed[q] \/ Waiting(e.member)
  <2>1. QueueOf[pipe[c].task.id] \in Queues /\ pipe[c].cmd # "none"
    BY <1>4, PipeTask DEF ExecLast
  <2> QED
    BY <1>4, <2>1 DEF ExecLast, Waiting, ZAdd, Types, DelayedT
<1>5. ASSUME NEW c \in Clients, Calls(c), ~ExecLast(c) PROVE e \in delayed[q]
  BY <1>5 DEF Calls, Exec, Dequeue, ExtendLease, Ack, ExecHDel, ExecZRem, Nack, Revise
<1>6. CASE (\E G \in SUBSET Clients : Forget(G)) \/ Tick \/ UNCHANGED brokerVars
  BY <1>6 DEF Forget, Tick, brokerVars
<1> QED
  BY <1>1, <1>2, <1>3, <1>4, <1>5, <1>6 DEF CallerStep, QueueStep

(* The clock does not go back.                                             *)
LEMMA NowGrows == ASSUME Types, [CallerStep]_brokerVars PROVE now \in Nat /\ now' \in Nat /\ now <= now'
<1>1. now \in Nat
  BY DEF Types
<1>2. CASE Tick
  BY <1>1, <1>2 DEF Tick
<1>3. CASE UNCHANGED now
  BY <1>1, <1>3
<1>4. ASSUME NEW c \in Clients, Calls(c) PROVE UNCHANGED now
  <2>1. Dequeue(c) => UNCHANGED now
    BY DEF Dequeue
  <2>2. ExtendLease(c) \/ Ack(c) => UNCHANGED now
    BY DEF ExtendLease, Ack
  <2>3. ExecHDel(c) \/ ExecZRem(c) \/ ExecLast(c) => UNCHANGED now
    BY DEF ExecHDel, ExecZRem, ExecLast
  <2>4. ASSUME NEW m \in Member, Nack(c, m) \/ Revise(c, m) PROVE UNCHANGED now
    BY <2>4 DEF Nack, Revise
  <2> QED
    BY <1>4, <2>1, <2>2, <2>3, <2>4 DEF Calls, Exec
<1>5. ASSUME NEW q \in Queues, PromoteDelayed(q) \/ ReclaimInflight(q) PROVE UNCHANGED now
  BY <1>5 DEF PromoteDelayed, ReclaimInflight
<1>6. CASE (\E x \in Member : Provide(x)) \/ (\E G \in SUBSET Clients : Forget(G))
           \/ (\E t \in Cancellable : Remove(t)) \/ UNCHANGED brokerVars
  BY <1>3, <1>6 DEF Provide, Enqueue, EnqueueDelayed, EnqueueIfNotInflight, Forget, Remove, brokerVars
<1> QED
  BY <1>2, <1>3, <1>4, <1>5, <1>6 DEF CallerStep, QueueStep

(* A row appears when its task is submitted, and every write but the       *)
(* deletion dates it.                                                      *)
LEMMA RowDated ==
  ASSUME Base, [Next]_vars, NEW t \in Tasks, rows'[t] # None
  PROVE  \/ rows[t] # None /\ (rows'[t] = rows[t] \/ rows'[t].updated = now)
         \/ rows[t] = None /\ submit[t] = "new" /\ submit'[t] = "created" /\ rows'[t].updated = now
<1>1. StoreTypeOK /\ now \in Nat
  BY DEF Base, DTypes, Types
<1>2. ASSUME NEW m \in Member, NEW s \in TaskState, UpdateOk(m, s, now)
      PROVE  rows[t] # None /\ (rows'[t] = rows[t] \/ rows'[t].updated = now)
  <2>1. m.id \in Tasks /\ rows[m.id] \in Row /\ rows'[m.id].updated = now
        /\ \A u \in Tasks : u # m.id => rows'[u] = rows[u]
    BY <1>1, <1>2, UpdateEffect
  <2> QED
    BY <2>1, StoreAssumption
<1>3. ASSUME NEW u \in Tasks, CreateStep(u)
      PROVE  \/ rows[t] # None /\ rows'[t] = rows[t]
             \/ rows[t] = None /\ submit[t] = "new" /\ submit'[t] = "created" /\ rows'[t].updated = now
  BY <1>1, <1>3 DEF CreateStep, Create, StoreTypeOK
<1>4. ASSUME NEW u \in Tasks, CancelStep(u)
      PROVE  rows[t] # None /\ (rows'[t] = rows[t] \/ rows'[t].updated = now)
  <2>1. request[u].version \in Nat
    BY DEF Base, DTypes, ApiT
  <2> QED
    BY <1>2, <1>4, <2>1, CancellingType DEF CancelStep, TaskState
<1>5. ASSUME NEW u \in Tasks, TouchStep(u)
      PROVE  rows[t] # None /\ (rows'[t] = rows[t] \/ rows'[t].updated = now)
  <2>1. CASE u = t /\ rows[t] # None
    <3>1. rows[t] \in Row
      BY <1>1, <2>1 DEF StoreTypeOK
    <3>2. rows'[t] = [rows[t] EXCEPT !.updated = now]
      BY <1>1, <1>5, <2>1 DEF TouchStep, TouchUpdatedAt, StoreTypeOK
    <3> QED
      BY <2>1, <3>1, <3>2 DEF Row
  <2>2. CASE u # t \/ rows[t] = None
    BY <1>1, <1>5, <2>2 DEF TouchStep, TouchUpdatedAt, StoreTypeOK
  <2> QED
    BY <2>1, <2>2
<1>6. ASSUME NEW c \in Clients, StartStep(c) \/ SuccessStep(c) \/ FailureStep(c)
      PROVE  rows[t] # None /\ (rows'[t] = rows[t] \/ rows'[t].updated = now)
  <2>1. held[c] \in Member /\ Failing(held[c]) \in Member
    BY <1>6, HeldMember, FailingType DEF StartStep, SuccessStep, FailureStep, Early, Late
  <2> QED
    BY <1>2, <1>6, <2>1 DEF StartStep, SuccessStep, FailureStep, TaskState
<1>7. ASSUME NEW B \in SUBSET Tasks, DeleteStep(B) PROVE rows[t] # None /\ rows'[t] = rows[t]
  BY <1>7 DEF DeleteStep
<1>8. TableStep \/ rows' = rows
  BY DispatchTable
<1> QED
  BY <1>3, <1>4, <1>5, <1>6, <1>7, <1>8 DEF TableStep

(* The time asked for is fixed with the submission.                        *)
LEMMA DueFixed ==
  ASSUME Base, [Next]_vars, NEW t \in Tasks
  PROVE  due'[t] = due[t] \/ (submit[t] = "new" /\ now' = now /\ due'[t] = Later(now, Delay[t]))
<1>1. due \in [Tasks -> Nat]
  BY DEF Base, DTypes, ApiT
<1>2. ASSUME NEW u \in Tasks, SubmitCreate(u)
      PROVE  due'[t] = due[t] \/ (submit[t] = "new" /\ now' = now /\ due'[t] = Later(now, Delay[t]))
  BY <1>1, <1>2 DEF SubmitCreate, brokerVars
<1>3. ASSUME NEW u \in Tasks, Api(u), ~SubmitCreate(u) PROVE due' = due
  BY <1>3 DEF Api, SubmitEnqueue, CancelGet, CancelUpdate, CancelRemove, CancelPublish
<1> QED
  BY <1>2, <1>3, Cases, ProcessFrame, SchedulerFrame DEF Crash, CancelListen, vars, apiVars

(* Nothing is there of a task before its submission.                       *)
Arisen ==
  /\ \A m \in Member : IsCopy(m) => submit[m.id] # "new"
  /\ \A c \in Clients : slot[c].pc \in Late => submit[slot[c].id] # "new"
  /\ \A t \in Tasks : rows[t] # None => submit[t] # "new"

(* The copies, the workers and the rows after a step are of tasks that     *)
(* were submitted before it, but for the row a submission creates.         *)
LEMMA CopyArisen ==
  ASSUME Base, Arisen, [Next]_vars, NEW m \in Member, IsCopy(m)' PROVE submit[m.id] # "new"
<1>1. CASE IsCopy(m)
  BY <1>1 DEF Arisen
<1>2. CASE Submitted(m)
  BY <1>2 DEF Submitted, Copy
<1>3. CASE Reread(m)
  BY <1>3 DEF Reread, Loaded, Arisen
<1>4. CASE Renewed(m)
  <2>1. PICK c \in Clients : slot[c].pc = "failing" /\ m = Bumped(Failing(held[c]))
    BY <1>4 DEF Renewed
  <2>2. held[c] \in Member /\ held[c].id = slot[c].id
    BY <2>1, HeldMember DEF Late
  <2>3. m.id = slot[c].id
    BY <2>1, <2>2, FailingType, BumpedType
  <2> QED
    BY <2>1, <2>3 DEF Arisen, Late
<1> QED
  BY <1>1, <1>2, <1>3, <1>4, NewCopies

(* An attempt under way was, or its copy was in the worker's hands.        *)
LEMMA LateFrom ==
  ASSUME Base, [Next]_vars, NEW c \in Clients, slot'[c].pc \in Late
  PROVE  /\ slot'[c].id = slot[c].id /\ slot[c].id \in Tasks
         /\ slot[c].pc \in Late \/ (slot[c].pc \in Early /\ InHand(held[c]) /\ held[c] \in Member
                                    /\ held[c].id = slot[c].id)
<1>1. \/ Runs(c) \/ Fails(c) \/ slot'[c] = slot[c]
  BY Paths DEF Fetches, GoesOn, Ends, Early, Late
<1>2. slot[c].pc \in Early \cup Late /\ slot'[c].id = slot[c].id
  BY <1>1 DEF Runs, Fails, Early, Late
<1>3. held[c] \in Member /\ held[c].id = slot[c].id /\ slot[c].id \in Tasks
  BY <1>2, HeldMember
<1> QED
  BY <1>2, <1>3 DEF InHand

(* Submission comes first.                                                 *)
LEMMA NextArisen == ASSUME Base, Arisen, [Next]_vars PROVE Arisen'
<1>1. ASSUME NEW m \in Member, IsCopy(m)' PROVE submit'[m.id] # "new"
  BY <1>1, CopyArisen, SubmitStays DEF Member
<1>2. ASSUME NEW c \in Clients, slot'[c].pc \in Late PROVE submit'[slot'[c].id] # "new"
  <2>1. slot'[c].id = slot[c].id /\ slot[c].id \in Tasks
        /\ (slot[c].pc \in Late \/ (InHand(held[c]) /\ held[c] \in Member /\ held[c].id = slot[c].id))
    BY <1>2, LateFrom
  <2>2. submit[slot[c].id] # "new"
    BY <2>1 DEF Arisen, IsCopy
  <2> QED
    BY <2>1, <2>2, SubmitStays
<1>3. ASSUME NEW t \in Tasks, rows'[t] # None PROVE submit'[t] # "new"
  BY <1>3, RowDated, SubmitStays DEF Arisen
<1> QED
  BY <1>1, <1>2, <1>3 DEF Arisen

\* The copy can reach a worker, or has, without passing the delayed set again.
Out(m) == Shelved(m) \/ Waiting(m) \/ InHand(m) \/ m \in comp.todo

\* The compensation takes the row for orphaned.
Stale(m) == \E t \in Tasks : rows[t] # None /\ rows[t].updated < Threshold /\ m = Loaded(t)

(* A copy gets out when it is submitted without delay, when it is due,     *)
(* when handleFailure returns it, or as a row the compensation takes for   *)
(* orphaned.                                                               *)
LEMMA NewOut ==
  ASSUME Base, [Next]_vars, NEW m \in Member, Out(m)'
  PROVE  Out(m) \/ Ripe(m) \/ Renewed(m) \/ (Delay[m.id] = 0) \/ Stale(m)
<1>1. Types /\ CompT
  BY DEF Base, DTypes
<1>2. ASSUME UNCHANGED <<ready, inflight>>, Shelved(m)' PROVE Shelved(m)
  BY <1>2 DEF Shelved, OnReady, OnInflight
<1>3. ASSUME NEW t \in Tasks, Api(t), Shelved(m)' PROVE Shelved(m) \/ Ripe(m) \/ Delay[m.id] = 0
  <2>1. CASE SubmitEnqueue(t)
    <3>1. Copy(t, 0) \in Member /\ Copy(t, 0).id = t /\ Delay[t] \in Nat
      BY CopyType, TaskAssumption
    <3>2. (Delay[t] > 0 /\ EnqueueDelayed(Copy(t, 0))) \/ (~(Delay[t] > 0) /\ Enqueue(Copy(t, 0)))
          \/ UNCHANGED brokerVars
      BY <2>1 DEF SubmitEnqueue
    <3>3. CASE EnqueueDelayed(Copy(t, 0))
      BY <1>1, <1>3, <3>1, <3>3, ProvideShelved
    <3>4. CASE ~(Delay[t] > 0) /\ Enqueue(Copy(t, 0))
      <4>1. Shelved(m) \/ m = Copy(t, 0)
        BY <1>1, <1>3, <3>1, <3>4, ProvideShelved
      <4>2. Delay[t] = 0
        BY <3>1, <3>4
      <4> QED
        BY <3>1, <4>1, <4>2
    <3>5. CASE UNCHANGED brokerVars
      BY <1>2, <1>3, <3>5 DEF brokerVars
    <3> QED
      BY <3>2, <3>3, <3>4, <3>5
  <2>2. CASE Remove(t)
    BY <1>1, <1>3, <2>2, LoopsShelved
  <2>3. CASE UNCHANGED brokerVars
    BY <1>2, <1>3, <2>3 DEF brokerVars
  <2> QED
    BY <1>3, <2>1, <2>2, <2>3 DEF Api, SubmitCreate, CancelGet, CancelUpdate, CancelRemove, CancelPublish
<1>4. ASSUME Scheduler \/ Clock, Shelved(m)' PROVE Shelved(m) \/ Ripe(m) \/ m \in comp.todo
  <2>1. CASE CompensateEnqueue
    <3>1. UNCHANGED brokerVars \/ \E x \in comp.todo : EnqueueIfNotInflight(x)
      BY <2>1 DEF CompensateEnqueue
    <3>2. \A x \in comp.todo : x \in Member
      BY <1>1 DEF CompT
    <3> QED
      BY <1>1, <1>2, <1>4, <3>1, <3>2, ProvideShelved DEF brokerVars
  <2>2. CASE \E q \in Queues : PromoteDelayed(q) \/ ReclaimInflight(q)
    BY <1>1, <1>4, <2>2, LoopsShelved
  <2>3. CASE Tick \/ UNCHANGED brokerVars
    BY <1>2, <1>4, <2>3 DEF Tick, brokerVars
  <2> QED
    BY <1>4, <2>1, <2>2, <2>3 DEF Scheduler, Clock, Promote, Reclaim, CompensateFind, CompensateTouch, Cleanup
<1>5. ASSUME NEW c \in Clients, Process(c), Shelved(m)' PROVE Shelved(m) \/ Waiting(m)
  <2>1. Vanish(c) \/ UNCHANGED brokerVars => UNCHANGED <<ready, inflight>>
    BY DEF Vanish, brokerVars
  <2> QED
    BY <1>1, <1>2, <1>5, <2>1, ProcessCalls, CallsShelved
<1>6. ASSUME \/ \E w \in Workers : Crash(w) \/ \E t \in Tasks : CancelListen(w, t)
             \/ UNCHANGED vars,
             Shelved(m)'
      PROVE  Shelved(m)
  <2>1. UNCHANGED <<ready, inflight>>
    BY <1>6 DEF Crash, CancelListen, vars, brokerVars
  <2> QED
    BY <1>2, <1>6, <2>1
<1>7. ASSUME Shelved(m)' PROVE Out(m) \/ Ripe(m) \/ Delay[m.id] = 0
  BY <1>3, <1>4, <1>5, <1>6, <1>7, Cases DEF Out
<1>8. ASSUME Waiting(m)' PROVE Waiting(m) \/ Renewed(m)
  BY <1>8, NewWaiting
<1>9. ASSUME InHand(m)' PROVE InHand(m) \/ OnReady(m)
  <2>1. PICK c \in Clients : slot'[c].pc \in Early /\ held'[c] = m
    BY <1>9 DEF InHand
  <2>2. Fetches(c) \/ GoesOn(c) \/ (slot'[c] = slot[c] /\ SameHands(c))
    BY <2>1, Paths DEF Runs, Fails, Ends, Early
  <2> QED
    BY <2>1, <2>2 DEF Fetches, GoesOn, SameHands, InHand
<1>10. ASSUME m \in comp'.todo PROVE m \in comp.todo \/ Stale(m)
  <2>1. CASE CompensateFind
    BY <1>10, <2>1 DEF CompensateFind, FindStale, NoComp, Stale
  <2>2. CASE CompensateEnqueue \/ CompensateTouch
    BY <1>1, <1>10, <2>2 DEF CompensateEnqueue, CompensateTouch, CompT, NoComp
  <2>3. CASE comp' = comp
    BY <1>10, <2>3
  <2>4. Scheduler \/ Clock => CompensateFind \/ CompensateEnqueue \/ CompensateTouch \/ comp' = comp
    BY DEF Scheduler, Clock, Promote, Reclaim, Cleanup
  <2>5. \/ \E w \in Workers : Crash(w) \/ \E t \in Tasks : CancelListen(w, t)
        \/ UNCHANGED vars
        => comp' = comp
    BY DEF Crash, CancelListen, vars
  <2> QED
    BY <2>1, <2>2, <2>3, <2>4, <2>5, Cases, ApiFrame, ProcessFrame
<1> QED
  BY <1>7, <1>8, <1>9, <1>10 DEF Out, Shelved

(* The due time of a task is within its delay of now, and of the last      *)
(* write of its row.                                                       *)
Timely(t) ==
  /\ due[t] <= Horizon /\ due[t] <= now + Delay[t]
  /\ rows[t] # None => due[t] <= rows[t].updated + Delay[t]

(* Every write of a row dates it, and the clock only grows.                *)
LEMMA NextTimely ==
  ASSUME Base, Arisen, [Next]_vars, NEW t \in Tasks, Timely(t) PROVE Timely(t)'
<1>1. /\ now \in Nat /\ now' \in Nat /\ now <= now' /\ Horizon \in Nat /\ Delay[t] \in Nat
      /\ due[t] \in Nat
  BY NowGrows, DispatchCalls, BrokerAssumption, TaskAssumption DEF Base, DTypes, ApiT
<1>2. due'[t] = due[t] \/ (submit[t] = "new" /\ due'[t] = Later(now, Delay[t]))
  BY DueFixed
<1>3. Later(now, Delay[t]) <= Horizon /\ Later(now, Delay[t]) <= now + Delay[t]
  BY <1>1 DEF Later
<1>4. due'[t] \in Nat /\ due'[t] <= Horizon /\ due'[t] <= now + Delay[t]
  BY <1>1, <1>2, <1>3, LaterType DEF Timely
<1>5. due'[t] <= now' + Delay[t]
  BY <1>1, <1>4
<1>6. ASSUME rows'[t] # None PROVE due'[t] <= rows'[t].updated + Delay[t]
  <2>1. CASE rows'[t].updated = now
    BY <1>4, <2>1
  <2>2. CASE rows[t] # None /\ rows'[t] = rows[t]
    BY <1>2, <2>2 DEF Arisen, Timely
  <2> QED
    BY <1>6, <2>1, <2>2, RowDated
<1> QED
  BY <1>4, <1>5, <1>6 DEF Timely

\* A delay that the compensation respects.
Short(t) == Delay[t] <= StaleAfter

(* A copy of such a task that is out is due, and so is what runs; what     *)
(* waits in a delayed set waits long enough.                               *)
Kept ==
  /\ \A m \in Member : Short(m.id) /\ Out(m) => due[m.id] <= now
  /\ \A c \in Clients : slot[c].pc \in Late /\ Short(slot[c].id) => due[slot[c].id] <= now
  /\ \A q \in Queues : \A e \in delayed[q] :
       Short(e.member.id) => due[e.member.id] <= e.score \/ due[e.member.id] <= now

(* A row older than the threshold is of a task that is due.                *)
LEMMA StaleDue ==
  ASSUME Base, NEW m \in Member, Timely(m.id), Short(m.id), Stale(m) PROVE due[m.id] <= now
<1>1. PICK t \in Tasks : rows[t] # None /\ rows[t].updated < Threshold /\ m = Loaded(t)
  BY DEF Stale
<1>2. m.id = t /\ rows[t].updated \in Nat
  BY <1>1 DEF Loaded, Base, DTypes, StoreTypeOK, Row
<1>3. /\ now \in Nat /\ Horizon \in Nat /\ StaleAfter \in Nat /\ Delay[t] \in Nat /\ due[t] \in Nat
  BY BrokerAssumption, DispatchAssumption, TaskAssumption DEF Base, DTypes, Types, ApiT
<1>4. due[t] <= Horizon /\ due[t] <= rows[t].updated + Delay[t] /\ Delay[t] <= StaleAfter
  BY <1>1, <1>2 DEF Timely, Short
<1>5. now >= Horizon \/ rows[t].updated < now - StaleAfter
  BY <1>1 DEF Threshold
<1> QED
  BY <1>2, <1>3, <1>4, <1>5

(* Every way out leads through a due time.                                 *)
LEMMA NextKept ==
  ASSUME Base, Arisen, \A t \in Tasks : Timely(t), Kept, [Next]_vars PROVE Kept'
<1>1. Base' /\ now \in Nat /\ now' \in Nat /\ now <= now'
  BY NextBase, NowGrows, DispatchCalls DEF Base, DTypes
<1>2. ASSUME NEW t \in Tasks, submit[t] # "new" PROVE due'[t] = due[t] /\ due[t] \in Nat
  BY <1>2, DueFixed DEF Base, DTypes, ApiT
<1>3. ASSUME NEW t \in Tasks, submit[t] # "new", due[t] <= now PROVE due'[t] <= now'
  BY <1>1, <1>2, <1>3
<1>4. ASSUME NEW m \in Member, Out(m)', Short(m.id) PROVE due'[m.id] <= now'
  <2>1. m.id \in Tasks /\ submit[m.id] # "new"
    BY <1>4, CopyArisen DEF Out, Shelved, IsCopy, Stored, Member
  <2>2. Timely(m.id) /\ due[m.id] \in Nat
    BY <1>2, <2>1
  <2>3. Out(m) => due[m.id] <= now
    BY <1>4 DEF Kept
  <2>4. ASSUME Ripe(m) PROVE due[m.id] <= now
    <3>1. PICK q \in Queues : \E e \in delayed[q] : e.member = m /\ e.score <= now
      BY <2>4 DEF Ripe
    <3>2. PICK e \in delayed[q] : e.member = m /\ e.score <= now
      BY <3>1
    <3>3. e.score \in Nat
      BY <3>2 DEF Base, DTypes, Types, DelayedT, Entries
    <3>4. due[m.id] <= e.score \/ due[m.id] <= now
      BY <1>4, <3>2 DEF Kept
    <3> QED
      BY <1>1, <2>2, <3>2, <3>3, <3>4
  <2>5. ASSUME Renewed(m) PROVE due[m.id] <= now
    <3>1. PICK c \in Clients : slot[c].pc = "failing" /\ m = Bumped(Failing(held[c]))
      BY <2>5 DEF Renewed
    <3>2. held[c] \in Member /\ held[c].id = slot[c].id
      BY <3>1, HeldMember DEF Late
    <3>3. m.id = slot[c].id
      BY <3>1, <3>2, FailingType, BumpedType
    <3> QED
      BY <1>4, <3>1, <3>3 DEF Kept, Late
  <2>6. Delay[m.id] = 0 => due[m.id] <= now
    BY <1>1, <2>2 DEF Timely
  <2>7. Stale(m) => due[m.id] <= now
    BY <1>4, <2>2, StaleDue
  <2> QED
    BY <1>3, <1>4, <2>1, <2>3, <2>4, <2>5, <2>6, <2>7, NewOut
<1>5. ASSUME NEW c \in Clients, slot'[c].pc \in Late, Short(slot'[c].id) PROVE due'[slot'[c].id] <= now'
  <2>1. slot'[c].id = slot[c].id /\ slot[c].id \in Tasks
        /\ (slot[c].pc \in Late \/ (InHand(held[c]) /\ held[c] \in Member /\ held[c].id = slot[c].id))
    BY <1>5, LateFrom
  <2>2. submit[slot[c].id] # "new" /\ due[slot[c].id] <= now
    BY <1>5, <2>1 DEF Arisen, IsCopy, Kept, Out
  <2> QED
    BY <1>3, <2>1, <2>2
<1>6. ASSUME NEW q \in Queues, NEW e \in delayed'[q], Short(e.member.id)
      PROVE  due'[e.member.id] <= e.score \/ due'[e.member.id] <= now'
  <2> DEFINE t == e.member.id
  <2>1. e.member \in Member /\ t \in Tasks
    BY <1>1 DEF Base, DTypes, Types, DelayedT, Entries, Member
  <2>2. submit[t] # "new"
    BY <1>6, <2>1, CopyArisen DEF IsCopy, Stored, OnDelayed
  <2>3. due'[t] = due[t] /\ due[t] \in Nat
    BY <1>2, <2>1, <2>2
  <2>4. CASE e \in delayed[q]
    BY <1>3, <1>6, <2>1, <2>2, <2>3, <2>4 DEF Kept
  <2>5. CASE e.score = Later(now, Delay[t])
    <3>1. due[t] <= Horizon /\ due[t] <= now + Delay[t]
      BY <2>1 DEF Timely
    <3> QED
      BY <2>3, <2>5, <3>1 DEF Later
  <2>6. CASE Waiting(e.member)
    BY <1>3, <1>6, <2>1, <2>2, <2>6 DEF Kept, Out
  <2> QED
    BY <2>4, <2>5, <2>6, DelayedBy, DispatchCalls DEF Base, DTypes
<1> QED
  BY <1>4, <1>5, <1>6 DEF Kept, Short

(* Initially nothing is submitted.                                         *)
LEMMA InitKept == Init => Arisen /\ (\A t \in Tasks : Timely(t)) /\ Kept
<1> SUFFICES ASSUME Init PROVE Arisen /\ (\A t \in Tasks : Timely(t)) /\ Kept
  OBVIOUS
<1>1. \A m \in Member : ~IsCopy(m)
  BY InitCopies
<1>2. ASSUME NEW c \in Clients PROVE slot[c].pc \notin Late
  BY DEF Init, IdleSlot, Late
<1>3. ASSUME NEW t \in Tasks PROVE rows[t] = None /\ Timely(t)
  <2>1. rows[t] = None /\ due[t] = 0 /\ now = 1
    BY DEF Init, StoreInit, BrokerInit
  <2>2. Delay[t] \in Nat /\ Horizon \in Nat
    BY TaskAssumption, BrokerAssumption
  <2> QED
    BY <2>1, <2>2 DEF Timely
<1>4. \A q \in Queues : delayed[q] = {}
  BY DEF Init, BrokerInit
<1>5. \A m \in Member : Out(m) => IsCopy(m)
  BY DEF Out, IsCopy, Shelved, Stored
<1> QED
  BY <1>1, <1>2, <1>3, <1>4, <1>5 DEF Arisen, Kept

(* Whatever is redelivered, reclaimed, compensated, retried or lost, and   *)
(* whatever fails, no attempt of a task begins before the time asked for,  *)
(* if its delay is no longer than the threshold of the compensation loop.  *)
(* (The run StartedEarly.cfg shows a longer delay cut short.)              *)
THEOREM ShortDelaysKept == Spec => []ShortDelayKept
<1>1. Init => Base /\ Arisen /\ (\A t \in Tasks : Timely(t)) /\ Kept
  BY InitBase, InitKept
<1>2. Base /\ Arisen /\ (\A t \in Tasks : Timely(t)) /\ Kept /\ [Next]_vars
      => (Base /\ Arisen /\ (\A t \in Tasks : Timely(t)) /\ Kept)'
  BY NextBase, NextArisen, NextTimely, NextKept
<1>3. ASSUME Base, Kept PROVE ShortDelayKept
  <2> SUFFICES ASSUME NEW t \in Tasks, Short(t), NEW c \in Executing(t) PROVE now >= due[t]
    BY DEF ShortDelayKept, Short
  <2>1. c \in Clients /\ slot[c].id = t /\ (slot[c].pc = "start" \/ slot[c].pc \in Late)
    BY DEF Executing, Late
  <2>2. due[t] <= now
    <3>1. CASE slot[c].pc = "start"
      <4>1. held[c] \in Member /\ held[c].id = t /\ Out(held[c])
        BY <1>3, <2>1, <3>1, HeldMember DEF Early, Out, InHand
      <4> QED
        BY <1>3, <4>1 DEF Kept
    <3>2. CASE slot[c].pc \in Late
      BY <1>3, <2>1, <3>2 DEF Kept
    <3> QED
      BY <2>1, <3>1, <3>2
  <2>3. due[t] \in Nat /\ now \in Nat
    BY <1>3 DEF Base, DTypes, ApiT, Types
  <2> QED
    BY <2>2, <2>3
<1> QED
  BY <1>1, <1>2, <1>3, PTL DEF Spec
=============================================================================
