-------------------------- MODULE WorkerPoolProofs --------------------------
(***************************************************************************)
(* The semaphore and the WaitGroup of a worker, for any number of tasks    *)
(* and any concurrency.  SlotsHeld says what sem counts; DrainComplete     *)
(* needs in addition what wg counts (Counts), that the drain begins only   *)
(* behind fetchLoop, which then starts nothing any more, and that a        *)
(* finished drain has seen the counter at zero (Order).  ResultNotNil      *)
(* needs that what waits in the channel is a result.                       *)
(***************************************************************************)
EXTENDS WorkerPool, FiniteSetTheorems, TLAPS

HoldPcs == {"setup", "handling", "settle", "release"}
GoPcs == HoldPcs \cup {"last"}
Pcs == GoPcs \cup {"queued", "gone"}

\* The tasks at one of the given places.
At(p, pcs) == {t \in Tasks : p[t] \in pcs}

\* Only t moves.
Moves(p, q, t) == \A u \in Tasks : u # t => q[u] = p[u]

Asking == IF fetch = "dequeue" THEN 1 ELSE 0

\* The types, without the bounds that follow from Counts.
Types ==
  /\ stop \in BOOLEAN
  /\ run \in {"running", "draining", "done", "timeout", "exited", "crashed"}
  /\ fetch \in {"acquire", "dequeue", "idle", "sleep", "left"}
  /\ backoff \in Nat
  /\ proc \in [Tasks -> Pcs]
  /\ handler \in [Tasks -> {"none", "running", "sent"}]
  /\ result \in [Tasks -> Results \cup {"none"}]
  /\ outcome \in [Tasks -> {"none", "recorded", "abandoned"}]

\* What the two counters count.
Counts ==
  /\ sem = Cardinality(At(proc, HoldPcs)) + Asking /\ sem <= Concurrency
  /\ wg = Cardinality(At(proc, GoPcs))

\* fetchLoop has returned before the drain, and the WaitGroup before "done".
Order ==
  /\ run \in {"draining", "done", "timeout"} => fetch = "left"
  /\ run = "done" => wg = 0

\* What is in the channel, and what processTask has got, is a result.
Answers ==
  \A t \in Tasks : /\ proc[t] = "handling" /\ handler[t] = "sent" => result[t] \in Results
                   /\ proc[t] = "settle" => result[t] \in {"ok", "error"}

IInv == Types /\ Counts /\ Order /\ Answers

-----------------------------------------------------------------------------
(* Sets of tasks are finite.                                               *)
LEMMA AtFinite ==
  ASSUME NEW p, NEW pcs
  PROVE  /\ IsFiniteSet(At(p, pcs)) /\ Cardinality(At(p, pcs)) \in Nat
         /\ Cardinality(At(p, pcs)) <= Cardinality(Tasks) /\ Cardinality(Tasks) \in Nat
<1>1. At(p, pcs) \in SUBSET Tasks /\ IsFiniteSet(Tasks)
  BY PoolAssumption DEF At
<1>2. IsFiniteSet(At(p, pcs)) /\ Cardinality(At(p, pcs)) <= Cardinality(Tasks)
  BY <1>1, FS_Subset
<1>3. QED
  BY <1>1, <1>2, FS_CardinalityType

(* A task that stays inside or outside.                                    *)
LEMMA Stays ==
  ASSUME NEW p, NEW q, NEW t \in Tasks, NEW pcs, Moves(p, q, t), p[t] \in pcs <=> q[t] \in pcs
  PROVE  At(q, pcs) = At(p, pcs)
  BY DEF At, Moves

(* A task that comes in.                                                   *)
LEMMA Enters ==
  ASSUME NEW p, NEW q, NEW t \in Tasks, NEW pcs, Moves(p, q, t), p[t] \notin pcs, q[t] \in pcs
  PROVE  Cardinality(At(q, pcs)) = Cardinality(At(p, pcs)) + 1
<1>1. At(q, pcs) = At(p, pcs) \cup {t} /\ t \notin At(p, pcs)
  BY DEF At, Moves
<1>2. QED
  BY <1>1, AtFinite, FS_AddElement

(* A task that goes out.                                                   *)
LEMMA Leaves ==
  ASSUME NEW p, NEW q, NEW t \in Tasks, NEW pcs, Moves(p, q, t), p[t] \in pcs, q[t] \notin pcs
  PROVE  Cardinality(At(q, pcs)) = Cardinality(At(p, pcs)) - 1
<1>1. At(q, pcs) = At(p, pcs) \ {t} /\ t \in At(p, pcs)
  BY DEF At, Moves
<1>2. QED
  BY <1>1, AtFinite, FS_RemoveElement

-----------------------------------------------------------------------------
(* At the start nothing is counted.                                        *)
LEMMA InitInv == Init => IInv
<1> SUFFICES ASSUME Init PROVE IInv
  OBVIOUS
<1>1. Types /\ Order /\ Answers
  BY PoolAssumption DEF Init, Types, Order, Answers, Pcs, GoPcs, HoldPcs, Results
<1>2. At(proc, HoldPcs) = {} /\ At(proc, GoPcs) = {}
  BY DEF Init, At, HoldPcs, GoPcs
<1>3. Counts
  BY <1>2, FS_EmptySet, PoolAssumption DEF Init, Counts, Asking
<1>4. QED
  BY <1>1, <1>3 DEF IInv

(* The steps of fetchLoop that start no task.                              *)
LEMMA FetchInv ==
  ASSUME IInv, Acquire \/ Leave \/ DequeueError \/ DequeueEmpty \/ Resume
  PROVE  IInv'
<1>1. UNCHANGED <<stop, run, wg, proc, handler, result, outcome>>
  BY DEF Acquire, Leave, DequeueError, DequeueEmpty, Resume, taskVars
<1>2. Types'
  <2>1. backoff' \in Nat
    BY PoolAssumption DEF IInv, Types, Acquire, Leave, DequeueError, DequeueEmpty, Resume
  <2>2. fetch' \in {"acquire", "dequeue", "idle", "sleep", "left"}
    BY DEF Acquire, Leave, DequeueError, DequeueEmpty, Resume
  <2>3. QED
    BY <1>1, <2>1, <2>2 DEF IInv, Types
<1>3. Counts'
  <2>1. Cardinality(At(proc, HoldPcs)) \in Nat /\ Concurrency \in Nat
    BY AtFinite, PoolAssumption
  <2>2. sem \in Int /\ sem = Cardinality(At(proc, HoldPcs)) + Asking /\ sem <= Concurrency
    BY <2>1 DEF IInv, Counts, Asking
  <2>3. sem' = Cardinality(At(proc, HoldPcs)) + Asking' /\ sem' <= Concurrency
    BY <2>1, <2>2 DEF Acquire, Leave, DequeueError, DequeueEmpty, Resume, Asking
  <2>4. QED
    BY <1>1, <2>3 DEF IInv, Counts, At
<1>4. Order'
  BY <1>1 DEF IInv, Order, Acquire, Leave, DequeueError, DequeueEmpty, Resume
<1>5. Answers'
  BY <1>1 DEF IInv, Answers
<1>6. QED
  BY <1>2, <1>3, <1>4, <1>5 DEF IInv

(* A fetched task takes over the slot of its Dequeue.                      *)
LEMMA DequeueTaskInv ==
  ASSUME IInv, NEW t \in Tasks, DequeueTask(t)
  PROVE  IInv'
<1>1. /\ fetch = "dequeue" /\ fetch' = "acquire" /\ proc[t] = "queued" /\ wg' = wg + 1
      /\ proc' = [proc EXCEPT ![t] = "setup"] /\ backoff' = MinBackoff
      /\ UNCHANGED <<stop, run, sem, handler, result, outcome>>
  BY DEF DequeueTask
<1>2. proc \in [Tasks -> Pcs]
  BY DEF IInv, Types
<1>3. Types'
  BY <1>1, <1>2, PoolAssumption DEF IInv, Types, Pcs, GoPcs, HoldPcs
<1>4. Counts'
  <2>1. Cardinality(At(proc', HoldPcs)) = Cardinality(At(proc, HoldPcs)) + 1
    <3>1. proc[t] \notin HoldPcs /\ proc'[t] \in HoldPcs
      BY <1>1, <1>2 DEF HoldPcs
    <3>2. Moves(proc, proc', t)
      BY <1>1, <1>2 DEF Moves
    <3>3. QED
      BY <3>1, <3>2, Enters
  <2>2. Cardinality(At(proc', GoPcs)) = Cardinality(At(proc, GoPcs)) + 1
    <3>1. proc[t] \notin GoPcs /\ proc'[t] \in GoPcs
      BY <1>1, <1>2 DEF GoPcs, HoldPcs
    <3>2. Moves(proc, proc', t)
      BY <1>1, <1>2 DEF Moves
    <3>3. QED
      BY <3>1, <3>2, Enters
  <2>3. Cardinality(At(proc, HoldPcs)) \in Nat
    BY AtFinite
  <2>4. Asking = 1 /\ Asking' = 0
    BY <1>1 DEF Asking
  <2>5. QED
    BY <1>1, <2>1, <2>2, <2>3, <2>4 DEF IInv, Counts, At
<1>5. Order'
  BY <1>1 DEF IInv, Order
<1>6. Answers'
  BY <1>1, <1>2 DEF IInv, Answers
<1>7. QED
  BY <1>3, <1>4, <1>5, <1>6 DEF IInv

(* An execution that goes on keeps its slot and its count.                 *)
LEMMA MoveInv ==
  ASSUME IInv, NEW t \in Tasks, NEW v \in HoldPcs, proc[t] \in HoldPcs,
         proc' = [proc EXCEPT ![t] = v], Types', Answers',
         UNCHANGED <<run, fetch, sem, wg>>
  PROVE  IInv'
<1>1. proc \in [Tasks -> Pcs]
  BY DEF IInv, Types
<1>2. At(proc', HoldPcs) = At(proc, HoldPcs) /\ At(proc', GoPcs) = At(proc, GoPcs)
  <2>1. /\ proc[t] \in HoldPcs /\ proc'[t] \in HoldPcs
        /\ proc[t] \in GoPcs /\ proc'[t] \in GoPcs
    BY <1>1 DEF GoPcs
  <2>2. Moves(proc, proc', t)
    BY <1>1 DEF Moves
  <2>3. QED
    BY <2>1, <2>2, Stays
<1>3. Counts'
  BY <1>2 DEF IInv, Counts, Asking, At
<1>4. Order'
  BY DEF IInv, Order
<1>5. QED
  BY <1>3, <1>4 DEF IInv

(* processTask before and after the handler.                               *)
LEMMA SetupInv == ASSUME IInv, NEW t \in Tasks, Setup(t) PROVE IInv'
<1>1. PICK v \in HoldPcs : /\ proc' = [proc EXCEPT ![t] = v]
                           /\ v = "settle" => result' = [result EXCEPT ![t] = "error"]
                           /\ v # "settle" => result' = result
                           /\ v = "handling" => handler' = [handler EXCEPT ![t] = "running"]
                           /\ v # "handling" => handler' = handler
                           /\ outcome' \in {outcome, [outcome EXCEPT ![t] = "recorded"]}
  BY DEF Setup, HoldPcs
<1>2. proc[t] \in HoldPcs /\ proc[t] = "setup" /\ UNCHANGED <<stop, run, fetch, backoff, sem, wg>>
  BY DEF Setup, HoldPcs
<1>3. Types'
  <2>1. proc' \in [Tasks -> Pcs] /\ handler' \in [Tasks -> {"none", "running", "sent"}]
    BY <1>1 DEF IInv, Types, Pcs, GoPcs
  <2>2. result' \in [Tasks -> Results \cup {"none"}]
    BY <1>1 DEF IInv, Types, Results
  <2>3. outcome' \in [Tasks -> {"none", "recorded", "abandoned"}]
    BY <1>1 DEF IInv, Types
  <2>4. QED
    BY <1>2, <2>1, <2>2, <2>3 DEF IInv, Types
<1>4. Answers'
  <2> SUFFICES ASSUME NEW u \in Tasks
               PROVE  /\ proc'[u] = "handling" /\ handler'[u] = "sent" => result'[u] \in Results
                      /\ proc'[u] = "settle" => result'[u] \in {"ok", "error"}
    BY DEF Answers
  <2>1. CASE u = t
    BY <2>1, <1>1 DEF IInv, Types
  <2>2. CASE u # t
    BY <2>2, <1>1 DEF IInv, Types, Answers
  <2>3. QED
    BY <2>1, <2>2
<1>5. QED
  BY <1>1, <1>2, <1>3, <1>4, MoveInv

LEMMA ReceivedInv == ASSUME IInv, NEW t \in Tasks, Received(t) PROVE IInv'
<1>1. /\ proc[t] = "handling" /\ handler[t] = "sent" /\ proc' = [proc EXCEPT ![t] = "settle"]
      /\ handler' = [handler EXCEPT ![t] = "none"]
      /\ result' = [result EXCEPT ![t] = Recovered(result[t])]
      /\ UNCHANGED <<stop, run, fetch, backoff, sem, wg, outcome>>
  BY DEF Received
<1>2. Recovered(result[t]) \in {"ok", "error"}
  BY <1>1 DEF IInv, Answers, Results, Recovered
<1>3. Types'
  BY <1>1, <1>2 DEF IInv, Types, Pcs, GoPcs, HoldPcs, Results
<1>4. Answers'
  BY <1>1, <1>2 DEF IInv, Types, Answers
<1>5. QED
  BY <1>1, <1>3, <1>4, MoveInv DEF HoldPcs

LEMMA ContextDoneInv == ASSUME IInv, NEW t \in Tasks, ContextDone(t) PROVE IInv'
<1>1. /\ proc[t] = "handling" /\ proc' = [proc EXCEPT ![t] = "settle"]
      /\ handler' = [handler EXCEPT ![t] = IF handler[t] = "running" THEN handler[t] ELSE "none"]
      /\ result' = [result EXCEPT ![t] = "error"]
      /\ UNCHANGED <<stop, run, fetch, backoff, sem, wg, outcome>>
  BY DEF ContextDone
<1>2. Types'
  BY <1>1 DEF IInv, Types, Pcs, GoPcs, HoldPcs, Results
<1>3. Answers'
  BY <1>1 DEF IInv, Types, Answers
<1>4. QED
  BY <1>1, <1>2, <1>3, MoveInv DEF HoldPcs

LEMMA SettleInv == ASSUME IInv, NEW t \in Tasks, Settle(t) PROVE IInv'
<1>1. /\ proc[t] = "settle" /\ proc' = [proc EXCEPT ![t] = "release"]
      /\ outcome' = [outcome EXCEPT ![t] = IF stop THEN "abandoned" ELSE "recorded"]
      /\ result' = [result EXCEPT ![t] = "none"]
      /\ UNCHANGED <<stop, run, fetch, backoff, sem, wg, handler>>
  BY DEF Settle
<1>2. Types'
  BY <1>1 DEF IInv, Types, Pcs, GoPcs, HoldPcs
<1>3. Answers'
  BY <1>1 DEF IInv, Types, Answers
<1>4. QED
  BY <1>1, <1>2, <1>3, MoveInv DEF HoldPcs

(* The handler's goroutine counts nowhere.                                 *)
LEMMA HandlerInv ==
  ASSUME IInv, NEW t \in Tasks, NEW res \in Results, HandlerReturns(t, res)
  PROVE  IInv'
<1>1. UNCHANGED <<stop, run, fetch, backoff, sem, wg, proc, outcome>>
  BY DEF HandlerReturns
<1>2. \/ handler' = [handler EXCEPT ![t] = "sent"] /\ result' = [result EXCEPT ![t] = res]
         /\ proc[t] = "handling"
      \/ handler' = [handler EXCEPT ![t] = "none"] /\ result' = result
  BY DEF HandlerReturns
<1>3. Types'
  BY <1>1, <1>2 DEF IInv, Types
<1>4. Counts' /\ Order'
  BY <1>1 DEF IInv, Counts, Order, Asking, At
<1>5. Answers'
  BY <1>1, <1>2 DEF IInv, Types, Answers
<1>6. QED
  BY <1>3, <1>4, <1>5 DEF IInv

(* The two halves of the deferred function.                                *)
LEMMA ReleaseInv == ASSUME IInv, NEW t \in Tasks, Release(t) PROVE IInv'
<1>1. /\ proc[t] = "release" /\ proc' = [proc EXCEPT ![t] = "last"] /\ sem' = sem - 1
      /\ UNCHANGED <<stop, run, fetch, backoff, wg, handler, result, outcome>>
  BY DEF Release
<1>2. proc \in [Tasks -> Pcs]
  BY DEF IInv, Types
<1>3. Types' /\ Answers' /\ Order'
  BY <1>1 DEF IInv, Types, Answers, Order, Pcs, GoPcs, HoldPcs
<1>4. Counts'
  <2>1. Cardinality(At(proc', HoldPcs)) = Cardinality(At(proc, HoldPcs)) - 1
    <3>1. proc[t] \in HoldPcs /\ proc'[t] \notin HoldPcs
      BY <1>1, <1>2 DEF HoldPcs
    <3>2. Moves(proc, proc', t)
      BY <1>1, <1>2 DEF Moves
    <3>3. QED
      BY <3>1, <3>2, Leaves
  <2>2. At(proc', GoPcs) = At(proc, GoPcs)
    <3>1. proc[t] \in GoPcs /\ proc'[t] \in GoPcs
      BY <1>1, <1>2 DEF GoPcs, HoldPcs
    <3>2. Moves(proc, proc', t)
      BY <1>1, <1>2 DEF Moves
    <3>3. QED
      BY <3>1, <3>2, Stays
  <2>3. Cardinality(At(proc, HoldPcs)) \in Nat /\ Asking \in Nat /\ Asking' = Asking
        /\ Concurrency \in Nat
    BY <1>1, AtFinite, PoolAssumption DEF Asking
  <2>4. sem = Cardinality(At(proc, HoldPcs)) + Asking /\ sem <= Concurrency
        /\ wg = Cardinality(At(proc, GoPcs))
    BY DEF IInv, Counts
  <2>5. sem' = Cardinality(At(proc', HoldPcs)) + Asking' /\ sem' <= Concurrency
    BY <1>1, <2>1, <2>3, <2>4
  <2>6. QED
    BY <1>1, <2>2, <2>4, <2>5 DEF Counts, At
<1>5. QED
  BY <1>3, <1>4 DEF IInv

LEMMA WgDoneInv == ASSUME IInv, NEW t \in Tasks, WgDone(t) PROVE IInv'
<1>1. /\ proc[t] = "last" /\ proc' = [proc EXCEPT ![t] = "gone"] /\ wg' = wg - 1
      /\ UNCHANGED <<stop, run, fetch, backoff, sem, handler, result, outcome>>
  BY DEF WgDone
<1>2. proc \in [Tasks -> Pcs]
  BY DEF IInv, Types
<1>3. Types' /\ Answers'
  BY <1>1 DEF IInv, Types, Answers, Pcs, GoPcs, HoldPcs
<1>4. Counts'
  <2>1. Cardinality(At(proc', GoPcs)) = Cardinality(At(proc, GoPcs)) - 1
    <3>1. proc[t] \in GoPcs /\ proc'[t] \notin GoPcs
      BY <1>1, <1>2 DEF GoPcs, HoldPcs
    <3>2. Moves(proc, proc', t)
      BY <1>1, <1>2 DEF Moves
    <3>3. QED
      BY <3>1, <3>2, Leaves
  <2>2. At(proc', HoldPcs) = At(proc, HoldPcs)
    <3>1. proc[t] \notin HoldPcs /\ proc'[t] \notin HoldPcs
      BY <1>1, <1>2 DEF HoldPcs
    <3>2. Moves(proc, proc', t)
      BY <1>1, <1>2 DEF Moves
    <3>3. QED
      BY <3>1, <3>2, Stays
  <2>3. QED
    BY <1>1, <2>1, <2>2 DEF IInv, Counts, Asking, At
<1>5. wg # 0
  <2>1. t \in At(proc, GoPcs)
    BY <1>1 DEF At, GoPcs
  <2>2. Cardinality(At(proc, GoPcs)) # 0
    BY <2>1, AtFinite, FS_EmptySet
  <2>3. QED
    BY <2>2 DEF IInv, Counts
<1>6. Order'
  BY <1>1, <1>5 DEF IInv, Order
<1>7. QED
  BY <1>3, <1>4, <1>6 DEF IInv

(* Signals, the drain, its timeout, the end and a panic.                   *)
LEMMA RunInv ==
  ASSUME IInv, UNCHANGED <<fetch, backoff, sem, wg, proc, handler, result, outcome>>,
         stop' \in BOOLEAN,
         \/ run' \in {run, "exited", "crashed"}
         \/ run' = "draining" /\ fetch = "left"
         \/ run = "draining" /\ run' = "done" /\ wg = 0
         \/ run = "draining" /\ run' = "timeout"
  PROVE  IInv'
<1>1. Types'
  BY DEF IInv, Types
<1>2. Counts' /\ Answers'
  BY DEF IInv, Counts, Answers, Asking, At
<1>3. Order'
  BY DEF IInv, Order
<1>4. QED
  BY <1>1, <1>2, <1>3 DEF IInv

(* Every step keeps the inductive invariant.                               *)
LEMMA StepInv == IInv /\ [Next]_vars => IInv'
<1> SUFFICES ASSUME IInv, [Next]_vars PROVE IInv'
  OBVIOUS
<1>0. stop \in BOOLEAN
  BY DEF IInv, Types
<1>1. CASE UNCHANGED vars
  BY <1>1 DEF vars, IInv, Types, Counts, Order, Answers, Asking, At
<1>2. CASE Acquire \/ Leave \/ DequeueError \/ DequeueEmpty \/ Resume
  BY <1>2, FetchInv
<1>3. ASSUME NEW t \in Tasks, DequeueTask(t) PROVE IInv'
  BY <1>3, DequeueTaskInv
<1>4. ASSUME NEW t \in Tasks, ProcessTask(t) PROVE IInv'
  BY <1>4, SetupInv, ReceivedInv, ContextDoneInv, SettleInv, ReleaseInv, WgDoneInv DEF ProcessTask
<1>5. ASSUME NEW t \in Tasks, NEW res \in Results, HandlerReturns(t, res) PROVE IInv'
  BY <1>5, HandlerInv
<1>6. ASSUME NEW t \in Tasks, HandlerPanics(t) PROVE IInv'
  BY <1>0, <1>6, RunInv DEF HandlerPanics, taskVars
<1>7. CASE Signal \/ Drain \/ Drained \/ ShutdownTimeout \/ Exit
  BY <1>0, <1>7, RunInv DEF Signal, Drain, Drained, ShutdownTimeout, Exit, taskVars
<1>8. QED
  BY <1>1, <1>2, <1>3, <1>4, <1>5, <1>6, <1>7 DEF Next, FetchLoop, Handler

(* The invariant implies what is claimed.                                  *)
LEMMA InvImplies == IInv => TypeOK /\ SlotsHeld /\ ResultNotNil /\ DrainComplete
<1> SUFFICES ASSUME IInv PROVE TypeOK /\ SlotsHeld /\ ResultNotNil /\ DrainComplete
  OBVIOUS
<1>1. Cardinality(At(proc, HoldPcs)) \in Nat /\ Cardinality(At(proc, GoPcs)) \in Nat
      /\ Cardinality(At(proc, GoPcs)) <= Cardinality(Tasks) /\ Cardinality(Tasks) \in Nat
      /\ Concurrency \in Nat /\ Asking \in {0, 1}
  BY AtFinite, PoolAssumption DEF Asking
<1>2. sem \in 0..Concurrency /\ wg \in 0..Cardinality(Tasks)
  BY <1>1 DEF IInv, Counts
<1>3. TypeOK
  BY <1>2 DEF IInv, Types, TypeOK, Pcs, GoPcs, HoldPcs
<1>4. {t \in Tasks : Holding(t)} = At(proc, HoldPcs)
  BY DEF Holding, At, HoldPcs
<1>5. SlotsHeld
  <2>1. sem = Cardinality(At(proc, HoldPcs)) + Asking /\ sem <= Concurrency
    BY DEF IInv, Counts
  <2>2. Cardinality(At(proc, HoldPcs)) <= Concurrency
    BY <1>1, <2>1
  <2>3. sem = Cardinality(At(proc, HoldPcs)) + IF fetch = "dequeue" THEN 1 ELSE 0
    BY <2>1 DEF Asking
  <2>4. QED
    BY <1>4, <2>2, <2>3 DEF SlotsHeld
<1>6. ResultNotNil
  BY DEF IInv, Answers, ResultNotNil
<1>7. DrainComplete
  <2> SUFFICES ASSUME run = "done" PROVE fetch = "left" /\ \A t \in Tasks : ~Started(t)
    BY DEF DrainComplete
  <2>1. fetch = "left" /\ Cardinality(At(proc, GoPcs)) = 0
    BY DEF IInv, Order, Counts
  <2>2. At(proc, GoPcs) = {}
    BY <2>1, AtFinite, FS_EmptySet
  <2>3. QED
    BY <2>1, <2>2 DEF IInv, Types, At, Started, Pcs, GoPcs, HoldPcs
<1>8. QED
  BY <1>3, <1>5, <1>6, <1>7

(* The worker never loses or doubles a slot, never processes more than     *)
(* Concurrency tasks, hands no nil result to processTask, and reports the  *)
(* end of its in-flight tasks only when none is left.                      *)
THEOREM PoolSafe == Spec => [](TypeOK /\ SlotsHeld /\ ResultNotNil /\ DrainComplete)
<1>1. Init => IInv
  BY InitInv
<1>2. IInv /\ [Next]_vars => IInv'
  BY StepInv
<1>3. IInv => TypeOK /\ SlotsHeld /\ ResultNotNil /\ DrainComplete
  BY InvImplies
<1>4. QED
  BY <1>1, <1>2, <1>3, PTL DEF Spec

(* The line "all in-flight tasks completed" is true whenever it is logged. *)
THEOREM DrainSafe == Spec => []DrainComplete
  BY PoolSafe, PTL

(* The semaphore stays within 0..Concurrency and the wait group within the *)
(* number of tasks: neither release runs more often than its acquire.      *)
THEOREM PoolTypes == Spec => []TypeOK
  BY PoolSafe, PTL

(* Whatever a handler returns, a nil result included, and however its      *)
(* context ends, Logging, Recovery and Timeout make it a result before     *)
(* processTask reads result.Error.                                         *)
THEOREM ResultsNotNil == Spec => []ResultNotNil
  BY PoolSafe, PTL
=============================================================================
