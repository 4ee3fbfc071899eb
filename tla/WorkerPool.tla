----------------------------- MODULE WorkerPool -----------------------------
(***************************************************************************)
(* The goroutines of one worker process: fetchLoop with its semaphore, one *)
(* processTask goroutine per fetched task, the middleware chain around the *)
(* handler (Recovery, Logging, Timeout, which runs the handler on yet      *)
(* another goroutine), and Run's drain on shutdown.                        *)
(*                                                                         *)
(* The stores are elsewhere (Dispatch): a call that is made with the       *)
(* cancelled root context fails, any other call succeeds.  A handler may   *)
(* return anything at any time, panic, or never come back.                 *)
(***************************************************************************)
EXTENDS Naturals, FiniteSets

CONSTANTS
  Tasks,        \* tasks in the queues, each fetched at most once
  Concurrency,  \* capacity of sem
  MinBackoff,   \* minBackoff of fetchLoop
  MaxBackoff    \* maxBackoff of fetchLoop, in the same unit

ASSUME PoolAssumption ==
  /\ IsFiniteSet(Tasks) /\ Concurrency \in Nat \ {0}
  /\ MinBackoff \in Nat \ {0} /\ MaxBackoff \in Nat /\ MinBackoff <= MaxBackoff

VARIABLES
  stop,     \* is the root context cancelled?
  run,      \* Run: running, draining, done, timeout; or the process has exited or crashed
  fetch,    \* fetchLoop: acquire, dequeue, idle, sleep or left
  backoff,  \* its backoff
  sem,      \* slots taken in the semaphore
  wg,       \* counter of the WaitGroup
  proc,     \* task -> its processTask goroutine
  handler,  \* task -> the goroutine Timeout starts: none, running, or its result is sent
  result,   \* task -> what came back: none, ok, error or nil
  outcome   \* task -> none, recorded in the stores, or abandoned

vars == <<stop, run, fetch, backoff, sem, wg, proc, handler, result, outcome>>
taskVars == <<proc, handler, result, outcome>>

Results == {"ok", "error", "nil"}

Init ==
  /\ stop = FALSE /\ run = "running"
  /\ fetch = "acquire" /\ backoff = MinBackoff
  /\ sem = 0 /\ wg = 0
  /\ proc = [t \in Tasks |-> "queued"]
  /\ handler = [t \in Tasks |-> "none"]
  /\ result = [t \in Tasks |-> "none"]
  /\ outcome = [t \in Tasks |-> "none"]

Alive == run \notin {"exited", "crashed"}

-----------------------------------------------------------------------------
(* fetchLoop.                                                              *)

\* Mutant: the semaphore has no capacity.
AcquireUnbounded ==
  /\ Alive /\ fetch = "acquire" /\ ~stop
  /\ sem' = sem + 1 /\ fetch' = "dequeue"
  /\ UNCHANGED <<stop, run, backoff, wg, taskVars>>

\* A slot is taken before the queue is asked.
Acquire ==
  /\ Alive /\ fetch = "acquire" /\ ~stop /\ sem < Concurrency
  /\ sem' = sem + 1 /\ fetch' = "dequeue"
  /\ UNCHANGED <<stop, run, backoff, wg, taskVars>>

(* The loop ends at ctx.Done(), while it waits for a slot or on an empty   *)
(* queue.  A slot taken after the cancellation is given back at once: the  *)
(* Dequeue fails on the dead context, and the loop ends as well.           *)
Leave ==
  /\ Alive /\ fetch \in {"acquire", "idle"} /\ stop
  /\ fetch' = "left"
  /\ UNCHANGED <<stop, run, backoff, sem, wg, taskVars>>

\* An error gives the slot back and sleeps, or ends the loop after the cancellation.
DequeueError ==
  /\ Alive /\ fetch = "dequeue"
  /\ sem' = sem - 1
  /\ fetch' = IF stop THEN "left" ELSE "sleep"
  /\ UNCHANGED <<stop, run, backoff, wg, taskVars>>

\* Mutant: the slot is kept.
DequeueEmptyKeepsSlot ==
  /\ Alive /\ fetch = "dequeue"
  /\ fetch' = "idle"
  /\ UNCHANGED <<stop, run, backoff, sem, wg, taskVars>>

\* So does an empty queue, before the wait.
DequeueEmpty ==
  /\ Alive /\ fetch = "dequeue"
  /\ sem' = sem - 1
  /\ fetch' = "idle"
  /\ UNCHANGED <<stop, run, backoff, wg, taskVars>>

\* Mutant: the goroutine starts before it is counted.
DequeueUncounted(t) ==
  /\ Alive /\ fetch = "dequeue" /\ proc[t] = "queued"
  /\ backoff' = MinBackoff
  /\ fetch' = "acquire"
  /\ proc' = [proc EXCEPT ![t] = "setup"]
  /\ UNCHANGED <<stop, run, sem, wg, handler, result, outcome>>

\* A task: the slot passes to its goroutine, which wg counts.
DequeueTask(t) ==
  /\ Alive /\ fetch = "dequeue" /\ proc[t] = "queued"
  /\ wg' = wg + 1
  /\ backoff' = MinBackoff
  /\ fetch' = "acquire"
  /\ proc' = [proc EXCEPT ![t] = "setup"]
  /\ UNCHANGED <<stop, run, sem, handler, result, outcome>>

\* The wait on an empty queue doubles while it is below the maximum.
Resume ==
  /\ Alive /\ fetch \in {"idle", "sleep"}
  /\ fetch' = "acquire"
  /\ backoff' = IF fetch = "idle" /\ backoff < MaxBackoff THEN 2 * backoff ELSE backoff
  /\ UNCHANGED <<stop, run, sem, wg, taskVars>>

-----------------------------------------------------------------------------
(* processTask and the chain around the handler.                           *)

(* The checks before the handler: a terminal row ends the execution, with  *)
(* an Ack; a type without a handler is a failure; otherwise Timeout starts *)
(* the handler.  With a dead context both checks fail and are ignored.     *)
Setup(t) ==
  /\ Alive /\ proc[t] = "setup"
  /\ \/ /\ ~stop
        /\ proc' = [proc EXCEPT ![t] = "release"]
        /\ outcome' = [outcome EXCEPT ![t] = "recorded"]
        /\ UNCHANGED <<handler, result>>
     \/ /\ proc' = [proc EXCEPT ![t] = "settle"]
        /\ result' = [result EXCEPT ![t] = "error"]
        /\ UNCHANGED <<handler, outcome>>
     \/ /\ proc' = [proc EXCEPT ![t] = "handling"]
        /\ handler' = [handler EXCEPT ![t] = "running"]
        /\ UNCHANGED <<result, outcome>>
  /\ UNCHANGED <<stop, run, fetch, backoff, sem, wg>>

\* The handler returns into the buffered channel, even if nobody reads it any more.
HandlerReturns(t, res) ==
  /\ Alive /\ handler[t] = "running"
  /\ IF proc[t] = "handling"
     THEN handler' = [handler EXCEPT ![t] = "sent"] /\ result' = [result EXCEPT ![t] = res]
     ELSE handler' = [handler EXCEPT ![t] = "none"] /\ UNCHANGED result
  /\ UNCHANGED <<stop, run, fetch, backoff, sem, wg, proc, outcome>>

\* Nothing recovers a panic on the goroutine of Timeout: the process dies.
HandlerPanics(t) ==
  /\ Alive /\ handler[t] = "running"
  /\ run' = "crashed"
  /\ UNCHANGED <<stop, fetch, backoff, sem, wg, taskVars>>

\* Mutant: Logging does not look at the result.
PassedOn(res) == res

\* Logging reads the Error of a nil result and panics; Recovery makes it an error.
Recovered(res) == IF res = "nil" THEN "error" ELSE res

\* Timeout: select on the channel ...
Received(t) ==
  /\ Alive /\ proc[t] = "handling" /\ handler[t] = "sent"
  /\ proc' = [proc EXCEPT ![t] = "settle"]
  /\ handler' = [handler EXCEPT ![t] = "none"]
  /\ result' = [result EXCEPT ![t] = Recovered(@)]
  /\ UNCHANGED <<stop, run, fetch, backoff, sem, wg, outcome>>

\* Mutant: the middleware waits for the handler whatever the context says.
ContextIgnored(t) ==
  /\ FALSE
  /\ UNCHANGED vars

(* ... and on ctx.Done(): the deadline, a cancel or the shutdown.  The     *)
(* handler runs on; a result that has been sent is dropped.                *)
ContextDone(t) ==
  /\ Alive /\ proc[t] = "handling"
  /\ proc' = [proc EXCEPT ![t] = "settle"]
  /\ handler' = [handler EXCEPT ![t] = IF @ = "running" THEN @ ELSE "none"]
  /\ result' = [result EXCEPT ![t] = "error"]
  /\ UNCHANGED <<stop, run, fetch, backoff, sem, wg, outcome>>

(* handleSuccess, handleFailure or the Ack of a cancelled task: their      *)
(* calls use the root context, so a shutdown makes them fail.              *)
Settle(t) ==
  /\ Alive /\ proc[t] = "settle"
  /\ proc' = [proc EXCEPT ![t] = "release"]
  /\ outcome' = [outcome EXCEPT ![t] = IF stop THEN "abandoned" ELSE "recorded"]
  /\ result' = [result EXCEPT ![t] = "none"]
  /\ UNCHANGED <<stop, run, fetch, backoff, sem, wg, handler>>

\* The deferred function: first the slot ...
Release(t) ==
  /\ Alive /\ proc[t] = "release"
  /\ sem' = sem - 1
  /\ proc' = [proc EXCEPT ![t] = "last"]
  /\ UNCHANGED <<stop, run, fetch, backoff, wg, handler, result, outcome>>

\* Mutant: the goroutine ends without wg.Done.
WgForgotten(t) ==
  /\ Alive /\ proc[t] = "last"
  /\ proc' = [proc EXCEPT ![t] = "gone"]
  /\ UNCHANGED <<stop, run, fetch, backoff, sem, wg, handler, result, outcome>>

\* ... then the WaitGroup.
WgDone(t) ==
  /\ Alive /\ proc[t] = "last"
  /\ wg' = wg - 1
  /\ proc' = [proc EXCEPT ![t] = "gone"]
  /\ UNCHANGED <<stop, run, fetch, backoff, sem, handler, result, outcome>>

-----------------------------------------------------------------------------
(* Shutdown.                                                               *)

\* The first signal cancels the root context, the second one exits.
Signal ==
  /\ Alive
  /\ stop' = TRUE
  /\ run' = IF stop THEN "exited" ELSE run
  /\ UNCHANGED <<fetch, backoff, sem, wg, taskVars>>

\* Run goes on behind fetchLoop.
Drain ==
  /\ run = "running" /\ fetch = "left"
  /\ run' = "draining"
  /\ UNCHANGED <<stop, fetch, backoff, sem, wg, taskVars>>

\* wg.Wait returned: "all in-flight tasks completed".
Drained ==
  /\ run = "draining" /\ wg = 0
  /\ run' = "done"
  /\ UNCHANGED <<stop, fetch, backoff, sem, wg, taskVars>>

ShutdownTimeout ==
  /\ run = "draining"
  /\ run' = "timeout"
  /\ UNCHANGED <<stop, fetch, backoff, sem, wg, taskVars>>

\* Deregister and the end of main, which takes all goroutines along.
Exit ==
  /\ run \in {"done", "timeout"}
  /\ run' = "exited"
  /\ UNCHANGED <<stop, fetch, backoff, sem, wg, taskVars>>

-----------------------------------------------------------------------------
FetchLoop == Acquire \/ Leave \/ DequeueError \/ DequeueEmpty \/ Resume \/ \E t \in Tasks : DequeueTask(t)

ProcessTask(t) == Setup(t) \/ Received(t) \/ ContextDone(t) \/ Settle(t) \/ Release(t) \/ WgDone(t)

Handler(t) == HandlerPanics(t) \/ \E res \in Results : HandlerReturns(t, res)

Next ==
  \/ FetchLoop
  \/ \E t \in Tasks : ProcessTask(t) \/ Handler(t)
  \/ Signal \/ Drain \/ Drained \/ ShutdownTimeout \/ Exit

Spec == Init /\ [][Next]_vars

(* Goroutines run, calls return and every deadline comes.  No handler has  *)
(* to return, and the timer of the drain is not needed.                    *)
Fairness ==
  /\ WF_vars(FetchLoop)
  /\ \A t \in Tasks : WF_vars(ProcessTask(t))
  /\ WF_vars(Drain) /\ WF_vars(Drained)

FairSpec == Spec /\ Fairness

-----------------------------------------------------------------------------
Started(t) == proc[t] \notin {"queued", "gone"}
Holding(t) == proc[t] \in {"setup", "handling", "settle", "release"}

(* Types, and the semaphore within its capacity.                           *)
TypeOK ==
  /\ stop \in BOOLEAN
  /\ run \in {"running", "draining", "done", "timeout", "exited", "crashed"}
  /\ fetch \in {"acquire", "dequeue", "idle", "sleep", "left"}
  /\ backoff \in Nat
  /\ sem \in 0..Concurrency /\ wg \in 0..Cardinality(Tasks)
  /\ proc \in [Tasks -> {"queued", "setup", "handling", "settle", "release", "last", "gone"}]
  /\ handler \in [Tasks -> {"none", "running", "sent"}]
  /\ result \in [Tasks -> Results \cup {"none"}]
  /\ outcome \in [Tasks -> {"none", "recorded", "abandoned"}]

(* Whatever way a round of fetchLoop and a processTask end, no slot is     *)
(* lost and none is given back twice: the semaphore counts the executions  *)
(* and the Dequeue under way, and at most Concurrency tasks are processed. *)
SlotsHeld ==
  /\ sem = Cardinality({t \in Tasks : Holding(t)}) + IF fetch = "dequeue" THEN 1 ELSE 0
  /\ Cardinality({t \in Tasks : Holding(t)}) <= Concurrency

(* processTask reads result.Error outside of every recover: no chain of    *)
(* handler and middleware hands it a nil result.                           *)
ResultNotNil == \A t \in Tasks : proc[t] = "settle" => result[t] \in {"ok", "error"}

(* When Run reports that all in-flight tasks completed, no processTask is  *)
(* left, and none can start any more, although the last Dequeue may return *)
(* a task after the signal.                                                *)
DrainComplete ==
  run = "done" => fetch = "left" /\ \A t \in Tasks : ~Started(t)

(* A handler that never returns, heeds no context or returns nil does not  *)
(* keep its slot: every fetched task comes to its end.                     *)
SlotsRecover == \A t \in Tasks : Started(t) ~> (~Started(t) \/ ~Alive)

(* After the signal Run comes to its end without its ShutdownTimeout.      *)
DrainEnds == stop ~> (run \in {"done", "timeout"} \/ ~Alive)

-----------------------------------------------------------------------------
(* What the documents say and the code does not do.                        *)

(* architecture.md: on a graceful stop the worker waits until the          *)
(* in-flight tasks are completed.                                          *)
DrainFinishes == run = "done" => \A t \in Tasks : outcome[t] # "abandoned"

(* architecture.md: a panic of a handler is caught and becomes a failure.  *)
PanicContained == run # "crashed"

(* configuration.md: concurrency is the largest number of tasks that run   *)
(* at once.                                                                *)
HandlersBounded == Cardinality({t \in Tasks : handler[t] = "running"}) <= Concurrency
=============================================================================
