------------------------------ MODULE Dispatch ------------------------------
(***************************************************************************)
(* The life of tasks across the system: the API server writes MySQL and    *)
(* Redis (SubmitTask, CancelTask), workers take copies from Redis, run     *)
(* them and record the outcome in MySQL (processTask), the scheduler's     *)
(* loops promote, reclaim, compensate and clean up.  MySQL is TaskStore,   *)
(* Redis is QueueBroker.  Every call to either is a step of its own: the   *)
(* processes interleave between any two of them.                           *)
(*                                                                         *)
(* A client is one running processTask: a slot of a worker's semaphore.    *)
(* held[c] is the *entity.Task it works on.  Failures are bounded: at most *)
(* MaxCrashes worker crashes (a graceful stop looks the same, since every  *)
(* call of processTask uses the cancelled root context), MaxFaults calls   *)
(* that fail and MaxLost enqueues of SubmitTask that fail.                 *)
(***************************************************************************)
EXTENDS QueueBroker, TaskStore

CONSTANTS
  Workers,          \* worker processes
  WorkerOf,         \* client -> its process
  HasHandler,       \* worker -> the tasks whose type it has a handler for
  StaleAfter,       \* age of a Pending row that the compensation loop picks up
  CompensateLimit,  \* rows per compensation
  Retention,        \* age of a terminal row that the cleanup loop deletes
  CleanupLimit,     \* rows per cleanup
  MaxCrashes, MaxFaults, MaxLost

ASSUME DispatchAssumption ==
  /\ WorkerOf \in [Clients -> Workers]
  /\ HasHandler \in [Workers -> SUBSET Tasks]
  /\ None \notin Clients
  /\ {StaleAfter, CompensateLimit, Retention, CleanupLimit} \subseteq Nat
  /\ {MaxCrashes, MaxFaults, MaxLost} \subseteq Nat

VARIABLES
  submit,     \* task -> how far SubmitTask is
  due,        \* task -> the time its submitter asked for
  request,    \* task -> how far CancelTask is, with the version it loaded
  slot,       \* client -> where processTask is and the id of its task
  dead,       \* client -> is taskCtx cancelled?
  cancels,    \* worker -> the map task id -> CancelFunc, here the client it cancels
  signals,    \* <<worker, task>>: cancel messages published and not yet handled
  delivered,  \* <<worker, task>>: cancel messages handled (history)
  comp,       \* the compensation under way: copies to enqueue, row to touch
  crashes, faults, lost

apiVars == <<submit, due, request>>
workerVars == <<slot, dead, cancels>>
signalVars == <<signals, delivered>>
budget == <<crashes, faults, lost>>
vars == <<brokerVars, rows, apiVars, workerVars, signalVars, comp, budget>>

PCs == {"idle", "extend", "check1", "track", "check2", "start", "handling", "failing",
        "acking", "finishing", "untrack"}
IdleSlot == [pc |-> "idle", id |-> None]
NoComp == [todo |-> {}, touch |-> None]
NoRequest == [pc |-> "none", version |-> 0]

Init ==
  /\ BrokerInit /\ StoreInit
  /\ submit = [t \in Tasks |-> "new"]
  /\ due = [t \in Tasks |-> 0]
  /\ request = [t \in Tasks |-> NoRequest]
  /\ slot = [c \in Clients |-> IdleSlot]
  /\ dead = [c \in Clients |-> FALSE]
  /\ cancels = [w \in Workers |-> [t \in Tasks |-> None]]
  /\ signals = {} /\ delivered = {}
  /\ comp = NoComp
  /\ crashes = 0 /\ faults = 0 /\ lost = 0

Fault == faults < MaxFaults /\ faults' = faults + 1 /\ UNCHANGED <<crashes, lost>>
NoFault == UNCHANGED budget

-----------------------------------------------------------------------------
(* API server.                                                             *)

SubmitCreate(t) ==
  /\ submit[t] = "new"
  /\ Create(t, now)
  /\ submit' = [submit EXCEPT ![t] = "created"]
  /\ due' = [due EXCEPT ![t] = Later(now, Delay[t])]
  /\ UNCHANGED <<brokerVars, request, workerVars, signalVars, comp, budget>>

\* The enqueue's error is ignored.
SubmitEnqueue(t) ==
  /\ submit[t] = "created"
  /\ submit' = [submit EXCEPT ![t] = "done"]
  /\ \/ /\ IF Delay[t] > 0 THEN EnqueueDelayed(Copy(t, 0)) ELSE Enqueue(Copy(t, 0))
        /\ NoFault
     \/ /\ lost < MaxLost /\ lost' = lost + 1
        /\ UNCHANGED <<brokerVars, crashes, faults>>
  /\ UNCHANGED <<rows, due, request, workerVars, signalVars, comp>>

CancelGet(t) ==
  /\ t \in Cancellable /\ request[t].pc = "none"
  /\ rows[t] # None /\ ~IsTerminal(rows[t].state)
  /\ request' = [request EXCEPT ![t] = [pc |-> "loaded", version |-> rows[t].version]]
  /\ UNCHANGED <<brokerVars, rows, submit, due, workerVars, signalVars, comp, budget>>

\* A conflict, or an error, ends the request; the user may send another.
CancelUpdate(t) ==
  LET m == [Copy(t, 0) EXCEPT !.version = request[t].version] IN
  /\ request[t].pc = "loaded"
  /\ \/ /\ UpdateOk(m, "cancelled", now) /\ NoFault
        /\ request' = [request EXCEPT ![t] = [pc |-> "remove", version |-> 0]]
     \/ /\ UpdateConflict(m) /\ NoFault
        /\ request' = [request EXCEPT ![t] = NoRequest]
     \/ /\ UpdateFails(m, "cancelled", now) /\ Fault
        /\ request' = [request EXCEPT ![t] = NoRequest]
  /\ UNCHANGED <<brokerVars, submit, due, workerVars, signalVars, comp>>

CancelRemove(t) ==
  /\ request[t].pc = "remove"
  /\ \/ Remove(t) /\ NoFault
     \/ Fault /\ UNCHANGED brokerVars
  /\ request' = [request EXCEPT ![t].pc = "publish"]
  /\ UNCHANGED <<rows, submit, due, workerVars, signalVars, comp>>

\* Pub/sub reaches the workers subscribed now, or nobody.
CancelPublish(t) ==
  /\ request[t].pc = "publish"
  /\ \/ signals' = signals \cup (Workers \X {t}) /\ NoFault
     \/ Fault /\ UNCHANGED signals
  /\ request' = [request EXCEPT ![t].pc = "done"]
  /\ UNCHANGED <<brokerVars, rows, submit, due, workerVars, delivered, comp>>

-----------------------------------------------------------------------------
(* Worker: fetchLoop and processTask.                                      *)

Goto(c, pc) == slot' = [slot EXCEPT ![c].pc = pc]
Leave(c) == slot' = [slot EXCEPT ![c] = IdleSlot]
notWorker == <<rows, apiVars, signalVars, comp>>

\* A free slot gets a task from Dequeue; the worker's fetchLoop calls it for one slot at a time.
Fetch(c) ==
  /\ slot[c] = IdleSlot
  /\ \A d \in Clients : WorkerOf[d] = WorkerOf[c] => slot[d].pc # "extend"
  /\ Dequeue(c)
  /\ slot' = [slot EXCEPT ![c] =
       [pc |-> IF pipe'[c] = NoPipe THEN "check1" ELSE "extend", id |-> held'[c].id]]
  /\ UNCHANGED <<notWorker, dead, cancels, budget>>

\* The second half of Dequeue; an error of it frees the slot.
FetchExtend(c) ==
  /\ slot[c].pc = "extend"
  /\ \/ ExtendLease(c) /\ Goto(c, "check1") /\ NoFault
     \/ Vanish(c) /\ Leave(c) /\ Fault
  /\ UNCHANGED <<notWorker, dead, cancels>>

(* Get of the row.  A missing row or an error of Get counts as "not        *)
(* terminal".                                                              *)
SeesTerminal(c) == GotTerminal(slot[c].id) /\ NoFault
SeesLive(c) == (~GotTerminal(slot[c].id) /\ NoFault) \/ Fault

\* Before trackCancel: a terminal task is acknowledged and dropped.
Check1(c) ==
  /\ slot[c].pc = "check1"
  /\ \/ SeesTerminal(c) /\ Ack(c) /\ Goto(c, "acking")
     \/ SeesLive(c) /\ Goto(c, "track") /\ UNCHANGED brokerVars
  /\ UNCHANGED <<notWorker, dead, cancels>>

\* A fresh taskCtx; the map holds one CancelFunc per task id.
Track(c) ==
  /\ slot[c].pc = "track"
  /\ dead' = [dead EXCEPT ![c] = FALSE]
  /\ cancels' = [cancels EXCEPT ![WorkerOf[c]][slot[c].id] = c]
  /\ Goto(c, "check2")
  /\ UNCHANGED <<brokerVars, notWorker, budget>>

\* Mutant: no second check.
Check2Skipped(c) ==
  /\ slot[c].pc = "check2"
  /\ Goto(c, IF slot[c].id \in HasHandler[WorkerOf[c]] THEN "start" ELSE "failing")
  /\ UNCHANGED <<brokerVars, notWorker, dead, cancels, budget>>

\* After trackCancel, then the lookup of the handler.
Check2(c) ==
  /\ slot[c].pc = "check2"
  /\ \/ SeesTerminal(c) /\ Ack(c) /\ Goto(c, "finishing")
     \/ /\ SeesLive(c) /\ UNCHANGED brokerVars
        /\ Goto(c, IF slot[c].id \in HasHandler[WorkerOf[c]] THEN "start" ELSE "failing")
  /\ UNCHANGED <<notWorker, dead, cancels>>

(* One Update of the struct m.  It succeeds, or it returns an error: no    *)
(* row has the expected version, or the call failed.                       *)
Succeeds(m, state) == UpdateOk(m, state, now) /\ NoFault
Errs(m, state) == (UpdateConflict(m) /\ NoFault) \/ (UpdateFails(m, state, now) /\ Fault)

\* State = Running; an error is only logged and the handler runs anyway.
Start(c) ==
  /\ slot[c].pc = "start"
  /\ Succeeds(held[c], "running") \/ Errs(held[c], "running")
  /\ held' = [held EXCEPT ![c] = Bumped(@)]
  /\ Goto(c, "handling")
  /\ UNCHANGED <<now, ready, delayed, inflight, lease, stats, pipe,
                 apiVars, dead, cancels, signalVars, comp>>

\* The handler returned a result: handleSuccess, which ignores an error of Update.
HandleSuccess(c) ==
  /\ slot[c].pc = "handling"
  /\ Succeeds(held[c], "completed") \/ Errs(held[c], "completed")
  /\ Ack(c)
  /\ Goto(c, "finishing")
  /\ UNCHANGED <<apiVars, dead, cancels, signalVars, comp>>

(* The handler returned an error or timed out.  If taskCtx was cancelled   *)
(* the row is read again, and a cancelled task is acknowledged.  A handler *)
(* panics on the goroutine of the Timeout middleware, where nobody         *)
(* recovers: that is a Crash.                                              *)
HandlerFails(c) ==
  /\ slot[c].pc = "handling"
  /\ \/ ~dead[c] /\ Goto(c, "failing") /\ UNCHANGED <<brokerVars, budget>>
     \/ /\ dead[c] /\ StateOf(slot[c].id) = "cancelled" /\ NoFault
        /\ Ack(c) /\ Goto(c, "finishing")
     \/ /\ dead[c]
        /\ (StateOf(slot[c].id) # "cancelled" /\ NoFault) \/ Fault
        /\ Goto(c, "failing") /\ UNCHANGED brokerVars
  /\ UNCHANGED <<notWorker, dead, cancels>>

\* Mutant: the attempts are counted from before this one.
HandleFailureOffByOne(c) ==
  LET m == [held[c] EXCEPT !.retry = @ + 1] IN
  /\ slot[c].pc = "failing"
  /\ \/ CanRetry(held[c]) /\ Succeeds(m, "retrying") /\ Nack(c, Bumped(m)) /\ Goto(c, "finishing")
     \/ CanRetry(held[c]) /\ Errs(m, "retrying") /\ Vanish(c) /\ Goto(c, "untrack")
     \/ /\ ~CanRetry(held[c]) /\ (Succeeds(m, "failed") \/ Errs(m, "failed"))
        /\ Ack(c) /\ Goto(c, "finishing")
  /\ UNCHANGED <<apiVars, dead, cancels, signalVars, comp>>

(* handleFailure.  With retries left: State = Retrying, and Nack only if   *)
(* that was written.  Without: State = Failed, and Ack in any case.        *)
HandleFailure(c) ==
  LET m == [held[c] EXCEPT !.retry = @ + 1] IN
  /\ slot[c].pc = "failing"
  /\ \/ CanRetry(m) /\ Succeeds(m, "retrying") /\ Nack(c, Bumped(m)) /\ Goto(c, "finishing")
     \/ CanRetry(m) /\ Errs(m, "retrying") /\ Vanish(c) /\ Goto(c, "untrack")
     \/ /\ ~CanRetry(m) /\ (Succeeds(m, "failed") \/ Errs(m, "failed"))
        /\ Ack(c) /\ Goto(c, "finishing")
  /\ UNCHANGED <<apiVars, dead, cancels, signalVars, comp>>

\* Redis executes the next command of the worker's Ack or Nack.
Pipelined(c) ==
  /\ slot[c].pc \in {"acking", "finishing"}
  /\ \/ (ExecHDel(c) \/ ExecZRem(c)) /\ UNCHANGED slot
     \/ ExecLast(c) /\ IF slot[c].pc = "acking" THEN Leave(c) ELSE Goto(c, "untrack")
  /\ UNCHANGED <<notWorker, dead, cancels, budget>>

\* The Ack or Nack fails half way (or before its first command) and is only logged.
PipelineFails(c) ==
  /\ slot[c].pc \in {"acking", "finishing"}
  /\ Vanish(c) /\ Fault
  /\ IF slot[c].pc = "acking" THEN Leave(c) ELSE Goto(c, "untrack")
  /\ UNCHANGED <<notWorker, dead, cancels>>

\* The deferred untrackCancel deletes whatever the map holds for the id.
Untrack(c) ==
  /\ slot[c].pc = "untrack"
  /\ cancels' = [cancels EXCEPT ![WorkerOf[c]][slot[c].id] = None]
  /\ dead' = [dead EXCEPT ![c] = FALSE]
  /\ Leave(c)
  /\ UNCHANGED <<brokerVars, notWorker, budget>>

\* cancelListenLoop takes a message and cancels the tracked context, if any.
CancelListen(w, t) ==
  /\ <<w, t>> \in signals
  /\ signals' = signals \ {<<w, t>>}
  /\ delivered' = delivered \cup {<<w, t>>}
  /\ dead' = [c \in Clients |-> dead[c] \/ cancels[w][t] = c]
  /\ UNCHANGED <<brokerVars, rows, apiVars, slot, cancels, comp, budget>>

\* The process dies with all its goroutines; a new one starts with nothing.
Crash(w) ==
  LET gone == {c \in Clients : WorkerOf[c] = w} IN
  /\ crashes < MaxCrashes /\ crashes' = crashes + 1
  /\ \E c \in gone : slot[c] # IdleSlot
  /\ held' = [c \in Clients |-> IF c \in gone THEN None ELSE held[c]]
  /\ pipe' = [c \in Clients |-> IF c \in gone THEN NoPipe ELSE pipe[c]]
  /\ slot' = [c \in Clients |-> IF c \in gone THEN IdleSlot ELSE slot[c]]
  /\ dead' = [c \in Clients |-> dead[c] /\ c \notin gone]
  /\ cancels' = [cancels EXCEPT ![w] = [t \in Tasks |-> None]]
  /\ signals' = {s \in signals : s[1] # w}
  /\ UNCHANGED <<now, ready, delayed, inflight, lease, stats, rows, apiVars,
                 delivered, comp, faults, lost>>

-----------------------------------------------------------------------------
(* Scheduler.                                                              *)

notScheduler == <<apiVars, workerVars, signalVars>>

Promote(q) == PromoteDelayed(q) /\ UNCHANGED <<rows, notScheduler, comp, budget>>

Reclaim(q) == ReclaimInflight(q) /\ UNCHANGED <<rows, notScheduler, comp, budget>>

\* time.Now().Add(-olderThan); from the Horizon on every row is old.
Threshold == IF now >= Horizon THEN now + 1 ELSE now - StaleAfter

\* CompensateOrphanedTasks reads a batch of rows ...
CompensateFind ==
  /\ comp = NoComp
  /\ \E B \in FindStale(Threshold, CompensateLimit) :
       B # {} /\ comp' = [NoComp EXCEPT !.todo = {Loaded(t) : t \in B}]
  /\ UNCHANGED <<brokerVars, rows, notScheduler, budget>>

\* ... enqueues them one by one as they were read; an error ends the batch ...
CompensateEnqueue ==
  /\ comp.touch = None
  /\ \E m \in comp.todo :
       \/ /\ EnqueueIfNotInflight(m) /\ NoFault
          /\ comp' = [todo |-> comp.todo \ {m},
                      touch |-> IF InInflight(m.id) THEN None ELSE m.id]
       \/ Fault /\ comp' = NoComp /\ UNCHANGED brokerVars
  /\ UNCHANGED <<rows, notScheduler>>

\* ... and refreshes updated_at after each that was enqueued.
CompensateTouch ==
  /\ comp.touch # None
  /\ \/ TouchUpdatedAt(comp.touch, now) /\ NoFault
     \/ Fault /\ UNCHANGED rows
  /\ comp' = [comp EXCEPT !.touch = None]
  /\ UNCHANGED <<brokerVars, notScheduler>>

Cleanup ==
  /\ DeleteTerminalOlderThan(now - Retention, CleanupLimit)
  /\ UNCHANGED <<brokerVars, notScheduler, comp, budget>>

Clock == Tick /\ UNCHANGED <<rows, notScheduler, comp, budget>>

-----------------------------------------------------------------------------
Api(t) ==
  \/ SubmitCreate(t) \/ SubmitEnqueue(t)
  \/ CancelGet(t) \/ CancelUpdate(t) \/ CancelRemove(t) \/ CancelPublish(t)

Process(c) ==
  \/ Fetch(c) \/ FetchExtend(c) \/ Check1(c) \/ Track(c) \/ Check2(c) \/ Start(c)
  \/ HandleSuccess(c) \/ HandlerFails(c) \/ HandleFailure(c)
  \/ Pipelined(c) \/ PipelineFails(c) \/ Untrack(c)

Scheduler ==
  \/ \E q \in Queues : Promote(q) \/ Reclaim(q)
  \/ CompensateFind \/ CompensateEnqueue \/ CompensateTouch
  \/ Cleanup

Next ==
  \/ \E t \in Tasks : Api(t)
  \/ \E c \in Clients : Process(c)
  \/ \E w \in Workers : Crash(w) \/ \E t \in Tasks : CancelListen(w, t)
  \/ Scheduler
  \/ Clock

Spec == Init /\ [][Next]_vars

(* Every loop of every process keeps running (tickers, goroutines, a Redis *)
(* that serves its clients): a step that stays possible is taken.  Nothing *)
(* obliges a user to submit or cancel, or a failure to happen.             *)
Fairness ==
  /\ \A t \in Tasks : /\ WF_vars(SubmitEnqueue(t)) /\ WF_vars(CancelUpdate(t))
                      /\ WF_vars(CancelRemove(t)) /\ WF_vars(CancelPublish(t))
  /\ \A c \in Clients : WF_vars(Process(c))
  /\ \A q \in Queues : WF_vars(Promote(q)) /\ WF_vars(Reclaim(q))
  /\ WF_vars(CompensateFind) /\ WF_vars(CompensateEnqueue) /\ WF_vars(CompensateTouch)
  /\ \A w \in Workers, t \in Tasks : WF_vars(CancelListen(w, t))
  /\ WF_vars(Clock)

FairSpec == Spec /\ Fairness

-----------------------------------------------------------------------------
(* Safety.                                                                 *)

TypeOK ==
  /\ BrokerTypeOK /\ StoreTypeOK
  /\ submit \in [Tasks -> {"new", "created", "done"}]
  /\ due \in [Tasks -> Nat]
  /\ request \in [Tasks -> [pc : {"none", "loaded", "remove", "publish", "done"}, version : Nat]]
  /\ slot \in [Clients -> [pc : PCs, id : Tasks \cup {None}]]
  /\ dead \in [Clients -> BOOLEAN]
  /\ cancels \in [Workers -> [Tasks -> Clients \cup {None}]]
  /\ signals \subseteq Workers \X Tasks
  /\ delivered \subseteq Workers \X Tasks
  /\ comp \in [todo : SUBSET Member, touch : Tasks \cup {None}]
  /\ crashes \in Nat /\ faults \in Nat /\ lost \in Nat

\* The tasks for whose type every worker has a handler.
Handled == {t \in Tasks : \A w \in Workers : t \in HasHandler[w]}

(* The state of a task that nobody cancels and every worker can handle     *)
(* goes through the transitions of the state table only, whatever copies,  *)
(* redeliveries, crashes and failed calls there are: the optimistic lock   *)
(* stops every stale writer.                                               *)
Regular == Handled \ Cancellable

Lifecycle == INSTANCE TaskLifecycle
  WITH Tasks <- Regular, state <- [t \in Regular |-> StateOf(t)]

LifecycleSpec == Lifecycle!Spec

(* data-models.md: a task in a terminal state does not change any more.    *)
TerminalFinal ==
  [][\A t \in Tasks : GotTerminal(t) => rows'[t] = None \/ rows'[t].state = rows[t].state]_vars

\* The count of t does not change, or by one with a step to retrying or failed.
CountsUp(t) ==
  rows[t] # None /\ rows'[t] # None /\ rows'[t].retry # rows[t].retry =>
    /\ rows'[t].retry = rows[t].retry + 1
    /\ rows'[t].state \in {"retrying", "failed"}

(* retry_count counts the failed attempts: it grows by one, together with  *)
(* a step to retrying or failed, and never otherwise changes.  A stale     *)
(* copy can neither put back an old count nor count an attempt twice.      *)
(* Every attempt raises the version twice, and so do the copies.           *)
RetryCounted == [][\A t \in Handled : CountsUp(t)]_vars

(* api-reference.md: retry_count is the number of retries.  A worker       *)
(* without a handler fails an attempt with one Update instead of two, and  *)
(* the struct of a late copy, raised by its failed Update to running, may  *)
(* then match a row with a higher count.                                   *)
RetryAlwaysCounted == [][\A t \in Tasks : CountsUp(t)]_vars

(* The second check of processTask closes the window between the first     *)
(* check and trackCancel: once the cancel message of a cancelled task has  *)
(* been handled by a worker, no handler of the task runs there with a live *)
(* context, as long as no call fails (a Get that fails skips the check)    *)
(* and no worker has two copies of the task at once, which share an entry  *)
(* of its map: the run has one slot per worker (with two: CancelMissed).   *)
CancelReachesHandler ==
  faults = 0 => \A c \in Clients :
    LET t == slot[c].id IN
    slot[c].pc \in {"start", "handling"} /\ <<WorkerOf[c], t>> \in delivered
      /\ StateOf(t) = "cancelled" => dead[c]

Executing(t) == {c \in Clients : slot[c].id = t /\ slot[c].pc \in {"start", "handling", "failing"}}

(* No task is executed twice at the same time.                             *)
SingleExecution == \A t \in Tasks : Cardinality({c \in Executing(t) : slot[c].pc = "handling"}) <= 1

(* A delayed task is not executed before the time asked for.               *)
NotEarly == \A t \in Tasks : Executing(t) # {} => now >= due[t]

(* A delay no longer than the threshold of the compensation loop is kept,  *)
(* whatever is redelivered, reclaimed, compensated or retried: by the time *)
(* the loop takes a pending row for orphaned, the task is due.             *)
ShortDelayKept ==
  \A t \in Tasks : Delay[t] <= StaleAfter /\ Executing(t) # {} => now >= due[t]

(* A worker that can still bring the task to an end, or back to the queue. *)
InWork(t) == \E c \in Clients :
  slot[c].id = t /\ slot[c].pc \in {"extend", "check1", "track", "check2", "start", "handling", "failing"}

(* In a queue, under a lease, in the hands of a worker, or about to be     *)
(* returned to the queue by Nack.                                          *)
OnRecord(t) ==
  \/ Tracked(t) \/ InWork(t)
  \/ \E c \in Clients : pipe[c].kind \in {"retryAt", "retryNow"} /\ pipe[c].task.id = t

(* CancelTask has taken the task out of the queue.                         *)
Withdrawn(t) == request[t].pc \in {"publish", "done"}

(* A task whose attempt has begun is never forgotten until its row is      *)
(* terminal.  The one exception is a cancellation that a worker overtook:  *)
(* handleFailure leaves the row retrying and Remove takes the copy.        *)
NeverForgotten ==
  \A t \in Tasks : StateOf(t) \in {"running", "retrying"} =>
    OnRecord(t) \/ (StateOf(t) = "retrying" /\ Withdrawn(t))

(* api-reference.md: the counter "failed" of a queue counts its failed     *)
(* tasks.  Once every worker is done, a task that ended in failed has been *)
(* counted (MaxStat > 0).                                                  *)
FailuresCounted ==
  \A t \in Tasks :
    StateOf(t) = "failed" /\ (\A c \in Clients : slot[c] = IdleSlot) => stats[QueueOf[t]]["failed"] > 0

-----------------------------------------------------------------------------
(* Liveness.                                                               *)

(* Every task that was stored is brought to a terminal state, even if the  *)
(* enqueue of SubmitTask failed.                                           *)
EventuallyTerminal ==
  \A t \in Tasks : (rows[t] # None) ~> (rows[t] = None \/ GotTerminal(t))
=============================================================================
