---------------------------- MODULE CronTrigger -----------------------------
(***************************************************************************)
(* TriggerDueCronJobs (internal/scheduler/domain/service/scheduler.go) run *)
(* by several scheduler instances at once: the leader, and a deposed       *)
(* leader that has not noticed yet.  Jobs live in MySQL                    *)
(* (cronjob_repository.go); ClaimCronJob is a compare-and-swap on          *)
(* next_run_at.  Every instance reads its own clock, so clocks may differ. *)
(* A "slot" of a job is a value of its next_run_at.                        *)
(*                                                                         *)
(* A triggered task is followed as far as HasRunningTasks looks at it: it  *)
(* is pending, running or retrying, or it is done and forgotten.           *)
(***************************************************************************)
EXTENDS Naturals, FiniteSets

CONSTANTS
  Jobs,           \* cron job ids
  Schedulers,     \* scheduler instances that believe they lead
  Forbid,         \* the jobs whose ConcurrencyPolicy is Forbid
  KindOf,         \* job -> its Type and Namespace
  NextAfter(_,_), \* NextRunTime: job, time -> first scheduled time after it; 0 for a bad expression
  Limit,          \* jobs per scan
  MaxTime,        \* bound on the clocks
  MaxFaults,      \* bound on failed calls and crashes
  MaxLive,        \* bound on unfinished tasks of one job
  None

ASSUME CronAssumption ==
  /\ Forbid \subseteq Jobs
  /\ None \notin Jobs /\ None \notin Nat
  /\ Limit \in Nat \ {0} /\ MaxTime \in Nat /\ MaxFaults \in Nat /\ MaxLive \in Nat
  /\ \A j \in Jobs : \A n \in 0..MaxTime :
       NextAfter(j, n) \in Nat /\ (NextAfter(j, n) = 0 \/ NextAfter(j, n) > n)

VARIABLES
  clock,   \* scheduler -> time.Now() there
  next,    \* job -> next_run_at, or None without a row
  born,    \* the jobs created so far: an id is never used again
  live,    \* job -> [state -> number of its unfinished tasks in that state]
  fired,   \* job -> the slots a task was created for, with how often (history)
  todo,    \* scheduler -> the jobs FindDueCronJobs returned, not yet handled
  cur,     \* scheduler -> the job of the current iteration
  faults

cronVars == <<clock, next, born, live, fired, todo, cur, faults>>

Times == Nat
Live == {"pending", "running", "retrying"}

(* The current iteration: the job, the slot it expects, the next time      *)
(* computed for it.                                                        *)
NoJob == [pc |-> "none", job |-> None, slot |-> 0, new |-> 0]
Iteration == [pc : {"none", "check", "claim", "skip", "create"},
              job : Jobs \cup {None}, slot : Times, new : Times]

Init ==
  /\ clock = [s \in Schedulers |-> 0]
  /\ next = [j \in Jobs |-> None]
  /\ born = {}
  /\ live = [j \in Jobs |-> [x \in Live |-> 0]]
  /\ fired = [j \in Jobs |-> [e \in 0..MaxTime |-> 0]]
  /\ todo = [s \in Schedulers |-> {}]
  /\ cur = [s \in Schedulers |-> NoJob]
  /\ faults = 0

Fault == faults < MaxFaults /\ faults' = faults + 1

\* The API handler parses the expression with its own clock, then CreateCronJob.
CreateCronJob(j) ==
  /\ j \notin born /\ born' = born \cup {j}
  /\ \E n \in 0..MaxTime : NextAfter(j, n) # 0 /\ next' = [next EXCEPT ![j] = NextAfter(j, n)]
  /\ UNCHANGED <<clock, live, fired, todo, cur, faults>>

DeleteCronJob(j) ==
  /\ next[j] # None
  /\ next' = [next EXCEPT ![j] = None]
  /\ UNCHANGED <<clock, born, live, fired, todo, cur, faults>>

\* Mutant: WHERE enabled AND next_run_at IS NOT NULL, without <= now.
FindAllCronJobs(s) ==
  LET due == {j \in Jobs : next[j] # None} IN
  /\ todo[s] = {} /\ cur[s] = NoJob
  /\ \E B \in SUBSET due :
       /\ B # {}
       /\ Cardinality(B) = Limit \/ (B = due /\ Cardinality(B) < Limit)
       /\ \A j \in B, k \in due \ B : next[j] <= next[k]
       /\ todo' = [todo EXCEPT ![s] = {[job |-> j, slot |-> next[j]] : j \in B}]
  /\ UNCHANGED <<clock, next, born, live, fired, cur, faults>>

\* FindDueCronJobs: the jobs with next_run_at <= now, the earliest first.
FindDueCronJobs(s) ==
  LET due == {j \in Jobs : next[j] # None /\ next[j] <= clock[s]} IN
  /\ todo[s] = {} /\ cur[s] = NoJob
  /\ \E B \in SUBSET due :
       /\ B # {}
       /\ Cardinality(B) = Limit \/ (B = due /\ Cardinality(B) < Limit)
       /\ \A j \in B, k \in due \ B : next[j] <= next[k]
       /\ todo' = [todo EXCEPT ![s] = {[job |-> j, slot |-> next[j]] : j \in B}]
  /\ UNCHANGED <<clock, next, born, live, fired, cur, faults>>

(* The head of the loop: the next time is computed from the clock as it is *)
(* now; a job whose expression does not parse is skipped.                  *)
NextJob(s) ==
  \E d \in todo[s] :
    LET n == NextAfter(d.job, clock[s]) IN
    /\ cur[s] = NoJob
    /\ todo' = [todo EXCEPT ![s] = @ \ {d}]
    /\ cur' = [cur EXCEPT ![s] =
         IF n = 0 THEN NoJob
         ELSE [pc |-> IF d.job \in Forbid THEN "check" ELSE "claim",
               job |-> d.job, slot |-> d.slot, new |-> n]]
    /\ UNCHANGED <<clock, next, born, live, fired, faults>>

\* HasRunningTasks: tasks of the same type and namespace in state Running.
HasRunningTasks(j) == \E k \in Jobs : KindOf[k] = KindOf[j] /\ live[k]["running"] > 0

\* Mutant: a forbidden overlap leaves next_run_at alone.
CheckRunningStays(s) ==
  /\ cur[s].pc = "check"
  /\ cur' = [cur EXCEPT ![s] = IF HasRunningTasks(@.job) THEN NoJob ELSE [@ EXCEPT !.pc = "claim"]]
  /\ UNCHANGED <<clock, next, born, live, fired, todo, faults>>

CheckRunning(s) ==
  /\ cur[s].pc = "check"
  /\ \/ /\ cur' = [cur EXCEPT ![s].pc = IF HasRunningTasks(cur[s].job) THEN "skip" ELSE "claim"]
        /\ UNCHANGED faults
     \/ Fault /\ cur' = [cur EXCEPT ![s] = NoJob]
  /\ UNCHANGED <<clock, next, born, live, fired, todo>>

\* Mutant: WHERE id = ? alone.
ClaimedAnyway(s) == next[cur[s].job] # None

\* UPDATE ... WHERE id = ? AND next_run_at = expected.
Claimed(s) == next[cur[s].job] = cur[s].slot

(* The compare-and-swap.  Only the winner goes on to create the task; a    *)
(* forbidden overlap just moves next_run_at; after an error (the statement *)
(* may have run) the iteration is over.                                    *)
ClaimCronJob(s) ==
  /\ cur[s].pc \in {"claim", "skip"}
  /\ \/ /\ Claimed(s) /\ next' = [next EXCEPT ![cur[s].job] = cur[s].new]
        /\ \/ UNCHANGED faults /\ cur' = [cur EXCEPT ![s] =
                IF cur[s].pc = "claim" THEN [@ EXCEPT !.pc = "create"] ELSE NoJob]
           \/ Fault /\ cur' = [cur EXCEPT ![s] = NoJob]
     \/ /\ UNCHANGED next /\ cur' = [cur EXCEPT ![s] = NoJob]
        /\ (~Claimed(s) /\ UNCHANGED faults) \/ Fault
  /\ UNCHANGED <<clock, born, live, fired, todo>>

(* Create, then Enqueue, whose failure the compensation loop repairs.  If  *)
(* Create fails this run of the job is missed.                             *)
CreateTask(s) ==
  LET j == cur[s].job IN
  /\ cur[s].pc = "create"
  /\ \/ /\ live[j]["pending"] < MaxLive
        /\ live' = [live EXCEPT ![j]["pending"] = @ + 1]
        /\ fired' = [fired EXCEPT ![j][cur[s].slot] = @ + 1]
        /\ UNCHANGED faults
     \/ Fault /\ UNCHANGED <<live, fired>>
  /\ cur' = [cur EXCEPT ![s] = NoJob]
  /\ UNCHANGED <<clock, next, born, todo>>

\* The instance dies, or loses its leadership and its context.
Stop(s) ==
  /\ todo[s] # {} \/ cur[s] # NoJob
  /\ Fault
  /\ todo' = [todo EXCEPT ![s] = {}]
  /\ cur' = [cur EXCEPT ![s] = NoJob]
  /\ UNCHANGED <<clock, next, born, live, fired>>

\* A worker moves a task on; "done" is not kept.
Progress(j, from, to) ==
  /\ live[j][from] > 0
  /\ live' = [live EXCEPT ![j] = [x \in Live |->
       IF x = from THEN @[x] - 1 ELSE IF x = to THEN @[x] + 1 ELSE @[x]]]
  /\ UNCHANGED <<clock, next, born, fired, todo, cur, faults>>

Work(j) ==
  \/ Progress(j, "pending", "running")
  \/ Progress(j, "running", "retrying")
  \/ Progress(j, "retrying", "running")
  \/ Progress(j, "running", "done")

Tick(s) ==
  /\ clock[s] < MaxTime
  /\ clock' = [clock EXCEPT ![s] = @ + 1]
  /\ UNCHANGED <<next, born, live, fired, todo, cur, faults>>

Trigger(s) == FindDueCronJobs(s) \/ NextJob(s) \/ CheckRunning(s) \/ ClaimCronJob(s) \/ CreateTask(s)

Next ==
  \/ \E j \in Jobs : CreateCronJob(j) \/ DeleteCronJob(j) \/ Work(j)
  \/ \E s \in Schedulers : Trigger(s) \/ Stop(s) \/ Tick(s)

Spec == Init /\ [][Next]_cronVars

Fairness ==
  /\ \A s \in Schedulers : WF_cronVars(Trigger(s)) /\ WF_cronVars(Tick(s))
  /\ \A j \in Jobs : WF_cronVars(Work(j))

FairSpec == Spec /\ Fairness

-----------------------------------------------------------------------------
Typed ==
  /\ clock \in [Schedulers -> 0..MaxTime]
  /\ next \in [Jobs -> Times \cup {None}]
  /\ born \subseteq Jobs
  /\ live \in [Jobs -> [Live -> Nat]]
  /\ fired \in [Jobs -> [0..MaxTime -> Nat]]
  /\ todo \in [Schedulers -> SUBSET [job : Jobs, slot : 0..MaxTime]]
  /\ cur \in [Schedulers -> Iteration]
  /\ faults \in Nat

(* A scanned slot is not in the future of its scanner, and the time that   *)
(* will replace it is later.                                               *)
SlotsDue ==
  /\ \A s \in Schedulers : \A d \in todo[s] : d.slot <= clock[s]
  /\ \A s \in Schedulers : cur[s].pc # "none" =>
       /\ cur[s].job \in Jobs /\ cur[s].slot \in 0..MaxTime
       /\ cur[s].new > cur[s].slot

(* Types; and TriggerDueCronJobs works on due slots only, and would move   *)
(* next_run_at forward, however old its scan is.                           *)
TypeOK == Typed /\ SlotsDue

(* Each scheduled time of a job creates at most one task, however many     *)
(* schedulers scan at the same time, whatever their clocks say, and        *)
(* whichever calls fail.                                                   *)
AtMostOncePerSlot == \A j \in Jobs : \A e \in 0..MaxTime : fired[j][e] <= 1

Unfinished(j) == live[j]["pending"] + live[j]["running"] + live[j]["retrying"]

(* A job with policy Forbid is not triggered while its previous run has    *)
(* not ended.                                                              *)
NoOverlap == \A j \in Forbid : Unfinished(j) <= 1

(* A due job does not stay due: some scheduler fires or skips the slot.    *)
DueIsHandled ==
  \A j \in Jobs : \A e \in 0..MaxTime :
    (next[j] = e /\ \E s \in Schedulers : clock[s] >= e) ~> (next[j] # e)
=============================================================================
