------------------------- MODULE CronTriggerProofs --------------------------
(***************************************************************************)
(* For any number of jobs, schedulers, clock values and failures: each     *)
(* slot of a cron job creates at most one task.                            *)
(*                                                                         *)
(* The argument: next_run_at only moves forward, because the new value is  *)
(* later than the claimant's clock, which has reached the old one.  So a   *)
(* slot that was claimed lies behind next_run_at for ever, and the         *)
(* compare-and-swap can succeed for it only once.                          *)
(***************************************************************************)
EXTENDS CronTrigger, TLAPS

Creating(s, j, e) == cur[s].pc = "create" /\ cur[s].job = j /\ cur[s].slot = e

\* next_run_at has left the slot behind (or the job is deleted).
Behind(j, e) == j \in born /\ (next[j] = None \/ next[j] > e)

(* A slot that was claimed is behind next_run_at, and is either being      *)
(* turned into a task by one scheduler or was turned into one.             *)
ClaimInv ==
  /\ \A j \in Jobs : next[j] # None => j \in born
  /\ \A j \in Jobs : \A e \in 0..MaxTime : fired[j][e] > 0 => Behind(j, e)
  /\ \A s \in Schedulers, j \in Jobs, e \in 0..MaxTime :
       Creating(s, j, e) => Behind(j, e) /\ fired[j][e] = 0
  /\ \A s, r \in Schedulers, j \in Jobs, e \in 0..MaxTime :
       Creating(s, j, e) /\ Creating(r, j, e) => s = r

Inv == Typed /\ SlotsDue /\ ClaimInv /\ AtMostOncePerSlot

(* The invariant holds initially.                                          *)
LEMMA InitInv == Init => Inv
  BY CronAssumption DEF Init, Inv, Typed, SlotsDue, ClaimInv, AtMostOncePerSlot, Creating,
     Behind, Times, Live, Iteration, NoJob

\* What NextJob does with the entry d of the scan.
TakesJob(s, d) ==
  /\ todo' = [todo EXCEPT ![s] = @ \ {d}]
  /\ cur' = [cur EXCEPT ![s] =
       IF NextAfter(d.job, clock[s]) = 0 THEN NoJob
       ELSE [pc |-> IF d.job \in Forbid THEN "check" ELSE "claim",
             job |-> d.job, slot |-> d.slot, new |-> NextAfter(d.job, clock[s])]]
  /\ UNCHANGED <<clock, next, born, live, fired, faults>>

(* A function that counts still counts after one more.                     *)
LEMMA CountUp ==
  ASSUME NEW S, NEW f \in [S -> Nat], NEW x \in S PROVE [f EXCEPT ![x] = @ + 1] \in [S -> Nat]
  OBVIOUS

(* ... and has counted one more.                                           *)
LEMMA CountsOne ==
  ASSUME NEW S, NEW f \in [S -> Nat], NEW x \in S
  PROVE  f[x] \in Nat /\ [f EXCEPT ![x] = @ + 1][x] = f[x] + 1
  OBVIOUS

(* NextJob takes one of the entries its scheduler scanned.                 *)
LEMMA NextJobPicks ==
  ASSUME NEW s \in Schedulers, NextJob(s) PROVE \E d \in todo[s] : TakesJob(s, d)
  BY DEF NextJob, TakesJob

(* Types are preserved by every step.                                      *)
LEMMA NextType == Inv /\ [Next]_cronVars => Typed'
<1> SUFFICES ASSUME Inv, [Next]_cronVars PROVE Typed'
  OBVIOUS
<1> USE CronAssumption DEF Typed, Times
<1>0. NoJob \in Iteration
  BY DEF NoJob, Iteration
<1>1. ASSUME NEW j \in Jobs, CreateCronJob(j) PROVE Typed'
  BY <1>1 DEF Inv, CreateCronJob
<1>2. ASSUME NEW j \in Jobs, DeleteCronJob(j) PROVE Typed'
  BY <1>2 DEF Inv, DeleteCronJob
<1>3. ASSUME NEW j \in Jobs, Work(j) PROVE Typed'
  <2>1. ASSUME NEW from \in Live, NEW to, Progress(j, from, to) PROVE Typed'
    <3>1. live[j] \in [Live -> Nat]
      BY DEF Inv
    <3>2. [x \in Live |-> IF x = from THEN live[j][x] - 1
             ELSE IF x = to THEN live[j][x] + 1 ELSE live[j][x]] \in [Live -> Nat]
      BY <2>1, <3>1 DEF Progress
    <3>3. live' \in [Jobs -> [Live -> Nat]]
      BY <2>1, <3>2 DEF Progress, Inv
    <3> QED
      BY <2>1, <3>3 DEF Progress, Inv
  <2> QED
    BY <1>3, <2>1 DEF Work, Live
<1>4. ASSUME NEW s \in Schedulers, FindDueCronJobs(s) PROVE Typed'
  <2>1. PICK B \in SUBSET {j \in Jobs : next[j] # None /\ next[j] <= clock[s]} :
          todo' = [todo EXCEPT ![s] = {[job |-> j, slot |-> next[j]] : j \in B}]
    BY <1>4 DEF FindDueCronJobs
  <2>2. \A j \in B : next[j] \in 0..MaxTime
    BY DEF Inv
  <2>3. {[job |-> j, slot |-> next[j]] : j \in B} \subseteq [job : Jobs, slot : 0..MaxTime]
    BY <2>2
  <2> QED
    BY <1>4, <2>1, <2>3 DEF FindDueCronJobs, Inv
<1>5. ASSUME NEW s \in Schedulers, NextJob(s) PROVE Typed'
  <2>1. PICK d \in todo[s] : TakesJob(s, d)
    BY <1>5, NextJobPicks
  <2>2. d.job \in Jobs /\ d.slot \in 0..MaxTime /\ clock[s] \in 0..MaxTime
    BY DEF Inv
  <2>3. NextAfter(d.job, clock[s]) \in Nat
    BY <2>2
  <2>4. cur' \in [Schedulers -> Iteration]
    <3>1. d.job \in Jobs /\ d.slot \in Nat
      BY <2>2
    <3>2. [pc |-> IF d.job \in Forbid THEN "check" ELSE "claim", job |-> d.job,
           slot |-> d.slot, new |-> NextAfter(d.job, clock[s])] \in Iteration
      BY <2>3, <3>1 DEF Iteration
    <3> QED
      BY <1>0, <2>1, <3>2 DEF TakesJob, Inv
  <2>5. todo' \in [Schedulers -> SUBSET [job : Jobs, slot : 0..MaxTime]]
    BY <2>1 DEF TakesJob, Inv
  <2> QED
    BY <2>1, <2>4, <2>5 DEF TakesJob, Inv
<1>6. ASSUME NEW s \in Schedulers, CheckRunning(s) PROVE Typed'
  <2>1. cur[s] \in Iteration
    BY DEF Inv
  <2>2. \A x \in {"skip", "claim"} : [cur[s] EXCEPT !.pc = x] \in Iteration
    BY <2>1 DEF Iteration
  <2>3. cur' \in [Schedulers -> Iteration]
    <3>1. \/ \E x \in {"skip", "claim"} : cur' = [cur EXCEPT ![s] = [cur[s] EXCEPT !.pc = x]]
          \/ cur' = [cur EXCEPT ![s] = NoJob]
      BY <1>6 DEF CheckRunning
    <3> QED
      BY <1>0, <2>2, <3>1 DEF Inv
  <2>4. faults' \in Nat
    BY <1>6 DEF CheckRunning, Fault, Inv
  <2> QED
    BY <1>6, <2>3, <2>4 DEF CheckRunning, Inv
<1>7. ASSUME NEW s \in Schedulers, ClaimCronJob(s) PROVE Typed'
  <2>1. cur[s] \in Iteration /\ cur[s].job \in Jobs /\ cur[s].new \in Nat
    BY <1>7 DEF Inv, SlotsDue, ClaimCronJob, Iteration
  <2>2. [cur[s] EXCEPT !.pc = "create"] \in Iteration
    BY <2>1 DEF Iteration
  <2>3. cur' \in [Schedulers -> Iteration]
    <3>1. \E x \in {[cur[s] EXCEPT !.pc = "create"], NoJob} : cur' = [cur EXCEPT ![s] = x]
      BY <1>7 DEF ClaimCronJob
    <3> QED
      BY <1>0, <2>2, <3>1 DEF Inv
  <2>4. next' \in [Jobs -> Times \cup {None}]
    BY <1>7, <2>1 DEF ClaimCronJob, Inv
  <2>5. faults' \in Nat
    BY <1>7 DEF ClaimCronJob, Fault, Inv
  <2> QED
    BY <1>7, <2>3, <2>4, <2>5 DEF ClaimCronJob, Inv
<1>8. ASSUME NEW s \in Schedulers, CreateTask(s) PROVE Typed'
  <2>1. cur[s].job \in Jobs /\ cur[s].slot \in 0..MaxTime
    BY <1>8 DEF Inv, SlotsDue, CreateTask
  <2>2. cur' \in [Schedulers -> Iteration]
    BY <1>0, <1>8 DEF CreateTask, Inv
  <2>3. live' \in [Jobs -> [Live -> Nat]]
    <3>1. live[cur[s].job] \in [Live -> Nat] /\ "pending" \in Live
      BY <2>1 DEF Inv, Live
    <3>2. [live[cur[s].job] EXCEPT !["pending"] = @ + 1] \in [Live -> Nat]
      BY <3>1
    <3>3. \/ live' = [live EXCEPT ![cur[s].job] = [live[cur[s].job] EXCEPT !["pending"] = @ + 1]]
          \/ live' = live
      BY <1>8 DEF CreateTask
    <3> QED
      BY <2>1, <3>2, <3>3 DEF Inv
  <2>4. fired' \in [Jobs -> [0..MaxTime -> Nat]]
    <3>1. fired[cur[s].job] \in [0..MaxTime -> Nat]
      BY <2>1 DEF Inv
    <3>2. [fired[cur[s].job] EXCEPT ![cur[s].slot] = @ + 1] \in [0..MaxTime -> Nat]
      BY <2>1, <3>1, CountUp
    <3>3. \/ fired' = [fired EXCEPT ![cur[s].job] = [fired[cur[s].job] EXCEPT ![cur[s].slot] = @ + 1]]
          \/ fired' = fired
      BY <1>8 DEF CreateTask
    <3> QED
      BY <2>1, <3>2, <3>3 DEF Inv
  <2>5. faults' \in Nat
    <3>1. faults' = faults \/ faults' = faults + 1
      BY <1>8 DEF CreateTask, Fault
    <3> QED
      BY <3>1 DEF Inv
  <2> QED
    BY <1>8, <2>2, <2>3, <2>4, <2>5 DEF CreateTask, Inv
<1>9. ASSUME NEW s \in Schedulers, Stop(s) PROVE Typed'
  <2>1. cur' \in [Schedulers -> Iteration] /\ faults' \in Nat
    BY <1>0, <1>9 DEF Inv, Stop, Fault
  <2>2. todo' \in [Schedulers -> SUBSET [job : Jobs, slot : 0..MaxTime]]
    BY <1>9 DEF Inv, Stop
  <2> QED
    BY <1>9, <2>1, <2>2 DEF Inv, Stop
<1>10. ASSUME NEW s \in Schedulers, Tick(s) PROVE Typed'
  BY <1>10 DEF Inv, Tick
<1>11. CASE UNCHANGED cronVars
  BY <1>11 DEF Inv, cronVars
<1> QED
  BY <1>1, <1>2, <1>3, <1>4, <1>5, <1>6, <1>7, <1>8, <1>9, <1>10, <1>11 DEF Next, Trigger

(* A scanned slot stays behind its scanner's clock, and the replacement    *)
(* ahead of it.                                                            *)
LEMMA NextScan == Inv /\ [Next]_cronVars => SlotsDue'
<1> SUFFICES ASSUME Inv, [Next]_cronVars PROVE SlotsDue'
  OBVIOUS
<1> USE CronAssumption DEF SlotsDue
<1>1. CASE UNCHANGED <<clock, todo, cur>>
  BY <1>1 DEF Inv
<1>2. ASSUME NEW s \in Schedulers, FindDueCronJobs(s) PROVE SlotsDue'
  <2>1. PICK B \in SUBSET {j \in Jobs : next[j] # None /\ next[j] <= clock[s]} :
          todo' = [todo EXCEPT ![s] = {[job |-> j, slot |-> next[j]] : j \in B}]
    BY <1>2 DEF FindDueCronJobs
  <2>2. \A d \in todo'[s] : d.slot <= clock[s]
    BY <2>1 DEF Inv, Typed
  <2>3. \A r \in Schedulers : r # s => todo'[r] = todo[r]
    BY <2>1 DEF Inv, Typed
  <2> QED
    BY <1>2, <2>2, <2>3 DEF FindDueCronJobs, Inv
<1>3. ASSUME NEW s \in Schedulers, NextJob(s) PROVE SlotsDue'
  <2>1. PICK d \in todo[s] : TakesJob(s, d)
    BY <1>3, NextJobPicks
  <2>2. d.job \in Jobs /\ d.slot \in 0..MaxTime /\ clock[s] \in 0..MaxTime /\ d.slot <= clock[s]
    BY DEF Inv, Typed
  <2>3. NextAfter(d.job, clock[s]) # 0 => NextAfter(d.job, clock[s]) > d.slot
    BY <2>2
  <2>4. cur'[s].pc # "none" =>
          cur'[s].job \in Jobs /\ cur'[s].slot \in 0..MaxTime /\ cur'[s].new > cur'[s].slot
    BY <2>1, <2>2, <2>3 DEF TakesJob, Inv, Typed, NoJob
  <2>5. \A r \in Schedulers : todo'[r] \subseteq todo[r] /\ (r # s => cur'[r] = cur[r])
    BY <2>1 DEF TakesJob, Inv, Typed
  <2> QED
    BY <2>1, <2>4, <2>5 DEF TakesJob, Inv
<1>4. ASSUME NEW s \in Schedulers, CheckRunning(s) \/ ClaimCronJob(s) \/ CreateTask(s) \/ Stop(s)
      PROVE SlotsDue'
  <2>1. /\ cur[s].pc = "none" => cur' = [cur EXCEPT ![s] = NoJob]
        /\ \/ cur' = [cur EXCEPT ![s] = NoJob]
           \/ \E x \in {"skip", "claim", "create"} : cur' = [cur EXCEPT ![s] = [cur[s] EXCEPT !.pc = x]]
    BY <1>4 DEF CheckRunning, ClaimCronJob, CreateTask, Stop
  <2>2. clock' = clock /\ \A r \in Schedulers : todo'[r] \subseteq todo[r]
    BY <1>4 DEF CheckRunning, ClaimCronJob, CreateTask, Stop, Inv, Typed
  <2>3. cur[s] \in Iteration
    BY DEF Inv, Typed
  <2>4. cur'[s].pc # "none" => /\ cur[s].pc # "none" /\ cur'[s].job = cur[s].job
                               /\ cur'[s].slot = cur[s].slot /\ cur'[s].new = cur[s].new
    BY <2>1, <2>3 DEF Inv, Typed, NoJob, Iteration
  <2>5. \A r \in Schedulers : r # s => cur'[r] = cur[r]
    BY <2>1 DEF Inv, Typed
  <2> QED
    BY <2>2, <2>4, <2>5 DEF Inv
<1>5. ASSUME NEW s \in Schedulers, Tick(s) PROVE SlotsDue'
  <2>1. \A r \in Schedulers : clock[r] \in Nat /\ clock'[r] \in Nat /\ clock[r] <= clock'[r]
    BY <1>5 DEF Tick, Inv, Typed
  <2>2. \A r \in Schedulers : \A d \in todo[r] : d.slot \in Nat
    BY DEF Inv, Typed
  <2> QED
    BY <1>5, <2>1, <2>2 DEF Tick, Inv
<1> QED
  BY <1>1, <1>2, <1>3, <1>4, <1>5
  DEF Next, Trigger, CreateCronJob, DeleteCronJob, Work, Progress, cronVars

StaysBehind ==
  /\ \A j \in Jobs, e \in 0..MaxTime : Behind(j, e) => Behind(j, e)'
  /\ \A j \in Jobs : next'[j] # None => j \in born'

(* next_run_at never returns to a slot it has left: a claim moves it past  *)
(* the slot it replaces, and an id is created only once.                   *)
LEMMA BehindStable ==
  ASSUME Inv, [Next]_cronVars PROVE StaysBehind
<1> USE CronAssumption DEF Behind, StaysBehind
<1>0. /\ next \in [Jobs -> Nat \cup {None}] /\ born \subseteq Jobs
      /\ \A j \in Jobs : next[j] # None => j \in born
  BY DEF Inv, Typed, Times, ClaimInv
<1>1. CASE UNCHANGED <<next, born>>
  BY <1>0, <1>1
<1>2. ASSUME NEW j \in Jobs, CreateCronJob(j) PROVE StaysBehind
  BY <1>0, <1>2 DEF CreateCronJob
<1>3. ASSUME NEW j \in Jobs, DeleteCronJob(j) PROVE StaysBehind
  BY <1>0, <1>3 DEF DeleteCronJob
<1>4. ASSUME NEW s \in Schedulers, ClaimCronJob(s) PROVE StaysBehind
  <2>1. /\ cur[s].job \in Jobs /\ cur[s].slot \in 0..MaxTime
        /\ cur[s].new \in Nat /\ cur[s].new > cur[s].slot
    BY <1>4 DEF ClaimCronJob, Inv, SlotsDue, Typed, Iteration, Times
  <2>2. born' = born
    BY <1>4 DEF ClaimCronJob
  <2>3. \/ next' = next
        \/ next[cur[s].job] = cur[s].slot /\ next' = [next EXCEPT ![cur[s].job] = cur[s].new]
    BY <1>4 DEF ClaimCronJob, Claimed
  <2>4. CASE next[cur[s].job] = cur[s].slot /\ next' = [next EXCEPT ![cur[s].job] = cur[s].new]
    <3>1. \A j \in Jobs : j # cur[s].job => next'[j] = next[j]
      BY <1>0, <2>1, <2>4
    <3>2. next'[cur[s].job] = cur[s].new /\ next[cur[s].job] = cur[s].slot /\ cur[s].slot # None
      BY <1>0, <2>1, <2>4
    <3> QED
      BY <1>0, <2>1, <2>2, <3>1, <3>2
  <2> QED
    BY <1>1, <2>2, <2>3, <2>4
<1> QED
  BY <1>1, <1>2, <1>3, <1>4
  DEF Next, Trigger, Work, Progress, FindDueCronJobs, NextJob, CheckRunning, CreateTask,
      Stop, Tick, cronVars

(* A step that neither fires nor starts to create keeps the claims.        *)
LEMMA ClaimsKept ==
  ASSUME Inv, [Next]_cronVars, fired' = fired,
         \A s \in Schedulers, j \in Jobs, e \in 0..MaxTime : Creating(s, j, e)' => Creating(s, j, e)
  PROVE  ClaimInv' /\ AtMostOncePerSlot'
<1>1. StaysBehind
  BY BehindStable
<1>2. ClaimInv /\ AtMostOncePerSlot
  BY DEF Inv
<1> QED
  BY <1>1, <1>2 DEF StaysBehind, ClaimInv, AtMostOncePerSlot

(* A slot is claimed once and creates one task.                            *)
LEMMA NextClaim == Inv /\ [Next]_cronVars => ClaimInv' /\ AtMostOncePerSlot'
<1> SUFFICES ASSUME Inv, [Next]_cronVars PROVE ClaimInv' /\ AtMostOncePerSlot'
  OBVIOUS
<1>0. StaysBehind
  BY BehindStable
<1>1. CASE UNCHANGED <<fired, cur>>
  BY <1>1, ClaimsKept DEF Creating
<1>2. ASSUME NEW s \in Schedulers, NextJob(s) \/ CheckRunning(s) \/ Stop(s)
      PROVE ClaimInv' /\ AtMostOncePerSlot'
  <2>1. fired' = fired /\ cur'[s].pc # "create" /\ \A r \in Schedulers : r # s => cur'[r] = cur[r]
    <3>1. CASE NextJob(s)
      <4>1. PICK d \in todo[s] : TakesJob(s, d)
        BY <3>1, NextJobPicks
      <4> QED
        BY <4>1 DEF TakesJob, NoJob, Inv, Typed
    <3>2. CASE CheckRunning(s)
      <4>1. cur[s] \in Iteration
        BY DEF Inv, Typed
      <4>2. \/ \E x \in {"skip", "claim"} : cur' = [cur EXCEPT ![s] = [cur[s] EXCEPT !.pc = x]]
            \/ cur' = [cur EXCEPT ![s] = NoJob]
        BY <3>2 DEF CheckRunning
      <4> QED
        BY <3>2, <4>1, <4>2 DEF CheckRunning, NoJob, Inv, Typed, Iteration
    <3>3. CASE Stop(s)
      BY <3>3 DEF Stop, NoJob, Inv, Typed
    <3> QED
      BY <1>2, <3>1, <3>2, <3>3
  <2>2. \A r \in Schedulers, j \in Jobs, e \in 0..MaxTime : Creating(r, j, e)' => Creating(r, j, e)
    BY <2>1 DEF Creating
  <2> QED
    BY <2>1, <2>2, ClaimsKept
<1>3. ASSUME NEW s \in Schedulers, ClaimCronJob(s) PROVE ClaimInv' /\ AtMostOncePerSlot'
  <2>1. fired' = fired /\ cur[s] \in Iteration /\ cur[s].pc # "create"
    BY <1>3 DEF ClaimCronJob, Inv, Typed
  <2>2. CASE cur' = [cur EXCEPT ![s] = NoJob]
    <3>1. cur'[s].pc # "create" /\ \A r \in Schedulers : r # s => cur'[r] = cur[r]
      BY <2>2 DEF NoJob, Inv, Typed
    <3>2. \A r \in Schedulers, j \in Jobs, e \in 0..MaxTime : Creating(r, j, e)' => Creating(r, j, e)
      BY <3>1 DEF Creating
    <3> QED
      BY <2>1, <3>2, ClaimsKept
  <2>3. CASE /\ Claimed(s) /\ next' = [next EXCEPT ![cur[s].job] = cur[s].new]
             /\ cur' = [cur EXCEPT ![s] = [cur[s] EXCEPT !.pc = "create"]]
    <3>1. PICK k \in Jobs, n \in 0..MaxTime :
            cur[s].job = k /\ cur[s].slot = n /\ cur[s].new \in Nat /\ cur[s].new > n
      BY <1>3 DEF ClaimCronJob, Inv, SlotsDue, Typed, Iteration, Times
    <3>2. \A r \in Schedulers : r # s => cur'[r] = cur[r]
      BY <2>3 DEF Inv, Typed
    <3>3. cur'[s].job = k /\ cur'[s].slot = n
      BY <2>1, <2>3, <3>1 DEF Inv, Typed, Iteration
    <3>4. next[k] = n /\ next'[k] = cur[s].new /\ n # None
      BY <2>3, <3>1, CronAssumption DEF Claimed, Inv, Typed
    <3>5. ~Behind(k, n) /\ Behind(k, n)'
      <4>1. k \in born' /\ ~(n > n) /\ cur[s].new # None
        BY <1>0, <3>1, <3>4, CronAssumption DEF StaysBehind
      <4> QED
        BY <3>1, <3>4, <4>1 DEF Behind
    <3>6. fired[k][n] = 0
      <4>1. fired[k] \in [0..MaxTime -> Nat]
        BY DEF Inv, Typed
      <4>2. ~(fired[k][n] > 0)
        BY <3>5 DEF Inv, ClaimInv
      <4>3. fired[k][n] \in Nat
        BY <4>1, CountsOne
      <4> QED
        BY <4>2, <4>3
    <3>7. \A r \in Schedulers : ~Creating(r, k, n)
      BY <3>1, <3>5 DEF Inv, ClaimInv
    <3>8. \A r \in Schedulers, j \in Jobs, e \in 0..MaxTime :
            Creating(r, j, e)' => Creating(r, j, e) \/ (r = s /\ j = k /\ e = n)
      BY <3>2, <3>3 DEF Creating
    <3>9. ClaimInv /\ AtMostOncePerSlot
      BY DEF Inv
    <3> QED
      BY <1>0, <2>1, <3>5, <3>6, <3>7, <3>8, <3>9 DEF StaysBehind, ClaimInv, AtMostOncePerSlot
  <2> QED
    BY <1>3, <2>2, <2>3 DEF ClaimCronJob
<1>4. ASSUME NEW s \in Schedulers, CreateTask(s) PROVE ClaimInv' /\ AtMostOncePerSlot'
  <2>1. PICK k \in Jobs, n \in 0..MaxTime : cur[s].job = k /\ cur[s].slot = n /\ Creating(s, k, n)
    BY <1>4 DEF CreateTask, Inv, SlotsDue, Creating
  <2>2. cur'[s].pc # "create" /\ \A r \in Schedulers : r # s => cur'[r] = cur[r]
    BY <1>4 DEF CreateTask, NoJob, Inv, Typed
  <2>3. \A r \in Schedulers, j \in Jobs, e \in 0..MaxTime :
          Creating(r, j, e)' => Creating(r, j, e) /\ r # s
    BY <2>2 DEF Creating
  <2>4. CASE fired' = fired
    BY <2>3, <2>4, ClaimsKept
  <2>5. CASE fired' = [fired EXCEPT ![k] = [fired[k] EXCEPT ![n] = @ + 1]]
    <3>1. fired[k] \in [0..MaxTime -> Nat] /\ fired[k][n] = 0 /\ Behind(k, n)
      BY <2>1 DEF Inv, Typed, ClaimInv
    <3>2. fired'[k][n] = 1
      <4>1. fired'[k] = [fired[k] EXCEPT ![n] = @ + 1]
        BY <2>5 DEF Inv, Typed
      <4>2. fired'[k][n] = fired[k][n] + 1
        BY <3>1, <4>1, CountsOne
      <4> QED
        BY <3>1, <4>2
    <3>3. \A j \in Jobs, e \in 0..MaxTime : ~(j = k /\ e = n) => fired'[j][e] = fired[j][e]
      BY <2>1, <2>5, <3>1 DEF Inv, Typed
    <3>4. \A r \in Schedulers : ~Creating(r, k, n)'
      BY <2>1, <2>3 DEF Inv, ClaimInv
    <3> QED
      BY <1>0, <2>1, <2>3, <3>1, <3>2, <3>3, <3>4 DEF StaysBehind, Inv, ClaimInv, AtMostOncePerSlot
  <2> QED
    BY <1>4, <2>1, <2>4, <2>5 DEF CreateTask
<1> QED
  BY <1>1, <1>2, <1>3, <1>4
  DEF Next, Trigger, CreateCronJob, DeleteCronJob, Work, Progress, FindDueCronJobs, Tick, cronVars

(* Types, and every scheduled time of a job creates at most one task, for  *)
(* any number of schedulers with any clocks and any failures: what the     *)
(* compare-and-swap of ClaimCronJob is for.                                *)
THEOREM CronSafe == Spec => [](TypeOK /\ AtMostOncePerSlot)
<1>1. Init => Inv
  BY InitInv
<1>2. Inv /\ [Next]_cronVars => Inv'
  BY NextType, NextScan, NextClaim DEF Inv
<1>3. Inv => TypeOK /\ AtMostOncePerSlot
  BY DEF Inv, TypeOK
<1> QED
  BY <1>1, <1>2, <1>3, PTL DEF Spec

(* Whatever scans, triggers and failed calls do, a scheduler only works on *)
(* slots that were due by its clock, and only moves next_run_at forward.   *)
THEOREM CronTypes == Spec => []TypeOK
  BY CronSafe, PTL
=============================================================================
