----------------------------- MODULE Membership -----------------------------
(***************************************************************************)
(* Which workers the scheduler knows.  Workers register in etcd under a    *)
(* lease and beat (etcd/worker_registry.go, heartbeatLoop of               *)
(* worker_app_service.go); the leader reads the registry once and then     *)
(* follows a watch through a bounded channel that drops events when it is  *)
(* full (WatchWorkers), and forgets workers whose last heartbeat is old    *)
(* (scheduler.go).  The promote and reclaim loops only visit the queues of *)
(* the workers known this way (Queues).                                    *)
(*                                                                         *)
(* Time is the age of heartbeats, in heartbeat intervals.  The clock waits *)
(* for what takes milliseconds: an interval ends only when every running   *)
(* worker has beaten and the channel is drained.                           *)
(***************************************************************************)
EXTENDS Naturals, Sequences

CONSTANTS
  Workers,       \* worker ids; a restarted worker may keep its configured id
  QueuesOf,      \* worker -> cfg.Queues
  DefaultQueue,
  StaleAfter,    \* StaleWorkerThreshold, in heartbeat intervals
  ChanCap,       \* capacity of the channel WatchWorkers returns
  MaxChanges,    \* bound on starts, stops, crashes, lost leases, failed calls and depositions
  None

ASSUME MembershipAssumption ==
  /\ StaleAfter \in Nat \ {0} /\ ChanCap \in Nat \ {0} /\ MaxChanges \in Nat
  /\ None \notin Nat

VARIABLES
  proc,     \* worker -> its process: down, granted, up or leaving
  lease,    \* worker -> the lease in its leases map: none, kept or lost in etcd
  orphan,   \* worker -> does etcd still have a lease that nobody renews?
  reg,      \* worker -> age of LastHeartbeat in its etcd key, None without a key
  owner,    \* worker -> the lease the key hangs on: none, current or orphan
  pending,  \* worker -> a heartbeat Put on its way, with the lease it carries
  beat,     \* the workers that have beaten in this interval
  watch,    \* the leader: off, synced, on, or lost when the watch has ended
  events,   \* the channel of WatchWorkers
  view,     \* SchedulerService.workers: worker -> age of LastHeartbeat, or None
  changes

workerVars == <<proc, lease, orphan, reg, owner, pending, beat>>
leaderVars == <<watch, events, view>>
memberVars == <<workerVars, leaderVars, changes>>

Ages == 0..(StaleAfter + 1)
Leases == {"none", "current", "orphan"}
Event == [type : {"joined", "updated", "left"}, worker : Workers, age : Ages]

Init ==
  /\ proc = [w \in Workers |-> "down"]
  /\ lease = [w \in Workers |-> "none"]
  /\ orphan = [w \in Workers |-> FALSE]
  /\ reg = [w \in Workers |-> None]
  /\ owner = [w \in Workers |-> "none"]
  /\ pending = [w \in Workers |-> "none"]
  /\ beat = {}
  /\ watch = "off" /\ events = <<>>
  /\ view = [w \in Workers |-> None]
  /\ changes = 0

Change == changes < MaxChanges /\ changes' = changes + 1

\* Mutant: the sender does not look at the capacity.
SentAlways(type, w) ==
  IF watch = "on" THEN Append(events, [type |-> type, worker |-> w, age |-> 0]) ELSE events

\* The channel after an event of the watch: a full channel drops it.
Sent(type, w) ==
  IF watch = "on" /\ Len(events) < ChanCap
  THEN Append(events, [type |-> type, worker |-> w, age |-> 0]) ELSE events

\* etcd stores the key, with a fresh LastHeartbeat, under the given lease.
PutKey(w, l) ==
  /\ reg' = [reg EXCEPT ![w] = 0]
  /\ owner' = [owner EXCEPT ![w] = l]
  /\ events' = Sent(IF reg[w] = None THEN "joined" ELSE "updated", w)

\* etcd deletes the key, if there is one.
DropKey(w) ==
  /\ reg' = [reg EXCEPT ![w] = None]
  /\ owner' = [owner EXCEPT ![w] = "none"]
  /\ events' = IF reg[w] = None THEN events ELSE Sent("left", w)

KeepKey == UNCHANGED <<reg, owner, events>>

-----------------------------------------------------------------------------
(* Workers.                                                                *)

(* Register: Grant ...  A process takes up an id only when what the last   *)
(* one of that id sent has arrived or is given up: a Put on its way lives  *)
(* for milliseconds, a process takes longer to start.                      *)
Grant(w) ==
  /\ proc[w] = "down" /\ pending[w] = "none" /\ Change
  /\ proc' = [proc EXCEPT ![w] = "granted"]
  /\ lease' = [lease EXCEPT ![w] = "kept"]
  /\ KeepKey /\ UNCHANGED <<orphan, pending, beat, watch, view>>

\* Mutant: an old key of the same id keeps its lease.
RegisterPutOldLease(w) ==
  /\ proc[w] = "granted" /\ lease[w] = "kept"
  /\ PutKey(w, IF reg[w] = None THEN "current" ELSE owner[w])
  /\ proc' = [proc EXCEPT ![w] = "up"]
  /\ beat' = beat \cup {w}
  /\ UNCHANGED <<lease, orphan, pending, watch, view, changes>>

\* ... then Put and KeepAlive.  An old key of the same id moves to the new lease.
RegisterPut(w) ==
  /\ proc[w] = "granted" /\ lease[w] = "kept"
  /\ PutKey(w, "current")
  /\ proc' = [proc EXCEPT ![w] = "up"]
  /\ beat' = beat \cup {w}
  /\ UNCHANGED <<lease, orphan, pending, watch, view, changes>>

\* heartbeatLoop: the lease id is read from the map, then Put is sent ...
Heartbeat(w) ==
  /\ proc[w] = "up" /\ w \notin beat /\ pending[w] = "none"
  /\ beat' = beat \cup {w}
  /\ pending' = [pending EXCEPT ![w] = "current"]
  /\ UNCHANGED <<proc, lease, orphan, reg, owner, leaderVars, changes>>

\* Mutant: Put without WithLease.
HeartbeatPutUnleased(w) ==
  /\ pending[w] # "none"
  /\ pending' = [pending EXCEPT ![w] = "none"]
  /\ PutKey(w, "none")
  /\ UNCHANGED <<proc, lease, orphan, beat, watch, view, changes>>

\* ... and etcd accepts it only while that lease exists; an error is logged.
HeartbeatPut(w) ==
  /\ pending[w] # "none"
  /\ pending' = [pending EXCEPT ![w] = "none"]
  /\ IF (pending[w] = "current" /\ lease[w] = "kept") \/ (pending[w] = "orphan" /\ orphan[w])
     THEN PutKey(w, pending[w]) ELSE KeepKey
  /\ UNCHANGED <<proc, lease, orphan, beat, watch, view, changes>>

\* No keepalive for a TTL: etcd deletes lease and key; the worker only logs it.
LoseLease(w) ==
  /\ lease[w] = "kept" /\ Change
  /\ lease' = [lease EXCEPT ![w] = "lost"]
  /\ IF owner[w] = "current" THEN DropKey(w) ELSE KeepKey
  /\ UNCHANGED <<proc, orphan, pending, beat, watch, view>>

\* What the process leaves behind: an unrenewed lease, its key, a Put on its way.
Abandon(w) ==
  /\ lease' = [lease EXCEPT ![w] = "none"]
  /\ orphan' = [orphan EXCEPT ![w] = @ \/ lease[w] = "kept"]
  /\ owner' = [owner EXCEPT ![w] = IF @ = "current" THEN "orphan" ELSE @]
  /\ pending' = [pending EXCEPT ![w] = IF @ = "current" THEN "orphan" ELSE @]
  /\ UNCHANGED <<reg, events>>

\* Put of Register fails for want of the lease: Run returns the error and main exits.
RegisterFails(w) ==
  /\ proc[w] = "granted" /\ lease[w] = "lost"
  /\ proc' = [proc EXCEPT ![w] = "down"]
  /\ Abandon(w)
  /\ UNCHANGED <<beat, watch, view, changes>>

\* Deregister at the end of Run: Revoke, whose error is ignored ...
Revoke(w) ==
  /\ proc[w] = "up" /\ Change
  /\ proc' = [proc EXCEPT ![w] = "leaving"]
  /\ \/ /\ lease' = [lease EXCEPT ![w] = "none"]
        /\ IF owner[w] = "current" THEN DropKey(w) ELSE KeepKey
        /\ UNCHANGED <<orphan, pending>>
     \/ Abandon(w)
  /\ UNCHANGED <<beat, watch, view>>

\* ... then Delete of the key; the process ends.
DeleteKey(w) ==
  /\ proc[w] = "leaving"
  /\ DropKey(w)
  /\ proc' = [proc EXCEPT ![w] = "down"]
  /\ UNCHANGED <<lease, orphan, pending, beat, watch, view, changes>>

\* The process dies at any point, or Register returned another error.
Crash(w) ==
  /\ proc[w] # "down" /\ Change
  /\ proc' = [proc EXCEPT ![w] = "down"]
  /\ Abandon(w)
  /\ UNCHANGED <<beat, watch, view>>

\* A lease that nobody renews expires, with the key that hangs on it.
OrphanExpires(w) ==
  /\ orphan[w]
  /\ orphan' = [orphan EXCEPT ![w] = FALSE]
  /\ IF owner[w] = "orphan" THEN DropKey(w) ELSE KeepKey
  /\ UNCHANGED <<proc, lease, pending, beat, watch, view, changes>>

-----------------------------------------------------------------------------
(* The leading scheduler.                                                  *)

\* Run: the initial sync of a new leader, which replaces the map ...
SyncWorkers ==
  /\ watch = "off"
  /\ watch' = "synced" /\ view' = reg
  /\ UNCHANGED <<workerVars, events, changes>>

\* ListWorkers fails: the error is logged and the old map stays.
SyncFails ==
  /\ watch = "off" /\ Change
  /\ watch' = "synced"
  /\ UNCHANGED <<workerVars, events, view>>

\* ... and the start of the watch, which sees later events only.
WatchWorkers ==
  /\ watch = "synced" /\ watch' = "on"
  /\ UNCHANGED <<workerVars, events, view, changes>>

(* etcd closes the watch: WatchWorkers closes its channel, what is in it   *)
(* is still handled, and watchWorkers returns for the rest of this         *)
(* leadership.                                                             *)
WatchCloses ==
  /\ watch = "on" /\ Change
  /\ watch' = "lost"
  /\ UNCHANGED <<workerVars, events, view>>

\* Mutant: only joins and leaves are applied.
HandleIgnoresUpdates ==
  /\ events # <<>>
  /\ events' = Tail(events)
  /\ view' = [view EXCEPT ![Head(events).worker] =
       CASE Head(events).type = "joined" -> Head(events).age
         [] Head(events).type = "left" -> None
         [] OTHER -> @]
  /\ UNCHANGED <<workerVars, watch, changes>>

HandleWorkerEvent ==
  /\ events # <<>>
  /\ events' = Tail(events)
  /\ view' = [view EXCEPT ![Head(events).worker] =
       IF Head(events).type = "left" THEN None ELSE Head(events).age]
  /\ UNCHANGED <<workerVars, watch, changes>>

\* healthCheckLoop.
DetectStaleWorkers ==
  LET stale == {w \in Workers : view[w] # None /\ view[w] > StaleAfter} IN
  /\ watch # "off" /\ stale # {}
  /\ view' = [w \in Workers |-> IF w \in stale THEN None ELSE view[w]]
  /\ UNCHANGED <<workerVars, watch, events, changes>>

\* Leadership lost: the loops end, the map stays.
Depose ==
  /\ watch # "off" /\ Change
  /\ watch' = "off" /\ events' = <<>>
  /\ UNCHANGED <<workerVars, view>>

\* The queues the loops visit, for a map of workers.
Queues(workers) ==
  LET known == {w \in Workers : workers[w] # None} IN
  IF known = {} THEN {DefaultQueue} ELSE UNION {QueuesOf[w] : w \in known}

\* One heartbeat interval passes.
Tick ==
  LET Older(f) == [w \in Workers |-> IF f[w] \in Nat /\ f[w] <= StaleAfter THEN f[w] + 1 ELSE f[w]] IN
  /\ \A w \in Workers : proc[w] = "up" => w \in beat /\ pending[w] = "none"
  /\ events = <<>>
  /\ beat' = {}
  /\ reg' = Older(reg) /\ view' = Older(view)
  /\ UNCHANGED <<proc, lease, orphan, owner, pending, watch, events, changes>>

-----------------------------------------------------------------------------
Worker(w) ==
  \/ Grant(w) \/ RegisterPut(w) \/ RegisterFails(w) \/ Heartbeat(w) \/ HeartbeatPut(w)
  \/ LoseLease(w) \/ Revoke(w) \/ DeleteKey(w) \/ Crash(w) \/ OrphanExpires(w)

Leader ==
  \/ SyncWorkers \/ SyncFails \/ WatchWorkers \/ WatchCloses
  \/ HandleWorkerEvent \/ DetectStaleWorkers \/ Depose

Next == (\E w \in Workers : Worker(w)) \/ Leader \/ Tick

Spec == Init /\ [][Next]_memberVars

(* Goroutines run, calls end, unrenewed leases expire, time passes and     *)
(* some scheduler leads.  Nothing obliges a worker to start, stop or fail. *)
Fairness ==
  /\ \A w \in Workers : /\ WF_memberVars(RegisterPut(w)) /\ WF_memberVars(RegisterFails(w))
                        /\ WF_memberVars(Heartbeat(w))
                        /\ WF_memberVars(HeartbeatPut(w)) /\ WF_memberVars(DeleteKey(w))
                        /\ WF_memberVars(OrphanExpires(w))
  /\ WF_memberVars(SyncWorkers) /\ WF_memberVars(WatchWorkers)
  /\ WF_memberVars(HandleWorkerEvent) /\ WF_memberVars(DetectStaleWorkers)
  /\ WF_memberVars(Tick)

FairSpec == Spec /\ Fairness

-----------------------------------------------------------------------------
(* Types, and the channel within its capacity.                             *)
TypeOK ==
  /\ proc \in [Workers -> {"down", "granted", "up", "leaving"}]
  /\ lease \in [Workers -> {"none", "kept", "lost"}]
  /\ orphan \in [Workers -> BOOLEAN]
  /\ reg \in [Workers -> Ages \cup {None}]
  /\ owner \in [Workers -> Leases]
  /\ pending \in [Workers -> Leases]
  /\ beat \subseteq Workers
  /\ watch \in {"off", "synced", "on", "lost"}
  /\ events \in Seq(Event) /\ Len(events) <= ChanCap
  /\ view \in [Workers -> Ages \cup {None}]
  /\ changes \in 0..MaxChanges

(* Every key hangs on a lease that is there: the one its running worker    *)
(* renews, or one that nobody renews and that will expire.  So no key is   *)
(* left for ever by a failed Revoke, nor by a heartbeat that arrives after *)
(* its lease is gone, after Deregister or after a crash.                   *)
KeysLeased ==
  \A w \in Workers : reg[w] # None =>
    \/ owner[w] = "current" /\ lease[w] = "kept" /\ proc[w] = "up"
    \/ owner[w] = "orphan" /\ orphan[w]

(* A running worker whose lease etcd still has is registered, and under    *)
(* that lease: no lease of an earlier life of the same id takes the key    *)
(* with it when it expires.                                                *)
LiveRegistered ==
  \A w \in Workers : proc[w] = "up" /\ lease[w] = "kept" => reg[w] # None /\ owner[w] = "current"

(* Whatever was missed by a failed sync, between the sync and the watch,   *)
(* dropped by a full channel or left over from an earlier leadership, once *)
(* workers stop coming and going the loops visit exactly the queues of the *)
(* registered workers: heartbeats repair missed joins, staleness missed    *)
(* leaves.  The one thing nothing repairs is a watch that has ended under  *)
(* a leader that stays.                                                    *)
ViewConverges == <>[](Queues(view) = Queues(reg)) \/ <>[](watch = "lost")

(* architecture.md: the scheduler follows the workers through the watch.   *)
(* Not once the watch has ended.                                           *)
ViewFollows == <>[](Queues(view) = Queues(reg))

(* A key does not outlive its worker for ever, not even when Revoke fails  *)
(* or a late heartbeat writes the key again after Deregister.              *)
GhostsExpire ==
  \A w \in Workers : (proc[w] = "down" /\ reg[w] # None) ~> (reg[w] = None \/ proc[w] # "down")

(* storage.md: the lease, kept alive while the process runs, is the proof  *)
(* that a worker is alive.  A worker that runs is known to the scheduler.  *)
ConsumerKnown == \A w \in Workers : (proc[w] = "up") ~> (view[w] # None \/ proc[w] # "up")
=============================================================================
