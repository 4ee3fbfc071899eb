----------------------------- MODULE Admission ------------------------------
(***************************************************************************)
(* What a submission passes on its way into the API server: the HTTP or    *)
(* gRPC handler, the beforeSubmit hook, the RouteValidator and the insert  *)
(* into MySQL.  Every request runs on a goroutine of its own; they share   *)
(* the RouteValidator's cached topology, which Validate reads under a read *)
(* lock, refreshes without any lock and stores under the write lock        *)
(* (route_validator.go).  Workers come and go meanwhile.                   *)
(*                                                                         *)
(* The limiter of the hook is a free choice here; RateLimiter has the      *)
(* detail.  Time is counted in ticks.  A goroutine is delayed by at most   *)
(* MaxHold ticks between the read of the topology, or of its age, and what *)
(* it does with it.                                                        *)
(***************************************************************************)
EXTENDS Naturals, FiniteSets

CONSTANTS
  Handlers,      \* goroutines that serve submissions
  Proto,         \* handler -> "http" or "grpc"
  Workers,
  QueuesOf,      \* worker -> WorkerInfo.Queues
  TypesOf,       \* worker -> WorkerInfo.TaskTypes
  Bodies,        \* requests: records of type and queue, or Malformed
  Malformed,     \* a body that does not decode, a request without spec
  Empty,         \* the empty string
  DefaultQueue,
  RefreshEvery,  \* refreshEvery of NewRouteValidator, in ticks
  MaxHold,
  MaxChanges     \* bound on workers that join or leave and on failed calls

\* An empty queue name is the default queue.
Named(queue) == IF queue = Empty THEN DefaultQueue ELSE queue

\* The routes that requests ask for.
Routes == {[queue |-> Named(b.queue), type |-> b.type] :
             b \in {b \in Bodies \ {Malformed} : b.type # Empty}}
Types == (UNION {TypesOf[w] : w \in Workers}) \cup {r.type : r \in Routes}
Queues == (UNION {QueuesOf[w] : w \in Workers}) \cup {r.queue : r \in Routes}

ASSUME AdmissionAssumption ==
  /\ Proto \in [Handlers -> {"http", "grpc"}]
  /\ DefaultQueue # Empty
  /\ RefreshEvery \in Nat /\ MaxHold \in Nat /\ MaxChanges \in Nat

VARIABLES
  reg,         \* the workers registered in etcd, all of them online
  queueTypes,  \* RouteValidator.queueTypes: queue -> types, for the queues that are served
  age,         \* ticks since lastRefresh; more than RefreshEvery before the first one
  req,         \* handler -> its request: where it is, its route, the workers it listed
  since,       \* fact -> ticks since it last became true or false (history)
  changes

vars == <<reg, queueTypes, age, req, since, changes>>

Idle == [pc |-> "idle", type |-> Empty, queue |-> Empty, listed |-> {}, late |-> 0]

\* Some registered worker serves the queue and handles the type.
Served(workers, queue, type) ==
  \E w \in workers : queue \in QueuesOf[w] /\ type \in TypesOf[w]

\* The facts a verdict rests on: routes are served, or nobody serves any queue.
Nobody == [queue |-> Empty, type |-> Empty]
Facts == Routes \cup {Nobody}
Holds(workers, f) ==
  IF f = Nobody THEN \A w \in workers : QueuesOf[w] = {} ELSE Served(workers, f.queue, f.type)

\* Past this age a change is old enough for every decision to have seen it.
Horizon == RefreshEvery + 2 * MaxHold
Settled(f) == since[f] > Horizon

Init ==
  /\ reg = {}
  /\ queueTypes = [q \in {} |-> {}]
  /\ age = RefreshEvery + 1
  /\ req = [h \in Handlers |-> Idle]
  /\ since = [f \in Facts |-> Horizon + 1]
  /\ changes = 0

Change == changes < MaxChanges /\ changes' = changes + 1

\* The registry changes, by registrations, deregistrations and lost leases.
Register(workers) ==
  /\ reg' = workers
  /\ since' = [f \in Facts |-> IF Holds(reg, f) = Holds(workers, f) THEN since[f] ELSE 0]

Join(w) ==
  /\ w \notin reg /\ Change
  /\ Register(reg \cup {w})
  /\ UNCHANGED <<queueTypes, age, req>>

Leave(w) ==
  /\ w \in reg /\ Change
  /\ Register(reg \ {w})
  /\ UNCHANGED <<queueTypes, age, req>>

Shared == <<reg, queueTypes, age, since>>
Goto(h, pc) == req' = [req EXCEPT ![h].pc = pc]
Reply(h) == req' = [req EXCEPT ![h] = Idle]

\* TaskServiceImpl.SubmitTask up to the hook.
SubmitTask(h, body) ==
  req' = [req EXCEPT ![h] = [pc |-> "hook", type |-> body.type, queue |-> Named(body.queue),
                             listed |-> {}, late |-> 0]]

\* Mutant: the type is not checked.
HandleUnchecked(h, body) ==
  /\ req[h].pc = "idle" /\ Proto[h] = "http"
  /\ IF body = Malformed THEN Reply(h) ELSE SubmitTask(h, body)
  /\ UNCHANGED <<Shared, changes>>

\* HTTP: a body that does not decode or names no type is answered with 400.
HandleSubmitTask(h, body) ==
  /\ req[h].pc = "idle" /\ Proto[h] = "http"
  /\ IF body = Malformed THEN Reply(h) ELSE IF body.type = Empty THEN Reply(h) ELSE SubmitTask(h, body)
  /\ UNCHANGED <<Shared, changes>>

\* gRPC: no spec or no type is InvalidArgument.
GrpcSubmitTask(h, body) ==
  /\ req[h].pc = "idle" /\ Proto[h] = "grpc"
  /\ IF body = Malformed THEN Reply(h) ELSE IF body.type = Empty THEN Reply(h) ELSE SubmitTask(h, body)
  /\ UNCHANGED <<Shared, changes>>

\* beforeSubmit: the limiter says yes or no, before the route is known to exist.
BeforeSubmit(h) ==
  /\ req[h].pc = "hook"
  /\ Goto(h, "stale") \/ Reply(h)
  /\ UNCHANGED <<Shared, changes>>

\* Validate: read the age of the cache under RLock.
CheckStale(h) ==
  /\ req[h].pc = "stale"
  /\ Goto(h, IF age > RefreshEvery THEN "list" ELSE "decide")
  /\ UNCHANGED <<Shared, changes>>

\* refresh: etcd's answer to ListWorkers.
ListWorkers(h) ==
  /\ req[h].pc = "list"
  /\ req' = [req EXCEPT ![h].pc = "store", ![h].listed = reg, ![h].late = 0]
  /\ UNCHANGED <<Shared, changes>>

\* Mutant: the request is judged by the old topology.
ListFailsClosed(h) ==
  /\ req[h].pc = "list" /\ Change
  /\ Goto(h, "decide")
  /\ UNCHANGED Shared

\* ListWorkers returns an error: fail open, the request passes unjudged.
ListFails(h) ==
  /\ req[h].pc = "list" /\ Change
  /\ Goto(h, "persist")
  /\ UNCHANGED Shared

\* The topology built from a list of workers.
QueueTypes(workers) ==
  [q \in UNION {QueuesOf[w] : w \in workers} |->
     UNION {TypesOf[w] : w \in {v \in workers : q \in QueuesOf[v]}}]

\* Mutant: the new topology is added to the old one.
StoreMerged(h) ==
  LET new == QueueTypes(req[h].listed)
      Get(f, q) == IF q \in DOMAIN f THEN f[q] ELSE {} IN
  /\ req[h].pc = "store"
  /\ queueTypes' = [q \in DOMAIN queueTypes \cup DOMAIN new |-> Get(queueTypes, q) \cup Get(new, q)]
  /\ age' = 0
  /\ req' = [req EXCEPT ![h].pc = "decide", ![h].listed = {}, ![h].late = 0]
  /\ UNCHANGED <<reg, since, changes>>

\* refresh: under Lock the topology is replaced and lastRefresh is now.
StoreTopology(h) ==
  /\ req[h].pc = "store"
  /\ queueTypes' = QueueTypes(req[h].listed)
  /\ age' = 0
  /\ req' = [req EXCEPT ![h].pc = "decide", ![h].listed = {}, ![h].late = 0]
  /\ UNCHANGED <<reg, since, changes>>

\* What Validate answers: an empty topology lets everything pass.
Allowed(queue, type) ==
  \/ DOMAIN queueTypes = {}
  \/ queue \in DOMAIN queueTypes /\ type \in queueTypes[queue]

\* Validate: the verdict, under RLock.
Decide(h) ==
  /\ req[h].pc = "decide"
  /\ IF Allowed(req[h].queue, req[h].type)
     THEN req' = [req EXCEPT ![h].pc = "persist", ![h].late = 0] ELSE Reply(h)
  /\ UNCHANGED <<Shared, changes>>

(* taskStore.Create and what follows it, which Dispatch models: the reply  *)
(* is 201, or 500 when the insert failed.                                  *)
Persist(h) ==
  /\ req[h].pc = "persist"
  /\ Reply(h)
  /\ UNCHANGED <<Shared, changes>>

Waiting == {h \in Handlers : req[h].pc \in {"store", "decide"}}
Older(n, cap) == IF n < cap THEN n + 1 ELSE n

Tick ==
  /\ \A h \in Waiting : req[h].late < MaxHold
  /\ age' = Older(age, RefreshEvery + 1)
  /\ since' = [f \in Facts |-> Older(since[f], Horizon + 1)]
  /\ req' = [h \in Handlers |-> IF h \in Waiting THEN [req[h] EXCEPT !.late = @ + 1] ELSE req[h]]
  /\ UNCHANGED <<reg, queueTypes, changes>>

Next ==
  \/ \E h \in Handlers :
       \/ \E body \in Bodies : HandleSubmitTask(h, body) \/ GrpcSubmitTask(h, body)
       \/ BeforeSubmit(h) \/ CheckStale(h) \/ ListWorkers(h) \/ ListFails(h)
       \/ StoreTopology(h) \/ Decide(h) \/ Persist(h)
  \/ \E w \in Workers : Join(w) \/ Leave(w)
  \/ Tick

Spec == Init /\ [][Next]_vars

-----------------------------------------------------------------------------
(* Types; past the handlers every request has a type and a queue.          *)
TypeOK ==
  /\ reg \subseteq Workers
  /\ DOMAIN queueTypes \subseteq Queues
  /\ \A q \in DOMAIN queueTypes : queueTypes[q] \subseteq Types
  /\ age \in 0..(RefreshEvery + 1)
  /\ req \in [Handlers -> [pc : {"idle", "hook", "stale", "list", "store", "decide", "persist"},
                           type : Types \cup {Empty}, queue : Queues \cup {Empty},
                           listed : SUBSET Workers, late : 0..MaxHold]]
  /\ \A h \in Handlers : req[h].pc # "idle" => req[h].type # Empty /\ req[h].queue # Empty
  /\ since \in [Facts -> 0..(Horizon + 1)]
  /\ changes \in 0..MaxChanges

Target(h) == [queue |-> req[h].queue, type |-> req[h].type]
Refused(h) == req[h].pc = "decide" /\ req'[h] = Idle
Passed(h) == req[h].pc = "decide" /\ req'[h].pc = "persist"

(* A refusal by Validate is never older news than the cache may be: the    *)
(* route was without a worker, and some other queue had one, at some time  *)
(* within the horizon, although overlapping refreshes may store  *)
(* the older topology last with a fresh lastRefresh, and refreshes may     *)
(* fail for ever.                                                          *)
RefusalJustified ==
  [][\A h \in Handlers : Refused(h) =>
       /\ ~(Holds(reg, Target(h)) /\ Settled(Target(h)))
       /\ ~(Holds(reg, Nobody) /\ Settled(Nobody))]_vars

(* What Validate lets pass, in turn, had a worker for its route within the *)
(* horizon, or there was a time without a worker on any queue.             *)
AdmissionJustified ==
  [][\A h \in Handlers : Passed(h) =>
       \/ Holds(reg, Target(h)) \/ ~Settled(Target(h))
       \/ Holds(reg, Nobody) \/ ~Settled(Nobody)]_vars
=============================================================================
