-------------------------- MODULE AdmissionProofs ---------------------------
(***************************************************************************)
(* What Validate refuses and what it lets pass is justified by a registry  *)
(* at most Horizon old, for any number of handlers, workers and routes and *)
(* any refresh interval.  Neither property follows from the last step: the *)
(* topology a request is judged by was listed by some other handler, held  *)
(* back for up to MaxHold, stored with a fresh lastRefresh, aged for up to *)
(* RefreshEvery and judged up to MaxHold after its age was read.  Lag      *)
(* bounds how old news may be at each of these points.                     *)
(***************************************************************************)
EXTENDS Admission, TLAPS

\* What the cached topology says of a fact.
Cached(f) ==
  IF f = Nobody THEN DOMAIN queueTypes = {}
  ELSE f.queue \in DOMAIN queueTypes /\ f.type \in queueTypes[f.queue]

\* Past the handlers a request asks for one of the routes.
Routed == \A h \in Handlers : req[h].pc # "idle" => Target(h) \in Routes

\* What a request listed differs from the registry by changes since then only.
ListLag ==
  \A h \in Handlers, f \in Facts :
    req[h].pc = "store" => (Holds(req[h].listed, f) <=> Holds(reg, f)) \/ since[f] <= req[h].late

\* The cache was listed at most MaxHold before lastRefresh.
CacheLag ==
  \A f \in Facts :
    age <= RefreshEvery => (Cached(f) <=> Holds(reg, f)) \/ since[f] <= age + MaxHold

\* A request that is about to decide saw the cache fresh at most late ticks ago.
DecideLag ==
  \A h \in Handlers, f \in Facts :
    req[h].pc = "decide" =>
      (Cached(f) <=> Holds(reg, f)) \/ since[f] <= RefreshEvery + req[h].late + MaxHold

Lag == ListLag /\ CacheLag /\ DecideLag

IInv == TypeOK /\ Routed /\ Lag

-----------------------------------------------------------------------------
LEMMA NobodyNoRoute == Nobody \notin Routes
  BY DEF Nobody, Routes

(* refresh keeps what the list says: the topology has a queue and a type   *)
(* exactly when some listed worker has both, and none if no worker has a   *)
(* queue.                                                                  *)
LEMMA TopologyFaithful ==
  ASSUME NEW L, NEW f \in Facts
  PROVE  LET qt == QueueTypes(L) IN
         (IF f = Nobody THEN DOMAIN qt = {}
          ELSE f.queue \in DOMAIN qt /\ f.type \in qt[f.queue]) <=> Holds(L, f)
<1> DEFINE qt == QueueTypes(L)
<1>1. DOMAIN qt = UNION {QueuesOf[w] : w \in L}
  BY DEF QueueTypes
<1>2. CASE f = Nobody
  BY <1>1, <1>2 DEF Holds
<1>3. CASE f # Nobody
  <2>1. f.queue \in DOMAIN qt =>
          qt[f.queue] = UNION {TypesOf[w] : w \in {v \in L : f.queue \in QueuesOf[v]}}
    BY DEF QueueTypes
  <2>2. QED
    BY <1>1, <1>3, <2>1 DEF Holds, Served
<1>4. QED
  BY <1>2, <1>3

(* The topology names queues and types of listed workers only.             *)
LEMMA TopologyTyped ==
  ASSUME NEW L \in SUBSET Workers
  PROVE  LET qt == QueueTypes(L) IN
         DOMAIN qt \subseteq Queues /\ \A q \in DOMAIN qt : qt[q] \subseteq Types
  BY DEF QueueTypes, Queues, Types

-----------------------------------------------------------------------------
(* What a request holds, field by field.                                   *)
LEMMA RequestTyped ==
  ASSUME TypeOK, NEW h \in Handlers
  PROVE  /\ req[h].pc \in {"idle", "hook", "stale", "list", "store", "decide", "persist"}
         /\ req[h].type \in Types \cup {Empty} /\ req[h].queue \in Queues \cup {Empty}
         /\ req[h].listed \in SUBSET Workers /\ req[h].late \in 0..MaxHold
         /\ req[h].pc # "idle" => req[h].type # Empty /\ req[h].queue # Empty
  BY DEF TypeOK

Numbers == RefreshEvery \in Nat /\ MaxHold \in Nat /\ MaxChanges \in Nat /\ Horizon \in Nat

LEMMA NumbersNat == Numbers
  BY AdmissionAssumption DEF Numbers, Horizon

(* The steps of a handler that leave the cache and the registry alone: it  *)
(* answers, moves on to a point without a verdict ahead, finds the cache   *)
(* fresh, or lists the workers.                                            *)
Quiet(h) ==
  \/ req'[h].pc \in {"idle", "hook", "stale", "list", "persist"}
  \/ req'[h].pc = "decide" /\ age <= RefreshEvery /\ req'[h].late \in Nat
  \/ req'[h].pc = "store" /\ req'[h].listed = reg

LEMMA QuietLag ==
  ASSUME IInv, UNCHANGED <<reg, queueTypes, age, since>>,
         \A g \in Handlers : req'[g] = req[g] \/ Quiet(g)
  PROVE  Lag'
<1>1. ListLag'
  <2> SUFFICES ASSUME NEW g \in Handlers, NEW f \in Facts, req'[g].pc = "store"
               PROVE  (Holds(req'[g].listed, f) <=> Holds(reg, f)) \/ since[f] <= req'[g].late
    BY DEF ListLag
  <2>1. CASE req'[g] = req[g]
    BY <2>1 DEF IInv, Lag, ListLag
  <2>2. CASE Quiet(g)
    BY <2>2 DEF Quiet
  <2>3. QED
    BY <2>1, <2>2
<1>2. \A f \in Facts : Cached(f)' <=> Cached(f)
  BY DEF Cached
<1>3. CacheLag'
  BY <1>2 DEF IInv, Lag, CacheLag
<1>4. DecideLag'
  <2> SUFFICES ASSUME NEW g \in Handlers, NEW f \in Facts, req'[g].pc = "decide"
               PROVE  \/ Cached(f) <=> Holds(reg, f)
                      \/ since[f] <= RefreshEvery + req'[g].late + MaxHold
    BY <1>2 DEF DecideLag
  <2>1. CASE req'[g] = req[g]
    BY <2>1 DEF IInv, Lag, DecideLag
  <2>2. CASE Quiet(g)
    <3>1. age <= RefreshEvery /\ req'[g].late \in Nat
      BY <2>2 DEF Quiet
    <3>2. (Cached(f) <=> Holds(reg, f)) \/ since[f] <= age + MaxHold
      BY <3>1 DEF IInv, Lag, CacheLag
    <3>3. age \in Nat /\ since[f] \in Nat
      BY NumbersNat DEF Numbers, IInv, TypeOK
    <3>4. QED
      BY <3>1, <3>2, <3>3, NumbersNat DEF Numbers
  <2>3. QED
    BY <2>1, <2>2
<1>5. QED
  BY <1>1, <1>3, <1>4 DEF Lag

(* A handler step touches its own request only.                            *)
LEMMA HandlerTypes ==
  ASSUME TypeOK, NEW h \in Handlers, NEW r, req' = [req EXCEPT ![h] = r],
         r \in [pc : {"idle", "hook", "stale", "list", "store", "decide", "persist"},
                type : Types \cup {Empty}, queue : Queues \cup {Empty},
                listed : SUBSET Workers, late : 0..MaxHold],
         r.pc # "idle" => r.type # Empty /\ r.queue # Empty,
         UNCHANGED Shared, changes' \in 0..MaxChanges
  PROVE  TypeOK'
  BY DEF TypeOK, Shared

LEMMA ChangeTyped == ASSUME TypeOK, Change PROVE changes' \in 0..MaxChanges
  BY NumbersNat DEF Change, TypeOK, Numbers

LEMMA IdleTyped ==
  Idle \in [pc : {"idle", "hook", "stale", "list", "store", "decide", "persist"},
            type : Types \cup {Empty}, queue : Queues \cup {Empty},
            listed : SUBSET Workers, late : 0..MaxHold]
  BY NumbersNat DEF Idle, Numbers
(* The request of a handler that moves on keeps its route.                 *)
LEMMA GotoStep ==
  ASSUME IInv, NEW h \in Handlers, NEW x \in {"stale", "list", "decide", "persist"},
         req[h].pc # "idle", Goto(h, x), UNCHANGED Shared, changes' \in 0..MaxChanges,
         x = "decide" => age <= RefreshEvery
  PROVE  IInv'
<1> DEFINE r == [req[h] EXCEPT !.pc = x]
<1>1. req' = [req EXCEPT ![h] = r]
  BY DEF Goto
<1>2. TypeOK'
  <2>1. r \in [pc : {"idle", "hook", "stale", "list", "store", "decide", "persist"},
               type : Types \cup {Empty}, queue : Queues \cup {Empty},
               listed : SUBSET Workers, late : 0..MaxHold]
    BY DEF IInv, TypeOK
  <2>2. r.type # Empty /\ r.queue # Empty
    BY DEF IInv, TypeOK
  <2>3. QED
    BY <1>1, <2>1, <2>2, HandlerTypes DEF IInv
<1>3. /\ req'[h].pc = x /\ req'[h].type = req[h].type /\ req'[h].queue = req[h].queue
      /\ req'[h].late = req[h].late /\ \A g \in Handlers \ {h} : req'[g] = req[g]
  BY <1>1 DEF IInv, TypeOK
<1>4. Routed'
  BY <1>3 DEF IInv, Routed, Target
<1>5. req[h].late \in Nat
  BY RequestTyped DEF IInv
<1>6. Quiet(h)
  BY <1>3, <1>5 DEF Quiet
<1>7. Lag'
  BY <1>3, <1>6, QuietLag DEF Shared
<1>8. QED
  BY <1>2, <1>4, <1>7 DEF IInv

LEMMA ReplyStep ==
  ASSUME IInv, NEW h \in Handlers, Reply(h), UNCHANGED Shared, changes' \in 0..MaxChanges
  PROVE  IInv'
<1>1. req' = [req EXCEPT ![h] = Idle] /\ Idle.pc = "idle"
  BY DEF Reply, Idle
<1>2. TypeOK'
  BY <1>1, IdleTyped, HandlerTypes DEF IInv
<1>3. req'[h].pc = "idle" /\ \A g \in Handlers \ {h} : req'[g] = req[g]
  BY <1>1 DEF IInv, TypeOK
<1>4. Routed'
  BY <1>3 DEF IInv, Routed, Target
<1>5. Quiet(h)
  BY <1>3 DEF Quiet
<1>6. Lag'
  BY <1>3, <1>5, QuietLag DEF Shared
<1>7. QED
  BY <1>2, <1>4, <1>6 DEF IInv

(* What both handlers let through names a type, and a queue at last.       *)
LEMMA SubmitStep ==
  ASSUME IInv, NEW h \in Handlers, NEW body \in Bodies, body # Malformed, body.type # Empty,
         SubmitTask(h, body), UNCHANGED <<Shared, changes>>
  PROVE  IInv'
<1> DEFINE r == [pc |-> "hook", type |-> body.type, queue |-> Named(body.queue),
                 listed |-> {}, late |-> 0]
<1>1. req' = [req EXCEPT ![h] = r]
  BY DEF SubmitTask
<1>2. [queue |-> Named(body.queue), type |-> body.type] \in Routes
  BY DEF Routes
<1>3. body.type \in Types /\ Named(body.queue) \in Queues
  BY <1>2 DEF Types, Queues
<1>4. Named(body.queue) # Empty
  BY AdmissionAssumption DEF Named
<1>5. TypeOK'
  <2>1. r \in [pc : {"idle", "hook", "stale", "list", "store", "decide", "persist"},
               type : Types \cup {Empty}, queue : Queues \cup {Empty},
               listed : SUBSET Workers, late : 0..MaxHold]
    BY <1>3, NumbersNat DEF Numbers
  <2>2. r.type # Empty /\ r.queue # Empty
    BY <1>4
  <2>3. changes' \in 0..MaxChanges /\ UNCHANGED Shared
    BY DEF IInv, TypeOK
  <2>4. QED
    BY <1>1, <2>1, <2>2, <2>3, HandlerTypes DEF IInv
<1>6. /\ req'[h].pc = "hook" /\ req'[h].type = body.type /\ req'[h].queue = Named(body.queue)
      /\ \A g \in Handlers \ {h} : req'[g] = req[g]
  BY <1>1 DEF IInv, TypeOK
<1>7. Routed'
  BY <1>2, <1>6 DEF IInv, Routed, Target
<1>8. Quiet(h)
  BY <1>6 DEF Quiet
<1>9. Lag'
  BY <1>6, <1>8, QuietLag DEF Shared
<1>10. QED
  BY <1>5, <1>7, <1>9 DEF IInv

(* A list that etcd just answered is the registry.                         *)
LEMMA ListStep ==
  ASSUME IInv, NEW h \in Handlers, ListWorkers(h)
  PROVE  IInv'
<1> DEFINE r == [req[h] EXCEPT !.pc = "store", !.listed = reg, !.late = 0]
<1>1. req' = [req EXCEPT ![h] = r] /\ req[h].pc = "list" /\ UNCHANGED <<Shared, changes>>
  BY DEF ListWorkers, IInv, TypeOK
<1>2. TypeOK'
  <2>1. r \in [pc : {"idle", "hook", "stale", "list", "store", "decide", "persist"},
               type : Types \cup {Empty}, queue : Queues \cup {Empty},
               listed : SUBSET Workers, late : 0..MaxHold]
    <3>1. reg \in SUBSET Workers /\ 0 \in 0..MaxHold
      BY NumbersNat DEF IInv, TypeOK, Numbers
    <3>2. req[h] \in [pc : {"idle", "hook", "stale", "list", "store", "decide", "persist"},
                      type : Types \cup {Empty}, queue : Queues \cup {Empty},
                      listed : SUBSET Workers, late : 0..MaxHold]
      BY DEF IInv, TypeOK
    <3>3. QED
      BY <3>1, <3>2
  <2>2. r.type # Empty /\ r.queue # Empty
    BY <1>1 DEF IInv, TypeOK
  <2>3. changes' \in 0..MaxChanges /\ UNCHANGED Shared
    BY <1>1 DEF IInv, TypeOK
  <2>4. QED
    BY <1>1, <2>1, <2>2, <2>3, HandlerTypes DEF IInv
<1>3. /\ req'[h].pc = "store" /\ req'[h].type = req[h].type /\ req'[h].queue = req[h].queue
      /\ req'[h].listed = reg /\ \A g \in Handlers \ {h} : req'[g] = req[g]
  BY <1>1 DEF IInv, TypeOK
<1>4. Routed'
  BY <1>1, <1>3 DEF IInv, Routed, Target
<1>5. Quiet(h)
  BY <1>3 DEF Quiet
<1>6. Lag'
  BY <1>1, <1>3, <1>5, QuietLag DEF Shared
<1>7. QED
  BY <1>2, <1>4, <1>6 DEF IInv
(* The request that is let pass.                                           *)
LEMMA PassStep ==
  ASSUME IInv, NEW h \in Handlers, req[h].pc = "decide",
         req' = [req EXCEPT ![h].pc = "persist", ![h].late = 0], UNCHANGED <<Shared, changes>>
  PROVE  IInv'
<1> DEFINE r == [req[h] EXCEPT !.pc = "persist", !.late = 0]
<1>1. req' = [req EXCEPT ![h] = r]
  BY DEF IInv, TypeOK
<1>2. TypeOK'
  <2>1. req[h] \in [pc : {"idle", "hook", "stale", "list", "store", "decide", "persist"},
                    type : Types \cup {Empty}, queue : Queues \cup {Empty},
                    listed : SUBSET Workers, late : 0..MaxHold] /\ 0 \in 0..MaxHold
    BY NumbersNat DEF IInv, TypeOK, Numbers
  <2>2. r \in [pc : {"idle", "hook", "stale", "list", "store", "decide", "persist"},
               type : Types \cup {Empty}, queue : Queues \cup {Empty},
               listed : SUBSET Workers, late : 0..MaxHold]
    BY <2>1
  <2>3. r.type # Empty /\ r.queue # Empty
    BY DEF IInv, TypeOK
  <2>4. changes' \in 0..MaxChanges /\ UNCHANGED Shared
    BY DEF IInv, TypeOK
  <2>5. QED
    BY <1>1, <2>2, <2>3, <2>4, HandlerTypes DEF IInv
<1>3. /\ req'[h].pc = "persist" /\ req'[h].type = req[h].type /\ req'[h].queue = req[h].queue
      /\ \A g \in Handlers \ {h} : req'[g] = req[g]
  BY <1>1 DEF IInv, TypeOK
<1>4. Routed'
  BY <1>3 DEF IInv, Routed, Target
<1>5. Quiet(h)
  BY <1>3 DEF Quiet
<1>6. Lag'
  BY <1>3, <1>5, QuietLag DEF Shared
<1>7. QED
  BY <1>2, <1>4, <1>6 DEF IInv

(* Whoever stores last, and whatever it overwrites, the list it stores is  *)
(* at most MaxHold old.                                                    *)
LEMMA StoreStep ==
  ASSUME IInv, NEW h \in Handlers, StoreTopology(h)
  PROVE  IInv'
<1> DEFINE r == [req[h] EXCEPT !.pc = "decide", !.listed = {}, !.late = 0]
<1>1. /\ req[h].pc = "store" /\ queueTypes' = QueueTypes(req[h].listed) /\ age' = 0
      /\ req' = [req EXCEPT ![h] = r] /\ UNCHANGED <<reg, since, changes>>
  BY DEF StoreTopology, IInv, TypeOK
<1>2. req[h].listed \in SUBSET Workers /\ req[h].late \in 0..MaxHold
  BY RequestTyped DEF IInv
<1>3. req' \in [Handlers -> [pc : {"idle", "hook", "stale", "list", "store", "decide", "persist"},
                             type : Types \cup {Empty}, queue : Queues \cup {Empty},
                             listed : SUBSET Workers, late : 0..MaxHold]]
  <2>1. req[h] \in [pc : {"idle", "hook", "stale", "list", "store", "decide", "persist"},
                    type : Types \cup {Empty}, queue : Queues \cup {Empty},
                    listed : SUBSET Workers, late : 0..MaxHold] /\ 0 \in 0..MaxHold
    BY NumbersNat DEF IInv, TypeOK, Numbers
  <2>2. r \in [pc : {"idle", "hook", "stale", "list", "store", "decide", "persist"},
               type : Types \cup {Empty}, queue : Queues \cup {Empty},
               listed : SUBSET Workers, late : 0..MaxHold]
    BY <2>1
  <2>3. QED
    BY <1>1, <2>2 DEF IInv, TypeOK
<1>4. /\ req'[h].pc = "decide" /\ req'[h].type = req[h].type /\ req'[h].queue = req[h].queue
      /\ req'[h].late = 0 /\ \A g \in Handlers \ {h} : req'[g] = req[g]
  BY <1>1 DEF IInv, TypeOK
<1>5. TypeOK'
  <2>1. DOMAIN queueTypes' \subseteq Queues /\ \A q \in DOMAIN queueTypes' : queueTypes'[q] \subseteq Types
    BY <1>1, <1>2, TopologyTyped
  <2>2. age' \in 0..(RefreshEvery + 1)
    BY <1>1, NumbersNat DEF Numbers
  <2>3. \A g \in Handlers : req'[g].pc # "idle" => req'[g].type # Empty /\ req'[g].queue # Empty
    BY <1>1, <1>4 DEF IInv, TypeOK
  <2>4. QED
    BY <1>1, <1>3, <2>1, <2>2, <2>3 DEF IInv, TypeOK
<1>6. Routed'
  BY <1>1, <1>4 DEF IInv, Routed, Target
<1>7. ASSUME NEW f \in Facts PROVE (Cached(f)' <=> Holds(reg, f)) \/ since[f] <= MaxHold
  <2>1. Cached(f)' <=> Holds(req[h].listed, f)
    BY <1>1, TopologyFaithful DEF Cached
  <2>2. (Holds(req[h].listed, f) <=> Holds(reg, f)) \/ since[f] <= req[h].late
    BY <1>1 DEF IInv, Lag, ListLag
  <2>3. since[f] \in Nat
    BY NumbersNat DEF Numbers, IInv, TypeOK
  <2>4. QED
    BY <1>2, <2>1, <2>2, <2>3, NumbersNat DEF Numbers
<1>8. ListLag'
  BY <1>1, <1>4 DEF IInv, Lag, ListLag
<1>9. CacheLag'
  BY <1>1, <1>7, NumbersNat DEF CacheLag, Numbers
<1>10. DecideLag'
  <2> SUFFICES ASSUME NEW g \in Handlers, NEW f \in Facts
               PROVE  \/ Cached(f)' <=> Holds(reg, f)
                      \/ since[f] <= RefreshEvery + req'[g].late + MaxHold
    BY <1>1 DEF DecideLag
  <2>1. req'[g].late \in Nat /\ since[f] \in Nat
    BY <1>3, NumbersNat DEF Numbers, IInv, TypeOK
  <2>2. QED
    BY <1>7, <2>1, NumbersNat DEF Numbers
<1>11. QED
  BY <1>5, <1>6, <1>8, <1>9, <1>10 DEF IInv, Lag

(* A fact that changes in the registry is news of age 0.                   *)
LEMMA RegisterStep ==
  ASSUME IInv, NEW workers \in SUBSET Workers, Register(workers), Change,
         UNCHANGED <<queueTypes, age, req>>
  PROVE  IInv'
<1>1. /\ reg' = workers
      /\ \A f \in Facts : since'[f] = IF Holds(reg, f) = Holds(workers, f) THEN since[f] ELSE 0
  BY DEF Register
<1>2. TypeOK'
  <2>1. since' \in [Facts -> 0..(Horizon + 1)]
    BY NumbersNat DEF Register, IInv, TypeOK, Numbers
  <2>2. changes' \in 0..MaxChanges
    BY ChangeTyped DEF IInv
  <2>3. QED
    BY <1>1, <2>1, <2>2 DEF IInv, TypeOK
<1>3. Routed'
  BY DEF IInv, Routed, Target
<1>4. ASSUME NEW f \in Facts
      PROVE  /\ since[f] \in Nat /\ since'[f] \in Nat
             /\ \/ (Holds(reg', f) <=> Holds(reg, f)) /\ since'[f] = since[f]
                \/ since'[f] = 0
             /\ Cached(f)' <=> Cached(f)
  <2>1. since[f] \in Nat
    BY NumbersNat DEF IInv, TypeOK, Numbers
  <2>2. \/ (Holds(reg', f) <=> Holds(reg, f)) /\ since'[f] = since[f]
        \/ since'[f] = 0
    BY <1>1
  <2>3. Cached(f)' <=> Cached(f)
    BY DEF Cached
  <2>4. QED
    BY <2>1, <2>2, <2>3
<1>5. \A h \in Handlers : req[h].late \in Nat
  BY RequestTyped DEF IInv
<1>6. ListLag'
  BY <1>4, <1>5 DEF IInv, Lag, ListLag
<1>7. age \in Nat
  BY DEF IInv, TypeOK
<1>8. CacheLag'
  BY <1>4, <1>7, NumbersNat DEF IInv, Lag, CacheLag, Numbers
<1>9. DecideLag'
  BY <1>4, <1>5, NumbersNat DEF IInv, Lag, DecideLag, Numbers
<1>10. QED
  BY <1>2, <1>3, <1>6, <1>8, <1>9 DEF IInv, Lag

(* News grows older no faster than the requests that wait and the cache.   *)
LEMMA TickStep == ASSUME IInv, Tick PROVE IInv'
<1>1. /\ reg' = reg /\ queueTypes' = queueTypes /\ changes' = changes
      /\ age' = Older(age, RefreshEvery + 1)
      /\ \A f \in Facts : since'[f] = Older(since[f], Horizon + 1)
  BY DEF Tick
<1>2. ASSUME NEW h \in Handlers
      PROVE  /\ req'[h].pc = req[h].pc /\ req'[h].type = req[h].type
             /\ req'[h].queue = req[h].queue /\ req'[h].listed = req[h].listed
             /\ req'[h].late \in 0..MaxHold
             /\ req[h].pc \in {"store", "decide"} => req'[h].late = req[h].late + 1
             /\ req'[h] \in [pc : {"idle", "hook", "stale", "list", "store", "decide", "persist"},
                             type : Types \cup {Empty}, queue : Queues \cup {Empty},
                             listed : SUBSET Workers, late : 0..MaxHold]
  <2>0. /\ req[h] \in [pc : {"idle", "hook", "stale", "list", "store", "decide", "persist"},
                       type : Types \cup {Empty}, queue : Queues \cup {Empty},
                       listed : SUBSET Workers, late : 0..MaxHold]
        /\ req[h].late \in 0..MaxHold
    BY RequestTyped DEF IInv, TypeOK
  <2>1. CASE h \in Waiting
    <3>1. req'[h] = [req[h] EXCEPT !.late = req[h].late + 1] /\ req[h].late < MaxHold
      BY <2>1 DEF Tick
    <3>2. req[h].late + 1 \in 0..MaxHold
      BY <2>0, <3>1, NumbersNat DEF Numbers
    <3>3. QED
      BY <2>0, <3>1, <3>2
  <2>2. CASE h \notin Waiting
    <3>1. req'[h] = req[h] /\ req[h].pc \notin {"store", "decide"}
      BY <2>2 DEF Tick, Waiting
    <3>2. QED
      BY <2>0, <3>1
  <2>3. QED
    BY <2>1, <2>2
<1>3. ASSUME NEW f \in Facts
      PROVE  /\ since[f] \in Nat /\ since'[f] \in 0..(Horizon + 1) /\ since'[f] <= since[f] + 1
             /\ Cached(f)' <=> Cached(f)
  <2>1. since[f] \in 0..(Horizon + 1)
    BY DEF IInv, TypeOK
  <2>2. Cached(f)' <=> Cached(f)
    BY <1>1 DEF Cached
  <2>3. QED
    BY <1>1, <2>1, <2>2, NumbersNat DEF Older, Numbers
<1>4. /\ age \in Nat /\ age' \in 0..(RefreshEvery + 1)
      /\ age' <= RefreshEvery => age' = age + 1
  BY <1>1, NumbersNat DEF IInv, TypeOK, Older, Numbers
<1>5. TypeOK'
  <2>1. req' \in [Handlers -> [pc : {"idle", "hook", "stale", "list", "store", "decide", "persist"},
                               type : Types \cup {Empty}, queue : Queues \cup {Empty},
                               listed : SUBSET Workers, late : 0..MaxHold]]
    BY <1>2 DEF Tick
  <2>2. since' \in [Facts -> 0..(Horizon + 1)]
    BY <1>3 DEF Tick
  <2>3. \A h \in Handlers : req'[h].pc # "idle" => req'[h].type # Empty /\ req'[h].queue # Empty
    BY <1>2 DEF IInv, TypeOK
  <2>4. QED
    BY <1>1, <1>4, <2>1, <2>2, <2>3 DEF IInv, TypeOK
<1>6. Routed'
  BY <1>2 DEF IInv, Routed, Target
<1>7. \A h \in Handlers : req[h].late \in Nat
  BY RequestTyped DEF IInv
<1>8. ListLag'
  <2> SUFFICES ASSUME NEW h \in Handlers, NEW f \in Facts, req'[h].pc = "store"
               PROVE  (Holds(req'[h].listed, f) <=> Holds(reg, f)) \/ since'[f] <= req'[h].late
    BY <1>1 DEF ListLag
  <2>1. (Holds(req[h].listed, f) <=> Holds(reg, f)) \/ since[f] <= req[h].late
    BY <1>2 DEF IInv, Lag, ListLag
  <2>2. /\ req'[h].late = req[h].late + 1 /\ req'[h].listed = req[h].listed
        /\ since[f] \in Nat /\ since'[f] \in Nat /\ since'[f] <= since[f] + 1
    BY <1>2, <1>3, NumbersNat DEF Numbers
  <2>3. QED
    BY <1>7, <2>1, <2>2
<1>9. CacheLag'
  <2> SUFFICES ASSUME NEW f \in Facts, age' <= RefreshEvery
               PROVE  (Cached(f) <=> Holds(reg, f)) \/ since'[f] <= age' + MaxHold
    BY <1>1, <1>3 DEF CacheLag
  <2>1. age' = age + 1 /\ age <= RefreshEvery
    BY <1>4, NumbersNat DEF Numbers
  <2>2. (Cached(f) <=> Holds(reg, f)) \/ since[f] <= age + MaxHold
    BY <2>1 DEF IInv, Lag, CacheLag
  <2>3. since[f] \in Nat /\ since'[f] \in Nat /\ since'[f] <= since[f] + 1
    BY <1>3, NumbersNat DEF Numbers
  <2>4. QED
    BY <1>4, <2>1, <2>2, <2>3, NumbersNat DEF Numbers
<1>10. DecideLag'
  <2> SUFFICES ASSUME NEW h \in Handlers, NEW f \in Facts, req'[h].pc = "decide"
               PROVE  \/ Cached(f) <=> Holds(reg, f)
                      \/ since'[f] <= RefreshEvery + req'[h].late + MaxHold
    BY <1>1, <1>3 DEF DecideLag
  <2>1. (Cached(f) <=> Holds(reg, f)) \/ since[f] <= RefreshEvery + req[h].late + MaxHold
    BY <1>2 DEF IInv, Lag, DecideLag
  <2>2. /\ req'[h].late = req[h].late + 1
        /\ since[f] \in Nat /\ since'[f] \in Nat /\ since'[f] <= since[f] + 1
    BY <1>2, <1>3, NumbersNat DEF Numbers
  <2>3. QED
    BY <1>7, <2>1, <2>2, NumbersNat DEF Numbers
<1>11. QED
  BY <1>5, <1>6, <1>8, <1>9, <1>10 DEF IInv, Lag
LEMMA InitInv == Init => IInv
<1> SUFFICES ASSUME Init PROVE IInv
  OBVIOUS
<1>1. \A h \in Handlers : req[h] = Idle /\ req[h].pc = "idle"
  BY DEF Init, Idle
<1>2. TypeOK
  <2>1. DOMAIN queueTypes = {}
    BY DEF Init
  <2>2. age \in 0..(RefreshEvery + 1) /\ since \in [Facts -> 0..(Horizon + 1)] /\ changes \in 0..MaxChanges
    BY NumbersNat DEF Init, Numbers
  <2>3. req \in [Handlers -> [pc : {"idle", "hook", "stale", "list", "store", "decide", "persist"},
                              type : Types \cup {Empty}, queue : Queues \cup {Empty},
                              listed : SUBSET Workers, late : 0..MaxHold]]
    BY IdleTyped DEF Init
  <2>4. reg = {}
    BY DEF Init
  <2>5. QED
    BY <1>1, <2>1, <2>2, <2>3, <2>4 DEF TypeOK
<1>3. Routed /\ ListLag /\ DecideLag
  BY <1>1 DEF Routed, ListLag, DecideLag
<1>4. CacheLag
  BY NumbersNat DEF Init, CacheLag, Numbers
<1>5. QED
  BY <1>2, <1>3, <1>4 DEF IInv, Lag

LEMMA StepInv == IInv /\ [Next]_vars => IInv'
<1> SUFFICES ASSUME IInv, [Next]_vars PROVE IInv'
  OBVIOUS
<1>0. changes \in 0..MaxChanges
  BY DEF IInv, TypeOK
<1>1. CASE UNCHANGED vars
  <2>1. TypeOK' /\ Routed'
    BY <1>1 DEF vars, IInv, TypeOK, Routed, Target
  <2>2. Lag'
    BY <1>1, QuietLag DEF vars
  <2>3. QED
    BY <2>1, <2>2 DEF IInv
<1>2. ASSUME NEW h \in Handlers, NEW body \in Bodies,
             HandleSubmitTask(h, body) \/ GrpcSubmitTask(h, body)
      PROVE  IInv'
  <2>1. /\ UNCHANGED <<Shared, changes>>
        /\ Reply(h) \/ (body # Malformed /\ body.type # Empty /\ SubmitTask(h, body))
    BY <1>2 DEF HandleSubmitTask, GrpcSubmitTask
  <2>2. QED
    BY <1>0, <2>1, ReplyStep, SubmitStep
<1>3. ASSUME NEW h \in Handlers, BeforeSubmit(h) PROVE IInv'
  <2>1. req[h].pc = "hook" /\ UNCHANGED <<Shared, changes>> /\ (Goto(h, "stale") \/ Reply(h))
    BY <1>3 DEF BeforeSubmit
  <2>2. QED
    BY <1>0, <2>1, GotoStep, ReplyStep
<1>4. ASSUME NEW h \in Handlers, CheckStale(h) PROVE IInv'
  <2>1. req[h].pc = "stale" /\ UNCHANGED <<Shared, changes>>
    BY <1>4 DEF CheckStale
  <2>2. Goto(h, "list") \/ (Goto(h, "decide") /\ age <= RefreshEvery)
    BY <1>4, NumbersNat DEF CheckStale, IInv, TypeOK, Numbers
  <2>3. QED
    BY <1>0, <2>1, <2>2, GotoStep
<1>5. ASSUME NEW h \in Handlers, ListFails(h) PROVE IInv'
  <2>1. req[h].pc = "list" /\ Goto(h, "persist") /\ UNCHANGED Shared /\ Change
    BY <1>5 DEF ListFails
  <2>2. changes' \in 0..MaxChanges
    BY <2>1, ChangeTyped DEF IInv
  <2>3. QED
    BY <2>1, <2>2, GotoStep
<1>6. ASSUME NEW h \in Handlers, Decide(h) PROVE IInv'
  <2>1. /\ req[h].pc = "decide" /\ UNCHANGED <<Shared, changes>>
        /\ Reply(h) \/ req' = [req EXCEPT ![h].pc = "persist", ![h].late = 0]
    BY <1>6 DEF Decide
  <2>2. QED
    BY <1>0, <2>1, PassStep, ReplyStep
<1>7. ASSUME NEW h \in Handlers, Persist(h) PROVE IInv'
  <2>1. Reply(h) /\ UNCHANGED <<Shared, changes>>
    BY <1>7 DEF Persist
  <2>2. QED
    BY <1>0, <2>1, ReplyStep
<1>8. ASSUME NEW w \in Workers, Join(w) \/ Leave(w) PROVE IInv'
  <2>1. reg \cup {w} \in SUBSET Workers /\ reg \ {w} \in SUBSET Workers
    BY DEF IInv, TypeOK
  <2>2. /\ Register(reg \cup {w}) \/ Register(reg \ {w})
        /\ Change /\ UNCHANGED <<queueTypes, age, req>>
    BY <1>8 DEF Join, Leave
  <2>3. QED
    BY <2>1, <2>2, RegisterStep
<1>9. QED
  BY <1>1, <1>2, <1>3, <1>4, <1>5, <1>6, <1>7, <1>8, ListStep, StoreStep, TickStep DEF Next

-----------------------------------------------------------------------------
(* Past the handlers every request has a type and a queue, and the cache   *)
(* names queues and types of workers only, whoever refreshes it.           *)
THEOREM AdmissionTypes == Spec => []TypeOK
<1>1. IInv => TypeOK
  BY DEF IInv
<1>2. QED
  BY <1>1, InitInv, StepInv, PTL DEF Spec

(* Only Decide takes a request out of "decide", and it decides by the      *)
(* cache.                                                                  *)
LEMMA VerdictByCache ==
  ASSUME IInv, Next, NEW h \in Handlers, req[h].pc = "decide", req'[h].pc \in {"idle", "persist"}
  PROVE  req'[h].pc = "persist" <=> Allowed(req[h].queue, req[h].type)
<1>1. Decide(h)
  <2>0. req \in [Handlers -> [pc : {"idle", "hook", "stale", "list", "store", "decide", "persist"},
                              type : Types \cup {Empty}, queue : Queues \cup {Empty},
                              listed : SUBSET Workers, late : 0..MaxHold]]
    BY DEF IInv, TypeOK
  <2> DEFINE Own(g) == Decide(g) \/ (req[g].pc # "decide" /\ \A i \in Handlers \ {g} : req'[i] = req[i])
  <2>1. ASSUME NEW g \in Handlers, NEW body \in Bodies,
               HandleSubmitTask(g, body) \/ GrpcSubmitTask(g, body)
        PROVE  Own(g)
    BY <2>0, <2>1 DEF HandleSubmitTask, GrpcSubmitTask, Reply, SubmitTask
  <2>2. ASSUME NEW g \in Handlers,
               BeforeSubmit(g) \/ CheckStale(g) \/ ListWorkers(g) \/ ListFails(g)
                 \/ StoreTopology(g) \/ Persist(g)
        PROVE  Own(g)
    BY <2>0, <2>2 DEF BeforeSubmit, CheckStale, ListWorkers, ListFails, StoreTopology, Persist,
                      Goto, Reply
  <2>3. ASSUME NEW g \in Handlers, Own(g) PROVE Decide(h)
    <3>1. CASE g = h
      BY <2>3, <3>1
    <3>2. CASE g # h /\ Decide(g)
      <4>1. req'[h] = req[h]
        BY <2>0, <3>2 DEF Decide, Reply
      <4>2. QED
        BY <4>1
    <3>3. CASE g # h /\ ~Decide(g)
      BY <2>3, <3>3
    <3>4. QED
      BY <3>1, <3>2, <3>3
  <2>4. ASSUME NEW w \in Workers, Join(w) \/ Leave(w) PROVE FALSE
    BY <2>4 DEF Join, Leave
  <2>5. ~Tick
    BY <2>0 DEF Tick
  <2>6. QED
    BY <2>1, <2>2, <2>3, <2>4, <2>5 DEF Next
<1>2. Allowed(req[h].queue, req[h].type) => req'[h].pc = "persist"
  BY <1>1 DEF Decide, IInv, TypeOK
<1>3. ~Allowed(req[h].queue, req[h].type) => req'[h] = Idle
  BY <1>1 DEF Decide, Reply, IInv, TypeOK
<1>4. Idle.pc = "idle"
  BY DEF Idle
<1>5. QED
  BY <1>2, <1>3, <1>4

(* At a verdict the cache is wrong about recent news only.                 *)
LEMMA VerdictRecent ==
  ASSUME IInv, NEW h \in Handlers, req[h].pc = "decide"
  PROVE  /\ Target(h) \in Facts /\ Target(h) # Nobody /\ Nobody \in Facts
         /\ \A f \in Facts : (Cached(f) <=> Holds(reg, f)) \/ ~Settled(f)
         /\ Allowed(req[h].queue, req[h].type) <=> Cached(Nobody) \/ Cached(Target(h))
<1>1. Target(h) \in Routes
  BY DEF IInv, Routed
<1>2. Target(h) \in Facts /\ Target(h) # Nobody /\ Nobody \in Facts
  BY <1>1, NobodyNoRoute DEF Facts
<1>3. ASSUME NEW f \in Facts PROVE (Cached(f) <=> Holds(reg, f)) \/ ~Settled(f)
  <2>1. (Cached(f) <=> Holds(reg, f)) \/ since[f] <= RefreshEvery + req[h].late + MaxHold
    BY DEF IInv, Lag, DecideLag
  <2>2. req[h].late \in 0..MaxHold /\ since[f] \in 0..(Horizon + 1)
    BY RequestTyped DEF IInv, TypeOK
  <2>3. QED
    BY <2>1, <2>2, NumbersNat DEF Settled, Horizon, Numbers
<1>4. Target(h).queue = req[h].queue /\ Target(h).type = req[h].type
  BY DEF Target
<1>5. Allowed(req[h].queue, req[h].type) <=> Cached(Nobody) \/ Cached(Target(h))
  BY <1>2, <1>4 DEF Allowed, Cached
<1>6. QED
  BY <1>2, <1>3, <1>5

(* No refusal by old news: when Validate refuses a route, then at some     *)
(* time within RefreshEvery + 2 * MaxHold no worker served it while some   *)
(* worker served another queue, for any number of overlapping refreshes,   *)
(* also ones that store an older list last.                                *)
THEOREM RefusalsJustified == Spec => RefusalJustified
<1> DEFINE Step == \A h \in Handlers : Refused(h) =>
                     /\ ~(Holds(reg, Target(h)) /\ Settled(Target(h)))
                     /\ ~(Holds(reg, Nobody) /\ Settled(Nobody))
<1>1. IInv /\ [Next]_vars => [Step]_vars
  <2> SUFFICES ASSUME IInv, Next, NEW h \in Handlers, Refused(h)
               PROVE  /\ ~(Holds(reg, Target(h)) /\ Settled(Target(h)))
                      /\ ~(Holds(reg, Nobody) /\ Settled(Nobody))
    OBVIOUS
  <2>1. req[h].pc = "decide" /\ req'[h].pc = "idle"
    BY DEF Refused, Idle
  <2>2. ~Allowed(req[h].queue, req[h].type)
    BY <2>1, VerdictByCache
  <2>3. QED
    BY <2>1, <2>2, VerdictRecent
<1>2. QED
  BY <1>1, InitInv, StepInv, PTL DEF Spec, RefusalJustified

(* Nothing passes by old news: what Validate lets pass had a worker, or    *)
(* nobody served any queue, at some time within the same horizon.          *)
THEOREM AdmissionsJustified == Spec => AdmissionJustified
<1> DEFINE Step == \A h \in Handlers : Passed(h) =>
                     \/ Holds(reg, Target(h)) \/ ~Settled(Target(h))
                     \/ Holds(reg, Nobody) \/ ~Settled(Nobody)
<1>1. IInv /\ [Next]_vars => [Step]_vars
  <2> SUFFICES ASSUME IInv, Next, NEW h \in Handlers, Passed(h)
               PROVE  \/ Holds(reg, Target(h)) \/ ~Settled(Target(h))
                      \/ Holds(reg, Nobody) \/ ~Settled(Nobody)
    OBVIOUS
  <2>1. req[h].pc = "decide" /\ req'[h].pc = "persist"
    BY DEF Passed
  <2>2. Allowed(req[h].queue, req[h].type)
    BY <2>1, VerdictByCache
  <2>3. QED
    BY <2>1, <2>2, VerdictRecent
<1>2. QED
  BY <1>1, InitInv, StepInv, PTL DEF Spec, AdmissionJustified
=============================================================================
