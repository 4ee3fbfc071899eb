-------------------------- MODULE MembershipProofs --------------------------
(***************************************************************************)
(* Registration, for any workers, queues, channel and thresholds: the      *)
(* types, and what ties a key in etcd to the lease it was put under and to *)
(* the life of its worker's process (Registry).  The leader only reads the *)
(* registry, so only the workers' steps can disturb it.                    *)
(***************************************************************************)
EXTENDS Membership, TLAPS

WorkerT ==
  /\ proc \in [Workers -> {"down", "granted", "up", "leaving"}]
  /\ lease \in [Workers -> {"none", "kept", "lost"}]
  /\ orphan \in [Workers -> BOOLEAN]
  /\ owner \in [Workers -> Leases]
  /\ pending \in [Workers -> Leases]
  /\ beat \subseteq Workers

KeyT == reg \in [Workers -> Ages \cup {None}]

LeaderT ==
  /\ watch \in {"off", "synced", "on", "lost"}
  /\ events \in Seq(Event) /\ Len(events) <= ChanCap
  /\ view \in [Workers -> Ages \cup {None}]

Types == WorkerT /\ KeyT /\ LeaderT /\ changes \in 0..MaxChanges

(* The parts are the type invariant.                                       *)
LEMMA TypesAre == Types <=> TypeOK
  BY DEF Types, WorkerT, KeyT, LeaderT, TypeOK

(* The registry entry of one worker.  Only a process that came up and has  *)
(* not yet deregistered holds a lease that is renewed; what it leaves      *)
(* behind, its key or a Put on its way, is on record as orphaned.          *)
Entry(w) ==
  /\ owner[w] = "none" <=> reg[w] = None
  /\ owner[w] = "current" => lease[w] = "kept" /\ proc[w] = "up"
  /\ owner[w] = "orphan" => orphan[w]
  /\ lease[w] # "none" => proc[w] \in {"granted", "up"}
  /\ proc[w] = "granted" => pending[w] = "none"
  /\ proc[w] = "up" => pending[w] # "orphan"
  /\ proc[w] = "up" /\ lease[w] = "kept" => owner[w] = "current"

Registry == \A w \in Workers : Entry(w)

-----------------------------------------------------------------------------
(* Types.                                                                  *)

(* A full channel drops the event, so the channel keeps its capacity.      *)
LEMMA SentType ==
  ASSUME LeaderT, NEW w \in Workers, NEW type \in {"joined", "updated", "left"}
  PROVE  Sent(type, w) \in Seq(Event) /\ Len(Sent(type, w)) <= ChanCap
<1>1. [type |-> type, worker |-> w, age |-> 0] \in Event
  BY MembershipAssumption DEF Event, Ages
<1> QED
  BY <1>1, MembershipAssumption DEF Sent, LeaderT

(* What an operation on a key may write.                                   *)
KeysTyped ==
  /\ reg' \in [Workers -> Ages \cup {None}] /\ owner' \in [Workers -> Leases]
  /\ events' \in Seq(Event) /\ Len(events') <= ChanCap

LEMMA KeyTypes ==
  ASSUME Types, NEW w \in Workers
  PROVE  /\ \A l \in Leases : PutKey(w, l) => KeysTyped
         /\ DropKey(w) \/ KeepKey => KeysTyped
<1>1. 0 \in Ages /\ "none" \in Leases
  BY MembershipAssumption DEF Ages, Leases
<1>2. ASSUME NEW l \in Leases, PutKey(w, l) PROVE KeysTyped
  <2>1. reg' \in [Workers -> Ages \cup {None}] /\ owner' \in [Workers -> Leases]
    BY <1>1, <1>2 DEF PutKey, Types, WorkerT, KeyT
  <2>2. events' \in Seq(Event) /\ Len(events') <= ChanCap
    BY <1>2, SentType DEF PutKey, Types
  <2> QED
    BY <2>1, <2>2 DEF KeysTyped
<1>3. CASE DropKey(w)
  <2>1. reg' \in [Workers -> Ages \cup {None}] /\ owner' \in [Workers -> Leases]
    BY <1>1, <1>3 DEF DropKey, Types, WorkerT, KeyT
  <2>2. events' \in Seq(Event) /\ Len(events') <= ChanCap
    BY <1>3, SentType DEF DropKey, Types, LeaderT
  <2> QED
    BY <2>1, <2>2 DEF KeysTyped
<1>4. CASE KeepKey
  BY <1>4 DEF KeepKey, KeysTyped, Types, WorkerT, KeyT, LeaderT
<1> QED
  BY <1>2, <1>3, <1>4

(* The bound on changes holds.                                             *)
LEMMA ChangeType == ASSUME Types, Change PROVE changes' \in 0..MaxChanges
  BY MembershipAssumption DEF Types, Change

(* Each step of a worker keeps the types.                                  *)
LEMMA WorkerTypes == ASSUME Types, NEW w \in Workers, Worker(w) PROVE Types'
<1>1. ASSUME KeysTyped, UNCHANGED <<watch, view>>, changes' = changes \/ Change,
             /\ proc' \in [Workers -> {"down", "granted", "up", "leaving"}]
             /\ lease' \in [Workers -> {"none", "kept", "lost"}]
             /\ orphan' \in [Workers -> BOOLEAN]
             /\ pending' \in [Workers -> Leases] /\ beat' \subseteq Workers
      PROVE  Types'
  BY <1>1, ChangeType DEF Types, KeysTyped, WorkerT, KeyT, LeaderT
<1>2. {"none", "current", "orphan"} = Leases
  BY DEF Leases
<1>3. ASSUME Abandon(w)
      PROVE  /\ KeysTyped /\ lease' \in [Workers -> {"none", "kept", "lost"}]
             /\ orphan' \in [Workers -> BOOLEAN] /\ pending' \in [Workers -> Leases]
  <2>1. owner' \in [Workers -> Leases] /\ pending' \in [Workers -> Leases]
    BY <1>2, <1>3 DEF Abandon, Types, WorkerT
  <2>2. orphan' \in [Workers -> BOOLEAN]
    BY <1>3 DEF Abandon, Types, WorkerT
  <2>3. lease' \in [Workers -> {"none", "kept", "lost"}]
    BY <1>3 DEF Abandon, Types, WorkerT
  <2> QED
    BY <1>3, <2>1, <2>2, <2>3 DEF Abandon, KeysTyped, Types, KeyT, LeaderT
<1>4. CASE Grant(w)
  BY <1>1, <1>4, KeyTypes DEF Grant, Types, WorkerT
<1>5. CASE RegisterPut(w)
  BY <1>1, <1>2, <1>5, KeyTypes DEF RegisterPut, Types, WorkerT
<1>6. CASE Heartbeat(w)
  BY <1>1, <1>2, <1>6, KeyTypes DEF Heartbeat, KeepKey, leaderVars, Types, WorkerT
<1>7. CASE HeartbeatPut(w)
  BY <1>1, <1>2, <1>7, KeyTypes DEF HeartbeatPut, Types, WorkerT
<1>8. CASE LoseLease(w)
  BY <1>1, <1>8, KeyTypes DEF LoseLease, Types, WorkerT
<1>9. CASE RegisterFails(w)
  BY <1>1, <1>3, <1>9 DEF RegisterFails, Types, WorkerT
<1>10. CASE Revoke(w)
  <2>1. CASE Abandon(w)
    BY <1>1, <1>3, <1>10, <2>1 DEF Revoke, Types, WorkerT
  <2>2. CASE lease' = [lease EXCEPT ![w] = "none"] /\ (DropKey(w) \/ KeepKey) /\ UNCHANGED <<orphan, pending>>
    BY <1>1, <1>10, <2>2, KeyTypes DEF Revoke, Types, WorkerT
  <2> QED
    BY <1>10, <2>1, <2>2 DEF Revoke
<1>11. CASE DeleteKey(w)
  BY <1>1, <1>11, KeyTypes DEF DeleteKey, Types, WorkerT
<1>12. CASE Crash(w)
  BY <1>1, <1>3, <1>12 DEF Crash, Types, WorkerT
<1>13. CASE OrphanExpires(w)
  BY <1>1, <1>13, KeyTypes DEF OrphanExpires, Types, WorkerT
<1> QED
  BY <1>4, <1>5, <1>6, <1>7, <1>8, <1>9, <1>10, <1>11, <1>12, <1>13 DEF Worker

(* The leader keeps the types: what it reads from the channel is an age.   *)
LEMMA LeaderTypes == ASSUME Types, Leader PROVE Types'
<1>1. ASSUME UNCHANGED workerVars, changes' = changes \/ Change, LeaderT' PROVE Types'
  BY <1>1, ChangeType DEF Types, WorkerT, KeyT, workerVars
<1>2. CASE SyncWorkers \/ SyncFails \/ WatchWorkers \/ WatchCloses
  BY <1>1, <1>2 DEF SyncWorkers, SyncFails, WatchWorkers, WatchCloses, Types, KeyT, LeaderT
<1>3. CASE HandleWorkerEvent
  <2>1. /\ Head(events) \in Event
        /\ Tail(events) \in Seq(Event) /\ Len(Tail(events)) <= ChanCap
    BY <1>3, MembershipAssumption DEF HandleWorkerEvent, Types, LeaderT
  <2>2. Head(events).worker \in Workers /\ Head(events).age \in Ages
    BY <2>1 DEF Event
  <2>3. view' \in [Workers -> Ages \cup {None}]
    BY <1>3, <2>2 DEF HandleWorkerEvent, Types, LeaderT
  <2> QED
    BY <1>1, <1>3, <2>1, <2>3 DEF HandleWorkerEvent, Types, LeaderT
<1>4. CASE DetectStaleWorkers
  BY <1>1, <1>4 DEF DetectStaleWorkers, Types, LeaderT
<1>5. CASE Depose
  <2>1. <<>> \in Seq(Event) /\ Len(<<>>) <= ChanCap
    BY MembershipAssumption
  <2> QED
    BY <1>1, <1>5, <2>1 DEF Depose, Types, LeaderT
<1> QED
  BY <1>2, <1>3, <1>4, <1>5 DEF Leader

(* So does the clock: an age beyond the threshold is not told from older.  *)
LEMMA TickTypes == ASSUME Types, Tick PROVE Types'
<1>1. ASSUME NEW a \in Ages \cup {None}
      PROVE  (IF a \in Nat /\ a <= StaleAfter THEN a + 1 ELSE a) \in Ages \cup {None}
  BY MembershipAssumption DEF Ages
<1>2. reg' \in [Workers -> Ages \cup {None}] /\ view' \in [Workers -> Ages \cup {None}]
  BY <1>1 DEF Tick, Types, KeyT, LeaderT
<1> QED
  BY <1>2 DEF Tick, Types, WorkerT, KeyT, LeaderT

LEMMA NextTypes == ASSUME Types, [Next]_memberVars PROVE Types'
<1>1. CASE UNCHANGED memberVars
  BY <1>1 DEF memberVars, workerVars, leaderVars, Types, WorkerT, KeyT, LeaderT
<1> QED
  BY <1>1, WorkerTypes, LeaderTypes, TickTypes DEF Next

-----------------------------------------------------------------------------
(* The registry.                                                           *)

(* What a worker does concerns its own entry only.                         *)
SameEntry(w) ==
  /\ proc'[w] = proc[w] /\ lease'[w] = lease[w] /\ orphan'[w] = orphan[w]
  /\ pending'[w] = pending[w] /\ owner'[w] = owner[w]
  /\ reg'[w] = None <=> reg[w] = None

LEMMA EntryStays == ASSUME NEW w, Entry(w), SameEntry(w) PROVE Entry(w)'
  BY DEF Entry, SameEntry

(* The fields of the key after Put and Delete.                             *)
LEMMA KeyFields ==
  ASSUME Types, NEW w \in Workers
  PROVE  /\ \A l : PutKey(w, l) => reg'[w] # None /\ owner'[w] = l
         /\ DropKey(w) => reg'[w] = None /\ owner'[w] = "none"
         /\ KeepKey => reg'[w] = reg[w] /\ owner'[w] = owner[w]
  BY MembershipAssumption DEF PutKey, DropKey, KeepKey, Types, WorkerT, KeyT

LEMMA AbandonFields ==
  ASSUME Types, NEW w \in Workers, Abandon(w)
  PROVE  /\ lease'[w] = "none" /\ reg'[w] = reg[w]
         /\ orphan'[w] <=> orphan[w] \/ lease[w] = "kept"
         /\ owner'[w] = IF owner[w] = "current" THEN "orphan" ELSE owner[w]
         /\ pending'[w] = IF pending[w] = "current" THEN "orphan" ELSE pending[w]
  BY DEF Abandon, Types, WorkerT

(* Another worker's entry.                                                 *)
LEMMA OtherEntries ==
  ASSUME Types, NEW u \in Workers, Worker(u), NEW w \in Workers, w # u PROVE SameEntry(w)
<1>1. (\E l : PutKey(u, l)) \/ DropKey(u) \/ KeepKey => reg'[w] = reg[w] /\ owner'[w] = owner[w]
  BY DEF PutKey, DropKey, KeepKey, Types, WorkerT, KeyT
<1>2. Abandon(u) => /\ lease'[w] = lease[w] /\ orphan'[w] = orphan[w] /\ pending'[w] = pending[w]
                    /\ owner'[w] = owner[w] /\ reg'[w] = reg[w]
  BY DEF Abandon, Types, WorkerT
<1>3. CASE Grant(u) \/ RegisterPut(u) \/ HeartbeatPut(u)
  BY <1>1, <1>3 DEF Grant, RegisterPut, HeartbeatPut, SameEntry, Types, WorkerT
<1>4. CASE Heartbeat(u)
  BY <1>4 DEF Heartbeat, SameEntry, Types, WorkerT
<1>5. CASE LoseLease(u) \/ DeleteKey(u) \/ OrphanExpires(u)
  BY <1>1, <1>5 DEF LoseLease, DeleteKey, OrphanExpires, SameEntry, Types, WorkerT
<1>6. CASE RegisterFails(u) \/ Crash(u)
  BY <1>2, <1>6 DEF RegisterFails, Crash, SameEntry, Types, WorkerT
<1>7. CASE Revoke(u)
  BY <1>1, <1>2, <1>7 DEF Revoke, SameEntry, Types, WorkerT
<1> QED
  BY <1>3, <1>4, <1>5, <1>6, <1>7 DEF Worker

(* Its own.                                                                *)
LEMMA OwnEntry == ASSUME Types, NEW w \in Workers, Worker(w), Entry(w) PROVE Entry(w)'
<1>1. CASE Grant(w)
  BY <1>1, KeyFields DEF Grant, Entry, Types, WorkerT
<1>2. CASE RegisterPut(w)
  BY <1>2, KeyFields DEF RegisterPut, Entry, Types, WorkerT
<1>3. CASE Heartbeat(w)
  BY <1>3 DEF Heartbeat, Entry, Types, WorkerT
<1>4. CASE HeartbeatPut(w)
  BY <1>4, KeyFields DEF HeartbeatPut, Entry, Types, WorkerT
<1>5. CASE LoseLease(w)
  BY <1>5, KeyFields DEF LoseLease, Entry, Types, WorkerT
<1>6. CASE RegisterFails(w) \/ Crash(w)
  BY <1>6, AbandonFields DEF RegisterFails, Crash, Entry, Types, WorkerT
<1>7. CASE Revoke(w)
  BY <1>7, AbandonFields, KeyFields DEF Revoke, Entry, Types, WorkerT
<1>8. CASE DeleteKey(w)
  BY <1>8, KeyFields DEF DeleteKey, Entry, Types, WorkerT
<1>9. CASE OrphanExpires(w)
  BY <1>9, KeyFields DEF OrphanExpires, Entry, Types, WorkerT
<1> QED
  BY <1>1, <1>2, <1>3, <1>4, <1>5, <1>6, <1>7, <1>8, <1>9 DEF Worker

(* The leader leaves the registry alone; the clock only ages the keys.     *)
LEMMA RegistryStep == ASSUME Types, Registry, [Next]_memberVars PROVE Registry'
<1> SUFFICES ASSUME NEW w \in Workers PROVE Entry(w)'
  BY DEF Registry
<1>1. Entry(w)
  BY DEF Registry
<1>2. ASSUME NEW u \in Workers, Worker(u) PROVE Entry(w)'
  BY <1>1, <1>2, OwnEntry, OtherEntries, EntryStays
<1>3. CASE Leader \/ UNCHANGED memberVars
  <2>1. UNCHANGED workerVars
    BY <1>3 DEF Leader, SyncWorkers, SyncFails, WatchWorkers, WatchCloses, HandleWorkerEvent,
       DetectStaleWorkers, Depose, memberVars
  <2> QED
    BY <1>1, <2>1, EntryStays DEF SameEntry, workerVars
<1>4. CASE Tick
  <2>1. reg'[w] = None <=> reg[w] = None
    BY <1>4, MembershipAssumption DEF Tick, Types, KeyT, Ages
  <2> QED
    BY <1>1, <1>4, <2>1, EntryStays DEF Tick, SameEntry
<1> QED
  BY <1>2, <1>3, <1>4 DEF Next

(* The inductive invariant.                                                *)
THEOREM MembershipSafe == Spec => [](TypeOK /\ Registry)
<1>1. Init => Types /\ Registry
  <2>1. Init => Types
    BY MembershipAssumption DEF Init, Types, WorkerT, KeyT, LeaderT, Leases
  <2>2. Init => Registry
    BY DEF Init, Registry, Entry
  <2> QED
    BY <2>1, <2>2
<1>2. Types /\ Registry /\ [Next]_memberVars => Types' /\ Registry'
  BY NextTypes, RegistryStep
<1> QED
  BY <1>1, <1>2, TypesAre, PTL DEF Spec

(* Types, and the channel of WatchWorkers within its capacity, whatever is *)
(* sent to it.                                                             *)
THEOREM MembershipTypes == Spec => []TypeOK
  BY MembershipSafe, PTL

(* No key outlives every lease: what Revoke, a crash or a late heartbeat   *)
(* leaves in etcd hangs on a lease that nobody renews.                     *)
THEOREM EveryKeyLeased == Spec => []KeysLeased
<1>1. TypeOK /\ Registry => KeysLeased
  <2> SUFFICES ASSUME TypeOK, NEW w \in Workers, Entry(w), reg[w] # None
               PROVE  \/ owner[w] = "current" /\ lease[w] = "kept" /\ proc[w] = "up"
                      \/ owner[w] = "orphan" /\ orphan[w]
    BY DEF Registry, KeysLeased
  <2>1. owner[w] \in {"current", "orphan"}
    BY DEF TypeOK, Leases, Entry
  <2> QED
    BY <2>1 DEF Entry
<1> QED
  BY <1>1, MembershipSafe, PTL

(* A worker that runs and renews its lease is in the registry, however     *)
(* often its id was used before, and whatever its earlier lives left.      *)
THEOREM LiveWorkersRegistered == Spec => []LiveRegistered
<1>1. Registry => LiveRegistered
  BY DEF Registry, Entry, LiveRegistered
<1> QED
  BY <1>1, MembershipSafe, PTL
=============================================================================
