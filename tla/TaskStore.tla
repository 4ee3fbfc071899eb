----------------------------- MODULE TaskStore ------------------------------
(***************************************************************************)
(* The tasks table and the operations of                                   *)
(* internal/shared/infrastructure/persistence/mysql/task_repository.go on  *)
(* it.  Each is one SQL statement, hence one step.  updated and finished   *)
(* are times of the model's clock; finished is 0 while finished_at is NULL. *)
(***************************************************************************)
EXTENDS Task, FiniteSets

VARIABLE rows   \* task id -> row, or None

Row == [state : TaskState, version : Nat, retry : Nat, updated : Nat, finished : Nat]

ASSUME StoreAssumption == None \notin Row

StoreTypeOK == rows \in [Tasks -> Row \cup {None}]

StoreInit == rows = [t \in Tasks |-> None]

\* gorm writes the column default 1 of version back into the struct.
Create(t, time) ==
  /\ rows[t] = None
  /\ rows' = [rows EXCEPT ![t] = [state |-> "pending", version |-> 1, retry |-> 0,
                                  updated |-> time, finished |-> 0]]

\* What Get returns, seen as a struct in memory.
Loaded(t) == [id |-> t, version |-> rows[t].version, retry |-> rows[t].retry,
              stamp |-> rows[t].updated]

StateOf(t) == IF rows[t] = None THEN "absent" ELSE rows[t].state

GotTerminal(t) == rows[t] # None /\ IsTerminal(rows[t].state)

\* Mutant: no optimistic lock.
MatchesAnyVersion(m) == rows[m.id] # None

\* WHERE id = ? AND version = oldVersion, for a struct m of version oldVersion.
Matches(m) == rows[m.id] # None /\ rows[m.id].version = m.version

(* The table after an Update that matched.  Updates(struct) skips fields   *)
(* that are zero in the struct; finished_at is set with a terminal state.  *)
Written(m, state, time) ==
  [rows EXCEPT ![m.id] =
     [state |-> state,
      version |-> m.version + 1,
      retry |-> IF m.retry = 0 THEN @.retry ELSE m.retry,
      updated |-> time,
      finished |-> IF IsTerminal(state) THEN time ELSE @.finished]]

\* Update raises Version in the caller's struct before it knows the outcome.
Bumped(m) == [m EXCEPT !.version = @ + 1]

UpdateOk(m, state, time) == Matches(m) /\ rows' = Written(m, state, time)

UpdateConflict(m) == ~Matches(m) /\ UNCHANGED rows

\* The call fails: the statement did not run, or it did and the answer was lost.
UpdateFails(m, state, time) == UNCHANGED rows \/ UpdateOk(m, state, time)

\* Mutant: the scan looks for the wrong state.
FindScheduled(threshold, limit) == {{t \in Tasks : rows[t] # None /\ rows[t].state = "scheduled"}}

\* Mutant: the age of the row is not looked at.
FindAnyAge(threshold, limit) ==
  LET stale == {t \in Tasks : rows[t] # None /\ rows[t].state = "pending"}
  IN  {B \in SUBSET stale : Cardinality(B) = limit \/ (B = stale /\ Cardinality(B) < limit)}

\* FindStaleByState(Pending): the oldest rows first, at most limit of them.
FindStale(threshold, limit) ==
  LET stale == {t \in Tasks : /\ rows[t] # None /\ rows[t].state = "pending"
                              /\ rows[t].updated < threshold}
  IN  {B \in SUBSET stale :
         /\ Cardinality(B) = limit \/ (B = stale /\ Cardinality(B) < limit)
         /\ \A t \in B, u \in stale \ B : rows[t].updated <= rows[u].updated}

\* version is left alone.
TouchUpdatedAt(t, time) ==
  rows' = IF rows[t] = None THEN rows ELSE [rows EXCEPT ![t].updated = time]

\* At most limit terminal rows finished before the threshold, in any order.
DeleteTerminalOlderThan(threshold, limit) ==
  LET old == {t \in Tasks : GotTerminal(t) /\ rows[t].finished < threshold} IN
  \E B \in SUBSET old :
    /\ B # {}
    /\ Cardinality(B) = limit \/ (B = old /\ Cardinality(B) < limit)
    /\ rows' = [t \in Tasks |-> IF t \in B THEN None ELSE rows[t]]
=============================================================================
