--------------------------- MODULE TaskLifecycle ----------------------------
(***************************************************************************)
(* What the dispatch machinery promises of one task's state when nobody    *)
(* cancels it and every worker has a handler for it: the transitions of    *)
(* the state table of the entity, one at a time, a terminal state being    *)
(* left only by the deletion of the row.                                   *)
(***************************************************************************)
CONSTANT Tasks
VARIABLE state    \* task -> its state, "absent" without a row

Init == state = [t \in Tasks |-> "absent"]

Move(t, from, to) == state[t] \in from /\ state' = [state EXCEPT ![t] = to]

Submit(t) == Move(t, {"absent"}, "pending")
Start(t) == Move(t, {"pending", "retrying"}, "running")
Finish(t) == \E s \in {"completed", "failed", "retrying"} : Move(t, {"running"}, s)

\* A cleanup may delete several rows.
Purge == \E B \in SUBSET {t \in Tasks : state[t] \in {"completed", "failed"}} :
           state' = [t \in Tasks |-> IF t \in B THEN "absent" ELSE state[t]]

Next == (\E t \in Tasks : Submit(t) \/ Start(t) \/ Finish(t)) \/ Purge

Spec == Init /\ [][Next]_state
=============================================================================
