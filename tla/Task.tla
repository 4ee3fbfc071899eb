-------------------------------- MODULE Task --------------------------------
(***************************************************************************)
(* internal/shared/domain/entity/task.go: the task and its states.  Fields *)
(* that no operation changes after submission (queue, priority,            *)
(* max_retries, delay) are constant functions of the id.                   *)
(***************************************************************************)
EXTENDS Integers

CONSTANTS
  Tasks,       \* task ids
  Queues,      \* queue names
  QueueOf,     \* task -> QueueName
  Priority,    \* task -> Priority
  MaxRetries,  \* task -> MaxRetries
  Delay,       \* task -> time from submission to ScheduleAt, or Delay; 0 for neither
  None         \* no value

ASSUME TaskAssumption ==
  /\ QueueOf \in [Tasks -> Queues]
  /\ Priority \in [Tasks -> Int]
  /\ MaxRetries \in [Tasks -> Nat]
  /\ Delay \in [Tasks -> Nat]

TaskState == {"pending", "scheduled", "running", "retrying",
              "completed", "failed", "cancelled", "timeout"}

IsTerminal(s) == s \in {"completed", "failed", "cancelled", "timeout"}

(* A copy of the task: the struct in a process's memory or its JSON in     *)
(* Redis.  Of the fields that change the copy keeps those that tell two    *)
(* copies apart: version, retry_count and updated_at ("stamp").  updated_at *)
(* is 0 in the struct SubmitTask built, whose nanoseconds the DATETIME(3)  *)
(* column does not keep, and the row's value in a struct read from MySQL.  *)
Member == [id : Tasks, version : Nat, retry : Nat, stamp : Nat]

ASSUME NoneAssumption == None \notin Member /\ None \notin Tasks

\* CanRetry, called only on tasks that are not in a terminal state.
CanRetry(m) == m.retry < MaxRetries[m.id]
=============================================================================
