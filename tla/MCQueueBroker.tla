---------------------------- MODULE MCQueueBroker ---------------------------
(* Instances of QueueBroker for TLC.  Task t1 is delayed, retries after a  *)
(* backoff and has a long lease; t2 is immediate, retries at once and has  *)
(* the default lease.                                                      *)
EXTENDS QueueBroker

CONSTANTS t1, t2, q1, q2, c1, c2

MCQueueOf == [t \in Tasks |-> IF t = t1 THEN q1 ELSE q2]
MCOneQueue == [c \in Clients |-> <<q1>>]
MCPriority == [t \in Tasks |-> IF t = t1 THEN 5 ELSE 8]
MCMaxRetries == [t \in Tasks |-> 2]
MCDelay == [t \in Tasks |-> IF t = t1 THEN 1 ELSE 0]
MCRetryDelays == [t \in Tasks |-> IF t = t1 THEN {1} ELSE {}]
MCVisibility == [t \in Tasks |-> IF t = t1 THEN 2 ELSE 1]
=============================================================================
