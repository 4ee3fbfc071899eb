----------------------------- MODULE MCDispatch -----------------------------
(* Instances of Dispatch for TLC: one queue; t1 is immediate and retries   *)
(* at once, t2 is delayed and retries after a backoff.                     *)
EXTENDS Dispatch

CONSTANTS t1, t2, q1, c1, c2, w1, w2

MCQueueOf == [t \in Tasks |-> q1]
MCSubscribed == [c \in Clients |-> <<q1>>]
MCPriority == [t \in Tasks |-> 5]
MCMaxRetries == [t \in Tasks |-> 2]
MCDelay == [t \in Tasks |-> IF t = t2 THEN 3 ELSE 0]
MCShortDelay == [t \in Tasks |-> IF t = t2 THEN 1 ELSE 0]
MCRetryDelays == [t \in Tasks |-> IF t = t2 THEN {1} ELSE {}]
MCShortLease == [t \in Tasks |-> 1]
MCLongLease == [t \in Tasks |-> 2]
MCTwoWorkers == [c \in Clients |-> IF c = c1 THEN w1 ELSE w2]
MCOneWorker == [c \in Clients |-> w1]
MCAllHandle == [w \in Workers |-> Tasks]
MCOneHandles == [w \in Workers |-> IF w = w1 THEN Tasks ELSE {}]
=============================================================================
