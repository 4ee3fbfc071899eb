---------------------------- MODULE MCRateLimiter ---------------------------
(* Instances of RateLimiter for TLC: q1 is configured, with half a token   *)
(* per tick, q2 gets its Limiter on first use.                             *)
EXTENDS RateLimiter

CONSTANTS c1, c2, q1, q2

MCRate == [q \in Queues |-> IF q = q1 THEN 1 ELSE 2]
MCBurst == [q \in Queues |-> IF q = q1 THEN 2 ELSE 1]
=============================================================================
