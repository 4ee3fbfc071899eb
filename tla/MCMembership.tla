---------------------------- MODULE MCMembership ----------------------------
(* Instances of Membership for TLC: each worker has a queue of its own.    *)
EXTENDS Membership

CONSTANTS w1, w2, q0, q1, q2

MCQueuesOf == [w \in Workers |-> IF w = w1 THEN {q1} ELSE {q2}]
=============================================================================
