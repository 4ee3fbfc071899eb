---------------------------- MODULE MCAdmission -----------------------------
(* Instances of Admission for TLC: w1 and w2 share the default queue with  *)
(* different types, and w2 has a queue of its own.                         *)
EXTENDS Admission

CONSTANTS h1, h2, w1, w2, qd, q2, ta, tb

MCProto == [h \in Handlers |-> IF h = h1 THEN "http" ELSE "grpc"]
MCQueuesOf == [w \in Workers |-> IF w = w1 THEN {qd} ELSE {qd, q2}]
MCTypesOf == [w \in Workers |-> IF w = w1 THEN {ta} ELSE {tb}]
MCBodies == {Malformed, [type |-> Empty, queue |-> Empty], [type |-> tb, queue |-> Empty],
             [type |-> ta, queue |-> qd]}
=============================================================================
