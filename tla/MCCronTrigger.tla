---------------------------- MODULE MCCronTrigger ---------------------------
(* Instances of CronTrigger for TLC: j1 runs every tick, j2 every second   *)
(* tick; both have the same type.                                          *)
EXTENDS CronTrigger

CONSTANTS j1, j2, s1, s2

MCKindOf == [j \in Jobs |-> "k"]
MCNextAfter(j, n) == IF j = j1 THEN n + 1 ELSE 2 * ((n \div 2) + 1)
=============================================================================
