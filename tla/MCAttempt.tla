----------------------------- MODULE MCAttempt ------------------------------
(* Instances of Attempt for TLC: integers of 6 bits, so that the shift     *)
(* overflows for the larger backoffs, and timeouts on both sides of the    *)
(* default visibility less the buffer.                                     *)
EXTENDS Attempt

MCTimeouts == {-1, 0, 1, 2, 3, 6}
MCBackoffs == {-1, 0, 1, 2, 4, 5, 8}
=============================================================================
