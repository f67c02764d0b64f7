--------------------------- MODULE MCCancellation ---------------------------
(* Two threads that request and two that observe and wait. *)
EXTENDS Cancellation

CONSTANTS c1, c2, o1, o2
=============================================================================
