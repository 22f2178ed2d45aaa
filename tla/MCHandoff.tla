------------------------------ MODULE MCHandoff ------------------------------
(* Three threads, of which two are the ends of the ring and the buffer. *)
EXTENDS Handoff

CONSTANTS P, C, D
=============================================================================
