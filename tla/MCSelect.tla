------------------------------ MODULE MCSelect ------------------------------
(* Two children, one of them named twice. *)
EXTENDS Select

CONSTANTS A, B

ABA == <<A, B, A>>
AB == <<A, B>>
=============================================================================
