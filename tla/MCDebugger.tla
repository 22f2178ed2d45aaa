------------------------------ MODULE MCDebugger ------------------------------
(* A script of four lines, two of them in a function it calls. *)
EXTENDS Debugger

CallAndReturn == <<0, 1, 1, 0>>
Breaks == {{}, {2}, {1, 3}}
=============================================================================
