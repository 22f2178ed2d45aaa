---------------------------- MODULE MCChildState ----------------------------
(* Two shapes of the tree of interpreters: one child, and a chain. *)
EXTENDS ChildState

CONSTANTS A, B

Two == [c \in {A} |-> 2]
OneForA == [c \in {A, B} |-> IF c = A THEN 1 ELSE 0]

OneChild  == [c \in {A} |-> Root]
Chain     == [c \in {A, B} |-> IF c = A THEN Root ELSE A]
=============================================================================
