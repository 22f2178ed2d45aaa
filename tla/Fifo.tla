--------------------------------- MODULE Fifo ---------------------------------
(***************************************************************************)
(* A queue between threads: what is put in comes out once and in order.    *)
(* The channel is one without a limit, the lock-free ring one with.        *)
(***************************************************************************)
EXTENDS Integers, Sequences

VARIABLES
  items,   \* what is queued; values are numbered in the order put in
  made,    \* values put in
  given,   \* the value last taken out
  room     \* how many values fit, or -1

Init == items = <<>> /\ made = 0 /\ given = 0 /\ room \in Nat \cup {-1}

Put ==
  /\ room = -1 \/ Len(items) < room
  /\ made' = made + 1 /\ items' = Append(items, made')
  /\ UNCHANGED <<given, room>>

Get ==
  /\ items # <<>>
  /\ given' = Head(items) /\ items' = Tail(items)
  /\ UNCHANGED <<made, room>>

Next == Put \/ Get

Spec == Init /\ [][Next]_<<items, made, given, room>>
=============================================================================
