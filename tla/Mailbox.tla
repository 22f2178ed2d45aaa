------------------------------- MODULE Mailbox -------------------------------
(***************************************************************************)
(* What one direction of a State handle promises: the messages of a sender *)
(* that may end, with or without an error, are received once each, in the  *)
(* order sent, and the receiver is told about the end only when it has     *)
(* received everything that was sent before it.                            *)
(***************************************************************************)
EXTENDS Naturals

VARIABLES
  sent,     \* messages sent so far
  got,      \* messages received so far; the next is number got + 1
  fate,     \* "none" while the sender runs, then how it ended
  verdict   \* what the receiver was told about the end

Init == sent = 0 /\ got = 0 /\ fate = "none" /\ verdict = "none"

Send ==
  /\ fate = "none"
  /\ sent' = sent + 1
  /\ UNCHANGED <<got, fate, verdict>>

Receive ==
  /\ got < sent
  /\ got' = got + 1
  /\ UNCHANGED <<sent, fate, verdict>>

End ==
  /\ fate = "none"
  /\ fate' \in {"exited", "error"}
  /\ UNCHANGED <<sent, got, verdict>>

Tell ==
  /\ fate # "none" /\ got = sent
  /\ verdict' = fate
  /\ UNCHANGED <<sent, got, fate>>

Next == Send \/ Receive \/ End \/ Tell

Spec == Init /\ [][Next]_<<sent, got, fate, verdict>>
=============================================================================
