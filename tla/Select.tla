------------------------------- MODULE Select -------------------------------
(***************************************************************************)
(* select and select-timeout: one interpreter waits for a message of any   *)
(* of the children it names.  The call owns a condition variable on its    *)
(* stack and hangs a pointer to it (selectCv) on the toParent queue of     *)
(* each source; MessageQueue::push copies the pointer under the queue's    *)
(* mutex and notifies it after releasing the mutex, never holding the      *)
(* mutex the selector sleeps with (selectMtx).                             *)
(*                                                                         *)
(* A loop over the sources takes the mutex of one queue at a time, so each *)
(* turn of it is a step.  The condition variable of a call is named by the *)
(* number of the call.                                                     *)
(***************************************************************************)
EXTENDS Integers, Sequences

CONSTANTS
  Children,
  Src,        \* the sources of every call, in order; a child may come twice
  MaxCalls,   \* bound: calls of select
  MaxPosts    \* bound: messages of each child

N == Len(Src)

ASSUME SelectAssumption ==
  Src \in Seq(Children) /\ Src # <<>> /\ MaxCalls \in Nat /\ MaxPosts \in Nat

VARIABLES
  pc,          \* where the selecting thread is
  i,           \* the turn of the loop it is in
  mode,        \* "block" for select, "timed" for select-timeout
  call,        \* number of the last call, and name of its condition variable
  result,      \* what the last call gave: an index from 0, Null or Thrown
  terminated,  \* atomic flag of the selecting interpreter
  queue,       \* messages in toParent of each child
  selectCv,    \* of each toParent; 0 is nullptr
  child,       \* where the thread of each child is
  copied,      \* the pointer push copied
  sent         \* messages each child has posted

selector == <<pc, i, mode, call, result, terminated>>
children == <<queue, selectCv, child, copied, sent>>
vars == <<selector, children>>

Indices == 0 .. N - 1
Null == -1
Thrown == -2

\* The loops of bblSelect, in order, with the sleep inside the predicate's.
PcSet == {"script", "first", "register", "predicate", "asleep", "clear", "last"}

Init ==
  /\ pc = "script" /\ i = 1 /\ mode = "block" /\ call = 0 /\ result = Null
  /\ terminated = FALSE
  /\ queue = [c \in Children |-> 0] /\ selectCv = [c \in Children |-> 0]
  /\ child = [c \in Children |-> "script"]
  /\ copied = [c \in Children |-> 0] /\ sent = [c \in Children |-> 0]

-----------------------------------------------------------------------------
(* The selecting thread. *)

Loop(p) == pc' = p /\ i' = 1
Give(r) == Loop("script") /\ result' = r

\* In loop p, at a source; and past the last one.
In(p) == pc = p /\ i <= N
Past(p) == pc = p /\ i > N
\* Mutant of Skip: the loop's counter is stepped twice.
Skip_Twice == i' = i + 2 /\ UNCHANGED pc
Skip == i' = i + 1 /\ UNCHANGED pc
Ready == queue[Src[i]] > 0

Call(m) ==
  /\ pc = "script" /\ call < MaxCalls
  /\ Loop("first") /\ mode' = m /\ call' = call + 1
  /\ UNCHANGED <<result, terminated, children>>

\* The first look, and the last one after the wait.  What is found ready is
\* the answer; the last look gives null when nothing is.
\* Mutant: the position among the arguments, of which the first is the timeout.
LookReady_Argument(p) ==
  /\ p \in {"first", "last"} /\ In(p) /\ Ready
  /\ Give(i)
  /\ UNCHANGED <<mode, call, terminated, children>>
LookReady(p) ==
  /\ p \in {"first", "last"} /\ In(p) /\ Ready
  /\ Give(i - 1)
  /\ UNCHANGED <<mode, call, terminated, children>>

Look(p) ==
  /\ p \in {"first", "predicate", "last"} /\ In(p) /\ ~Ready
  /\ Skip
  /\ UNCHANGED <<mode, call, result, terminated, children>>

NothingYet ==
  /\ Past("first")
  /\ Loop("register")
  /\ UNCHANGED <<mode, call, result, terminated, children>>

NothingAtLast ==
  /\ Past("last")
  /\ Give(Null)
  /\ UNCHANGED <<mode, call, terminated, children>>

\* The pointer is stored in the queue of each source, and taken back.
\* Mutant of Hang: a pointer is left where there is one.
Hang_First(cv) == selectCv' = [selectCv EXCEPT ![Src[i]] = IF @ = 0 THEN cv ELSE @]
Hang(cv) == selectCv' = [selectCv EXCEPT ![Src[i]] = cv]

Register ==
  /\ In("register")
  /\ Hang(call) /\ Skip
  /\ UNCHANGED <<mode, call, result, terminated, queue, child, copied, sent>>

Registered ==
  /\ Past("register")
  /\ Loop("predicate")
  /\ UNCHANGED <<mode, call, result, terminated, children>>

\* selectCv.wait: the predicate holds for a source that is ready...
PredicateReady ==
  /\ In("predicate") /\ Ready
  /\ Loop("clear")
  /\ UNCHANGED <<mode, call, result, terminated, children>>

\* ... or, in select only, when the interpreter is terminated; otherwise the
\* thread sleeps.
Interrupted == mode = "block" /\ terminated

PredicateTerminated ==
  /\ Past("predicate") /\ Interrupted
  /\ Loop("clear")
  /\ UNCHANGED <<mode, call, result, terminated, children>>

Sleep ==
  /\ Past("predicate") /\ ~Interrupted
  /\ Loop("asleep")
  /\ UNCHANGED <<mode, call, result, terminated, children>>

SpuriousWakeup ==
  /\ pc = "asleep"
  /\ Loop("predicate")
  /\ UNCHANGED <<mode, call, result, terminated, children>>

\* wait_for gives up whatever the predicate says.  Mutant: it does not.
TimeOut_Recheck ==
  /\ pc = "asleep" /\ mode = "timed"
  /\ Loop("predicate")
  /\ UNCHANGED <<mode, call, result, terminated, children>>
TimeOut ==
  /\ pc = "asleep" /\ mode = "timed"
  /\ Loop("clear")
  /\ UNCHANGED <<mode, call, result, terminated, children>>

Clear ==
  /\ In("clear")
  /\ Hang(0) /\ Skip
  /\ UNCHANGED <<mode, call, result, terminated, queue, child, copied, sent>>

\* select throws BblTerminated.
ClearedTerminated ==
  /\ Past("clear") /\ Interrupted
  /\ Give(Thrown)
  /\ UNCHANGED <<mode, call, terminated, children>>

\* Mutant of Cleared: the flag is not looked at after the wait.
Cleared_Unchecked ==
  /\ Past("clear")
  /\ Loop("last")
  /\ UNCHANGED <<mode, call, result, terminated, children>>
Cleared ==
  /\ Past("clear") /\ ~Interrupted
  /\ Loop("last")
  /\ UNCHANGED <<mode, call, result, terminated, children>>

\* Between calls the script receives a message.
TryRecv(c) ==
  /\ pc = "script" /\ queue[c] > 0
  /\ queue' = [queue EXCEPT ![c] = @ - 1]
  /\ result' = Null
  /\ UNCHANGED <<pc, i, mode, call, terminated, selectCv, child, copied, sent>>

-----------------------------------------------------------------------------
(* The other threads. *)

\* MessageQueue::push, up to the release of the mutex; the notification of
\* the queue's own condition variable wakes nobody here.
Post(c) ==
  /\ child[c] = "script" /\ sent[c] < MaxPosts
  /\ queue' = [queue EXCEPT ![c] = @ + 1]
  /\ copied' = [copied EXCEPT ![c] = selectCv[c]]
  /\ sent' = [sent EXCEPT ![c] = @ + 1]
  /\ child' = [child EXCEPT ![c] = IF selectCv[c] = 0 THEN "script" ELSE "notify"]
  /\ UNCHANGED <<selector, selectCv>>

\* notify->notify_one().  When the call is over its condition variable is
\* gone: the notification is then undefined, and wakes nobody.  Mutant: the
\* pointer is copied and not notified.
Notify_Dropped(c) ==
  /\ child[c] = "notify"
  /\ child' = [child EXCEPT ![c] = "script"]
  /\ UNCHANGED <<selector, queue, selectCv, copied, sent>>
Notify(c) ==
  /\ child[c] = "notify"
  /\ child' = [child EXCEPT ![c] = "script"]
  /\ IF pc = "asleep" /\ copied[c] = call THEN Loop("predicate")
                                          ELSE UNCHANGED <<pc, i>>
  /\ UNCHANGED <<mode, call, result, terminated, queue, selectCv, copied, sent>>

\* The thread of a child ends; nothing it does then concerns selectCv.
End(c) ==
  /\ child[c] = "script"
  /\ child' = [child EXCEPT ![c] = "ended"]
  /\ UNCHANGED <<selector, queue, selectCv, copied, sent>>

\* The owner of the selecting interpreter destroys it: the destructor stores
\* the flag and notifies other condition variables than this one.
Terminate ==
  /\ ~terminated
  /\ terminated' = TRUE
  /\ UNCHANGED <<pc, i, mode, call, result, children>>

-----------------------------------------------------------------------------

Run ==
  \/ \E p \in PcSet : LookReady(p) \/ Look(p)
  \/ NothingYet \/ NothingAtLast \/ Register \/ Registered \/ PredicateReady
  \/ PredicateTerminated \/ Sleep \/ TimeOut \/ Clear \/ ClearedTerminated \/ Cleared

Next ==
  \/ Run \/ SpuriousWakeup \/ Terminate
  \/ \E m \in {"block", "timed"} : Call(m)
  \/ \E c \in Children : TryRecv(c) \/ Post(c) \/ Notify(c) \/ End(c)

\* Threads that can run are scheduled.  Scripts owe nothing: neither another
\* call nor another message; and a wait need not wake without a reason.  The
\* deadline of wait_for is absolute: waking early does not put it off.
Fairness ==
  /\ WF_vars(Run) /\ SF_vars(TimeOut)
  /\ \A c \in Children : WF_vars(Notify(c))

Spec == Init /\ [][Next]_vars /\ Fairness

-----------------------------------------------------------------------------
(* Properties. *)

\* Every variable stays in the range the code's types give it.
TypeOK ==
  /\ pc \in PcSet /\ i \in 1 .. N + 1 /\ mode \in {"block", "timed"}
  /\ call \in Nat /\ result \in Indices \cup {Null, Thrown}
  /\ terminated \in BOOLEAN
  /\ queue \in [Children -> Nat] /\ selectCv \in [Children -> Nat]
  /\ child \in [Children -> {"script", "notify", "ended"}]
  /\ copied \in [Children -> Nat] /\ sent \in [Children -> Nat]

\* The index a call gives is the index of a source with a message, and stays
\* so until the script receives one: the recv after a select does not block.
IndexReady ==
  pc = "script" /\ result \in Indices => queue[Src[result + 1]] > 0

\* No queue keeps a pointer to the condition variable of a call that is over,
\* and none keeps that of an older call when a new one sleeps.
PointersOfThisCall ==
  /\ pc \in {"script", "first", "last"} => \A c \in Children : selectCv[c] = 0
  /\ pc \in {"predicate", "asleep"} => \A k \in 1 .. N : selectCv[Src[k]] = call

\* The blocking select does not answer null: what ends its wait is a message,
\* which nobody else takes, or its termination.
SelectGivesIndex ==
  [][pc # "script" /\ pc' = "script" /\ mode = "block" => result' # Null]_vars

\* select-timeout comes back.
TimedReturns == mode = "timed" /\ pc # "script" ~> pc = "script"

\* A notification of the call's own condition variable ends its sleep, and a
\* call that wakes for a message comes back.
NotifiedReturns ==
  \A c \in Children :
    pc = "asleep" /\ child[c] = "notify" /\ copied[c] = call ~> pc = "script"

\* What the documentation says of select: it blocks until a source has a
\* message.  A call does not sleep for ever beside a message.
BlocksUntilMessage ==
  (pc # "script" /\ \E k \in 1 .. N : queue[Src[k]] > 0) ~> pc = "script"
=============================================================================
