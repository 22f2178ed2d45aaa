----------------------------- MODULE ChildState -----------------------------
(***************************************************************************)
(* The actor runtime of BBL: interpreters that run on threads of their     *)
(* own, each owned by the interpreter that created it (state-new), joined  *)
(* to it by two message queues and taken down by the destructor of its     *)
(* State handle.                                                           *)
(*                                                                         *)
(* Threads are identified with the interpreter they run: thread c runs the *)
(* lambda of bblStateNew, thread Root is the host's.  A section of code    *)
(* under a queue's mutex is one step, except the one place where a thread  *)
(* keeps the mutex between two steps: having evaluated the predicate of a  *)
(* condition wait and found it false, before it sleeps ("checkUp",         *)
(* "checkDown").  A flag stored without the mutex in that window is what   *)
(* the empty critical sections of the code are there for.                  *)
(***************************************************************************)
EXTENDS Integers, Sequences, FiniteSets

CONSTANTS
  Children,   \* every interpreter but the host's
  Root,       \* the host's interpreter
  Parent,     \* the creator of each child
  Waiters,    \* interpreters whose script waits on its children (recv, join)
  Catchers,   \* children whose script runs its calls under try/catch in a loop
  MaxPosts,   \* bound: messages pushed on each queue of a handle
  NoChild

States == Children \cup {Root}

ASSUME TreeAssumption ==
  /\ Root \notin Children /\ NoChild \notin States
  /\ Parent \in [Children -> States]
  /\ Waiters \subseteq States /\ Catchers \subseteq Children
  /\ MaxPosts \in [Children -> Nat]

VARIABLES
  pc,          \* where the thread of each interpreter is
  at,          \* the child whose handle the pending call of a thread is on
  stack,       \* destructor frames of each thread, the innermost last
  life,        \* of each handle and of the child it owns
  toChild,     \* MessageQueue toChild of each handle
  toParent,    \* MessageQueue toParent of each handle
  terminated,  \* atomic flag of each child
  done,        \* atomic flag of each handle
  childError,  \* of each handle
  report       \* what (c:recv) last raised about the end of each child

vars == <<pc, at, stack, life, toChild, toParent, terminated, done, childError,
          report>>
heap == <<life, toChild, toParent, terminated, done, childError, report>>

PcSet == {"unborn", "script", "postDown", "postUp", "checkUp", "sleepUp",
          "wokenUp", "checkDown", "sleepDown", "wokenDown", "join", "caught",
          "failed", "killed", "finished", "signal", "ended", "closing", "closed"}
Frame == [victim : Children,
          step : {"terminate", "wakeChild", "wakeParent", "join", "delete"}]

\* A queue: its messages, numbered in the order pushed, and the numbers of the
\* last one pushed and of the last one popped.
Queue == [msgs : Seq(Nat), sent : Nat, got : Nat]
NoMessages == [msgs |-> <<>>, sent |-> 0, got |-> 0]
Pushed(q) == [msgs |-> Append(q.msgs, q.sent + 1), sent |-> q.sent + 1, got |-> q.got]
\* Mutant: the newest message is taken.
Popped_Newest(q) == [msgs |-> SubSeq(q.msgs, 1, Len(q.msgs) - 1), sent |-> q.sent,
                     got |-> q.msgs[Len(q.msgs)]]
Popped(q) == [msgs |-> Tail(q.msgs), sent |-> q.sent, got |-> Head(q.msgs)]
Empty(q) == q.msgs = <<>>

Init ==
  /\ pc = [s \in States |-> IF s = Root THEN "script" ELSE "unborn"]
  /\ at = [s \in States |-> NoChild]
  /\ stack = [s \in States |-> <<>>]
  /\ life = [c \in Children |-> "unborn"]
  /\ toChild = [c \in Children |-> NoMessages]
  /\ toParent = [c \in Children |-> NoMessages]
  /\ terminated = [c \in Children |-> FALSE]
  /\ done = [c \in Children |-> FALSE]
  /\ childError = [c \in Children |-> "none"]
  /\ report = [c \in Children |-> "none"]

-----------------------------------------------------------------------------
(* Threads, mutexes and condition variables.                               *)

Terminated(s) == s \in Children /\ terminated[s]

\* The thread runs script code: it is in no call and in no destructor.
InScript(s) == pc[s] = "script" /\ stack[s] = <<>>

\* getHandle: the script still holds a State whose data is not null.
Handle(s, c) == Parent[c] = s /\ life[c] = "live"

\* Nobody holds the mutex of the queue across a step.
ToChildFree(c) == pc[c] # "checkUp"
ToParentFree(c) == ~(pc[Parent[c]] = "checkDown" /\ at[Parent[c]] = c)

\* The empty critical sections between the store of a flag and notify_one.
\* Mutants: without them.
PassToChildMutex_None(c) == TRUE
PassToChildMutex(c) == ToChildFree(c)
PassToParentMutex_None(c) == TRUE
PassToParentMutex(c) == ToParentFree(c)

\* notify_one: the only thread that can wait on toChild.cv of c is c, and on
\* toParent.cv of c its parent.
NotifyToChild(c) == [pc EXCEPT ![c] = IF @ = "sleepUp" THEN "wokenUp" ELSE @]
NotifyToParent(c) ==
  [pc EXCEPT ![Parent[c]] = IF @ = "sleepDown" /\ at[Parent[c]] = c
                            THEN "wokenDown" ELSE @]

\* The thread of s goes to p, with a call pending on c's handle.
Goto(s, p) == pc' = [pc EXCEPT ![s] = p] /\ UNCHANGED at
\* Mutant: the receiver of the call is taken for its argument.
GotoAt_Swapped(s, p, c) == pc' = [pc EXCEPT ![s] = p] /\ at' = [at EXCEPT ![s] = s]
GotoAt(s, p, c) == pc' = [pc EXCEPT ![s] = p] /\ at' = [at EXCEPT ![s] = c]
Return(s, p) == GotoAt(s, p, NoChild)

\* Every exception is turned into an error of the running script, the one of
\* a terminated wait included: a try/catch of the script takes it.  Without
\* one the script ends with it; the host stays able to run other scripts.
Raised(s, exception) ==
  IF s \in Catchers \cup {Root} THEN "caught" ELSE exception

Catch(s) == pc[s] = "caught" /\ Goto(s, "script") /\ UNCHANGED <<stack, heap>>

\* cv.wait gives up the mutex and sleeps in one step; it may also wake alone.
Sleep(s) ==
  /\ \/ pc[s] = "checkUp" /\ Goto(s, "sleepUp")
     \/ pc[s] = "checkDown" /\ Goto(s, "sleepDown")
  /\ UNCHANGED <<stack, heap>>

SpuriousWakeup(s) ==
  /\ \/ pc[s] = "sleepUp" /\ Goto(s, "wokenUp")
     \/ pc[s] = "sleepDown" /\ Goto(s, "wokenDown")
  /\ UNCHANGED <<stack, heap>>

-----------------------------------------------------------------------------
(* Calls of the script of s on the handle of its child c.                  *)

\* state-new: the handle is filled in before the thread is started.
StateNew(s, c) ==
  /\ InScript(s) /\ Parent[c] = s /\ life[c] = "unborn"
  /\ life' = [life EXCEPT ![c] = "live"]
  /\ Goto(c, "script")
  /\ UNCHANGED <<stack, toChild, toParent, terminated, done, childError, report>>

\* (c:post table): MessageQueue::push releases the mutex, then notifies.
StatePost(s, c) ==
  /\ InScript(s) /\ Handle(s, c)
  /\ ToChildFree(c) /\ toChild[c].sent < MaxPosts[c]
  /\ toChild' = [toChild EXCEPT ![c] = Pushed(@)]
  /\ GotoAt(s, "postDown", c)
  /\ UNCHANGED <<stack, life, toParent, terminated, done, childError, report>>

StatePostNotify(s) ==
  /\ pc[s] = "postDown"
  /\ pc' = [NotifyToChild(at[s]) EXCEPT ![s] = "script"]
  /\ at' = [at EXCEPT ![s] = NoChild]
  /\ UNCHANGED <<stack, heap>>

\* (c:recv): the wait on toParent.cv, entered by the call or by a wakeup.
InStateRecv(s, c) ==
  \/ s \in Waiters /\ InScript(s) /\ Handle(s, c)
  \/ pc[s] = "wokenDown" /\ at[s] = c

StateRecvWait(s, c) ==
  /\ InStateRecv(s, c)
  /\ Empty(toParent[c]) /\ ~Terminated(s) /\ ~done[c]
  /\ GotoAt(s, "checkDown", c)
  /\ UNCHANGED <<stack, heap>>

StateRecvMessage(s, c) ==
  /\ InStateRecv(s, c)
  /\ ~Empty(toParent[c])
  /\ toParent' = [toParent EXCEPT ![c] = Popped(@)]
  /\ Return(s, "script")
  /\ UNCHANGED <<stack, life, toChild, terminated, done, childError, report>>

StateRecvTerminated(s, c) ==
  /\ InStateRecv(s, c)
  /\ Empty(toParent[c]) /\ Terminated(s)
  /\ Return(s, Raised(s, "killed"))
  /\ UNCHANGED <<stack, heap>>

\* No message is left and the child is done.  Mutant: done is enough.
Drained_Done(c) == done[c]
Drained(c) == Empty(toParent[c]) /\ done[c]

StateRecvExited(s, c) ==
  /\ InStateRecv(s, c)
  /\ Drained(c) /\ ~Terminated(s)
  /\ report' = [report EXCEPT ![c] = IF childError[c] = "none" THEN "exited"
                                     ELSE "error"]
  /\ Return(s, Raised(s, "failed"))
  /\ UNCHANGED <<stack, life, toChild, toParent, terminated, done, childError>>

\* (c:try-recv) with a message there; without, it returns null and that is all.
StateTryRecv(s, c) ==
  /\ InScript(s) /\ Handle(s, c)
  /\ ~Empty(toParent[c])
  /\ toParent' = [toParent EXCEPT ![c] = Popped(@)]
  /\ UNCHANGED <<pc, at, stack, life, toChild, terminated, done, childError, report>>

\* (c:join); on a thread that has ended it returns at once and changes nothing.
StateJoin(s, c) ==
  /\ s \in Waiters /\ InScript(s) /\ Handle(s, c)
  /\ pc[c] # "ended"
  /\ GotoAt(s, "join", c)
  /\ UNCHANGED <<stack, heap>>

StateJoinReturn(s) ==
  /\ pc[s] = "join" /\ pc[at[s]] = "ended"
  /\ Return(s, "script")
  /\ UNCHANGED <<stack, heap>>

-----------------------------------------------------------------------------
(* Flat functions of a child's script.                                     *)

ChildPost(c) ==
  /\ InScript(c)
  /\ ToParentFree(c) /\ toParent[c].sent < MaxPosts[c]
  /\ toParent' = [toParent EXCEPT ![c] = Pushed(@)]
  /\ Goto(c, "postUp")
  /\ UNCHANGED <<stack, life, toChild, terminated, done, childError, report>>

ChildPostNotify(c) ==
  /\ pc[c] = "postUp"
  /\ pc' = [NotifyToParent(c) EXCEPT ![c] = "script"]
  /\ UNCHANGED <<at, stack, heap>>

\* (recv): MessageQueue::pop, entered by the call or by a wakeup.
InChildRecv(c) == InScript(c) \/ pc[c] = "wokenUp"

ChildRecvWait(c) ==
  /\ InChildRecv(c)
  /\ Empty(toChild[c]) /\ ~terminated[c]
  /\ Goto(c, "checkUp")
  /\ UNCHANGED <<stack, heap>>

ChildRecvMessage(c) ==
  /\ InChildRecv(c)
  /\ ~Empty(toChild[c]) /\ ~terminated[c]
  /\ toChild' = [toChild EXCEPT ![c] = Popped(@)]
  /\ Goto(c, "script")
  /\ UNCHANGED <<stack, life, toParent, terminated, done, childError, report>>

ChildRecvTerminated(c) ==
  /\ InChildRecv(c)
  /\ terminated[c]
  /\ Goto(c, Raised(c, "killed"))
  /\ UNCHANGED <<stack, heap>>

-----------------------------------------------------------------------------
(* The end of a child's thread: the lambda of bblStateNew.                 *)

Finish(c) == InScript(c) /\ Goto(c, "finished") /\ UNCHANGED <<stack, heap>>

\* Mutant: done is stored before the error is recorded.
Fail_DoneFirst(c) ==
  /\ InScript(c) /\ Goto(c, "failed") /\ done' = [done EXCEPT ![c] = TRUE]
  /\ UNCHANGED <<stack, life, toChild, toParent, terminated, childError, report>>
Fail(c) ==
  /\ InScript(c) /\ c \notin Catchers
  /\ Goto(c, "failed")
  /\ UNCHANGED <<stack, heap>>

RecordError(c) ==
  /\ pc[c] \in {"failed", "killed"}
  /\ childError' = [childError EXCEPT ![c] = IF pc[c] = "killed" THEN "terminated"
                                             ELSE "error"]
  /\ Goto(c, "finished")
  /\ UNCHANGED <<stack, life, toChild, toParent, terminated, done, report>>

StoreDone(c) ==
  /\ pc[c] = "finished"
  /\ done' = [done EXCEPT ![c] = TRUE]
  /\ Goto(c, "signal")
  /\ UNCHANGED <<stack, life, toChild, toParent, terminated, childError, report>>

SignalParent(c) ==
  /\ pc[c] = "signal"
  /\ PassToParentMutex(c)
  /\ pc' = [NotifyToParent(c) EXCEPT ![c] = "ended"]
  /\ UNCHANGED <<at, stack, heap>>

-----------------------------------------------------------------------------
(* stateDestructor, run by state-destroy, by the end of a with block, by a *)
(* sweep that finds the handle unreachable, and by ~BblState of the owner: *)
(* all of them on the thread of the owner, or of the ancestor destroying   *)
(* the owner.  Frames of nested destructors pile up in "stack".            *)

Top(t) == stack[t][Len(stack[t])]
Victim(t) == Top(t).victim
AtStep(t, step) == stack[t] # <<>> /\ Top(t).step = step
NextStep(t, step) == stack' = [stack EXCEPT ![t][Len(stack[t])].step = step]
Enter(t, c) ==
  stack' = [stack EXCEPT ![t] = Append(@, [victim |-> c, step |-> "terminate"])]
LiveChildren(s) == {c \in Children : Parent[c] = s /\ life[c] = "live"}

StateDestroy(s, c) ==
  /\ InScript(s) /\ Handle(s, c)
  /\ Enter(s, c)
  /\ UNCHANGED <<pc, at, heap>>

DtorTerminate(t) ==
  /\ AtStep(t, "terminate")
  /\ terminated' = [terminated EXCEPT ![Victim(t)] = TRUE]
  /\ NextStep(t, "wakeChild")
  /\ UNCHANGED <<pc, at, life, toChild, toParent, done, childError, report>>

DtorWakeChild(t) ==
  /\ AtStep(t, "wakeChild")
  /\ PassToChildMutex(Victim(t))
  /\ pc' = NotifyToChild(Victim(t))
  /\ NextStep(t, "wakeParent")
  /\ UNCHANGED <<at, heap>>

DtorWakeParent(t) ==
  /\ AtStep(t, "wakeParent")
  /\ PassToParentMutex(Victim(t))
  /\ pc' = NotifyToParent(Victim(t))
  /\ NextStep(t, "join")
  /\ UNCHANGED <<at, heap>>

\* thread.join().  Mutant: the thread is detached.
ThreadOver_Detached(c) == TRUE
ThreadOver(c) == pc[c] = "ended"

DtorJoin(t) ==
  /\ AtStep(t, "join")
  /\ ThreadOver(Victim(t))
  /\ NextStep(t, "delete")
  /\ UNCHANGED <<pc, at, heap>>

\* delete handle->child: ~BblState frees the child's heap, destroying on the
\* way every State userdata it still holds...
DtorNested(t, c) ==
  /\ AtStep(t, "delete")
  /\ c \in LiveChildren(Victim(t))
  /\ Enter(t, c)
  /\ UNCHANGED <<pc, at, heap>>

\* ... and when none is left the child and the handle are gone.
DtorFree(t) ==
  /\ AtStep(t, "delete")
  /\ LiveChildren(Victim(t)) = {}
  /\ life' = [life EXCEPT ![Victim(t)] = "freed"]
  /\ stack' = [stack EXCEPT ![t] = SubSeq(@, 1, Len(@) - 1)]
  /\ UNCHANGED <<pc, at, toChild, toParent, terminated, done, childError, report>>

\* The host destroys its interpreter: ~BblState frees the heap of Root.
Close == InScript(Root) /\ Goto(Root, "closing") /\ UNCHANGED <<stack, heap>>

CloseDestroy(c) ==
  /\ pc[Root] = "closing" /\ stack[Root] = <<>>
  /\ Handle(Root, c)
  /\ Enter(Root, c)
  /\ UNCHANGED <<pc, at, heap>>

Closed ==
  /\ pc[Root] = "closing" /\ stack[Root] = <<>>
  /\ LiveChildren(Root) = {}
  /\ Goto(Root, "closed")
  /\ UNCHANGED <<stack, heap>>

-----------------------------------------------------------------------------

StateRecv(s, c) ==
  \/ StateRecvWait(s, c) \/ StateRecvMessage(s, c)
  \/ StateRecvTerminated(s, c) \/ StateRecvExited(s, c)

OwnerCall(s, c) ==
  \/ StateNew(s, c) \/ StatePost(s, c) \/ StateRecv(s, c) \/ StateTryRecv(s, c)
  \/ StateJoin(s, c) \/ StateDestroy(s, c)

ChildRecv(c) == ChildRecvWait(c) \/ ChildRecvMessage(c) \/ ChildRecvTerminated(c)

Destructor(t) ==
  \/ DtorTerminate(t) \/ DtorWakeChild(t) \/ DtorWakeParent(t) \/ DtorJoin(t)
  \/ DtorFree(t)
  \/ \E c \in Children : DtorNested(t, c)

\* Steps the thread of s takes because its script says so...
Script(s) ==
  \/ \E c \in Children : OwnerCall(s, c)
  \/ s \in Children /\ (ChildPost(s) \/ ChildRecv(s) \/ Finish(s) \/ Fail(s))
  \/ s = Root /\ Close

\* ... and those it takes without asking it.
Runtime(s) ==
  \/ StatePostNotify(s) \/ StateJoinReturn(s) \/ Catch(s) \/ Sleep(s)
  \/ Destructor(s)
  \/ pc[s] = "wokenDown" /\ \E c \in Children : StateRecv(s, c)
  \/ s \in Children /\ (\/ ChildPostNotify(s) \/ RecordError(s) \/ StoreDone(s)
                        \/ SignalParent(s)
                        \/ pc[s] = "wokenUp" /\ ChildRecv(s))
  \/ s = Root /\ (Closed \/ \E c \in Children : CloseDestroy(c))

Next == \E s \in States : Runtime(s) \/ Script(s) \/ SpuriousWakeup(s)

\* The system schedules every thread, and the script of a child does not
\* compute for ever between two calls.  The host may stop calling.
Fairness ==
  /\ \A s \in States : WF_vars(Runtime(s))
  /\ \A c \in Children : WF_vars(Script(c))

Spec == Init /\ [][Next]_vars /\ Fairness

-----------------------------------------------------------------------------
(* Properties.                                                             *)

\* Every variable stays in the range the code's types give it.
TypeOK ==
  /\ pc \in [States -> PcSet]
  /\ at \in [States -> Children \cup {NoChild}]
  /\ stack \in [States -> Seq(Frame)]
  /\ life \in [Children -> {"unborn", "live", "freed"}]
  /\ toChild \in [Children -> Queue] /\ toParent \in [Children -> Queue]
  /\ terminated \in [Children -> BOOLEAN] /\ done \in [Children -> BOOLEAN]
  /\ childError \in [Children -> {"none", "error", "terminated"}]
  /\ report \in [Children -> {"none", "exited", "error"}]

\* A child asleep in (recv) with a reason to run has a notification coming:
\* its parent is about to notify what it pushed, or a destructor has yet to
\* pass its wakeChild step.  No interleaving of push, terminated.store and
\* the wait loses the wakeup.
ChildWakeupComing ==
  \A c \in Children :
    pc[c] = "sleepUp" /\ (~Empty(toChild[c]) \/ terminated[c]) =>
      \/ pc[Parent[c]] = "postDown" /\ at[Parent[c]] = c
      \/ \E t \in States : \E i \in 1 .. Len(stack[t]) :
           stack[t][i] = [victim |-> c, step |-> "wakeChild"]

\* The same for the owner asleep in (c:recv) when c posts or its thread ends.
ParentWakeupComing ==
  \A c \in Children :
    pc[Parent[c]] = "sleepDown" /\ at[Parent[c]] = c
      /\ (~Empty(toParent[c]) \/ done[c]) => pc[c] \in {"postUp", "signal"}

\* While a thread or a destructor can still touch a handle (its queues, its
\* flags, the child it owns) the handle has not been freed, and the
\* interpreter a child was created by outlives the handle of the child.
HandleOutlivesUse ==
  /\ \A c \in Children : life[c] = "freed" => pc[c] = "ended"
  /\ \A s \in States : at[s] # NoChild => life[at[s]] = "live"
  /\ \A t \in States : \A i \in 1 .. Len(stack[t]) :
        life[stack[t][i].victim] = "live"
  /\ \A c, g \in Children : Parent[g] = c /\ life[g] = "live" => life[c] = "live"

\* Two destructors never run on one handle: state-destroy, the collector and
\* the destructor of an ancestor do not meet.
DestroyedOnce ==
  \A t, u \in States : \A i \in 1 .. Len(stack[t]), j \in 1 .. Len(stack[u]) :
    stack[t][i].victim = stack[u][j].victim => t = u /\ i = j

\* (c:recv) says that the child has exited, or failed, only when every
\* message the child posted has been received, and says which truthfully.
DrainedBeforeExit ==
  \A c \in Children : report[c] # "none" =>
    /\ done[c] /\ toParent[c].got = toParent[c].sent
    /\ (report[c] = "error") = (childError[c] # "none")

\* Once is-done answers true, has-error and get-error do not change: the
\* unsynchronised childError is written before done and never after.
ErrorSettledByDone ==
  [][\A c \in Children : done[c] => done'[c] /\ childError'[c] = childError[c]]_vars

\* What the two directions of a handle implement: Mailbox.  The fate of the
\* sender is what the owner can see of it.
Fate(c) == IF ~done[c] THEN "none"
           ELSE IF childError[c] = "none" THEN "exited" ELSE "error"

Up(c) == INSTANCE Mailbox WITH sent <- toParent[c].sent, got <- toParent[c].got,
                               fate <- Fate(c), verdict <- report[c]
Down(c) == INSTANCE Mailbox WITH sent <- toChild[c].sent, got <- toChild[c].got,
                                 fate <- "none", verdict <- "none"

\* Messages from a child to its owner are received once each and in order,
\* and (c:recv) reports the end of the child after all of them.
UpMailbox ==
  /\ \A c \in Children : Up(c)!Init
  /\ [][\A c \in Children :
         [Up(c)!Next]_<<toParent[c].sent, toParent[c].got, Fate(c), report[c]>>]_vars

\* Messages from the owner to a child are received once each and in order.
DownMailbox ==
  /\ \A c \in Children : Down(c)!Init
  /\ [][\A c \in Children : [Down(c)!Next]_<<toChild[c].sent, toChild[c].got>>]_vars

\* A destructor that starts returns: destroying a child does not hang.
DestroyReturns == \A s \in States : stack[s] # <<>> ~> stack[s] = <<>>

BlockedOnOwnChild(s) == AtStep(s, "join") /\ pc[Victim(s)] \in {"sleepDown", "join"}

\* The only thing that keeps a destructor from returning is a victim blocked
\* on a child of its own, in recv or join: nesting destructors, and a victim
\* that is itself destroying, posting or receiving, do not.
DestroyReturnsOrBlocked ==
  \A s \in States : stack[s] # <<>> ~> (stack[s] = <<>> \/ BlockedOnOwnChild(s))

\* The owner blocked in (c:recv) leaves it once the thread of c is done.
RecvReturnsAtExit ==
  \A c \in Children :
    pc[Parent[c]] = "sleepDown" /\ at[Parent[c]] = c /\ done[c] ~> at[Parent[c]] # c
=============================================================================
