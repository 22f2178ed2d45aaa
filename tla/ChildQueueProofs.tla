-------------------------- MODULE ChildQueueProofs --------------------------
(* What the two queues between a child and its owner promise: no           *)
(* interleaving loses a wakeup of either, each direction is a Mailbox, and *)
(* a child's error is settled by the time done can be read.                *)
EXTENDS ChildStateProofs

-----------------------------------------------------------------------------
(* The owner in (c:recv). *)

\* Between the predicate and the sleep the owner holds the mutex of toParent:
\* no message can have come, and the thread of c, if it stored done since, is
\* still to pass through the mutex.
OwnerInv ==
  /\ \A c \in Children : ~ToParentFree(c) =>
        Empty(toParent[c]) /\ (done[c] => pc[c] = "signal")
  /\ ParentWakeupComing

LEMMA OwnerNext ==
  ASSUME TypeOK, ThreadInv, OwnerInv, [Next]_vars PROVE OwnerInv'
  <1> USE TreeAssumption DEF TypeOK, ThreadInv, OwnerInv, ParentWakeupComing,
                             ToParentFree, States, heap, InScript
  <1> USE DEF Goto, GotoAt, Return, Raised, NotifyToChild, NotifyToParent
  <1>1. CASE UNCHANGED vars
    BY <1>1 DEF vars
  <1>2. ASSUME NEW s \in States, NEW c \in Children, StepOfOwner(s, c) PROVE OwnerInv'
    <2>1. CASE StateNew(s, c)
      BY <2>1 DEF StateNew
    <2>2. CASE StatePost(s, c)
      BY <2>2 DEF StatePost
    <2>3. CASE StateRecvWait(s, c)
      BY <2>3 DEF StateRecvWait, InStateRecv
    <2>4. CASE StateRecvMessage(s, c)
      BY <2>4 DEF StateRecvMessage, InStateRecv
    <2>5. CASE StateRecvTerminated(s, c)
      BY <2>5 DEF StateRecvTerminated, InStateRecv
    <2>6. CASE StateRecvExited(s, c)
      BY <2>6 DEF StateRecvExited, InStateRecv
    <2>7. CASE StateTryRecv(s, c)
      BY <2>7 DEF StateTryRecv
    <2>8. CASE StateJoin(s, c)
      BY <2>8 DEF StateJoin
    <2> QED
      BY <1>2, <2>1, <2>2, <2>3, <2>4, <2>5, <2>6, <2>7, <2>8 DEF StepOfOwner
  <1>3. ASSUME NEW s \in States, StepOfThread(s) PROVE OwnerInv'
    <2>1. CASE StatePostNotify(s)
      BY <2>1 DEF StatePostNotify
    <2>2. CASE StateJoinReturn(s)
      BY <2>2 DEF StateJoinReturn
    <2>3. CASE Catch(s)
      BY <2>3 DEF Catch
    <2>4. CASE Sleep(s)
      <3>1. CASE pc[s] = "checkUp" /\ Goto(s, "sleepUp")
        BY <2>4, <3>1 DEF Sleep
      <3>2. CASE pc[s] = "checkDown" /\ Goto(s, "sleepDown")
        BY <2>4, <3>2 DEF Sleep
      <3> QED
        BY <2>4, <3>1, <3>2 DEF Sleep
    <2>5. CASE SpuriousWakeup(s)
      <3>1. CASE pc[s] = "sleepUp" /\ Goto(s, "wokenUp")
        BY <2>5, <3>1 DEF SpuriousWakeup
      <3>2. CASE pc[s] = "sleepDown" /\ Goto(s, "wokenDown")
        BY <2>5, <3>2 DEF SpuriousWakeup
      <3> QED
        BY <2>5, <3>1, <3>2 DEF SpuriousWakeup
    <2> QED
      BY <1>3, <2>1, <2>2, <2>3, <2>4, <2>5 DEF StepOfThread
  <1>4. ASSUME NEW c \in Children, StepOfChild(c) PROVE OwnerInv'
    <2>1. CASE ChildPost(c)
      BY <2>1 DEF ChildPost
    <2>2. CASE ChildPostNotify(c)
      <3>1. ASSUME NEW d \in States PROVE
              pc'[d] = IF d = c THEN "script"
                       ELSE IF d = Parent[c] /\ pc[d] = "sleepDown" /\ at[d] = c
                       THEN "wokenDown" ELSE pc[d]
        BY <2>2 DEF ChildPostNotify
      <3>2. UNCHANGED <<at, toParent, done>>
        BY <2>2 DEF ChildPostNotify
      <3>3. ASSUME NEW d \in Children, ~ToParentFree(d)' PROVE
              Empty(toParent[d])' /\ (done[d]' => pc[d]' = "signal")
        BY <2>2, <3>1, <3>2, <3>3 DEF ChildPostNotify
      <3>4. ASSUME NEW d \in Children, pc'[Parent[d]] = "sleepDown", at[Parent[d]] = d
            PROVE pc[Parent[d]] = "sleepDown" /\ d # c
        <4>1. Parent[d] \in States /\ c \in States /\ Parent[c] \in States
          OBVIOUS
        <4>2. pc'[Parent[d]] = IF Parent[d] = c THEN "script"
                               ELSE IF Parent[d] = Parent[c] /\ pc[Parent[d]] = "sleepDown" /\ at[Parent[d]] = c
                               THEN "wokenDown" ELSE pc[Parent[d]]
          BY <4>1, <3>1
        <4> QED
          BY <3>4, <4>2
      <3>5. ASSUME NEW d \in Children, d # c, pc[d] \in {"postUp", "signal"}
            PROVE pc'[d] = pc[d]
        BY <3>1, <3>5
      <3>6. ParentWakeupComing'
        BY <3>2, <3>4, <3>5
      <3> QED
        BY <3>3, <3>6
    <2>3. CASE ChildRecvWait(c)
      BY <2>3 DEF ChildRecvWait, InChildRecv
    <2>4. CASE ChildRecvMessage(c)
      BY <2>4 DEF ChildRecvMessage, InChildRecv
    <2>5. CASE ChildRecvTerminated(c)
      BY <2>5 DEF ChildRecvTerminated, InChildRecv
    <2>6. CASE Finish(c)
      BY <2>6 DEF Finish
    <2>7. CASE Fail(c)
      BY <2>7 DEF Fail
    <2>8. CASE RecordError(c)
      BY <2>8 DEF RecordError
    <2>9. CASE StoreDone(c)
      BY <2>9 DEF StoreDone
    <2>10. CASE SignalParent(c)
      <3>1. ASSUME NEW d \in States PROVE
              pc'[d] = IF d = c THEN "ended"
                       ELSE IF d = Parent[c] /\ pc[d] = "sleepDown" /\ at[d] = c
                       THEN "wokenDown" ELSE pc[d]
        BY <2>10 DEF SignalParent
      <3>2. UNCHANGED <<at, toParent, done>>
        BY <2>10 DEF SignalParent
      <3>3. ASSUME NEW d \in Children, ~ToParentFree(d)' PROVE
              Empty(toParent[d])' /\ (done[d]' => pc[d]' = "signal")
        BY <2>10, <3>1, <3>2, <3>3 DEF SignalParent, PassToParentMutex
      <3>4. ASSUME NEW d \in Children, pc'[Parent[d]] = "sleepDown", at[Parent[d]] = d
            PROVE pc[Parent[d]] = "sleepDown" /\ d # c
        <4>1. Parent[d] \in States /\ c \in States /\ Parent[c] \in States
          OBVIOUS
        <4>2. pc'[Parent[d]] = IF Parent[d] = c THEN "ended"
                               ELSE IF Parent[d] = Parent[c] /\ pc[Parent[d]] = "sleepDown" /\ at[Parent[d]] = c
                               THEN "wokenDown" ELSE pc[Parent[d]]
          BY <4>1, <3>1
        <4> QED
          BY <3>4, <4>2
      <3>5. ASSUME NEW d \in Children, d # c, pc[d] \in {"postUp", "signal"}
            PROVE pc'[d] = pc[d]
        BY <3>1, <3>5
      <3>6. ParentWakeupComing'
        BY <3>2, <3>4, <3>5
      <3> QED
        BY <3>3, <3>6
    <2> QED
      BY <1>4, <2>1, <2>2, <2>3, <2>4, <2>5, <2>6, <2>7, <2>8, <2>9, <2>10 DEF StepOfChild
  <1>5. ASSUME NEW t \in States, NEW c \in Children, Begin(t, c) PROVE OwnerInv'
    <2>1. CASE StateDestroy(t, c)
      BY <2>1 DEF StateDestroy
    <2>2. CASE DtorNested(t, c)
      BY <2>2 DEF DtorNested
    <2>3. CASE t = Root /\ CloseDestroy(c)
      BY <2>3 DEF CloseDestroy
    <2> QED
      BY <1>5, <2>1, <2>2, <2>3 DEF Begin
  <1>6. ASSUME NEW t \in States, StepOfDestructor(t) PROVE OwnerInv'
    <2>1. CASE DtorTerminate(t)
      BY <2>1 DEF DtorTerminate
    <2>2. CASE DtorWakeChild(t)
      BY <2>2 DEF DtorWakeChild
    <2>3. CASE DtorWakeParent(t)
      BY <2>3 DEF DtorWakeParent
    <2>4. CASE DtorJoin(t)
      BY <2>4 DEF DtorJoin
    <2>5. CASE DtorFree(t)
      BY <2>5 DEF DtorFree
    <2> QED
      BY <1>6, <2>1, <2>2, <2>3, <2>4, <2>5 DEF StepOfDestructor
  <1>7. CASE Close
    BY <1>7 DEF Close
  <1>8. CASE Closed
    BY <1>8 DEF Closed
  <1> QED
    BY <1>1, <1>2, <1>3, <1>4, <1>5, <1>6, <1>7, <1>8, NextCases

LEMMA OwnerInvariant == Spec => []OwnerInv
  <1>1. Init => OwnerInv
    BY TreeAssumption DEF Init, OwnerInv, ParentWakeupComing, ToParentFree, States
  <1>2. TypeOK /\ ThreadInv /\ OwnerInv /\ [Next]_vars => OwnerInv'
    BY OwnerNext
  <1> QED
    BY <1>1, <1>2, TypeCorrect, ThreadsEnd, PTL DEF Spec

\* The owner asleep in (c:recv) with a message there or the child done has a
\* notification coming.
THEOREM ParentWakeup == Spec => []ParentWakeupComing
  <1>1. OwnerInv => ParentWakeupComing
    BY DEF OwnerInv
  <1> QED
    BY <1>1, OwnerInvariant, PTL

-----------------------------------------------------------------------------
(* The child in (recv). *)

\* A destructor of c has stored terminated and not notified c yet.
Pending(c) ==
  \E t \in States : \E i \in 1 .. Len(stack[t]) :
    stack[t][i] = [victim |-> c, step |-> "wakeChild"]

\* Between the predicate and the sleep the child holds the mutex of toChild:
\* no message can have come, and a destructor that stored terminated since is
\* still to pass through the mutex.
ChildInv ==
  /\ \A c \in Children : ~ToChildFree(c) =>
        Empty(toChild[c]) /\ (terminated[c] => Pending(c))
  /\ \A c \in Children : pc[c] = "sleepUp" =>
        /\ ~Empty(toChild[c]) => \/ pc[Parent[c]] = "postDown" /\ at[Parent[c]] = c
                                 \/ Pending(c)
        /\ terminated[c] => \/ pc[Parent[c]] = "postDown" /\ at[Parent[c]] = c
                           \/ Pending(c)

\* The destructor code of one thread leaves the frames it does not work on.
LEMMA PendingSame ==
  ASSUME UNCHANGED stack PROVE \A c \in Children : Pending(c)' = Pending(c)
  BY DEF Pending

LEMMA VictimType ==
  ASSUME TypeOK, NEW t \in States, stack[t] # <<>>
  PROVE  Top(t) \in Frame /\ Victim(t) \in Children /\ Len(stack[t]) \in 1 .. Len(stack[t])
  <1>1. stack[t] \in Seq(Frame) /\ Len(stack[t]) \in Nat /\ Len(stack[t]) >= 1
    BY EmptySeq, LenProperties DEF TypeOK
  <1>2. Top(t) \in Frame
    BY <1>1, ElementOfSeq DEF Top
  <1> QED
    BY <1>1, <1>2 DEF Victim, Frame

LEMMA PendingStep ==
  ASSUME TypeOK, NEW t \in States, stack[t] # <<>>,
         NEW step \in {"wakeChild", "wakeParent", "join", "delete"}, NextStep(t, step),
         NEW c \in Children, Pending(c), Top(t) # [victim |-> c, step |-> "wakeChild"]
  PROVE  Pending(c)'
  <1>0. PICK u \in States : \E i \in 1 .. Len(stack[u]) :
           stack[u][i] = [victim |-> c, step |-> "wakeChild"]
    BY DEF Pending
  <1>1. PICK i \in 1 .. Len(stack[u]) :
           stack[u][i] = [victim |-> c, step |-> "wakeChild"]
    BY <1>0
  <1>2. <<u, i>> # <<t, Len(stack[t])>>
    BY <1>1 DEF Top
  <1>3. stack'[u][i] = stack[u][i] /\ Len(stack'[t]) = Len(stack[t])
    BY <1>1, <1>2, NextStepType DEF TypeOK
  <1>4. i \in 1 .. Len(stack'[u])
    BY <1>3 DEF NextStep, TypeOK
  <1> QED
    BY <1>1, <1>3, <1>4 DEF Pending

LEMMA PendingNew ==
  ASSUME TypeOK, NEW t \in States, stack[t] # <<>>, NextStep(t, "wakeChild"),
         NEW c, c = Victim(t)
  PROVE  Pending(c)'
  <1>1. /\ Len(stack'[t]) = Len(stack[t])
        /\ stack'[t][Len(stack[t])] = [victim |-> Victim(t), step |-> "wakeChild"]
    BY NextStepType DEF TypeOK
  <1>2. Len(stack[t]) \in 1 .. Len(stack'[t])
    BY <1>1, VictimType
  <1> QED
    BY <1>1, <1>2 DEF Pending

LEMMA PendingFree ==
  ASSUME TypeOK, NEW t \in States, DtorFree(t), NEW c \in Children, Pending(c)
  PROVE  Pending(c)'
  <1> DEFINE n == Len(stack[t])
  <1>0. PICK u \in States : \E i \in 1 .. Len(stack[u]) :
           stack[u][i] = [victim |-> c, step |-> "wakeChild"]
    BY DEF Pending
  <1>1. PICK i \in 1 .. Len(stack[u]) :
           stack[u][i] = [victim |-> c, step |-> "wakeChild"]
    BY <1>0
  <1>2. <<u, i>> # <<t, n>> /\ stack[t] # <<>>
    BY <1>1 DEF DtorFree, AtStep, Top
  <1>3. /\ Len(SubSeq(stack[t], 1, n - 1)) = n - 1
        /\ \A j \in 1 .. n - 1 : SubSeq(stack[t], 1, n - 1)[j] = stack[t][j]
    <2>1. stack[t] \in Seq(Frame) /\ n \in Nat /\ n >= 1
      BY <1>2, EmptySeq, LenProperties DEF TypeOK
    <2> QED
      BY <2>1, SubSeqProperties
  <1>4. stack' = [stack EXCEPT ![t] = SubSeq(stack[t], 1, n - 1)]
    BY DEF DtorFree
  <1>5. i \in 1 .. Len(stack'[u]) /\ stack'[u][i] = stack[u][i]
    BY <1>1, <1>2, <1>3, <1>4, VictimType DEF TypeOK
  <1> QED
    BY <1>1, <1>5 DEF Pending

LEMMA PendingEnter ==
  ASSUME TypeOK, ChildInv, NEW t \in States, NEW c \in Children,
         Enter(t, c), UNCHANGED <<pc, at, heap>>
  PROVE  ChildInv'
  <1>1. ASSUME NEW d \in Children, Pending(d) PROVE Pending(d)'
    <2>0. PICK u \in States : \E i \in 1 .. Len(stack[u]) :
             stack[u][i] = [victim |-> d, step |-> "wakeChild"]
      BY <1>1 DEF Pending
    <2>1. PICK i \in 1 .. Len(stack[u]) :
             stack[u][i] = [victim |-> d, step |-> "wakeChild"]
      BY <2>0
    <2>2. stack'[u][i] = stack[u][i] /\ Len(stack'[t]) = Len(stack[t]) + 1
      BY <2>1, EnterType DEF TypeOK
    <2>3. i \in 1 .. Len(stack'[u])
      BY <2>1, <2>2, LenProperties DEF Enter, TypeOK
    <2> QED
      BY <2>1, <2>2, <2>3 DEF Pending
  <1> QED
    BY <1>1 DEF ChildInv, ToChildFree, heap, TypeOK

LEMMA ChildNext ==
  ASSUME TypeOK, ThreadInv, ChildInv, [Next]_vars PROVE ChildInv'
  <1> USE TreeAssumption, PendingSame DEF TypeOK, ThreadInv, ChildInv, ToChildFree, States, heap,
                             InScript
  <1> USE DEF Goto, GotoAt, Return, Raised, NotifyToChild, NotifyToParent
  <1>1. CASE UNCHANGED vars
    BY <1>1 DEF vars
  <1>2. ASSUME NEW s \in States, NEW c \in Children, StepOfOwner(s, c) PROVE ChildInv'
    <2>1. CASE StateNew(s, c)
      BY <2>1 DEF StateNew
    <2>2. CASE StatePost(s, c)
      BY <2>2 DEF StatePost, Handle
    <2>3. CASE StateRecvWait(s, c)
      BY <2>3 DEF StateRecvWait, InStateRecv
    <2>4. CASE StateRecvMessage(s, c)
      BY <2>4 DEF StateRecvMessage, InStateRecv
    <2>5. CASE StateRecvTerminated(s, c)
      BY <2>5 DEF StateRecvTerminated, InStateRecv
    <2>6. CASE StateRecvExited(s, c)
      BY <2>6 DEF StateRecvExited, InStateRecv
    <2>7. CASE StateTryRecv(s, c)
      BY <2>7 DEF StateTryRecv
    <2>8. CASE StateJoin(s, c)
      BY <2>8 DEF StateJoin
    <2> QED
      BY <1>2, <2>1, <2>2, <2>3, <2>4, <2>5, <2>6, <2>7, <2>8 DEF StepOfOwner
  <1>3. ASSUME NEW s \in States, StepOfThread(s) PROVE ChildInv'
    <2>1. CASE StatePostNotify(s)
      BY <2>1 DEF StatePostNotify
    <2>2. CASE StateJoinReturn(s)
      BY <2>2 DEF StateJoinReturn
    <2>3. CASE Catch(s)
      BY <2>3 DEF Catch
    <2>4. CASE Sleep(s)
      <3>1. CASE pc[s] = "checkUp" /\ Goto(s, "sleepUp")
        BY <2>4, <3>1 DEF Sleep
      <3>2. CASE pc[s] = "checkDown" /\ Goto(s, "sleepDown")
        BY <2>4, <3>2 DEF Sleep
      <3> QED
        BY <2>4, <3>1, <3>2 DEF Sleep
    <2>5. CASE SpuriousWakeup(s)
      <3>1. CASE pc[s] = "sleepUp" /\ Goto(s, "wokenUp")
        BY <2>5, <3>1 DEF SpuriousWakeup
      <3>2. CASE pc[s] = "sleepDown" /\ Goto(s, "wokenDown")
        BY <2>5, <3>2 DEF SpuriousWakeup
      <3> QED
        BY <2>5, <3>1, <3>2 DEF SpuriousWakeup
    <2> QED
      BY <1>3, <2>1, <2>2, <2>3, <2>4, <2>5 DEF StepOfThread
  <1>4. ASSUME NEW c \in Children, StepOfChild(c) PROVE ChildInv'
    <2>1. CASE ChildPost(c)
      BY <2>1 DEF ChildPost
    <2>2. CASE ChildPostNotify(c)
      BY <2>2 DEF ChildPostNotify
    <2>3. CASE ChildRecvWait(c)
      BY <2>3 DEF ChildRecvWait, InChildRecv
    <2>4. CASE ChildRecvMessage(c)
      BY <2>4 DEF ChildRecvMessage, InChildRecv
    <2>5. CASE ChildRecvTerminated(c)
      BY <2>5 DEF ChildRecvTerminated, InChildRecv
    <2>6. CASE Finish(c)
      BY <2>6 DEF Finish
    <2>7. CASE Fail(c)
      BY <2>7 DEF Fail
    <2>8. CASE RecordError(c)
      BY <2>8 DEF RecordError
    <2>9. CASE StoreDone(c)
      BY <2>9 DEF StoreDone
    <2>10. CASE SignalParent(c)
      BY <2>10 DEF SignalParent
    <2> QED
      BY <1>4, <2>1, <2>2, <2>3, <2>4, <2>5, <2>6, <2>7, <2>8, <2>9, <2>10 DEF StepOfChild
  <1>5. ASSUME NEW t \in States, NEW c \in Children, Begin(t, c) PROVE ChildInv'
    <2>1. CASE StateDestroy(t, c)
      <3>1. Enter(t, c) /\ UNCHANGED <<pc, at, heap>>
        BY <2>1 DEF StateDestroy
      <3> QED
        BY <3>1, PendingEnter
    <2>2. CASE DtorNested(t, c)
      <3>1. Enter(t, c) /\ UNCHANGED <<pc, at, heap>>
        BY <2>2 DEF DtorNested
      <3> QED
        BY <3>1, PendingEnter
    <2>3. CASE t = Root /\ CloseDestroy(c)
      <3>1. Enter(t, c) /\ UNCHANGED <<pc, at, heap>>
        BY <2>3 DEF CloseDestroy
      <3> QED
        BY <3>1, PendingEnter
    <2> QED
      BY <1>5, <2>1, <2>2, <2>3 DEF Begin
  <1>6. ASSUME NEW t \in States, StepOfDestructor(t) PROVE ChildInv'
    <2>1. CASE DtorTerminate(t)
      <3>1. \A d \in Children : Pending(d) \/ d = Victim(t) => Pending(d)'
        BY <2>1, PendingStep, PendingNew DEF DtorTerminate, AtStep
      <3> QED
        BY <2>1, <3>1 DEF DtorTerminate
    <2>2. CASE DtorWakeChild(t)
      <3>1. \A d \in Children \ {Victim(t)} : Pending(d) => Pending(d)'
        BY <2>2, PendingStep DEF DtorWakeChild, AtStep, Victim
      <3>2. Victim(t) \in Children
        BY <2>2, VictimType DEF DtorWakeChild, AtStep
      <3> QED
        BY <2>2, <3>1, <3>2 DEF DtorWakeChild, PassToChildMutex
    <2>3. CASE DtorWakeParent(t)
      <3>1. \A d \in Children : Pending(d) => Pending(d)'
        BY <2>3, PendingStep DEF DtorWakeParent, AtStep
      <3> QED
        BY <2>3, <3>1 DEF DtorWakeParent
    <2>4. CASE DtorJoin(t)
      <3>1. \A d \in Children : Pending(d) => Pending(d)'
        BY <2>4, PendingStep DEF DtorJoin, AtStep
      <3> QED
        BY <2>4, <3>1 DEF DtorJoin
    <2>5. CASE DtorFree(t)
      <3>1. \A d \in Children : Pending(d) => Pending(d)'
        BY <2>5, PendingFree
      <3> QED
        BY <2>5, <3>1 DEF DtorFree
    <2> QED
      BY <1>6, <2>1, <2>2, <2>3, <2>4, <2>5 DEF StepOfDestructor
  <1>7. CASE Close
    BY <1>7 DEF Close
  <1>8. CASE Closed
    BY <1>8 DEF Closed
  <1> QED
    BY <1>1, <1>2, <1>3, <1>4, <1>5, <1>6, <1>7, <1>8, NextCases

LEMMA ChildInvariant == Spec => []ChildInv
  <1>1. Init => ChildInv
    BY TreeAssumption DEF Init, ChildInv, ToChildFree, States
  <1>2. TypeOK /\ ThreadInv /\ ChildInv /\ [Next]_vars => ChildInv'
    BY ChildNext
  <1> QED
    BY <1>1, <1>2, TypeCorrect, ThreadsEnd, PTL DEF Spec

\* The child asleep in (recv) with a message there or terminated has a
\* notification coming.
THEOREM ChildWakeup == Spec => []ChildWakeupComing
  <1>1. ChildInv => ChildWakeupComing
    BY DEF ChildInv, ChildWakeupComing, Pending
  <1> QED
    BY <1>1, ChildInvariant, PTL

-----------------------------------------------------------------------------
(* Queues keep the messages in the order pushed. *)

\* The queue holds exactly the messages pushed and not popped, oldest first.
InOrder(q) ==
  /\ Len(q.msgs) = q.sent - q.got
  /\ \A i \in 1 .. Len(q.msgs) : q.msgs[i] = q.got + i

LEMMA PushedInOrder ==
  ASSUME NEW q \in Queue, InOrder(q) PROVE InOrder(Pushed(q))
  <1>1. /\ q.msgs \in Seq(Nat) /\ q.sent \in Nat /\ q.got \in Nat
        /\ Len(q.msgs) \in Nat
    BY LenProperties DEF Queue
  <1> DEFINE m == Append(q.msgs, q.sent + 1)
  <1>2. /\ Len(m) = Len(q.msgs) + 1 /\ m[Len(q.msgs) + 1] = q.sent + 1
        /\ \A i \in 1 .. Len(q.msgs) : m[i] = q.msgs[i]
    BY <1>1, AppendProperties
  <1>3. Len(m) = (q.sent + 1) - q.got
    BY <1>1, <1>2 DEF InOrder
  <1>4. ASSUME NEW i \in 1 .. Len(m) PROVE m[i] = q.got + i
    <2>1. CASE i = Len(q.msgs) + 1
      BY <1>1, <1>2, <2>1 DEF InOrder
    <2>2. CASE i # Len(q.msgs) + 1
      <3>1. i \in 1 .. Len(q.msgs)
        BY <1>1, <1>2, <2>2
      <3> QED
        BY <1>2, <3>1 DEF InOrder
    <2> QED
      BY <2>1, <2>2
  <1>5. Pushed(q) = [msgs |-> m, sent |-> q.sent + 1, got |-> q.got]
    BY DEF Pushed
  <1> HIDE DEF m
  <1> QED
    BY <1>3, <1>4, <1>5 DEF InOrder

LEMMA PoppedInOrder ==
  ASSUME NEW q \in Queue, InOrder(q), ~Empty(q)
  PROVE  /\ InOrder(Popped(q))
         /\ q.got < q.sent /\ Popped(q).got = q.got + 1 /\ Popped(q).sent = q.sent
  <1>1. /\ q.msgs \in Seq(Nat) /\ q.msgs # <<>> /\ q.sent \in Nat /\ q.got \in Nat
        /\ Len(q.msgs) \in Nat /\ Len(q.msgs) >= 1
    BY LenProperties, EmptySeq DEF Queue, Empty
  <1>2. /\ Head(q.msgs) = q.msgs[1]
        /\ Len(Tail(q.msgs)) = Len(q.msgs) - 1
        /\ \A i \in 1 .. Len(Tail(q.msgs)) : Tail(q.msgs)[i] = q.msgs[i + 1]
    BY <1>1, HeadTailProperties
  <1>3. Head(q.msgs) = q.got + 1
    BY <1>1, <1>2 DEF InOrder
  <1> DEFINE m == Tail(q.msgs)
  <1>4. Len(m) = q.sent - (q.got + 1)
    BY <1>1, <1>2 DEF InOrder
  <1>5. ASSUME NEW i \in 1 .. Len(m) PROVE m[i] = (q.got + 1) + i
    <2>1. i + 1 \in 1 .. Len(q.msgs) /\ m[i] = q.msgs[i + 1]
      BY <1>1, <1>2
    <2>2. q.msgs[i + 1] = q.got + (i + 1)
      BY <2>1 DEF InOrder
    <2> QED
      BY <1>1, <2>1, <2>2
  <1>6. Popped(q) = [msgs |-> m, sent |-> q.sent, got |-> q.got + 1]
    BY <1>3 DEF Popped
  <1>7. q.got < q.sent
    BY <1>1 DEF InOrder
  <1> HIDE DEF m
  <1> QED
    BY <1>4, <1>5, <1>6, <1>7 DEF InOrder

LEMMA EmptyInOrder ==
  ASSUME NEW q \in Queue, InOrder(q), Empty(q) PROVE q.got = q.sent
  BY EmptySeq DEF InOrder, Empty, Queue

-----------------------------------------------------------------------------
(* What a step does to the two queues and the end of a child. *)

DeliveryInv ==
  /\ \A c \in Children : InOrder(toChild[c]) /\ InOrder(toParent[c])
  /\ DrainedBeforeExit

\* The five things a step can do to the messages and the end of a child; all
\* but Recorded, Stored and Told leave the end alone.
EndKept == UNCHANGED <<done, childError, report>>
Quiet == UNCHANGED <<toChild, toParent>> /\ EndKept
PushDown(c) == toChild' = [toChild EXCEPT ![c] = Pushed(@)] /\ UNCHANGED toParent /\ EndKept
PopDown(c) ==
  /\ ~Empty(toChild[c]) /\ toChild' = [toChild EXCEPT ![c] = Popped(@)]
  /\ UNCHANGED toParent /\ EndKept
PushUp(c) ==
  /\ ~done[c] /\ toParent' = [toParent EXCEPT ![c] = Pushed(@)]
  /\ UNCHANGED toChild /\ EndKept
PopUp(c) ==
  /\ ~Empty(toParent[c]) /\ toParent' = [toParent EXCEPT ![c] = Popped(@)]
  /\ UNCHANGED toChild /\ EndKept
Recorded(c) ==
  /\ ~done[c]
  /\ \E e \in {"error", "terminated"} : childError' = [childError EXCEPT ![c] = e]
  /\ UNCHANGED <<toChild, toParent, done, report>>
Stored(c) ==
  /\ ~done[c] /\ done' = [done EXCEPT ![c] = TRUE]
  /\ UNCHANGED <<toChild, toParent, childError, report>>
Told(c) ==
  /\ done[c] /\ Empty(toParent[c])
  /\ report' = [report EXCEPT ![c] = IF childError[c] = "none" THEN "exited" ELSE "error"]
  /\ UNCHANGED <<toChild, toParent, done, childError>>

Effect ==
  \/ Quiet
  \/ \E c \in Children : \/ PushDown(c) \/ PopDown(c) \/ PushUp(c) \/ PopUp(c)
                         \/ Recorded(c) \/ Stored(c) \/ Told(c)

LEMMA NextEffect == ASSUME TypeOK, ThreadInv, [Next]_vars PROVE Effect
  <1> USE TreeAssumption DEF Effect, EndKept, heap, States
  <1>1. CASE UNCHANGED vars
    BY <1>1 DEF vars, Quiet
  <1>2. ASSUME NEW s \in States, NEW c \in Children, StepOfOwner(s, c) PROVE Effect
    <2>1. CASE StateNew(s, c)
      BY <2>1 DEF StateNew, Quiet
    <2>2. CASE StatePost(s, c)
      BY <2>2 DEF StatePost, PushDown
    <2>3. CASE StateRecvWait(s, c)
      BY <2>3 DEF StateRecvWait, InStateRecv, Quiet
    <2>4. CASE StateRecvMessage(s, c)
      BY <2>4 DEF StateRecvMessage, InStateRecv, PopUp
    <2>5. CASE StateRecvTerminated(s, c)
      BY <2>5 DEF StateRecvTerminated, InStateRecv, Quiet
    <2>6. CASE StateRecvExited(s, c)
      BY <2>6 DEF StateRecvExited, InStateRecv, Told, Drained
    <2>7. CASE StateTryRecv(s, c)
      BY <2>7 DEF StateTryRecv, PopUp
    <2>8. CASE StateJoin(s, c)
      BY <2>8 DEF StateJoin, Quiet
    <2> QED
      BY <1>2, <2>1, <2>2, <2>3, <2>4, <2>5, <2>6, <2>7, <2>8 DEF StepOfOwner
  <1>3. ASSUME NEW s \in States, StepOfThread(s) PROVE Effect
    <2>1. CASE StatePostNotify(s)
      BY <2>1 DEF StatePostNotify, Quiet
    <2>2. CASE StateJoinReturn(s)
      BY <2>2 DEF StateJoinReturn, Quiet
    <2>3. CASE Catch(s)
      BY <2>3 DEF Catch, Quiet
    <2>4. CASE Sleep(s)
      BY <2>4 DEF Sleep, Quiet
    <2>5. CASE SpuriousWakeup(s)
      BY <2>5 DEF SpuriousWakeup, Quiet
    <2> QED
      BY <1>3, <2>1, <2>2, <2>3, <2>4, <2>5 DEF StepOfThread
  <1>4. ASSUME NEW c \in Children, StepOfChild(c) PROVE Effect
    <2>1. CASE ChildPost(c)
      BY <2>1 DEF ChildPost, PushUp, ThreadInv, InScript
    <2>2. CASE ChildPostNotify(c)
      BY <2>2 DEF ChildPostNotify, Quiet
    <2>3. CASE ChildRecvWait(c)
      BY <2>3 DEF ChildRecvWait, InChildRecv, Quiet
    <2>4. CASE ChildRecvMessage(c)
      BY <2>4 DEF ChildRecvMessage, InChildRecv, PopDown
    <2>5. CASE ChildRecvTerminated(c)
      BY <2>5 DEF ChildRecvTerminated, InChildRecv, Quiet
    <2>6. CASE Finish(c)
      BY <2>6 DEF Finish, Quiet
    <2>7. CASE Fail(c)
      BY <2>7 DEF Fail, Quiet
    <2>8. CASE RecordError(c)
      BY <2>8 DEF RecordError, Recorded, ThreadInv
    <2>9. CASE StoreDone(c)
      BY <2>9 DEF StoreDone, Stored, ThreadInv
    <2>10. CASE SignalParent(c)
      BY <2>10 DEF SignalParent, Quiet
    <2> QED
      BY <1>4, <2>1, <2>2, <2>3, <2>4, <2>5, <2>6, <2>7, <2>8, <2>9, <2>10 DEF StepOfChild
  <1>5. ASSUME NEW t \in States, NEW c \in Children, Begin(t, c) PROVE Effect
    <2>1. CASE StateDestroy(t, c)
      BY <2>1 DEF StateDestroy, Quiet
    <2>2. CASE DtorNested(t, c)
      BY <2>2 DEF DtorNested, Quiet
    <2>3. CASE t = Root /\ CloseDestroy(c)
      BY <2>3 DEF CloseDestroy, Quiet
    <2> QED
      BY <1>5, <2>1, <2>2, <2>3 DEF Begin
  <1>6. ASSUME NEW t \in States, StepOfDestructor(t) PROVE Effect
    <2>1. CASE DtorTerminate(t)
      BY <2>1 DEF DtorTerminate, Quiet
    <2>2. CASE DtorWakeChild(t)
      BY <2>2 DEF DtorWakeChild, Quiet
    <2>3. CASE DtorWakeParent(t)
      BY <2>3 DEF DtorWakeParent, Quiet
    <2>4. CASE DtorJoin(t)
      BY <2>4 DEF DtorJoin, Quiet
    <2>5. CASE DtorFree(t)
      BY <2>5 DEF DtorFree, Quiet
    <2> QED
      BY <1>6, <2>1, <2>2, <2>3, <2>4, <2>5 DEF StepOfDestructor
  <1>7. CASE Close \/ Closed
    BY <1>7 DEF Close, Closed, Quiet
  <1> QED
    BY <1>1, <1>2, <1>3, <1>4, <1>5, <1>6, <1>7, NextCases

-----------------------------------------------------------------------------
(* Messages are received before the end is reported. *)

LEMMA DeliveryNext ==
  ASSUME TypeOK, TypeOK', DeliveryInv, Effect PROVE DeliveryInv'
  <1> USE DEF DeliveryInv, DrainedBeforeExit, TypeOK, EndKept
  <1>1. CASE Quiet
    BY <1>1 DEF Quiet
  <1>2. ASSUME NEW c \in Children, PushDown(c) PROVE DeliveryInv'
    BY <1>2, PushedInOrder DEF PushDown
  <1>3. ASSUME NEW c \in Children, PopDown(c) PROVE DeliveryInv'
    BY <1>3, PoppedInOrder DEF PopDown
  <1>4. ASSUME NEW c \in Children, PushUp(c) PROVE DeliveryInv'
    BY <1>4, PushedInOrder DEF PushUp
  <1>5. ASSUME NEW c \in Children, PopUp(c) PROVE DeliveryInv'
    <2>1. toParent[c].got # toParent[c].sent /\ InOrder(Popped(toParent[c]))
      BY <1>5, PoppedInOrder DEF PopUp, Queue
    <2> QED
      BY <1>5, <2>1 DEF PopUp
  <1>6. ASSUME NEW c \in Children, Recorded(c) PROVE DeliveryInv'
    BY <1>6 DEF Recorded
  <1>7. ASSUME NEW c \in Children, Stored(c) PROVE DeliveryInv'
    BY <1>7 DEF Stored
  <1>8. ASSUME NEW c \in Children, Told(c) PROVE DeliveryInv'
    BY <1>8, EmptyInOrder DEF Told
  <1> QED
    BY <1>1, <1>2, <1>3, <1>4, <1>5, <1>6, <1>7, <1>8 DEF Effect

LEMMA DeliveryInvariant == Spec => []DeliveryInv
  <1>1. Init => DeliveryInv
    BY DEF Init, DeliveryInv, DrainedBeforeExit, InOrder, NoMessages
  <1>2. TypeOK /\ TypeOK' /\ ThreadInv /\ DeliveryInv /\ [Next]_vars => DeliveryInv'
    BY NextEffect, DeliveryNext
  <1> QED
    BY <1>1, <1>2, TypeCorrect, ThreadsEnd, PTL DEF Spec

\* (c:recv) reports the end of a child only when every message of the child
\* has been received, and tells an error from an exit.
THEOREM DrainedFirst == Spec => []DrainedBeforeExit
  <1>1. DeliveryInv => DrainedBeforeExit
    BY DEF DeliveryInv
  <1> QED
    BY <1>1, DeliveryInvariant, PTL

\* Once is-done answers true, the error read without a lock does not change.
THEOREM ErrorSettled == Spec => ErrorSettledByDone
  <1> DEFINE Settled == \A c \in Children : done[c] => done'[c] /\ childError'[c] = childError[c]
  <1>1. ASSUME TypeOK, Effect PROVE Settled
    BY <1>1 DEF Effect, Quiet, EndKept, PushDown, PopDown, PushUp, PopUp, Recorded,
                Stored, Told, TypeOK
  <1>2. TypeOK /\ ThreadInv /\ [Next]_vars => [Settled]_vars
    BY <1>1, NextEffect
  <1> QED
    BY <1>2, TypeCorrect, ThreadsEnd, PTL DEF Spec, ErrorSettledByDone

-----------------------------------------------------------------------------
(* Both directions of a handle implement Mailbox. *)

UpStep(c) == [Up(c)!Next]_<<toParent[c].sent, toParent[c].got, Fate(c), report[c]>>
DownStep(c) == [Down(c)!Next]_<<toChild[c].sent, toChild[c].got>>

LEMMA EffectUp ==
  ASSUME TypeOK, DeliveryInv, Effect, NEW d \in Children PROVE UpStep(d)
  <1> USE DEF UpStep, Up!Next, Fate, EndKept, TypeOK, DeliveryInv
  <1>1. CASE Quiet
    BY <1>1 DEF Quiet
  <1>2. ASSUME NEW c \in Children, PushDown(c) \/ PopDown(c) PROVE UpStep(d)
    BY <1>2 DEF PushDown, PopDown
  <1>3. ASSUME NEW c \in Children, PushUp(c) PROVE UpStep(d)
    BY <1>3 DEF PushUp, Pushed, Up!Send, Queue
  <1>4. ASSUME NEW c \in Children, PopUp(c) PROVE UpStep(d)
    BY <1>4, PoppedInOrder DEF PopUp, Up!Receive
  <1>5. ASSUME NEW c \in Children, Recorded(c) PROVE UpStep(d)
    BY <1>5 DEF Recorded
  <1>6. ASSUME NEW c \in Children, Stored(c) PROVE UpStep(d)
    BY <1>6 DEF Stored, Up!End
  <1>7. ASSUME NEW c \in Children, Told(c) PROVE UpStep(d)
    BY <1>7, EmptyInOrder DEF Told, Up!Tell
  <1> QED
    BY <1>1, <1>2, <1>3, <1>4, <1>5, <1>6, <1>7 DEF Effect

LEMMA EffectDown ==
  ASSUME TypeOK, DeliveryInv, Effect, NEW d \in Children PROVE DownStep(d)
  <1> USE DEF DownStep, Down!Next, EndKept, TypeOK, DeliveryInv
  <1>1. CASE UNCHANGED toChild
    BY <1>1
  <1>2. ASSUME NEW c \in Children, PushDown(c) PROVE DownStep(d)
    BY <1>2 DEF PushDown, Pushed, Down!Send, Queue
  <1>3. ASSUME NEW c \in Children, PopDown(c) PROVE DownStep(d)
    BY <1>3, PoppedInOrder DEF PopDown, Down!Receive
  <1> QED
    BY <1>1, <1>2, <1>3 DEF Effect, Quiet, PushUp, PopUp, Recorded, Stored, Told

\* The owner receives the messages of a child once each, in order, and learns
\* of its end after all of them.
THEOREM UpImplementsMailbox == Spec => UpMailbox
  <1>1. Init => \A c \in Children : Up(c)!Init
    BY DEF Init, Up!Init, Fate, NoMessages
  <1>2. TypeOK /\ ThreadInv /\ DeliveryInv /\ [Next]_vars => \A c \in Children : UpStep(c)
    BY NextEffect, EffectUp
  <1> QED
    BY <1>1, <1>2, TypeCorrect, ThreadsEnd, DeliveryInvariant, PTL
       DEF Spec, UpMailbox, UpStep

\* A child receives the messages of its owner once each, in order.
THEOREM DownImplementsMailbox == Spec => DownMailbox
  <1>1. Init => \A c \in Children : Down(c)!Init
    BY DEF Init, Down!Init, NoMessages
  <1>2. TypeOK /\ ThreadInv /\ DeliveryInv /\ [Next]_vars => \A c \in Children : DownStep(c)
    BY NextEffect, EffectDown
  <1> QED
    BY <1>1, <1>2, TypeCorrect, ThreadsEnd, DeliveryInvariant, PTL
       DEF Spec, DownMailbox, DownStep
=============================================================================
