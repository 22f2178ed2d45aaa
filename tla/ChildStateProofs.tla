-------------------------- MODULE ChildStateProofs --------------------------
(* Theorems about ChildState, for every tree of interpreters. *)
EXTENDS ChildState, SequenceTheorems, TLAPS

-----------------------------------------------------------------------------
(* Type correctness. *)

LEMMA PushedType == ASSUME NEW q \in Queue PROVE Pushed(q) \in Queue
  BY DEF Pushed, Queue

LEMMA PoppedType == ASSUME NEW q \in Queue, ~Empty(q) PROVE Popped(q) \in Queue
  <1>1. q.msgs \in Seq(Nat) /\ q.msgs # <<>>
    BY DEF Queue, Empty
  <1>2. Tail(q.msgs) \in Seq(Nat) /\ Head(q.msgs) \in Nat
    BY <1>1, HeadTailProperties
  <1> QED
    BY <1>2 DEF Popped, Queue

\* What a step of the destructor code does to the frames of a thread.
LEMMA NextStepType ==
  ASSUME NEW t \in States, NEW step \in {"wakeChild", "wakeParent", "join", "delete"},
         stack \in [States -> Seq(Frame)], stack[t] # <<>>, NextStep(t, step)
  PROVE  /\ stack' \in [States -> Seq(Frame)]
         /\ Len(stack'[t]) = Len(stack[t])
         /\ stack'[t][Len(stack[t])] = [victim |-> Victim(t), step |-> step]
         /\ \A u \in States : \A i \in 1 .. Len(stack[u]) :
              <<u, i>> # <<t, Len(stack[t])>> => stack'[u][i] = stack[u][i]
  <1> DEFINE s == stack[t]  n == Len(s)
             s2 == [s EXCEPT ![n].step = step]
  <1>1. s \in Seq(Frame) /\ s # <<>> /\ n \in Nat /\ n >= 1 /\ s[n] \in Frame
    BY EmptySeq, LenProperties, ElementOfSeq
  <1>2. s2 \in Seq(Frame) /\ Len(s2) = n /\ s2[n] = [victim |-> s[n].victim, step |-> step]
    BY <1>1 DEF Frame
  <1>3. \A i \in 1 .. n : i # n => s2[i] = s[i]
    BY <1>1
  <1>4. stack' = [stack EXCEPT ![t] = s2]
    BY DEF NextStep
  <1> QED
    BY <1>1, <1>2, <1>3, <1>4 DEF Victim, Top

LEMMA EnterType ==
  ASSUME NEW t \in States, NEW c \in Children,
         stack \in [States -> Seq(Frame)], Enter(t, c)
  PROVE  /\ stack' \in [States -> Seq(Frame)]
         /\ Len(stack'[t]) = Len(stack[t]) + 1
         /\ stack'[t][Len(stack[t]) + 1] = [victim |-> c, step |-> "terminate"]
         /\ \A u \in States : \A i \in 1 .. Len(stack[u]) : stack'[u][i] = stack[u][i]
  <1> DEFINE f == [victim |-> c, step |-> "terminate"]
  <1>1. f \in Frame
    BY DEF Frame
  <1>2. /\ Append(stack[t], f) \in Seq(Frame)
        /\ Len(Append(stack[t], f)) = Len(stack[t]) + 1
        /\ Append(stack[t], f)[Len(stack[t]) + 1] = f
        /\ \A i \in 1 .. Len(stack[t]) : Append(stack[t], f)[i] = stack[t][i]
    BY <1>1, AppendProperties
  <1>3. stack' = [stack EXCEPT ![t] = Append(stack[t], f)]
    BY DEF Enter
  <1> QED
    BY <1>2, <1>3

LEMMA InitType == Init => TypeOK
  BY TreeAssumption DEF Init, TypeOK, PcSet, States, Queue, NoMessages

\* Every action keeps the types.  "Control" are the steps that change pc and
\* at only.
LEMMA NextType == ASSUME TypeOK, [Next]_vars PROVE TypeOK'
  <1> USE TreeAssumption DEF TypeOK, States, PcSet, heap
  <1> USE DEF Goto, GotoAt, Return, Raised, NotifyToChild, NotifyToParent
  <1>1. CASE UNCHANGED vars
    BY <1>1 DEF vars
  <1>2. ASSUME NEW s \in States, NEW c \in Children, OwnerCall(s, c) PROVE TypeOK'
    <2>1. CASE StateNew(s, c)
      BY <2>1 DEF StateNew
    <2>2. CASE StatePost(s, c)
      BY <2>2, PushedType DEF StatePost
    <2>3. CASE StateRecv(s, c)
      <3>1. CASE StateRecvWait(s, c)
        BY <3>1 DEF StateRecvWait
      <3>2. CASE StateRecvMessage(s, c)
        BY <3>2, PoppedType DEF StateRecvMessage
      <3>3. CASE StateRecvTerminated(s, c)
        BY <3>3 DEF StateRecvTerminated
      <3>4. CASE StateRecvExited(s, c)
        BY <3>4 DEF StateRecvExited
      <3> QED
        BY <2>3, <3>1, <3>2, <3>3, <3>4 DEF StateRecv
    <2>4. CASE StateTryRecv(s, c)
      BY <2>4, PoppedType DEF StateTryRecv
    <2>5. CASE StateJoin(s, c)
      BY <2>5 DEF StateJoin
    <2>6. CASE StateDestroy(s, c)
      BY <2>6, EnterType DEF StateDestroy
    <2> QED
      BY <1>2, <2>1, <2>2, <2>3, <2>4, <2>5, <2>6 DEF OwnerCall
  <1>3. ASSUME NEW c \in Children, ChildRecv(c) PROVE TypeOK'
    <2>1. CASE ChildRecvWait(c)
      BY <2>1 DEF ChildRecvWait
    <2>2. CASE ChildRecvMessage(c)
      BY <2>2, PoppedType DEF ChildRecvMessage
    <2>3. CASE ChildRecvTerminated(c)
      BY <2>3 DEF ChildRecvTerminated
    <2> QED
      BY <1>3, <2>1, <2>2, <2>3 DEF ChildRecv
  <1>4. ASSUME NEW s \in States, Script(s) PROVE TypeOK'
    <2>1. CASE s \in Children /\ ChildPost(s)
      BY <2>1, PushedType DEF ChildPost
    <2>2. CASE s \in Children /\ (Finish(s) \/ Fail(s))
      <3>1. CASE Finish(s)
        BY <3>1 DEF Finish
      <3>2. CASE Fail(s)
        BY <3>2 DEF Fail
      <3> QED
        BY <2>2, <3>1, <3>2
    <2>3. CASE s = Root /\ Close
      BY <2>3 DEF Close
    <2> QED
      BY <1>2, <1>3, <1>4, <2>1, <2>2, <2>3 DEF Script
  <1>5. ASSUME NEW t \in States, Destructor(t) PROVE TypeOK'
    <2>1. CASE DtorTerminate(t)
      BY <2>1, NextStepType DEF DtorTerminate, AtStep
    <2>2. CASE DtorWakeChild(t)
      BY <2>2, NextStepType DEF DtorWakeChild, AtStep
    <2>3. CASE DtorWakeParent(t)
      BY <2>3, NextStepType DEF DtorWakeParent, AtStep
    <2>4. CASE DtorJoin(t)
      BY <2>4, NextStepType DEF DtorJoin, AtStep
    <2>5. CASE DtorFree(t)
      <3>1. SubSeq(stack[t], 1, Len(stack[t]) - 1) \in Seq(Frame)
        BY <2>5, SubSeqProperties DEF DtorFree, AtStep
      <3> QED
        BY <2>5, <3>1 DEF DtorFree
    <2>6. ASSUME NEW c \in Children, DtorNested(t, c) PROVE TypeOK'
      BY <2>6, EnterType DEF DtorNested
    <2> QED
      BY <1>5, <2>1, <2>2, <2>3, <2>4, <2>5, <2>6 DEF Destructor
  <1>6. ASSUME NEW s \in States, Runtime(s) PROVE TypeOK'
    <2>1. CASE StatePostNotify(s) \/ StateJoinReturn(s) \/ Catch(s) \/ Sleep(s)
      <3>1. CASE StatePostNotify(s)
        BY <3>1 DEF StatePostNotify
      <3>2. CASE StateJoinReturn(s)
        BY <3>2 DEF StateJoinReturn
      <3>3. CASE Catch(s)
        BY <3>3 DEF Catch
      <3>4. CASE Sleep(s)
        BY <3>4 DEF Sleep
      <3> QED
        BY <2>1, <3>1, <3>2, <3>3, <3>4
    <2>2. CASE \E c \in Children : StateRecv(s, c)
      BY <1>2, <2>2 DEF OwnerCall
    <2>3. CASE s \in Children /\ (ChildPostNotify(s) \/ RecordError(s) \/ StoreDone(s)
                                  \/ SignalParent(s))
      <3>1. CASE ChildPostNotify(s)
        BY <2>3, <3>1 DEF ChildPostNotify
      <3>2. CASE RecordError(s)
        BY <2>3, <3>2 DEF RecordError
      <3>3. CASE StoreDone(s)
        BY <2>3, <3>3 DEF StoreDone
      <3>4. CASE SignalParent(s)
        BY <2>3, <3>4 DEF SignalParent
      <3> QED
        BY <2>3, <3>1, <3>2, <3>3, <3>4
    <2>4. CASE s = Root /\ Closed
      BY <2>4 DEF Closed
    <2>5. CASE s = Root /\ \E c \in Children : CloseDestroy(c)
      BY <2>5, EnterType DEF CloseDestroy
    <2> QED
      BY <1>3, <1>5, <1>6, <2>1, <2>2, <2>3, <2>4, <2>5 DEF Runtime
  <1>7. ASSUME NEW s \in States, SpuriousWakeup(s) PROVE TypeOK'
    BY <1>7 DEF SpuriousWakeup
  <1> QED
    BY <1>1, <1>4, <1>6, <1>7 DEF Next

\* Every variable of the actor runtime stays in its range.
THEOREM TypeCorrect == Spec => []TypeOK
  <1>1. Init => TypeOK
    BY InitType
  <1>2. TypeOK /\ [Next]_vars => TypeOK'
    BY NextType
  <1> QED
    BY <1>1, <1>2, PTL DEF Spec

-----------------------------------------------------------------------------
(* The actions one by one, for the proofs that go through all of them.     *)

StepOfOwner(s, c) ==
  \/ StateNew(s, c) \/ StatePost(s, c)
  \/ StateRecvWait(s, c) \/ StateRecvMessage(s, c)
  \/ StateRecvTerminated(s, c) \/ StateRecvExited(s, c)
  \/ StateTryRecv(s, c) \/ StateJoin(s, c)

StepOfThread(s) ==
  \/ StatePostNotify(s) \/ StateJoinReturn(s) \/ Catch(s) \/ Sleep(s)
  \/ SpuriousWakeup(s)

StepOfChild(c) ==
  \/ ChildPost(c) \/ ChildPostNotify(c)
  \/ ChildRecvWait(c) \/ ChildRecvMessage(c) \/ ChildRecvTerminated(c)
  \/ Finish(c) \/ Fail(c) \/ RecordError(c) \/ StoreDone(c) \/ SignalParent(c)

\* A destructor begins: called by the script, by another one, or by the host.
Begin(t, c) == StateDestroy(t, c) \/ DtorNested(t, c) \/ (t = Root /\ CloseDestroy(c))

StepOfDestructor(t) ==
  \/ DtorTerminate(t) \/ DtorWakeChild(t) \/ DtorWakeParent(t) \/ DtorJoin(t)
  \/ DtorFree(t)

LEMMA NextCases ==
  ASSUME Next
  PROVE  \/ \E s \in States, c \in Children : StepOfOwner(s, c)
         \/ \E s \in States : StepOfThread(s)
         \/ \E c \in Children : StepOfChild(c)
         \/ \E t \in States, c \in Children : Begin(t, c)
         \/ \E t \in States : StepOfDestructor(t)
         \/ Close \/ Closed
  BY TreeAssumption
     DEF Next, Runtime, Script, OwnerCall, StateRecv, ChildRecv, Destructor,
         StepOfOwner, StepOfThread, StepOfChild, Begin, StepOfDestructor, States

-----------------------------------------------------------------------------
(* The end of a thread. *)

\* A child that was not created has no thread, and a thread that stored done
\* only signals its owner and ends.
ThreadInv ==
  /\ \A c \in Children : life[c] = "unborn" => pc[c] = "unborn"
  /\ \A c \in Children : done[c] => pc[c] \in {"signal", "ended"}

LEMMA ThreadNext ==
  ASSUME TypeOK, ThreadInv, [Next]_vars PROVE ThreadInv'
  <1> USE TreeAssumption DEF TypeOK, ThreadInv, States, heap, InScript
  <1> USE DEF Goto, GotoAt, Return, Raised, NotifyToChild, NotifyToParent
  <1>1. CASE UNCHANGED vars
    BY <1>1 DEF vars
  <1>2. ASSUME NEW s \in States, NEW c \in Children, StepOfOwner(s, c) PROVE ThreadInv'
    <2>1. CASE StateNew(s, c)
      BY <2>1 DEF StateNew
    <2>2. CASE StatePost(s, c)
      BY <2>2 DEF StatePost
    <2>3. CASE StateRecvWait(s, c)
      BY <2>3 DEF StateRecvWait, InStateRecv
    <2>4. CASE StateRecvMessage(s, c)
      BY <2>4 DEF StateRecvMessage, InStateRecv
    <2>5. CASE StateRecvTerminated(s, c)
      BY <2>5 DEF StateRecvTerminated, InStateRecv
    <2>6. CASE StateRecvExited(s, c)
      BY <2>6 DEF StateRecvExited, InStateRecv
    <2>7. CASE StateTryRecv(s, c)
      BY <2>7 DEF StateTryRecv
    <2>8. CASE StateJoin(s, c)
      BY <2>8 DEF StateJoin
    <2> QED
      BY <1>2, <2>1, <2>2, <2>3, <2>4, <2>5, <2>6, <2>7, <2>8 DEF StepOfOwner
  <1>3. ASSUME NEW s \in States, StepOfThread(s) PROVE ThreadInv'
    <2>1. CASE StatePostNotify(s)
      BY <2>1 DEF StatePostNotify
    <2>2. CASE StateJoinReturn(s)
      BY <2>2 DEF StateJoinReturn
    <2>3. CASE Catch(s)
      BY <2>3 DEF Catch
    <2>4. CASE Sleep(s)
      BY <2>4 DEF Sleep
    <2>5. CASE SpuriousWakeup(s)
      BY <2>5 DEF SpuriousWakeup
    <2> QED
      BY <1>3, <2>1, <2>2, <2>3, <2>4, <2>5 DEF StepOfThread
  <1>4. ASSUME NEW c \in Children, StepOfChild(c) PROVE ThreadInv'
    <2>1. CASE ChildPost(c)
      BY <2>1 DEF ChildPost
    <2>2. CASE ChildPostNotify(c)
      BY <2>2 DEF ChildPostNotify
    <2>3. CASE ChildRecvWait(c)
      BY <2>3 DEF ChildRecvWait, InChildRecv
    <2>4. CASE ChildRecvMessage(c)
      BY <2>4 DEF ChildRecvMessage, InChildRecv
    <2>5. CASE ChildRecvTerminated(c)
      BY <2>5 DEF ChildRecvTerminated, InChildRecv
    <2>6. CASE Finish(c)
      BY <2>6 DEF Finish
    <2>7. CASE Fail(c)
      BY <2>7 DEF Fail
    <2>8. CASE RecordError(c)
      BY <2>8 DEF RecordError
    <2>9. CASE StoreDone(c)
      BY <2>9 DEF StoreDone
    <2>10. CASE SignalParent(c)
      BY <2>10 DEF SignalParent
    <2> QED
      BY <1>4, <2>1, <2>2, <2>3, <2>4, <2>5, <2>6, <2>7, <2>8, <2>9, <2>10 DEF StepOfChild
  <1>5. ASSUME NEW t \in States, NEW c \in Children, Begin(t, c) PROVE ThreadInv'
    <2>1. CASE StateDestroy(t, c)
      BY <2>1 DEF StateDestroy
    <2>2. CASE DtorNested(t, c)
      BY <2>2 DEF DtorNested
    <2>3. CASE t = Root /\ CloseDestroy(c)
      BY <2>3 DEF CloseDestroy
    <2> QED
      BY <1>5, <2>1, <2>2, <2>3 DEF Begin
  <1>6. ASSUME NEW t \in States, StepOfDestructor(t) PROVE ThreadInv'
    <2>1. CASE DtorTerminate(t)
      BY <2>1 DEF DtorTerminate
    <2>2. CASE DtorWakeChild(t)
      BY <2>2 DEF DtorWakeChild
    <2>3. CASE DtorWakeParent(t)
      BY <2>3 DEF DtorWakeParent
    <2>4. CASE DtorJoin(t)
      BY <2>4 DEF DtorJoin
    <2>5. CASE DtorFree(t)
      BY <2>5 DEF DtorFree
    <2> QED
      BY <1>6, <2>1, <2>2, <2>3, <2>4, <2>5 DEF StepOfDestructor
  <1>7. CASE Close \/ Closed
    BY <1>7 DEF Close, Closed
  <1> QED
    BY <1>1, <1>2, <1>3, <1>4, <1>5, <1>6, <1>7, NextCases

LEMMA ThreadsEnd == Spec => []ThreadInv
  <1>1. Init => ThreadInv
    BY TreeAssumption DEF Init, ThreadInv, States
  <1>2. TypeOK /\ ThreadInv /\ [Next]_vars => ThreadInv'
    BY ThreadNext
  <1> QED
    BY <1>1, <1>2, TypeCorrect, PTL DEF Spec
=============================================================================
