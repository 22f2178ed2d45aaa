------------------------ MODULE ChildOwnershipProofs ------------------------
(* Handles and interpreters outlive their uses, and each is destroyed once. *)
EXTENDS ChildStateProofs

-----------------------------------------------------------------------------
(* The invariant. *)

\* A handle is used, by a pending call, by its owner only, who is then in no
\* destructor; it is freed after its thread ended, and after the handles the
\* child itself owned.
HandleInv ==
  /\ \A c \in Children : life[c] = "freed" => pc[c] = "ended"
  /\ \A s \in States : at[s] # NoChild =>
        /\ at[s] \in Children /\ life[at[s]] = "live" /\ Parent[at[s]] = s
        /\ pc[s] \in {"postDown", "checkDown", "sleepDown", "wokenDown", "join"}
  /\ \A c, g \in Children : Parent[g] = c /\ life[g] = "live" => life[c] = "live"

\* A thread runs destructors only from its script, or from the host's close.
BusyInv == \A t \in States : stack[t] # <<>> => pc[t] \in {"script", "closing"}

\* The frames of a thread go down a path of the tree of interpreters, and all
\* but the innermost are deleting a child whose thread has ended.
FrameOK(t, i) ==
  LET f == stack[t][i] IN
  /\ life[f.victim] = "live"
  /\ f.step = "delete" => pc[f.victim] = "ended"
  /\ i = 1 => Parent[f.victim] = t
  /\ i > 1 => /\ Parent[f.victim] = stack[t][i - 1].victim
              /\ stack[t][i - 1].step = "delete"
PathInv == \A t \in States : \A i \in 1 .. Len(stack[t]) : FrameOK(t, i)

OwnershipInv == HandleInv /\ BusyInv /\ PathInv /\ DestroyedOnce

-----------------------------------------------------------------------------
(* Steps outside the destructor code. *)

\* What such a step leaves alone.
Calm ==
  /\ UNCHANGED stack
  /\ \A s \in States : stack[s] # <<>> => pc'[s] = pc[s]
  /\ \A c \in Children : pc[c] = "ended" => pc'[c] = "ended"
  /\ \A c \in Children : life[c] = "live" => life'[c] = "live"

LEMMA FrameType ==
  ASSUME TypeOK, NEW t \in States, NEW i \in 1 .. Len(stack[t])
  PROVE  /\ stack[t][i] \in Frame /\ stack[t][i].victim \in Children
         /\ stack[t] # <<>> /\ i \in Nat /\ Len(stack[t]) \in Nat
  <1>1. stack[t] \in Seq(Frame) /\ Len(stack[t]) \in Nat
    BY LenProperties DEF TypeOK
  <1>2. stack[t][i] \in Frame
    BY <1>1, ElementOfSeq
  <1> QED
    BY <1>1, <1>2, EmptySeq DEF Frame

LEMMA CalmFrames ==
  ASSUME TypeOK, BusyInv, PathInv, DestroyedOnce, Calm
  PROVE  BusyInv' /\ PathInv' /\ DestroyedOnce'
  <1>1. BusyInv'
    BY DEF BusyInv, Calm
  <1>2. ASSUME NEW t \in States, NEW i \in 1 .. Len(stack[t]) PROVE FrameOK(t, i)'
    <2>1. FrameOK(t, i) /\ stack[t][i].victim \in Children
      BY FrameType DEF PathInv
    <2> QED
      BY <2>1 DEF FrameOK, Calm
  <1>3. PathInv'
    BY <1>2 DEF PathInv, Calm
  <1>4. DestroyedOnce'
    BY DEF DestroyedOnce, Calm
  <1> QED
    BY <1>1, <1>3, <1>4

LEMMA PostNotifyCalm ==
  ASSUME TypeOK, HandleInv, BusyInv, NEW c \in Children, ChildPostNotify(c)
  PROVE  Calm /\ HandleInv'
  <1>1. /\ pc[c] = "postUp" /\ UNCHANGED <<stack, life, at>>
        /\ pc' = [NotifyToParent(c) EXCEPT ![c] = "script"]
    BY DEF ChildPostNotify, heap
  <1>2. \A s \in States : pc'[s] = pc[s] \/ (s = c /\ pc[s] = "postUp")
                           \/ (pc[s] = "sleepDown" /\ pc'[s] = "wokenDown")
    BY <1>1 DEF TypeOK, NotifyToParent
  <1>3. \A s \in States : stack[s] # <<>> => pc'[s] = pc[s]
    BY <1>1, <1>2 DEF BusyInv
  <1>4. \A d \in Children : pc[d] = "ended" => pc'[d] = "ended"
    BY <1>2 DEF States
  <1>5. HandleInv'
    BY <1>1, <1>2, <1>4 DEF HandleInv
  <1> QED
    BY <1>1, <1>3, <1>4, <1>5 DEF Calm

LEMMA CalmStep ==
  ASSUME TypeOK, ThreadInv, HandleInv, BusyInv,
         \/ \E s \in States, c \in Children : StepOfOwner(s, c)
         \/ \E s \in States : StepOfThread(s)
         \/ \E c \in Children : StepOfChild(c)
         \/ Close \/ Closed \/ UNCHANGED vars
  PROVE  Calm /\ HandleInv'
  <1> USE TreeAssumption DEF TypeOK, ThreadInv, HandleInv, BusyInv, Calm, States, heap,
                             InScript
  <1> USE DEF Goto, GotoAt, Return, Raised, NotifyToChild, NotifyToParent
  <1>1. CASE UNCHANGED vars
    BY <1>1 DEF vars
  <1>2. ASSUME NEW s \in States, NEW c \in Children, StepOfOwner(s, c) PROVE Calm /\ HandleInv'
    <2>1. CASE StateNew(s, c)
      BY <2>1 DEF StateNew, Handle
    <2>2. CASE StatePost(s, c)
      BY <2>2 DEF StatePost, Handle
    <2>3. CASE StateRecvWait(s, c)
      BY <2>3 DEF StateRecvWait, InStateRecv, Handle
    <2>4. CASE StateRecvMessage(s, c)
      BY <2>4 DEF StateRecvMessage, InStateRecv, Handle
    <2>5. CASE StateRecvTerminated(s, c)
      BY <2>5 DEF StateRecvTerminated, InStateRecv, Handle
    <2>6. CASE StateRecvExited(s, c)
      BY <2>6 DEF StateRecvExited, InStateRecv, Handle
    <2>7. CASE StateTryRecv(s, c)
      BY <2>7 DEF StateTryRecv, Handle
    <2>8. CASE StateJoin(s, c)
      BY <2>8 DEF StateJoin, Handle
    <2> QED
      BY <1>2, <2>1, <2>2, <2>3, <2>4, <2>5, <2>6, <2>7, <2>8 DEF StepOfOwner
  <1>3. ASSUME NEW s \in States, StepOfThread(s) PROVE Calm /\ HandleInv'
    <2>1. CASE StatePostNotify(s)
      <3>1. Calm
        BY <2>1 DEF StatePostNotify
      <3>2. HandleInv'
        BY <2>1 DEF StatePostNotify
      <3> QED
        BY <3>1, <3>2
    <2>2. CASE StateJoinReturn(s)
      BY <2>2 DEF StateJoinReturn
    <2>3. CASE Catch(s)
      BY <2>3 DEF Catch
    <2>4. CASE Sleep(s)
      <3>1. CASE pc[s] = "checkUp" /\ Goto(s, "sleepUp")
        BY <2>4, <3>1 DEF Sleep
      <3>2. CASE pc[s] = "checkDown" /\ Goto(s, "sleepDown")
        BY <2>4, <3>2 DEF Sleep
      <3> QED
        BY <2>4, <3>1, <3>2 DEF Sleep
    <2>5. CASE SpuriousWakeup(s)
      <3>1. CASE pc[s] = "sleepUp" /\ Goto(s, "wokenUp")
        BY <2>5, <3>1 DEF SpuriousWakeup
      <3>2. CASE pc[s] = "sleepDown" /\ Goto(s, "wokenDown")
        BY <2>5, <3>2 DEF SpuriousWakeup
      <3> QED
        BY <2>5, <3>1, <3>2 DEF SpuriousWakeup
    <2> QED
      BY <1>3, <2>1, <2>2, <2>3, <2>4, <2>5 DEF StepOfThread
  <1>4. ASSUME NEW c \in Children, StepOfChild(c) PROVE Calm /\ HandleInv'
    <2>1. CASE ChildPost(c)
      BY <2>1 DEF ChildPost
    <2>2. CASE ChildPostNotify(c)
      BY <2>2, PostNotifyCalm
    <2>3. CASE ChildRecvWait(c)
      BY <2>3 DEF ChildRecvWait, InChildRecv
    <2>4. CASE ChildRecvMessage(c)
      BY <2>4 DEF ChildRecvMessage, InChildRecv
    <2>5. CASE ChildRecvTerminated(c)
      BY <2>5 DEF ChildRecvTerminated, InChildRecv
    <2>6. CASE Finish(c)
      BY <2>6 DEF Finish
    <2>7. CASE Fail(c)
      BY <2>7 DEF Fail
    <2>8. CASE RecordError(c)
      <3>1. Calm
        BY <2>8 DEF RecordError
      <3>2. HandleInv'
        BY <2>8 DEF RecordError
      <3> QED
        BY <3>1, <3>2
    <2>9. CASE StoreDone(c)
      <3>1. Calm
        BY <2>9 DEF StoreDone
      <3>2. HandleInv'
        BY <2>9 DEF StoreDone
      <3> QED
        BY <3>1, <3>2
    <2>10. CASE SignalParent(c)
      <3>1. Calm
        BY <2>10 DEF SignalParent
      <3>2. HandleInv'
        BY <2>10 DEF SignalParent
      <3> QED
        BY <3>1, <3>2
    <2> QED
      BY <1>4, <2>1, <2>2, <2>3, <2>4, <2>5, <2>6, <2>7, <2>8, <2>9, <2>10 DEF StepOfChild
  <1>5. CASE Close
    BY <1>5 DEF Close
  <1>6. CASE Closed
    BY <1>6 DEF Closed
  <1> QED
    BY <1>1, <1>2, <1>3, <1>4, <1>5, <1>6

-----------------------------------------------------------------------------
(* Steps of the destructor code. *)

\* The innermost frame goes on to its next step.
LEMMA StepFrames ==
  ASSUME TypeOK, BusyInv, PathInv, DestroyedOnce,
         NEW t \in States, stack[t] # <<>>,
         NEW step \in {"wakeChild", "wakeParent", "join", "delete"}, NextStep(t, step),
         step = "delete" => pc[Victim(t)] = "ended",
         \A s \in States : stack[s] # <<>> => pc'[s] = pc[s],
         \A c \in Children : pc[c] = "ended" => pc'[c] = "ended",
         UNCHANGED life
  PROVE  BusyInv' /\ PathInv' /\ DestroyedOnce'
  <1> DEFINE n == Len(stack[t])
  <1>1. n \in Nat /\ n >= 1 /\ n \in 1 .. n
    BY EmptySeq, LenProperties DEF TypeOK
  <1>2. /\ \A u \in States : Len(stack'[u]) = Len(stack[u]) /\ (stack'[u] # <<>> <=> stack[u] # <<>>)
        /\ \A u \in States : \A i \in 1 .. Len(stack[u]) :
             stack'[u][i].victim = stack[u][i].victim
        /\ \A u \in States : \A i \in 1 .. Len(stack[u]) :
             <<u, i>> # <<t, n>> => stack'[u][i] = stack[u][i]
        /\ stack'[t][n] = [victim |-> Victim(t), step |-> step]
    <2>1. /\ stack' \in [States -> Seq(Frame)] /\ Len(stack'[t]) = n
          /\ stack'[t][n] = [victim |-> Victim(t), step |-> step]
          /\ \A u \in States : \A i \in 1 .. Len(stack[u]) :
               <<u, i>> # <<t, n>> => stack'[u][i] = stack[u][i]
      BY NextStepType DEF TypeOK
    <2>2. \A u \in States : u # t => stack'[u] = stack[u]
      BY DEF NextStep, TypeOK
    <2>3. stack'[t] # <<>>
      BY <1>1, <2>1, EmptySeq
    <2>4. stack'[t][n].victim = stack[t][n].victim
      BY <2>1 DEF Victim, Top
    <2> QED
      BY <2>1, <2>2, <2>3, <2>4
  <1>3. BusyInv'
    BY <1>2 DEF BusyInv
  <1>4. ASSUME NEW u \in States, NEW i \in 1 .. Len(stack[u]) PROVE FrameOK(u, i)'
    <2>1. /\ FrameOK(u, i) /\ stack[u][i].victim \in Children
          /\ i \in Nat /\ Len(stack[u]) \in Nat
      BY FrameType DEF PathInv
    <2>2. i > 1 => i - 1 \in 1 .. Len(stack[u]) /\ <<u, i - 1>> # <<t, n>>
      BY <1>1, <2>1
    <2>3. i > 1 => stack'[u][i - 1] = stack[u][i - 1]
      BY <1>2, <2>2
    <2>4. CASE <<u, i>> = <<t, n>>
      BY <1>2, <2>1, <2>3, <2>4 DEF FrameOK, Victim, Top
    <2>5. CASE <<u, i>> # <<t, n>>
      BY <1>2, <2>1, <2>3, <2>5 DEF FrameOK
    <2> QED
      BY <2>4, <2>5
  <1>5. PathInv'
    BY <1>2, <1>4 DEF PathInv
  <1>6. DestroyedOnce'
    BY <1>2 DEF DestroyedOnce
  <1> QED
    BY <1>3, <1>5, <1>6

\* A destructor begins.  No other runs on its handle: the owner is this very
\* thread, outside any destructor, or it is the child this thread deletes.
LEMMA BeginFrames ==
  ASSUME TypeOK, OwnershipInv, NEW t \in States, NEW c \in Children, Begin(t, c)
  PROVE  OwnershipInv'
  <1> DEFINE n == Len(stack[t])
  <1> USE DEF OwnershipInv
  <1>1. Enter(t, c) /\ UNCHANGED <<pc, at, heap>>
    BY DEF Begin, StateDestroy, DtorNested, CloseDestroy
  <1>2. /\ life[c] = "live" /\ pc[t] \in {"script", "closing"}
        /\ stack[t] = <<>> => Parent[c] = t
        /\ stack[t] # <<>> => Parent[c] = Victim(t) /\ Top(t).step = "delete"
    BY DEF Begin, StateDestroy, DtorNested, CloseDestroy, InScript, Handle, AtStep,
           LiveChildren, BusyInv
  <1>3. n \in Nat /\ (n = 0 <=> stack[t] = <<>>) /\ (n >= 1 => n \in 1 .. n)
    BY EmptySeq, LenProperties DEF TypeOK
  <1>4. /\ stack' \in [States -> Seq(Frame)] /\ Len(stack'[t]) = n + 1
        /\ stack'[t][n + 1] = [victim |-> c, step |-> "terminate"]
        /\ \A u \in States : \A i \in 1 .. Len(stack[u]) : stack'[u][i] = stack[u][i]
        /\ \A u \in States : u # t => stack'[u] = stack[u]
    BY <1>1, EnterType DEF TypeOK, Enter
  <1>5. ASSUME NEW u \in States, NEW j \in 1 .. Len(stack[u]), stack[u][j].victim = c
        PROVE  FALSE
    <2>1. FrameOK(u, j) /\ j \in Nat /\ Len(stack[u]) \in Nat /\ stack[u] # <<>>
      BY FrameType DEF PathInv
    <2>2. CASE stack[t] # <<>>
      <3>1. FrameOK(t, n) /\ Victim(t) = stack[t][n].victim /\ pc[Victim(t)] = "ended"
        BY <1>2, <1>3, <2>2 DEF PathInv, FrameOK, Victim, Top
      <3>2. CASE j = 1
        BY <1>2, <1>5, <2>1, <2>2, <3>1, <3>2 DEF FrameOK, BusyInv
      <3>3. CASE j > 1
        <4>1. j - 1 \in 1 .. Len(stack[u]) /\ stack[u][j - 1].victim = stack[t][n].victim
          BY <1>2, <1>5, <2>1, <2>2, <3>1, <3>3 DEF FrameOK
        <4>2. u = t /\ j - 1 = n
          BY <1>3, <2>2, <4>1 DEF DestroyedOnce
        <4> QED
          BY <1>3, <2>1, <4>2
      <3> QED
        BY <2>1, <3>2, <3>3
    <2>3. CASE stack[t] = <<>>
      <3>1. CASE j = 1
        BY <1>2, <1>5, <2>1, <2>3, <3>1 DEF FrameOK
      <3>2. CASE j > 1
        <4>1. /\ j - 1 \in 1 .. Len(stack[u]) /\ stack[u][j - 1].victim = t
              /\ stack[u][j - 1].step = "delete"
          BY <1>2, <1>5, <2>1, <2>3, <3>2 DEF FrameOK
        <4>2. FrameOK(u, j - 1)
          BY <4>1 DEF PathInv
        <4> QED
          BY <1>2, <4>1, <4>2 DEF FrameOK
      <3> QED
        BY <2>1, <3>1, <3>2
    <2> QED
      BY <2>2, <2>3
  <1>6. HandleInv'
    BY <1>1 DEF HandleInv, heap
  <1>7. BusyInv'
    BY <1>1, <1>2, <1>4 DEF BusyInv
  <1>8. ASSUME NEW u \in States, NEW i \in 1 .. Len(stack'[u]) PROVE FrameOK(u, i)'
    <2>1. CASE i \in 1 .. Len(stack[u])
      <3>1. FrameOK(u, i) /\ i \in Nat /\ Len(stack[u]) \in Nat
        BY <2>1, FrameType DEF PathInv
      <3>2. i > 1 => i - 1 \in 1 .. Len(stack[u])
        BY <3>1, <2>1
      <3> QED
        BY <1>1, <1>4, <2>1, <3>1, <3>2 DEF FrameOK, heap
    <2>2. CASE i \notin 1 .. Len(stack[u])
      <3>1. u = t /\ i = n + 1
        BY <1>3, <1>4, <2>2
      <3>2. stack[t] # <<>> => n \in 1 .. n /\ stack'[t][n] = Top(t)
        <4>1. n # 0 => n \in 1 .. n
          BY <1>3
        <4> QED
          BY <1>3, <1>4, <4>1 DEF Top
      <3> QED
        BY <1>1, <1>2, <1>3, <1>4, <3>1, <3>2 DEF FrameOK, heap, Victim
    <2> QED
      BY <2>1, <2>2
  <1>9. PathInv'
    BY <1>8 DEF PathInv
  <1>10. DestroyedOnce'
    <2> SUFFICES ASSUME NEW u \in States, NEW v \in States,
                        NEW i \in 1 .. Len(stack'[u]), NEW j \in 1 .. Len(stack'[v]),
                        stack'[u][i].victim = stack'[v][j].victim
                 PROVE  u = v /\ i = j
      BY DEF DestroyedOnce
    <2>1. i \in 1 .. Len(stack[u]) \/ (u = t /\ i = n + 1 /\ stack'[u][i].victim = c)
      BY <1>3, <1>4
    <2>2. j \in 1 .. Len(stack[v]) \/ (v = t /\ j = n + 1 /\ stack'[v][j].victim = c)
      BY <1>3, <1>4
    <2>3. CASE i \in 1 .. Len(stack[u]) /\ j \in 1 .. Len(stack[v])
      <3>1. stack[u][i].victim = stack[v][j].victim
        BY <1>4, <2>3
      <3> QED
        BY <2>3, <3>1 DEF DestroyedOnce
    <2>4. CASE i \in 1 .. Len(stack[u]) /\ j \notin 1 .. Len(stack[v])
      BY <1>4, <1>5, <2>2, <2>4
    <2>5. CASE i \notin 1 .. Len(stack[u]) /\ j \in 1 .. Len(stack[v])
      BY <1>4, <1>5, <2>1, <2>5
    <2> QED
      BY <2>1, <2>2, <2>3, <2>4, <2>5
  <1> QED
    BY <1>6, <1>7, <1>9, <1>10

\* A destructor ends.  Nothing else is on the handle it frees.
LEMMA FreeFrames ==
  ASSUME TypeOK, OwnershipInv, NEW t \in States, DtorFree(t) PROVE OwnershipInv'
  <1> DEFINE n == Len(stack[t])  v == Victim(t)
  <1> USE DEF OwnershipInv
  <1>1. n \in Nat /\ n >= 1 /\ n \in 1 .. n /\ stack[t] \in Seq(Frame)
    BY EmptySeq, LenProperties DEF TypeOK, DtorFree, AtStep
  <1>2. v \in Children /\ FrameOK(t, n) /\ v = stack[t][n].victim /\ stack[t][n].step = "delete"
    BY <1>1, FrameType DEF PathInv, Victim, Top, DtorFree, AtStep
  <1>3. pc[v] = "ended" /\ stack[t] # <<>>
    BY <1>2 DEF FrameOK, DtorFree, AtStep
  <1>4. /\ Len(SubSeq(stack[t], 1, n - 1)) = n - 1
        /\ \A i \in 1 .. n - 1 : SubSeq(stack[t], 1, n - 1)[i] = stack[t][i]
    BY <1>1, SubSeqProperties
  <1>5. /\ \A u \in States : u # t => stack'[u] = stack[u]
        /\ stack'[t] = SubSeq(stack[t], 1, n - 1)
        /\ life' = [life EXCEPT ![v] = "freed"] /\ UNCHANGED <<pc, at>>
    BY DEF DtorFree, TypeOK
  <1> HIDE DEF n, v
  <1>6. \A u \in States : \A i \in 1 .. Len(stack'[u]) :
          i \in 1 .. Len(stack[u]) /\ <<u, i>> # <<t, n>> /\ stack'[u][i] = stack[u][i]
    <2> TAKE u \in States
    <2>1. CASE u = t
      BY <1>1, <1>4, <1>5, <2>1 DEF n
    <2>2. CASE u # t
      BY <1>5, <2>2
    <2> QED
      BY <2>1, <2>2
  <1>7. HandleInv'
    <2>1. ASSUME NEW s \in States, at[s] = v PROVE FALSE
      <3>1. /\ Parent[v] = s
            /\ pc[s] \in {"postDown", "checkDown", "sleepDown", "wokenDown", "join"}
        BY <1>2, <2>1, TreeAssumption DEF HandleInv, States
      <3>2. CASE n = 1
        BY <1>2, <1>3, <3>1, <3>2 DEF FrameOK, BusyInv
      <3>3. CASE n > 1
        <4>1. /\ n - 1 \in 1 .. Len(stack[t]) /\ stack[t][n - 1].victim = s
              /\ stack[t][n - 1].step = "delete"
          BY <1>1, <1>2, <3>1, <3>3 DEF FrameOK, n
        <4>2. pc[s] = "ended"
          BY <4>1 DEF PathInv, FrameOK
        <4> QED
          BY <3>1, <4>2
      <3> QED
        BY <1>1, <3>2, <3>3
    <2>2. \A g \in Children : Parent[g] = v => life[g] # "live"
      BY DEF DtorFree, LiveChildren, v
    <2> QED
      BY <1>2, <1>3, <1>5, <2>1, <2>2 DEF HandleInv, TypeOK
  <1>8. BusyInv'
    <2>1. \A u \in States : stack'[u] # <<>> => stack[u] # <<>>
      BY <1>3, <1>5
    <2> QED
      BY <1>5, <2>1 DEF BusyInv
  <1>9. ASSUME NEW u \in States, NEW i \in 1 .. Len(stack'[u]) PROVE FrameOK(u, i)'
    <2>1. /\ i \in 1 .. Len(stack[u]) /\ <<u, i>> # <<t, n>> /\ stack'[u][i] = stack[u][i]
          /\ FrameOK(u, i) /\ stack[u][i].victim \in Children /\ i \in Nat
      BY <1>6, FrameType DEF PathInv
    <2>2. stack[u][i].victim # v
      BY <1>1, <1>2, <2>1 DEF DestroyedOnce, n
    <2>3. i > 1 => i - 1 \in 1 .. Len(stack'[u])
      BY <1>6, <2>1
    <2>4. i > 1 => stack'[u][i - 1] = stack[u][i - 1]
      BY <1>6, <2>3
    <2> QED
      BY <1>5, <2>1, <2>2, <2>4 DEF FrameOK, TypeOK
  <1>10. PathInv'
    BY <1>9 DEF PathInv
  <1>11. DestroyedOnce'
    <2> SUFFICES ASSUME NEW u \in States, NEW w \in States,
                        NEW i \in 1 .. Len(stack'[u]), NEW j \in 1 .. Len(stack'[w]),
                        stack'[u][i].victim = stack'[w][j].victim
                 PROVE  u = w /\ i = j
      BY DEF DestroyedOnce
    <2>1. /\ i \in 1 .. Len(stack[u]) /\ j \in 1 .. Len(stack[w])
          /\ stack[u][i].victim = stack[w][j].victim
      BY <1>6
    <2> QED
      BY <2>1 DEF DestroyedOnce
  <1> QED
    BY <1>7, <1>8, <1>10, <1>11

-----------------------------------------------------------------------------
(* All steps. *)

LEMMA OwnershipNext ==
  ASSUME TypeOK, ThreadInv, OwnershipInv, [Next]_vars PROVE OwnershipInv'
  <1>1. CASE \/ \E s \in States, c \in Children : StepOfOwner(s, c)
             \/ \E s \in States : StepOfThread(s)
             \/ \E c \in Children : StepOfChild(c)
             \/ Close \/ Closed \/ UNCHANGED vars
    BY <1>1, CalmStep, CalmFrames DEF OwnershipInv
  <1>2. ASSUME NEW t \in States, NEW c \in Children, Begin(t, c) PROVE OwnershipInv'
    BY <1>2, BeginFrames
  <1>3. ASSUME NEW t \in States, StepOfDestructor(t) PROVE OwnershipInv'
    <2> USE TreeAssumption DEF OwnershipInv, AtStep, HandleInv, BusyInv, TypeOK, States, heap
    <2>1. CASE DtorTerminate(t)
      BY <2>1, StepFrames DEF DtorTerminate
    <2>2. CASE DtorWakeChild(t)
      <3>1. /\ \A s \in States : stack[s] # <<>> => pc'[s] = pc[s]
            /\ \A c \in Children : pc[c] = "ended" => pc'[c] = "ended"
        BY <2>2 DEF DtorWakeChild, NotifyToChild
      <3>2. HandleInv'
        BY <2>2 DEF DtorWakeChild, NotifyToChild
      <3>3. /\ stack[t] # <<>> /\ NextStep(t, "wakeParent") /\ UNCHANGED life
        BY <2>2 DEF DtorWakeChild
      <3> QED
        BY <3>1, <3>2, <3>3, StepFrames
    <2>3. CASE DtorWakeParent(t)
      <3>1. /\ \A s \in States : stack[s] # <<>> => pc'[s] = pc[s]
            /\ \A c \in Children : pc[c] = "ended" => pc'[c] = "ended"
        BY <2>3 DEF DtorWakeParent, NotifyToParent
      <3>2. HandleInv'
        BY <2>3 DEF DtorWakeParent, NotifyToParent
      <3>3. /\ stack[t] # <<>> /\ NextStep(t, "join") /\ UNCHANGED life
        BY <2>3 DEF DtorWakeParent
      <3> QED
        BY <3>1, <3>2, <3>3, StepFrames
    <2>4. CASE DtorJoin(t)
      BY <2>4, StepFrames DEF DtorJoin, ThreadOver
    <2>5. CASE DtorFree(t)
      BY <2>5, FreeFrames
    <2> QED
      BY <1>3, <2>1, <2>2, <2>3, <2>4, <2>5 DEF StepOfDestructor
  <1> QED
    BY <1>1, <1>2, <1>3, NextCases

LEMMA OwnershipInvariant == Spec => []OwnershipInv
  <1>1. Init => OwnershipInv
    BY TreeAssumption
       DEF Init, OwnershipInv, HandleInv, BusyInv, PathInv, DestroyedOnce, States
  <1>2. TypeOK /\ ThreadInv /\ OwnershipInv /\ [Next]_vars => OwnershipInv'
    BY OwnershipNext
  <1> QED
    BY <1>1, <1>2, TypeCorrect, ThreadsEnd, PTL DEF Spec

\* No destructor frees a handle that a thread or another destructor still uses.
THEOREM NoUseAfterFree == Spec => []HandleOutlivesUse
  <1>1. OwnershipInv => HandleOutlivesUse
    BY DEF OwnershipInv, HandleInv, PathInv, FrameOK, HandleOutlivesUse
  <1> QED
    BY <1>1, OwnershipInvariant, PTL

\* No two destructors run on one handle.
THEOREM NoDoubleDestroy == Spec => []DestroyedOnce
  <1>1. OwnershipInv => DestroyedOnce
    BY DEF OwnershipInv
  <1> QED
    BY <1>1, OwnershipInvariant, PTL
=============================================================================
