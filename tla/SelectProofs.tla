---------------------------- MODULE SelectProofs ----------------------------
(* Safety of select and select-timeout, for every list of sources. *)
EXTENDS Select, SequenceTheorems, TLAPS

LEMMA Sources == N \in Nat /\ N >= 1 /\ \A k \in 1 .. N : Src[k] \in Children
  BY SelectAssumption, EmptySeq, LenProperties, ElementOfSeq DEF N

-----------------------------------------------------------------------------
(* Type correctness. *)

LEMMA NextType == ASSUME TypeOK, [Next]_vars PROVE TypeOK'
  <1> USE Sources DEF TypeOK, children, selector, Loop, Give, In, Past, Skip, PcSet,
                      Indices, Null, Thrown
  <1>1. CASE UNCHANGED vars
    BY <1>1 DEF vars
  <1>2. CASE Run
    <2>1. ASSUME NEW p \in PcSet, LookReady(p) PROVE TypeOK'
      BY <2>1 DEF LookReady
    <2>2. ASSUME NEW p \in PcSet, Look(p) PROVE TypeOK'
      BY <2>2 DEF Look
    <2>3. CASE NothingYet
      BY <2>3 DEF NothingYet
    <2>4. CASE NothingAtLast
      BY <2>4 DEF NothingAtLast
    <2>5. CASE Register
      BY <2>5 DEF Register, Hang
    <2>6. CASE Registered
      BY <2>6 DEF Registered
    <2>7. CASE PredicateReady
      BY <2>7 DEF PredicateReady
    <2>8. CASE PredicateTerminated
      BY <2>8 DEF PredicateTerminated
    <2>9. CASE Sleep
      BY <2>9 DEF Sleep
    <2>10. CASE TimeOut
      BY <2>10 DEF TimeOut
    <2>11. CASE Clear
      BY <2>11 DEF Clear, Hang
    <2>12. CASE ClearedTerminated
      BY <2>12 DEF ClearedTerminated
    <2>13. CASE Cleared
      BY <2>13 DEF Cleared
    <2> QED
      BY <1>2, <2>1, <2>2, <2>3, <2>4, <2>5, <2>6, <2>7, <2>8, <2>9, <2>10, <2>11,
         <2>12, <2>13 DEF Run
  <1>3. CASE SpuriousWakeup
    BY <1>3 DEF SpuriousWakeup
  <1>4. CASE Terminate
    BY <1>4 DEF Terminate
  <1>5. ASSUME NEW m \in {"block", "timed"}, Call(m) PROVE TypeOK'
    BY <1>5 DEF Call
  <1>6. ASSUME NEW c \in Children, TryRecv(c) PROVE TypeOK'
    BY <1>6 DEF TryRecv
  <1>7. ASSUME NEW c \in Children, Post(c) PROVE TypeOK'
    BY <1>7 DEF Post
  <1>8. ASSUME NEW c \in Children, Notify(c) PROVE TypeOK'
    BY <1>8 DEF Notify
  <1>9. ASSUME NEW c \in Children, End(c) PROVE TypeOK'
    BY <1>9 DEF End
  <1> QED
    BY <1>1, <1>2, <1>3, <1>4, <1>5, <1>6, <1>7, <1>8, <1>9 DEF Next

\* Every variable of select stays in its range.
THEOREM TypeCorrect == Spec => []TypeOK
  <1>1. Init => TypeOK
    <2>1. 1 \in 1 .. N + 1
      BY Sources
    <2> SUFFICES ASSUME Init PROVE TypeOK
      OBVIOUS
    <2>2. pc \in PcSet /\ i \in 1 .. N + 1 /\ mode \in {"block", "timed"}
      BY <2>1 DEF Init, PcSet
    <2>3. call \in Nat /\ result \in Indices \cup {Null, Thrown} /\ terminated \in BOOLEAN
      BY DEF Init
    <2>4. /\ queue \in [Children -> Nat] /\ selectCv \in [Children -> Nat]
          /\ child \in [Children -> {"script", "notify", "ended"}]
          /\ copied \in [Children -> Nat] /\ sent \in [Children -> Nat]
      BY DEF Init
    <2> QED
      BY <2>2, <2>3, <2>4 DEF TypeOK
  <1>2. TypeOK /\ [Next]_vars => TypeOK'
    BY NextType
  <1> QED
    BY <1>1, <1>2, PTL DEF Spec

-----------------------------------------------------------------------------
(* The invariant. *)

\* The loops that hang and clear the pointers have done so up to turn i, and
\* a queue that is no source has none.
PointerInv ==
  /\ \A c \in Children : (\A k \in 1 .. N : Src[k] # c) => selectCv[c] = 0
  /\ pc \in {"script", "first", "last"} => \A c \in Children : selectCv[c] = 0
  /\ pc = "register" => \A k \in 1 .. i - 1 : selectCv[Src[k]] = call
  /\ pc \in {"predicate", "asleep"} => \A k \in 1 .. N : selectCv[Src[k]] = call
  /\ pc = "clear" => \A k \in 1 .. i - 1 : selectCv[Src[k]] = 0

\* What ended the wait of select is still there: only its own thread receives.
ReadyInv ==
  /\ IndexReady
  /\ pc = "clear" /\ mode = "block" =>
       terminated \/ \E k \in 1 .. N : queue[Src[k]] > 0
  /\ pc = "last" /\ mode = "block" => \E k \in i .. N : queue[Src[k]] > 0

SelectInv == PointerInv /\ ReadyInv

LEMMA SelectNext == ASSUME TypeOK, SelectInv, [Next]_vars PROVE SelectInv'
  <1> USE Sources DEF SelectInv, PointerInv, ReadyInv, IndexReady, TypeOK, children,
                      selector, Loop, Give, In, Past, Skip, PcSet, Indices, Null, Thrown
  <1>1. CASE UNCHANGED vars
    BY <1>1 DEF vars
  <1>2. CASE Run
    <2>1. ASSUME NEW p \in PcSet, LookReady(p) PROVE SelectInv'
      BY <2>1 DEF LookReady, Ready
    <2>2. ASSUME NEW p \in PcSet, Look(p) PROVE SelectInv'
      BY <2>2 DEF Look, Ready
    <2>3. CASE NothingYet
      BY <2>3 DEF NothingYet
    <2>4. CASE NothingAtLast
      BY <2>4 DEF NothingAtLast
    <2>5. CASE Register
      BY <2>5 DEF Register, Hang
    <2>6. CASE Registered
      BY <2>6 DEF Registered
    <2>7. CASE PredicateReady
      BY <2>7 DEF PredicateReady, Ready
    <2>8. CASE PredicateTerminated
      BY <2>8 DEF PredicateTerminated, Interrupted
    <2>9. CASE Sleep
      BY <2>9 DEF Sleep, Interrupted
    <2>10. CASE TimeOut
      BY <2>10 DEF TimeOut
    <2>11. CASE Clear
      BY <2>11 DEF Clear, Hang
    <2>12. CASE ClearedTerminated
      BY <2>12 DEF ClearedTerminated, Interrupted
    <2>13. CASE Cleared
      BY <2>13 DEF Cleared, Interrupted
    <2> QED
      BY <1>2, <2>1, <2>2, <2>3, <2>4, <2>5, <2>6, <2>7, <2>8, <2>9, <2>10, <2>11, <2>12, <2>13 DEF Run
  <1>3. CASE SpuriousWakeup
    BY <1>3 DEF SpuriousWakeup
  <1>4. CASE Terminate
    BY <1>4 DEF Terminate
  <1>5. ASSUME NEW m \in {"block", "timed"}, Call(m) PROVE SelectInv'
    BY <1>5 DEF Call
  <1>6. ASSUME NEW c \in Children, TryRecv(c) PROVE SelectInv'
    BY <1>6 DEF TryRecv
  <1>7. ASSUME NEW c \in Children, Post(c) PROVE SelectInv'
    BY <1>7 DEF Post
  <1>8. ASSUME NEW c \in Children, Notify(c) PROVE SelectInv'
    BY <1>8 DEF Notify
  <1>9. ASSUME NEW c \in Children, End(c) PROVE SelectInv'
    BY <1>9 DEF End
  <1> QED
    BY <1>1, <1>2, <1>3, <1>4, <1>5, <1>6, <1>7, <1>8, <1>9 DEF Next

LEMMA SelectInvariant == Spec => []SelectInv
  <1>1. Init => SelectInv
    BY Sources DEF Init, SelectInv, PointerInv, ReadyInv, IndexReady, Indices, Null
  <1>2. TypeOK /\ SelectInv /\ [Next]_vars => SelectInv'
    BY SelectNext
  <1> QED
    BY <1>1, <1>2, TypeCorrect, PTL DEF Spec

\* The index a call answers names a source with a message, until the script
\* receives.
THEOREM AnswerIsReady == Spec => []IndexReady
  <1>1. SelectInv => IndexReady
    BY DEF SelectInv, ReadyInv
  <1> QED
    BY <1>1, SelectInvariant, PTL

\* The pointers to the condition variable of a call come and go with it.
THEOREM PointersClean == Spec => []PointersOfThisCall
  <1>1. SelectInv => PointersOfThisCall
    BY DEF SelectInv, PointerInv, PointersOfThisCall
  <1> QED
    BY <1>1, SelectInvariant, PTL

\* A blocking select does not answer null.
THEOREM SelectAnswers == Spec => SelectGivesIndex
  <1> DEFINE Answer == pc # "script" /\ pc' = "script" /\ mode = "block" => result' # Null
  <1>1. TypeOK /\ SelectInv /\ [Next]_vars => [Answer]_vars
    <2> SUFFICES ASSUME TypeOK, SelectInv, Next, pc # "script", pc' = "script",
                        mode = "block"
                 PROVE  result' # Null
      OBVIOUS
    <2> USE Sources DEF TypeOK, Loop, Give, Skip, Null
    <2>1. \/ \E p \in PcSet : LookReady(p)
          \/ NothingAtLast
          \/ ClearedTerminated
      BY DEF Next, Run, Look, NothingYet, Register, Registered, PredicateReady,
             PredicateTerminated, Sleep, TimeOut, Clear, Cleared, SpuriousWakeup,
             Terminate, Call, TryRecv, Post, Notify, End, selector, children, In, Past
    <2>2. CASE \E p \in PcSet : LookReady(p)
      BY <2>2 DEF LookReady
    <2>3. CASE NothingAtLast
      BY <2>3 DEF NothingAtLast, Past, SelectInv, ReadyInv
    <2>4. CASE ClearedTerminated
      BY <2>4 DEF ClearedTerminated, Thrown
    <2> QED
      BY <2>1, <2>2, <2>3, <2>4
  <1> QED
    BY <1>1, TypeCorrect, SelectInvariant, PTL DEF Spec, SelectGivesIndex
=============================================================================
