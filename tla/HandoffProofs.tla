---------------------------- MODULE HandoffProofs ----------------------------
(* What the ring, the channel and the double buffer promise, for every     *)
(* capacity, every number of threads and every number of values.           *)
EXTENDS Handoff, TLAPS, FiniteSetTheorems, SequenceTheorems

ChannelPcs == {"script"} \cup ChannelPcSet
ProducerPcs == {"script", "slot", "publish"}
ConsumerPcs == {"script", "slot", "free"}

\* The ring: the slots from tail to head hold the values pushed and not
\* popped, in order; each end knows no more than there is.
RingSlots == \A k \in 0 .. Count - 1 : buf[Masked(tail + k)] = gets + 1 + k

RingViews ==
  /\ Count = puts - gets
  /\ 0 <= seen /\ seen <= Count /\ Count <= used /\ used <= cap - 1

RingPcs ==
  /\ pc[Producer] \in ProducerPcs /\ pc[Consumer] \in ConsumerPcs
  /\ pc[Producer] # "script" => used <= cap - 2
  /\ pc[Producer] = "publish" => buf[head] = puts + 1
  /\ pc[Consumer] # "script" => seen >= 1
  /\ pc[Consumer] = "free" => value = gets + 1

RingAnswers ==
  /\ len[Producer] \in -1 .. cap - 1 /\ len[Consumer] \in -1 .. cap - 1
  /\ len[Producer] >= 0 => used <= len[Producer]
  /\ seen >= len[Consumer]
  /\ LengthIsPromise

RingInv == RingSlots /\ RingViews /\ RingPcs /\ RingAnswers

\* The channel: the threads that will look at the queue are enough for its
\* messages while another sleeps.
Awake == {t \in Threads : pc[t] \in {"notify", "recv"}}
WakersEnough == Asleep # {} => Len(messages) <= Cardinality(Awake)
CloseWakes == closed /\ Asleep # {} => \E t \in Threads : pc[t] = "closing"
LateIsPast == \A t \in Threads : late[t] = 0 \/ (late[t] = 1 /\ closed /\ pc[t] # "send")

ChannelInv == pc \in [Threads -> ChannelPcs] /\ WakersEnough /\ CloseWakes /\ LateIsPast

\* Without a ring nobody is in pop or refused, without a channel nobody sleeps.
Elsewhere ==
  /\ kind # "ring" => /\ \A t \in Threads : pc[t] # "free"
                      /\ \A t \in Ends : ~refused[t]
  /\ kind # "channel" => /\ \A t \in Threads : late[t] = 0 /\ pc[t] # "asleep"

IInv ==
  /\ TypeOK /\ Elsewhere
  /\ kind = "ring" => RingInv
  /\ kind = "channel" => ChannelInv

USE HandoffAssumption

LEMMA InitInv == Init => IInv
  <1> SUFFICES ASSUME Init PROVE IInv
    OBVIOUS
  <1>0. cap \in Nat \ {0} /\ buf \in [0 .. cap - 1 -> Nat] /\ messages \in Seq(Nat)
    BY EmptySeq DEF Init
  <1>1. TypeOK
    <2>1. refused \in [Ends -> BOOLEAN] /\ len \in [Ends -> Int]
      BY DEF Init
    <2>2. pc \in [Threads -> PcSet] /\ late \in [Threads -> Nat]
      BY DEF Init, PcSet
    <2>z. 0 \in 0 .. cap - 1
      BY <1>0
    <2>3. head \in 0 .. cap - 1 /\ tail \in 0 .. cap - 1 /\ closed \in BOOLEAN
          /\ kind \in {"ring", "channel", "buffer"}
          /\ puts \in Nat /\ gets \in Nat /\ seen \in Nat /\ used \in Nat /\ value \in Nat
      BY <2>z DEF Init
    <2> QED
      BY <1>0, <2>1, <2>2, <2>3 DEF TypeOK
  <1>2. Elsewhere
    BY DEF Init, Elsewhere, Ends
  <1>3. Count = 0
    BY <1>1 DEF Init, Count, Masked, TypeOK
  <1>4. RingInv
    BY <1>1, <1>3 DEF Init, TypeOK, RingInv, RingSlots, RingViews, RingPcs, RingAnswers,
                      LengthIsPromise, Ends, ProducerPcs, ConsumerPcs
  <1>5. ChannelInv
    BY DEF Init, ChannelInv, ChannelPcs, WakersEnough, CloseWakes, LateIsPast, Asleep
  <1> QED
    BY <1>1, <1>2, <1>4, <1>5 DEF IInv

-----------------------------------------------------------------------------
(* The ring. *)

LEMMA CountRange == ASSUME TypeOK PROVE Count \in 0 .. cap - 1
  BY DEF TypeOK, Count, Masked

LEMMA RingStepInv == ASSUME IInv, RingStep PROVE IInv'
  <1> USE DEF Ends, At, Goto, PcSet, RingPcSet
  <1>a. TypeOK /\ Elsewhere /\ kind = "ring" /\ RingInv /\ Count \in 0 .. cap - 1
    BY CountRange DEF IInv, RingStep, Push, Length, PushSlot, PushPublish, Pop, PopSlot, PopFree
  <1>b. cap \in Nat \ {0} /\ head \in 0 .. cap - 1 /\ tail \in 0 .. cap - 1
        /\ buf \in [0 .. cap - 1 -> Nat] /\ puts \in Nat /\ gets \in Nat
        /\ seen \in Nat /\ used \in Nat /\ value \in Nat
    BY <1>a DEF TypeOK
  <1>1. ASSUME NEW n \in TailsSeen, Push(n) PROVE IInv'
    <2>1. n \in Count .. used /\ Count' = Count
      BY <1>1, <1>b DEF TailsSeen, Push, Count, Masked
    <2>2. (Full(n) <=> n = cap - 1) /\ Full(n) \in BOOLEAN
      BY <2>1, <1>a, <1>b DEF Full, Masked, RingInv, RingViews
    <2>3. TypeOK' /\ Elsewhere'
      <3>1. refused' \in [Ends -> BOOLEAN]
        BY <1>1, <1>a, <2>2 DEF TypeOK, Push
      <3> QED
        BY <1>1, <1>a, <1>b, <2>1, <3>1 DEF TypeOK, Elsewhere, Push, channel
    <2>4. RingSlots' /\ RingViews'
      BY <1>1, <1>a, <1>b, <2>1 DEF RingInv, RingSlots, RingViews, Push, Masked
    <2>5. RingPcs'
      BY <1>1, <1>a, <1>b, <2>1, <2>2 DEF RingInv, RingViews, RingPcs, Push, ProducerPcs, TypeOK
    <2>6. RingAnswers'
      BY <1>1, <1>a, <1>b, <2>1, <2>2 DEF RingInv, RingViews, RingAnswers, LengthIsPromise, Push, TypeOK
    <2> QED
      BY <1>1, <1>a, <2>3, <2>4, <2>5, <2>6 DEF IInv, RingInv, Push
  <1>2. ASSUME NEW n \in TailsSeen, Length(Producer, n) PROVE IInv'
    <2>1. n \in Count .. used /\ Count' = Count
      BY <1>2, <1>b DEF TailsSeen, Length, Count, Masked
    <2>2. TypeOK' /\ Elsewhere'
      BY <1>2, <1>a, <1>b, <2>1 DEF TypeOK, Elsewhere, Length, channel
    <2>3. RingInv'
      BY <1>2, <1>a, <1>b, <2>1 DEF RingInv, RingSlots, RingViews, RingPcs, RingAnswers,
         LengthIsPromise, Length, Masked, TypeOK
    <2> QED
      BY <1>2, <1>a, <2>2, <2>3 DEF IInv, Length
  <1>3. CASE PushSlot
    <2>1. Count' = Count /\ Count <= cap - 2 /\ head = Masked(tail + Count)
      BY <1>3, <1>a, <1>b DEF PushSlot, Count, Masked, RingInv, RingPcs, RingViews
    <2>2. TypeOK' /\ Elsewhere'
      BY <1>3, <1>a, <1>b DEF TypeOK, Elsewhere, PushSlot, channel
    <2>3. RingSlots'
      BY <1>3, <1>a, <1>b, <2>1 DEF RingInv, RingSlots, PushSlot, Masked
    <2>4. RingViews' /\ RingPcs' /\ RingAnswers'
      BY <1>3, <1>a, <1>b, <2>1 DEF RingInv, RingViews, RingPcs, RingAnswers,
         LengthIsPromise, PushSlot, TypeOK, ProducerPcs
    <2> QED
      BY <1>3, <1>a, <2>2, <2>3, <2>4 DEF IInv, RingInv, PushSlot
  <1>4. CASE PushPublish
    <2>1. Count <= cap - 2 /\ head = Masked(tail + Count)
      BY <1>4, <1>a, <1>b DEF PushPublish, Count, Masked, RingInv, RingPcs, RingViews
    <2>2. Count' = Count + 1
      BY <1>4, <1>a, <1>b, <2>1 DEF PushPublish, Count, Masked
    <2>3. TypeOK' /\ Elsewhere'
      BY <1>4, <1>a, <1>b DEF TypeOK, Elsewhere, PushPublish, channel, Masked
    <2>4. RingSlots'
      <3>1. buf[head] = puts + 1 /\ puts = gets + Count
        BY <1>4, <1>a, <1>b DEF RingInv, RingViews, RingPcs, PushPublish
      <3>2. ASSUME NEW k \in 0 .. Count PROVE buf[Masked(tail + k)] = gets + 1 + k
        <4>1. CASE k = Count
          BY <2>1, <3>1, <4>1, <1>a, <1>b
        <4>2. CASE k \in 0 .. Count - 1
          BY <4>2, <1>a DEF RingInv, RingSlots
        <4> QED
          BY <4>1, <4>2, <1>a
      <3> QED
        BY <1>4, <1>a, <2>2, <3>2 DEF RingSlots, PushPublish, Masked
    <2>5. RingViews' /\ RingPcs' /\ RingAnswers'
      BY <1>4, <1>a, <1>b, <2>1, <2>2 DEF RingInv, RingViews, RingPcs, RingAnswers,
         LengthIsPromise, PushPublish, TypeOK, ProducerPcs, ConsumerPcs
    <2> QED
      BY <1>4, <1>a, <2>3, <2>4, <2>5 DEF IInv, RingInv, PushPublish
  <1>5. ASSUME NEW n \in HeadsSeen, Pop(n) PROVE IInv'
    <2>1. n \in seen .. Count /\ Count' = Count
      BY <1>5, <1>b DEF HeadsSeen, Pop, Count, Masked
    <2>2. TypeOK' /\ Elsewhere'
      BY <1>5, <1>a, <1>b, <2>1 DEF TypeOK, Elsewhere, Pop, channel
    <2>3. RingSlots' /\ RingViews'
      BY <1>5, <1>a, <1>b, <2>1 DEF RingInv, RingSlots, RingViews, Pop, Masked
    <2>4. RingPcs' /\ RingAnswers'
      BY <1>5, <1>a, <1>b, <2>1 DEF RingInv, RingViews, RingPcs, RingAnswers,
         LengthIsPromise, Pop, TypeOK, ConsumerPcs, ProducerPcs
    <2> QED
      BY <1>5, <1>a, <2>2, <2>3, <2>4 DEF IInv, RingInv, Pop
  <1>6. ASSUME NEW n \in HeadsSeen, Length(Consumer, n) PROVE IInv'
    <2>1. n \in seen .. Count /\ Count' = Count
      BY <1>6, <1>b DEF HeadsSeen, Length, Count, Masked
    <2>2. TypeOK' /\ Elsewhere'
      BY <1>6, <1>a, <1>b, <2>1 DEF TypeOK, Elsewhere, Length, channel
    <2>3. RingSlots' /\ RingViews'
      BY <1>6, <1>a, <1>b, <2>1 DEF RingInv, RingSlots, RingViews, Length, Masked
    <2>a. seen' = n /\ used' = used /\ n >= seen
          /\ len' = [len EXCEPT ![Consumer] = n] /\ refused' = [refused EXCEPT ![Consumer] = FALSE]
      BY <1>6, <1>b, <2>1 DEF Length
    <2>b. RingPcs'
      BY <1>6, <1>a, <1>b, <2>1, <2>a DEF RingInv, RingViews, RingPcs, Length
    <2>c. RingAnswers'
      BY <1>6, <1>a, <1>b, <2>1, <2>a DEF RingInv, RingViews, RingAnswers, LengthIsPromise, Length, TypeOK
    <2>4. RingPcs' /\ RingAnswers'
      BY <2>b, <2>c
    <2> QED
      BY <1>6, <1>a, <2>2, <2>3, <2>4 DEF IInv, RingInv, Length
  <1>7. CASE PopSlot
    <2>1. Count' = Count /\ buf[tail] = gets + 1
      BY <1>7, <1>a, <1>b DEF PopSlot, Count, Masked, RingInv, RingPcs, RingViews, RingSlots
    <2>2. TypeOK' /\ Elsewhere'
      BY <1>7, <1>a, <1>b, <2>1 DEF TypeOK, Elsewhere, PopSlot, channel
    <2>3. RingSlots' /\ RingViews'
      BY <1>7, <1>a, <1>b, <2>1 DEF RingInv, RingSlots, RingViews, PopSlot, Masked
    <2>4. RingPcs' /\ RingAnswers'
      BY <1>7, <1>a, <1>b, <2>1 DEF RingInv, RingViews, RingPcs, RingAnswers,
         LengthIsPromise, PopSlot, TypeOK, ConsumerPcs
    <2> QED
      BY <1>7, <1>a, <2>2, <2>3, <2>4 DEF IInv, RingInv, PopSlot
  <1>8. CASE PopFree
    <2>1. Count >= 1 /\ Count' = Count - 1
      BY <1>8, <1>a, <1>b DEF PopFree, Count, Masked, RingInv, RingPcs, RingViews
    <2>2. TypeOK' /\ Elsewhere'
      BY <1>8, <1>a, <1>b, <2>1 DEF TypeOK, Elsewhere, PopFree, channel, Masked, RingInv, RingPcs
    <2>3. RingSlots'
      <3>1. ASSUME NEW k \in 0 .. Count - 2 PROVE Masked(Masked(tail + 1) + k) = Masked(tail + (k + 1))
        BY <1>a, <1>b DEF Masked
      <3>2. ASSUME NEW k \in 0 .. Count - 2 PROVE buf[Masked(tail + (k + 1))] = gets + 1 + (k + 1)
        BY <1>a DEF RingInv, RingSlots
      <3>3. cap' = cap /\ buf' = buf /\ tail' = Masked(tail + 1) /\ gets' = gets + 1
        BY <1>8 DEF PopFree
      <3>4. ASSUME NEW k \in 0 .. Count - 2 PROVE buf[Masked(tail' + k)] = gets' + 1 + k
        BY <3>1, <3>2, <3>3, <1>b
      <3>5. \A x : Masked(x)' = Masked(x)
        BY <3>3 DEF Masked
      <3> QED
        BY <2>1, <3>3, <3>4, <1>a DEF RingSlots, Masked
    <2>4. RingViews' /\ RingPcs' /\ RingAnswers'
      BY <1>8, <1>a, <1>b, <2>1 DEF RingInv, RingViews, RingPcs, RingAnswers,
         LengthIsPromise, PopFree, TypeOK, ConsumerPcs, ProducerPcs
    <2> QED
      BY <1>8, <1>a, <2>2, <2>3, <2>4 DEF IInv, RingInv, PopFree
  <1> QED
    BY <1>1, <1>2, <1>3, <1>4, <1>5, <1>6, <1>7, <1>8 DEF RingStep

-----------------------------------------------------------------------------
(* The channel. *)

LEMMA SetFacts ==
  /\ IsFiniteSet(Asleep) /\ IsFiniteSet(Awake) /\ IsFiniteSet(Awake')
  /\ Cardinality(Awake) \in Nat /\ Cardinality(Awake') \in Nat
  BY FS_Subset, FS_CardinalityType DEF Asleep, Awake

\* Who starts to look at the queue is one more, who stops is one less.
LEMMA OneMore ==
  ASSUME NEW S, IsFiniteSet(S), NEW t, t \notin S
  PROVE  Cardinality(S \cup {t}) = Cardinality(S) + 1
  BY FS_AddElement

LEMMA OneLess ==
  ASSUME NEW S, IsFiniteSet(S), NEW t \in S
  PROVE  Cardinality(S \ {t}) = Cardinality(S) - 1
  BY FS_RemoveElement

LEMMA ChannelStepInv == ASSUME IInv, NEW t \in Threads, ChannelStep(t) PROVE IInv'
  <1> USE DEF At, Goto
  <1>a. /\ TypeOK /\ Elsewhere /\ kind = "channel" /\ ChannelInv
        /\ kind' = "channel" /\ UNCHANGED <<ring, buffer>>
    BY DEF IInv, ChannelStep, SendTest, SendPush, SendNotify, RecvCall, Take, RecvNull,
       RecvSleep, SpuriousWakeup, Close, CloseNotify
  <1>b. /\ pc \in [Threads -> ChannelPcs] /\ messages \in Seq(Nat) /\ late \in [Threads -> Nat]
        /\ puts \in Nat /\ gets \in Nat /\ closed \in BOOLEAN /\ Len(messages) \in Nat
    BY <1>a, LenProperties DEF TypeOK, ChannelInv
  <1>c. SUFFICES /\ pc' \in [Threads -> ChannelPcs] /\ messages' \in Seq(Nat)
                 /\ puts' \in Nat /\ gets' \in Nat /\ closed' \in BOOLEAN
                 /\ late' \in [Threads -> Nat]
                 /\ WakersEnough' /\ CloseWakes' /\ LateIsPast'
    <2>1. TypeOK'
      BY <1>a, <1>c DEF TypeOK, ring, buffer, ChannelPcs, PcSet
    <2>2. Elsewhere'
      BY <1>a, <1>c DEF Elsewhere, ring, ChannelPcs, ChannelPcSet
    <2> QED
      BY <1>a, <1>c, <2>1, <2>2 DEF IInv, ChannelInv
  <1> USE DEF ChannelPcs, ChannelPcSet
  <1>1. CASE SendTest(t)
    <2>1. Asleep' = Asleep /\ Awake' = Awake
      BY <1>1, <1>b DEF SendTest, Asleep, Awake
    <2>2. WakersEnough' /\ CloseWakes' /\ LateIsPast'
      BY <1>1, <1>a, <1>b, <2>1 DEF SendTest, ChannelInv, WakersEnough, CloseWakes, LateIsPast, channel
    <2> QED
      BY <1>1, <1>b, <2>2 DEF SendTest, channel
  <1>2. CASE SendPush(t)
    <2>1. Asleep' = Asleep /\ Awake' = Awake \cup {t} /\ t \notin Awake
      BY <1>2, <1>b DEF SendPush, Asleep, Awake
    <2>2. messages' \in Seq(Nat) /\ Len(messages') = Len(messages) + 1
      BY <1>2, <1>b, AppendProperties DEF SendPush
    <2>3. WakersEnough'
      BY <1>a, <1>b, <2>1, <2>2, OneMore, SetFacts DEF ChannelInv, WakersEnough
    <2>4. CloseWakes'
      BY <1>2, <1>a, <1>b, <2>1 DEF SendPush, ChannelInv, CloseWakes
    <2>5. LateIsPast' /\ late' \in [Threads -> Nat]
      BY <1>2, <1>a, <1>b DEF SendPush, ChannelInv, LateIsPast
    <2> QED
      BY <1>2, <1>b, <2>2, <2>3, <2>4, <2>5 DEF SendPush
  <1>3. CASE SendNotify(t)
    <2>1. CASE Asleep = {}
      <3>1. Asleep' = {}
        BY <1>3, <1>b, <2>1 DEF SendNotify, Asleep
      <3> QED
        BY <1>3, <1>a, <1>b, <2>1, <3>1 DEF SendNotify, ChannelInv, WakersEnough, CloseWakes, LateIsPast, channel
    <2>2. CASE Asleep # {}
      <3>1. PICK r \in Asleep : pc' = [pc EXCEPT ![t] = "script", ![r] = "recv"]
        BY <1>3, <2>2 DEF SendNotify
      <3>2. r \in Threads /\ r # t /\ r \notin Awake /\ t \in Awake
        BY <1>3, <1>b, <3>1 DEF SendNotify, Asleep, Awake
      <3>3. Asleep' = Asleep \ {r} /\ Awake' = (Awake \ {t}) \cup {r}
        BY <1>b, <3>1, <3>2 DEF Asleep, Awake
      <3>4. Cardinality(Awake') = Cardinality(Awake)
        <4>1. Cardinality(Awake \ {t}) = Cardinality(Awake) - 1 /\ IsFiniteSet(Awake \ {t})
          BY <3>2, SetFacts, OneLess, FS_Subset
        <4>2. Cardinality((Awake \ {t}) \cup {r}) = Cardinality(Awake \ {t}) + 1
          BY <3>2, <4>1, OneMore
        <4> QED
          BY <3>3, <4>1, <4>2, SetFacts
      <3>5. WakersEnough'
        BY <1>3, <1>a, <2>2, <3>4 DEF ChannelInv, WakersEnough, SendNotify, channel
      <3>a. closed' = closed /\ late' = late
        BY <1>3 DEF SendNotify, channel
      <3>b. CloseWakes'
        <4> SUFFICES ASSUME closed PROVE \E s \in Threads : pc'[s] = "closing"
          BY <3>a DEF CloseWakes
        <4>1. PICK s \in Threads : pc[s] = "closing"
          BY <1>a, <2>2 DEF ChannelInv, CloseWakes
        <4>2. s # t /\ s # r
          BY <1>3, <3>2, <4>1 DEF SendNotify, Asleep
        <4> QED
          BY <1>b, <3>1, <4>1, <4>2
      <3>c. LateIsPast'
        BY <1>a, <1>b, <3>1, <3>2, <3>a DEF ChannelInv, LateIsPast
      <3>6. CloseWakes' /\ LateIsPast'
        BY <3>b, <3>c
      <3> QED
        BY <1>3, <1>b, <3>1, <3>5, <3>6 DEF SendNotify, channel
    <2> QED
      BY <2>1, <2>2
  <1>4. CASE RecvCall(t) \/ SpuriousWakeup(t)
    <2>1. Asleep' \subseteq Asleep /\ Awake' = Awake \cup {t} /\ t \notin Awake
      BY <1>4, <1>b DEF RecvCall, SpuriousWakeup, Asleep, Awake
    <2>2. WakersEnough'
      <3>1. Cardinality(Awake') = Cardinality(Awake) + 1
        BY <2>1, OneMore, SetFacts
      <3>2. messages' = messages
        BY <1>4 DEF RecvCall, SpuriousWakeup, channel
      <3>3. Asleep # {} => Len(messages) <= Cardinality(Awake)
        BY <1>a DEF ChannelInv, WakersEnough
      <3>4. Cardinality(Awake) \in Nat /\ Len(messages) \in Nat
        BY <1>b, SetFacts, FS_CardinalityType, LenProperties
      <3> QED
        BY <2>1, <3>1, <3>2, <3>3, <3>4 DEF WakersEnough
    <2>3. CloseWakes' /\ LateIsPast'
      BY <1>4, <1>a, <1>b, <2>1 DEF RecvCall, SpuriousWakeup, ChannelInv, CloseWakes, LateIsPast, channel
    <2> QED
      BY <1>4, <1>b, <2>2, <2>3 DEF RecvCall, SpuriousWakeup, channel
  <1>5. CASE Take(t)
    <2>1. Asleep' = Asleep /\ Awake' = Awake \ {t}
      BY <1>5, <1>b DEF Take, Asleep, Awake
    <2>2. messages' \in Seq(Nat) /\ Len(messages') = Len(messages) - 1
      BY <1>5, <1>b, HeadTailProperties DEF Take
    <2>3. Cardinality(Awake') >= Cardinality(Awake) - 1
      <3>1. CASE t \in Awake
        BY <2>1, <3>1, OneLess, SetFacts
      <3>2. CASE t \notin Awake
        <4>1. Awake' = Awake
          BY <2>1, <3>2
        <4> QED
          BY <4>1, SetFacts
      <3> QED
        BY <3>1, <3>2
    <2>4. WakersEnough'
      BY <1>a, <1>b, <2>1, <2>2, <2>3, SetFacts DEF ChannelInv, WakersEnough
    <2>5. CloseWakes' /\ LateIsPast'
      BY <1>5, <1>a, <1>b, <2>1 DEF Take, ChannelInv, CloseWakes, LateIsPast
    <2> QED
      BY <1>5, <1>b, <2>2, <2>4, <2>5 DEF Take
  <1>6. CASE RecvNull(t)
    <2>1. Asleep' = Asleep /\ messages' = <<>> /\ Len(messages') = 0
      BY <1>6, <1>b DEF RecvNull, Asleep, channel
    <2>2. WakersEnough'
      BY <2>1, SetFacts DEF WakersEnough
    <2>3. CloseWakes' /\ LateIsPast'
      BY <1>6, <1>a, <1>b, <2>1 DEF RecvNull, ChannelInv, CloseWakes, LateIsPast, channel
    <2> QED
      BY <1>6, <1>b, <2>2, <2>3 DEF RecvNull, channel
  <1>7. CASE RecvSleep(t)
    <2>1. messages' = <<>> /\ Len(messages') = 0 /\ ~closed'
      BY <1>7, <1>b DEF RecvSleep, channel
    <2>2. WakersEnough' /\ CloseWakes'
      BY <2>1, SetFacts DEF WakersEnough, CloseWakes
    <2>3. LateIsPast'
      BY <1>7, <1>a, <1>b DEF RecvSleep, ChannelInv, LateIsPast, channel
    <2> QED
      BY <1>7, <1>b, <2>2, <2>3 DEF RecvSleep, channel
  <1>8. CASE Close(t)
    <2>1. Asleep' = Asleep /\ Awake' = Awake
      BY <1>8, <1>b DEF Close, Asleep, Awake
    <2>2. WakersEnough' /\ LateIsPast'
      BY <1>8, <1>a, <1>b, <2>1 DEF Close, ChannelInv, WakersEnough, LateIsPast
    <2>3. CloseWakes'
      BY <1>8, <1>b DEF Close, CloseWakes
    <2> QED
      BY <1>8, <1>b, <2>2, <2>3 DEF Close
  <1>9. CASE CloseNotify(t)
    <2>1. Asleep' = {}
      BY <1>9, <1>b DEF CloseNotify, Asleep
    <2>2. pc' \in [Threads -> ChannelPcs]
      BY <1>9, <1>b DEF CloseNotify, Asleep
    <2>3. LateIsPast'
      BY <1>9, <1>a, <1>b DEF CloseNotify, ChannelInv, LateIsPast, channel, Asleep
    <2> QED
      BY <1>9, <1>b, <2>1, <2>2, <2>3 DEF CloseNotify, channel, WakersEnough, CloseWakes
  <1> QED
    BY <1>1, <1>2, <1>3, <1>4, <1>5, <1>6, <1>7, <1>8, <1>9 DEF ChannelStep

-----------------------------------------------------------------------------
(* The double buffer touches neither. *)

LEMMA BufferStepInv == ASSUME IInv, BufferStep PROVE IInv'
  <1>1. /\ TypeOK /\ Elsewhere /\ kind = "buffer" /\ UNCHANGED <<kind, ring, channel>>
        /\ puts' \in Nat /\ gets' = gets
    <2>1. kind = "buffer" /\ UNCHANGED <<kind, gets, ring, channel>> /\ (puts' = puts \/ puts' = puts + 1)
      BY DEF BufferStep, Write, SetElement, Swap, Read, ReadElement, At
    <2> QED
      BY <2>1 DEF IInv, TypeOK
  <1>2. \E t \in Threads, p \in {"script"} \cup BufferPcSet : pc' = [pc EXCEPT ![t] = p]
    BY DEF BufferStep, Write, SetElement, Swap, Read, ReadElement, Goto, BufferPcSet
  <1>3. TypeOK'
    BY <1>1, <1>2 DEF TypeOK, ring, channel, PcSet
  <1>4. Elsewhere'
    BY <1>1, <1>2 DEF Elsewhere, TypeOK, ring, channel, BufferPcSet
  <1> QED
    BY <1>1, <1>3, <1>4 DEF IInv

-----------------------------------------------------------------------------

LEMMA StutterInv == ASSUME IInv, UNCHANGED vars PROVE IInv'
  BY DEF IInv, TypeOK, Elsewhere, RingInv, RingSlots, RingViews, RingPcs, RingAnswers,
     LengthIsPromise, ChannelInv, WakersEnough, CloseWakes, LateIsPast, Asleep, Awake, Count,
     Masked, vars, ring, channel

LEMMA SpecInv == Spec => []IInv
  <1>1. IInv /\ [Next]_vars => IInv'
    BY RingStepInv, ChannelStepInv, BufferStepInv, StutterInv DEF Next
  <1> QED
    BY InitInv, <1>1, PTL DEF Spec

\* pop answers the values in the order pushed, and the ring holds at most
\* cap - 1, for every capacity.
THEOREM RingIsFifo == Spec => []RingInOrder
  <1>1. IInv => RingInOrder
    BY CountRange DEF IInv, RingInv, RingViews, RingPcs, Elsewhere, RingInOrder
  <1> QED
    BY <1>1, SpecInv, PTL

\* length never promises either end what its next pop or push refuses.
THEOREM LengthKept == Spec => []LengthIsPromise
  <1>1. IInv => LengthIsPromise
    BY DEF IInv, RingInv, RingAnswers, Elsewhere, LengthIsPromise, Ends
  <1> QED
    BY <1>1, SpecInv, PTL

\* No receiver sleeps beside a message, or on a closed channel, with nobody
\* on the way, for every number of threads.
THEOREM ReceiversWake == Spec => []RecvWakeupComing
  <1>1. IInv => RecvWakeupComing
    <2> SUFFICES ASSUME IInv, Asleep # {} PROVE
          /\ messages # <<>> => \E t \in Threads : pc[t] \in {"notify", "recv"}
          /\ closed => \E t \in Threads : pc[t] = "closing"
      BY DEF RecvWakeupComing
    <2>1. kind = "channel" /\ ChannelInv /\ messages \in Seq(Nat)
      BY DEF IInv, Elsewhere, Asleep, TypeOK
    <2>2. ASSUME messages # <<>> PROVE Awake # {}
      <3>1. Len(messages) \in Nat /\ Len(messages) # 0
        BY <2>1, <2>2, LenProperties, EmptySeq
      <3>2. Cardinality(Awake) # 0
        BY <2>1, <3>1, SetFacts DEF ChannelInv, WakersEnough
      <3> QED
        BY <3>2, SetFacts, FS_EmptySet
    <2> QED
      BY <2>1, <2>2 DEF Awake, ChannelInv, CloseWakes
  <1> QED
    BY <1>1, SpecInv, PTL

\* A close leaves at most one value of each thread behind.
THEOREM CloseIsNearlyFinal == Spec => []OneLateSend
  <1>1. IInv => OneLateSend
    BY DEF IInv, ChannelInv, LateIsPast, Elsewhere, OneLateSend, TypeOK
  <1> QED
    BY <1>1, SpecInv, PTL

\* The variables stay in their ranges.
THEOREM TypeCorrect == Spec => []TypeOK
  <1>1. IInv => TypeOK
    BY DEF IInv
  <1> QED
    BY <1>1, SpecInv, PTL
-----------------------------------------------------------------------------
(* What the double buffer promises. *)

\* The version last swapped in is whole, and the one in the making is in the
\* other vector.
VersionsApart ==
  /\ vecs \in [0 .. 1 -> [1 .. 2 -> Nat]]
  /\ readIdx \in 0 .. 1
  /\ vecs[readIdx] = [k \in 1 .. 2 |-> puts]
  /\ pc[Producer] # "script" => held[Producer] = 1 - readIdx
  /\ pc[Producer] \in {"set2", "swap"} => vecs[1 - readIdx][1] = puts + 1
  /\ pc[Producer] = "swap" => vecs[1 - readIdx][2] = puts + 1

\* A copy that no swap has overtaken is of that version so far.
CopyIsOfVersion ==
  /\ snap \in Seq(Nat) /\ Len(snap) <= 2 /\ swapsAtRead \in Nat /\ swapsAtRead <= puts
  /\ pc[Consumer] = "copy" => Len(snap) < 2
  /\ swapsAtRead = puts => /\ pc[Consumer] = "copy" => held[Consumer] = readIdx
                           /\ \A k \in 1 .. Len(snap) : snap[k] = puts

BufferInv ==
  /\ pc[Producer] \in {"script", "set1", "set2", "swap"} /\ pc[Consumer] \in {"script", "copy"}
  /\ held \in [Ends -> 0 .. 1]
  /\ VersionsApart /\ CopyIsOfVersion

BInv ==
  /\ kind = "buffer" => BufferInv
  /\ kind # "buffer" => snap = <<>>

LEMMA InitBuffer == Init => BInv
  <1> SUFFICES ASSUME Init PROVE BInv
    OBVIOUS
  <1>1. vecs = [v \in 0 .. 1 |-> [k \in 1 .. 2 |-> 0]]
    BY DEF Init
  <1>2. VersionsApart
    BY <1>1 DEF Init, VersionsApart
  <1>3. CopyIsOfVersion
    BY EmptySeq DEF Init, CopyIsOfVersion
  <1> QED
    BY <1>2, <1>3 DEF Init, BInv, BufferInv, Ends

LEMMA BufferStepKeeps == ASSUME TypeOK, kind = "buffer", BufferInv, BufferStep PROVE BufferInv'
  <1> USE DEF At, Goto
  <1>a. /\ pc \in [Threads -> PcSet] /\ puts \in Nat /\ held \in [Ends -> 0 .. 1]
        /\ Producer \in Ends /\ Consumer \in Ends
        /\ VersionsApart /\ CopyIsOfVersion
        /\ pc[Producer] \in {"script", "set1", "set2", "swap"} /\ pc[Consumer] \in {"script", "copy"}
    BY DEF TypeOK, BufferInv, Ends
  <1>b. vecs \in [0 .. 1 -> [1 .. 2 -> Nat]] /\ readIdx \in 0 .. 1 /\ snap \in Seq(Nat) /\ Len(snap) \in Nat
    BY <1>a, LenProperties DEF VersionsApart, CopyIsOfVersion
  <1>1. CASE Write
    <2>1. /\ pc' = [pc EXCEPT ![Producer] = "set1"] /\ held' = [held EXCEPT ![Producer] = 1 - readIdx]
          /\ UNCHANGED <<puts, readIdx, vecs, snap, swapsAtRead>>
      BY <1>1 DEF Write, WriteVec
    <2>2. pc'[Producer] = "set1" /\ pc'[Consumer] = pc[Consumer]
          /\ held'[Producer] = 1 - readIdx /\ held'[Consumer] = held[Consumer]
      BY <2>1, <1>a
    <2>3. VersionsApart'
      BY <1>a, <2>1, <2>2 DEF VersionsApart
    <2>4. CopyIsOfVersion'
      BY <1>a, <2>1, <2>2 DEF CopyIsOfVersion
    <2> QED
      BY <1>a, <1>b, <2>1, <2>2, <2>3, <2>4 DEF BufferInv
  <1>2. ASSUME NEW k \in 1 .. 2, SetElement(k) PROVE BufferInv'
    <2>1. /\ pc[Producer] = (IF k = 1 THEN "set1" ELSE "set2")
          /\ pc' = [pc EXCEPT ![Producer] = IF k = 1 THEN "set2" ELSE "swap"]
          /\ vecs' = [vecs EXCEPT ![held[Producer]][k] = puts + 1]
          /\ UNCHANGED <<puts, readIdx, held, snap, swapsAtRead>>
      BY <1>2 DEF SetElement
    <2>2. held[Producer] = 1 - readIdx /\ 1 - readIdx \in 0 .. 1 /\ 1 - readIdx # readIdx
      BY <1>a, <1>b, <2>1 DEF VersionsApart
    <2>3. /\ vecs' \in [0 .. 1 -> [1 .. 2 -> Nat]] /\ vecs'[readIdx] = vecs[readIdx]
          /\ vecs'[1 - readIdx] = [vecs[1 - readIdx] EXCEPT ![k] = puts + 1]
      BY <1>a, <1>b, <2>1, <2>2
    <2>4. vecs'[1 - readIdx][k] = puts + 1 /\ \A j \in 1 .. 2 : j # k => vecs'[1 - readIdx][j] = vecs[1 - readIdx][j]
      BY <1>b, <2>2, <2>3
    <2>5. pc'[Producer] = (IF k = 1 THEN "set2" ELSE "swap") /\ pc'[Consumer] = pc[Consumer]
      BY <1>a, <2>1
    <2>6. VersionsApart'
      BY <1>a, <2>1, <2>2, <2>3, <2>4, <2>5 DEF VersionsApart
    <2>7. CopyIsOfVersion'
      BY <1>a, <2>1, <2>5 DEF CopyIsOfVersion
    <2> QED
      BY <1>a, <2>1, <2>5, <2>6, <2>7 DEF BufferInv
  <1>3. CASE Swap
    <2>1. /\ pc[Producer] = "swap" /\ pc' = [pc EXCEPT ![Producer] = "script"]
          /\ readIdx' = 1 - readIdx /\ puts' = puts + 1
          /\ UNCHANGED <<vecs, held, snap, swapsAtRead>>
      BY <1>3 DEF Swap
    <2>2. pc'[Producer] = "script" /\ pc'[Consumer] = pc[Consumer]
      BY <1>a, <2>1
    <2>3. vecs[1 - readIdx] = [k \in 1 .. 2 |-> puts + 1]
      <3>1. vecs[1 - readIdx] \in [1 .. 2 -> Nat]
        BY <1>b
      <3>2. \A k \in 1 .. 2 : vecs[1 - readIdx][k] = puts + 1
        BY <1>a, <2>1 DEF VersionsApart
      <3> QED
        BY <3>1, <3>2
    <2>4. VersionsApart'
      BY <1>b, <2>1, <2>2, <2>3 DEF VersionsApart
    <2>5. CopyIsOfVersion'
      BY <1>a, <2>1, <2>2 DEF CopyIsOfVersion
    <2> QED
      BY <1>a, <2>1, <2>2, <2>4, <2>5 DEF BufferInv
  <1>4. CASE Read
    <2>1. /\ pc' = [pc EXCEPT ![Consumer] = "copy"] /\ held' = [held EXCEPT ![Consumer] = readIdx]
          /\ snap' = <<>> /\ swapsAtRead' = puts /\ UNCHANGED <<puts, readIdx, vecs>>
      BY <1>4 DEF Read
    <2>2. pc'[Consumer] = "copy" /\ pc'[Producer] = pc[Producer]
          /\ held'[Consumer] = readIdx /\ held'[Producer] = held[Producer] /\ held' \in [Ends -> 0 .. 1]
      BY <1>a, <1>b, <2>1
    <2>3. VersionsApart'
      BY <1>a, <2>1, <2>2 DEF VersionsApart
    <2>4. CopyIsOfVersion'
      BY <1>a, <2>1, <2>2, EmptySeq DEF CopyIsOfVersion
    <2> QED
      BY <1>a, <2>2, <2>3, <2>4 DEF BufferInv
  <1>5. CASE ReadElement
    <2> DEFINE e == vecs[held[Consumer]][Len(snap) + 1]
    <2>1. /\ pc[Consumer] = "copy" /\ snap' = Append(snap, e)
          /\ pc' = [pc EXCEPT ![Consumer] = IF Len(snap) = 0 THEN "copy" ELSE "script"]
          /\ UNCHANGED <<puts, readIdx, vecs, held, swapsAtRead>>
      BY <1>5 DEF ReadElement
    <2>2. pc'[Consumer] = (IF Len(snap) = 0 THEN "copy" ELSE "script") /\ pc'[Producer] = pc[Producer]
      BY <1>a, <2>1
    <2>3. Len(snap) + 1 \in 1 .. 2 /\ e \in Nat
      BY <1>a, <1>b, <2>1 DEF CopyIsOfVersion
    <2>4. /\ snap' \in Seq(Nat) /\ Len(snap') = Len(snap) + 1 /\ snap'[Len(snap) + 1] = e
          /\ \A k \in 1 .. Len(snap) : snap'[k] = snap[k]
      BY <1>b, <2>1, <2>3, AppendProperties
    <2>5. swapsAtRead = puts => e = puts
      BY <1>a, <2>1, <2>3 DEF CopyIsOfVersion, VersionsApart
    <2>6. ASSUME swapsAtRead = puts PROVE \A k \in 1 .. Len(snap') : snap'[k] = puts
      <3>1. \A k \in 1 .. Len(snap) : snap[k] = puts
        BY <1>a, <2>6 DEF CopyIsOfVersion
      <3>2. \A k \in 1 .. Len(snap') : k \in 1 .. Len(snap) \/ k = Len(snap) + 1
        BY <1>b, <2>4
      <3> QED
        BY <2>4, <2>5, <2>6, <3>1, <3>2
    <2>7. CopyIsOfVersion'
      BY <1>a, <1>b, <2>1, <2>2, <2>3, <2>4, <2>6 DEF CopyIsOfVersion
    <2>8. VersionsApart'
      BY <1>a, <2>1, <2>2 DEF VersionsApart
    <2> QED
      BY <1>a, <2>1, <2>2, <2>7, <2>8 DEF BufferInv
  <1> QED
    BY <1>1, <1>2, <1>3, <1>4, <1>5 DEF BufferStep

LEMMA NextBuffer == ASSUME TypeOK, BInv, [Next]_vars PROVE BInv'
  <1>1. CASE BufferStep
    <2>1. kind = "buffer" /\ kind' = "buffer"
      BY <1>1 DEF BufferStep, Write, SetElement, Swap, Read, ReadElement, At
    <2> QED
      BY <1>1, <2>1, BufferStepKeeps DEF BInv
  <1>2. CASE RingStep
    <2>1. kind = "ring" /\ UNCHANGED <<kind, buffer>>
      BY <1>2 DEF RingStep, Push, PushSlot, PushPublish, Pop, PopSlot, PopFree, Length, At
    <2> QED
      BY <2>1 DEF BInv, buffer
  <1>3. CASE \E t \in Threads : ChannelStep(t)
    <2>1. kind = "channel" /\ UNCHANGED <<kind, buffer>>
      BY <1>3 DEF ChannelStep, SendTest, SendPush, SendNotify, RecvCall, Take, RecvNull,
         RecvSleep, SpuriousWakeup, Close, CloseNotify, At
    <2> QED
      BY <2>1 DEF BInv, buffer
  <1>4. CASE UNCHANGED vars
    BY <1>4 DEF vars, buffer, BInv, BufferInv, VersionsApart, CopyIsOfVersion
  <1> QED
    BY <1>1, <1>2, <1>3, <1>4 DEF Next

\* What the consumer copied is one whole version, unless the producer swapped
\* since it called read, for every number of versions.
THEOREM CopiesAreWhole == Spec => []WholeSnapshot
  <1>1. TypeOK /\ BInv => WholeSnapshot
    <2> SUFFICES ASSUME TypeOK, BInv, Len(snap) = 2, swapsAtRead = puts PROVE snap = <<puts, puts>>
      BY DEF WholeSnapshot
    <2>1. CASE kind = "buffer"
      <3>1. snap \in Seq(Nat) /\ \A k \in 1 .. 2 : snap[k] = puts
        BY <2>1 DEF BInv, BufferInv, CopyIsOfVersion
      <3> QED
        BY <3>1
    <2>2. CASE kind # "buffer"
      BY <2>2, EmptySeq DEF BInv
    <2> QED
      BY <2>1, <2>2
  <1>2. TypeOK /\ BInv /\ [Next]_vars => BInv'
    BY NextBuffer
  <1> QED
    BY <1>1, <1>2, InitBuffer, TypeCorrect, PTL DEF Spec
-----------------------------------------------------------------------------
(* Ring and channel are queues. *)

\* n numbers after a.
Numbers(a, n) == [k \in 1 .. n |-> a + k]

LEMMA NumbersSeq ==
  ASSUME NEW a \in Nat, NEW n \in Nat
  PROVE  /\ Numbers(a, n) \in Seq(Nat) /\ Len(Numbers(a, n)) = n
         /\ n = 0 => Numbers(a, n) = <<>>
         /\ n # 0 => Numbers(a, n) # <<>>
  <1>1. Numbers(a, n) \in Seq(Nat) /\ Len(Numbers(a, n)) = n
    BY DEF Numbers
  <1> QED
    BY <1>1, EmptySeq

LEMMA NumbersAppend ==
  ASSUME NEW a \in Nat, NEW n \in Nat
  PROVE  Append(Numbers(a, n), a + n + 1) = Numbers(a, n + 1)
  BY NumbersSeq DEF Numbers

LEMMA NumbersTail ==
  ASSUME NEW a \in Nat, NEW n \in Nat, n # 0
  PROVE  Head(Numbers(a, n)) = a + 1 /\ Tail(Numbers(a, n)) = Numbers(a + 1, n - 1)
  BY NumbersSeq DEF Numbers

\* What is queued are the numbers put in and not taken out.
LEMMA RingQueued ==
  IInv /\ kind = "ring" =>
    /\ Queued = Numbers(gets + Copied, puts - gets - Copied)
    /\ gets + Copied \in Nat /\ puts - gets - Copied \in Nat
    /\ puts - gets <= cap - 1
  <1> SUFFICES ASSUME IInv, kind = "ring"
               PROVE  /\ Queued = Numbers(gets + Copied, puts - gets - Copied)
                      /\ gets + Copied \in Nat /\ puts - gets - Copied \in Nat
                      /\ puts - gets <= cap - 1
    OBVIOUS
  <1>1. /\ RingInv /\ Count \in 0 .. cap - 1 /\ Count = puts - gets
        /\ cap \in Nat \ {0} /\ puts \in Nat /\ gets \in Nat /\ tail \in 0 .. cap - 1
        /\ seen \in Nat /\ seen <= Count
    BY CountRange DEF IInv, TypeOK, RingInv, RingViews
  <1>2. Copied \in 0 .. 1 /\ Copied <= Count
    BY <1>1 DEF Copied, RingInv, RingPcs
  <1>3. ASSUME NEW k \in 1 .. Count - Copied
        PROVE  buf[Masked(tail + Copied + k - 1)] = gets + Copied + k
    <2>1. Copied + k - 1 \in 0 .. Count - 1
      BY <1>1, <1>2
    <2>2. buf[Masked(tail + (Copied + k - 1))] = gets + 1 + (Copied + k - 1)
      BY <1>1, <2>1 DEF RingInv, RingSlots
    <2>3. tail + (Copied + k - 1) = tail + Copied + k - 1
      BY <1>1, <1>2
    <2> QED
      BY <1>1, <1>2, <2>2, <2>3
  <1>4. Queued = [k \in 1 .. Count - Copied |-> gets + Copied + k]
    BY <1>3 DEF Queued
  <1>5. Count - Copied = puts - gets - Copied
    BY <1>1
  <1> QED
    BY <1>1, <1>2, <1>4, <1>5 DEF Numbers

LEMMA RingQueuedNext ==
  (IInv /\ kind = "ring" =>
    /\ Queued = Numbers(gets + Copied, puts - gets - Copied)
    /\ gets + Copied \in Nat /\ puts - gets - Copied \in Nat
    /\ puts - gets <= cap - 1)'
  BY RingQueued, PTL

\* The variables of the queue.
QueueVars ==
  <<Queued, IF kind = "buffer" THEN 0 ELSE puts, IF kind = "ring" THEN value ELSE gets,
    IF kind = "ring" THEN cap - 1 ELSE -1>>

\* A value is put in when the producer publishes head, and taken out when the
\* consumer copies its slot; the other steps of the ring go unnoticed.
LEMMA RingStepQueue == ASSUME IInv, IInv', RingStep PROVE Queue!Next \/ UNCHANGED QueueVars
  <1> USE DEF At, Goto, Ends
  <1>1. kind = "ring" /\ kind' = "ring" /\ cap' = cap
    BY DEF RingStep, Push, Length, PushSlot, PushPublish, Pop, PopSlot, PopFree
  <1>2. /\ Queued = Numbers(gets + Copied, puts - gets - Copied)
        /\ gets + Copied \in Nat /\ puts - gets - Copied \in Nat
    BY <1>1, RingQueued
  <1>3. Queued' = Numbers(gets' + Copied', puts' - gets' - Copied')
    BY <1>1, RingQueuedNext
  <1>4. /\ puts \in Nat /\ gets \in Nat /\ cap \in Nat \ {0} /\ pc \in [Threads -> PcSet]
        /\ Copied \in 0 .. 1 /\ Copied' \in 0 .. 1
    BY DEF IInv, TypeOK, Copied
  <1>5. Count = puts - gets /\ Count <= used /\ seen <= Count /\ seen \in Nat /\ used \in Nat /\ RingPcs
    BY <1>1 DEF IInv, RingInv, RingViews, TypeOK
  <1>6. ASSUME UNCHANGED <<puts, value>>, gets' \in Nat, gets' + Copied' = gets + Copied
        PROVE  UNCHANGED QueueVars
    <2>1. puts' - gets' - Copied' = puts - gets - Copied
      <3>1. ASSUME NEW p \in Int, NEW g \in Int, NEW c \in Int PROVE p - g - c = p - (g + c)
        OBVIOUS
      <3>2. puts' - gets' - Copied' = puts' - (gets' + Copied')
        BY <1>4, <1>6, <3>1
      <3>3. puts - gets - Copied = puts - (gets + Copied)
        BY <1>4, <3>1
      <3> QED
        BY <1>6, <3>2, <3>3
    <2>2. Queued' = Queued
      BY <1>2, <1>3, <1>6, <2>1
    <2> QED
      BY <1>1, <1>6, <2>2 DEF QueueVars
  <1>7. ASSUME NEW n \in TailsSeen, Push(n) PROVE UNCHANGED QueueVars
    BY <1>4, <1>6, <1>7 DEF Push, Copied
  <1>8. ASSUME NEW t \in Ends, NEW n, Length(t, n) PROVE UNCHANGED QueueVars
    BY <1>4, <1>6, <1>8 DEF Length, Copied
  <1>9. CASE PushSlot
    <2>1. UNCHANGED <<puts, value, gets>> /\ Copied' = Copied
      BY <1>4, <1>9 DEF PushSlot, Copied
    <2> QED
      BY <1>4, <1>6, <2>1
  <1>10. CASE PushPublish
    <2>1. puts' = puts + 1 /\ gets' = gets /\ value' = value /\ Copied' = Copied
      BY <1>4, <1>10 DEF PushPublish, Copied
    <2>2. Queued' = Append(Queued, puts + 1)
      <3>1. puts' - gets' - Copied' = puts - gets - Copied + 1 /\ gets' + Copied' = gets + Copied
            /\ gets + Copied + (puts - gets - Copied) + 1 = puts + 1
        BY <1>4, <2>1
      <3>2. Queued' = Numbers(gets + Copied, puts - gets - Copied + 1)
        BY <1>3, <3>1
      <3>3. Append(Queued, gets + Copied + (puts - gets - Copied) + 1)
              = Numbers(gets + Copied, puts - gets - Copied + 1)
        BY <1>2, NumbersAppend
      <3> QED
        BY <3>1, <3>2, <3>3
    <2>3. Len(Queued) < cap - 1
      <3>1. Len(Queued) = puts - gets - Copied
        BY <1>2, NumbersSeq
      <3>2. used <= cap - 2
        BY <1>5, <1>10 DEF RingPcs, PushPublish
      <3> QED
        BY <1>4, <1>5, <3>1, <3>2
    <2> QED
      BY <1>1, <2>1, <2>2, <2>3 DEF Queue!Next, Queue!Put
  <1>11. ASSUME NEW n \in HeadsSeen, Pop(n) PROVE UNCHANGED QueueVars
    <2>1. UNCHANGED <<puts, value, gets>> /\ Copied' = Copied
      BY <1>4, <1>11 DEF Pop, Copied
    <2> QED
      BY <1>4, <1>6, <2>1
  <1>12. CASE PopSlot
    <2>1. puts' = puts /\ gets' = gets /\ Copied = 0 /\ Copied' = 1 /\ pc'[Consumer] = "free"
      BY <1>4, <1>12 DEF PopSlot, Copied
    <2>2. value' = gets + 1
      BY <1>1, <2>1 DEF IInv, RingInv, RingPcs
    <2>3. puts - gets - Copied # 0
      BY <1>4, <1>5, <1>12, <2>1 DEF PopSlot, RingPcs
    <2>4. Queued # <<>> /\ Head(Queued) = gets + Copied + 1
          /\ Tail(Queued) = Numbers(gets + Copied + 1, puts - gets - Copied - 1)
      BY <1>2, <2>3, NumbersSeq, NumbersTail
    <2>5. gets' + Copied' = gets + Copied + 1 /\ puts' - gets' - Copied' = puts - gets - Copied - 1
      BY <1>4, <2>1
    <2>6. Queued' = Tail(Queued) /\ value' = Head(Queued)
      BY <1>3, <1>4, <2>1, <2>2, <2>4, <2>5
    <2> QED
      BY <1>1, <2>1, <2>4, <2>6 DEF Queue!Next, Queue!Get
  <1>13. CASE PopFree
    <2>1. UNCHANGED <<puts, value>> /\ gets' = gets + 1 /\ Copied = 1 /\ Copied' = 0
      BY <1>4, <1>13 DEF PopFree, Copied
    <2> QED
      BY <1>4, <1>6, <2>1
  <1> QED
    BY <1>7, <1>8, <1>9, <1>10, <1>11, <1>12, <1>13 DEF RingStep

\* The channel's messages are those sent and not received.
ChannelQueued ==
  /\ kind = "channel" => /\ puts - gets \in Nat
                         /\ messages = Numbers(gets, puts - gets)
  /\ kind # "channel" => messages = <<>>
  /\ kind = "buffer" => gets = 0

LEMMA ChannelStepQueue ==
  ASSUME IInv, ChannelQueued, NEW t \in Threads, ChannelStep(t)
  PROVE  ChannelQueued' /\ (Queue!Next \/ UNCHANGED QueueVars)
  <1>1. kind = "channel" /\ kind' = "channel" /\ puts \in Nat /\ gets \in Nat
    BY DEF IInv, TypeOK, At, ChannelStep, SendTest, SendPush, SendNotify, RecvCall, Take, RecvNull,
       RecvSleep, SpuriousWakeup, Close, CloseNotify
  <1>2. puts - gets \in Nat /\ messages = Numbers(gets, puts - gets)
    BY <1>1 DEF ChannelQueued
  <1>3. Queued = messages /\ Queued' = messages'
    BY <1>1 DEF Queued
  <1>4. CASE SendPush(t)
    <2>1. messages' = Append(messages, puts + 1) /\ puts' = puts + 1 /\ gets' = gets
      BY <1>4 DEF SendPush
    <2>2. gets + (puts - gets) + 1 = puts + 1 /\ puts' - gets' = puts - gets + 1
      BY <1>1, <2>1
    <2>3. messages' = Numbers(gets, puts - gets + 1)
      BY <1>1, <1>2, <2>1, <2>2, NumbersAppend
    <2>4. ChannelQueued'
      BY <1>1, <1>2, <2>1, <2>2, <2>3 DEF ChannelQueued
    <2> QED
      BY <1>1, <1>3, <2>1, <2>4 DEF Queue!Next, Queue!Put
  <1>5. CASE Take(t)
    <2>1. messages # <<>> /\ messages' = Tail(messages) /\ puts' = puts /\ gets' = gets + 1
      BY <1>5 DEF Take
    <2>2. puts - gets # 0
      BY <1>1, <1>2, <2>1, NumbersSeq
    <2>3. Head(messages) = gets + 1 /\ messages' = Numbers(gets + 1, puts - gets - 1)
      BY <1>1, <1>2, <2>1, <2>2, NumbersTail
    <2>4. puts' - gets' = puts - gets - 1 /\ puts - gets - 1 \in Nat
      BY <1>1, <1>2, <2>1, <2>2
    <2>5. ChannelQueued'
      BY <1>1, <2>1, <2>3, <2>4 DEF ChannelQueued
    <2> QED
      BY <1>1, <1>3, <2>1, <2>3, <2>5 DEF Queue!Next, Queue!Get
  <1>6. ASSUME ~SendPush(t), ~Take(t) PROVE ChannelQueued' /\ UNCHANGED QueueVars
    <2>1. UNCHANGED <<messages, puts, gets>>
      BY <1>6 DEF ChannelStep, SendTest, SendNotify, RecvCall, RecvNull, RecvSleep,
         SpuriousWakeup, Close, CloseNotify, channel
    <2> QED
      BY <1>1, <1>2, <1>3, <2>1 DEF ChannelQueued, QueueVars
  <1> QED
    BY <1>4, <1>5, <1>6

LEMMA NextQueue ==
  ASSUME IInv, IInv', ChannelQueued, [Next]_vars
  PROVE  ChannelQueued' /\ (Queue!Next \/ UNCHANGED QueueVars)
  <1>1. CASE RingStep
    <2>1. kind = "ring" /\ kind' = "ring" /\ messages' = messages
      BY <1>1 DEF RingStep, Push, Length, PushSlot, PushPublish, Pop, PopSlot, PopFree, At, channel
    <2> QED
      BY <1>1, <2>1, RingStepQueue DEF ChannelQueued
  <1>2. CASE BufferStep
    <2>1. kind = "buffer" /\ kind' = "buffer" /\ messages' = messages /\ gets' = gets
      BY <1>2 DEF BufferStep, Write, SetElement, Swap, Read, ReadElement, At, channel
    <2> QED
      BY <2>1 DEF ChannelQueued, QueueVars, Queued
  <1>3. CASE UNCHANGED vars
    BY <1>3 DEF vars, ring, channel, ChannelQueued, QueueVars, Queued, Copied, Count, Masked
  <1> QED
    BY <1>1, <1>2, <1>3, ChannelStepQueue DEF Next

\* Ring and channel implement one queue without threads, indices or mutexes,
\* for every capacity, every set of threads and every number of values.
THEOREM RingAndChannelAreQueues == Spec => QueueInOrder
  <1>1. Init => ChannelQueued /\ Queue!Init
    <2> SUFFICES ASSUME Init PROVE ChannelQueued /\ Queue!Init
      OBVIOUS
    <2>1. IInv /\ puts = 0 /\ gets = 0 /\ value = 0 /\ messages = <<>> /\ cap \in Nat \ {0}
          /\ pc[Consumer] = "script"
      BY InitInv DEF Init
    <2>2. Numbers(0, 0) = <<>>
      BY NumbersSeq
    <2>3. Queued = <<>>
      <3>1. CASE kind = "ring"
        <4>1. Copied = 0
          BY <2>1 DEF Copied
        <4> QED
          BY <2>1, <2>2, <3>1, <4>1, RingQueued
      <3>2. CASE kind # "ring"
        BY <2>1, <3>2 DEF Queued
      <3> QED
        BY <3>1, <3>2
    <2>4. Queue!Init
      BY <2>1, <2>3 DEF Queue!Init
    <2> QED
      BY <2>1, <2>2, <2>4 DEF ChannelQueued
  <1>2. IInv /\ IInv' /\ ChannelQueued /\ [Next]_vars => ChannelQueued'
    BY NextQueue
  <1>3. IInv /\ IInv' /\ ChannelQueued /\ [Next]_vars =>
          [Queue!Next]_<<Queued, IF kind = "buffer" THEN 0 ELSE puts,
                         IF kind = "ring" THEN value ELSE gets,
                         IF kind = "ring" THEN cap - 1 ELSE -1>>
    BY NextQueue DEF QueueVars
  <1> QED
    BY <1>1, <1>2, <1>3, SpecInv, PTL DEF Spec, QueueInOrder, Queue!Spec
=============================================================================
