------------------------------- MODULE Handoff -------------------------------
(***************************************************************************)
(* The three userdata types a script hands values over with, between       *)
(* threads that share the object: the single-producer single-consumer      *)
(* LockFreeRing, the BblChannel with its mutex and condition variable, and *)
(* the AtomicDoubleBuffer.  Values are numbered in the order handed in.    *)
(*                                                                         *)
(* An acquire load of the other side's index may answer an older value     *)
(* than the last one stored, never an older one than this thread has seen. *)
(***************************************************************************)
EXTENDS Integers, Sequences, FiniteSets

CONSTANTS
  Threads,
  Producer, Consumer,  \* of the ring and of the double buffer
  Capacities,          \* arguments of lock-free-ring
  MaxPuts              \* bound: values handed in

ASSUME HandoffAssumption ==
  /\ Producer \in Threads /\ Consumer \in Threads /\ Producer # Consumer
  /\ IsFiniteSet(Threads)
  /\ Capacities \subseteq Nat \ {0}
  /\ MaxPuts \in Nat

VARIABLES
  kind,                \* the type of the object this script shares
  pc,                  \* where each thread is in the method it calls
  puts, gets,          \* values handed in, and out
  cap, head, tail, buf,
  seen, used,          \* values the consumer knows of, slots the producer deems taken
  value,               \* what pop copied from its slot
  len, refused,        \* last answer of length (-1: acted since), last call was refused
  messages, closed,
  late,                \* messages each thread queued after the close
  readIdx, vecs,
  held,                \* the vector write or read gave this thread
  snap, swapsAtRead    \* elements the consumer has copied, and puts when read was called

ring == <<cap, head, tail, buf, seen, used, value, len, refused>>
channel == <<messages, closed, late>>
buffer == <<readIdx, vecs, held, snap, swapsAtRead>>
vars == <<kind, pc, puts, gets, ring, channel, buffer>>

Ends == {Producer, Consumer}

\* Where a thread can be: in the script, or before a step of a method.
RingPcSet == {"slot", "publish", "free"}
ChannelPcSet == {"send", "notify", "recv", "asleep", "closing"}
BufferPcSet == {"set1", "set2", "swap", "copy"}
PcSet == {"script"} \cup RingPcSet \cup ChannelPcSet \cup BufferPcSet

Init ==
  /\ kind \in {"ring", "channel", "buffer"}
  /\ pc = [t \in Threads |-> "script"]
  /\ puts = 0 /\ gets = 0
  /\ cap \in Capacities /\ head = 0 /\ tail = 0 /\ buf = [i \in 0 .. cap - 1 |-> 0]
  /\ seen = 0 /\ used = 0 /\ value = 0
  /\ len = [t \in Ends |-> -1] /\ refused = [t \in Ends |-> FALSE]
  /\ messages = <<>> /\ closed = FALSE /\ late = [t \in Threads |-> 0]
  /\ readIdx = 0 /\ vecs = [v \in 0 .. 1 |-> <<0, 0>>]
  /\ held = [t \in Ends |-> 0] /\ snap = <<>> /\ swapsAtRead = 0

At(t, k, p) == kind = k /\ pc[t] = p
Goto(t, p) == pc' = [pc EXCEPT ![t] = p]
CanPut == puts < MaxPuts

-----------------------------------------------------------------------------
(* LockFreeRing. *)

\* x & mask, for the x below 2 * cap that occur; cap is a power of 2.
Masked(x) == IF x >= cap THEN x - cap ELSE x
Count == Masked(head + cap - tail)

\* The indices the other side may be seen at: some of what it has done since.
HeadsSeen == {n \in seen .. Count : TRUE}
TailsSeen == {n \in Count .. used : TRUE}

\* Mutant of Full: the last slot is given away too.
Full_Never(n) == n = cap
Full(n) == Masked(head + 1) = Masked(head + cap - n)

Push(n) ==
  /\ At(Producer, "ring", "script") /\ CanPut
  /\ used' = n
  /\ refused' = [refused EXCEPT ![Producer] = Full(n)]
  /\ Goto(Producer, IF Full(n) THEN "script" ELSE "slot")
  /\ UNCHANGED <<kind, puts, gets, cap, head, tail, buf, seen, value, len, channel, buffer>>

PushSlot ==
  /\ At(Producer, "ring", "slot")
  /\ buf' = [buf EXCEPT ![head] = puts + 1]
  /\ Goto(Producer, "publish")
  /\ UNCHANGED <<kind, puts, gets, cap, head, tail, seen, used, value, len, refused, channel, buffer>>

PushPublish ==
  /\ At(Producer, "ring", "publish")
  /\ head' = Masked(head + 1) /\ puts' = puts + 1 /\ used' = used + 1
  /\ len' = [len EXCEPT ![Producer] = -1]
  /\ Goto(Producer, "script")
  /\ UNCHANGED <<kind, gets, cap, tail, buf, seen, value, refused, channel, buffer>>

Pop(n) ==
  /\ At(Consumer, "ring", "script")
  /\ seen' = n
  /\ refused' = [refused EXCEPT ![Consumer] = n = 0]
  /\ Goto(Consumer, IF n = 0 THEN "script" ELSE "slot")
  /\ UNCHANGED <<kind, puts, gets, cap, head, tail, buf, used, value, len, channel, buffer>>

PopSlot ==
  /\ At(Consumer, "ring", "slot")
  /\ value' = buf[tail]
  /\ Goto(Consumer, "free")
  /\ UNCHANGED <<kind, puts, gets, cap, head, tail, buf, seen, used, len, refused, channel, buffer>>

PopFree ==
  /\ At(Consumer, "ring", "free")
  /\ tail' = Masked(tail + 1) /\ gets' = gets + 1 /\ seen' = seen - 1
  /\ len' = [len EXCEPT ![Consumer] = -1]
  /\ Goto(Consumer, "script")
  /\ UNCHANGED <<kind, puts, cap, head, buf, used, value, refused, channel, buffer>>

\* (h - t) & mask, one of the two read from the other side.  Mutant: t - h.
Length_Swapped(t, n) ==
  /\ At(t, "ring", "script")
  /\ len' = [len EXCEPT ![t] = Masked(cap - n)]
  /\ refused' = [refused EXCEPT ![t] = FALSE]
  /\ IF t = Producer THEN used' = n /\ UNCHANGED seen ELSE seen' = n /\ UNCHANGED used
  /\ UNCHANGED <<kind, pc, puts, gets, cap, head, tail, buf, value, channel, buffer>>
Length(t, n) ==
  /\ At(t, "ring", "script")
  /\ len' = [len EXCEPT ![t] = n]
  /\ refused' = [refused EXCEPT ![t] = FALSE]
  /\ IF t = Producer THEN used' = n /\ UNCHANGED seen ELSE seen' = n /\ UNCHANGED used
  /\ UNCHANGED <<kind, pc, puts, gets, cap, head, tail, buf, value, channel, buffer>>

RingStep ==
  \/ \E n \in TailsSeen : Push(n) \/ Length(Producer, n)
  \/ PushSlot \/ PushPublish
  \/ \E n \in HeadsSeen : Pop(n) \/ Length(Consumer, n)
  \/ PopSlot \/ PopFree

-----------------------------------------------------------------------------
(* BblChannel. *)

Asleep == {t \in Threads : pc[t] = "asleep"}

\* closed is read without the mutex: a send past this test queues its value
\* on a channel that may be closed by then.  Mutant: the test is left out.
SendTest_None(t) ==
  /\ At(t, "channel", "script") /\ CanPut
  /\ Goto(t, "send")
  /\ UNCHANGED <<kind, puts, gets, ring, channel, buffer>>
SendTest(t) ==
  /\ At(t, "channel", "script") /\ CanPut /\ ~closed
  /\ Goto(t, "send")
  /\ UNCHANGED <<kind, puts, gets, ring, channel, buffer>>

SendPush(t) ==
  /\ At(t, "channel", "send") /\ CanPut
  /\ messages' = Append(messages, puts + 1) /\ puts' = puts + 1
  /\ late' = [late EXCEPT ![t] = IF closed THEN @ + 1 ELSE @]
  /\ Goto(t, "notify")
  /\ UNCHANGED <<kind, gets, closed, ring, buffer>>

\* notify_one; no channel has a selectCv.  Mutant: only a first message
\* notifies.
SendNotify_First(t) ==
  /\ At(t, "channel", "notify")
  /\ IF Asleep = {} \/ Len(messages) # 1
     THEN Goto(t, "script")
     ELSE \E r \in Asleep : pc' = [pc EXCEPT ![t] = "script", ![r] = "recv"]
  /\ UNCHANGED <<kind, puts, gets, ring, channel, buffer>>
SendNotify(t) ==
  /\ At(t, "channel", "notify")
  /\ IF Asleep = {} THEN Goto(t, "script")
     ELSE \E r \in Asleep : pc' = [pc EXCEPT ![t] = "script", ![r] = "recv"]
  /\ UNCHANGED <<kind, puts, gets, ring, channel, buffer>>

RecvCall(t) ==
  /\ At(t, "channel", "script")
  /\ Goto(t, "recv")
  /\ UNCHANGED <<kind, puts, gets, ring, channel, buffer>>

\* try-recv takes a message too, and answers null at once without one.
Take(t) ==
  /\ At(t, "channel", "recv") \/ At(t, "channel", "script")
  /\ messages # <<>>
  /\ messages' = Tail(messages) /\ gets' = gets + 1
  /\ Goto(t, "script")
  /\ UNCHANGED <<kind, puts, closed, late, ring, buffer>>

RecvNull(t) ==
  /\ At(t, "channel", "recv") /\ messages = <<>> /\ closed
  /\ Goto(t, "script")
  /\ UNCHANGED <<kind, puts, gets, ring, channel, buffer>>

RecvSleep(t) ==
  /\ At(t, "channel", "recv") /\ messages = <<>> /\ ~closed
  /\ Goto(t, "asleep")
  /\ UNCHANGED <<kind, puts, gets, ring, channel, buffer>>

SpuriousWakeup(t) ==
  /\ At(t, "channel", "asleep")
  /\ Goto(t, "recv")
  /\ UNCHANGED <<kind, puts, gets, ring, channel, buffer>>

Close(t) ==
  /\ At(t, "channel", "script")
  /\ closed' = TRUE
  /\ Goto(t, "closing")
  /\ UNCHANGED <<kind, puts, gets, messages, late, ring, buffer>>

CloseNotify(t) ==
  /\ At(t, "channel", "closing")
  /\ pc' = [r \in Threads |-> IF r = t THEN "script"
                              ELSE IF r \in Asleep THEN "recv" ELSE pc[r]]
  /\ UNCHANGED <<kind, puts, gets, ring, channel, buffer>>

ChannelStep(t) ==
  \/ SendTest(t) \/ SendPush(t) \/ SendNotify(t)
  \/ RecvCall(t) \/ Take(t) \/ RecvNull(t) \/ RecvSleep(t) \/ SpuriousWakeup(t)
  \/ Close(t) \/ CloseNotify(t)

-----------------------------------------------------------------------------
(* AtomicDoubleBuffer, used as the documentation shows: the producer asks   *)
(* for the vector to write, sets its elements and swaps; the consumer asks  *)
(* for the vector to read and reads its elements.  A vector has two.        *)

\* Mutant of WriteVec: the vector being read.
WriteVec_Read == readIdx
WriteVec == 1 - readIdx

Write ==
  /\ At(Producer, "buffer", "script") /\ CanPut
  /\ held' = [held EXCEPT ![Producer] = WriteVec]
  /\ Goto(Producer, "set1")
  /\ UNCHANGED <<kind, puts, gets, ring, channel, readIdx, vecs, snap, swapsAtRead>>

SetElement(k) ==
  /\ At(Producer, "buffer", IF k = 1 THEN "set1" ELSE "set2")
  /\ vecs' = [vecs EXCEPT ![held[Producer]][k] = puts + 1]
  /\ Goto(Producer, IF k = 1 THEN "set2" ELSE "swap")
  /\ UNCHANGED <<kind, puts, gets, ring, channel, readIdx, held, snap, swapsAtRead>>

Swap ==
  /\ At(Producer, "buffer", "swap")
  /\ readIdx' = 1 - readIdx /\ puts' = puts + 1
  /\ Goto(Producer, "script")
  /\ UNCHANGED <<kind, gets, ring, channel, vecs, held, snap, swapsAtRead>>

Read ==
  /\ At(Consumer, "buffer", "script")
  /\ held' = [held EXCEPT ![Consumer] = readIdx]
  /\ snap' = <<>> /\ swapsAtRead' = puts
  /\ Goto(Consumer, "copy")
  /\ UNCHANGED <<kind, puts, gets, ring, channel, readIdx, vecs>>

ReadElement ==
  /\ At(Consumer, "buffer", "copy")
  /\ snap' = Append(snap, vecs[held[Consumer]][Len(snap) + 1])
  /\ Goto(Consumer, IF Len(snap) = 0 THEN "copy" ELSE "script")
  /\ UNCHANGED <<kind, puts, gets, ring, channel, readIdx, vecs, held, swapsAtRead>>

BufferStep == Write \/ (\E k \in 1 .. 2 : SetElement(k)) \/ Swap \/ Read \/ ReadElement

-----------------------------------------------------------------------------

Next == RingStep \/ (\E t \in Threads : ChannelStep(t)) \/ BufferStep

Spec == Init /\ [][Next]_vars

-----------------------------------------------------------------------------
(* Properties. *)

TypeOK ==
  /\ kind \in {"ring", "channel", "buffer"} /\ pc \in [Threads -> PcSet]
  /\ puts \in Nat /\ gets \in Nat
  /\ cap \in Nat \ {0} /\ head \in 0 .. cap - 1 /\ tail \in 0 .. cap - 1
  /\ buf \in [0 .. cap - 1 -> Nat] /\ seen \in Nat /\ used \in Nat /\ value \in Nat
  /\ len \in [Ends -> Int] /\ refused \in [Ends -> BOOLEAN]
  /\ messages \in Seq(Nat) /\ closed \in BOOLEAN /\ late \in [Threads -> Nat]

\* pop answers the values in the order pushed, each once and whole, and a
\* ring of capacity cap holds at most cap - 1: a slot is neither read before
\* it is written nor written before it is read.
RingInOrder ==
  /\ puts - gets <= cap - 1 \/ kind # "ring"
  /\ pc[Consumer] = "free" => value = gets + 1

\* What is queued: the slots from tail on, without the one that pop has copied
\* and not freed yet, or the messages of the channel.
Copied == IF pc[Consumer] = "free" THEN 1 ELSE 0
Queued ==
  IF kind = "ring" THEN [k \in 1 .. Count - Copied |-> buf[Masked(tail + Copied + k - 1)]]
                   ELSE messages

Queue == INSTANCE Fifo WITH
  items <- Queued,
  made <- IF kind = "buffer" THEN 0 ELSE puts,
  given <- IF kind = "ring" THEN value ELSE gets,
  room <- IF kind = "ring" THEN cap - 1 ELSE -1

\* The ring and the channel are queues, whatever their ends see late of each
\* other: push and send put a value last, pop and recv take the first one, a
\* slot of the ring is neither read before it is written nor written before
\* it is read, and the ring takes cap - 1 values.
QueueInOrder == Queue!Spec

\* What length answers one end is a promise: the consumer that was told of a
\* value is not answered null by its next pop, nor the producer that was told
\* of room refused by its next push.
LengthIsPromise ==
  /\ refused[Producer] => len[Producer] \in {-1, cap - 1}
  /\ refused[Consumer] => len[Consumer] \in {-1, 0}

\* A thread asleep in recv beside a message, or on a closed channel, is about
\* to be woken, or another one is about to look at the queue.
RecvWakeupComing ==
  Asleep # {} =>
    /\ messages # <<>> => \E t \in Threads : pc[t] \in {"notify", "recv"}
    /\ closed => \E t \in Threads : pc[t] = "closing"

\* send tests closed before it takes the mutex, so values can be queued after
\* the close; but no more than one for each thread that was sending.
OneLateSend == \A t \in Threads : late[t] <= 1

\* What the consumer copied is one version of the buffer, the last one
\* swapped in, unless the producer swapped since it called read.
WholeSnapshot ==
  Len(snap) = 2 /\ swapsAtRead = puts => snap = <<puts, puts>>
=============================================================================
