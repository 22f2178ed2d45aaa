---------------------------- MODULE BblTableProofs ----------------------------
(* The table is a map, counted right and never full, for every set of keys *)
(* and values, every hash and every size.                                  *)
EXTENDS BblTable, TLAPS, FiniteSetTheorems, SequenceTheorems, WellFoundedInduction

-----------------------------------------------------------------------------
(* Numbers: the least of a set, induction over a set, functions defined by *)
(* recursion.  The theorems of the library take operators; these take sets *)
(* and functions.                                                          *)

LEMMA LeastNat ==
  ASSUME NEW S \in SUBSET Nat, S # {}
  PROVE  \E x \in S : \A y \in S : x <= y
  <1> DEFINE R == OpToRel(<, Nat)
  <1>1. IsWellFoundedOn(R, Nat)
    BY NatLessThanWellFounded
  <1>2. \A x, y \in Nat : x < y => <<x, y>> \in R
    BY DEF OpToRel
  <1> HIDE DEF R
  <1>3. PICK x \in S : \A y \in S : ~ (<<y, x>> \in R)
    BY <1>1, WFMin
  <1>4. ASSUME NEW y \in S PROVE x <= y
    <2>1. ~ (y < x)
      BY <1>2, <1>3
    <2> QED
      BY <2>1
  <1> QED
    BY <1>4

LEMMA SetInduction ==
  ASSUME NEW S \in SUBSET Nat, 0 \in S, \A n \in Nat : n \in S => n + 1 \in S
  PROVE  S = Nat
  <1> SUFFICES ASSUME S # Nat PROVE FALSE
    OBVIOUS
  <1>1. PICK x \in Nat \ S : \A y \in Nat \ S : x <= y
    <2>1. Nat \ S \in SUBSET Nat /\ Nat \ S # {}
      OBVIOUS
    <2> QED
      BY <2>1, LeastNat
  <1>2. x # 0 /\ x - 1 \in Nat /\ x - 1 \in S
    BY <1>1
  <1> QED
    BY <1>1, <1>2

IsLoop(S, base, n, G, f) ==
  f \in [0 .. n -> S] /\ f[0] = base /\ \A i \in 1 .. n : f[i] = G[<<f[i-1], i>>]

LEMMA RecursionExists ==
  ASSUME NEW S, NEW base \in S, NEW n \in Nat, NEW G \in [S \X (1 .. n) -> S]
  PROVE  \E f : IsLoop(S, base, n, G, f)
  <1> DEFINE Upto(j) == \E f \in [0 .. j -> S] :
                          f[0] = base /\ \A i \in 1 .. j : f[i] = G[<<f[i-1], i>>]
             P == {j \in Nat : j <= n => Upto(j)}
  <1>1. 0 \in P
    <2> DEFINE f == [i \in 0 .. 0 |-> base]
    <2>1. f \in [0 .. 0 -> S] /\ f[0] = base /\ \A i \in 1 .. 0 : f[i] = G[<<f[i-1], i>>]
      OBVIOUS
    <2> QED
      BY <2>1
  <1>2. ASSUME NEW j \in Nat, j \in P PROVE j + 1 \in P
    <2> SUFFICES ASSUME j + 1 <= n PROVE Upto(j + 1)
      OBVIOUS
    <2>1. PICK f \in [0 .. j -> S] : f[0] = base /\ \A i \in 1 .. j : f[i] = G[<<f[i-1], i>>]
      BY <1>2
    <2> DEFINE g == [i \in 0 .. j + 1 |-> IF i = j + 1 THEN G[<<f[j], i>>] ELSE f[i]]
    <2>2. G[<<f[j], j + 1>>] \in S
      BY <2>1
    <2>3. g \in [0 .. j + 1 -> S]
      BY <2>1, <2>2
    <2>4. \A i \in 0 .. j : g[i] = f[i]
      BY <2>1
    <2>5. g[j + 1] = G[<<f[j], j + 1>>]
      OBVIOUS
    <2> HIDE DEF g
    <2>6. ASSUME NEW i \in 1 .. j + 1 PROVE g[i] = G[<<g[i-1], i>>]
      <3>1. i - 1 \in 0 .. j
        OBVIOUS
      <3>2. CASE i = j + 1
        BY <2>4, <2>5, <3>1, <3>2
      <3>3. CASE i # j + 1
        <4>1. i \in 1 .. j
          BY <3>3
        <4> QED
          BY <2>1, <2>4, <3>1, <4>1
      <3> QED
        BY <3>2, <3>3
    <2> QED
      BY <2>1, <2>3, <2>4, <2>6
  <1>3. n \in P
    <2>1. P \in SUBSET Nat
      OBVIOUS
    <2> HIDE DEF P
    <2> QED
      BY <1>1, <1>2, <2>1, SetInduction
  <1> QED
    BY <1>3 DEF IsLoop

LEMMA SmallestIs ==
  ASSUME NEW S \in SUBSET Nat, S # {}
  PROVE  Smallest(S) \in S /\ \A y \in S : Smallest(S) <= y
  <1>1. \E x \in S : \A y \in S : x <= y
    BY LeastNat
  <1> QED
    BY <1>1 DEF Smallest

LEMMA LargestIs ==
  ASSUME NEW n \in Nat, NEW S \in SUBSET (1 .. n), S # {}
  PROVE  Largest(S) \in S /\ \A y \in S : y <= Largest(S)
  <1> DEFINE T == {n - x : x \in S}
  <1>0. \A x \in S : x \in 1 .. n /\ n - x \in Nat
    OBVIOUS
  <1>1. T \in SUBSET Nat /\ T # {}
    BY <1>0
  <1>2. PICK z \in T : \A y \in T : z <= y
    BY <1>1, LeastNat
  <1>3. PICK x \in S : z = n - x
    BY <1>2
  <1>4. ASSUME NEW y \in S PROVE y <= x
    <2>1. n - y \in T /\ z <= n - y
      BY <1>2
    <2> QED
      BY <1>3, <2>1
  <1>5. \E w \in S : \A y \in S : y <= w
    BY <1>4
  <1> QED
    BY <1>5 DEF Largest

-----------------------------------------------------------------------------
(* Slots: the probes for a key visit every slot once. *)

LEMMA Quotient ==
  ASSUME NEW h \in Nat, NEW n \in Nat \ {0}
  PROVE  \E q \in Nat : h = (q * n) + (h % n)
  <1>1. h = ((h \div n) * n) + (h % n)
    OBVIOUS
  <1>2. h \div n \in Nat
    OBVIOUS
  <1> QED
    BY <1>1, <1>2

LEMMA Remainder ==
  ASSUME NEW q \in Nat, NEW n \in Nat \ {0}, NEW r \in 0 .. n - 1
  PROVE  ((q * n) + r) % n = r
  OBVIOUS

LEMMA RemainderAdd ==
  ASSUME NEW h \in Nat, NEW n \in Nat \ {0}, NEW i \in 0 .. n - 1
  PROVE  /\ h % n \in 0 .. n - 1
         /\ (h + i) % n = IF (h % n) + i < n THEN (h % n) + i ELSE (h % n) + i - n
  <1> DEFINE r == h % n
  <1>0. r \in 0 .. n - 1
    OBVIOUS
  <1>1. PICK q \in Nat : h = (q * n) + r
    BY Quotient
  <1> HIDE DEF r
  <1>2. CASE r + i < n
    <2>1. h + i = (q * n) + (r + i)
      BY <1>0, <1>1
    <2>2. r + i \in 0 .. n - 1
      BY <1>0, <1>2
    <2>3. ((q * n) + (r + i)) % n = r + i
      BY <2>2, Remainder
    <2> QED
      BY <1>0, <1>2, <2>1, <2>3 DEF r
  <1>3. CASE ~(r + i < n)
    <2>1. (q + 1) * n = (q * n) + n
      OBVIOUS
    <2>2. h + i = ((q + 1) * n) + (r + i - n)
      BY <1>0, <1>1, <2>1
    <2>3. r + i - n \in 0 .. n - 1 /\ q + 1 \in Nat
      BY <1>0, <1>3
    <2>4. (((q + 1) * n) + (r + i - n)) % n = r + i - n
      BY <2>3, Remainder
    <2> QED
      BY <1>0, <1>3, <2>2, <2>4 DEF r
  <1> QED
    BY <1>2, <1>3 DEF r

USE KeysAssumption

LEMMA SlotFacts ==
  ASSUME NEW cap \in Nat \ {0}, NEW k \in Keys
  PROVE  /\ \A i \in 0 .. cap - 1 : Slot(cap, k, i) \in 0 .. cap - 1
         /\ \A i, j \in 0 .. cap - 1 : Slot(cap, k, i) = Slot(cap, k, j) => i = j
         /\ \A s \in 0 .. cap - 1 : \E i \in 0 .. cap - 1 : Slot(cap, k, i) = s
         /\ Slot(cap, k, 0) = Home[k] % cap
  <1> DEFINE r == Home[k] % cap
  <1>1. Home[k] \in Nat
    OBVIOUS
  <1>2. r \in 0 .. cap - 1
    BY <1>1
  <1>3. ASSUME NEW i \in 0 .. cap - 1
        PROVE  /\ r + i < cap => Slot(cap, k, i) = r + i
               /\ r + i >= cap => Slot(cap, k, i) = r + i - cap
    <2>1. (Home[k] + i) % cap = IF r + i < cap THEN r + i ELSE r + i - cap
      BY <1>1, RemainderAdd
    <2> QED
      BY <1>2, <2>1 DEF Slot
  <1> HIDE DEF r
  <1>4. ASSUME NEW s \in 0 .. cap - 1 PROVE \E i \in 0 .. cap - 1 : Slot(cap, k, i) = s
    <2>1. CASE s >= r
      <3>1. PICK i \in 0 .. cap - 1 : i = s - r
        BY <1>2, <2>1
      <3>2. r + i = s /\ r + i < cap
        BY <1>2, <3>1
      <3> QED
        BY <1>3, <3>2
    <2>2. CASE s < r
      <3>1. PICK i \in 0 .. cap - 1 : i = s + cap - r
        BY <1>2, <2>2
      <3>2. r + i - cap = s /\ r + i >= cap
        BY <1>2, <3>1
      <3> QED
        BY <1>3, <3>2
    <2> QED
      BY <1>2, <2>1, <2>2
  <1>5. Slot(cap, k, 0) = r
    BY <1>2, <1>3
  <1>6. ASSUME NEW i \in 0 .. cap - 1 PROVE Slot(cap, k, i) \in 0 .. cap - 1
    <2>1. CASE r + i < cap
      BY <1>2, <1>3, <2>1
    <2>2. CASE r + i >= cap
      BY <1>2, <1>3, <2>2
    <2> QED
      BY <1>2, <2>1, <2>2
  <1>7. ASSUME NEW i \in 0 .. cap - 1, NEW j \in 0 .. cap - 1, Slot(cap, k, i) = Slot(cap, k, j)
        PROVE  i = j
    <2>1. PICK x \in Int : Slot(cap, k, i) = x /\ (x = r + i \/ x = r + i - cap)
      BY <1>2, <1>3
    <2>2. PICK y \in Int : Slot(cap, k, j) = y /\ (y = r + j \/ y = r + j - cap)
      BY <1>2, <1>3
    <2>3. x = y
      BY <1>7, <2>1, <2>2
    <2>4. i - j \in -(cap - 1) .. cap - 1
      OBVIOUS
    <2> QED
      BY <1>2, <2>1, <2>2, <2>3, <2>4
  <1> QED
    BY <1>4, <1>5, <1>6, <1>7 DEF r

-----------------------------------------------------------------------------
(* tableFindEntry. *)

KeyAt(b, cap, k, i) == b[Slot(cap, k, i)].key

\* No probe before i ends the search.
OnTheWay(b, cap, k, i) == \A j \in 0 .. i - 1 : KeyAt(b, cap, k, j) \notin {Empty, k}

\* The three outcomes: the key, a place for it, or neither.
FindsKey(b, cap, k) ==
  \E i \in 0 .. cap - 1 :
    /\ FindEntry(b, cap, k) = Slot(cap, k, i)
    /\ KeyAt(b, cap, k, i) = k /\ OnTheWay(b, cap, k, i)

FindsPlace(b, cap, k) ==
  \E i \in 0 .. cap - 1 :
    /\ FindEntry(b, cap, k) = Slot(cap, k, i)
    /\ KeyAt(b, cap, k, i) \in {Empty, Tombstone} /\ OnTheWay(b, cap, k, i)
    /\ \A j \in 0 .. cap - 1 :
         KeyAt(b, cap, k, j) = k => \E e \in 0 .. j - 1 : KeyAt(b, cap, k, e) = Empty

FindsNothing(b, cap, k) ==
  /\ FindEntry(b, cap, k) = NoSlot
  /\ \A i \in 0 .. cap - 1 : KeyAt(b, cap, k, i) \notin {Empty, Tombstone, k}

LEMMA FindOutcomes ==
  ASSUME NEW cap \in Nat \ {0}, NEW b \in [0 .. cap - 1 -> Entry], NEW k \in Keys
  PROVE  FindsKey(b, cap, k) \/ FindsPlace(b, cap, k) \/ FindsNothing(b, cap, k)
  <1> DEFINE key(i) == KeyAt(b, cap, k, i)
             stops == {i \in 0 .. cap - 1 : key(i) = Empty \/ key(i) = k}
             end == IF stops = {} THEN cap ELSE Smallest(stops)
             tombs == {i \in 0 .. end - 1 : key(i) = Tombstone}
  <1>1. FindEntry(b, cap, k) =
          IF tombs # {} /\ (stops = {} \/ key(end) = Empty) THEN Slot(cap, k, Smallest(tombs))
          ELSE IF stops # {} THEN Slot(cap, k, end)
          ELSE NoSlot
    BY DEF FindEntry, KeyAt, KeyEqual
  <1>2. stops \in SUBSET Nat
    OBVIOUS
  <1>3. /\ end \in 0 .. cap
        /\ stops # {} => end \in stops
        /\ \A j \in 0 .. end - 1 : key(j) # Empty /\ key(j) # k
    <2>1. CASE stops = {}
      BY <2>1
    <2>2. CASE stops # {}
      <3>1. end \in stops /\ \A y \in stops : end <= y
        BY <1>2, <2>2, SmallestIs
      <3>2. end \in 0 .. cap - 1
        BY <3>1
      <3> HIDE DEF end
      <3>3. \A j \in 0 .. end - 1 : j \in 0 .. cap - 1 /\ j \notin stops
        BY <3>1, <3>2
      <3> QED
        BY <3>1, <3>2, <3>3
    <2> QED
      BY <2>1, <2>2
  <1>4. tombs # {} => Smallest(tombs) \in tombs
    <2>1. tombs \in SUBSET Nat
      BY <1>3
    <2> QED
      BY <2>1, SmallestIs
  <1>5. Empty # k /\ Tombstone # k /\ Empty # Tombstone
    OBVIOUS
  <1>6. stops = {} => \A i \in 0 .. cap - 1 : key(i) # Empty /\ key(i) # k
    OBVIOUS
  <1>7. stops # {} => end \in 0 .. cap - 1 /\ (key(end) = Empty \/ key(end) = k)
    BY <1>3
  <1> HIDE DEF stops, end
  <1>8. CASE tombs # {} /\ (stops = {} \/ key(end) = Empty)
    <2> DEFINE t == Smallest(tombs)
    <2>1. t \in 0 .. end - 1 /\ key(t) = Tombstone
      BY <1>4, <1>8
    <2>2. t \in 0 .. cap - 1
      BY <1>3, <2>1
    <2>3. OnTheWay(b, cap, k, t)
      BY <1>3, <2>1 DEF OnTheWay
    <2>4. ASSUME NEW j \in 0 .. cap - 1, key(j) = k PROVE \E e \in 0 .. j - 1 : key(e) = Empty
      <3>1. stops # {} /\ key(end) = Empty
        BY <1>6, <1>8, <2>4
      <3>2. j # end /\ ~(j < end)
        BY <1>3, <1>5, <2>4, <3>1
      <3>3. end \in 0 .. j - 1
        BY <1>3, <3>2
      <3> QED
        BY <3>1, <3>3
    <2>5. FindEntry(b, cap, k) = Slot(cap, k, t)
      BY <1>1, <1>8
    <2> QED
      BY <2>1, <2>2, <2>3, <2>4, <2>5 DEF FindsPlace
  <1>9. CASE ~(tombs # {} /\ (stops = {} \/ key(end) = Empty)) /\ stops # {}
    <2>1. FindEntry(b, cap, k) = Slot(cap, k, end) /\ OnTheWay(b, cap, k, end)
      BY <1>1, <1>3, <1>9 DEF OnTheWay
    <2>2. CASE key(end) = k
      BY <1>7, <1>9, <2>1, <2>2 DEF FindsKey
    <2>3. CASE key(end) = Empty
      <3>1. ASSUME NEW j \in 0 .. cap - 1, key(j) = k PROVE \E e \in 0 .. j - 1 : key(e) = Empty
        <4>1. j # end /\ ~(j < end)
          BY <1>3, <1>5, <2>3, <3>1
        <4>2. end \in 0 .. j - 1
          BY <1>3, <4>1
        <4> QED
          BY <2>3, <4>2
      <3> QED
        BY <1>7, <1>9, <2>1, <2>3, <3>1 DEF FindsPlace
    <2> QED
      BY <1>7, <1>9, <2>2, <2>3
  <1>10. CASE tombs = {} /\ stops = {}
    <2>1. FindEntry(b, cap, k) = NoSlot
      BY <1>1, <1>10
    <2>2. end = cap
      BY <1>10 DEF end
    <2>3. \A i \in 0 .. cap - 1 : key(i) # Tombstone
      BY <1>10, <2>2
    <2> QED
      BY <1>6, <1>10, <2>1, <2>3 DEF FindsNothing
  <1> QED
    BY <1>8, <1>9, <1>10

-----------------------------------------------------------------------------
(* The hash part: no key is in it twice, and every key in it is found from *)
(* its home without passing an empty slot.                                 *)

Occ(b, cap) == {s \in 0 .. cap - 1 : b[s].key \in Keys}

In(b, cap, k) == \E s \in Occ(b, cap) : b[s].key = k

HashOK(b, cap) ==
  /\ cap \in Nat \ {0} /\ b \in [0 .. cap - 1 -> Entry]
  /\ \A s \in Occ(b, cap) : b[s].val \in Vals
  /\ \A s, t \in Occ(b, cap) : b[s].key = b[t].key => s = t
  /\ \A k \in Keys, i \in 0 .. cap - 1 :
       KeyAt(b, cap, k, i) = k => \A j \in 0 .. i - 1 : KeyAt(b, cap, k, j) # Empty

LEMMA FindHeld ==
  ASSUME NEW b, NEW cap, HashOK(b, cap), NEW s \in Occ(b, cap)
  PROVE  FindEntry(b, cap, b[s].key) = s
  <1> DEFINE k == b[s].key
  <1>1. cap \in Nat \ {0} /\ b \in [0 .. cap - 1 -> Entry] /\ k \in Keys /\ s \in 0 .. cap - 1
    BY DEF HashOK, Occ
  <1>2. PICK i \in 0 .. cap - 1 : Slot(cap, k, i) = s
    BY <1>1, SlotFacts
  <1>3. KeyAt(b, cap, k, i) = k
    BY <1>2 DEF KeyAt
  <1>4. \A j \in 0 .. i - 1 : KeyAt(b, cap, k, j) # Empty
    BY <1>1, <1>3 DEF HashOK
  <1> HIDE DEF k
  <1>5. CASE FindsKey(b, cap, k)
    <2>1. PICK j \in 0 .. cap - 1 : FindEntry(b, cap, k) = Slot(cap, k, j) /\ KeyAt(b, cap, k, j) = k
      BY <1>5 DEF FindsKey
    <2>2. Slot(cap, k, j) \in Occ(b, cap) /\ b[Slot(cap, k, j)].key = b[s].key
      BY <1>1, <2>1, SlotFacts DEF KeyAt, Occ, k
    <2> QED
      BY <2>1, <2>2 DEF HashOK, k
  <1>6. CASE FindsPlace(b, cap, k)
    BY <1>3, <1>4, <1>6 DEF FindsPlace
  <1>7. CASE FindsNothing(b, cap, k)
    BY <1>3, <1>7 DEF FindsNothing
  <1> QED
    BY <1>1, <1>5, <1>6, <1>7, FindOutcomes DEF k

\* The place for a key that is not in the table.
LEMMA FindFree ==
  ASSUME NEW b, NEW cap, HashOK(b, cap), NEW k \in Keys, ~In(b, cap, k)
  PROVE  /\ \/ FindEntry(b, cap, k) = NoSlot
            \/ \E i \in 0 .. cap - 1 : /\ FindEntry(b, cap, k) = Slot(cap, k, i)
                                       /\ Slot(cap, k, i) \in (0 .. cap - 1) \ Occ(b, cap)
                                       /\ OnTheWay(b, cap, k, i)
         /\ (0 .. cap - 1) \ Occ(b, cap) # {} => FindEntry(b, cap, k) # NoSlot
  <1>1. cap \in Nat \ {0} /\ b \in [0 .. cap - 1 -> Entry]
    BY DEF HashOK
  <1>2. \A i \in 0 .. cap - 1 : Slot(cap, k, i) \in 0 .. cap - 1 /\ Slot(cap, k, i) # NoSlot
    <2>1. NoSlot \notin 0 .. cap - 1
      BY <1>1 DEF NoSlot
    <2>2. \A i \in 0 .. cap - 1 : Slot(cap, k, i) \in 0 .. cap - 1
      BY <1>1, SlotFacts
    <2> QED
      BY <2>1, <2>2
  <1>3. ~FindsKey(b, cap, k)
    BY <1>1, <1>2 DEF FindsKey, KeyAt, In, Occ
  <1>4. CASE FindsPlace(b, cap, k)
    <2>1. PICK i \in 0 .. cap - 1 : /\ FindEntry(b, cap, k) = Slot(cap, k, i)
                                    /\ KeyAt(b, cap, k, i) \in {Empty, Tombstone}
                                    /\ OnTheWay(b, cap, k, i)
      BY <1>4 DEF FindsPlace
    <2>2. Slot(cap, k, i) \notin Occ(b, cap)
      BY <2>1 DEF KeyAt, Occ
    <2> QED
      BY <1>2, <2>1, <2>2
  <1>5. CASE FindsNothing(b, cap, k)
    <2>1. ASSUME NEW s \in 0 .. cap - 1 PROVE s \in Occ(b, cap)
      <3>1. PICK i \in 0 .. cap - 1 : Slot(cap, k, i) = s
        BY <1>1, SlotFacts
      <3>2. b[s].key \notin {Empty, Tombstone} /\ b[s] \in Entry
        BY <1>1, <1>5, <3>1 DEF FindsNothing, KeyAt
      <3> QED
        BY <3>2 DEF Occ, Entry
    <2> QED
      BY <1>5, <2>1 DEF FindsNothing
  <1> QED
    BY <1>1, <1>3, <1>4, <1>5, FindOutcomes

\* The slots c are the slots b but for e in slot f.
IsStored(c, b, cap, f, e) ==
  /\ c \in [0 .. cap - 1 -> Entry]
  /\ c[f] = e /\ \A s \in 0 .. cap - 1 : s # f => c[s] = b[s]

LEMMA ExceptIsStored ==
  ASSUME NEW cap \in Nat, NEW b \in [0 .. cap - 1 -> Entry], NEW f \in 0 .. cap - 1, NEW e \in Entry
  PROVE  IsStored([b EXCEPT ![f] = e], b, cap, f, e)
  BY DEF IsStored

LEMMA StoreFree ==
  ASSUME NEW b, NEW cap, HashOK(b, cap), NEW k \in Keys, ~In(b, cap, k), NEW v \in Vals,
         NEW i \in 0 .. cap - 1, Slot(cap, k, i) \notin Occ(b, cap), OnTheWay(b, cap, k, i),
         NEW c, IsStored(c, b, cap, Slot(cap, k, i), [key |-> k, val |-> v])
  PROVE  HashOK(c, cap) /\ Occ(c, cap) = Occ(b, cap) \cup {Slot(cap, k, i)}
  <1> DEFINE f == Slot(cap, k, i)
  <1>1. cap \in Nat \ {0} /\ b \in [0 .. cap - 1 -> Entry] /\ f \in 0 .. cap - 1
    BY SlotFacts DEF HashOK
  <1>2. c \in [0 .. cap - 1 -> Entry]
    BY DEF IsStored
  <1>3. c[f] = [key |-> k, val |-> v] /\ \A s \in 0 .. cap - 1 : s # f => c[s] = b[s]
    BY DEF IsStored
  <1>4. Occ(c, cap) = Occ(b, cap) \cup {f}
    BY <1>1, <1>3 DEF Occ
  <1> HIDE DEF f
  <1>5. \A s \in Occ(c, cap) : c[s].val \in Vals
    BY <1>1, <1>3, <1>4 DEF HashOK, Occ
  <1>a. \A s \in Occ(b, cap) : s \in 0 .. cap - 1 /\ s # f /\ c[s] = b[s] /\ b[s].key # k
    BY <1>3 DEF Occ, In, f
  <1>b. c[f].key = k
    BY <1>3
  <1>6. \A s, t \in Occ(c, cap) : c[s].key = c[t].key => s = t
    BY <1>4, <1>a, <1>b DEF HashOK
  <1>7. ASSUME NEW j \in Keys, NEW x \in 0 .. cap - 1, KeyAt(c, cap, j, x) = j, NEW y \in 0 .. x - 1
        PROVE  KeyAt(c, cap, j, y) # Empty
    <2>0. y \in 0 .. cap - 1
      BY <1>1
    <2>1. Slot(cap, j, x) \in 0 .. cap - 1 /\ Slot(cap, j, y) \in 0 .. cap - 1
      BY <1>1, <2>0, SlotFacts
    <2>2. Slot(cap, j, y) = f => KeyAt(c, cap, j, y) # Empty
      BY <1>3 DEF KeyAt
    <2>3. Slot(cap, j, y) # f => KeyAt(c, cap, j, y) = KeyAt(b, cap, j, y)
      BY <1>3, <2>1 DEF KeyAt
    <2>4. CASE j = k
      <3>1. Slot(cap, j, x) = f
        <4>1. ASSUME Slot(cap, j, x) # f PROVE FALSE
          <5>1. b[Slot(cap, j, x)].key = k /\ Slot(cap, j, x) \in Occ(b, cap)
            BY <1>3, <1>7, <2>1, <2>4, <4>1 DEF KeyAt, Occ
          <5> QED
            BY <5>1 DEF In
        <4> QED
          BY <4>1
      <3>2. x = i
        BY <1>1, <2>4, <3>1, SlotFacts DEF f
      <3>3. KeyAt(b, cap, j, y) # Empty
        BY <2>4, <3>2 DEF OnTheWay
      <3> QED
        BY <2>2, <2>3, <3>3
    <2>5. CASE j # k
      <3>1. Slot(cap, j, x) # f
        BY <1>3, <1>7, <2>5 DEF KeyAt
      <3>2. KeyAt(b, cap, j, x) = j
        BY <1>3, <1>7, <2>1, <3>1 DEF KeyAt
      <3>3. KeyAt(b, cap, j, y) # Empty
        BY <3>2 DEF HashOK
      <3> QED
        BY <2>2, <2>3, <3>3
    <2> QED
      BY <2>4, <2>5
  <1> QED
    BY <1>1, <1>2, <1>4, <1>5, <1>6, <1>7 DEF HashOK, f

\* A store over a key that is there, and a deletion, leave no slot empty that
\* was not.
LEMMA StoreHeld ==
  ASSUME NEW b, NEW cap, HashOK(b, cap), NEW s \in Occ(b, cap), NEW v \in Vals,
         NEW c, IsStored(c, b, cap, s, [key |-> b[s].key, val |-> v])
  PROVE  HashOK(c, cap) /\ Occ(c, cap) = Occ(b, cap)
  <1>1. cap \in Nat \ {0} /\ b \in [0 .. cap - 1 -> Entry] /\ s \in 0 .. cap - 1 /\ b[s].key \in Keys
    BY DEF HashOK, Occ
  <1>2. c \in [0 .. cap - 1 -> Entry]
    BY DEF IsStored
  <1>3. /\ c[s] = [key |-> b[s].key, val |-> v]
        /\ \A t \in 0 .. cap - 1 : c[t].key = b[t].key /\ (t # s => c[t] = b[t])
    BY DEF IsStored
  <1>4. Occ(c, cap) = Occ(b, cap)
    BY <1>3 DEF Occ
  <1>5. \A t \in Occ(c, cap) : c[t].val \in Vals
    BY <1>3, <1>4 DEF HashOK, Occ
  <1>6. \A t, u \in Occ(c, cap) : c[t].key = c[u].key => t = u
    BY <1>3, <1>4 DEF HashOK, Occ
  <1>7. \A j \in Keys, x \in 0 .. cap - 1 : KeyAt(c, cap, j, x) = KeyAt(b, cap, j, x)
    BY <1>1, <1>3, SlotFacts DEF KeyAt
  <1>8. ASSUME NEW j \in Keys, NEW x \in 0 .. cap - 1, KeyAt(c, cap, j, x) = j, NEW y \in 0 .. x - 1
        PROVE  KeyAt(c, cap, j, y) # Empty
    <2>1. y \in 0 .. cap - 1
      BY <1>1
    <2>2. KeyAt(b, cap, j, x) = j
      BY <1>7, <1>8
    <2>3. KeyAt(b, cap, j, y) # Empty
      BY <2>2 DEF HashOK
    <2> QED
      BY <1>7, <2>1, <2>3
  <1> QED
    BY <1>1, <1>2, <1>4, <1>5, <1>6, <1>8 DEF HashOK

LEMMA RemoveHeld ==
  ASSUME NEW b, NEW cap, HashOK(b, cap), NEW s \in Occ(b, cap),
         NEW c, IsStored(c, b, cap, s, Deleted)
  PROVE  HashOK(c, cap) /\ Occ(c, cap) = Occ(b, cap) \ {s}
  <1>1. cap \in Nat \ {0} /\ b \in [0 .. cap - 1 -> Entry] /\ s \in 0 .. cap - 1
    BY DEF HashOK, Occ
  <1>2. c \in [0 .. cap - 1 -> Entry]
    BY DEF IsStored
  <1>3. c[s].key = Tombstone /\ \A t \in 0 .. cap - 1 : t # s => c[t] = b[t]
    BY DEF IsStored, Deleted
  <1>4. Occ(c, cap) = Occ(b, cap) \ {s}
    BY <1>1, <1>3 DEF Occ
  <1>5. \A t \in Occ(c, cap) : c[t].val \in Vals
    BY <1>3, <1>4 DEF HashOK, Occ
  <1>6. \A t, u \in Occ(c, cap) : c[t].key = c[u].key => t = u
    BY <1>3, <1>4 DEF HashOK, Occ
  <1>7. ASSUME NEW j \in Keys, NEW x \in 0 .. cap - 1
        PROVE  /\ KeyAt(c, cap, j, x) = j => KeyAt(b, cap, j, x) = j
               /\ KeyAt(b, cap, j, x) # Empty => KeyAt(c, cap, j, x) # Empty
    <2>1. Slot(cap, j, x) \in 0 .. cap - 1
      BY <1>1, SlotFacts
    <2> QED
      BY <1>3, <2>1 DEF KeyAt
  <1>8. ASSUME NEW j \in Keys, NEW x \in 0 .. cap - 1, KeyAt(c, cap, j, x) = j, NEW y \in 0 .. x - 1
        PROVE  KeyAt(c, cap, j, y) # Empty
    <2>1. y \in 0 .. cap - 1
      BY <1>1
    <2>2. KeyAt(b, cap, j, x) = j
      BY <1>7, <1>8
    <2>3. KeyAt(b, cap, j, y) # Empty
      BY <2>2 DEF HashOK
    <2> QED
      BY <1>7, <2>1, <2>3
  <1> QED
    BY <1>1, <1>2, <1>4, <1>5, <1>6, <1>8 DEF HashOK

-----------------------------------------------------------------------------
(* tableGrow: the new table holds what the old one held. *)

LEMMA OccFacts ==
  ASSUME NEW cap \in Nat, NEW b
  PROVE  /\ IsFiniteSet(Occ(b, cap)) /\ Cardinality(Occ(b, cap)) \in Nat
         /\ Cardinality(Occ(b, cap)) <= cap
         /\ Cardinality(Occ(b, cap)) < cap => (0 .. cap - 1) \ Occ(b, cap) # {}
  <1>1. IsFiniteSet(0 .. cap - 1) /\ Cardinality(0 .. cap - 1) = cap
    BY FS_Interval
  <1>2. Occ(b, cap) \in SUBSET (0 .. cap - 1)
    BY DEF Occ
  <1>3. IsFiniteSet(Occ(b, cap)) /\ Cardinality(Occ(b, cap)) <= cap
    BY <1>1, <1>2, FS_Subset
  <1>4. ASSUME (0 .. cap - 1) \ Occ(b, cap) = {} PROVE Cardinality(Occ(b, cap)) = cap
    <2>1. Occ(b, cap) = 0 .. cap - 1
      BY <1>2, <1>4
    <2> QED
      BY <1>1, <2>1
  <1>5. Cardinality(Occ(b, cap)) \in Nat
    BY <1>3, FS_CardinalityType
  <1> QED
    BY <1>3, <1>4, <1>5

LEMMA EmptyHash ==
  ASSUME NEW cap \in Nat \ {0}
  PROVE  /\ HashOK([s \in 0 .. cap - 1 |-> Unused], cap)
         /\ Occ([s \in 0 .. cap - 1 |-> Unused], cap) = {}
  <1> DEFINE b == [s \in 0 .. cap - 1 |-> Unused]
  <1>1. b \in [0 .. cap - 1 -> Entry] /\ \A s \in 0 .. cap - 1 : b[s].key = Empty
    BY DEF Unused, Entry
  <1>2. Occ(b, cap) = {}
    BY <1>1 DEF Occ
  <1>3. \A k \in Keys, i \in 0 .. cap - 1 : KeyAt(b, cap, k, i) # k
    BY <1>1, SlotFacts DEF KeyAt
  <1> QED
    BY <1>1, <1>2, <1>3 DEF HashOK

Entries(b, cap) == {b[s] : s \in Occ(b, cap)}

\* One entry moved is one entry more.
LEMMA MovedOne ==
  ASSUME NEW b, NEW cap, HashOK(b, cap), Cardinality(Occ(b, cap)) < cap,
         NEW e \in Entry, e.key \in Keys, e.val \in Vals, ~In(b, cap, e.key)
  PROVE  /\ HashOK(Moved(b, cap, e), cap)
         /\ Cardinality(Occ(Moved(b, cap, e), cap)) = Cardinality(Occ(b, cap)) + 1
         /\ Entries(Moved(b, cap, e), cap) = Entries(b, cap) \cup {e}
  <1>1. cap \in Nat \ {0} /\ b \in [0 .. cap - 1 -> Entry]
    BY DEF HashOK
  <1>2. (0 .. cap - 1) \ Occ(b, cap) # {}
    BY <1>1, OccFacts
  <1>3. PICK i \in 0 .. cap - 1 : /\ FindEntry(b, cap, e.key) = Slot(cap, e.key, i)
                                  /\ Slot(cap, e.key, i) \in (0 .. cap - 1) \ Occ(b, cap)
                                  /\ OnTheWay(b, cap, e.key, i)
    BY <1>2, FindFree
  <1> DEFINE f == Slot(cap, e.key, i)
             c == Moved(b, cap, e)
  <1>4. e = [key |-> e.key, val |-> e.val]
    BY DEF Entry
  <1>5. IsStored(c, b, cap, f, e)
    BY <1>1, <1>3, ExceptIsStored DEF Moved
  <1> HIDE DEF c
  <1>6. HashOK(c, cap) /\ Occ(c, cap) = Occ(b, cap) \cup {f}
    <2>1. PICK k \in Keys, v \in Vals : e = [key |-> k, val |-> v] /\ k = e.key /\ v = e.val
      BY <1>4
    <2>2. IsStored(c, b, cap, Slot(cap, k, i), [key |-> k, val |-> v])
      BY <1>5, <2>1
    <2>3. ~In(b, cap, k) /\ Slot(cap, k, i) \notin Occ(b, cap) /\ OnTheWay(b, cap, k, i)
      BY <1>3, <2>1
    <2>4. HashOK(c, cap) /\ Occ(c, cap) = Occ(b, cap) \cup {Slot(cap, k, i)}
      BY <2>2, <2>3, StoreFree
    <2> QED
      BY <2>1, <2>4
  <1>7. f \notin Occ(b, cap) /\ f \in 0 .. cap - 1
    BY <1>3
  <1>8. c[f] = e /\ \A s \in Occ(b, cap) : c[s] = b[s]
    BY <1>5, <1>7 DEF IsStored, Occ
  <1> HIDE DEF f
  <1>9. Cardinality(Occ(c, cap)) = Cardinality(Occ(b, cap)) + 1
    BY <1>1, <1>6, <1>7, OccFacts, FS_AddElement
  <1>10. Entries(c, cap) = Entries(b, cap) \cup {e}
    BY <1>6, <1>8 DEF Entries
  <1> QED
    BY <1>6, <1>9, <1>10 DEF c

\* The recursion tableGrow's loop stands for has its function.
LEMMA GrownLoop ==
  ASSUME NEW cap \in Nat \ {0}, capacity \in Nat, buckets \in [0 .. capacity - 1 -> Entry]
  PROVE  \E g : /\ g[0] = [s \in 0 .. cap - 1 |-> Unused]
                /\ \A i \in 1 .. capacity : g[i] = Moved(g[i-1], cap, buckets[i-1])
                /\ Grown(cap) = g[capacity]
  <1> DEFINE T == [0 .. cap - 1 -> Entry]
             base == [s \in 0 .. cap - 1 |-> Unused]
             G == [x \in T \X (1 .. capacity) |-> Moved(x[1], cap, buckets[x[2]-1])]
             F(g) == [i \in 0 .. capacity |-> IF i = 0 THEN base ELSE Moved(g[i-1], cap, buckets[i-1])]
  <1>1. base \in T
    BY DEF Unused, Entry
  <1>2. \A b \in T, e \in Entry : Moved(b, cap, e) \in T
    BY DEF Moved
  <1>3. \A i \in 1 .. capacity : buckets[i-1] \in Entry
    OBVIOUS
  <1>4. G \in [T \X (1 .. capacity) -> T]
    BY <1>2, <1>3
  <1>5. PICK f \in [0 .. capacity -> T] : f[0] = base /\ \A i \in 1 .. capacity : f[i] = G[<<f[i-1], i>>]
    <2> HIDE DEF T, base, G
    <2>1. \E f : IsLoop(T, base, capacity, G, f)
      BY <1>1, <1>4, RecursionExists
    <2> QED
      BY <2>1 DEF IsLoop
  <1>6. \A i \in 1 .. capacity : f[i-1] \in T /\ f[i] = Moved(f[i-1], cap, buckets[i-1])
    <2> HIDE DEF T
    <2>1. \A i \in 1 .. capacity : i - 1 \in 0 .. capacity
      OBVIOUS
    <2> QED
      BY <1>5, <2>1
  <1>7. f = F(f)
    BY <1>5, <1>6
  <1>8. Grown(cap) = (CHOOSE g : g = F(g))[capacity]
    BY DEF Grown
  <1> DEFINE h == CHOOSE g : g = F(g)
  <1>9. h = F(h)
    <2> HIDE DEF F
    <2> QED
      BY <1>7
  <1>10. h[0] = base /\ \A i \in 1 .. capacity : h[i] = Moved(h[i-1], cap, buckets[i-1])
    <2> HIDE DEF h, base
    <2> QED
      BY <1>9
  <1> QED
    BY <1>8, <1>10

LEMMA GrownOK ==
  ASSUME HashOK(buckets, capacity), NEW cap \in Nat, cap > capacity
  PROVE  /\ HashOK(Grown(cap), cap)
         /\ Cardinality(Occ(Grown(cap), cap)) = Cardinality(Occ(buckets, capacity))
         /\ Entries(Grown(cap), cap) = Entries(buckets, capacity)
  <1>1. capacity \in Nat \ {0} /\ buckets \in [0 .. capacity - 1 -> Entry] /\ cap \in Nat \ {0}
    BY DEF HashOK
  <1>2. PICK g : /\ g[0] = [s \in 0 .. cap - 1 |-> Unused]
                 /\ \A i \in 1 .. capacity : g[i] = Moved(g[i-1], cap, buckets[i-1])
                 /\ Grown(cap) = g[capacity]
    BY <1>1, GrownLoop
  <1> DEFINE Done(i) == /\ HashOK(g[i], cap)
                        /\ Cardinality(Occ(g[i], cap)) = Cardinality(Occ(buckets, i))
                        /\ Entries(g[i], cap) = Entries(buckets, i)
             P == {i \in Nat : i <= capacity => Done(i)}
  <1>3. 0 \in P
    <2>1. HashOK(g[0], cap) /\ Occ(g[0], cap) = {}
      BY <1>1, <1>2, EmptyHash
    <2>2. Occ(buckets, 0) = {}
      BY DEF Occ
    <2> QED
      BY <2>1, <2>2 DEF Entries
  <1>4. ASSUME NEW i \in Nat, i \in P PROVE i + 1 \in P
    <2> SUFFICES ASSUME i + 1 <= capacity PROVE Done(i + 1)
      OBVIOUS
    <2> DEFINE e == buckets[i]
    <2>1. Done(i) /\ i \in 0 .. capacity - 1 /\ i < capacity
      BY <1>1, <1>4
    <2>2. g[i + 1] = Moved(g[i], cap, e)
      <3>1. i + 1 \in 1 .. capacity /\ (i + 1) - 1 = i
        BY <1>1, <2>1
      <3> QED
        BY <1>2, <3>1
    <2>3. CASE e.key \in Keys
      <3>1. i \in Occ(buckets, capacity) /\ e \in Entry /\ e.val \in Vals
        BY <1>1, <2>1, <2>3 DEF Occ, HashOK
      <3>2. Cardinality(Occ(g[i], cap)) < cap
        <4>1. Cardinality(Occ(buckets, i)) <= i /\ Cardinality(Occ(buckets, i)) \in Nat
          BY OccFacts
        <4> QED
          BY <1>1, <2>1, <4>1
      <3>3. ~In(g[i], cap, e.key)
        <4> SUFFICES ASSUME NEW s \in Occ(g[i], cap), g[i][s].key = e.key PROVE FALSE
          BY DEF In
        <4>1. g[i][s] \in Entries(buckets, i)
          BY <2>1 DEF Entries
        <4>2. PICK t \in Occ(buckets, i) : buckets[t].key = e.key
          BY <4>1 DEF Entries
        <4>3. t \in Occ(buckets, capacity) /\ t # i
          BY <1>1, <2>1, <4>2 DEF Occ
        <4> QED
          BY <3>1, <4>2, <4>3 DEF HashOK
      <3>4. /\ HashOK(g[i + 1], cap)
            /\ Cardinality(Occ(g[i + 1], cap)) = Cardinality(Occ(g[i], cap)) + 1
            /\ Entries(g[i + 1], cap) = Entries(g[i], cap) \cup {e}
        BY <2>1, <2>2, <2>3, <3>1, <3>2, <3>3, MovedOne
      <3>5. Occ(buckets, i + 1) = Occ(buckets, i) \cup {i} /\ i \notin Occ(buckets, i)
        BY <2>1, <2>3 DEF Occ
      <3>6. Cardinality(Occ(buckets, i + 1)) = Cardinality(Occ(buckets, i)) + 1
        BY <3>5, OccFacts, FS_AddElement
      <3>7. Entries(buckets, i + 1) = Entries(buckets, i) \cup {e}
        BY <3>5 DEF Entries
      <3> QED
        BY <2>1, <3>4, <3>6, <3>7
    <2>4. CASE e.key \notin Keys
      <3>1. g[i + 1] = g[i]
        BY <2>2, <2>4 DEF Moved
      <3>2. Occ(buckets, i + 1) = Occ(buckets, i)
        BY <2>1, <2>4 DEF Occ
      <3>3. Entries(buckets, i + 1) = Entries(buckets, i)
        BY <3>2 DEF Entries
      <3> QED
        BY <2>1, <3>1, <3>2, <3>3
    <2> QED
      BY <2>3, <2>4
  <1>5. capacity \in P
    <2>1. P \in SUBSET Nat
      OBVIOUS
    <2> HIDE DEF P
    <2> QED
      BY <1>1, <1>3, <1>4, <2>1, SetInduction
  <1> QED
    BY <1>1, <1>2, <1>5

-----------------------------------------------------------------------------
(* arrayGrow: the array has room for the key it grew for, and not over     *)
(* four times the room it needs.                                           *)

ArePowers(base, factor, n, f) ==
  f \in [0 .. n -> Nat] /\ f[0] = base /\ \A i \in 1 .. n : f[i] = f[i-1] * factor

LEMMA Powers ==
  ASSUME NEW base \in Nat, NEW factor \in Nat, NEW n \in Nat
  PROVE  \E f : ArePowers(base, factor, n, f)
  <1> DEFINE G == [x \in Nat \X (1 .. n) |-> x[1] * factor]
  <1>1. \A x \in Nat : x * factor \in Nat
    OBVIOUS
  <1>2. G \in [Nat \X (1 .. n) -> Nat]
    BY <1>1
  <1>3. \A x \in Nat, i \in 1 .. n : G[<<x, i>>] = x * factor
    OBVIOUS
  <1> HIDE DEF G
  <1>4. PICK f : IsLoop(Nat, base, n, G, f)
    BY <1>2, RecursionExists
  <1>5. f \in [0 .. n -> Nat] /\ f[0] = base /\ \A i \in 1 .. n : f[i] = G[<<f[i-1], i>>]
    BY <1>4 DEF IsLoop
  <1>6. ASSUME NEW i \in 1 .. n PROVE f[i] = f[i-1] * factor
    <2>1. i - 1 \in 0 .. n
      OBVIOUS
    <2>2. f[i-1] \in Nat
      BY <1>5, <2>1
    <2>3. G[<<f[i-1], i>>] = f[i-1] * factor
      BY <1>3, <2>2
    <2> QED
      BY <1>5, <2>3
  <1> QED
    BY <1>5, <1>6 DEF ArePowers

LEMMA GrownSizeOK ==
  ASSUME asize \in Nat, NEW k \in Nat
  PROVE  /\ GrownSize(k) \in Nat /\ k + 1 <= GrownSize(k)
         /\ asize <= k => GrownSize(k) <= 4 * (k + 1)
  <1> DEFINE base == IF asize = 0 THEN 4 ELSE asize
             factor == IF base > BigArray THEN 4 ELSE 2
             F(g) == [i \in 0 .. k + 1 |-> IF i = 0 THEN base ELSE g[i-1] * factor]
             size == CHOOSE g : g = F(g)
             big == {n \in {size[i] : i \in 0 .. k + 1} : k + 1 <= n}
  <1>1. base \in Nat /\ base >= 1 /\ factor \in {2, 4}
    OBVIOUS
  <1>2. GrownSize(k) = Smallest(big)
    BY DEF GrownSize
  <1> HIDE DEF base, factor
  <1>3. \A x \in Nat : x * factor \in Nat /\ x * factor >= x + x
    BY <1>1
  <1>5. PICK f \in [0 .. k + 1 -> Nat] : f[0] = base /\ \A i \in 1 .. k + 1 : f[i] = f[i-1] * factor
    <2>1. factor \in Nat /\ k + 1 \in Nat
      BY <1>1
    <2>2. \E f : ArePowers(base, factor, k + 1, f)
      BY <1>1, <2>1, Powers
    <2> QED
      BY <2>2 DEF ArePowers
  <1>7. f = F(f)
    BY <1>5
  <1>8. size = F(size)
    <2> HIDE DEF F
    <2> QED
      BY <1>7
  <1> HIDE DEF size
  <1>9. size[0] = base /\ \A i \in 1 .. k + 1 : size[i] = size[i-1] * factor
    BY <1>8
  <1> DEFINE P == {i \in Nat : i <= k + 1 => size[i] \in Nat /\ size[i] >= i + 1}
  <1>10. 0 \in P
    BY <1>1, <1>9
  <1>11. ASSUME NEW i \in Nat, i \in P PROVE i + 1 \in P
    <2> SUFFICES ASSUME i + 1 <= k + 1 PROVE size[i + 1] \in Nat /\ size[i + 1] >= i + 2
      OBVIOUS
    <2>1. size[i] \in Nat /\ size[i] >= i + 1
      BY <1>11
    <2>2. size[i + 1] = size[i] * factor
      <3>1. i + 1 \in 1 .. k + 1 /\ (i + 1) - 1 = i
        OBVIOUS
      <3> QED
        BY <1>9, <3>1
    <2>3. size[i + 1] \in Nat /\ size[i + 1] >= size[i] + size[i]
      BY <1>3, <2>1, <2>2
    <2> QED
      BY <2>1, <2>3
  <1>12. P = Nat
    <2>1. P \in SUBSET Nat
      OBVIOUS
    <2> HIDE DEF P
    <2> QED
      BY <1>10, <1>11, <2>1, SetInduction
  <1>13. \A i \in 0 .. k + 1 : size[i] \in Nat /\ size[i] >= i + 1
    BY <1>12
  <1>14. big \in SUBSET Nat /\ size[k + 1] \in big
    BY <1>13
  <1>15. Smallest(big) \in big /\ \A y \in big : Smallest(big) <= y
    <2> HIDE DEF big
    <2> QED
      BY <1>14, SmallestIs
  <1>16. PICK i \in 0 .. k + 1 : GrownSize(k) = size[i]
    BY <1>2, <1>15
  <1>17. GrownSize(k) \in Nat /\ k + 1 <= GrownSize(k)
    BY <1>2, <1>14, <1>15
  <1>18. CASE i = 0
    <2>1. asize <= k => asize = 0
      BY <1>9, <1>16, <1>17, <1>18 DEF base
    <2>2. asize = 0 => GrownSize(k) = 4
      BY <1>9, <1>16, <1>18 DEF base
    <2> QED
      BY <1>17, <2>1, <2>2
  <1>19. CASE i # 0
    <2>1. i \in 1 .. k + 1 /\ i - 1 \in 0 .. k + 1
      BY <1>19
    <2>2. size[i-1] \in Nat /\ size[i-1] >= 1 /\ size[i] = size[i-1] * factor
      BY <1>9, <1>13, <2>1
    <2>3. size[i-1] < size[i] /\ size[i] <= 4 * size[i-1]
      BY <1>1, <2>2
    <2>4. ~(k + 1 <= size[i-1])
      <3>1. k + 1 <= size[i-1] => size[i-1] \in big
        BY <2>1
      <3> HIDE DEF big
      <3> QED
        BY <1>2, <1>15, <1>16, <1>17, <2>2, <2>3, <3>1
    <2> QED
      BY <1>16, <1>17, <2>2, <2>3, <2>4
  <1> QED
    BY <1>17, <1>18, <1>19

-----------------------------------------------------------------------------
(* What the operations do to the two parts. *)

Held(b, cap) == Cardinality(Occ(b, cap))

NewEntry(k, v) == [key |-> k, val |-> v]

\* Where b held the entries it held, c holds them with v for k.
IsPut(c, ccap, b, cap, k, v) ==
  /\ HashOK(c, ccap)
  /\ Entries(c, ccap) = {e \in Entries(b, cap) : e.key # k} \cup {NewEntry(k, v)}
  /\ In(b, cap, k) => Held(c, ccap) = Held(b, cap)
  /\ ~In(b, cap, k) => Held(c, ccap) = Held(b, cap) + 1

LEMMA InEntries ==
  ASSUME NEW b, NEW cap, NEW k
  PROVE  In(b, cap, k) <=> \E e \in Entries(b, cap) : e.key = k
  BY DEF In, Entries

LEMMA PutOK ==
  ASSUME NEW b, NEW cap, HashOK(b, cap), Held(b, cap) < cap, NEW k \in Keys, NEW v \in Vals
  PROVE  /\ FindEntry(b, cap, k) \in 0 .. cap - 1
         /\ b[FindEntry(b, cap, k)].key \in Keys <=> In(b, cap, k)
         /\ IsPut([b EXCEPT ![FindEntry(b, cap, k)] = NewEntry(k, v)], cap, b, cap, k, v)
  <1> DEFINE i == FindEntry(b, cap, k)
             c == [b EXCEPT ![i] = NewEntry(k, v)]
  <1>1. cap \in Nat \ {0} /\ b \in [0 .. cap - 1 -> Entry]
    BY DEF HashOK
  <1>2. NewEntry(k, v) \in Entry /\ NewEntry(k, v).key = k /\ NewEntry(k, v).val = v
    BY DEF NewEntry, Entry
  <1>3. CASE In(b, cap, k)
    <2>1. PICK s \in Occ(b, cap) : b[s].key = k
      BY <1>3 DEF In
    <2>2. i = s /\ s \in 0 .. cap - 1
      BY <2>1, FindHeld DEF Occ
    <2>3. IsStored(c, b, cap, s, NewEntry(k, v))
      BY <1>1, <1>2, <2>2, ExceptIsStored
    <2> HIDE DEF c
    <2>4. HashOK(c, cap) /\ Occ(c, cap) = Occ(b, cap)
      <3>1. IsStored(c, b, cap, s, [key |-> b[s].key, val |-> v])
        BY <2>1, <2>3 DEF NewEntry
      <3> QED
        BY <3>1, StoreHeld
    <2>5. c[s] = NewEntry(k, v) /\ \A t \in Occ(b, cap) : t # s => c[t] = b[t] /\ b[t].key # k
      BY <2>1, <2>3 DEF IsStored, Occ, HashOK
    <2>6. Entries(c, cap) = {e \in Entries(b, cap) : e.key # k} \cup {NewEntry(k, v)}
      <3>1. ASSUME NEW e PROVE e \in Entries(c, cap) <=> (e = NewEntry(k, v) \/ (e \in Entries(b, cap) /\ e.key # k))
        BY <2>1, <2>4, <2>5 DEF Entries
      <3> QED
        BY <3>1
    <2> QED
      BY <1>3, <2>1, <2>2, <2>4, <2>6 DEF IsPut, Held, Occ, c
  <1>4. CASE ~In(b, cap, k)
    <2>1. (0 .. cap - 1) \ Occ(b, cap) # {}
      BY <1>1, OccFacts DEF Held
    <2>2. i \in (0 .. cap - 1) \ Occ(b, cap)
      BY <1>4, <2>1, FindFree
    <2>3. c = Moved(b, cap, NewEntry(k, v))
      BY <1>2 DEF Moved
    <2>4. /\ HashOK(c, cap) /\ Held(c, cap) = Held(b, cap) + 1
          /\ Entries(c, cap) = Entries(b, cap) \cup {NewEntry(k, v)}
      <3> HIDE DEF c
      <3>1. PICK e \in Entry : e = NewEntry(k, v) /\ e.key = k /\ e.val = v
        BY <1>2
      <3>2. /\ HashOK(Moved(b, cap, e), cap)
            /\ Cardinality(Occ(Moved(b, cap, e), cap)) = Cardinality(Occ(b, cap)) + 1
            /\ Entries(Moved(b, cap, e), cap) = Entries(b, cap) \cup {e}
        BY <1>4, <3>1, MovedOne DEF Held
      <3> QED
        BY <2>3, <3>1, <3>2 DEF Held
    <2>5. {e \in Entries(b, cap) : e.key # k} = Entries(b, cap)
      BY <1>4, InEntries
    <2> HIDE DEF c
    <2>6. IsPut(c, cap, b, cap, k, v)
      BY <1>4, <2>4, <2>5 DEF IsPut
    <2>7. b[i].key \notin Keys
      BY <2>2 DEF Occ
    <2> QED
      BY <1>4, <2>2, <2>6, <2>7 DEF c
  <1> QED
    BY <1>3, <1>4

LEMMA RemoveOK ==
  ASSUME NEW b, NEW cap, HashOK(b, cap), NEW k \in Keys, In(b, cap, k),
         NEW c, IsStored(c, b, cap, FindEntry(b, cap, k), Deleted)
  PROVE  /\ HashOK(c, cap) /\ Held(b, cap) = Held(c, cap) + 1
         /\ Entries(c, cap) = {e \in Entries(b, cap) : e.key # k}
  <1>1. cap \in Nat \ {0} /\ b \in [0 .. cap - 1 -> Entry]
    BY DEF HashOK
  <1>2. PICK s \in Occ(b, cap) : b[s].key = k
    BY DEF In
  <1>3. FindEntry(b, cap, k) = s /\ s \in 0 .. cap - 1
    BY <1>2, FindHeld DEF Occ
  <1>4. IsStored(c, b, cap, s, Deleted)
    BY <1>3
  <1>5. HashOK(c, cap) /\ Occ(c, cap) = Occ(b, cap) \ {s}
    BY <1>4, RemoveHeld
  <1>6. \A t \in Occ(c, cap) : c[t] = b[t] /\ b[t].key # k
    BY <1>2, <1>4, <1>5 DEF IsStored, Occ, HashOK
  <1>7. Entries(c, cap) = {e \in Entries(b, cap) : e.key # k}
    <2>1. ASSUME NEW e PROVE e \in Entries(c, cap) <=> (e \in Entries(b, cap) /\ e.key # k)
      BY <1>2, <1>5, <1>6 DEF Entries
    <2> QED
      BY <2>1
  <1>8. Occ(b, cap) = Occ(c, cap) \cup {s} /\ s \notin Occ(c, cap)
    BY <1>5
  <1>9. Held(b, cap) = Held(c, cap) + 1
    BY <1>1, <1>8, OccFacts, FS_AddElement DEF Held
  <1> QED
    BY <1>5, <1>7, <1>9

-----------------------------------------------------------------------------
(* ensureOrder: the two loops list keys, and each key once. *)

\* The list s holds keys of S only, and none twice.
Lists(s, S) ==
  /\ s \in Seq(Keys)
  /\ \A i \in DOMAIN s : s[i] \in S
  /\ \A i, j \in DOMAIN s : s[i] = s[j] => i = j

Keyed(key, Live) == {key[i] : i \in Live}

IsListing(f, base, n, Live, key) ==
  /\ f[0] = base
  /\ \A i \in 1 .. n : f[i] = Listed(f[i-1], i \in Live, key[i])

LEMMA ListingExists ==
  ASSUME NEW base \in Seq(Keys), NEW n \in Nat, NEW Live \in SUBSET (1 .. n), NEW key,
         \A i \in Live : key[i] \in Keys
  PROVE  \E f \in [0 .. n -> Seq(Keys)] : IsListing(f, base, n, Live, key)
  <1> DEFINE G == [x \in Seq(Keys) \X (1 .. n) |-> Listed(x[1], x[2] \in Live, key[x[2]])]
  <1>1. \A s \in Seq(Keys), i \in 1 .. n : Listed(s, i \in Live, key[i]) \in Seq(Keys)
    BY DEF Listed
  <1>2. G \in [Seq(Keys) \X (1 .. n) -> Seq(Keys)]
    BY <1>1
  <1>3. \A s \in Seq(Keys), i \in 1 .. n : G[<<s, i>>] = Listed(s, i \in Live, key[i])
    OBVIOUS
  <1> HIDE DEF G
  <1>4. PICK f : IsLoop(Seq(Keys), base, n, G, f)
    BY <1>2, RecursionExists
  <1>5. f \in [0 .. n -> Seq(Keys)] /\ f[0] = base /\ \A i \in 1 .. n : f[i] = G[<<f[i-1], i>>]
    BY <1>4 DEF IsLoop
  <1>6. ASSUME NEW i \in 1 .. n PROVE f[i] = Listed(f[i-1], i \in Live, key[i])
    <2>1. i - 1 \in 0 .. n
      OBVIOUS
    <2>2. f[i-1] \in Seq(Keys)
      BY <1>5, <2>1
    <2> QED
      BY <1>3, <1>5, <2>2
  <1> QED
    BY <1>5, <1>6 DEF IsListing

LEMMA ListingType ==
  ASSUME NEW base \in Seq(Keys), NEW n \in Nat, NEW Live \in SUBSET (1 .. n), NEW key,
         \A i \in Live : key[i] \in Keys, NEW f, IsListing(f, base, n, Live, key)
  PROVE  f[n] \in Seq(Keys)
  <1> DEFINE P == {j \in Nat : j <= n => f[j] \in Seq(Keys)}
  <1>1. 0 \in P
    BY DEF IsListing
  <1>2. ASSUME NEW j \in Nat, j \in P PROVE j + 1 \in P
    <2> SUFFICES ASSUME j + 1 <= n PROVE f[j + 1] \in Seq(Keys)
      OBVIOUS
    <2>1. f[j] \in Seq(Keys)
      BY <1>2
    <2>2. j + 1 \in 1 .. n /\ (j + 1) - 1 = j
      OBVIOUS
    <2>3. f[j + 1] = Listed(f[j], j + 1 \in Live, key[j + 1])
      BY <2>2 DEF IsListing
    <2> QED
      BY <2>1, <2>3 DEF Listed
  <1>3. n \in P
    <2>1. P \in SUBSET Nat
      OBVIOUS
    <2> HIDE DEF P
    <2> QED
      BY <1>1, <1>2, <2>1, SetInduction
  <1> QED
    BY <1>3

LEMMA AppendLists ==
  ASSUME NEW s, NEW S, Lists(s, S), NEW k \in Keys \ S
  PROVE  Lists(Append(s, k), S \cup {k})
  <1>1. s \in Seq(Keys) /\ Append(s, k) \in Seq(Keys)
    BY DEF Lists
  <1>2. /\ DOMAIN s = 1 .. Len(s) /\ DOMAIN Append(s, k) = 1 .. Len(s) + 1 /\ Len(s) \in Nat
        /\ Append(s, k)[Len(s) + 1] = k
        /\ \A i \in 1 .. Len(s) : Append(s, k)[i] = s[i]
    BY <1>1
  <1> DEFINE t == Append(s, k)
  <1> HIDE DEF t
  <1>3. \A i \in DOMAIN t : i \in DOMAIN s \/ i = Len(s) + 1
    BY <1>2 DEF t
  <1>4. \A i \in DOMAIN s : t[i] = s[i] /\ s[i] \in S
    BY <1>2 DEF t, Lists
  <1>5. t[Len(s) + 1] = k
    BY <1>2 DEF t
  <1>6. \A i \in DOMAIN t : t[i] \in S \cup {k}
    BY <1>3, <1>4, <1>5
  <1>7. \A i, j \in DOMAIN t : t[i] = t[j] => i = j
    BY <1>3, <1>4, <1>5 DEF Lists
  <1> QED
    BY <1>1, <1>6, <1>7 DEF t, Lists

LEMMA ListingLists ==
  ASSUME NEW base, NEW n \in Nat, NEW Live \in SUBSET (1 .. n), NEW key, NEW f,
         IsListing(f, base, n, Live, key), NEW S, Lists(base, S),
         \A i \in Live : key[i] \in Keys \ S,
         \A i, j \in Live : key[i] = key[j] => i = j
  PROVE  Lists(f[n], S \cup Keyed(key, Live))
  <1> DEFINE L(j) == {x \in Live : x <= j}
             Upto(j) == {key[i] : i \in L(j)}
             P == {j \in Nat : j <= n => Lists(f[j], S \cup Upto(j))}
  <1>0. \A x \in Live : x \in Nat /\ 1 <= x /\ x <= n
    OBVIOUS
  <1>1. 0 \in P
    <2>0. \A x \in Live : ~(x <= 0)
      BY <1>0
    <2>1. L(0) = {}
      BY <2>0
    <2>2. S \cup Upto(0) = S
      BY <2>1
    <2> HIDE DEF Upto
    <2>3. f[0] = base /\ Lists(f[0], S \cup Upto(0))
      BY <2>2 DEF IsListing
    <2> QED
      BY <2>3
  <1>2. ASSUME NEW j \in Nat, j \in P PROVE j + 1 \in P
    <2> SUFFICES ASSUME j + 1 <= n PROVE Lists(f[j + 1], S \cup Upto(j + 1))
      OBVIOUS
    <2>1. Lists(f[j], S \cup Upto(j))
      BY <1>2
    <2>2. j + 1 \in 1 .. n /\ (j + 1) - 1 = j
      OBVIOUS
    <2>3. f[j + 1] = Listed(f[j], j + 1 \in Live, key[j + 1])
      BY <2>2 DEF IsListing
    <2>4. CASE j + 1 \in Live
      <3>1. key[j + 1] \in Keys \ (S \cup Upto(j))
        <4>1. \A x \in L(j) : x \in Live /\ x # j + 1
          BY <1>0
        <4>2. key[j + 1] \in Keys \ S /\ \A x \in Live : key[x] = key[j + 1] => x = j + 1
          BY <2>4
        <4> HIDE DEF L
        <4>3. key[j + 1] \notin Upto(j)
          BY <4>1, <4>2
        <4> QED
          BY <4>2, <4>3
      <3>2. Upto(j + 1) = Upto(j) \cup {key[j + 1]}
        <4>1. \A x \in Live : x <= j + 1 <=> (x <= j \/ x = j + 1)
          OBVIOUS
        <4>2. L(j + 1) = L(j) \cup {j + 1}
          BY <2>4, <4>1
        <4> HIDE DEF L
        <4> QED
          BY <4>2
      <3>3. f[j + 1] = Append(f[j], key[j + 1])
        BY <2>3, <2>4 DEF Listed
      <3> HIDE DEF Upto
      <3>4. Lists(Append(f[j], key[j + 1]), (S \cup Upto(j)) \cup {key[j + 1]})
        BY <2>1, <3>1, AppendLists
      <3>5. (S \cup Upto(j)) \cup {key[j + 1]} = S \cup Upto(j + 1)
        BY <3>2
      <3> QED
        BY <3>3, <3>4, <3>5
    <2>5. CASE j + 1 \notin Live
      <3>0. \A x \in Live : x <= j + 1 <=> x <= j
        BY <2>5
      <3>1. L(j + 1) = L(j)
        BY <3>0
      <3>2. f[j + 1] = f[j]
        BY <2>3, <2>5 DEF Listed
      <3> QED
        BY <2>1, <3>1, <3>2
    <2> QED
      BY <2>4, <2>5
  <1>3. n \in P
    <2>1. P \in SUBSET Nat
      OBVIOUS
    <2> HIDE DEF P
    <2> QED
      BY <1>1, <1>2, <2>1, SetInduction
  <1>4. L(n) = Live
    BY <1>0
  <1>5. Lists(f[n], S \cup Upto(n))
    BY <1>3
  <1> HIDE DEF L
  <1> QED
    BY <1>4, <1>5 DEF Keyed

Cells == {k \in ArrayKeys : array[k] # Absent}

LiveCells == {i \in 1 .. asize : i - 1 \in ArrayKeys /\ array[i-1] # Absent}
CellKeys == [i \in 1 .. asize |-> i - 1]

LiveSlots == {i \in 1 .. capacity : buckets[i-1].key \in Keys}
SlotKeys == [i \in 1 .. capacity |-> buckets[i-1].key]

\* The recursions ensureOrder's loops stand for have their functions.
LEMMA OrderedLoops ==
  ASSUME TypeOK, order = NoOrder
  PROVE  \E f, g : /\ IsListing(f, << >>, asize, LiveCells, CellKeys)
                   /\ IsListing(g, f[asize], capacity, LiveSlots, SlotKeys)
                   /\ Ordered = g[capacity]
  <1> DEFINE C(c) == [i \in 0 .. asize |->
                        IF i = 0 THEN << >>
                        ELSE Listed(c[i-1], i - 1 \in ArrayKeys /\ array[i-1] # Absent, i - 1)]
             cells == CHOOSE c : c = C(c)
             D(s) == [i \in 0 .. capacity |->
                        IF i = 0 THEN cells[asize]
                        ELSE Listed(s[i-1], buckets[i-1].key \in Keys, buckets[i-1].key)]
             slots == CHOOSE s : s = D(s)
  <1>1. Ordered = slots[capacity]
    BY DEF Ordered
  <1>2. asize \in Nat /\ capacity \in Nat
    BY DEF TypeOK
  <1>3. cells = C(cells)
    <2>1. << >> \in Seq(Keys) /\ LiveCells \in SUBSET (1 .. asize) /\ \A i \in LiveCells : CellKeys[i] \in Keys
      BY DEF LiveCells, CellKeys, ArrayKeys, Keys
    <2>2. PICK f \in [0 .. asize -> Seq(Keys)] : IsListing(f, << >>, asize, LiveCells, CellKeys)
      BY <1>2, <2>1, ListingExists
    <2>3. \A i \in 1 .. asize : f[i] = Listed(f[i-1], i - 1 \in ArrayKeys /\ array[i-1] # Absent, i - 1)
      BY <2>2 DEF IsListing, LiveCells, CellKeys
    <2>4. f = C(f)
      BY <1>2, <2>2, <2>3 DEF IsListing
    <2> HIDE DEF C
    <2> QED
      BY <2>4
  <1> HIDE DEF cells
  <1>4. IsListing(cells, << >>, asize, LiveCells, CellKeys)
    BY <1>2, <1>3 DEF IsListing, LiveCells, CellKeys
  <1>5. cells[asize] \in Seq(Keys)
    <2>1. << >> \in Seq(Keys) /\ LiveCells \in SUBSET (1 .. asize) /\ \A i \in LiveCells : CellKeys[i] \in Keys
      BY DEF LiveCells, CellKeys, ArrayKeys, Keys
    <2> QED
      BY <1>2, <1>4, <2>1, ListingType
  <1>6. slots = D(slots)
    <2>1. LiveSlots \in SUBSET (1 .. capacity) /\ \A i \in LiveSlots : SlotKeys[i] \in Keys
      BY DEF LiveSlots, SlotKeys
    <2>2. PICK f \in [0 .. capacity -> Seq(Keys)] : IsListing(f, cells[asize], capacity, LiveSlots, SlotKeys)
      BY <1>2, <1>5, <2>1, ListingExists
    <2>3. \A i \in 1 .. capacity : f[i] = Listed(f[i-1], buckets[i-1].key \in Keys, buckets[i-1].key)
      BY <2>2 DEF IsListing, LiveSlots, SlotKeys
    <2>4. f = D(f)
      BY <1>2, <2>2, <2>3 DEF IsListing
    <2> HIDE DEF D
    <2> QED
      BY <2>4
  <1> HIDE DEF slots
  <1>7. IsListing(slots, cells[asize], capacity, LiveSlots, SlotKeys)
    BY <1>2, <1>6 DEF IsListing, LiveSlots, SlotKeys
  <1> QED
    BY <1>1, <1>4, <1>7

LEMMA OrderedType ==
  ASSUME TypeOK
  PROVE  Ordered \in Seq(Keys)
  <1>1. asize \in Nat /\ capacity \in Nat /\ (order = NoOrder \/ order \in Seq(Keys))
    BY DEF TypeOK
  <1>2. CASE order # NoOrder
    BY <1>1, <1>2 DEF Ordered
  <1>3. CASE order = NoOrder
    <2>1. << >> \in Seq(Keys) /\ LiveCells \in SUBSET (1 .. asize) /\ \A i \in LiveCells : CellKeys[i] \in Keys
      BY DEF LiveCells, CellKeys, ArrayKeys, Keys
    <2>2. LiveSlots \in SUBSET (1 .. capacity) /\ \A i \in LiveSlots : SlotKeys[i] \in Keys
      BY DEF LiveSlots, SlotKeys
    <2>3. PICK f, g : /\ IsListing(f, << >>, asize, LiveCells, CellKeys)
                      /\ IsListing(g, f[asize], capacity, LiveSlots, SlotKeys)
                      /\ Ordered = g[capacity]
      BY <1>3, OrderedLoops
    <2>4. f[asize] \in Seq(Keys)
      BY <1>1, <2>1, <2>3, ListingType
    <2> QED
      BY <1>1, <2>2, <2>3, <2>4, ListingType
  <1> QED
    BY <1>2, <1>3

\* The keys of the list just built are those of cells and entries.
LEMMA OrderedLists ==
  ASSUME TypeOK, HashOK(buckets, capacity), order = NoOrder,
         \A k \in Cells : ~In(buckets, capacity, k)
  PROVE  Lists(Ordered, Cells \cup {k \in Keys : In(buckets, capacity, k)})
  <1>1. asize \in Nat /\ capacity \in Nat
    BY DEF TypeOK
  <1>2. PICK f, g : /\ IsListing(f, << >>, asize, LiveCells, CellKeys)
                    /\ IsListing(g, f[asize], capacity, LiveSlots, SlotKeys)
                    /\ Ordered = g[capacity]
    BY OrderedLoops
  <1> DEFINE A == Keyed(CellKeys, LiveCells)
             B == Keyed(SlotKeys, LiveSlots)
  <1>3. Lists(f[asize], {} \cup A)
    <2>1. LiveCells \in SUBSET (1 .. asize) /\ Lists(<< >>, {})
      BY DEF LiveCells, Lists
    <2>2. \A i \in LiveCells : CellKeys[i] = i - 1 /\ CellKeys[i] \in Keys \ {}
      BY DEF LiveCells, CellKeys, ArrayKeys, Keys
    <2>3. \A i, j \in LiveCells : CellKeys[i] = CellKeys[j] => i = j
      BY <1>1, <2>1, <2>2
    <2>4. \A i \in LiveCells : CellKeys[i] \in Keys \ {}
      BY <2>2
    <2> QED
      BY <1>1, <1>2, <2>1, <2>3, <2>4, ListingLists
  <1>4. A \subseteq Cells
    BY <1>1 DEF LiveCells, CellKeys, Cells, Keyed
  <1>5. B \subseteq {k \in Keys : In(buckets, capacity, k)}
    <2>1. \A i \in LiveSlots : i - 1 \in Occ(buckets, capacity) /\ SlotKeys[i] = buckets[i-1].key
      BY <1>1 DEF LiveSlots, SlotKeys, Occ
    <2> QED
      BY <2>1 DEF In, Occ, Keyed
  <1>6. Lists(g[capacity], A \cup B)
    <2>1. LiveSlots \in SUBSET (1 .. capacity)
      BY DEF LiveSlots
    <2>2. \A i \in LiveSlots : i - 1 \in Occ(buckets, capacity) /\ SlotKeys[i] = buckets[i-1].key
      BY <1>1 DEF LiveSlots, SlotKeys, Occ
    <2>3. \A i, j \in LiveSlots : SlotKeys[i] = SlotKeys[j] => i = j
      <3>1. \A i \in LiveSlots : i \in Int
        BY <1>1, <2>1
      <3>2. \A i, j \in LiveSlots : SlotKeys[i] = SlotKeys[j] => i - 1 = j - 1
        BY <2>2 DEF HashOK
      <3> QED
        BY <3>1, <3>2
    <2>4. \A i \in LiveSlots : SlotKeys[i] \in Keys \ A
      <3>1. \A i \in LiveSlots : SlotKeys[i] \in B
        BY DEF Keyed
      <3> QED
        BY <1>4, <1>5, <3>1 DEF Cells
    <2>5. Lists(f[asize], A)
      BY <1>3
    <2> QED
      BY <1>1, <1>2, <2>1, <2>3, <2>4, <2>5, ListingLists
  <1> QED
    BY <1>2, <1>4, <1>5, <1>6 DEF Lists

-----------------------------------------------------------------------------
(* Why the table works: its hash part is in order and has a free slot, and *)
(* count is the cells and the entries together.  MustGrow tests count, so  *)
(* that the free slot rests on the count.                                  *)

HashSound ==
  /\ HashOK(buckets, capacity) /\ capacity >= 4
  /\ Held(buckets, capacity) < capacity

CountSound == IsFiniteSet(Cells) /\ count = Cardinality(Cells) + Held(buckets, capacity)

IInv == TypeOK /\ HashSound /\ CountSound

HashIn(k) == In(buckets, capacity, k)

\* What a step may do to the table: a cell or an entry stored or dropped, or
\* the list of keys built.
StoresCell(k, v) ==
  /\ k \in ArrayKeys /\ array' = [array EXCEPT ![k] = v]
  /\ asize' \in Nat /\ asize <= asize' /\ k < asize' /\ nextIntKey' \in Nat
  /\ asize' # asize => asize' <= 4 * ArrayLimit
  /\ array[k] = Absent => count' = count + 1
  /\ array[k] # Absent => count' = count
  /\ order' \in {order, NoOrder}
  /\ UNCHANGED <<buckets, capacity>>

PutsEntry(k, v) ==
  /\ IsPut(buckets', capacity', buckets, capacity, k, v)
  /\ Held(buckets', capacity') < capacity' /\ capacity' >= 4 /\ nextIntKey' \in Nat
  /\ HashIn(k) => count' = count
  /\ ~HashIn(k) => count' = count + 1
  /\ order' \in {order, NoOrder}
  /\ UNCHANGED <<array, asize>>

DropsCell(k) ==
  /\ k \in ArrayKeys /\ array[k] # Absent /\ array' = [array EXCEPT ![k] = Absent]
  /\ count' = count - 1 /\ order' = NoOrder
  /\ UNCHANGED <<asize, buckets, capacity, nextIntKey>>

DropsEntry(k) ==
  /\ HashIn(k) /\ ~(InArray(k) /\ array[k] # Absent)
  /\ HashOK(buckets', capacity)
  /\ Held(buckets, capacity) = Held(buckets', capacity) + 1
  /\ Entries(buckets', capacity) = {e \in Entries(buckets, capacity) : e.key # k}
  /\ count' = count - 1 /\ order' = NoOrder
  /\ UNCHANGED <<array, asize, capacity, nextIntKey>>

ListsKeys ==
  /\ order' \in {order, Ordered}
  /\ UNCHANGED <<array, asize, buckets, capacity, count, nextIntKey>>

\* Which of the two a key is stored in, or dropped from.
Stores(k, v) ==
  \/ StoresCell(k, v)
  \/ PutsEntry(k, v) /\ (k \notin ArrayKeys \/ k >= ArrayLimit)

Drops(k) ==
  \/ DropsCell(k)
  \/ DropsEntry(k)
  \/ ListsKeys /\ ~HashIn(k) /\ ~(InArray(k) /\ array[k] # Absent)

\* The lookup of the hash part, given that no slot is missing.
LEMMA FindIs ==
  ASSUME IInv, NEW k \in Keys
  PROVE  /\ FindEntry(buckets, capacity, k) \in 0 .. capacity - 1
         /\ FindEntry(buckets, capacity, k) # NoSlot
         /\ buckets[FindEntry(buckets, capacity, k)].key \in Keys <=> HashIn(k)
  <1>1. HashOK(buckets, capacity) /\ Held(buckets, capacity) < capacity /\ capacity \in Nat
    BY DEF IInv, HashSound, HashOK
  <1>2. CASE HashIn(k)
    <2>1. PICK s \in Occ(buckets, capacity) : buckets[s].key = k
      BY <1>2 DEF HashIn, In
    <2>2. FindEntry(buckets, capacity, k) = s
      BY <1>1, <2>1, FindHeld
    <2> QED
      BY <1>1, <1>2, <2>1, <2>2 DEF NoSlot, Occ
  <1>3. CASE ~HashIn(k)
    <2>1. (0 .. capacity - 1) \ Occ(buckets, capacity) # {}
      BY <1>1, OccFacts DEF Held
    <2>2. FindEntry(buckets, capacity, k) \in (0 .. capacity - 1) \ Occ(buckets, capacity)
      BY <1>1, <1>3, <2>1, FindFree DEF HashIn
    <2> QED
      BY <1>1, <1>3, <2>2 DEF NoSlot, Occ
  <1> QED
    BY <1>2, <1>3

LEMMA NextIntKeyType ==
  ASSUME TypeOK, NEW k \in Keys
  PROVE  NextIntKey(k) \in Nat
  <1>1. nextIntKey \in Nat /\ Ints \in SUBSET Int
    BY DEF TypeOK
  <1>2. k \in Ints => k \in Int
    OBVIOUS
  <1> QED
    BY <1>1, <1>2 DEF NextIntKey

LEMMA SetArrayStores ==
  ASSUME IInv, NEW k \in ArrayKeys, k < ArrayLimit, NEW v \in Vals, SetArray(k, v)
  PROVE  StoresCell(k, v)
  <1>1. asize \in Nat /\ k \in Nat /\ k \in Keys
    BY DEF IInv, TypeOK, ArrayKeys, Keys
  <1>2. nextIntKey' \in Nat
    BY <1>1, NextIntKeyType DEF IInv, SetArray
  <1>3. /\ asize' \in Nat /\ asize <= asize' /\ k < asize'
        /\ asize' # asize => asize' <= 4 * ArrayLimit
    <2>1. /\ GrownSize(k) \in Nat /\ k + 1 <= GrownSize(k)
          /\ asize <= k => GrownSize(k) <= 4 * (k + 1)
      BY <1>1, GrownSizeOK
    <2>2. InArray(k) <=> k < asize
      BY DEF InArray
    <2> QED
      BY <1>1, <2>1, <2>2 DEF SetArray
  <1> QED
    BY <1>2, <1>3 DEF SetArray, StoresCell, Counted

LEMMA SetHashPuts ==
  ASSUME IInv, NEW k \in Keys, NEW v \in Vals, SetHash(k, v)
  PROVE  PutsEntry(k, v)
  <1> DEFINE cap == IF ~MustGrow THEN capacity ELSE IF capacity < 8 THEN 8 ELSE capacity * 2
             b == IF MustGrow THEN Grown(cap) ELSE buckets
             i == FindEntry(b, cap, k)
  <1>1. /\ capacity' = cap /\ buckets' = [b EXCEPT ![i] = NewEntry(k, v)]
        /\ IF b[i].key \in Keys THEN UNCHANGED <<count, order>> ELSE Counted(1)
        /\ UNCHANGED <<array, asize>>
    BY DEF SetHash, NewEntry
  <1>2. nextIntKey' \in Nat
    BY NextIntKeyType DEF IInv, SetHash
  <1>3. /\ HashOK(buckets, capacity) /\ capacity >= 4 /\ capacity \in Nat
        /\ Held(buckets, capacity) < capacity /\ Held(buckets, capacity) \in Nat
        /\ Held(buckets, capacity) <= count /\ count \in Nat
    <2>1. Cardinality(Cells) \in Nat
      BY FS_CardinalityType DEF IInv, CountSound
    <2>2. capacity \in Nat /\ count \in Nat
      BY DEF IInv, TypeOK
    <2>3. Held(buckets, capacity) \in Nat
      BY <2>2, OccFacts DEF Held
    <2> QED
      BY <2>1, <2>2, <2>3 DEF IInv, HashSound, CountSound
  <1>4. /\ HashOK(b, cap) /\ Entries(b, cap) = Entries(buckets, capacity)
        /\ Held(b, cap) = Held(buckets, capacity)
        /\ Held(b, cap) + 1 < cap /\ cap >= 4 /\ cap \in Nat
    <2>1. CASE MustGrow
      <3>1. cap \in Nat /\ cap > capacity /\ capacity + 1 <= cap
        BY <1>3, <2>1
      <3> HIDE DEF cap
      <3>2. /\ HashOK(Grown(cap), cap)
            /\ Cardinality(Occ(Grown(cap), cap)) = Cardinality(Occ(buckets, capacity))
            /\ Entries(Grown(cap), cap) = Entries(buckets, capacity)
        BY <1>3, <3>1, GrownOK
      <3>3. b = Grown(cap)
        BY <2>1
      <3> HIDE DEF b
      <3> QED
        BY <1>3, <3>1, <3>2, <3>3 DEF Held
    <2>2. CASE ~MustGrow
      <3>1. count + 1 <= (capacity * 3) \div 4
        BY <1>3, <2>2 DEF MustGrow
      <3>2. (capacity * 3) \div 4 < capacity
        BY <1>3
      <3> QED
        BY <1>3, <2>2, <3>1, <3>2
    <2> QED
      BY <2>1, <2>2
  <1> HIDE DEF cap, b
  <1>5. /\ b[i].key \in Keys <=> In(b, cap, k)
        /\ IsPut([b EXCEPT ![i] = NewEntry(k, v)], cap, b, cap, k, v)
    <2>1. Held(b, cap) < cap
      BY <1>3, <1>4
    <2> QED
      BY <1>4, <2>1, PutOK
  <1>6. In(b, cap, k) <=> HashIn(k)
    BY <1>4, InEntries DEF HashIn
  <1>7. IsPut(buckets', capacity', b, cap, k, v)
    BY <1>1, <1>5
  <1>8. IsPut(buckets', capacity', buckets, capacity, k, v)
    BY <1>4, <1>6, <1>7 DEF IsPut, HashIn
  <1>9. Held(buckets', capacity') < capacity' /\ capacity' >= 4
    <2>1. Held(buckets', capacity') = Held(b, cap) \/ Held(buckets', capacity') = Held(b, cap) + 1
      BY <1>7 DEF IsPut
    <2> QED
      BY <1>1, <1>3, <1>4, <2>1
  <1> QED
    BY <1>1, <1>2, <1>5, <1>6, <1>8, <1>9 DEF PutsEntry, Counted

LEMMA SetStores ==
  ASSUME IInv, NEW k \in Keys, NEW v \in Vals, Set(k, v)
  PROVE  Stores(k, v)
  <1>1. CASE k \in ArrayKeys /\ k < ArrayLimit
    BY <1>1, SetArrayStores DEF Set, Stores
  <1>2. CASE ~(k \in ArrayKeys /\ k < ArrayLimit)
    <2>1. PutsEntry(k, v)
      BY <1>2, SetHashPuts DEF Set
    <2>2. k \in ArrayKeys => k \in Int
      BY DEF ArrayKeys
    <2> QED
      BY <1>2, <2>1, <2>2 DEF Stores
  <1> QED
    BY <1>1, <1>2

(* The emitted bounds test compares the low half of a key.  What follows is *)
(* about tables whose integer keys have no other half, where it is the test *)
(* of BblTable::get and set.                                                *)
NarrowInts == \A k \in ArrayKeys : k < Word

LEMMA InlineIsInArray ==
  ASSUME NarrowInts, NEW k \in Keys
  PROVE  /\ InlineInArray(k) <=> InArray(k)
         /\ InlineCells(k) = {IF InArray(k) THEN array[k] ELSE Absent}
  <1>1. ASSUME k \in ArrayKeys PROVE k % Word = k
    <2>1. k \in 0 .. Word - 1 /\ Word \in Nat \ {0}
      BY <1>1 DEF NarrowInts, ArrayKeys
    <2>2. ((0 * Word) + k) % Word = k
      BY <2>1, Remainder
    <2> QED
      BY <2>1, <2>2
  <1>2. InlineInArray(k) <=> InArray(k)
    BY <1>1 DEF InlineInArray, InArray
  <1> QED
    BY <1>2 DEF InlineCells

LEMMA InlineSetStores ==
  ASSUME NarrowInts, IInv, NEW k \in Keys, NEW v \in Vals, InlineSet(k, v)
  PROVE  Stores(k, v) \/ (PutsEntry(k, v) /\ HashIn(k))
  <1> DEFINE home == Home[k] % capacity
  <1>1. /\ asize \in Nat /\ nextIntKey \in Nat /\ capacity \in Nat \ {0}
        /\ buckets \in [0 .. capacity - 1 -> Entry]
    BY DEF IInv, TypeOK, HashSound, HashOK
  <1>2. CASE InArray(k)
    <2>1. /\ array' = [array EXCEPT ![k] = v] /\ count' \in InlineCount(k)
          /\ UNCHANGED <<asize, buckets, capacity, nextIntKey, order>>
      BY <1>2, InlineIsInArray DEF InlineSet
    <2>2. count' = IF array[k] = Absent THEN count + 1 ELSE count
      BY <1>2, <2>1, InlineIsInArray DEF InlineCount
    <2>3. StoresCell(k, v)
      BY <1>1, <1>2, <2>1, <2>2 DEF StoresCell, InArray
    <2> QED
      BY <2>3 DEF Stores
  <1>3. CASE ~InArray(k) /\ buckets[home].key = k
    <2>1. /\ buckets' = [buckets EXCEPT ![home].val = v]
          /\ UNCHANGED <<array, asize, capacity, count, nextIntKey, order>>
      BY <1>3, InlineIsInArray DEF InlineSet
    <2>2. home \in 0 .. capacity - 1
      <3>1. Home[k] \in Nat
        OBVIOUS
      <3> QED
        BY <1>1, <3>1
    <2> HIDE DEF home
    <2>3. home \in Occ(buckets, capacity) /\ HashIn(k)
      BY <1>3, <2>2 DEF Occ, HashIn, In
    <2>4. FindEntry(buckets, capacity, k) = home
      BY <1>3, <2>3, FindHeld DEF IInv, HashSound
    <2>5. [buckets EXCEPT ![home].val = v] = [buckets EXCEPT ![home] = NewEntry(k, v)]
      <3>1. buckets[home] \in Entry /\ buckets[home].key = k
        BY <1>1, <1>3, <2>2
      <3>2. [buckets[home] EXCEPT !.val = v] = NewEntry(k, v)
        BY <3>1 DEF Entry, NewEntry
      <3> QED
        BY <1>1, <2>2, <3>2
    <2>6. IsPut([buckets EXCEPT ![FindEntry(buckets, capacity, k)] = NewEntry(k, v)], capacity,
                buckets, capacity, k, v)
      BY PutOK DEF IInv, HashSound
    <2>7. IsPut(buckets', capacity', buckets, capacity, k, v)
      BY <2>1, <2>4, <2>5, <2>6
    <2>8. Held(buckets', capacity') = Held(buckets, capacity)
      BY <2>3, <2>7 DEF IsPut, HashIn
    <2>9. PutsEntry(k, v)
      BY <1>1, <2>1, <2>3, <2>7, <2>8 DEF PutsEntry, IInv, HashSound
    <2> QED
      BY <2>3, <2>9
  <1>4. CASE ~InArray(k) /\ buckets[home].key # k
    <2>1. Set(k, v)
      BY <1>4, InlineIsInArray DEF InlineSet
    <2> QED
      BY <2>1, SetStores
  <1> QED
    BY <1>2, <1>3, <1>4

LEMMA EraseDrops ==
  ASSUME IInv, NEW k \in Keys, NEW listed, listed \in {order, Ordered}, Erase(k, listed)
  PROVE  Drops(k)
  <1> DEFINE i == FindEntry(buckets, capacity, k)
  <1>1. /\ i \in 0 .. capacity - 1 /\ i # NoSlot
        /\ buckets[i].key \in Keys <=> HashIn(k)
    BY FindIs
  <1>2. /\ HashOK(buckets, capacity) /\ capacity \in Nat \ {0} /\ count \in Nat
        /\ buckets \in [0 .. capacity - 1 -> Entry]
    BY DEF IInv, TypeOK, HashSound, HashOK
  <1>3. HashIn(k) => count > 0
    <2> SUFFICES ASSUME HashIn(k) PROVE count > 0
      OBVIOUS
    <2>1. Occ(buckets, capacity) # {} /\ IsFiniteSet(Occ(buckets, capacity))
      BY <1>2, OccFacts DEF HashIn, In
    <2>2. Held(buckets, capacity) # 0 /\ Held(buckets, capacity) \in Nat
      BY <2>1, FS_EmptySet, FS_CardinalityType DEF Held
    <2>3. Cardinality(Cells) \in Nat
      BY FS_CardinalityType DEF IInv, CountSound
    <2> QED
      BY <2>2, <2>3 DEF IInv, CountSound
  <1>4. CASE InArray(k) /\ array[k] # Absent
    BY <1>4 DEF Erase, Drops, DropsCell, InArray, Counted
  <1>5. CASE ~(InArray(k) /\ array[k] # Absent) /\ HashIn(k)
    <2>1. /\ buckets' = [buckets EXCEPT ![i] = Deleted] /\ Counted(-1)
          /\ UNCHANGED <<array, asize, capacity, nextIntKey>>
      BY <1>1, <1>2, <1>3, <1>5 DEF Erase, Occupied
    <2>2. IsStored(buckets', buckets, capacity, i, Deleted)
      <3>1. Deleted \in Entry
        BY DEF Deleted, Entry
      <3> QED
        BY <1>1, <1>2, <2>1, <3>1 DEF IsStored
    <2> HIDE DEF i
    <2>3. /\ HashOK(buckets', capacity)
          /\ Held(buckets, capacity) = Held(buckets', capacity) + 1
          /\ Entries(buckets', capacity) = {e \in Entries(buckets, capacity) : e.key # k}
      BY <1>2, <1>5, <2>2, RemoveOK DEF i, HashIn
    <2>4. DropsEntry(k)
      BY <1>2, <1>5, <2>1, <2>3 DEF DropsEntry, Counted
    <2> QED
      BY <2>4 DEF Drops
  <1>6. CASE ~(InArray(k) /\ array[k] # Absent) /\ ~HashIn(k)
    <2>1. order' = listed /\ UNCHANGED <<array, asize, buckets, capacity, count, nextIntKey>>
      BY <1>1, <1>6 DEF Erase, Occupied
    <2> QED
      BY <1>6, <2>1 DEF Drops, ListsKeys
  <1> QED
    BY <1>4, <1>5, <1>6

-----------------------------------------------------------------------------
(* Every step is one of these, and keeps the invariant. *)

StoreStep(k, v) == (Stores(k, v) \/ (PutsEntry(k, v) /\ HashIn(k))) /\ Enter(k, v)

DropStep(k) == Drops(k) /\ Leave(k)

ListStep == ListsKeys /\ UNCHANGED m

LEMMA PopDrops ==
  ASSUME IInv, Pop
  PROVE  ListStep \/ \E k \in Keys : DropStep(k)
  <1> DEFINE ints == {i \in DOMAIN Ordered : Ordered[i] \in Ints}
             last == Ordered[Largest(ints)]
  <1>1. IF ints = {} THEN EnsureOrder /\ UNCHANGED m ELSE Erase(last, Ordered) /\ Leave(last)
    BY DEF Pop
  <1>2. CASE ints = {}
    BY <1>1, <1>2 DEF EnsureOrder, ListStep, ListsKeys
  <1>3. CASE ints # {}
    <2>1. Ordered \in Seq(Keys)
      BY OrderedType DEF IInv
    <2>2. PICK n \in Nat : DOMAIN Ordered = 1 .. n
      BY <2>1
    <2>3. ints \in SUBSET (1 .. n)
      BY <2>2
    <2>4. Largest(ints) \in ints
      <3> HIDE DEF ints
      <3> QED
        BY <1>3, <2>3, LargestIs
    <2>5. last \in Keys
      BY <2>4 DEF Keys
    <2>6. Erase(last, Ordered) /\ Leave(last)
      BY <1>1, <1>3
    <2> HIDE DEF last
    <2> QED
      BY <2>5, <2>6, EraseDrops DEF DropStep
  <1> QED
    BY <1>2, <1>3

LEMMA StepIs ==
  ASSUME NarrowInts, IInv, [Next]_vars
  PROVE  \/ \E k \in Keys, v \in Vals : StoreStep(k, v)
         \/ \E k \in Keys : DropStep(k)
         \/ ListStep
  <1>1. ASSUME NEW k \in Keys, NEW v \in Vals, Set(k, v), Enter(k, v) PROVE StoreStep(k, v)
    BY <1>1, SetStores DEF StoreStep
  <1>2. ASSUME NEW k \in Keys, NEW v \in Vals, InlineSet(k, v), Enter(k, v) PROVE StoreStep(k, v)
    BY <1>2, InlineSetStores DEF StoreStep
  <1>3. ASSUME NEW v \in Vals, Push(v), Enter(nextIntKey, v) PROVE StoreStep(nextIntKey, v) /\ nextIntKey \in Keys
    <2>1. nextIntKey \in Keys /\ Set(nextIntKey, v)
      BY <1>3 DEF Push, Keys
    <2> QED
      BY <1>1, <1>3, <2>1
  <1>4. ASSUME NEW k \in Keys, Delete(k), Leave(k) PROVE DropStep(k)
    <2>1. Erase(k, order)
      BY <1>4 DEF Delete
    <2> QED
      BY <1>4, <2>1, EraseDrops DEF DropStep
  <1>5. CASE EnsureOrder /\ UNCHANGED m
    BY <1>5 DEF EnsureOrder, ListStep, ListsKeys
  <1>6. CASE UNCHANGED vars
    BY <1>6 DEF vars, table, ListStep, ListsKeys
  <1> QED
    BY <1>1, <1>2, <1>3, <1>4, <1>5, <1>6, PopDrops DEF Next


LEMMA StoresCellKeeps ==
  ASSUME IInv, NEW k \in Keys, NEW v \in Vals, StoresCell(k, v),
         m' \in [Names -> Vals \cup {Absent}]
  PROVE  IInv'
  <1>1. TypeOK'
    <2>1. array' \in [ArrayKeys -> Vals \cup {Absent}]
      BY DEF IInv, TypeOK, StoresCell
    <2>2. count' \in Nat
      BY DEF IInv, TypeOK, StoresCell
    <2>3. ASSUME NEW j \in ArrayKeys, j >= asize' PROVE array'[j] = Absent
      <3>1. j # k /\ j >= asize
        BY <2>3 DEF IInv, TypeOK, StoresCell, ArrayKeys
      <3> QED
        BY <3>1 DEF IInv, TypeOK, StoresCell
    <2> QED
      BY <2>1, <2>2, <2>3 DEF IInv, TypeOK, StoresCell
  <1>2. HashSound'
    BY DEF IInv, HashSound, StoresCell, Held
  <1>3. CountSound'
    <2>1. \A j \in ArrayKeys : array'[j] = IF j = k THEN v ELSE array[j]
      BY DEF IInv, TypeOK, StoresCell
    <2>2. Cells' = Cells \cup {k}
      BY <2>1 DEF Cells, StoresCell
    <2>3. k \in Cells <=> array[k] # Absent
      BY DEF Cells, StoresCell
    <2>4. Held(buckets', capacity') = Held(buckets, capacity) /\ Held(buckets, capacity) \in Nat
      BY OccFacts DEF StoresCell, IInv, TypeOK, Held
    <2>5. IsFiniteSet(Cells) /\ Cardinality(Cells) \in Nat
      BY FS_CardinalityType DEF IInv, CountSound
    <2>6. /\ IsFiniteSet(Cells')
          /\ Cardinality(Cells') = IF k \in Cells THEN Cardinality(Cells) ELSE Cardinality(Cells) + 1
      BY <2>2, <2>5, FS_AddElement
    <2> QED
      BY <2>3, <2>4, <2>5, <2>6 DEF IInv, CountSound, StoresCell
  <1> QED
    BY <1>1, <1>2, <1>3 DEF IInv

LEMMA PutsEntryKeeps ==
  ASSUME IInv, NEW k \in Keys, NEW v \in Vals, PutsEntry(k, v),
         m' \in [Names -> Vals \cup {Absent}]
  PROVE  IInv'
  <1>1. HashSound'
    BY DEF PutsEntry, IsPut, HashSound
  <1>2. TypeOK'
    <2>1. capacity' \in Nat /\ buckets' \in [0 .. capacity' - 1 -> Entry]
      BY <1>1 DEF HashSound, HashOK
    <2>2. count' \in Nat /\ nextIntKey' \in Nat
      BY DEF IInv, TypeOK, PutsEntry
    <2>3. order' = NoOrder \/ order' \in Seq(Keys)
      BY DEF IInv, TypeOK, PutsEntry
    <2> QED
      BY <2>1, <2>2, <2>3 DEF IInv, TypeOK, PutsEntry
  <1>3. CountSound'
    <2>1. Cells' = Cells
      BY DEF PutsEntry, Cells
    <2>2. Held(buckets, capacity) \in Nat /\ Cardinality(Cells) \in Nat
      BY OccFacts, FS_CardinalityType DEF Held, IInv, TypeOK, CountSound
    <2> QED
      BY <2>1, <2>2 DEF IInv, CountSound, PutsEntry, IsPut, HashIn
  <1> QED
    BY <1>1, <1>2, <1>3 DEF IInv

LEMMA DropsCellKeeps ==
  ASSUME IInv, NEW k \in Keys, DropsCell(k), m' \in [Names -> Vals \cup {Absent}]
  PROVE  IInv'
  <1>1. \A j \in ArrayKeys : array'[j] = IF j = k THEN Absent ELSE array[j]
    BY DEF IInv, TypeOK, DropsCell
  <1>2. HashSound'
    BY DEF IInv, HashSound, DropsCell, Held
  <1>3. CountSound' /\ count' \in Nat
    <2>1. Cells = Cells' \cup {k} /\ k \notin Cells'
      BY <1>1 DEF Cells, DropsCell
    <2>2. IsFiniteSet(Cells')
      <3>1. Cells' \in SUBSET Cells
        BY <2>1
      <3> QED
        BY <3>1, FS_Subset DEF IInv, CountSound
    <2>3. Cardinality(Cells) = Cardinality(Cells') + 1
      BY <2>1, <2>2, FS_AddElement
    <2>4. Cardinality(Cells') \in Nat
      BY <2>2, FS_CardinalityType
    <2>5. Held(buckets', capacity') = Held(buckets, capacity) /\ Held(buckets, capacity) \in Nat
      BY OccFacts DEF DropsCell, IInv, TypeOK, Held
    <2> QED
      BY <2>2, <2>3, <2>4, <2>5 DEF IInv, CountSound, DropsCell
  <1>4. TypeOK'
    <2>1. array' \in [ArrayKeys -> Vals \cup {Absent}]
      BY DEF IInv, TypeOK, DropsCell
    <2> QED
      BY <1>1, <1>3, <2>1 DEF IInv, TypeOK, DropsCell
  <1> QED
    BY <1>2, <1>3, <1>4 DEF IInv

LEMMA DropsEntryKeeps ==
  ASSUME IInv, NEW k \in Keys, DropsEntry(k), m' \in [Names -> Vals \cup {Absent}]
  PROVE  IInv'
  <1>1. Held(buckets', capacity) \in Nat /\ Cardinality(Cells) \in Nat /\ Cells' = Cells
    BY OccFacts, FS_CardinalityType DEF Held, IInv, TypeOK, CountSound, DropsEntry, Cells
  <1>2. HashSound'
    BY <1>1 DEF IInv, TypeOK, HashSound, DropsEntry
  <1>3. CountSound' /\ count' \in Nat
    BY <1>1 DEF IInv, TypeOK, CountSound, DropsEntry
  <1>4. TypeOK'
    BY <1>2, <1>3 DEF IInv, TypeOK, DropsEntry, HashSound, HashOK
  <1> QED
    BY <1>2, <1>3, <1>4 DEF IInv

LEMMA ListsKeysKeeps ==
  ASSUME IInv, ListsKeys, m' \in [Names -> Vals \cup {Absent}]
  PROVE  IInv'
  <1>1. order' = NoOrder \/ order' \in Seq(Keys)
    BY OrderedType DEF IInv, TypeOK, ListsKeys
  <1>2. TypeOK'
    BY <1>1 DEF IInv, TypeOK, ListsKeys
  <1> QED
    BY <1>2 DEF IInv, ListsKeys, HashSound, CountSound, Cells, Held

LEMMA IInvInit == Init => IInv
  <1> SUFFICES ASSUME Init PROVE IInv
    OBVIOUS
  <1>1. capacity = 4 /\ buckets = [s \in 0 .. capacity - 1 |-> Unused]
    BY DEF Init
  <1>2. HashOK(buckets, capacity) /\ Occ(buckets, capacity) = {}
    <2>1. PICK c \in Nat \ {0} : c = capacity
      BY <1>1
    <2> QED
      BY <1>1, <2>1, EmptyHash
  <1>3. Held(buckets, capacity) = 0
    BY <1>2, FS_EmptySet DEF Held
  <1>4. Cells = {}
    BY DEF Init, Cells
  <1>5. TypeOK
    BY <1>1, <1>2 DEF Init, TypeOK, HashOK
  <1>6. CountSound
    BY <1>3, <1>4, FS_EmptySet DEF Init, CountSound
  <1> QED
    BY <1>1, <1>2, <1>3, <1>5, <1>6 DEF IInv, HashSound

LEMMA IInvStep == NarrowInts /\ IInv /\ [Next]_vars => IInv'
  <1> SUFFICES ASSUME NarrowInts, IInv, [Next]_vars PROVE IInv'
    OBVIOUS
  <1>0. m \in [Names -> Vals \cup {Absent}]
    BY DEF IInv, TypeOK
  <1>1. ASSUME NEW k \in Keys, NEW v \in Vals, StoreStep(k, v) PROVE IInv'
    <2>1. m' \in [Names -> Vals \cup {Absent}]
      BY <1>0, <1>1 DEF StoreStep, Enter
    <2> QED
      BY <1>1, <2>1, StoresCellKeeps, PutsEntryKeeps DEF StoreStep, Stores
  <1>2. ASSUME NEW k \in Keys, DropStep(k) PROVE IInv'
    <2>1. m' \in [Names -> Vals \cup {Absent}]
      BY <1>0, <1>2 DEF DropStep, Leave
    <2> QED
      BY <1>2, <2>1, DropsCellKeeps, DropsEntryKeeps, ListsKeysKeeps DEF DropStep, Drops
  <1>3. CASE ListStep
    BY <1>0, <1>3, ListsKeysKeeps DEF ListStep
  <1> QED
    BY <1>1, <1>2, <1>3, StepIs

(* The variables of a table stay in their ranges, and no cell past the size *)
(* of the array is in use, for any hash and sizes and any integer keys that *)
(* the emitted code compares whole.                                         *)
THEOREM TypeCorrect == ASSUME NarrowInts PROVE Spec => []TypeOK
  <1>1. IInv => TypeOK
    BY DEF IInv
  <1> QED
    BY <1>1, IInvInit, IInvStep, PTL DEF Spec

(* tableFindEntry always has a slot to answer with, so that set may use the *)
(* answer without a test: the free slot rests on HashSound and CountSound.  *)
THEOREM AlwaysRoom == ASSUME NarrowInts PROVE Spec => []RoomForNewKey
  <1>1. IInv => RoomForNewKey
    BY FindIs DEF RoomForNewKey
  <1> QED
    BY <1>1, IInvInit, IInvStep, PTL DEF Spec

-----------------------------------------------------------------------------
(* The array grows to less than four times ArrayLimit, and may then reach   *)
(* over keys that are in the hash part: get would not find them.  What      *)
(* follows is about tables without integer keys in that gap.                *)

GapInInts == \A k \in ArrayKeys : k < ArrayLimit \/ k >= 4 * ArrayLimit

HashedKeys == {k \in Keys : k \notin ArrayKeys \/ k >= 4 * ArrayLimit}

\* No key is looked for in the part it is not stored in.
KeysOK == asize <= 4 * ArrayLimit /\ \A k \in Keys : HashIn(k) => k \in HashedKeys

LiveKeys == Cells \cup {k \in Keys : HashIn(k)}

ListOK == order # NoOrder => Lists(order, LiveKeys)

LInv == IInv /\ KeysOK /\ ListOK

LEMMA PutKeys ==
  ASSUME NEW k \in Keys, NEW v \in Vals, PutsEntry(k, v)
  PROVE  \A j : HashIn(j)' <=> HashIn(j) \/ j = k
  <1>1. NewEntry(k, v).key = k
    BY DEF NewEntry
  <1> QED
    BY <1>1, InEntries DEF PutsEntry, IsPut, HashIn

LEMMA DropKeys ==
  ASSUME NEW k \in Keys, DropsEntry(k)
  PROVE  \A j : HashIn(j)' <=> HashIn(j) /\ j # k
  <1>1. capacity' = capacity
    BY DEF DropsEntry
  <1> QED
    BY <1>1, InEntries DEF DropsEntry, HashIn

LEMMA SameKeys ==
  ASSUME UNCHANGED <<buckets, capacity>>
  PROVE  \A j : HashIn(j)' <=> HashIn(j)
  BY DEF HashIn, In, Occ

LEMMA CellOrEntry ==
  ASSUME IInv, KeysOK, GapInInts, NEW k \in Keys
  PROVE  /\ k \in Cells => InArray(k) /\ ~HashIn(k)
         /\ HashIn(k) => ~InArray(k)
         /\ k \in ArrayKeys \ Cells => array[k] = Absent
         /\ InArray(k) => k < ArrayLimit
         /\ k \in HashedKeys <=> (k \in ArrayKeys => k >= ArrayLimit)
         /\ k \in HashedKeys => ~InArray(k)
  <1>1. asize \in Nat /\ asize <= 4 * ArrayLimit /\ ArrayLimit \in Nat
    BY DEF IInv, TypeOK, KeysOK
  <1>2. k \in ArrayKeys => k \in Nat
    BY DEF ArrayKeys
  <1>3. k \in Cells => k \in ArrayKeys /\ k < asize
    BY <1>1, <1>2 DEF Cells, IInv, TypeOK
  <1>4. k \in HashedKeys => ~InArray(k)
    BY <1>1, <1>2 DEF HashedKeys, InArray
  <1>5. HashIn(k) => k \in HashedKeys
    BY DEF KeysOK
  <1>6. k \in Cells => InArray(k)
    BY <1>3 DEF InArray
  <1>7. InArray(k) => k < ArrayLimit
    BY <1>1, <1>2 DEF InArray, GapInInts
  <1>8. k \in HashedKeys <=> (k \in ArrayKeys => k >= ArrayLimit)
    BY <1>1, <1>2 DEF HashedKeys, GapInInts
  <1> QED
    BY <1>4, <1>5, <1>6, <1>7, <1>8 DEF Cells

LEMMA ListBuilt ==
  ASSUME IInv, KeysOK, ListOK, GapInInts, ListsKeys
  PROVE  ListOK'
  <1>1. LiveKeys' = LiveKeys
    BY SameKeys DEF ListsKeys, LiveKeys, Cells
  <1>2. order = NoOrder => Lists(Ordered, LiveKeys)
    <2>1. \A k \in Cells : ~In(buckets, capacity, k)
      BY CellOrEntry DEF Cells, ArrayKeys, Keys, HashIn
    <2> QED
      BY <2>1, OrderedLists DEF IInv, HashSound, LiveKeys, HashIn
  <1>3. order # NoOrder => Ordered = order
    BY DEF Ordered
  <1> QED
    BY <1>1, <1>2, <1>3 DEF ListsKeys, ListOK

\* A list that is kept still lists when there are more keys.
LEMMA ListKept ==
  ASSUME ListOK, order' \in {order, NoOrder}, LiveKeys \subseteq LiveKeys'
  PROVE  ListOK'
  BY DEF ListOK, Lists

LEMMA LInvStores ==
  ASSUME LInv, GapInInts, NEW k \in Keys, NEW v \in Vals,
         Stores(k, v) \/ (PutsEntry(k, v) /\ HashIn(k))
  PROVE  KeysOK' /\ ListOK'
  <1>1. CASE StoresCell(k, v)
    <2>1. \A j : HashIn(j)' <=> HashIn(j)
      BY <1>1, SameKeys DEF StoresCell
    <2>2. Cells \subseteq Cells'
      BY <1>1 DEF Cells, StoresCell, LInv, IInv, TypeOK
    <2>3. KeysOK'
      BY <1>1, <2>1 DEF KeysOK, LInv, StoresCell
    <2>4. LiveKeys \subseteq LiveKeys'
      BY <2>1, <2>2 DEF LiveKeys
    <2> QED
      BY <1>1, <2>3, <2>4, ListKept DEF LInv, StoresCell
  <1>2. CASE PutsEntry(k, v) /\ (k \in HashedKeys)
    <2>1. \A j : HashIn(j)' <=> HashIn(j) \/ j = k
      BY <1>2, PutKeys
    <2>2. KeysOK'
      BY <1>2, <2>1 DEF KeysOK, LInv, PutsEntry
    <2>3. LiveKeys \subseteq LiveKeys'
      BY <1>2, <2>1 DEF LiveKeys, Cells, PutsEntry
    <2> QED
      BY <1>2, <2>2, <2>3, ListKept DEF LInv, PutsEntry
  <1>3. StoresCell(k, v) \/ (PutsEntry(k, v) /\ k \in HashedKeys)
    <2>1. HashIn(k) => k \in HashedKeys
      BY DEF LInv, KeysOK
    <2>2. (k \notin ArrayKeys \/ k >= ArrayLimit) => k \in HashedKeys
      BY CellOrEntry DEF LInv
    <2> QED
      BY <2>1, <2>2 DEF Stores
  <1> QED
    BY <1>1, <1>2, <1>3

LEMMA LInvDrops ==
  ASSUME LInv, GapInInts, NEW k \in Keys, Drops(k)
  PROVE  KeysOK' /\ ListOK'
  <1>1. CASE DropsCell(k)
    <2>1. \A j : HashIn(j)' <=> HashIn(j)
      BY <1>1, SameKeys DEF DropsCell
    <2> QED
      BY <1>1, <2>1 DEF KeysOK, ListOK, LInv, DropsCell
  <1>2. CASE DropsEntry(k)
    <2>1. \A j : HashIn(j)' => HashIn(j)
      BY <1>2, DropKeys
    <2> QED
      BY <1>2, <2>1 DEF KeysOK, ListOK, LInv, DropsEntry
  <1>3. CASE ListsKeys
    <2>1. \A j : HashIn(j)' <=> HashIn(j)
      BY <1>3, SameKeys DEF ListsKeys
    <2> QED
      BY <1>3, <2>1, ListBuilt DEF LInv, KeysOK, ListsKeys
  <1> QED
    BY <1>1, <1>2, <1>3 DEF Drops

LEMMA LInvInit == Init => LInv
  <1> SUFFICES ASSUME Init PROVE LInv
    OBVIOUS
  <1>1. \A k \in Keys : ~HashIn(k)
    <2>1. \A s \in 0 .. capacity - 1 : buckets[s].key = Empty
      BY DEF Init, Unused
    <2> QED
      BY <2>1 DEF HashIn, In, Occ
  <1> QED
    BY <1>1, IInvInit DEF Init, LInv, KeysOK, ListOK

LEMMA LInvStep == NarrowInts /\ GapInInts /\ LInv /\ [Next]_vars => LInv'
  <1> SUFFICES ASSUME NarrowInts, GapInInts, LInv, [Next]_vars PROVE KeysOK' /\ ListOK'
    BY IInvStep DEF LInv
  <1>1. ASSUME NEW k \in Keys, NEW v \in Vals, StoreStep(k, v) PROVE KeysOK' /\ ListOK'
    BY <1>1, LInvStores DEF StoreStep
  <1>2. ASSUME NEW k \in Keys, DropStep(k) PROVE KeysOK' /\ ListOK'
    BY <1>2, LInvDrops DEF DropStep
  <1>3. CASE ListStep
    <2>1. \A j : HashIn(j)' <=> HashIn(j)
      BY <1>3, SameKeys DEF ListStep, ListsKeys
    <2> QED
      BY <1>3, <2>1, ListBuilt DEF LInv, KeysOK, ListStep, ListsKeys
  <1> QED
    BY <1>1, <1>2, <1>3, StepIs DEF LInv

LEMMA GetIs ==
  ASSUME IInv, KeysOK, GapInInts, NEW k \in Keys
  PROVE  /\ k \in Cells => Get(k) = array[k]
         /\ \A e \in Entries(buckets, capacity) : e.key = k => Get(k) = e.val
         /\ k \notin LiveKeys => Get(k) = Absent
  <1> DEFINE i == FindEntry(buckets, capacity, k)
  <1>1. i # NoSlot /\ (buckets[i].key \in Keys <=> HashIn(k))
    BY FindIs
  <1>2. k \in Cells => Get(k) = array[k]
    BY CellOrEntry DEF Get
  <1>3. ASSUME NEW e \in Entries(buckets, capacity), e.key = k PROVE Get(k) = e.val
    <2>1. PICK s \in Occ(buckets, capacity) : e = buckets[s]
      BY DEF Entries
    <2>2. i = s /\ HashIn(k)
      BY <1>3, <2>1, FindHeld DEF IInv, HashSound, HashIn, In
    <2>3. count > 0 /\ capacity > 0
      <3>1. Occ(buckets, capacity) # {} /\ IsFiniteSet(Occ(buckets, capacity))
        BY <2>1, OccFacts DEF IInv, TypeOK
      <3>2. Held(buckets, capacity) # 0 /\ Held(buckets, capacity) \in Nat
        BY <3>1, FS_EmptySet, FS_CardinalityType DEF Held
      <3>3. Cardinality(Cells) \in Nat /\ capacity \in Nat
        BY FS_CardinalityType DEF IInv, CountSound, TypeOK
      <3> QED
        BY <3>2, <3>3 DEF IInv, CountSound, HashSound
    <2>4. ~InArray(k)
      BY <2>2, CellOrEntry
    <2> QED
      BY <1>1, <2>1, <2>2, <2>3, <2>4 DEF Get, HashGet, Occupied
  <1>4. ASSUME k \notin LiveKeys PROVE Get(k) = Absent
    <2>1. ~HashIn(k) /\ (InArray(k) => array[k] = Absent)
      BY <1>4 DEF LiveKeys, Cells, InArray
    <2> QED
      BY <1>1, <2>1 DEF Get, HashGet, Occupied
  <1> QED
    BY <1>2, <1>3, <1>4

(* In a table without integer keys in the gap or wider than 32 bits, the    *)
(* list ensureOrder built never names an entry that is gone, nor one twice, *)
(* whatever has been stored inline since.                                   *)
THEOREM OrderIsLive == ASSUME NarrowInts, GapInInts PROVE Spec => []ListedIsLive
  <1>1. ASSUME LInv PROVE ListedIsLive
    <2> SUFFICES ASSUME order # NoOrder
                 PROVE  /\ \A i \in DOMAIN order : Has(order[i])
                        /\ \A i, j \in DOMAIN order : order[i] = order[j] => i = j
      BY DEF ListedIsLive
    <2>1. Lists(order, LiveKeys)
      BY <1>1 DEF LInv, ListOK
    <2>2. ASSUME NEW k \in LiveKeys PROVE Has(k)
      <3>1. CASE k \in Cells
        <4>1. k \in Keys
          BY <3>1 DEF Cells, ArrayKeys, Keys
        <4> QED
          BY <1>1, <3>1, <4>1, GetIs DEF Has, LInv, Cells
      <3>2. CASE k \in Keys /\ HashIn(k)
        <4>1. PICK e \in Entries(buckets, capacity) : e.key = k
          BY <3>2, InEntries DEF HashIn
        <4>2. e.val \in Vals
          BY <1>1 DEF LInv, IInv, HashSound, HashOK, Entries
        <4> QED
          BY <1>1, <3>2, <4>1, <4>2, GetIs DEF Has, LInv
      <3> QED
        BY <3>1, <3>2 DEF LiveKeys
    <2> QED
      BY <2>1, <2>2 DEF Lists
  <1> QED
    BY <1>1, LInvInit, LInvStep, PTL DEF Spec

-----------------------------------------------------------------------------
(* Equal strings are one object: the table is the map the script means.    *)

Interned == \A s, t \in Strings : Content[s] = Content[t] => s = t

\* The map has a cell's value at its key, an entry's at its, and nothing at
\* any other key.
MapOK ==
  /\ \A k \in ArrayKeys : k < ArrayLimit => m[Name(k)] = array[k]
  /\ \A e \in Entries(buckets, capacity) : m[Name(e.key)] = e.val
  /\ \A k \in HashedKeys : m[Name(k)] # Absent => HashIn(k)

MInv == LInv /\ MapOK

LEMMA NameOnce ==
  ASSUME Interned, NEW j \in Keys, NEW k \in Keys, Name(j) = Name(k)
  PROVE  j = k
  <1>1. \A s \in Strings : Content[s] \in Strings
    OBVIOUS
  <1>2. \A x \in Keys : x \in Strings \/ x \in Ints
    BY DEF Keys
  <1>3. \A x \in Ints : x \notin Strings
    OBVIOUS
  <1> QED
    BY <1>1, <1>2, <1>3 DEF Name, Interned

LEMMA EntryKeys ==
  ASSUME IInv, KeysOK, NEW e \in Entries(buckets, capacity)
  PROVE  e.key \in HashedKeys /\ e.key \in Keys /\ HashIn(e.key) /\ e.val \in Vals
  <1>1. PICK s \in Occ(buckets, capacity) : e = buckets[s]
    BY DEF Entries
  <1>2. e.key \in Keys /\ HashIn(e.key)
    BY <1>1 DEF HashIn, In, Occ
  <1> QED
    BY <1>1, <1>2 DEF KeysOK, IInv, HashSound, HashOK

LEMMA Entered ==
  ASSUME Interned, m \in [Names -> Vals \cup {Absent}], NEW k \in Keys, NEW w,
         m' = [m EXCEPT ![Name(k)] = w]
  PROVE  m'[Name(k)] = w /\ \A j \in Keys : j # k => m'[Name(j)] = m[Name(j)]
  <1>1. \A j \in Keys : Name(j) \in Names
    BY DEF Names
  <1>2. \A j \in Keys : j # k => Name(j) # Name(k)
    BY NameOnce
  <1> QED
    BY <1>1, <1>2

LEMMA MapStoresCell ==
  ASSUME MInv, LInv', GapInInts, Interned, NEW k \in Keys, NEW v \in Vals, StoresCell(k, v), Enter(k, v)
  PROVE  MapOK'
  <1>1. /\ m'[Name(k)] = v /\ \A j \in Keys : j # k => m'[Name(j)] = m[Name(j)]
    BY Entered DEF MInv, LInv, IInv, TypeOK, Enter
  <1>2. \A j \in ArrayKeys : j \in Keys /\ array'[j] = IF j = k THEN v ELSE array[j]
    BY DEF MInv, LInv, IInv, TypeOK, StoresCell, ArrayKeys, Keys
  <1>3. k \notin HashedKeys
    <2>1. asize' \in Nat /\ k < asize' /\ asize' <= 4 * ArrayLimit /\ k \in ArrayKeys
      BY DEF StoresCell, LInv, KeysOK
    <2>2. k \in Nat /\ ArrayLimit \in Nat
      BY <2>1 DEF ArrayKeys
    <2> QED
      BY <2>1, <2>2 DEF HashedKeys
  <1>4. \A e \in Entries(buckets, capacity) : e.key \in Keys /\ e.key # k
    BY <1>3, EntryKeys DEF MInv, LInv
  <1>5. buckets' = buckets /\ capacity' = capacity /\ \A j : HashIn(j)' <=> HashIn(j)
    BY SameKeys DEF StoresCell
  <1>6. \A j \in HashedKeys : j \in Keys /\ j # k
    BY <1>3 DEF HashedKeys
  <1>7. \A j \in ArrayKeys : j < ArrayLimit => m'[Name(j)] = array'[j]
    BY <1>1, <1>2 DEF MInv, MapOK
  <1>8. \A e \in Entries(buckets', capacity') : m'[Name(e.key)] = e.val
    BY <1>1, <1>4, <1>5 DEF MInv, MapOK
  <1>9. \A j \in HashedKeys : m'[Name(j)] # Absent => HashIn(j)'
    BY <1>1, <1>5, <1>6 DEF MInv, MapOK
  <1> QED
    BY <1>7, <1>8, <1>9 DEF MapOK

LEMMA MapPutsEntry ==
  ASSUME MInv, LInv', GapInInts, Interned, NEW k \in Keys, NEW v \in Vals, PutsEntry(k, v), Enter(k, v)
  PROVE  MapOK'
  <1>1. /\ m'[Name(k)] = v /\ \A j \in Keys : j # k => m'[Name(j)] = m[Name(j)]
    BY Entered DEF MInv, LInv, IInv, TypeOK, Enter
  <1>2. \A j : HashIn(j)' <=> HashIn(j) \/ j = k
    BY PutKeys
  <1>3. k \in HashedKeys
    BY <1>2 DEF LInv, KeysOK
  <1>4. \A j \in ArrayKeys : j < ArrayLimit => j \in Keys /\ j # k
    BY <1>3, CellOrEntry DEF MInv, LInv, ArrayKeys, Keys
  <1>5. \A j \in ArrayKeys : j < ArrayLimit => m'[Name(j)] = array'[j]
    BY <1>1, <1>4 DEF MInv, MapOK, PutsEntry
  <1>6. \A e \in Entries(buckets', capacity') : m'[Name(e.key)] = e.val
    <2>1. Entries(buckets', capacity') =
            {e \in Entries(buckets, capacity) : e.key # k} \cup {NewEntry(k, v)}
      BY DEF PutsEntry, IsPut
    <2>2. NewEntry(k, v).key = k /\ NewEntry(k, v).val = v
      BY DEF NewEntry
    <2>3. \A e \in Entries(buckets, capacity) : e.key \in Keys
      BY EntryKeys DEF MInv, LInv
    <2> QED
      BY <1>1, <2>1, <2>2, <2>3 DEF MInv, MapOK
  <1>7. \A j \in HashedKeys : m'[Name(j)] # Absent => HashIn(j)'
    BY <1>1, <1>2 DEF MInv, MapOK, HashedKeys
  <1> QED
    BY <1>5, <1>6, <1>7 DEF MapOK

LEMMA MapDropsCell ==
  ASSUME MInv, GapInInts, Interned, NEW k \in Keys, DropsCell(k), Leave(k)
  PROVE  MapOK'
  <1>1. /\ m'[Name(k)] = Absent /\ \A j \in Keys : j # k => m'[Name(j)] = m[Name(j)]
    BY Entered DEF MInv, LInv, IInv, TypeOK, Leave
  <1>2. \A j \in ArrayKeys : j \in Keys /\ array'[j] = IF j = k THEN Absent ELSE array[j]
    BY DEF MInv, LInv, IInv, TypeOK, DropsCell, ArrayKeys, Keys
  <1>3. k \notin HashedKeys
    BY CellOrEntry DEF MInv, LInv, DropsCell, Cells
  <1>4. \A e \in Entries(buckets, capacity) : e.key \in Keys /\ e.key # k
    BY <1>3, EntryKeys DEF MInv, LInv
  <1>5. buckets' = buckets /\ capacity' = capacity /\ \A j : HashIn(j)' <=> HashIn(j)
    BY SameKeys DEF DropsCell
  <1>6. \A j \in HashedKeys : j \in Keys /\ j # k
    BY <1>3 DEF HashedKeys
  <1>7. \A j \in ArrayKeys : j < ArrayLimit => m'[Name(j)] = array'[j]
    BY <1>1, <1>2 DEF MInv, MapOK
  <1>8. \A e \in Entries(buckets', capacity') : m'[Name(e.key)] = e.val
    BY <1>1, <1>4, <1>5 DEF MInv, MapOK
  <1>9. \A j \in HashedKeys : m'[Name(j)] # Absent => HashIn(j)'
    BY <1>1, <1>5, <1>6 DEF MInv, MapOK
  <1> QED
    BY <1>7, <1>8, <1>9 DEF MapOK

LEMMA MapDropsEntry ==
  ASSUME MInv, GapInInts, Interned, NEW k \in Keys, DropsEntry(k), Leave(k)
  PROVE  MapOK'
  <1>1. /\ m'[Name(k)] = Absent /\ \A j \in Keys : j # k => m'[Name(j)] = m[Name(j)]
    BY Entered DEF MInv, LInv, IInv, TypeOK, Leave
  <1>2. \A j : HashIn(j)' <=> HashIn(j) /\ j # k
    BY DropKeys
  <1>3. k \in HashedKeys
    BY DEF MInv, LInv, KeysOK, DropsEntry
  <1>4. \A j \in ArrayKeys : j < ArrayLimit => j \in Keys /\ j # k
    BY <1>3, CellOrEntry DEF MInv, LInv, ArrayKeys, Keys
  <1>5. \A j \in ArrayKeys : j < ArrayLimit => m'[Name(j)] = array'[j]
    BY <1>1, <1>4 DEF MInv, MapOK, DropsEntry
  <1>6. \A e \in Entries(buckets', capacity') : m'[Name(e.key)] = e.val
    <2>1. \A e \in Entries(buckets, capacity) : e.key \in Keys
      BY EntryKeys DEF MInv, LInv
    <2> QED
      BY <1>1, <2>1 DEF MInv, MapOK, DropsEntry
  <1>7. \A j \in HashedKeys : m'[Name(j)] # Absent => HashIn(j)'
    BY <1>1, <1>2 DEF MInv, MapOK, HashedKeys
  <1> QED
    BY <1>5, <1>6, <1>7 DEF MapOK

\* Nothing is there to drop, and the map has nothing either.
LEMMA MapNoDrop ==
  ASSUME MInv, GapInInts, Interned, NEW k \in Keys, ListsKeys, ~HashIn(k),
         ~(InArray(k) /\ array[k] # Absent), Leave(k)
  PROVE  MapOK'
  <1>1. /\ m'[Name(k)] = Absent /\ \A j \in Keys : j # k => m'[Name(j)] = m[Name(j)]
    BY Entered DEF MInv, LInv, IInv, TypeOK, Leave
  <1>2. m[Name(k)] = Absent
    <2>1. CASE k \in HashedKeys
      BY <2>1 DEF MInv, MapOK
    <2>2. CASE k \notin HashedKeys
      <3>1. k \in ArrayKeys /\ k < ArrayLimit
        <4>1. k \in ArrayKeys /\ ~(k >= ArrayLimit)
          BY <2>2, CellOrEntry DEF MInv, LInv
        <4>2. k \in Int /\ ArrayLimit \in Nat
          BY <4>1 DEF ArrayKeys
        <4> QED
          BY <4>1, <4>2
      <3>2. k \notin Cells
        BY CellOrEntry DEF MInv, LInv, Cells
      <3>3. array[k] = Absent
        BY <3>1, <3>2 DEF Cells
      <3> QED
        BY <3>1, <3>3 DEF MInv, MapOK
    <2> QED
      BY <2>1, <2>2
  <1>3. \A j \in Keys : m'[Name(j)] = m[Name(j)]
    BY <1>1, <1>2
  <1>4. \A j \in ArrayKeys : j \in Keys
    BY DEF ArrayKeys, Keys
  <1>5. \A e \in Entries(buckets, capacity) : e.key \in Keys
    BY EntryKeys DEF MInv, LInv
  <1>6. /\ array' = array /\ buckets' = buckets /\ capacity' = capacity
        /\ \A j : HashIn(j)' <=> HashIn(j)
    BY SameKeys DEF ListsKeys
  <1> QED
    BY <1>3, <1>4, <1>5, <1>6 DEF MInv, MapOK, HashedKeys

LEMMA MInvInit == Init => MInv
  <1> SUFFICES ASSUME Init PROVE MapOK
    BY LInvInit DEF MInv
  <1>1. \A k \in Keys : m[Name(k)] = Absent
    BY DEF Init, Names
  <1>2. \A k \in ArrayKeys : k \in Keys /\ array[k] = Absent
    BY DEF Init, ArrayKeys, Keys
  <1>3. Entries(buckets, capacity) = {}
    <2>1. \A s \in 0 .. capacity - 1 : buckets[s].key = Empty
      BY DEF Init, Unused
    <2> QED
      BY <2>1 DEF Entries, Occ
  <1> QED
    BY <1>1, <1>2, <1>3 DEF MapOK, HashedKeys

LEMMA MInvStep == NarrowInts /\ GapInInts /\ Interned /\ MInv /\ [Next]_vars => MInv'
  <1> SUFFICES ASSUME NarrowInts, GapInInts, Interned, MInv, [Next]_vars PROVE MInv'
    OBVIOUS
  <1>0. LInv'
    BY LInvStep DEF MInv
  <1>1. ASSUME NEW k \in Keys, NEW v \in Vals, StoreStep(k, v) PROVE MapOK'
    BY <1>0, <1>1, MapStoresCell, MapPutsEntry DEF StoreStep, Stores
  <1>2. ASSUME NEW k \in Keys, DropStep(k) PROVE MapOK'
    BY <1>2, MapDropsCell, MapDropsEntry, MapNoDrop DEF DropStep, Drops
  <1>3. ASSUME ListStep PROVE MapOK'
    <2>1. array' = array /\ buckets' = buckets /\ capacity' = capacity /\ m' = m
      BY <1>3 DEF ListStep, ListsKeys
    <2>2. \A j : HashIn(j)' <=> HashIn(j)
      BY <2>1, SameKeys
    <2> QED
      BY <2>1, <2>2 DEF MInv, MapOK
  <1> QED
    BY <1>0, <1>1, <1>2, <1>3, StepIs DEF MInv, LInv

LEMMA GetMeans ==
  ASSUME MInv, GapInInts, NEW k \in Keys
  PROVE  Get(k) = m[Name(k)]
  <1>1. CASE k \in Cells
    <2>1. k \in ArrayKeys /\ k < ArrayLimit
      BY <1>1, CellOrEntry DEF MInv, LInv, Cells
    <2> QED
      BY <1>1, <2>1, GetIs DEF MInv, LInv, MapOK
  <1>2. CASE HashIn(k)
    <2>1. PICK e \in Entries(buckets, capacity) : e.key = k
      BY <1>2, InEntries DEF HashIn
    <2> QED
      BY <2>1, GetIs DEF MInv, LInv, MapOK
  <1>3. CASE k \notin Cells /\ ~HashIn(k)
    <2>1. Get(k) = Absent
      BY <1>3, GetIs DEF MInv, LInv, LiveKeys
    <2>2. CASE k \in HashedKeys
      BY <1>3, <2>1, <2>2 DEF MInv, MapOK
    <2>3. CASE k \notin HashedKeys
      <3>1. k \in ArrayKeys /\ ~(k >= ArrayLimit) /\ array[k] = Absent
        BY <1>3, <2>3, CellOrEntry DEF MInv, LInv
      <3>2. k \in Int /\ ArrayLimit \in Nat
        BY <3>1 DEF ArrayKeys
      <3> QED
        BY <2>1, <3>1, <3>2 DEF MInv, MapOK
    <2> QED
      BY <2>2, <2>3
  <1> QED
    BY <1>1, <1>2, <1>3

(* get and has answer what the last set and delete of the key said, when    *)
(* equal strings are one object and no integer key is in the gap or wide.   *)
THEOREM GetMeansMap == ASSUME NarrowInts, GapInInts, Interned PROVE Spec => []GetIsMap
  <1>1. MInv => GetIsMap
    BY GetMeans DEF GetIsMap
  <1> QED
    BY <1>1, MInvInit, MInvStep, PTL DEF Spec

(* So does the code emitted for (t:get k), of integer keys below 2^32: it   *)
(* has one answer, since every cell it reads is the array's; a first slot   *)
(* with the key's bits holds the key's entry, and a cell in use is never    *)
(* out of date.  Of a wider key the emitted code may read past the array.   *)
THEOREM InlineGetMeansMap == ASSUME NarrowInts, GapInInts, Interned PROVE Spec => []InlineGetIsMap
  <1>1. ASSUME MInv, NEW k \in Keys PROVE InlineGet(k) = {m[Name(k)]}
    <2> DEFINE home == Home[k] % capacity
               cell == IF InArray(k) THEN array[k] ELSE Absent
               answer == IF cell # Absent THEN cell
                         ELSE IF buckets[home].key = k THEN buckets[home].val ELSE Get(k)
    <2>1. answer = m[Name(k)]
      <3>1. CASE InArray(k) /\ array[k] # Absent
        BY <1>1, <3>1, GetMeans DEF Get
      <3>2. CASE ~(InArray(k) /\ array[k] # Absent) /\ buckets[home].key = k
        <4>1. capacity \in Nat \ {0} /\ Home[k] \in Nat
          BY <1>1 DEF MInv, LInv, IInv, HashSound, HashOK
        <4>2. home \in 0 .. capacity - 1
          BY <4>1
        <4> HIDE DEF home
        <4>3. buckets[home] \in Entries(buckets, capacity)
          BY <3>2, <4>2 DEF Entries, Occ
        <4> QED
          BY <1>1, <3>2, <4>3 DEF MInv, MapOK
      <3>3. CASE ~(InArray(k) /\ array[k] # Absent) /\ buckets[home].key # k
        BY <1>1, <3>3, GetMeans
      <3> QED
        BY <3>1, <3>2, <3>3
    <2>2. InlineGet(k) = {answer}
      BY InlineIsInArray DEF InlineGet
    <2> QED
      BY <2>1, <2>2
  <1>2. MInv => InlineGetIsMap
    BY <1>1 DEF InlineGetIsMap
  <1> QED
    BY <1>2, MInvInit, MInvStep, PTL DEF Spec

IsNaming(f, S, T) ==
  /\ f \in [S -> T] /\ \A z \in T : \E x \in S : f[x] = z
  /\ \A x, y \in S : f[x] = f[y] => x = y

\* A set and the names of its members are as many.
LEMMA AsMany ==
  ASSUME NEW S, NEW T, IsFiniteSet(S), NEW f, IsNaming(f, S, T)
  PROVE  IsFiniteSet(T) /\ Cardinality(T) = Cardinality(S)
  <1>1. f \in Injection(S, T)
    BY DEF IsNaming, Injection, IsInjective
  <1>2. f \in Surjection(S, T)
    BY DEF IsNaming, Surjection
  <1>3. ExistsBijection(S, T)
    BY <1>1, <1>2 DEF ExistsBijection, Bijection
  <1> QED
    BY <1>3, FS_Bijection

(* length() is the number of entries a script means, whichever path made    *)
(* and dropped them.                                                        *)
THEOREM CountMeansLength == ASSUME NarrowInts, GapInInts, Interned PROVE Spec => []CountIsLength
  <1>1. ASSUME MInv PROVE CountIsLength
    <2> DEFINE L == {c \in Names : m[c] # Absent}
               A == {Name(k) : k \in Cells}
               B == {Name(buckets[s].key) : s \in Occ(buckets, capacity)}
    <2>1. \A k \in Cells : k \in Keys /\ k \in ArrayKeys /\ k < ArrayLimit /\ ~HashIn(k)
      BY <1>1, CellOrEntry DEF MInv, LInv, Cells, ArrayKeys, Keys
    <2>2. ASSUME NEW s \in Occ(buckets, capacity)
          PROVE  /\ buckets[s] \in Entries(buckets, capacity) /\ buckets[s].key \in Keys
                 /\ HashIn(buckets[s].key) /\ buckets[s].val \in Vals
      <3>1. buckets[s] \in Entries(buckets, capacity)
        BY DEF Entries
      <3> QED
        BY <1>1, <3>1, EntryKeys DEF MInv, LInv
    <2>3. L = A \cup B
      <3>1. ASSUME NEW k \in Cells PROVE Name(k) \in L
        BY <1>1, <2>1 DEF MInv, MapOK, Cells, Names
      <3>2. ASSUME NEW s \in Occ(buckets, capacity) PROVE Name(buckets[s].key) \in L
        BY <1>1, <2>2 DEF MInv, MapOK, Names
      <3>3. ASSUME NEW k \in Keys, m[Name(k)] # Absent PROVE Name(k) \in A \cup B
        <4>1. CASE k \in HashedKeys
          <5>1. HashIn(k)
            BY <1>1, <3>3, <4>1 DEF MInv, MapOK
          <5> QED
            BY <5>1 DEF HashIn, In
        <4>2. CASE k \notin HashedKeys
          <5>1. k \in ArrayKeys /\ ~(k >= ArrayLimit)
            BY <1>1, <4>2, CellOrEntry DEF MInv, LInv
          <5>2. k \in Int /\ ArrayLimit \in Nat
            BY <5>1 DEF ArrayKeys
          <5>3. array[k] # Absent
            BY <1>1, <3>3, <5>1, <5>2 DEF MInv, MapOK
          <5> QED
            BY <5>1, <5>3 DEF Cells
        <4> QED
          BY <4>1, <4>2
      <3>4. \A c \in L : \E k \in Keys : c = Name(k) /\ m[Name(k)] # Absent
        BY DEF Names
      <3> HIDE DEF L
      <3> QED
        BY <3>1, <3>2, <3>3, <3>4
    <2>4. A \cap B = {}
      <3> SUFFICES ASSUME NEW k \in Cells, NEW s \in Occ(buckets, capacity), Name(k) = Name(buckets[s].key)
                   PROVE  FALSE
        OBVIOUS
      <3>1. k = buckets[s].key
        BY <2>1, <2>2, NameOnce
      <3> QED
        BY <2>1, <2>2, <3>1
    <2>5. IsFiniteSet(A) /\ Cardinality(A) = Cardinality(Cells)
      <3> DEFINE f == [k \in Cells |-> Name(k)]
      <3>1. f \in [Cells -> A] /\ \A z \in A : \E x \in Cells : f[x] = z
        OBVIOUS
      <3>2. \A x, y \in Cells : f[x] = f[y] => x = y
        BY <2>1, NameOnce
      <3>3. IsFiniteSet(Cells)
        BY <1>1 DEF MInv, LInv, IInv, CountSound
      <3>4. IsNaming(f, Cells, A)
        BY <3>1, <3>2 DEF IsNaming
      <3> HIDE DEF f, A
      <3> QED
        BY <3>3, <3>4, AsMany
    <2>6. IsFiniteSet(B) /\ Cardinality(B) = Cardinality(Occ(buckets, capacity))
      <3> DEFINE f == [s \in Occ(buckets, capacity) |-> Name(buckets[s].key)]
      <3>1. f \in [Occ(buckets, capacity) -> B] /\ \A z \in B : \E x \in Occ(buckets, capacity) : f[x] = z
        OBVIOUS
      <3>2. \A s, t \in Occ(buckets, capacity) : f[s] = f[t] => s = t
        <4>1. \A s, t \in Occ(buckets, capacity) : f[s] = f[t] => buckets[s].key = buckets[t].key
          BY <2>2, NameOnce
        <4> QED
          BY <1>1, <4>1 DEF MInv, LInv, IInv, HashSound, HashOK
      <3>3. IsFiniteSet(Occ(buckets, capacity))
        BY <1>1, OccFacts DEF MInv, LInv, IInv, TypeOK
      <3>4. IsNaming(f, Occ(buckets, capacity), B)
        BY <3>1, <3>2 DEF IsNaming
      <3> HIDE DEF f, B
      <3> QED
        BY <3>3, <3>4, AsMany
    <2> HIDE DEF L, A, B
    <2>7. Cardinality(L) = Cardinality(A) + Cardinality(B) - Cardinality({})
      BY <2>3, <2>4, <2>5, <2>6, FS_Union
    <2>8. Cardinality({}) = 0 /\ Cardinality(A) \in Nat /\ Cardinality(B) \in Nat
      BY <2>5, <2>6, FS_EmptySet, FS_CardinalityType
    <2>9. Cardinality(L) = Cardinality(Cells) + Cardinality(Occ(buckets, capacity))
      BY <2>5, <2>6, <2>7, <2>8
    <2> QED
      BY <1>1, <2>9 DEF MInv, LInv, IInv, CountSound, Held, CountIsLength, L
  <1> QED
    BY <1>1, MInvInit, MInvStep, PTL DEF Spec
=============================================================================
