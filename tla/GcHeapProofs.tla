---------------------------- MODULE GcHeapProofs ----------------------------
(* Whatever the script does between two collections, a collection frees    *)
(* nothing the heap still points to.                                       *)
EXTENDS GcHeap, TLAPS

-----------------------------------------------------------------------------
(* The inductive invariant.                                                *)

Sound(p) == p = Nil \/ Live(p)

\* NoDangling, pointer by pointer, and with the pointers of constants.
PointersSound ==
  /\ \A r \in Roots : Sound(root[r])
  /\ Sound(moduleEnv)
  /\ \A o \in Obj : \A f \in Fields : Sound(ref[o][f])
  /\ \A c \in Closures : Sound(env[c])
  /\ \A c \in Closures : \A s \in consts[c] : s # Dangling => Live(s)

\* What is free points nowhere: a sweep would leave its pointers dangling.
FreeAreEmpty ==
  \A o \in Obj : age[o] = "free" =>
    /\ \A f \in Fields : ref[o][f] = Nil
    /\ o \in Closures => env[o] = Nil /\ consts[o] = {}

\* The environment of a closure is given at its birth, and so is never
\* younger; gcMinor need not look at it in the remembered set.
EnvIsOlder == \A c \in Closures : age[c] = "old" => env[c] \notin Young

HeapInv ==
  /\ PointersSound /\ FreeAreEmpty /\ EnvIsOlder
  /\ YoungAreRemembered /\ DirtyAreRemembered /\ InternTableLive

-----------------------------------------------------------------------------
(* Sweeping.                                                               *)

\* Marking is closed: what a marked object of S points to in S is marked.
LEMMA ReachedClosed ==
  ASSUME NEW S, NEW From
  PROVE  /\ Reached(S, From) \subseteq S
         /\ From \cap S \subseteq Reached(S, From)
         /\ \A x \in Reached(S, From) : Pointers(x) \cap S \subseteq Reached(S, From)
  <1> DEFINE Closed == {M \in SUBSET S : /\ From \cap S \subseteq M
                                        /\ \A x \in M : Pointers(x) \cap S \subseteq M}
  <1>1. Reached(S, From) = {o \in S : \A M \in Closed : o \in M}
    BY DEF Reached
  <1> HIDE DEF Reached
  <1>2. From \cap S \subseteq Reached(S, From)
    BY <1>1
  <1>3. \A x \in Reached(S, From) : Pointers(x) \cap S \subseteq Reached(S, From)
    <2>1. ASSUME NEW x \in Reached(S, From), NEW y \in Pointers(x) \cap S, NEW M \in Closed
          PROVE  y \in M
      BY <1>1, <2>1
    <2> QED
      BY <1>1, <2>1
  <1> QED
    BY <1>1, <1>2, <1>3

\* A sweep is safe when nothing outside the dead points to them.
LEMMA SweepSafe ==
  ASSUME TypeOK, HeapInv, NEW dead \in SUBSET Obj, Sweep(dead),
         RootPointers \cap dead = {},
         \A o \in Obj \ dead : Pointers(o) \cap dead = {}
  PROVE  HeapInv'
  <1> USE HeapAssumption DEF Sweep, HeapInv, Ptr
  <1>1. \A o \in Obj : age'[o] = IF o \in dead THEN "free"
                                 ELSE IF age[o] = "young" THEN "old" ELSE age[o]
    OBVIOUS
  <1>2. \A o \in Obj : o \notin dead /\ Live(o) => Live(o)'
    BY <1>1 DEF Live, TypeOK
  <1>3. Young' = {}
    BY <1>1 DEF Young, TypeOK
  <1>4. ASSUME NEW r \in Roots PROVE root'[r] = root[r] /\ root[r] \notin dead
    BY DEF RootPointers
  <1>5. moduleEnv' = moduleEnv /\ moduleEnv \notin dead
    BY DEF RootPointers
  <1>6. ASSUME NEW o \in Obj, NEW f \in Fields
        PROVE  /\ o \in dead => ref'[o][f] = Nil
               /\ o \notin dead => ref'[o][f] = ref[o][f] /\ ref[o][f] \notin dead
    BY DEF Pointers, Captured
  <1>7. ASSUME NEW c \in Closures
        PROVE  /\ c \in dead => env'[c] = Nil
               /\ c \notin dead => env'[c] = env[c] /\ env[c] \notin dead
    BY DEF Pointers, Obj
  <1>8. ASSUME NEW c \in Closures, NEW s \in consts'[c], s # Dangling
        PROVE  c \notin dead /\ s \in consts[c] /\ s \notin dead
    BY <1>8
  <1>9. PointersSound'
    <2>1. \A r \in Roots : Sound(root[r])'
      BY <1>2, <1>4 DEF PointersSound, Sound, Live
    <2>2. Sound(moduleEnv)'
      BY <1>2, <1>5 DEF PointersSound, Sound, Live
    <2>3. \A o \in Obj : \A f \in Fields : Sound(ref[o][f])'
      BY <1>2, <1>6 DEF PointersSound, Sound, Live
    <2>4. \A c \in Closures : Sound(env[c])'
      BY <1>2, <1>7 DEF PointersSound, Sound, Live
    <2>5. \A c \in Closures : \A s \in consts'[c] : s # Dangling => Live(s)'
      BY <1>2, <1>8 DEF PointersSound, Live
    <2> QED
      BY <2>1, <2>2, <2>3, <2>4, <2>5 DEF PointersSound
  <1>10. FreeAreEmpty'
    <2>1. ASSUME NEW o \in Obj, age'[o] = "free", NEW f \in Fields PROVE ref'[o][f] = Nil
      BY <1>1, <1>6, <2>1 DEF FreeAreEmpty
    <2>2. ASSUME NEW c \in Closures, age'[c] = "free" PROVE env'[c] = Nil /\ consts'[c] = {}
      <3>1. CASE c \in dead
        BY <3>1
      <3>2. CASE c \notin dead
        BY <1>1, <1>7, <2>2, <3>2 DEF FreeAreEmpty, Obj
      <3> QED
        BY <3>1, <3>2
    <2> QED
      BY <2>1, <2>2 DEF FreeAreEmpty
  <1>11. EnvIsOlder' /\ YoungAreRemembered'
    BY <1>3 DEF EnvIsOlder, YoungAreRemembered
  <1>12. DirtyAreRemembered'
    BY DEF DirtyAreRemembered, DirtyAfter
  <1>13. InternTableLive'
    <2>1. ASSUME NEW t \in Contents, internTable'[t] # Nil
          PROVE  internTable'[t] = internTable[t] /\ internTable[t] \notin dead
      BY <2>1 DEF InternAfter, InternTableLive, TypeOK
    <2>2. ASSUME NEW s \in Strings, s \notin dead, interned[s]
          PROVE  interned'[s] /\ text'[s] = text[s]
      BY <2>2
    <2>3. ASSUME NEW t \in Contents, internTable'[t] # Nil
          PROVE  Live(internTable[t])' /\ interned'[internTable'[t]] /\ text'[internTable'[t]] = t
      <3>1. internTable[t] \in Strings
        BY <2>1, <2>3 DEF TypeOK
      <3>2. Live(internTable[t]) /\ interned[internTable[t]] /\ text[internTable[t]] = t
        BY <2>1, <2>3 DEF InternTableLive
      <3> QED
        BY <1>2, <2>1, <2>2, <2>3, <3>1, <3>2 DEF Obj, Live
    <2> QED
      BY <2>3 DEF InternTableLive
  <1> QED
    BY <1>9, <1>10, <1>11, <1>12, <1>13

\* What a collection finds dead, nothing else points to.
Unreferenced(dead) ==
  /\ dead \subseteq Obj
  /\ RootPointers \cap dead = {}
  /\ \A o \in Obj \ dead : Pointers(o) \cap dead = {}

LEMMA MinorDead ==
  ASSUME TypeOK, HeapInv
  PROVE  Unreferenced(Young \ Reached(Young, MinorFrom))
  <1> DEFINE kept == Reached(Young, MinorFrom)
             dead == Young \ kept
  <1>1. /\ MinorFrom \cap Young \subseteq kept
        /\ \A x \in kept : Pointers(x) \cap Young \subseteq kept
    BY ReachedClosed
  <1>2. dead \subseteq Obj
    BY DEF Young
  <1>3. RootPointers \cap dead = {}
    BY <1>1 DEF MinorFrom
  <1>4. ASSUME NEW o \in Obj \ dead PROVE Pointers(o) \cap dead = {}
    <2>1. CASE age[o] = "young"
      BY <1>1, <1>4, <2>1 DEF Young
    <2>2. CASE age[o] = "old"
      <3>1. Captured(o) \cap dead = {}
        BY <1>1, <2>2 DEF HeapInv, YoungAreRemembered, MinorFrom
      <3>2. o \in Closures => env[o] \notin dead
        BY <2>2 DEF HeapInv, EnvIsOlder
      <3> QED
        BY <3>1, <3>2 DEF Pointers
    <2>3. CASE age[o] = "free"
      BY <2>3, HeapAssumption DEF HeapInv, FreeAreEmpty, Pointers, Captured, Young
    <2> QED
      BY <2>1, <2>2, <2>3 DEF TypeOK
  <1> HIDE DEF dead
  <1>5. Unreferenced(dead)
    BY <1>2, <1>3, <1>4 DEF Unreferenced
  <1> QED
    BY <1>5 DEF dead

LEMMA FullDead ==
  ASSUME TypeOK, HeapInv
  PROVE  LET all == {o \in Obj : Live(o)} IN Unreferenced(all \ Reached(all, RootPointers))
  <1> DEFINE all == {o \in Obj : Live(o)}
             kept == Reached(all, RootPointers)
             dead == all \ kept
  <1>1. /\ RootPointers \cap all \subseteq kept
        /\ \A x \in kept : Pointers(x) \cap all \subseteq kept
    BY ReachedClosed
  <1>2. dead \subseteq Obj
    OBVIOUS
  <1>3. RootPointers \cap dead = {}
    BY <1>1
  <1>4. ASSUME NEW o \in Obj \ dead PROVE Pointers(o) \cap dead = {}
    <2>1. CASE Live(o)
      BY <1>1, <1>4, <2>1
    <2>2. CASE ~Live(o)
      BY <2>2, HeapAssumption DEF HeapInv, FreeAreEmpty, Pointers, Captured, Live
    <2> QED
      BY <2>1, <2>2
  <1> HIDE DEF dead
  <1>5. Unreferenced(dead)
    BY <1>2, <1>3, <1>4 DEF Unreferenced
  <1> QED
    BY <1>5 DEF dead

\* Both collections sweep something that nothing else points to.
LEMMA CollectionSweeps ==
  ASSUME TypeOK, HeapInv, GcMinor \/ GcFull
  PROVE  \E dead \in SUBSET Obj : Sweep(dead) /\ Unreferenced(dead)
  <1>1. CASE GcMinor
    BY <1>1, MinorDead DEF GcMinor, Unreferenced
  <1>2. CASE GcFull
    BY <1>2, FullDead DEF GcFull, Unreferenced
  <1> QED
    BY <1>1, <1>2

LEMMA CollectionSafe ==
  ASSUME TypeOK, HeapInv, GcMinor \/ GcFull PROVE HeapInv'
  BY CollectionSweeps, SweepSafe DEF Unreferenced

-----------------------------------------------------------------------------
(* Types.                                                                  *)

\* The cases of Next, for the lemmas about a step.
LEMMA NextCases ==
  ASSUME Next
  PROVE  \/ \E s \in Strings, c \in Closures, e \in Tables \cup {Nil} : Exec(s, c, e)
         \/ \E t \in Tables : Import(t)
         \/ \E r \in Roots, s \in Strings : LoadK(r, s)
         \/ \E r \in Roots, v \in Ptr : Move(r, v)
         \/ \E r \in Roots, o \in Obj, f \in Fields : Load(r, o, f)
         \/ \E r \in Roots, c \in Closures, p \in Closures, v \in Ptr : MakeClosure(r, c, p, v)
         \/ \E r \in Roots, t \in Tables, k \in Ptr, v \in Ptr : MakeTable(r, t, k, v)
         \/ \E r \in Roots, q \in Roots, s \in Strings, t \in Contents : Concat(r, q, s, t)
         \/ \E t \in Tables, k \in Ptr, v \in Ptr : TableSet(t, k, v)
         \/ \E t \in Tables, k \in Ptr, v \in Ptr : InlineHashHit(t, k, v)
         \/ \E c \in Closures, v \in Ptr : SetCapture(c, v)
         \/ \E t \in Tables : TableDel(t)
         \/ GcMinor
         \/ GcFull
  <1>1. Strings \cup {Nil} \subseteq Ptr
    BY DEF Ptr, Obj
  <1> QED
    BY <1>1 DEF Next

LEMMA SweepTyped ==
  ASSUME TypeOK, InternTableLive, NEW dead \in SUBSET Obj, Sweep(dead) PROVE TypeOK'
  <1> USE HeapAssumption DEF TypeOK, Sweep, Ptr
  <1>1. age' \in [Obj -> {"free", "young", "old"}]
    OBVIOUS
  <1>2. ref' \in [Obj -> [Fields -> Ptr \cup {Dangling}]]
    OBVIOUS
  <1>3. env' \in [Closures -> Tables \cup {Nil, Dangling}]
    OBVIOUS
  <1>4. consts' \in [Closures -> SUBSET (Strings \cup {Dangling})]
    OBVIOUS
  <1>5. chunk' \subseteq Closures \cup {Dangling}
    OBVIOUS
  <1>6. root' \in [Roots -> Ptr \cup {Dangling}] /\ moduleEnv' \in Tables \cup {Nil, Dangling}
    OBVIOUS
  <1>7. remembered' \subseteq Obj /\ dirty' \subseteq Obj
    BY DEF DirtyAfter
  <1>8. text' \in [Strings -> Contents \cup {Nil}] /\ interned' \in [Strings -> BOOLEAN]
    OBVIOUS
  <1>9. internTable' \in [Contents -> Strings \cup {Nil}]
    BY DEF InternAfter, InternTableLive
  <1> QED
    BY <1>1, <1>2, <1>3, <1>4, <1>5, <1>6, <1>7, <1>8, <1>9

LEMMA TypeNext ==
  ASSUME TypeOK, InternTableLive, [Next]_vars PROVE TypeOK'
  <1> USE HeapAssumption DEF TypeOK, Obj, Ptr, heap, strings
  <1>1. CASE UNCHANGED vars
    BY <1>1 DEF vars
  <1>2. ASSUME NEW s \in Strings, NEW c \in Closures, NEW e \in Tables \cup {Nil}, Exec(s, c, e)
        PROVE  TypeOK'
    <2>1. /\ age' \in [Obj -> {"free", "young", "old"}]
          /\ env' \in [Closures -> Tables \cup {Nil, Dangling}]
          /\ consts' \in [Closures -> SUBSET (Strings \cup {Dangling})]
          /\ chunk' \subseteq Closures \cup {Dangling}
          /\ UNCHANGED <<ref, root, moduleEnv, remembered, dirty>>
      BY <1>2 DEF Exec
    <2>2. CASE internTable[Literal] # Nil
      <3>1. UNCHANGED <<text, interned, internTable>>
        BY <1>2, <2>2 DEF Exec, Intern
      <3> QED
        BY <2>1, <3>1
    <2>3. CASE internTable[Literal] = Nil
      <3>1. /\ text' = [text EXCEPT ![s] = Literal]
            /\ interned' = [interned EXCEPT ![s] = TRUE]
            /\ internTable' = [internTable EXCEPT ![Literal] = s]
        BY <1>2, <2>3 DEF Exec, Intern
      <3>2. text' \in [Strings -> Contents \cup {Nil}]
        BY <3>1
      <3>3. interned' \in [Strings -> BOOLEAN]
        BY <3>1
      <3>4. internTable' \in [Contents -> Strings \cup {Nil}]
        BY <3>1
      <3> QED
        BY <2>1, <3>2, <3>3, <3>4
    <2> QED
      BY <2>2, <2>3
  <1>3. ASSUME NEW t \in Tables, Import(t) PROVE TypeOK'
    BY <1>3 DEF Import, Alloc
  <1>4. ASSUME NEW r \in Roots, NEW s \in Strings, LoadK(r, s) PROVE TypeOK'
    BY <1>4 DEF LoadK, SetRoot
  <1>5. ASSUME NEW r \in Roots, NEW v \in Ptr, Move(r, v) PROVE TypeOK'
    BY <1>5 DEF Move, SetRoot
  <1>6. ASSUME NEW r \in Roots, NEW o \in Obj, NEW f \in Fields, Load(r, o, f) PROVE TypeOK'
    BY <1>6 DEF Load, SetRoot
  <1>7. ASSUME NEW r \in Roots, NEW c \in Closures, NEW p \in Closures, NEW v \in Ptr,
               MakeClosure(r, c, p, v)
        PROVE  TypeOK'
    BY <1>7 DEF MakeClosure, Alloc, SetRoot, Fields
  <1>8. ASSUME NEW r \in Roots, NEW t \in Tables, NEW k \in Ptr, NEW v \in Ptr,
               MakeTable(r, t, k, v)
        PROVE  TypeOK'
    BY <1>8 DEF MakeTable, Alloc, SetRoot, Fields
  <1>9. ASSUME NEW r \in Roots, NEW q \in Roots, NEW s \in Strings, NEW t \in Contents,
               Concat(r, q, s, t)
        PROVE  TypeOK'
    <2>1. /\ age' \in [Obj -> {"free", "young", "old"}]
          /\ text' \in [Strings -> Contents \cup {Nil}]
      <3>1. age' = age \/ age' = [age EXCEPT ![s] = "young"]
        BY <1>9 DEF Concat, AllocString, Alloc
      <3>2. text' = [text EXCEPT ![s] = t]
        BY <1>9 DEF Concat, AllocString
      <3> QED
        BY <3>1, <3>2
    <2>3. root' \in [Roots -> Ptr \cup {Dangling}]
      BY <1>9 DEF Concat, SetRoot
    <2>2. UNCHANGED <<ref, env, consts, remembered, dirty, chunk, moduleEnv, interned, internTable>>
      BY <1>9 DEF Concat, AllocString
    <2> QED
      BY <2>1, <2>2, <2>3
  <1>10. ASSUME NEW t \in Tables, NEW k \in Ptr, NEW v \in Ptr, TableSet(t, k, v) PROVE TypeOK'
    BY <1>10 DEF TableSet, Barrier, Fields
  <1>11. ASSUME NEW t \in Tables, NEW k \in Ptr, NEW v \in Ptr, InlineHashHit(t, k, v)
         PROVE  TypeOK'
    BY <1>11 DEF InlineHashHit, Fields
  <1>12. ASSUME NEW c \in Closures, NEW v \in Ptr, SetCapture(c, v) PROVE TypeOK'
    BY <1>12 DEF SetCapture, Barrier, Fields
  <1>13. ASSUME NEW t \in Tables, TableDel(t) PROVE TypeOK'
    BY <1>13 DEF TableDel, Fields
  <1>14. CASE GcMinor
    <2>1. Young \ Reached(Young, MinorFrom) \in SUBSET Obj
      BY DEF Young
    <2> QED
      BY <1>14, <2>1, SweepTyped DEF GcMinor
  <1>15. CASE GcFull
    <2>1. LET all == {o \in Obj : Live(o)} IN all \ Reached(all, RootPointers) \in SUBSET Obj
      OBVIOUS
    <2> QED
      BY <1>15, <2>1, SweepTyped DEF GcFull
  <1> QED
    BY <1>1, <1>2, <1>3, <1>4, <1>5, <1>6, <1>7, <1>8, <1>9, <1>10, <1>11, <1>12, <1>13,
       <1>14, <1>15, NextCases

-----------------------------------------------------------------------------
(* The steps between two collections.                                      *)

\* No object is freed or promoted.
OnlyBirths ==
  \A o \in Obj : age'[o] = age[o] \/ (age[o] = "free" /\ age'[o] = "young")

SoundAfter(p) == p = Nil \/ (p \in Obj /\ age'[p] # "free")

LEMMA Births ==
  ASSUME TypeOK, OnlyBirths
  PROVE  /\ \A p : Sound(p) => SoundAfter(p)
         /\ \A p : Sound(p) /\ p \notin Young => p \notin Young'
         /\ \A o \in Obj : age'[o] = "old" <=> age[o] = "old"
         /\ \A o \in Obj : age'[o] = "free" => age[o] = "free"
  BY HeapAssumption DEF OnlyBirths, Sound, SoundAfter, Live, Young, TypeOK

\* A step may fill registers and new objects with sound pointers.
LEMMA BirthSafe ==
  ASSUME TypeOK, HeapInv, OnlyBirths, InternTableLive',
         \A o \in Obj : age'[o] = age[o] => ref'[o] = ref[o],
         \A o \in Obj : age'[o] # age[o] => \A f \in Fields : SoundAfter(ref'[o][f]),
         \A c \in Closures : age'[c] = age[c] => env'[c] = env[c] /\ consts'[c] = consts[c],
         \A c \in Closures : age'[c] # age[c] => SoundAfter(env'[c]),
         \A c \in Closures : age'[c] # age[c] =>
           \A s \in consts'[c] : s # Dangling => SoundAfter(s) /\ s # Nil,
         \A r \in Roots : SoundAfter(root'[r]),
         SoundAfter(moduleEnv'),
         UNCHANGED <<remembered, dirty>>
  PROVE  HeapInv'
  <1>1. /\ \A p : Sound(p) => SoundAfter(p)
        /\ \A p : Sound(p) /\ p \notin Young => p \notin Young'
        /\ \A o \in Obj : age'[o] = "old" <=> age[o] = "old"
        /\ \A o \in Obj : age'[o] = "free" => age[o] = "free"
    BY Births
  <1>2. \A c \in Closures : c \in Obj
    BY DEF Obj
  <1>3. /\ \A o \in Obj : \A f \in Fields : Sound(ref[o][f])
        /\ \A c \in Closures : Sound(env[c])
        /\ \A c \in Closures : \A s \in consts[c] : s # Dangling => Live(s)
    BY DEF HeapInv, PointersSound
  <1>4. PointersSound'
    <2>1. \A o \in Obj : \A f \in Fields : SoundAfter(ref'[o][f])
      BY <1>1, <1>3
    <2>2. \A c \in Closures : SoundAfter(env'[c])
      BY <1>1, <1>3
    <2>3. ASSUME NEW c \in Closures, NEW s \in consts'[c], s # Dangling PROVE Live(s)'
      <3>1. CASE age'[c] = age[c]
        <4>1. Live(s)
          BY <1>3, <2>3, <3>1
        <4> QED
          BY <4>1, <1>1 DEF Live
      <3>2. CASE age'[c] # age[c]
        BY <2>3, <3>2 DEF SoundAfter, Live
      <3> QED
        BY <3>1, <3>2
    <2> QED
      BY <2>1, <2>2, <2>3 DEF PointersSound, Sound, SoundAfter, Live
  <1>5. FreeAreEmpty'
    BY <1>1, <1>2 DEF HeapInv, FreeAreEmpty
  <1>6. EnvIsOlder'
    <2>1. ASSUME NEW c \in Closures, age'[c] = "old" PROVE env'[c] \notin Young'
      <3>1. age[c] = "old" /\ age'[c] = age[c]
        BY <1>1, <1>2, <2>1
      <3>2. env'[c] = env[c] /\ env[c] \notin Young
        BY <3>1 DEF HeapInv, EnvIsOlder
      <3> QED
        BY <1>1, <1>3, <3>2
    <2> QED
      BY <2>1 DEF EnvIsOlder
  <1>7. YoungAreRemembered'
    <2>1. ASSUME NEW o \in Obj \ remembered, age'[o] = "old", NEW f \in Fields
          PROVE  ref'[o][f] \notin Young'
      <3>1. age[o] = "old" /\ age'[o] = age[o]
        BY <1>1, <2>1
      <3>2. ref'[o] = ref[o] /\ ref[o][f] \notin Young
        BY <3>1 DEF HeapInv, YoungAreRemembered, Captured
      <3> QED
        BY <1>1, <1>3, <3>2
    <2> QED
      BY <2>1 DEF YoungAreRemembered, Captured
  <1>8. DirtyAreRemembered'
    BY <1>1 DEF HeapInv, DirtyAreRemembered, TypeOK
  <1> QED
    BY <1>4, <1>5, <1>6, <1>7, <1>8 DEF HeapInv

\* A store into a live object, with the barrier where it is needed.
LEMMA StoreSafe ==
  ASSUME TypeOK, HeapInv, NEW o \in Obj, Live(o),
         \A x \in Obj \ {o} : ref'[x] = ref[x],
         \A f \in Fields : Sound(ref'[o][f]),
         \A f \in Fields : age[o] = "old" /\ ref'[o][f] \in Young => o \in remembered',
         \/ UNCHANGED <<remembered, dirty>>
         \/ age[o] = "old" /\ remembered' = remembered \cup {o} /\ dirty' = dirty \cup {o},
         UNCHANGED <<age, env, consts, strings, root, moduleEnv>>
  PROVE  HeapInv'
  <1> USE DEF HeapInv
  <1>1. PointersSound'
    <2>1. ASSUME NEW x \in Obj, NEW f \in Fields PROVE Sound(ref'[x][f])
      BY DEF PointersSound
    <2> QED
      BY <2>1 DEF PointersSound, Sound, Live
  <1>2. FreeAreEmpty'
    BY DEF FreeAreEmpty, Live
  <1>3. EnvIsOlder'
    BY DEF EnvIsOlder, Young
  <1>4. YoungAreRemembered'
    <2>1. Young' = Young
      BY DEF Young
    <2>2. ASSUME NEW x \in Obj \ remembered', age[x] = "old", NEW f \in Fields
          PROVE  ref'[x][f] \notin Young
      <3>1. CASE x = o
        BY <2>2, <3>1
      <3>2. CASE x # o
        <4>1. ref'[x] = ref[x] /\ x \notin remembered
          BY <3>2, <2>2
        <4> QED
          BY <2>2, <4>1 DEF YoungAreRemembered, Captured
      <3> QED
        BY <3>1, <3>2
    <2> QED
      BY <2>1, <2>2 DEF YoungAreRemembered, Captured
  <1>5. DirtyAreRemembered'
    BY DEF DirtyAreRemembered
  <1>6. InternTableLive'
    BY DEF InternTableLive, strings, Live
  <1> QED
    BY <1>1, <1>2, <1>3, <1>4, <1>5, <1>6

LEMMA RootsSound ==
  ASSUME HeapInv PROVE \A v \in RootPointers \cup {Nil} : Sound(v)
  BY DEF HeapInv, PointersSound, RootPointers, Sound

\* A step that only writes a register keeps the invariant.
LEMMA RootSafe ==
  ASSUME TypeOK, HeapInv, NEW r \in Roots, NEW v, Sound(v), SetRoot(r, v),
         UNCHANGED <<heap, strings, moduleEnv>>
  PROVE  HeapInv'
  <1>1. OnlyBirths
    BY DEF OnlyBirths, heap
  <1>2. InternTableLive'
    BY DEF HeapInv, InternTableLive, heap, strings, Live
  <1>3. \A p : Sound(p) => SoundAfter(p)
    BY <1>1, Births
  <1>4. \A q \in Roots : SoundAfter(root'[q])
    BY <1>3 DEF SetRoot, TypeOK, HeapInv, PointersSound
  <1>5. SoundAfter(moduleEnv')
    BY <1>3 DEF HeapInv, PointersSound
  <1> QED
    BY <1>1, <1>2, <1>4, <1>5, BirthSafe DEF heap

\* The strings of the intern table stay as they are when a birth is not theirs.
LEMMA InternKept ==
  ASSUME TypeOK, HeapInv, OnlyBirths, UNCHANGED strings
  PROVE  InternTableLive'
  BY DEF HeapInv, InternTableLive, strings, OnlyBirths, Live

LEMMA MakeClosureSafe ==
  ASSUME TypeOK, HeapInv, NEW r \in Roots, NEW c \in Closures, NEW p \in Closures, NEW v \in Ptr,
         MakeClosure(r, c, p, v)
  PROVE  HeapInv'
  <1> USE DEF Obj
  <1>1. OnlyBirths /\ age'[c] = "young" /\ \A o \in Obj : age'[o] # age[o] => o = c
    BY DEF MakeClosure, Alloc, OnlyBirths, TypeOK
  <1>2. \A q : Sound(q) => SoundAfter(q)
    BY <1>1, Births
  <1>3. \A o \in Obj : age'[o] = age[o] => ref'[o] = ref[o]
    BY <1>1 DEF MakeClosure, Alloc, TypeOK
  <1>4. \A f \in Fields : Sound(ref'[c][f])
    BY RootsSound DEF MakeClosure, TypeOK, HeapInv, PointersSound
  <1>5. SoundAfter(env'[c])
    BY <1>2 DEF MakeClosure, TypeOK, HeapInv, PointersSound
  <1>6. \A s \in consts'[c] : s # Dangling => SoundAfter(s) /\ s # Nil
    <2>1. \A s \in consts[p] : s # Dangling => Live(s)
      BY DEF HeapInv, PointersSound
    <2>2. consts'[c] = consts[p]
      BY DEF MakeClosure, TypeOK
    <2> QED
      BY <1>2, <2>1, <2>2, HeapAssumption DEF Sound, Live
  <1>7. \A q \in Roots : SoundAfter(root'[q])
    BY <1>1, <1>2 DEF MakeClosure, SetRoot, TypeOK, HeapInv, PointersSound, SoundAfter
  <1>8. SoundAfter(moduleEnv') /\ InternTableLive'
    BY <1>1, <1>2, InternKept DEF MakeClosure, HeapInv, PointersSound
  <1>9. \A d \in Closures : age'[d] = age[d] => env'[d] = env[d] /\ consts'[d] = consts[d]
    BY <1>1 DEF MakeClosure, Alloc, TypeOK
  <1> HIDE DEF Obj
  <1>10. Closures \subseteq Obj
    BY DEF Obj
  <1> QED
    BY <1>1, <1>2, <1>3, <1>4, <1>5, <1>6, <1>7, <1>8, <1>9, <1>10, BirthSafe DEF MakeClosure

LEMMA MakeTableSafe ==
  ASSUME TypeOK, HeapInv, NEW r \in Roots, NEW t \in Tables, NEW k \in Ptr, NEW v \in Ptr,
         MakeTable(r, t, k, v)
  PROVE  HeapInv'
  <1> USE DEF Obj
  <1>1. OnlyBirths /\ age'[t] = "young" /\ \A o \in Obj : age'[o] # age[o] => o = t
    BY DEF MakeTable, Alloc, OnlyBirths, TypeOK
  <1>2. \A q : Sound(q) => SoundAfter(q)
    BY <1>1, Births
  <1>3. \A o \in Obj : age'[o] = age[o] => ref'[o] = ref[o]
    BY <1>1 DEF MakeTable, Alloc, TypeOK
  <1>4. \A f \in Fields : Sound(ref'[t][f])
    <2>1. Sound(k) /\ Sound(v)
      BY RootsSound DEF MakeTable
    <2> QED
      BY <2>1 DEF MakeTable, TypeOK, Fields
  <1>5. \A c \in Closures : age'[c] = age[c]
    BY <1>1, HeapAssumption
  <1>6. \A q \in Roots : SoundAfter(root'[q])
    BY <1>1, <1>2 DEF MakeTable, SetRoot, TypeOK, HeapInv, PointersSound, SoundAfter
  <1>7. SoundAfter(moduleEnv') /\ InternTableLive'
    BY <1>1, <1>2, InternKept DEF MakeTable, HeapInv, PointersSound
  <1> QED
    BY <1>1, <1>2, <1>3, <1>4, <1>5, <1>6, <1>7, BirthSafe DEF MakeTable

LEMMA ImportSafe ==
  ASSUME TypeOK, HeapInv, NEW t \in Tables, Import(t)
  PROVE  HeapInv'
  <1> USE DEF Obj
  <1>1. OnlyBirths /\ age'[t] = "young" /\ \A o \in Obj : age'[o] # age[o] => o = t
    BY DEF Import, Alloc, OnlyBirths, TypeOK
  <1>2. \A q : Sound(q) => SoundAfter(q)
    BY <1>1, Births
  <1>3. \A f \in Fields : SoundAfter(ref'[t][f])
    BY <1>2 DEF Import, HeapInv, PointersSound
  <1>4. \A c \in Closures : age'[c] = age[c]
    BY <1>1, HeapAssumption
  <1>5. \A q \in Roots : SoundAfter(root'[q])
    BY <1>2 DEF Import, HeapInv, PointersSound
  <1>6. SoundAfter(moduleEnv') /\ InternTableLive'
    BY <1>1, InternKept DEF Import, SoundAfter
  <1> QED
    BY <1>1, <1>3, <1>4, <1>5, <1>6, BirthSafe DEF Import

LEMMA ExecSafe ==
  ASSUME TypeOK, HeapInv, NEW s \in Strings, NEW c \in Closures, NEW e \in Tables \cup {Nil},
         Exec(s, c, e)
  PROVE  HeapInv'
  <1> USE DEF Obj
  <1>1. /\ c # s
        /\ age'[c] = "young" /\ age[c] = "free"
        /\ age'[s] = IF age[s] = "free" THEN "young" ELSE age[s]
        /\ \A o \in Obj \ {c, s} : age'[o] = age[o]
    BY HeapAssumption DEF Exec, TypeOK
  <1>2. OnlyBirths
    BY <1>1 DEF OnlyBirths
  <1>3. \A q : Sound(q) => SoundAfter(q)
    BY <1>2, Births
  <1>4. \A o \in Obj : \A f \in Fields : SoundAfter(ref'[o][f])
    BY <1>3 DEF Exec, HeapInv, PointersSound
  <1>5. SoundAfter(s) /\ s # Nil
    BY <1>1, HeapAssumption DEF SoundAfter, TypeOK
  <1>6. SoundAfter(env'[c]) /\ consts'[c] = {s}
    <2>1. env'[c] = e /\ consts'[c] = {s} /\ e \in {Nil, moduleEnv}
      BY DEF Exec, TypeOK
    <2> QED
      BY <2>1, <1>3 DEF HeapInv, PointersSound, Sound
  <1>7. \A d \in Closures : age'[d] = age[d] => env'[d] = env[d] /\ consts'[d] = consts[d]
    BY <1>1 DEF Exec, TypeOK
  <1>8. \A d \in Closures : age'[d] # age[d] => d = c
    BY <1>1, HeapAssumption
  <1>9. (\A q \in Roots : SoundAfter(root'[q])) /\ SoundAfter(moduleEnv')
    BY <1>3 DEF Exec, HeapInv, PointersSound
  <1>10. InternTableLive'
    <2>1. CASE internTable[Literal] # Nil
      <3>1. UNCHANGED strings
        BY <2>1 DEF Exec, Intern, strings
      <3> QED
        BY <1>2, <3>1, InternKept
    <2>2. CASE internTable[Literal] = Nil
      <3>1. /\ text' = [text EXCEPT ![s] = Literal]
            /\ interned' = [interned EXCEPT ![s] = TRUE]
            /\ internTable' = [internTable EXCEPT ![Literal] = s]
            /\ age[s] = "free"
        BY <2>2 DEF Exec, Intern
      <3>2. internTable'[Literal] = s /\ text'[s] = Literal /\ interned'[s]
        BY <3>1, HeapAssumption DEF TypeOK
      <3>3. ASSUME NEW t \in Contents, t # Literal, internTable'[t] # Nil
            PROVE  Live(internTable[t]) /\ internTable'[t] = internTable[t]
        BY <3>1, <3>3 DEF HeapInv, InternTableLive, TypeOK
      <3>4. ASSUME NEW t \in Contents, t # Literal, internTable'[t] # Nil
            PROVE  /\ Live(internTable[t])'
                   /\ interned'[internTable'[t]] /\ text'[internTable'[t]] = t
        <4> DEFINE u == internTable[t]
        <4>1. internTable'[t] = u /\ Live(u) /\ u # s /\ u \in Strings
          BY <3>1, <3>3, <3>4, HeapAssumption DEF Live, TypeOK
        <4>2. interned[u] /\ text[u] = t
          BY <3>4, <4>1, HeapAssumption DEF HeapInv, InternTableLive, TypeOK
        <4>3. interned'[u] /\ text'[u] = text[u]
          BY <3>1, <4>1, <4>2 DEF TypeOK
        <4>4. age'[u] # "free"
          BY <4>1, <1>2 DEF OnlyBirths, Live
        <4> QED
          BY <4>1, <4>2, <4>3, <4>4 DEF Live
      <3>5. Live(s)'
        BY <1>1 DEF Live, TypeOK
      <3> QED
        BY <3>2, <3>4, <3>5 DEF InternTableLive, Live
    <2> QED
      BY <2>1, <2>2
  <1> HIDE DEF Obj
  <1>11. UNCHANGED <<ref, remembered, dirty>>
    BY DEF Exec
  <1> QED
    BY <1>2, <1>4, <1>5, <1>6, <1>7, <1>8, <1>9, <1>10, <1>11, BirthSafe

LEMMA ConcatSafe ==
  ASSUME TypeOK, HeapInv, NEW r \in Roots, NEW q \in Roots, NEW s \in Strings, NEW t \in Contents,
         Concat(r, q, s, t)
  PROVE  HeapInv'
  <1> USE DEF Obj
  <1>1. /\ OnlyBirths /\ age'[s] # "free" /\ text' = [text EXCEPT ![s] = t]
        /\ \A o \in Obj \ {s} : age'[o] = age[o]
    <2>1. CASE GrowsInPlace(r, q)
      <3>1. s = root[q] /\ age' = age /\ text' = [text EXCEPT ![s] = t]
        BY <2>1 DEF Concat
      <3>2. Live(s)
        BY <3>1, HeapAssumption DEF HeapInv, PointersSound, Sound, TypeOK
      <3> QED
        BY <3>1, <3>2 DEF OnlyBirths, Live
    <2>2. CASE ~GrowsInPlace(r, q)
      <3>1. AllocString(s, t)
        BY <2>2 DEF Concat
      <3> QED
        BY <3>1 DEF AllocString, Alloc, OnlyBirths, TypeOK
    <2> QED
      BY <2>1, <2>2
  <1>2. \A p : Sound(p) => SoundAfter(p)
    BY <1>1, Births
  <1>3. /\ UNCHANGED <<ref, env, consts, remembered, dirty, moduleEnv, interned, internTable>>
        /\ root' = [root EXCEPT ![r] = s]
    BY DEF Concat, AllocString, SetRoot
  <1>4. \A o \in Obj : \A f \in Fields : SoundAfter(ref'[o][f])
    BY <1>2, <1>3 DEF HeapInv, PointersSound
  <1>5. \A c \in Closures : age'[c] = age[c]
    BY <1>1, HeapAssumption
  <1>6. \A p \in Roots : SoundAfter(root'[p])
    BY <1>1, <1>2, <1>3 DEF TypeOK, HeapInv, PointersSound, SoundAfter
  <1>7. SoundAfter(moduleEnv')
    BY <1>2, <1>3 DEF HeapInv, PointersSound
  <1>8. \A u \in Contents : internTable[u] # s
    <2>1. CASE GrowsInPlace(r, q)
      <3>1. s = root[q] /\ ~interned[root[q]]
        BY <2>1 DEF Concat, GrowsInPlace
      <3> QED
        BY <3>1, HeapAssumption DEF HeapInv, InternTableLive, TypeOK
    <2>2. CASE ~GrowsInPlace(r, q)
      <3>1. age[s] = "free"
        BY <2>2 DEF Concat, AllocString, Alloc
      <3> QED
        BY <3>1, HeapAssumption DEF HeapInv, InternTableLive, TypeOK, Live
    <2> QED
      BY <2>1, <2>2
  <1>9. InternTableLive'
    BY <1>1, <1>3, <1>8 DEF HeapInv, InternTableLive, OnlyBirths, Live, TypeOK
  <1> HIDE DEF Obj
  <1> QED
    BY <1>1, <1>3, <1>4, <1>5, <1>6, <1>7, <1>9, BirthSafe

LEMMA TableSetSafe ==
  ASSUME TypeOK, HeapInv, NEW t \in Tables, NEW k \in Ptr, NEW v \in Ptr, TableSet(t, k, v)
  PROVE  HeapInv'
  <1>1. t \in Obj /\ Live(t)
    BY RootsSound, HeapAssumption DEF TableSet, Sound, Obj
  <1>2. Sound(k) /\ Sound(v)
    BY RootsSound DEF TableSet
  <1>3. /\ \A x \in Obj \ {t} : ref'[x] = ref[x]
        /\ \A f \in Fields : ref'[t][f] \in {k, v}
    BY <1>1 DEF TableSet, TypeOK, Fields
  <1>4. \A f \in Fields : age[t] = "old" /\ ref'[t][f] \in Young => t \in remembered'
    BY <1>3 DEF TableSet, Barrier, NeedsBarrier, Young, HeapInv, DirtyAreRemembered
  <1>5. \/ UNCHANGED <<remembered, dirty>>
        \/ age[t] = "old" /\ remembered' = remembered \cup {t} /\ dirty' = dirty \cup {t}
    BY DEF TableSet, Barrier, NeedsBarrier
  <1> QED
    BY <1>1, <1>2, <1>3, <1>4, <1>5, StoreSafe DEF TableSet

LEMMA SetCaptureSafe ==
  ASSUME TypeOK, HeapInv, NEW c \in Closures, NEW v \in Ptr, SetCapture(c, v)
  PROVE  HeapInv'
  <1>1. c \in Obj /\ Live(c)
    BY RootsSound, HeapAssumption DEF SetCapture, Sound, Obj
  <1>2. Sound(v)
    BY RootsSound DEF SetCapture
  <1>3. /\ \A x \in Obj \ {c} : ref'[x] = ref[x]
        /\ \A f \in Fields : ref'[c][f] \in {ref[c][f], v}
    BY <1>1 DEF SetCapture, TypeOK, Fields
  <1>4. \A f \in Fields : Sound(ref'[c][f])
    BY <1>1, <1>2, <1>3 DEF HeapInv, PointersSound
  <1>5. ASSUME NEW f \in Fields, age[c] = "old", ref'[c][f] \in Young PROVE c \in remembered'
    <2>1. CASE ref'[c][f] = v
      BY <1>5, <2>1 DEF SetCapture, Barrier, NeedsBarrier, Young, HeapInv, DirtyAreRemembered
    <2>2. CASE ref'[c][f] = ref[c][f]
      <3>1. c \in remembered
        BY <1>1, <1>5, <2>2 DEF HeapInv, YoungAreRemembered, Captured
      <3> QED
        BY <3>1 DEF SetCapture, Barrier
    <2> QED
      BY <1>3, <2>1, <2>2
  <1>6. \/ UNCHANGED <<remembered, dirty>>
        \/ age[c] = "old" /\ remembered' = remembered \cup {c} /\ dirty' = dirty \cup {c}
    BY DEF SetCapture, Barrier, NeedsBarrier
  <1> QED
    BY <1>1, <1>3, <1>4, <1>5, <1>6, StoreSafe DEF SetCapture

LEMMA InlineHashHitSafe ==
  ASSUME YoungOverHit = FALSE, TypeOK, HeapInv,
         NEW t \in Tables, NEW k \in Ptr, NEW v \in Ptr, InlineHashHit(t, k, v)
  PROVE  HeapInv'
  <1>1. t \in Obj /\ Live(t)
    BY RootsSound, HeapAssumption DEF InlineHashHit, Sound, Obj
  <1>2. Sound(v)
    BY RootsSound DEF InlineHashHit
  <1>3. /\ \A x \in Obj \ {t} : ref'[x] = ref[x]
        /\ \A f \in Fields : ref'[t][f] \in {ref[t][f], v}
    BY <1>1 DEF InlineHashHit, TypeOK, Fields
  <1>4. \A f \in Fields : Sound(ref'[t][f])
    BY <1>1, <1>2, <1>3 DEF HeapInv, PointersSound
  <1>5. ASSUME NEW f \in Fields, age[t] = "old", ref'[t][f] \in Young PROVE t \in remembered
    <2>1. CASE ref'[t][f] = v
      BY <1>5, <2>1 DEF InlineHashHit, NeedsBarrier, Young
    <2>2. CASE ref'[t][f] = ref[t][f]
      BY <1>1, <1>5, <2>2 DEF HeapInv, YoungAreRemembered, Captured
    <2> QED
      BY <1>3, <2>1, <2>2
  <1>6. UNCHANGED <<remembered, dirty, age, env, consts, strings, root, moduleEnv>>
    BY DEF InlineHashHit
  <1> QED
    BY <1>1, <1>3, <1>4, <1>5, <1>6, StoreSafe

LEMMA TableDelSafe ==
  ASSUME TypeOK, HeapInv, NEW t \in Tables, TableDel(t)
  PROVE  HeapInv'
  <1>1. t \in Obj /\ Live(t)
    BY RootsSound, HeapAssumption DEF TableDel, Sound, Obj
  <1>2. /\ \A x \in Obj \ {t} : ref'[x] = ref[x]
        /\ \A f \in Fields : ref'[t][f] = Nil
    BY <1>1 DEF TableDel, TypeOK, Fields
  <1>3. \A f \in Fields : Sound(ref'[t][f]) /\ ref'[t][f] \notin Young
    BY <1>2, HeapAssumption DEF Sound, Young
  <1> QED
    BY <1>1, <1>2, <1>3, StoreSafe DEF TableDel

-----------------------------------------------------------------------------
(* The invariant.                                                          *)

LEMMA HeapInit == ASSUME Init PROVE TypeOK /\ HeapInv
  <1> USE HeapAssumption DEF Init
  <1>1. TypeOK
    BY DEF TypeOK, Ptr
  <1>2. PointersSound
    BY DEF PointersSound, Sound
  <1>3. FreeAreEmpty /\ EnvIsOlder
    BY DEF FreeAreEmpty, EnvIsOlder, Obj
  <1>4. YoungAreRemembered /\ DirtyAreRemembered /\ InternTableLive
    BY DEF YoungAreRemembered, DirtyAreRemembered, InternTableLive
  <1> QED
    BY <1>1, <1>2, <1>3, <1>4 DEF HeapInv

LEMMA HeapNext ==
  ASSUME YoungOverHit = FALSE, TypeOK, HeapInv, [Next]_vars PROVE HeapInv'
  <1>1. CASE UNCHANGED vars
    BY <1>1 DEF vars, heap, strings, HeapInv, PointersSound, Sound, Live, FreeAreEmpty, EnvIsOlder,
       Young, YoungAreRemembered, Captured, DirtyAreRemembered, InternTableLive
  <1>2. ASSUME NEW r \in Roots, NEW s \in Strings, LoadK(r, s) PROVE HeapInv'
    <2>1. Sound(s)
      BY <1>2, HeapAssumption DEF LoadK, HeapInv, PointersSound, Sound, Obj
    <2> QED
      BY <1>2, <2>1, RootSafe DEF LoadK
  <1>3. ASSUME NEW r \in Roots, NEW v \in Ptr, Move(r, v) PROVE HeapInv'
    BY <1>3, RootsSound, RootSafe DEF Move
  <1>4. ASSUME NEW r \in Roots, NEW o \in Obj, NEW f \in Fields, Load(r, o, f) PROVE HeapInv'
    <2>1. Sound(ref[o][f])
      BY DEF HeapInv, PointersSound
    <2> QED
      BY <1>4, <2>1, RootSafe DEF Load
  <1> QED
    BY <1>1, <1>2, <1>3, <1>4, NextCases, ExecSafe, ImportSafe, MakeClosureSafe, MakeTableSafe,
       ConcatSafe, TableSetSafe, InlineHashHitSafe, SetCaptureSafe, TableDelSafe, CollectionSafe

LEMMA HeapInvImplies == ASSUME TypeOK, HeapInv PROVE NoDangling
  BY HeapAssumption DEF HeapInv, PointersSound, NoDangling, RootPointers, Pointers, Captured,
     Sound, Live

\* Whatever a script does, the heap keeps its types, and its pointers, the
\* remembered set and the intern table stay sound, as long as no fresh object
\* is stored over an entry of an old table's hash part (jit.cpp:2872).
LEMMA HeapInvariant == ASSUME YoungOverHit = FALSE PROVE Spec => [](TypeOK /\ HeapInv)
  <1>1. Init => TypeOK /\ HeapInv
    BY HeapInit
  <1>2. TypeOK /\ HeapInv /\ [Next]_vars => (TypeOK /\ HeapInv)'
    BY TypeNext, HeapNext DEF HeapInv
  <1> QED
    BY <1>1, <1>2, PTL DEF Spec

\* The types of the heap.
THEOREM HeapTypes == ASSUME YoungOverHit = FALSE PROVE Spec => []TypeOK
  BY HeapInvariant, PTL

\* A collection frees nothing that a register, a global, a module or a live
\* object points to: a minor one needs no more than its roots, the remembered
\* set and the nursery for that (gcMinor, gcFull).
THEOREM HeapSafe == ASSUME YoungOverHit = FALSE PROVE Spec => []NoDangling
  <1>1. TypeOK /\ HeapInv => NoDangling
    BY HeapInvImplies
  <1> QED
    BY <1>1, HeapInvariant, PTL

\* The write barrier misses no old object that points to a young one, though
\* allocation, captures, stores and collections come in any order.
THEOREM BarrierComplete == ASSUME YoungOverHit = FALSE PROVE Spec => []YoungAreRemembered
  <1>1. HeapInv => YoungAreRemembered
    BY DEF HeapInv
  <1> QED
    BY <1>1, HeapInvariant, PTL

\* The dirty bits and the remembered set agree after every collection.
THEOREM DirtyExact == ASSUME YoungOverHit = FALSE PROVE Spec => []DirtyAreRemembered
  <1>1. HeapInv => DirtyAreRemembered
    BY DEF HeapInv
  <1> QED
    BY <1>1, HeapInvariant, PTL

\* intern never returns a string that was swept, nor one whose characters an
\* append has changed.
THEOREM InternSound == ASSUME YoungOverHit = FALSE PROVE Spec => []InternTableLive
  <1>1. HeapInv => InternTableLive
    BY DEF HeapInv
  <1> QED
    BY <1>1, HeapInvariant, PTL

-----------------------------------------------------------------------------
(* What a script can tell of a collection.                                 *)

LiveObj == {o \in Obj : Live(o)}

\* What the script can still get hold of.
Reachable == Reached(LiveObj, RootPointers)

\* The object o and what it holds are as they were.
Same(o) ==
  /\ age'[o] # "free" /\ ref'[o] = ref[o]
  /\ o \in Closures => env'[o] = env[o]
  /\ o \in Strings => text'[o] = text[o] /\ interned'[o] = interned[o]

\* A collection the script cannot see.
Invisible ==
  /\ UNCHANGED <<root, moduleEnv>>
  /\ Reachable' = Reachable
  /\ \A o \in Reachable : Same(o)

\* A collection that leaves no garbage.
Thorough == LiveObj' = Reachable'

LEMMA SweepKeeps ==
  ASSUME TypeOK, NEW dead \in SUBSET Obj, Sweep(dead), Unreferenced(dead)
  PROVE  /\ UNCHANGED <<root, moduleEnv>>
         /\ LiveObj' = LiveObj \ dead
         /\ \A o \in LiveObj \ dead : Same(o) /\ Pointers(o)' = Pointers(o)
  <1> USE HeapAssumption DEF Sweep, Unreferenced
  <1>1. \A r \in Roots : root'[r] = root[r]
    BY DEF RootPointers
  <1>2. root' = root
    BY <1>1 DEF TypeOK
  <1>3. moduleEnv' = moduleEnv
    BY DEF RootPointers
  <1>4. LiveObj' = LiveObj \ dead
    BY DEF LiveObj, Live, TypeOK
  <1>5. ASSUME NEW o \in LiveObj \ dead
        PROVE  Same(o) /\ Pointers(o)' = Pointers(o)
    <2>1. o \in Obj /\ age'[o] # "free"
      BY <1>4, <1>5 DEF LiveObj, Live
    <2>2. \A f \in Fields : ref'[o][f] = ref[o][f]
      BY <1>5, <2>1 DEF Pointers, Captured
    <2>3. ref'[o] = ref[o]
      <3>1. /\ ref[o] = [f \in Fields |-> ref[o][f]]
            /\ ref'[o] = [f \in Fields |-> ref'[o][f]]
        BY <2>1 DEF TypeOK
      <3> QED
        BY <2>2, <3>1
    <2>4. o \in Closures => env'[o] = env[o]
      BY <1>5, <2>1 DEF Pointers
    <2>5. o \in Strings => text'[o] = text[o] /\ interned'[o] = interned[o]
      BY <1>5 DEF TypeOK
    <2> QED
      BY <2>1, <2>3, <2>4, <2>5 DEF Same, Pointers, Captured
  <1> QED
    BY <1>2, <1>3, <1>4, <1>5

LEMMA SweepReach ==
  ASSUME TypeOK, NEW dead \in SUBSET Obj, Sweep(dead), Unreferenced(dead)
  PROVE  Reachable' = Reachable /\ Reachable \subseteq LiveObj \ dead
  <1> DEFINE S == LiveObj
             T == LiveObj \ dead
             Closed == {M \in SUBSET S : /\ RootPointers \cap S \subseteq M
                                         /\ \A x \in M : Pointers(x) \cap S \subseteq M}
             Left == {M \in SUBSET T : /\ RootPointers \cap T \subseteq M
                                       /\ \A x \in M : Pointers(x) \cap T \subseteq M}
  <1>1. Reachable = {o \in S : \A M \in Closed : o \in M}
    BY DEF Reachable, Reached
  <1>2. /\ LiveObj' = T /\ RootPointers' = RootPointers
        /\ \A x \in T : Pointers(x)' = Pointers(x)
    BY SweepKeeps DEF RootPointers
  <1>3. Reachable' = {o \in T : \A M \in Left : o \in M}
    <2>1. Reachable' = {o \in LiveObj' : \A M \in Closed' : o \in M}
      BY DEF Reachable, Reached
    <2>2. Closed' = Left
      BY <1>2
    <2> QED
      BY <1>2, <2>1, <2>2
  <1>4. /\ RootPointers \cap dead = {} /\ \A x \in T : Pointers(x) \cap dead = {}
    BY DEF Unreferenced, LiveObj
  <1>5. T \in Closed
    BY <1>4
  <1>6. Left \subseteq Closed
    BY <1>4
  <1>7. ASSUME NEW M \in Closed PROVE M \cap T \in Left
    OBVIOUS
  <1> HIDE DEF Closed, Left, S, T
  <1>8. Reachable \subseteq T
    BY <1>1, <1>5
  <1>9. Reachable \subseteq Reachable'
    BY <1>1, <1>3, <1>6, <1>8
  <1>10. T \subseteq S
    BY DEF S, T
  <1>11. Reachable' \subseteq Reachable
    BY <1>1, <1>3, <1>7, <1>10
  <1> QED
    BY <1>8, <1>9, <1>11 DEF T

LEMMA CollectionUnseen ==
  ASSUME TypeOK, HeapInv, GcMinor \/ GcFull PROVE Invisible
  <1>1. PICK dead \in SUBSET Obj : Sweep(dead) /\ Unreferenced(dead)
    BY CollectionSweeps
  <1>2. Reachable' = Reachable /\ Reachable \subseteq LiveObj \ dead
    BY <1>1, SweepReach
  <1>3. /\ UNCHANGED <<root, moduleEnv>>
        /\ \A o \in LiveObj \ dead : Same(o)
    BY <1>1, SweepKeeps
  <1> QED
    BY <1>2, <1>3 DEF Invisible

\* No script can tell when a collection ran: what it can reach is the same,
\* and holds what it held, after gcMinor and after gcFull.
THEOREM CollectionsInvisible ==
  ASSUME YoungOverHit = FALSE
  PROVE  Spec => [][GcMinor \/ GcFull => Invisible]_vars
  <1>1. TypeOK /\ HeapInv => [GcMinor \/ GcFull => Invisible]_vars
    BY CollectionUnseen
  <1> QED
    BY <1>1, HeapInvariant, PTL

\* A full collection leaves no garbage, not even a cycle: every object left
\* is one that the script can reach (gcFull).
THEOREM FullIsThorough ==
  ASSUME YoungOverHit = FALSE
  PROVE  Spec => [][GcFull => Thorough]_vars
  <1>1. ASSUME TypeOK, HeapInv, GcFull PROVE Thorough
    <2> DEFINE dead == LiveObj \ Reachable
    <2>1. dead \in SUBSET Obj /\ Sweep(dead) /\ Unreferenced(dead)
      <3>1. Unreferenced(dead)
        BY <1>1, FullDead DEF LiveObj, Reachable
      <3>2. Sweep(dead)
        BY <1>1 DEF GcFull, LiveObj, Reachable
      <3> QED
        BY <3>1, <3>2 DEF Unreferenced
    <2>2. Reachable \subseteq LiveObj
      BY ReachedClosed DEF Reachable
    <2>3. LiveObj \ dead = Reachable
      BY <2>2
    <2> HIDE DEF dead
    <2>4. Reachable' = Reachable
      BY <1>1, <2>1, SweepReach
    <2>5. LiveObj' = LiveObj \ dead
      BY <1>1, <2>1, SweepKeeps
    <2> QED
      BY <2>3, <2>4, <2>5 DEF Thorough
  <1>2. TypeOK /\ HeapInv => [GcFull => Thorough]_vars
    BY <1>1
  <1> QED
    BY <1>2, HeapInvariant, PTL

-----------------------------------------------------------------------------
(* A heap without a collector.                                             *)

\* What o holds.
View(o) ==
  [key |-> ref[o]["key"], val |-> ref[o]["val"],
   env |-> IF o \in Closures THEN env[o] ELSE Nil,
   text |-> IF o \in Strings THEN text[o] ELSE Nil,
   interned |-> IF o \in Strings THEN interned[o] ELSE FALSE]

\* What the script can get hold of.
Held == [o \in Reachable |-> View(o)]

Script == INSTANCE ScriptHeap WITH held <- Held

\* A literal keeps its characters, a free string is not interned, strings
\* hold no pointers and closures only a capture, and the only environment
\* closures have is the module's.
LiteralInv ==
  /\ \A s \in Strings : interned[s] => age[s] # "free"
  /\ \A c \in Closures : \A s \in consts[c] : s # Dangling => interned[s] /\ text[s] = Literal
  /\ \A c \in Closures : env[c] \in {Nil, moduleEnv}
  /\ \A s \in Strings : \A f \in Fields : ref[s][f] = Nil
  /\ \A c \in Closures : ref[c]["key"] = Nil

ScriptInv == TypeOK /\ HeapInv /\ LiteralInv

\* Strings that were interned stay interned and keep their characters.
LEMMA LiteralsKept ==
  ASSUME TypeOK, HeapInv, LiteralInv, TypeOK', OnlyBirths,
         \A s \in Strings : interned[s] => interned'[s] /\ text'[s] = text[s],
         \A s \in Strings : interned'[s] => interned[s] \/ age'[s] # "free",
         \A c \in Closures : consts'[c] = consts[c] \/
           \A s \in consts'[c] : s # Dangling => interned'[s] /\ text'[s] = Literal,
         \A c \in Closures : env'[c] = env[c] \/ env'[c] \in {Nil, moduleEnv},
         moduleEnv' = moduleEnv \/ moduleEnv = Nil,
         \A s \in Strings : ref'[s] = ref[s],
         \A c \in Closures : ref'[c]["key"] = ref[c]["key"]
  PROVE  LiteralInv'
  <1>1. ASSUME NEW s \in Strings, interned'[s] PROVE age'[s] # "free"
    BY <1>1, Births DEF LiteralInv, Obj
  <1>2. ASSUME NEW c \in Closures, NEW s \in consts'[c], s # Dangling
        PROVE  interned'[s] /\ text'[s] = Literal
    <2>1. CASE consts'[c] = consts[c]
      <3>1. s \in Strings /\ interned[s] /\ text[s] = Literal
        BY <1>2, <2>1 DEF LiteralInv, TypeOK
      <3> QED
        BY <3>1
    <2>2. CASE consts'[c] # consts[c]
      BY <1>2, <2>2
    <2> QED
      BY <2>1, <2>2
  <1>3. ASSUME NEW c \in Closures PROVE env'[c] \in {Nil, moduleEnv'}
    BY <1>3 DEF LiteralInv
  <1>4. /\ \A s \in Strings : \A f \in Fields : ref'[s][f] = Nil
        /\ \A c \in Closures : ref'[c]["key"] = Nil
    BY DEF LiteralInv
  <1> QED
    BY <1>1, <1>2, <1>3, <1>4 DEF LiteralInv

LEMMA LiteralSweep ==
  ASSUME TypeOK, HeapInv, LiteralInv, TypeOK', GcMinor \/ GcFull
  PROVE  LiteralInv'
  <1> USE HeapAssumption
  <1>1. PICK dead \in SUBSET Obj : Sweep(dead) /\ Unreferenced(dead)
    BY CollectionSweeps
  <1>2. ASSUME NEW s \in Strings, interned'[s] PROVE age'[s] # "free"
    BY <1>1, <1>2 DEF Sweep, LiteralInv, Obj, TypeOK
  <1>3. ASSUME NEW c \in Closures, NEW s \in consts'[c], s # Dangling
        PROVE  interned'[s] /\ text'[s] = Literal
    <2>1. c \notin dead /\ s \in consts[c] /\ s \notin dead
      BY <1>1, <1>3 DEF Sweep
    <2>2. s \in Strings /\ interned[s] /\ text[s] = Literal
      BY <1>3, <2>1 DEF LiteralInv, TypeOK
    <2> QED
      BY <1>1, <2>1, <2>2 DEF Sweep
  <1>4. ASSUME NEW c \in Closures PROVE env'[c] \in {Nil, moduleEnv'}
    <2>1. moduleEnv' = moduleEnv
      BY <1>1, SweepKeeps
    <2>2. moduleEnv \notin dead
      BY <1>1 DEF Unreferenced, RootPointers
    <2>3. Nil \notin dead
      OBVIOUS
    <2> QED
      BY <1>1, <2>1, <2>2, <2>3 DEF Sweep, LiteralInv
  <1>5. ASSUME NEW s \in Strings, NEW f \in Fields PROVE ref'[s][f] = Nil
    <2>1. ref[s][f] = Nil /\ s \in Obj
      BY DEF LiteralInv, Obj
    <2> QED
      BY <1>1, <2>1 DEF Sweep
  <1>6. ASSUME NEW c \in Closures PROVE ref'[c]["key"] = Nil
    <2>1. ref[c]["key"] = Nil /\ c \in Obj /\ "key" \in Fields
      BY DEF LiteralInv, Obj, Fields
    <2> QED
      BY <1>1, <2>1 DEF Sweep
  <1> QED
    BY <1>2, <1>3, <1>4, <1>5, <1>6 DEF LiteralInv

LEMMA LiteralExec ==
  ASSUME TypeOK, HeapInv, LiteralInv, TypeOK',
         NEW s \in Strings, NEW c \in Closures, NEW e \in Tables \cup {Nil}, Exec(s, c, e)
  PROVE  LiteralInv'
  <1> USE HeapAssumption
  <1>1. /\ c # s /\ s \in Obj /\ c \in Obj
        /\ OnlyBirths /\ age'[s] # "free" /\ age[c] = "free"
    BY DEF Exec, OnlyBirths, Obj, TypeOK
  <1>2. /\ env' = [env EXCEPT ![c] = e] /\ consts' = [consts EXCEPT ![c] = {s}]
        /\ e \in {Nil, moduleEnv} /\ moduleEnv' = moduleEnv
    BY DEF Exec
  <1>3. /\ \A u \in Strings : interned[u] => interned'[u] /\ text'[u] = text[u]
        /\ \A u \in Strings : interned'[u] => interned[u] \/ age'[u] # "free"
        /\ interned'[s] /\ text'[s] = Literal
    <2>1. CASE internTable[Literal] # Nil
      <3>1. s = internTable[Literal] /\ UNCHANGED <<text, interned>>
        BY <2>1 DEF Exec, Intern
      <3> QED
        BY <2>1, <3>1 DEF HeapInv, InternTableLive
    <2>2. CASE internTable[Literal] = Nil
      <3>1. /\ text' = [text EXCEPT ![s] = Literal] /\ age[s] = "free"
            /\ interned' = [interned EXCEPT ![s] = TRUE]
        BY <2>2 DEF Exec, Intern
      <3>2. ~interned[s]
        BY <3>1 DEF LiteralInv
      <3> QED
        BY <1>1, <3>1, <3>2 DEF TypeOK
    <2> QED
      BY <2>1, <2>2
  <1>4. \A d \in Closures : consts'[d] = consts[d] \/
          \A u \in consts'[d] : u # Dangling => interned'[u] /\ text'[u] = Literal
    BY <1>2, <1>3 DEF TypeOK
  <1>5. \A d \in Closures : env'[d] = env[d] \/ env'[d] \in {Nil, moduleEnv}
    BY <1>2 DEF TypeOK
  <1>6. ref' = ref
    BY DEF Exec
  <1> QED
    BY <1>1, <1>2, <1>3, <1>4, <1>5, <1>6, LiteralsKept

LEMMA LiteralNext ==
  ASSUME YoungOverHit = FALSE, TypeOK, HeapInv, LiteralInv, [Next]_vars, TypeOK'
  PROVE  LiteralInv'
  <1> USE HeapAssumption
  <1>0. CASE \/ UNCHANGED vars
             \/ \E r \in Roots, s \in Strings : LoadK(r, s)
             \/ \E r \in Roots, v \in Ptr : Move(r, v)
             \/ \E r \in Roots, o \in Obj, f \in Fields : Load(r, o, f)
             \/ \E t \in Tables, k \in Ptr, v \in Ptr : TableSet(t, k, v)
             \/ \E t \in Tables, k \in Ptr, v \in Ptr : InlineHashHit(t, k, v)
             \/ \E c \in Closures, v \in Ptr : SetCapture(c, v)
             \/ \E t \in Tables : TableDel(t)
    <2>1. UNCHANGED <<age, env, consts, text, interned, moduleEnv>>
      BY <1>0 DEF vars, heap, strings, LoadK, Move, Load, TableSet, InlineHashHit, SetCapture,
         TableDel
    <2>2. /\ \A s \in Strings : ref'[s] = ref[s]
          /\ \A c \in Closures : ref'[c]["key"] = ref[c]["key"]
      <3>1. CASE \/ UNCHANGED vars
                 \/ \E r \in Roots, s \in Strings : LoadK(r, s)
                 \/ \E r \in Roots, v \in Ptr : Move(r, v)
                 \/ \E r \in Roots, o \in Obj, f \in Fields : Load(r, o, f)
        BY <3>1 DEF vars, heap, LoadK, Move, Load
      <3>2. CASE \E t \in Tables, k \in Ptr, v \in Ptr : TableSet(t, k, v)
        BY <3>2 DEF TableSet, Obj, TypeOK
      <3>3. CASE \E t \in Tables, k \in Ptr, v \in Ptr : InlineHashHit(t, k, v)
        BY <3>3 DEF InlineHashHit, Obj, TypeOK
      <3>4. CASE \E c \in Closures, v \in Ptr : SetCapture(c, v)
        BY <3>4 DEF SetCapture, Obj, TypeOK, Fields
      <3>5. CASE \E t \in Tables : TableDel(t)
        BY <3>5 DEF TableDel, Obj, TypeOK
      <3> QED
        BY <1>0, <3>1, <3>2, <3>3, <3>4, <3>5
    <2> QED
      BY <2>1, <2>2 DEF LiteralInv
  <1>1. ASSUME NEW t \in Tables, Import(t) PROVE LiteralInv'
    <2>1. /\ OnlyBirths /\ UNCHANGED <<ref, env, consts, text, interned>> /\ moduleEnv = Nil
      BY <1>1 DEF Import, Alloc, OnlyBirths, strings, TypeOK
    <2> QED
      BY <2>1, LiteralsKept
  <1>2. ASSUME NEW r \in Roots, NEW t \in Tables, NEW k \in Ptr, NEW v \in Ptr,
               MakeTable(r, t, k, v)
        PROVE  LiteralInv'
    <2>1. OnlyBirths /\ UNCHANGED <<env, consts, text, interned, moduleEnv>>
      BY <1>2 DEF MakeTable, Alloc, OnlyBirths, strings, TypeOK
    <2>2. /\ \A s \in Strings : ref'[s] = ref[s]
          /\ \A c \in Closures : ref'[c]["key"] = ref[c]["key"]
      BY <1>2 DEF MakeTable, Obj, TypeOK
    <2> QED
      BY <2>1, <2>2, LiteralsKept
  <1>3. ASSUME NEW r \in Roots, NEW c \in Closures, NEW p \in Closures, NEW v \in Ptr,
               MakeClosure(r, c, p, v)
        PROVE  LiteralInv'
    <2>1. /\ OnlyBirths /\ UNCHANGED <<text, interned, moduleEnv>>
          /\ env' = [env EXCEPT ![c] = env[p]] /\ consts' = [consts EXCEPT ![c] = consts[p]]
      BY <1>3 DEF MakeClosure, Alloc, OnlyBirths, strings, TypeOK
    <2>2. \A d \in Closures : consts'[d] = consts[d] \/
            \A s \in consts'[d] : s # Dangling => interned'[s] /\ text'[s] = Literal
      BY <2>1 DEF LiteralInv, TypeOK
    <2>3. \A d \in Closures : env'[d] = env[d] \/ env'[d] \in {Nil, moduleEnv}
      BY <2>1 DEF LiteralInv, TypeOK
    <2>4. /\ \A s \in Strings : ref'[s] = ref[s]
          /\ \A d \in Closures : ref'[d]["key"] = ref[d]["key"]
      BY <1>3 DEF MakeClosure, Obj, TypeOK, Fields
    <2> QED
      BY <2>1, <2>2, <2>3, <2>4, LiteralsKept
  <1>4. ASSUME NEW r \in Roots, NEW q \in Roots, NEW s \in Strings, NEW t \in Contents,
               Concat(r, q, s, t)
        PROVE  LiteralInv'
    <2>1. UNCHANGED <<ref, env, consts, moduleEnv, interned>> /\ text' = [text EXCEPT ![s] = t]
      BY <1>4 DEF Concat, AllocString
    <2>2. ~interned[s] /\ OnlyBirths
      <3>1. CASE GrowsInPlace(r, q)
        BY <1>4, <3>1 DEF Concat, GrowsInPlace, OnlyBirths
      <3>2. CASE ~GrowsInPlace(r, q)
        <4>1. AllocString(s, t)
          BY <1>4, <3>2 DEF Concat
        <4> QED
          BY <4>1 DEF AllocString, Alloc, OnlyBirths, LiteralInv, TypeOK
      <3> QED
        BY <3>1, <3>2
    <2>3. \A u \in Strings : interned[u] => text'[u] = text[u]
      BY <2>1, <2>2 DEF TypeOK
    <2> QED
      BY <2>1, <2>2, <2>3, LiteralsKept
  <1> QED
    BY <1>0, <1>1, <1>2, <1>3, <1>4, NextCases, LiteralExec, LiteralSweep

LEMMA ScriptInvariant == ASSUME YoungOverHit = FALSE PROVE Spec => []ScriptInv
  <1>1. Init => ScriptInv
    <2>1. Init => LiteralInv
      BY DEF Init, LiteralInv, Obj, Fields
    <2> QED
      BY <2>1, HeapInit DEF ScriptInv
  <1>2. ScriptInv /\ [Next]_vars => ScriptInv'
    BY TypeNext, HeapNext, LiteralNext DEF ScriptInv, HeapInv
  <1> QED
    BY <1>1, <1>2, PTL DEF Spec

\* What the roots and the reachable objects hold is reachable.
LEMMA ReachableClosed ==
  ASSUME TypeOK, HeapInv
  PROVE  /\ Reachable \subseteq LiveObj /\ LiveObj \subseteq Obj /\ Nil \notin Obj
         /\ RootPointers \subseteq Reachable \cup {Nil}
         /\ \A x \in Reachable : Script!Points(View(x)) \subseteq Reachable \cup {Nil}
  <1> USE HeapAssumption
  <1>1. /\ Reachable \subseteq LiveObj
        /\ RootPointers \cap LiveObj \subseteq Reachable
        /\ \A x \in Reachable : Pointers(x) \cap LiveObj \subseteq Reachable
    BY ReachedClosed DEF Reachable
  <1>2. LiveObj \subseteq Obj /\ Nil \notin Obj
    BY DEF LiveObj
  <1>3. \A p : Sound(p) => p = Nil \/ p \in LiveObj
    BY DEF Sound, LiveObj, Live
  <1>4. RootPointers \subseteq Reachable \cup {Nil}
    BY <1>1, <1>3 DEF HeapInv, PointersSound, RootPointers
  <1>5. ASSUME NEW x \in Reachable
        PROVE  Script!Points(View(x)) \subseteq Reachable \cup {Nil}
    <2>1. x \in Obj
      BY <1>1, <1>2
    <2>2. Script!Points(View(x)) \subseteq Pointers(x) \cup {Nil}
      BY DEF Script!Points, View, Pointers, Captured, Fields
    <2>3. \A p \in Pointers(x) : Sound(p)
      BY <2>1 DEF Pointers, Captured, HeapInv, PointersSound
    <2> QED
      BY <1>1, <1>3, <2>2, <2>3
  <1> QED
    BY <1>1, <1>2, <1>4, <1>5

\* Marking within a set that holds the roots and is closed finds the same.
LEMMA ReachHeld ==
  ASSUME TypeOK, HeapInv PROVE Script!Reach(Held, RootPointers) = Reachable
  <1> DEFINE S == LiveObj
             D == Reachable
             Closed == {M \in SUBSET S : /\ RootPointers \cap S \subseteq M
                                         /\ \A x \in M : Pointers(x) \cap S \subseteq M}
             Within == {M \in SUBSET D : /\ RootPointers \cap D \subseteq M
                                         /\ \A x \in M : Script!Points(Held[x]) \cap D \subseteq M}
  <1>1. Reachable = {o \in S : \A M \in Closed : o \in M}
    BY DEF Reachable, Reached
  <1>2. Script!Reach(Held, RootPointers) = {o \in D : \A M \in Within : o \in M}
    BY DEF Script!Reach, Held
  <1>3. Within \subseteq Closed
    <2>1. ASSUME NEW M \in Within PROVE M \subseteq S /\ RootPointers \cap S \subseteq M
      BY ReachableClosed
    <2>2. ASSUME NEW M \in Within, NEW x \in M PROVE Pointers(x) \cap S \subseteq M
      <3>1. x \in Reachable
        OBVIOUS
      <3>2. Pointers(x) \subseteq Script!Points(View(x))
        BY DEF Script!Points, View, Pointers, Captured, Fields
      <3>3. Held[x] = View(x)
        BY <3>1 DEF Held
      <3>4. Script!Points(View(x)) \subseteq Reachable \cup {Nil} /\ Nil \notin S
        BY <3>1, ReachableClosed
      <3> QED
        BY <3>2, <3>3, <3>4
    <2> QED
      BY <2>1, <2>2
  <1> HIDE DEF S, Closed, Within
  <1> QED
    BY <1>1, <1>2, <1>3

\* A step that births or changes the objects of N, in the eyes of the script:
\* h is what it sees before what it cannot reach any more is forgotten.
Seen(N, h) ==
  /\ N \subseteq Obj /\ \A x \in N : age'[x] # "free"
  /\ h = [x \in Reachable \cup N |-> View(x)']
  /\ RootPointers' \subseteq Reachable \cup N \cup {Nil}
  /\ \A x \in Reachable \cup N :
       Script!Points(View(x)') \subseteq Reachable \cup N \cup {Nil}

LEMMA KeepSeen ==
  ASSUME TypeOK, HeapInv, TypeOK', OnlyBirths, NEW N, NEW h, Seen(N, h)
  PROVE  Script!Keep(h)
  <1> USE DEF Seen
  <1> DEFINE S == LiveObj'
             D == Reachable \cup N
             R == RootPointers'
             Closed == {M \in SUBSET S : /\ R \cap S \subseteq M
                                         /\ \A x \in M : Pointers(x)' \cap S \subseteq M}
             Within == {M \in SUBSET D : /\ R \cap D \subseteq M
                                         /\ \A x \in M : Script!Points(h[x]) \cap D \subseteq M}
  <1>1. Reachable' = {o \in S : \A M \in Closed : o \in M}
    BY DEF Reachable, Reached
  <1>2. Script!Reach(h, R) = {o \in D : \A M \in Within : o \in M}
    BY DEF Script!Reach
  <1>3. D \subseteq S /\ Nil \notin S
    <2>1. \A x \in LiveObj : x \in S
      BY Births DEF LiveObj, Live
    <2> QED
      BY <2>1, ReachableClosed DEF LiveObj, Live
  <1>4. \A x \in D : Pointers(x)' \cap S \subseteq Script!Points(h[x]) /\ Script!Points(h[x]) \cap S \subseteq Pointers(x)'
    <2>1. ASSUME NEW x \in D
          PROVE  /\ Pointers(x)' \subseteq Script!Points(View(x)')
                 /\ Script!Points(View(x)') \subseteq Pointers(x)' \cup {Nil}
      BY DEF Script!Points, View, Pointers, Captured, Fields
    <2>2. \A x \in D : h[x] = View(x)'
      OBVIOUS
    <2> QED
      BY <1>3, <2>1, <2>2
  <1>5. \A x \in D : Script!Points(h[x]) \cap S \subseteq D
    <2>1. \A x \in D : h[x] = View(x)'
      OBVIOUS
    <2> QED
      BY <1>3, <2>1
  <1>6. R \cap S \subseteq D
    BY <1>3
  <1>7. Within \subseteq Closed
    BY <1>3, <1>4, <1>5, <1>6
  <1>8. D \in Closed
    BY <1>3, <1>4, <1>5, <1>6
  <1>9. ASSUME NEW M \in Closed PROVE M \cap D \in Within
    BY <1>3, <1>4
  <1>10. \A o \in D : h[o] = View(o)'
    OBVIOUS
  <1> HIDE DEF S, D, R, Closed, Within
  <1>11. Script!Reach(h, R) = Reachable' /\ Reachable' \subseteq D
    <2>1. Reachable' \subseteq D
      BY <1>1, <1>8
    <2>2. Reachable' \subseteq Script!Reach(h, R)
      <3>1. ASSUME NEW o \in Reachable', NEW M \in Within PROVE o \in M
        BY <1>1, <1>7, <3>1
      <3> QED
        BY <1>2, <2>1, <3>1
    <2>3. Script!Reach(h, R) \subseteq Reachable'
      <3>1. ASSUME NEW o \in Script!Reach(h, R), NEW M \in Closed PROVE o \in M
        BY <1>2, <1>9, <3>1
      <3>2. Script!Reach(h, R) \subseteq S
        BY <1>2, <1>3
      <3> QED
        BY <1>1, <3>1, <3>2
    <2> QED
      BY <2>1, <2>2, <2>3
  <1>12. Held' = [o \in Reachable' |-> View(o)']
    BY DEF Held
  <1>13. Held' = [o \in Script!Reach(h, R) |-> h[o]]
    BY <1>10, <1>11, <1>12
  <1>14. R = Script!RootPointers'
    BY DEF R, RootPointers, Script!RootPointers
  <1> QED
    BY <1>13, <1>14 DEF Script!Keep

\* Nothing the script sees changes but its roots.
LEMMA KeepHeld ==
  ASSUME TypeOK, HeapInv, TypeOK', OnlyBirths,
         \A x \in Reachable : View(x)' = View(x),
         RootPointers' \subseteq Reachable \cup {Nil}
  PROVE  Script!Keep(Held)
  <1>1. Held = [x \in Reachable \cup {} |-> View(x)']
    BY DEF Held
  <1>2. \A x \in Reachable : Script!Points(View(x)') \subseteq Reachable \cup {Nil}
    BY ReachableClosed
  <1>3. Seen({}, Held)
    BY <1>1, <1>2 DEF Seen
  <1> QED
    BY <1>3, KeepSeen

\* The object o is made or changed, and holds x.
LEMMA KeepPut ==
  ASSUME TypeOK, HeapInv, TypeOK', OnlyBirths, NEW o \in Obj, NEW x, age'[o] # "free",
         View(o)' = x, Script!Points(x) \subseteq Reachable \cup {o, Nil},
         \A p \in Reachable \ {o} : View(p)' = View(p),
         RootPointers' \subseteq Reachable \cup {o, Nil}
  PROVE  Script!Keep(Script!Put(o, x))
  <1>1. Script!Put(o, x) = [p \in Reachable \cup {o} |-> View(p)']
    BY DEF Script!Put, Held
  <1>2. \A p \in Reachable \cup {o} :
          Script!Points(View(p)') \subseteq Reachable \cup {o} \cup {Nil}
    BY ReachableClosed
  <1>3. Seen({o}, Script!Put(o, x))
    BY <1>1, <1>2 DEF Seen
  <1> QED
    BY <1>3, KeepSeen

LEMMA ViewKept ==
  ASSUME TypeOK, NEW x \in Obj, ref'[x] = ref[x],
         x \in Closures => env'[x] = env[x],
         x \in Strings => text'[x] = text[x] /\ interned'[x] = interned[x]
  PROVE  View(x)' = View(x)
  BY DEF View

\* What every instruction keeps: TypeOK' is of the next state.
Stepping == ScriptInv /\ TypeOK'

\* Only a root changes: to something at hand.
LEMMA RootSeen ==
  ASSUME Stepping, UNCHANGED heap, UNCHANGED strings, NEW r \in Roots, NEW v,
         v \in Reachable \cup {Nil}, SetRoot(r, v), UNCHANGED moduleEnv
  PROVE  Script!SetRoot(r, v) /\ Script!Keep(Held)
  <1>1. OnlyBirths
    BY DEF heap, OnlyBirths
  <1>2. \A x \in Reachable : View(x)' = View(x)
    BY DEF heap, strings, View
  <1>3. \A q \in Roots : root'[q] \in {root[q], v}
    BY DEF SetRoot, Stepping, ScriptInv, TypeOK
  <1>4. RootPointers' \subseteq RootPointers \cup {v}
    BY <1>3 DEF RootPointers
  <1>5. RootPointers' \subseteq Reachable \cup {Nil}
    BY <1>4, ReachableClosed DEF Stepping, ScriptInv
  <1>6. Script!Keep(Held)
    BY <1>1, <1>2, <1>5, KeepHeld DEF Stepping, ScriptInv
  <1> QED
    BY <1>6 DEF Script!SetRoot, SetRoot

\* A new object in a root.
LEMMA NewSeen ==
  ASSUME Stepping, OnlyBirths, NEW r \in Roots, NEW o \in Obj, NEW x, o \notin Reachable,
         age'[o] # "free", View(o)' = x, Script!Points(x) \subseteq Reachable \cup {Nil},
         \A p \in Reachable \ {o} : View(p)' = View(p),
         SetRoot(r, o), UNCHANGED moduleEnv
  PROVE  Script!New(r, o, x)
  <1>1. \A q \in Roots : root'[q] \in {root[q], o}
    BY DEF SetRoot, Stepping, ScriptInv, TypeOK
  <1>2. RootPointers' \subseteq RootPointers \cup {o}
    BY <1>1 DEF RootPointers
  <1>3. RootPointers' \subseteq Reachable \cup {o, Nil}
    BY <1>2, ReachableClosed DEF Stepping, ScriptInv
  <1>4. Script!Points(x) \subseteq Reachable \cup {o, Nil}
    OBVIOUS
  <1>5. Script!Keep(Script!Put(o, x))
    BY <1>3, <1>4, KeepPut DEF Stepping, ScriptInv
  <1>6. o \notin DOMAIN Held
    BY DEF Held
  <1> QED
    BY <1>5, <1>6 DEF Script!New, Script!SetRoot, SetRoot

\* A store into an object at hand.
LEMMA ChangeSeen ==
  ASSUME Stepping, age' = age, NEW o \in Reachable, NEW x,
         View(o)' = x, Script!Points(x) \subseteq Reachable \cup {Nil},
         \A p \in Reachable \ {o} : View(p)' = View(p),
         UNCHANGED <<root, moduleEnv>>
  PROVE  Script!Change(o, x)
  <1>1. o \in Obj /\ age'[o] # "free"
    BY ReachableClosed DEF Stepping, ScriptInv, LiveObj, Live
  <1>2. RootPointers' = RootPointers
    BY DEF RootPointers
  <1>3. RootPointers' \subseteq Reachable \cup {o, Nil}
    BY <1>2, ReachableClosed DEF Stepping, ScriptInv
  <1>4. OnlyBirths
    BY DEF OnlyBirths
  <1>5. Script!Points(x) \subseteq Reachable \cup {o, Nil}
    OBVIOUS
  <1>6. Script!Keep(Script!Put(o, x))
    BY <1>1, <1>3, <1>4, <1>5, KeepPut DEF Stepping, ScriptInv
  <1> QED
    BY <1>6 DEF Script!Change

\* What is at hand is reachable; what is free is not.
LEMMA AtHandReachable ==
  ASSUME Stepping
  PROVE  /\ \A v \in RootPointers \cup {Nil} : v \in Reachable \cup {Nil}
         /\ \A v \in RootPointers : v \in Obj => v \in Reachable /\ v \in Obj /\ age[v] # "free"
         /\ \A o \in Obj : age[o] = "free" => o \notin Reachable
         /\ Script!AtHand = RootPointers \cup {Nil}
         /\ Script!RootPointers = RootPointers
         /\ Script!Ptr = Ptr /\ Script!Obj = Obj
         /\ DOMAIN Held = Reachable /\ \A o \in Reachable : Held[o] = View(o)
  <1>1. /\ RootPointers \subseteq Reachable \cup {Nil} /\ Nil \notin Obj
        /\ \A o \in Reachable : Live(o)
    BY ReachableClosed DEF Stepping, ScriptInv, LiveObj
  <1>2. DOMAIN Held = Reachable /\ \A o \in Reachable : Held[o] = View(o)
    BY DEF Held
  <1>3. Script!RootPointers = RootPointers
    BY DEF Script!RootPointers, RootPointers
  <1>4. Script!Ptr = Ptr /\ Script!Obj = Obj
    BY DEF Script!Ptr, Script!Obj, Ptr, Obj
  <1> QED
    BY <1>1, <1>2, <1>3, <1>4 DEF Live, Script!AtHand

LEMMA MoveSeen ==
  ASSUME Stepping, NEW r \in Roots, NEW v \in Ptr, Move(r, v) PROVE Script!Move(r, v)
  <1>1. v \in Reachable \cup {Nil} /\ v \in Script!AtHand
    BY AtHandReachable DEF Move
  <1> QED
    BY <1>1, RootSeen DEF Move, Script!Move

LEMMA LoadSeen ==
  ASSUME Stepping, NEW r \in Roots, NEW o \in Obj, NEW f \in Fields, Load(r, o, f)
  PROVE  Script!Load(r, o, ref[o][f]) /\ ref[o][f] \in Ptr
  <1>1. o \in Reachable /\ Held[o] = View(o)
    BY AtHandReachable DEF Load
  <1>2. ref[o][f] \in {Held[o].key, Held[o].val}
    BY <1>1 DEF View, Fields
  <1>3. ref[o][f] \in Script!Points(View(o))
    BY <1>1, <1>2 DEF Script!Points
  <1>4. ref[o][f] \in Reachable \cup {Nil} /\ ref[o][f] \in Ptr
    BY <1>1, <1>3, ReachableClosed DEF Stepping, ScriptInv, Ptr
  <1> QED
    BY <1>1, <1>2, <1>4, RootSeen, AtHandReachable DEF Load, Script!Load

LEMMA LoadKSeen ==
  ASSUME Stepping, NEW r \in Roots, NEW s \in Strings, LoadK(r, s) PROVE Script!LoadK(r, s)
  <1> USE HeapAssumption
  <1>1. PICK c \in Closures : s \in consts[c]
    BY DEF LoadK
  <1>2. s \in Obj /\ s # Dangling /\ Live(s) /\ interned[s] /\ text[s] = Literal
    BY <1>1 DEF Stepping, ScriptInv, LiteralInv, HeapInv, PointersSound, Obj
  <1>3. View(s) = Script!String(Literal, TRUE)
    BY <1>2 DEF View, Script!String, Stepping, ScriptInv, LiteralInv, Fields
  <1>4. CASE s \in Reachable
    <2>1. Script!SetRoot(r, s) /\ Script!Keep(Held)
      BY <1>4, RootSeen DEF LoadK
    <2> QED
      BY <1>3, <1>4, <2>1, AtHandReachable DEF Script!LoadK
  <1>5. CASE s \notin Reachable
    <2>1. OnlyBirths /\ age'[s] # "free"
      BY <1>2 DEF LoadK, heap, OnlyBirths, Live
    <2>2. \A x \in Reachable \cup {s} : View(x)' = View(x)
      BY DEF LoadK, heap, strings, View
    <2>3. Script!Points(Script!String(Literal, TRUE)) \subseteq Reachable \cup {Nil}
      BY DEF Script!Points, Script!String
    <2>4. SetRoot(r, s) /\ UNCHANGED moduleEnv
      BY DEF LoadK
    <2>5. Script!New(r, s, Script!String(Literal, TRUE))
      BY <1>2, <1>3, <1>5, <2>1, <2>2, <2>3, <2>4, NewSeen
    <2> QED
      BY <2>5 DEF Script!LoadK
  <1> QED
    BY <1>4, <1>5

LEMMA MakeTableSeen ==
  ASSUME Stepping, NEW r \in Roots, NEW t \in Tables, NEW k \in Ptr, NEW v \in Ptr,
         MakeTable(r, t, k, v)
  PROVE  Script!MakeTable(r, t, k, v)
  <1> USE HeapAssumption
  <1>1. t \in Obj /\ age[t] = "free" /\ OnlyBirths /\ age'[t] # "free"
    BY DEF MakeTable, Alloc, OnlyBirths, Obj, Stepping, ScriptInv, TypeOK
  <1>2. {k, v} \subseteq Reachable \cup {Nil} /\ {k, v} \subseteq Script!AtHand
    BY AtHandReachable DEF MakeTable
  <1>3. View(t)' = Script!Table(k, v)
    <2>1. ref'[t]["key"] = k /\ ref'[t]["val"] = v
      BY <1>1 DEF MakeTable, Stepping, ScriptInv, TypeOK, Fields
    <2>2. t \notin Closures /\ t \notin Strings
      OBVIOUS
    <2> QED
      BY <2>1, <2>2 DEF View, Script!Table
  <1>4. ASSUME NEW p \in Reachable \ {t} PROVE View(p)' = View(p)
    <2>1. p \in Obj
      BY ReachableClosed DEF Stepping, ScriptInv
    <2> QED
      BY <2>1, ViewKept DEF MakeTable, strings, Stepping, ScriptInv, TypeOK
  <1>5. Script!Points(Script!Table(k, v)) \subseteq Reachable \cup {Nil}
    BY <1>2 DEF Script!Points, Script!Table
  <1>6. SetRoot(r, t) /\ UNCHANGED moduleEnv /\ t \notin Reachable
    BY <1>1, AtHandReachable DEF MakeTable
  <1>7. Script!New(r, t, Script!Table(k, v))
    BY <1>1, <1>3, <1>4, <1>5, <1>6, NewSeen
  <1> QED
    BY <1>2, <1>7 DEF Script!MakeTable

LEMMA MakeClosureSeen ==
  ASSUME Stepping, NEW r \in Roots, NEW c \in Closures, NEW p \in Closures, NEW v \in Ptr,
         MakeClosure(r, c, p, v)
  PROVE  Script!MakeClosure(r, c, v, env[p]) /\ env[p] \in Ptr
  <1> USE HeapAssumption
  <1>1. c \in Obj /\ age[c] = "free" /\ OnlyBirths /\ age'[c] # "free"
    BY DEF MakeClosure, Alloc, OnlyBirths, Obj, Stepping, ScriptInv, TypeOK
  <1>2. v \in Reachable \cup {Nil} /\ v \in Script!AtHand
    BY AtHandReachable DEF MakeClosure
  <1>3. env[p] \in {Nil, moduleEnv}
    BY DEF Stepping, ScriptInv, LiteralInv
  <1>4. env[p] \in Reachable \cup {Nil} /\ env[p] \in Ptr
    BY <1>3, ReachableClosed DEF Stepping, ScriptInv, RootPointers, Ptr
  <1>5. ref[c]["key"] = Nil
    BY <1>1 DEF Stepping, ScriptInv, HeapInv, FreeAreEmpty, Fields
  <1>6. View(c)' = Script!Closure(v, env[p])
    <2>1. ref'[c]["key"] = Nil /\ ref'[c]["val"] = v
      BY <1>1, <1>5 DEF MakeClosure, Stepping, ScriptInv, TypeOK, Fields
    <2>2. env'[c] = env[p]
      BY DEF MakeClosure, Stepping, ScriptInv, TypeOK
    <2>3. c \notin Strings
      OBVIOUS
    <2> QED
      BY <2>1, <2>2, <2>3 DEF View, Script!Closure
  <1>7. ASSUME NEW x \in Reachable \ {c} PROVE View(x)' = View(x)
    <2>1. x \in Obj
      BY ReachableClosed DEF Stepping, ScriptInv
    <2> QED
      BY <2>1, ViewKept DEF MakeClosure, strings, Stepping, ScriptInv, TypeOK
  <1>8. Script!Points(Script!Closure(v, env[p])) \subseteq Reachable \cup {Nil}
    BY <1>2, <1>4 DEF Script!Points, Script!Closure
  <1>9. SetRoot(r, c) /\ UNCHANGED moduleEnv /\ c \notin Reachable
    BY <1>1, AtHandReachable DEF MakeClosure
  <1>10. Script!New(r, c, Script!Closure(v, env[p]))
    BY <1>1, <1>6, <1>7, <1>8, <1>9, NewSeen
  <1> QED
    BY <1>2, <1>3, <1>4, <1>10 DEF Script!MakeClosure

LEMMA ImportSeen ==
  ASSUME Stepping, NEW t \in Tables, Import(t) PROVE Script!Import(t)
  <1> USE HeapAssumption
  <1>1. t \in Obj /\ age[t] = "free" /\ OnlyBirths /\ age'[t] # "free"
    BY DEF Import, Alloc, OnlyBirths, Obj, Stepping, ScriptInv, TypeOK
  <1>2. View(t)' = Script!Table(Nil, Nil)
    BY <1>1 DEF Import, View, Script!Table, Stepping, ScriptInv, TypeOK, HeapInv, FreeAreEmpty, Fields
  <1>3. \A p \in Reachable \ {t} : View(p)' = View(p)
    BY DEF Import, strings, View
  <1>4. Script!Points(Script!Table(Nil, Nil)) \subseteq Reachable \cup {t, Nil}
    BY DEF Script!Points, Script!Table
  <1>5. RootPointers' \subseteq RootPointers \cup {t}
    BY DEF Import, RootPointers
  <1>6. RootPointers' \subseteq Reachable \cup {t, Nil}
    BY <1>5, ReachableClosed DEF Stepping, ScriptInv
  <1>7. Script!Keep(Script!Put(t, Script!Table(Nil, Nil)))
    BY <1>1, <1>2, <1>3, <1>4, <1>6, KeepPut DEF Stepping, ScriptInv
  <1> QED
    BY <1>1, <1>7, AtHandReachable DEF Script!Import, Import

LEMMA ConcatSeen ==
  ASSUME Stepping, NEW r \in Roots, NEW q \in Roots, NEW s \in Strings, NEW t \in Contents,
         Concat(r, q, s, t)
  PROVE  Script!Concat(r, q, s, t)
  <1> USE HeapAssumption
  <1>1. /\ root[q] \in Strings /\ s \in Obj /\ SetRoot(r, s)
        /\ UNCHANGED <<ref, env, moduleEnv, interned>> /\ text' = [text EXCEPT ![s] = t]
    BY DEF Concat, AllocString, Obj
  <1>2. ASSUME NEW p \in Reachable \ {s} PROVE View(p)' = View(p)
    BY <1>1 DEF View, Stepping, ScriptInv, TypeOK
  <1>3. /\ View(s)' = Script!String(t, interned[s])
        /\ View(s) = Script!String(text[s], interned[s])
    BY <1>1 DEF View, Script!String, Stepping, ScriptInv, TypeOK, LiteralInv, Fields
  <1>4. \A i : Script!Points(Script!String(t, i)) \subseteq Reachable \cup {Nil}
    BY DEF Script!Points, Script!String
  <1>5. CASE GrowsInPlace(r, q)
    <2>1. r = q /\ s = root[q] /\ ~interned[s] /\ age' = age
      BY <1>5 DEF Concat, GrowsInPlace
    <2>2. root' = root
      BY <1>1, <2>1 DEF SetRoot, Stepping, ScriptInv, TypeOK
    <2>3. s \in Reachable
      BY <1>1, <2>1, AtHandReachable DEF RootPointers
    <2>4. ~Held[s].interned
      BY <1>3, <2>1, <2>3, AtHandReachable DEF Script!String
    <2>5. View(s)' = Script!String(t, FALSE)
      BY <1>1, <1>3, <2>1 DEF Stepping, ScriptInv, TypeOK
    <2>6. Script!Change(s, Script!String(t, FALSE))
      BY <1>1, <1>2, <1>4, <2>1, <2>2, <2>3, <2>5, ChangeSeen
    <2> QED
      BY <1>1, <2>1, <2>4, <2>6 DEF Script!Concat
  <1>6. CASE ~GrowsInPlace(r, q)
    <2>1. AllocString(s, t)
      BY <1>6 DEF Concat
    <2>2. age[s] = "free" /\ OnlyBirths /\ age'[s] # "free"
      BY <1>1, <2>1 DEF AllocString, Alloc, OnlyBirths, Stepping, ScriptInv, TypeOK
    <2>3. s \notin Reachable
      BY <1>1, <2>2, AtHandReachable
    <2>4. interned[s] = FALSE
      BY <2>2 DEF Stepping, ScriptInv, LiteralInv, TypeOK
    <2>5. View(s)' = Script!String(t, FALSE)
      BY <1>3, <2>4
    <2>6. Script!New(r, s, Script!String(t, FALSE))
      BY <1>1, <1>2, <1>4, <2>2, <2>3, <2>5, NewSeen
    <2> QED
      BY <1>1, <2>6 DEF Script!Concat
  <1> QED
    BY <1>5, <1>6

\* A store of k and v into a table, with or without a barrier.
LEMMA StoreSeen ==
  ASSUME Stepping, NEW t \in Tables, NEW k \in Ptr, NEW v \in Ptr,
         t \in RootPointers, {k, v} \subseteq RootPointers \cup {Nil},
         ref' = [ref EXCEPT ![t]["key"] = k, ![t]["val"] = v],
         UNCHANGED <<age, env, strings, root, moduleEnv>>
  PROVE  Script!TableSet(t, k, v)
  <1> USE HeapAssumption
  <1>1. t \in Obj /\ t \in Reachable
    BY AtHandReachable DEF Obj
  <1>2. {k, v} \subseteq Reachable \cup {Nil} /\ {k, v} \subseteq Script!AtHand
    BY AtHandReachable
  <1>3. View(t)' = Script!Table(k, v)
    <2>1. ref'[t]["key"] = k /\ ref'[t]["val"] = v
      BY <1>1 DEF Stepping, ScriptInv, TypeOK, Fields
    <2>2. t \notin Closures /\ t \notin Strings
      OBVIOUS
    <2> QED
      BY <2>1, <2>2 DEF View, Script!Table
  <1>4. ASSUME NEW p \in Reachable \ {t} PROVE View(p)' = View(p)
    <2>1. p \in Obj
      BY ReachableClosed DEF Stepping, ScriptInv
    <2> QED
      BY <2>1, ViewKept DEF strings, Stepping, ScriptInv, TypeOK
  <1>5. Script!Points(Script!Table(k, v)) \subseteq Reachable \cup {Nil}
    BY <1>2 DEF Script!Points, Script!Table
  <1>6. Script!Change(t, Script!Table(k, v))
    BY <1>1, <1>3, <1>4, <1>5, ChangeSeen DEF strings
  <1> QED
    BY <1>2, <1>6, AtHandReachable DEF Script!TableSet

LEMMA TableDelSeen ==
  ASSUME Stepping, NEW t \in Tables, TableDel(t) PROVE Script!TableDel(t)
  <1>1. Script!TableSet(t, Nil, Nil)
    BY StoreSeen DEF TableDel, Ptr
  <1> QED
    BY <1>1 DEF Script!TableDel, Script!TableSet

LEMMA SetCaptureSeen ==
  ASSUME Stepping, NEW c \in Closures, NEW v \in Ptr, SetCapture(c, v)
  PROVE  Script!SetCapture(c, v)
  <1> USE HeapAssumption
  <1>1. c \in Obj /\ c \in Reachable /\ Held[c] = View(c)
    BY AtHandReachable DEF SetCapture, Obj
  <1>2. v \in Reachable \cup {Nil} /\ v \in Script!AtHand /\ c \in RootPointers
    BY AtHandReachable DEF SetCapture
  <1>3. Held[c].env = env[c]
    BY <1>1 DEF View
  <1>4. View(c)' = Script!Closure(v, env[c])
    <2>1. ref'[c]["key"] = Nil /\ ref'[c]["val"] = v
      BY <1>1 DEF SetCapture, Stepping, ScriptInv, LiteralInv, TypeOK, Fields
    <2>2. UNCHANGED env /\ c \notin Strings
      BY DEF SetCapture
    <2> QED
      BY <2>1, <2>2 DEF View, Script!Closure
  <1>5. ASSUME NEW p \in Reachable \ {c} PROVE View(p)' = View(p)
    <2>1. p \in Obj
      BY ReachableClosed DEF Stepping, ScriptInv
    <2> QED
      BY <2>1, ViewKept DEF SetCapture, strings, Stepping, ScriptInv, TypeOK
  <1>6. Script!Points(Script!Closure(v, env[c])) \subseteq Reachable \cup {Nil}
    <2>1. Script!Points(View(c)) \subseteq Reachable \cup {Nil}
      BY <1>1, ReachableClosed DEF Stepping, ScriptInv
    <2>2. env[c] \in Script!Points(View(c))
      BY DEF Script!Points, View
    <2> QED
      BY <1>2, <2>1, <2>2 DEF Script!Points, Script!Closure
  <1>7. Script!Change(c, Script!Closure(v, env[c]))
    BY <1>1, <1>4, <1>5, <1>6, ChangeSeen DEF SetCapture
  <1> QED
    BY <1>2, <1>3, <1>7, AtHandReachable DEF Script!SetCapture

\* What a script does not see: the compiler at work, and collections.
LEMMA ExecUnseen ==
  ASSUME Stepping, NEW s \in Strings, NEW c \in Closures, NEW e \in Tables \cup {Nil},
         Exec(s, c, e)
  PROVE  UNCHANGED <<root, moduleEnv, Held>>
  <1> USE HeapAssumption
  <1>1. c \in Obj /\ s \in Obj /\ c # s /\ age[c] = "free" /\ OnlyBirths
    BY DEF Exec, OnlyBirths, Obj, Stepping, ScriptInv, TypeOK
  <1>2. UNCHANGED <<ref, root, moduleEnv>> /\ env' = [env EXCEPT ![c] = e]
    BY DEF Exec
  <1>3. s \in Reachable => text'[s] = text[s] /\ interned'[s] = interned[s]
    <2>1. CASE internTable[Literal] # Nil
      BY <2>1 DEF Exec, Intern
    <2>2. CASE internTable[Literal] = Nil
      <3>1. age[s] = "free"
        BY <2>2 DEF Exec, Intern
      <3> QED
        BY <1>1, <3>1, AtHandReachable
    <2> QED
      BY <2>1, <2>2
  <1>4. \A u \in Strings \ {s} : text'[u] = text[u] /\ interned'[u] = interned[u]
    BY DEF Exec, Intern, Stepping, ScriptInv, TypeOK
  <1>5. ASSUME NEW x \in Reachable PROVE View(x)' = View(x)
    <2>1. x \in Obj /\ x # c
      BY <1>1, AtHandReachable, ReachableClosed DEF Stepping, ScriptInv
    <2>2. x \in Closures => env'[x] = env[x]
      BY <1>2, <2>1 DEF Stepping, ScriptInv, TypeOK
    <2>3. x \in Strings => text'[x] = text[x] /\ interned'[x] = interned[x]
      BY <1>3, <1>4
    <2> QED
      BY <1>2, <2>1, <2>2, <2>3, ViewKept DEF Stepping, ScriptInv
  <1>6. RootPointers' = RootPointers /\ Script!RootPointers' = RootPointers
    BY <1>2 DEF RootPointers, Script!RootPointers
  <1>7. Script!Keep(Held)
    BY <1>1, <1>5, <1>6, KeepHeld, ReachableClosed DEF Stepping, ScriptInv
  <1>8. Held' = [o \in Reachable |-> Held[o]]
    BY <1>6, <1>7, ReachHeld DEF Script!Keep, Stepping, ScriptInv
  <1>9. Held = [o \in Reachable |-> Held[o]]
    BY DEF Held
  <1> QED
    BY <1>2, <1>8, <1>9

LEMMA InvisibleUnseen ==
  ASSUME Stepping, Invisible PROVE UNCHANGED <<root, moduleEnv, Held>>
  <1>1. Reachable' = Reachable /\ Reachable \subseteq Obj
    BY ReachableClosed DEF Invisible, Stepping, ScriptInv
  <1>2. ASSUME NEW x \in Reachable PROVE View(x)' = View(x)
    BY <1>1, ViewKept DEF Invisible, Same, Stepping, ScriptInv
  <1>3. Held' = [x \in Reachable' |-> View(x)']
    BY DEF Held
  <1>4. Held' = [x \in Reachable |-> View(x)]
    BY <1>1, <1>2, <1>3
  <1> QED
    BY <1>4 DEF Invisible, Held

\* Each step of the heap is one of the script's instructions, or unseen.
LEMMA ScriptStep ==
  ASSUME YoungOverHit = FALSE, ScriptInv, [Next]_vars, TypeOK'
  PROVE  [Script!Next]_<<root, moduleEnv, Held>>
  <1> USE DEF Script!Next
  <1>0. Stepping /\ Script!Ptr = Ptr /\ Script!Obj = Obj
    BY AtHandReachable DEF Stepping
  <1>1. CASE UNCHANGED vars
    <2>1. UNCHANGED <<heap, strings, root, moduleEnv>>
      BY <1>1 DEF vars
    <2>2. OnlyBirths /\ RootPointers' = RootPointers /\ \A x \in Reachable : View(x)' = View(x)
      BY <2>1 DEF heap, strings, OnlyBirths, RootPointers, View
    <2>3. Script!RootPointers' = RootPointers
      BY <2>1 DEF Script!RootPointers, RootPointers
    <2>4. Script!Keep(Held)
      BY <1>0, <2>2, KeepHeld, ReachableClosed DEF Stepping, ScriptInv
    <2>5. Held' = [o \in Reachable |-> Held[o]]
      BY <2>3, <2>4, ReachHeld DEF Script!Keep, ScriptInv
    <2>6. Held = [o \in Reachable |-> Held[o]]
      BY DEF Held
    <2> QED
      BY <2>1, <2>5, <2>6
  <1>2. ASSUME NEW s \in Strings, NEW c \in Closures, NEW e \in Tables \cup {Nil}, Exec(s, c, e)
        PROVE  UNCHANGED <<root, moduleEnv, Held>>
    BY <1>0, <1>2, ExecUnseen
  <1>3. ASSUME NEW t \in Tables, Import(t) PROVE Script!Next
    BY <1>0, <1>3, ImportSeen
  <1>4. ASSUME NEW r \in Roots, NEW s \in Strings, LoadK(r, s) PROVE Script!Next
    BY <1>0, <1>4, LoadKSeen
  <1>5. ASSUME NEW r \in Roots, NEW v \in Ptr, Move(r, v) PROVE Script!Next
    BY <1>0, <1>5, MoveSeen
  <1>6. ASSUME NEW r \in Roots, NEW o \in Obj, NEW f \in Fields, Load(r, o, f) PROVE Script!Next
    BY <1>0, <1>6, LoadSeen
  <1>7. ASSUME NEW r \in Roots, NEW c \in Closures, NEW p \in Closures, NEW v \in Ptr,
               MakeClosure(r, c, p, v)
        PROVE  Script!Next
    BY <1>0, <1>7, MakeClosureSeen
  <1>8. ASSUME NEW r \in Roots, NEW t \in Tables, NEW k \in Ptr, NEW v \in Ptr,
               MakeTable(r, t, k, v)
        PROVE  Script!Next
    BY <1>0, <1>8, MakeTableSeen
  <1>9. ASSUME NEW r \in Roots, NEW q \in Roots, NEW s \in Strings, NEW t \in Contents,
               Concat(r, q, s, t)
        PROVE  Script!Next
    BY <1>0, <1>9, ConcatSeen
  <1>10. ASSUME NEW t \in Tables, NEW k \in Ptr, NEW v \in Ptr, TableSet(t, k, v)
         PROVE  Script!Next
    BY <1>0, <1>10, StoreSeen DEF TableSet
  <1>11. ASSUME NEW t \in Tables, NEW k \in Ptr, NEW v \in Ptr, InlineHashHit(t, k, v)
         PROVE  Script!Next
    <2>1. t \in Obj /\ ref[t]["key"] = k
      BY <1>11 DEF InlineHashHit, Obj
    <2>2. ref' = [ref EXCEPT ![t]["key"] = k, ![t]["val"] = v]
      BY <1>0, <1>11, <2>1 DEF InlineHashHit, Stepping, TypeOK, ScriptInv, Fields
    <2>3. Script!TableSet(t, k, v)
      BY <1>0, <1>11, <2>2, StoreSeen DEF InlineHashHit
    <2> QED
      BY <1>0, <2>3
  <1>12. ASSUME NEW c \in Closures, NEW v \in Ptr, SetCapture(c, v) PROVE Script!Next
    BY <1>0, <1>12, SetCaptureSeen
  <1>13. ASSUME NEW t \in Tables, TableDel(t) PROVE Script!Next
    BY <1>0, <1>13, TableDelSeen
  <1>14. ASSUME GcMinor \/ GcFull PROVE UNCHANGED <<root, moduleEnv, Held>>
    BY <1>0, <1>14, CollectionUnseen, InvisibleUnseen DEF ScriptInv
  <1> QED
    BY <1>1, <1>2, <1>3, <1>4, <1>5, <1>6, <1>7, <1>8, <1>9, <1>10, <1>11, <1>12, <1>13,
       <1>14, NextCases

\* To a script the heap has no collector: what it can get hold of stays, and
\* changes only by its own instructions, whenever gcMinor and gcFull run.
THEOREM HeapImplementsScript == ASSUME YoungOverHit = FALSE PROVE Spec => Script!Spec
  <1>1. Init => Script!Init
    <2>1. ASSUME Init PROVE Reachable = {}
      BY <2>1 DEF Init, Reachable, Reached, LiveObj, Live
    <2>2. ASSUME Init PROVE Held = [o \in {} |-> Nil]
      BY <2>1, <2>2 DEF Held
    <2> QED
      BY <2>2 DEF Init, Script!Init
  <1>2. ScriptInv /\ [Next]_vars /\ ScriptInv' => [Script!Next]_<<root, moduleEnv, Held>>
    BY ScriptStep DEF ScriptInv
  <1> QED
    BY <1>1, <1>2, ScriptInvariant, PTL DEF Spec, Script!Spec

=============================================================================
