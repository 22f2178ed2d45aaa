------------------------------- MODULE GcHeap -------------------------------
(***************************************************************************)
(* The heap of one interpreter: objects born in a nursery, promoted to the *)
(* tenured generation by the first minor collection they survive, a write  *)
(* barrier with a remembered set, and an intern table that does not keep   *)
(* its strings alive (BblState in bbl.cpp, the stores of jit.cpp).         *)
(*                                                                         *)
(* Values are abstracted to the object they point to: Nil is any value     *)
(* that is no pointer, Dangling a pointer to an object that was freed.     *)
(* Code that follows a dangling pointer has no defined behaviour, so no    *)
(* action does; the invariants say which pointers never dangle.            *)
(***************************************************************************)
EXTENDS Naturals, FiniteSets

CONSTANTS
  Tables, Closures, Strings,  \* the objects that can be alive at once
  Roots,         \* slots of the register file and global variables
  Contents,      \* the characters a string can have
  Literal,       \* of them, the string literal in the source of a function
  Nil, Dangling,
  YoungOverHit   \* do scripts put fresh objects over entries of old tables?

Obj == Tables \cup Closures \cup Strings

\* An entry of a table; one whose key is no pointer may be in the array.  The
\* capture of a closure is its val.
Fields == {"key", "val"}

Ptr == Obj \cup {Nil}

ASSUME HeapAssumption ==
  /\ Tables \cap Closures = {} /\ Tables \cap Strings = {} /\ Closures \cap Strings = {}
  /\ {Nil, Dangling} \cap Obj = {} /\ Nil # Dangling /\ Nil \notin Contents
  /\ Literal \in Contents
  /\ YoungOverHit \in BOOLEAN

VARIABLES
  age,           \* free, young: in the nursery's list, old: in the tenured list
  ref,           \* the pointers in the fields of the objects
  env,           \* BblClosure::env
  consts,        \* the pointers among the constants of a closure's chunk
  chunk,         \* the prototypes among those of the chunk exec is running
  root,
  moduleEnv,     \* the environment of an imported module, in moduleCache
  remembered, dirty,
  text, interned, internTable

heap == <<age, ref, env, consts, remembered, dirty>>
strings == <<text, interned, internTable>>
vars == <<heap, strings, chunk, root, moduleEnv>>

Live(o) == o \in Obj /\ age[o] # "free"

Young == {o \in Obj : age[o] = "young"}

RootPointers == {root[r] : r \in Roots} \cup {moduleEnv}

Captured(o) == {ref[o][f] : f \in Fields}

\* What gcMark and gcMarkGen0 follow.
Pointers(o) == Captured(o) \cup (IF o \in Closures THEN {env[o]} ELSE {})

Init ==
  /\ age = [o \in Obj |-> "free"]
  /\ ref = [o \in Obj |-> [f \in Fields |-> Nil]]
  /\ env = [c \in Closures |-> Nil]
  /\ consts = [c \in Closures |-> {}]
  /\ chunk = {}
  /\ root = [r \in Roots |-> Nil]
  /\ moduleEnv = Nil
  /\ remembered = {} /\ dirty = {}
  /\ text = [s \in Strings |-> Nil]
  /\ interned = [s \in Strings |-> FALSE]
  /\ internTable = [t \in Contents |-> Nil]

-----------------------------------------------------------------------------
(* Allocation and interning.                                               *)

\* Every allocator puts the new object at the head of the nursery's list.
Alloc(o) == age[o] = "free" /\ age' = [age EXCEPT ![o] = "young"]

\* allocString: a string of its own, not in the table.
AllocString(s, t) ==
  /\ Alloc(s)
  /\ text' = [text EXCEPT ![s] = t]
  /\ UNCHANGED <<interned, internTable>>

\* intern: the string of the table, or a new one.
Intern(s, t) ==
  IF internTable[t] # Nil
  THEN s = internTable[t] /\ UNCHANGED <<text, interned, internTable>>
  ELSE /\ age[s] = "free"
       /\ text' = [text EXCEPT ![s] = t]
       /\ interned' = [interned EXCEPT ![s] = TRUE]
       /\ internTable' = [internTable EXCEPT ![t] = s]

\* exec: the compiler interns the literal of a function, a constant of its
\* chunk, and makes its prototype, a constant of the chunk exec will run.
\* The function belongs to the module being imported, if any.
Exec(s, c, e) ==
  /\ e \in {Nil, moduleEnv}
  /\ age[c] = "free"
  /\ Intern(s, Literal)
  /\ age' = [age EXCEPT ![c] = "young", ![s] = IF @ = "free" THEN "young" ELSE @]
  /\ env' = [env EXCEPT ![c] = e]
  /\ consts' = [consts EXCEPT ![c] = {s}]
  /\ chunk' = {c}
  /\ UNCHANGED <<ref, root, moduleEnv, remembered, dirty>>

\* import of a module that is not in moduleCache.
Import(t) ==
  /\ moduleEnv = Nil
  /\ Alloc(t) /\ moduleEnv' = t
  /\ UNCHANGED <<ref, env, consts, remembered, dirty, strings, chunk, root>>

-----------------------------------------------------------------------------
(* The script's instructions that move pointers.                           *)

SetRoot(r, v) == root' = [root EXCEPT ![r] = v]

\* OP_LOADK in the code of a function that can be called.
LoadK(r, s) ==
  /\ \E c \in Closures \cap RootPointers : s \in consts[c]
  /\ SetRoot(r, s)
  /\ UNCHANGED <<heap, strings, chunk, moduleEnv>>

\* A register or a global takes another's value, or one that is no pointer.
Move(r, v) ==
  /\ v \in RootPointers \cup {Nil}
  /\ SetRoot(r, v)
  /\ UNCHANGED <<heap, strings, chunk, moduleEnv>>

\* jitGetCapture, (t:get k), jitGetField.
Load(r, o, f) ==
  /\ o \in RootPointers \cap (Tables \cup Closures)
  /\ SetRoot(r, ref[o][f])
  /\ UNCHANGED <<heap, strings, chunk, moduleEnv>>

\* jitClosure: the new closure takes over the constants and the environment
\* of its prototype.
MakeClosure(r, c, p, v) ==
  /\ p \in chunk \cap Closures /\ v \in RootPointers \cup {Nil}
  /\ Alloc(c)
  /\ ref' = [ref EXCEPT ![c]["val"] = v]
  /\ env' = [env EXCEPT ![c] = env[p]]
  /\ consts' = [consts EXCEPT ![c] = consts[p]]
  /\ SetRoot(r, c)
  /\ UNCHANGED <<remembered, dirty, strings, chunk, moduleEnv>>

\* jitTable.  The minor collection it may begin with is GcMinor.
MakeTable(r, t, k, v) ==
  /\ {k, v} \subseteq RootPointers \cup {Nil}
  /\ Alloc(t)
  /\ ref' = [ref EXCEPT ![t]["key"] = k, ![t]["val"] = v]
  /\ SetRoot(r, t)
  /\ UNCHANGED <<env, consts, remembered, dirty, strings, chunk, moduleEnv>>

\* jitArith on strings: the string of the register itself grows when no other
\* register takes the result and it is not interned.  Mutant: any string.
GrowsInPlace_Any(r, q) == r = q
GrowsInPlace(r, q) == r = q /\ ~interned[root[q]]

Concat(r, q, s, t) ==
  /\ root[q] \in Strings /\ t \in Contents
  /\ IF GrowsInPlace(r, q)
     THEN /\ s = root[q]
          /\ text' = [text EXCEPT ![s] = t]
          /\ UNCHANGED <<age, interned, internTable>>
     ELSE AllocString(s, t)
  /\ SetRoot(r, s)
  /\ UNCHANGED <<ref, env, consts, remembered, dirty, chunk, moduleEnv>>

-----------------------------------------------------------------------------
(* Stores into objects.                                                    *)

\* writeBarrier(o, v) for the values v stored.
NeedsBarrier(o, vs) == age[o] = "old" /\ \E v \in vs \cap Obj : age[v] # "old"
Barrier(o, vs) ==
  IF NeedsBarrier(o, vs) /\ o \notin dirty
  THEN remembered' = remembered \cup {o} /\ dirty' = dirty \cup {o}
  ELSE UNCHANGED <<remembered, dirty>>

\* BblTable::set, called by jitTableSet, jitSetField, jitEnvSet and the host,
\* and the store into the array of the code emitted for (t:set k v).
\* Mutant: the key replaced without a barrier.
TableSet_ValueBarrier(t, k, v) ==
  /\ t \in RootPointers \cap Tables /\ {k, v} \subseteq RootPointers \cup {Nil}
  /\ ref' = [ref EXCEPT ![t]["key"] = k, ![t]["val"] = v]
  /\ Barrier(t, {v})
  /\ UNCHANGED <<age, env, consts, strings, chunk, root, moduleEnv>>
TableSet(t, k, v) ==
  /\ t \in RootPointers \cap Tables /\ {k, v} \subseteq RootPointers \cup {Nil}
  /\ ref' = [ref EXCEPT ![t]["key"] = k, ![t]["val"] = v]
  /\ Barrier(t, {k, v})
  /\ UNCHANGED <<age, env, consts, strings, chunk, root, moduleEnv>>

\* jitSetCapture.
SetCapture(c, v) ==
  /\ c \in RootPointers \cap Closures /\ v \in RootPointers \cup {Nil}
  /\ ref' = [ref EXCEPT ![c]["val"] = v]
  /\ Barrier(c, {v})
  /\ UNCHANGED <<age, env, consts, strings, chunk, root, moduleEnv>>

\* The store into the hash part of the emitted code, when the key's own
\* slot holds the very key: there is no barrier.
InlineHashHit(t, k, v) ==
  /\ t \in RootPointers \cap Tables /\ {k, v} \subseteq RootPointers \cup {Nil}
  /\ k # Nil /\ ref[t]["key"] = k
  /\ YoungOverHit \/ ~NeedsBarrier(t, {v})
  /\ ref' = [ref EXCEPT ![t]["val"] = v]
  /\ UNCHANGED <<age, env, consts, remembered, dirty, strings, chunk, root, moduleEnv>>

\* BblTable::del.
TableDel(t) ==
  /\ t \in RootPointers \cap Tables
  /\ ref' = [ref EXCEPT ![t]["key"] = Nil, ![t]["val"] = Nil]
  /\ UNCHANGED <<age, env, consts, remembered, dirty, strings, chunk, root, moduleEnv>>

-----------------------------------------------------------------------------
(* Collection.                                                             *)

\* The objects of S that the marker reaches from those of From without
\* leaving S.
Reached(S, From) ==
  LET Closed == {M \in SUBSET S : /\ From \cap S \subseteq M
                                 /\ \A x \in M : Pointers(x) \cap S \subseteq M}
  IN {o \in S : \A M \in Closed : o \in M}

\* gcMinor marks from the roots and the remembered set, and stops at old
\* objects.  Mutant: from the roots only.
MinorFrom_Roots == RootPointers
MinorFrom == RootPointers \cup UNION {Captured(o) : o \in remembered}

\* A dead string takes the entry of its content out of the intern table,
\* whichever string the entry holds.  Mutant: no entry is taken out.
InternAfter_Kept(dead) ==
  [t \in Contents |-> IF internTable[t] \in dead THEN Dangling ELSE internTable[t]]
InternAfter(dead) ==
  [t \in Contents |-> IF \E s \in dead \cap Strings : text[s] = t THEN Nil
                      ELSE IF internTable[t] \in dead THEN Dangling
                      ELSE internTable[t]]

\* Mutant: the dirty bits stay.
DirtyAfter_Kept == dirty
DirtyAfter == {}

\* sweepList frees the dead; the young survivors join the tenured list; the
\* remembered set is emptied.
Sweep(dead) ==
  LET After(p) == IF p \in dead THEN Dangling ELSE p
  IN /\ age' = [o \in Obj |-> IF o \in dead THEN "free"
                              ELSE IF age[o] = "young" THEN "old" ELSE age[o]]
     /\ ref' = [o \in Obj |-> [f \in Fields |-> IF o \in dead THEN Nil
                                                ELSE After(ref[o][f])]]
     /\ env' = [c \in Closures |-> IF c \in dead THEN Nil ELSE After(env[c])]
     /\ consts' = [c \in Closures |-> IF c \in dead THEN {}
                                      ELSE {After(p) : p \in consts[c]}]
     /\ chunk' = {After(p) : p \in chunk}
     /\ root' = [r \in Roots |-> After(root[r])]
     /\ moduleEnv' = After(moduleEnv)
     /\ remembered' = {} /\ dirty' = DirtyAfter
     /\ text' = [s \in Strings |-> IF s \in dead THEN Nil ELSE text[s]]
     /\ interned' = [s \in Strings |-> s \notin dead /\ interned[s]]
     /\ internTable' = InternAfter(dead)

\* At the start of exec and of jitTable once enough was allocated, and gc()
\* of the host.
GcMinor == Sweep(Young \ Reached(Young, MinorFrom))

\* gcFull() of the host.
GcFull ==
  LET all == {o \in Obj : Live(o)}
  IN Sweep(all \ Reached(all, RootPointers))

-----------------------------------------------------------------------------
Next ==
  \/ \E s \in Strings, c \in Closures : \E e \in Tables \cup {Nil} : Exec(s, c, e)
  \/ \E t \in Tables : Import(t)
  \/ \E r \in Roots :
       \/ \E s \in Strings : LoadK(r, s)
       \/ \E v \in Ptr : Move(r, v)
       \/ \E o \in Obj, f \in Fields : Load(r, o, f)
       \/ \E c, p \in Closures, v \in Ptr : MakeClosure(r, c, p, v)
       \/ \E t \in Tables, k, v \in Ptr : MakeTable(r, t, k, v)
       \/ \E q \in Roots, s \in Strings, t \in Contents : Concat(r, q, s, t)
  \/ \E t \in Tables, k, v \in Ptr : TableSet(t, k, v) \/ InlineHashHit(t, k, v)
  \/ \E c \in Closures, v \in Ptr : SetCapture(c, v)
  \/ \E t \in Tables : TableDel(t)
  \/ GcMinor
  \/ GcFull

Spec == Init /\ [][Next]_vars

-----------------------------------------------------------------------------
(* Properties.                                                             *)

\* Types, and that a free object holds no pointer.
TypeOK ==
  /\ age \in [Obj -> {"free", "young", "old"}]
  /\ ref \in [Obj -> [Fields -> Ptr \cup {Dangling}]]
  /\ env \in [Closures -> Tables \cup {Nil, Dangling}]
  /\ consts \in [Closures -> SUBSET (Strings \cup {Dangling})]
  /\ chunk \subseteq Closures \cup {Dangling}
  /\ root \in [Roots -> Ptr \cup {Dangling}]
  /\ moduleEnv \in Tables \cup {Nil, Dangling}
  /\ remembered \subseteq Obj /\ dirty \subseteq Obj
  /\ text \in [Strings -> Contents \cup {Nil}]
  /\ interned \in [Strings -> BOOLEAN]
  /\ internTable \in [Contents -> Strings \cup {Nil}]

\* No collection frees what the registers, the globals, a module or an object
\* still alive points to, however pointers moved since the last one.
NoDangling ==
  /\ Dangling \notin RootPointers
  /\ \A o \in Obj : Dangling \notin Pointers(o)

\* An old object that points to a young one is in the remembered set, or the
\* next minor collection would not mark the young one.
YoungAreRemembered ==
  \A o \in Obj \ remembered : age[o] = "old" => Captured(o) \cap Young = {}

\* The remembered set holds old objects, and exactly those whose dirty bit
\* says so: a bit that stays set would keep its object out for ever.
DirtyAreRemembered == dirty = remembered /\ \A o \in remembered : age[o] = "old"

\* What the intern table gives out is alive, interned and has the content
\* asked for.
InternTableLive ==
  \A t \in Contents : internTable[t] # Nil =>
    /\ Live(internTable[t])
    /\ interned[internTable[t]] /\ text[internTable[t]] = t
=============================================================================
