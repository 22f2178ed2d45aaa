----------------------------- MODULE ScriptHeap -----------------------------
(***************************************************************************)
(* The heap as a script has it: no object goes away while the script can   *)
(* get hold of it, and none changes but by the script's own instructions.  *)
(* There are no collections, no generations and no barriers.               *)
(***************************************************************************)
EXTENDS Naturals

CONSTANTS
  Tables, Closures, Strings, Roots, Contents, Literal, Nil   \* as in GcHeap

VARIABLES
  root,        \* registers and global variables
  moduleEnv,   \* the environment of an imported module
  held         \* what the objects the script can get hold of hold

RootPointers == {root[r] : r \in Roots} \cup {moduleEnv}

Points(x) == {x.key, x.val, x.env}

\* The objects of h that can be reached from those of From.
Reach(h, From) ==
  LET S == DOMAIN h
      Closed == {M \in SUBSET S : /\ From \cap S \subseteq M
                                 /\ \A o \in M : Points(h[o]) \cap S \subseteq M}
  IN {o \in S : \A M \in Closed : o \in M}

\* What cannot be reached any more is forgotten.
Keep(h) == held' = [o \in Reach(h, RootPointers') |-> h[o]]

Init ==
  /\ root = [r \in Roots |-> Nil] /\ moduleEnv = Nil
  /\ held = [o \in {} |-> Nil]

-----------------------------------------------------------------------------
(* Objects.                                                                *)

Table(k, v) == [key |-> k, val |-> v, env |-> Nil, text |-> Nil, interned |-> FALSE]

Closure(v, e) == [key |-> Nil, val |-> v, env |-> e, text |-> Nil, interned |-> FALSE]

String(t, i) == [key |-> Nil, val |-> Nil, env |-> Nil, text |-> t, interned |-> i]

\* o holds x from now on.
Put(o, x) == [p \in DOMAIN held \cup {o} |-> IF p = o THEN x ELSE held[p]]

SetRoot(r, v) == root' = [root EXCEPT ![r] = v] /\ UNCHANGED moduleEnv

\* A new object is none of those the script has.
New(r, o, x) == o \notin DOMAIN held /\ SetRoot(r, o) /\ Keep(Put(o, x))

Change(o, x) == UNCHANGED <<root, moduleEnv>> /\ Keep(Put(o, x))

-----------------------------------------------------------------------------
(* Instructions.                                                           *)

\* A value at hand.
AtHand == RootPointers \cup {Nil}

Import(t) ==
  /\ moduleEnv = Nil /\ t \notin DOMAIN held
  /\ moduleEnv' = t /\ UNCHANGED root
  /\ Keep(Put(t, Table(Nil, Nil)))

Move(r, v) == v \in AtHand /\ SetRoot(r, v) /\ Keep(held)

Load(r, o, v) ==
  /\ o \in RootPointers \cap (Tables \cup Closures)
  /\ v \in {held[o].key, held[o].val}
  /\ SetRoot(r, v) /\ Keep(held)

\* A literal of the code has the characters written there.
LoadK(r, s) ==
  \/ New(r, s, String(Literal, TRUE))
  \/ /\ s \in DOMAIN held /\ held[s] = String(Literal, TRUE)
     /\ SetRoot(r, s) /\ Keep(held)

MakeClosure(r, c, v, e) == v \in AtHand /\ e \in {Nil, moduleEnv} /\ New(r, c, Closure(v, e))

MakeTable(r, t, k, v) == {k, v} \subseteq AtHand /\ New(r, t, Table(k, v))

\* The sum is a new string, or the first one grown under all who hold it.
Concat(r, q, s, t) ==
  /\ root[q] \in Strings
  /\ \/ New(r, s, String(t, FALSE))
     \/ /\ r = q /\ s = root[q] /\ ~held[s].interned
        /\ Change(s, String(t, FALSE))

TableSet(t, k, v) ==
  /\ t \in RootPointers /\ {k, v} \subseteq AtHand
  /\ Change(t, Table(k, v))

TableDel(t) ==
  /\ t \in RootPointers
  /\ Change(t, Table(Nil, Nil))

SetCapture(c, v) ==
  /\ c \in RootPointers /\ v \in AtHand
  /\ Change(c, Closure(v, held[c].env))

Obj == Tables \cup Closures \cup Strings

Ptr == Obj \cup {Nil}

Next ==
  \/ \E t \in Tables : Import(t) \/ TableDel(t)
  \/ \E r \in Roots :
       \/ \E v \in Ptr : Move(r, v)
       \/ \E o \in Obj, v \in Ptr : Load(r, o, v)
       \/ \E s \in Strings : LoadK(r, s)
       \/ \E c \in Closures, v, e \in Ptr : MakeClosure(r, c, v, e)
       \/ \E t \in Tables, k, v \in Ptr : MakeTable(r, t, k, v)
       \/ \E q \in Roots, s \in Strings, t \in Contents : Concat(r, q, s, t)
  \/ \E t \in Tables, k, v \in Ptr : TableSet(t, k, v)
  \/ \E c \in Closures, v \in Ptr : SetCapture(c, v)

Spec == Init /\ [][Next]_<<root, moduleEnv, held>>
=============================================================================
