------------------------------ MODULE BblTable ------------------------------
(***************************************************************************)
(* The table of the language: an array for small integer keys, an open-    *)
(* addressing hash part with tombstones for all others, and a list of keys *)
(* built on demand.  BblTable::set and friends (bbl.cpp) change it, and so *)
(* does the code the method JIT emits inline for (t:set k v) (jit.cpp).    *)
(***************************************************************************)
EXTENDS Integers, Sequences, FiniteSets

CONSTANTS
  Ints,        \* integer keys in use; push stops at a key outside (a bound)
  Strings,     \* string objects in use as keys
  Content,     \* the characters of a string, which two objects may share
               \* when one of them is not interned
  Home,        \* hashValue of a key: of its bits, so of a string's address
  Vals, Absent,
  Empty, Tombstone,
  NoOrder,     \* the null pointer order
  ArrayLimit,  \* 1000000: integer keys from here on are hashed
  BigArray,    \* 1024: an array larger than this grows by 4, else by 2
  Word         \* 2^32: the emitted bounds test sees a key modulo this

Keys == Ints \cup Strings

ASSUME KeysAssumption ==
  /\ Ints \subseteq Int /\ Ints \cap Strings = {}
  /\ Content \in [Strings -> Strings] /\ Home \in [Keys -> Nat]
  /\ Absent \notin Vals /\ {Empty, Tombstone} \cap Keys = {} /\ Empty # Tombstone
  /\ NoOrder \notin Seq(Keys)
  /\ ArrayLimit \in Nat /\ BigArray \in Nat /\ Word \in Nat \ {0}

VARIABLES
  array,       \* the array's cell of every integer key it may come to hold
  asize, buckets, capacity, count, nextIntKey,
  order,       \* the list of keys, or NoOrder when it has to be built
  m            \* the map a script believes in: from contents to values

table == <<array, asize, buckets, capacity, count, nextIntKey, order>>

vars == <<table, m>>

ArrayKeys == {k \in Ints : 0 <= k}

Entry == [key : Keys \cup {Empty, Tombstone}, val : Vals \cup {Absent}]

Unused == [key |-> Empty, val |-> Absent]

NoSlot == -1

Smallest(S) == CHOOSE x \in S : \A y \in S : x <= y

Largest(S) == CHOOSE x \in S : \A y \in S : y <= x

(* bblValueKeyEqual: integers by value, strings by the pointers.           *)
KeyEqual(j, k) == j = k

(* The key a script means: an integer, or the characters of a string.      *)
Name(k) == IF k \in Strings THEN Content[k] ELSE k

Names == {Name(k) : k \in Keys}

Init ==
  /\ array = [k \in ArrayKeys |-> Absent] /\ asize = 0
  /\ buckets = [i \in 0..3 |-> Unused] /\ capacity = 4
  /\ count = 0 /\ nextIntKey = 0 /\ order = NoOrder
  /\ m = [c \in Names |-> Absent]

---------------------------------------------------------------------------
(* Looking up.                                                             *)

(* The slots looked at for a key, from its home on.                        *)
Slot(cap, k, i) == (Home[k] + i) % cap

FindEntry_FirstEmpty(b, cap, k) ==
  LET key(i) == b[Slot(cap, k, i)].key
      stops == {i \in 0..cap-1 : key(i) = Empty \/ KeyEqual(key(i), k)}
  IN IF stops # {} THEN Slot(cap, k, Smallest(stops)) ELSE NoSlot

(* tableFindEntry: probe from the key's home to the first empty slot or    *)
(* equal key; an absent key gets the first tombstone on the way, if any.   *)
FindEntry(b, cap, k) ==
  LET key(i) == b[Slot(cap, k, i)].key
      stops == {i \in 0..cap-1 : key(i) = Empty \/ KeyEqual(key(i), k)}
      end == IF stops = {} THEN cap ELSE Smallest(stops)
      tombs == {i \in 0..end-1 : key(i) = Tombstone}
  IN IF tombs # {} /\ (stops = {} \/ key(end) = Empty) THEN Slot(cap, k, Smallest(tombs))
     ELSE IF stops # {} THEN Slot(cap, k, end)
     ELSE NoSlot

Occupied(i) == i # NoSlot /\ buckets[i].key \in Keys

InArray(k) == k \in ArrayKeys /\ k < asize

HashGet(k) ==
  LET i == FindEntry(buckets, capacity, k)
  IN IF count > 0 /\ capacity > 0 /\ Occupied(i) THEN buckets[i].val ELSE Absent

(* BblTable::get: a key within the array is looked up there only.          *)
Get(k) == IF InArray(k) THEN array[k] ELSE HashGet(k)

Has(k) == Get(k) # Absent

(* The emitted bounds test: the low half of the key against asize, once    *)
(* the key is known for an integer and not negative.                       *)
InlineInArray(k) == k \in ArrayKeys /\ k % Word < asize

(* What the cell it then reaches may hold: it indexes with the whole key,  *)
(* and a key of 2^32 or more that passes lies past the array, where it     *)
(* finds a word of anybody's (or the process ends in a fault).             *)
InlineCells(k) ==
  IF ~InlineInArray(k) THEN {Absent} ELSE IF InArray(k) THEN {array[k]} ELSE Vals \cup {Absent}

InlineGet_Unchecked(k) ==
  LET first == buckets[Home[k] % capacity]
      answer(cell) == IF cell # Absent THEN cell ELSE IF first.key # Empty THEN first.val ELSE Get(k)
  IN {answer(cell) : cell \in InlineCells(k)}

(* What the code emitted for (t:get k) may answer: the array's cell, else  *)
(* the first slot when it holds these very bits, else the helper.          *)
InlineGet(k) ==
  LET first == buckets[Home[k] % capacity]
      answer(cell) == IF cell # Absent THEN cell ELSE IF first.key = k THEN first.val ELSE Get(k)
  IN {answer(cell) : cell \in InlineCells(k)}

---------------------------------------------------------------------------
(* Changing the table.                                                     *)

GrownSize_OneShort(k) ==
  LET base == IF asize = 0 THEN 4 ELSE asize
      factor == IF base > BigArray THEN 4 ELSE 2
      size[i \in 0..k+1] == IF i = 0 THEN base ELSE size[i-1] * factor
  IN Smallest({n \in {size[i] : i \in 0..k+1} : k <= n})

(* arrayGrow: the factor is chosen once, by the size it starts from.       *)
GrownSize(k) ==
  LET base == IF asize = 0 THEN 4 ELSE asize
      factor == IF base > BigArray THEN 4 ELSE 2
      size[i \in 0..k+1] == IF i = 0 THEN base ELSE size[i-1] * factor
  IN Smallest({n \in {size[i] : i \in 0..k+1} : k + 1 <= n})

Moved(b, cap, e) == IF e.key \in Keys THEN [b EXCEPT ![FindEntry(b, cap, e.key)] = e] ELSE b

(* tableGrow: every occupied entry, in the order of the slots, into an     *)
(* empty table of twice the size.                                          *)
Grown(cap) ==
  LET moved[i \in 0..capacity] ==
        IF i = 0 THEN [s \in 0..cap-1 |-> Unused] ELSE Moved(moved[i-1], cap, buckets[i-1])
  IN moved[capacity]

NextIntKey(k) == IF k \in Ints /\ k >= nextIntKey THEN k + 1 ELSE nextIntKey

Counted_Listed(d) == count' = count + d /\ UNCHANGED order

(* An entry more or less: count, and the list of keys is thrown away.      *)
Counted(d) == count' = count + d /\ order' = NoOrder

SetArray(k, v) ==
  /\ asize' = IF InArray(k) THEN asize ELSE GrownSize(k)
  /\ array' = [array EXCEPT ![k] = v]
  /\ IF array[k] = Absent THEN Counted(1) ELSE UNCHANGED <<count, order>>
  /\ nextIntKey' = NextIntKey(k)
  /\ UNCHANGED <<buckets, capacity>>

MustGrow == capacity = 0 \/ count + 1 > (capacity * 3) \div 4

SetHash(k, v) ==
  LET cap == IF ~MustGrow THEN capacity ELSE IF capacity < 8 THEN 8 ELSE capacity * 2
      b == IF MustGrow THEN Grown(cap) ELSE buckets
      i == FindEntry(b, cap, k)
  IN /\ i # NoSlot
     /\ capacity' = cap
     /\ buckets' = [b EXCEPT ![i] = [key |-> k, val |-> v]]
     /\ IF b[i].key \in Keys THEN UNCHANGED <<count, order>> ELSE Counted(1)
     /\ nextIntKey' = NextIntKey(k)
     /\ UNCHANGED <<array, asize>>

(* BblTable::set: table constructors, places, the host, the slow paths.    *)
Set(k, v) == IF k \in ArrayKeys /\ k < ArrayLimit THEN SetArray(k, v) ELSE SetHash(k, v)

InlineCount_Always(k) == {count + 1}

InlineCount(k) == {IF cell = Absent THEN count + 1 ELSE count : cell \in InlineCells(k)}

(* The code emitted for (t:set k v).  A cell of the array is stored and    *)
(* counted; nextIntKey and order are not looked at.  The same bounds test  *)
(* lets a key past it write, and count by, a word that is not the array's. *)
InlineSet(k, v) ==
  LET home == Home[k] % capacity
  IN IF InlineInArray(k)
     THEN /\ array' = IF InArray(k) THEN [array EXCEPT ![k] = v] ELSE array
          /\ count' \in InlineCount(k)
          /\ UNCHANGED <<asize, buckets, capacity, nextIntKey, order>>
     ELSE IF buckets[home].key = k
     THEN /\ buckets' = [buckets EXCEPT ![home].val = v]
          /\ UNCHANGED <<array, asize, capacity, count, nextIntKey, order>>
     ELSE Set(k, v)

Push(v) == nextIntKey \in Ints /\ Set(nextIntKey, v)

Deleted_Emptied == Unused

(* del leaves a tombstone, so that probing goes on behind it.              *)
Deleted == [key |-> Tombstone, val |-> Absent]

(* BblTable::del, with the list of keys its caller has built by then.      *)
Erase(k, listed) ==
  LET i == FindEntry(buckets, capacity, k)
  IN /\ IF InArray(k) /\ array[k] # Absent
        THEN /\ array' = [array EXCEPT ![k] = Absent]
             /\ Counted(-1)
             /\ UNCHANGED buckets
        ELSE IF count > 0 /\ capacity > 0 /\ Occupied(i)
        THEN /\ buckets' = [buckets EXCEPT ![i] = Deleted]
             /\ Counted(-1)
             /\ UNCHANGED array
        ELSE order' = listed /\ UNCHANGED <<array, buckets, count>>
     /\ UNCHANGED <<asize, capacity, nextIntKey>>

Delete(k) == Erase(k, order)

Listed(list, live, k) == IF live THEN Append(list, k) ELSE list

(* ensureOrder: cells of the array first, then the slots of the hash part. *)
Ordered ==
  LET cells[i \in 0..asize] ==
        IF i = 0 THEN <<>>
        ELSE Listed(cells[i-1], i - 1 \in ArrayKeys /\ array[i-1] # Absent, i - 1)
      slots[i \in 0..capacity] ==
        IF i = 0 THEN cells[asize]
        ELSE Listed(slots[i-1], buckets[i-1].key \in Keys, buckets[i-1].key)
  IN IF order # NoOrder THEN order ELSE slots[capacity]

(* (t:keys) and (t:at i), and every walk over a table.                     *)
EnsureOrder ==
  /\ order = NoOrder
  /\ order' = Ordered
  /\ UNCHANGED <<array, asize, buckets, capacity, count, nextIntKey>>

(* What the operations mean to the script.                                 *)
Enter(k, v) == m' = [m EXCEPT ![Name(k)] = v]

Leave(k) == m' = [m EXCEPT ![Name(k)] = Absent]

(* (t:pop): the last integer key of the list goes; an error if there is    *)
(* none, with the list built all the same.                                 *)
Pop ==
  LET ints == {i \in DOMAIN Ordered : Ordered[i] \in Ints}
      last == Ordered[Largest(ints)]
  IN IF ints = {} THEN EnsureOrder /\ UNCHANGED m ELSE Erase(last, Ordered) /\ Leave(last)

Next ==
  \/ \E k \in Keys, v \in Vals : Set(k, v) /\ Enter(k, v)
  \/ \E k \in Keys, v \in Vals : InlineSet(k, v) /\ Enter(k, v)
  \/ \E v \in Vals : Push(v) /\ Enter(nextIntKey, v)
  \/ \E k \in Keys : Delete(k) /\ Leave(k)
  \/ EnsureOrder /\ UNCHANGED m
  \/ Pop

Spec == Init /\ [][Next]_vars

---------------------------------------------------------------------------
(* Every variable is in its range; the array has no cell past its size.    *)
TypeOK ==
  /\ array \in [ArrayKeys -> Vals \cup {Absent}] /\ asize \in Nat
  /\ capacity \in Nat /\ buckets \in [0..capacity-1 -> Entry]
  /\ count \in Nat /\ nextIntKey \in Nat
  /\ order = NoOrder \/ order \in Seq(Keys)
  /\ \A k \in ArrayKeys : k >= asize => array[k] = Absent
  /\ m \in [Names -> Vals \cup {Absent}]

(* length() is the number of entries, whichever path of set, delete, pop   *)
(* and of the growth of either part made them (count in bbl.h, the inc the *)
(* JIT emits).                                                             *)
CountIsLength == count = Cardinality({c \in Names : m[c] # Absent})

(* Probing for any key finds a slot: set uses tableFindEntry's answer      *)
(* without a test, and tombstones are not counted in the load.             *)
RoomForNewKey == \A k \in Keys : FindEntry(buckets, capacity, k) # NoSlot

(* The list of keys never names an entry the table has lost, nor one       *)
(* twice: at and pop look its keys up, and walks would report deleted      *)
(* entries.                                                                *)
ListedIsLive ==
  order # NoOrder =>
    /\ \A i \in DOMAIN order : Has(order[i])
    /\ \A i, j \in DOMAIN order : order[i] = order[j] => i = j

(* In any order of operations and through every growth and tombstone, get  *)
(* and has answer what the last set and delete of the key said.  Strings   *)
(* are taken for their characters, as the language has it: it holds when   *)
(* equal strings are one object.                                           *)
GetIsMap == \A k \in Keys : Get(k) = m[Name(k)]

(* So does the lookup emitted inline for (t:get k), and it reads no word   *)
(* that is not the table's.                                                *)
InlineGetIsMap == \A k \in Keys : InlineGet(k) = {m[Name(k)]}
=============================================================================
