----------------------------- MODULE JitHelpers -----------------------------
(***************************************************************************)
(* The values of a script and the helpers of src/src/jit.cpp that native   *)
(* code calls to work on them.                                             *)
(*                                                                         *)
(* A value is <<"int", n>>, <<"bool", 0 or 1>>, <<"null", 0>>, an interned *)
(* string <<"str", content>>, or a pointer: <<"built", a>> to a string     *)
(* that was allocated without being interned, <<"tbl", a>>, <<"vec", a>>,  *)
(* <<"fn", a>>, and <<"cfn", name>> for a C function.  A pointer names a   *)
(* cell of the heap.  A "wild" value has the tag of a function and a number *)
(* for its pointer.  Junk is a value the model does not follow: a float,   *)
(* or the bits of a pointer used as a number.                              *)
(*                                                                         *)
(* A store st has the registers regs of all frames, the globals, the heap, *)
(* the lines printed, and err: the message of g_jitError, "" when it is    *)
(* clear.  b is the base of the running frame.  Not modelled: floats,      *)
(* structs, binaries, userdata, and the upper, lower, trim, replace, split *)
(* and pad methods of strings.  Error messages are kept short: they tell   *)
(* errors apart.  Integers are unbounded: no modelled program comes near   *)
(* the 48 bits of the payload; what a negative operand does to the tag is  *)
(* in Machine (Carry, Borrow).                                             *)
(***************************************************************************)
EXTENDS Integers, Sequences, FiniteSets, SequencesExt, Bitwise

Num(n) == <<"int", n>>
Bool(p) == <<"bool", IF p THEN 1 ELSE 0>>
Null == <<"null", 0>>
Str(s) == <<"str", s>>
Junk == <<"junk", 0>>

Is(v, types) == v[1] \in types
Falsy(v) == v \in {Null, Bool(FALSE), Num(0)}
\* A comparison of payloads, whatever the tags say; pointers have no order a
\* script could know.
IsScalar(v) == Is(v, {"int", "bool", "null", "wild"})
SamePayload(v, w) == IF IsScalar(v) /\ IsScalar(w) THEN v[2] = w[2] ELSE v = w
Compare(op, v, w) ==
  CASE op = "EQ" -> Bool(SamePayload(v, w))
    [] op = "NEQ" -> Bool(~SamePayload(v, w))
    [] ~IsScalar(v) \/ ~IsScalar(w) -> IF v = w THEN Bool(op \in {"LTE", "GTE"}) ELSE Junk
    [] op = "LT" -> Bool(v[2] < w[2])
    [] op = "GT" -> Bool(v[2] > w[2])
    [] op = "LTE" -> Bool(v[2] <= w[2])
    [] op = "GTE" -> Bool(v[2] >= w[2])

Reg(st, b, r) == st.regs[b + r]
Put(st, b, r, v) == [st EXCEPT !.regs[b + r] = v]
Fail(st, msg) == [st EXCEPT !.err = msg]
PutOr(st, b, r, ok, v, msg) == IF ok THEN Put(st, b, r, v) ELSE Fail(st, msg)

Cell(st, v) == st.heap[v[2]]
SetCell(st, v, c) == [st EXCEPT !.heap[v[2]] = c]
\* A new cell, and a pointer of the given type to it put into a register.
Alloc(st, b, r, type, c) == Put([st EXCEPT !.heap = Append(@, c)], b, r, <<type, Len(st.heap) + 1>>)

IsString(v) == Is(v, {"str", "built"})
Text(st, v) == IF v[1] = "str" THEN v[2] ELSE Cell(st, v).text
jitValToStr(st, v) ==
  CASE v[1] = "null" -> "null"
    [] v[1] = "bool" -> IF v[2] % 2 = 1 THEN "true" ELSE "false"
    [] v[1] = "int" -> ToString(v[2])
    [] IsString(v) -> Text(st, v)
    [] OTHER -> "<object>"
typeName(v) == CASE v[1] = "tbl" -> "table" [] v[1] = "vec" -> "vector" [] v[1] \in {"fn", "cfn", "wild"} -> "fn"
                 [] IsString(v) -> "string" [] OTHER -> v[1]

------------------------------------------------------------------------------
\* BblTable: a map, the size of its array part, and the next integer key.
EmptyTable == [map |-> <<>>, asize |-> 0, nextIntKey |-> 0]
InArray(k) == k[1] = "int" /\ k[2] \in 0..999999
Get(t, k, default) == IF k \in DOMAIN t.map THEN t.map[k] ELSE default
arrayGrow(asize, k) == IF k < asize THEN asize
                       ELSE CHOOSE n \in {4, 8, 16, 32, 64, 128} : n > k /\ (n > 4 => n \div 2 <= k)
Set(t, k, v) ==
  [map |-> (k :> v) @@ t.map,
   asize |-> IF InArray(k) THEN arrayGrow(t.asize, k[2]) ELSE t.asize,
   nextIntKey |-> IF k[1] = "int" /\ k[2] >= t.nextIntKey THEN k[2] + 1 ELSE t.nextIntKey]
Del(t, k) == [t EXCEPT !.map = [x \in DOMAIN t.map \ {k} |-> t.map[x]]]
\* The set that native code does itself when the key is in the array part:
\* nextIntKey stays.
SetInline(t, k, v) == IF InArray(k) /\ k[2] < t.asize THEN [t EXCEPT !.map = (k :> v) @@ @] ELSE Set(t, k, v)
\* ensureOrder: the array part by index, then the others in the order of the
\* hash, for which any fixed order stands.
Listing(S) == FoldSet(LAMBDA x, xs : Append(xs, x), <<>>, S)
Order(t) ==
  LET ints == {k \in DOMAIN t.map : InArray(k)}
  IN [i \in 1..Cardinality(ints) |-> CHOOSE k \in ints : Cardinality({j \in ints : j[2] < k[2]}) = i - 1]
     \o Listing(DOMAIN t.map \ ints)
Pushed(t, vs) == FoldLeft(LAMBDA u, v : Set(u, Num(u.nextIntKey), v), t, vs)
Listed(ks) == FoldLeft(LAMBDA u, i : Set(u, Num(i - 1), ks[i]), EmptyTable, [i \in DOMAIN ks |-> i])

jitTable(st, b, A, pairs) ==
  Alloc(st, b, A, "tbl", FoldLeft(LAMBDA t, p : Set(t, Reg(st, b, A + 2 * p - 1), Reg(st, b, A + 2 * p)),
                                  EmptyTable, [p \in 1..pairs |-> p]))

------------------------------------------------------------------------------
\* Vectors of ints.
IntsOnly(vs) == \A i \in DOMAIN vs : Is(vs[i], {"int"})
Mismatch(vs) == "vector type mismatch: expected int, got "
                \o typeName(vs[CHOOSE i \in DOMAIN vs : ~Is(vs[i], {"int"}) /\ IntsOnly(SubSeq(vs, 1, i - 1))])
\* packValue, one value after the other until one is no int.
Packed(vs, ws) == vs \o (CHOOSE us \in {SubSeq(ws, 1, k) : k \in 0..Len(ws)} :
                             IntsOnly(us) /\ (us # ws => ~Is(ws[Len(us) + 1], {"int"})))
InVector(vs, i) == i \in 0..(Len(vs) - 1)
OutOfBounds(i) == "vector index " \o ToString(i) \o " out of bounds"
jitVector(st, b, A, n, elemType) ==
  LET ws == [i \in 1..n |-> Reg(st, b, A + i)]
  IN IF elemType # "int" THEN Fail(st, "unknown vector element type")
     ELSE IF ~IntsOnly(ws) THEN Fail(st, Mismatch(ws))
     ELSE Alloc(st, b, A, "vec", ws)

------------------------------------------------------------------------------
\* jitMcall by receiver: args are the values after it.
Args(st, b, A, n) == [i \in 1..n |-> Reg(st, b, A + i)]
Optional(args, i, default) == IF i \in DOMAIN args THEN args[i] ELSE default
\* A table may hold the function a method call is for: the machine calls it.
IsMethod(st, b, A, m) ==
  /\ Is(Reg(st, b, A), {"tbl"})
  /\ m \notin {"get", "set", "has", "delete", "length", "keys", "push", "pop", "at"}
  /\ Is(Get(Cell(st, Reg(st, b, A)), Str(m), Null), {"fn", "cfn"})
\* The table becomes the first argument; the copy of the others runs forward
\* over the register it has just overwritten, so each becomes the table.
MethodArgs(st, b, A, n, m) ==
  [st EXCEPT !.regs = [r \in DOMAIN @ |->
     IF r = b + A THEN Get(Cell(st, Reg(st, b, A)), Str(m), Null)
     ELSE IF r \in (b + A + 1)..(b + A + 1 + n) THEN Reg(st, b, A) ELSE @[r]]]

tableMcall(st, b, A, args, m) ==
  LET self == Reg(st, b, A)
      t == Cell(st, self)
      ints == SelectSeq(Order(t), LAMBDA k : Is(k, {"int"}))
      i == args[1][2] + 1
      With(u) == Put(SetCell(st, self, u), b, A, Null)
  IN CASE m = "get" -> Put(st, b, A, Get(t, args[1], Optional(args, 2, Null)))
       [] m = "set" -> With(Set(t, args[1], args[2]))
       [] m = "has" -> Put(st, b, A, Bool(args[1] \in DOMAIN t.map))
       [] m = "delete" -> With(Del(t, args[1]))
       [] m = "length" -> Put(st, b, A, Num(Cardinality(DOMAIN t.map)))
       [] m = "keys" -> Alloc(st, b, A, "tbl", Listed(Order(t)))
       [] m = "push" -> With(Pushed(t, args))
       [] m = "pop" -> IF ints = <<>> THEN Fail(st, "pop: no integer keys")
                       ELSE Put(SetCell(st, self, Del(t, Last(ints))), b, A, t.map[Last(ints)])
       [] m = "at" -> PutOr(st, b, A, i \in DOMAIN Order(t), t.map[Order(t)[i]], "table index out of range")
       [] OTHER -> Fail(st, "unknown table method: " \o m)

vectorMcall(st, b, A, args, m) ==
  LET self == Reg(st, b, A)
      vs == Cell(st, self)
      i == args[1][2]
      With(ws) == Put(SetCell(st, self, ws), b, A, Null)
  IN CASE m = "push" -> IF IntsOnly(args) THEN With(vs \o args) ELSE Fail(SetCell(st, self, Packed(vs, args)), Mismatch(args))
       [] m = "pop" -> IF vs = <<>> THEN Fail(st, "pop on empty vector")
                       ELSE Put(SetCell(st, self, Front(vs)), b, A, Last(vs))
       [] m = "clear" -> With(<<>>)
       [] m = "at" -> PutOr(st, b, A, InVector(vs, i), vs[i + 1], OutOfBounds(i))
       [] m = "set" -> IF ~InVector(vs, i) THEN Fail(st, OutOfBounds(i))
                       ELSE IF ~IntsOnly(Tail(args)) THEN Fail(st, Mismatch(Tail(args)))
                       ELSE With([vs EXCEPT ![i + 1] = args[2]])
       [] m = "resize" -> IF ~IntsOnly(args) THEN Fail(st, "vector.resize: argument must be an integer")
                          ELSE IF i < 0 THEN Fail(st, "vector.resize: size must be non-negative")
                          ELSE With([k \in 1..i |-> IF k \in DOMAIN vs THEN vs[k] ELSE Num(0)])
       [] m = "reserve" -> IF i < 0 THEN Fail(st, "vector.reserve: capacity must be non-negative") ELSE st
       [] OTHER -> Fail(st, "unknown vector method: " \o m)

Occurs(s, t, i) == i + Len(t) <= Len(s) /\ SubSeq(s, i + 1, i + Len(t)) = t
Find(s, t, from) == {i \in from..Len(s) : Occurs(s, t, i)}
stringMcall(st, b, A, args, m) ==
  LET s == Text(st, Reg(st, b, A))
      t == Text(st, args[1])
      i == args[1][2]
      at == Find(s, t, Optional(args, 2, Num(0))[2])
      c == Cell(st, args[1])
      part(k) == jitValToStr(st, Get(c, Num(k), Null))
  IN CASE m = "at" -> IF i \in 0..(Len(s) - 1) THEN Alloc(st, b, A, "built", [text |-> SubSeq(s, i + 1, i + 1)])
                      ELSE Fail(st, "string index out of bounds")
       [] m = "slice" -> PutOr(st, b, A, i \in 0..Len(s), Str(SubSeq(s, i + 1, i + Optional(args, 2, Num(Len(s) - i))[2])), "substr")
       [] m = "find" -> Put(st, b, A, Num(IF at = {} THEN -1 ELSE CHOOSE k \in at : \A j \in at : k <= j))
       [] m = "contains" -> Put(st, b, A, Bool(Find(s, t, 0) # {}))
       [] m = "starts-with" -> Put(st, b, A, Bool(Occurs(s, t, 0)))
       [] m = "ends-with" -> Put(st, b, A, Bool(Len(t) <= Len(s) /\ Occurs(s, t, Len(s) - Len(t))))
       [] m = "join" -> Put(st, b, A, Str(FoldLeft(LAMBDA r, k : IF k = 1 THEN part(0) ELSE r \o s \o part(k - 1), "",
                                                   [k \in 1..(IF Is(args[1], {"tbl"}) THEN c.nextIntKey ELSE 0) |-> k])))
       [] OTHER -> Fail(st, "unknown string method: " \o m)

jitMcall(st, b, A, n, m) ==
  LET self == Reg(st, b, A)
      args == Args(st, b, A, n)
  IN CASE Is(self, {"tbl"}) -> tableMcall(st, b, A, args, m)
       [] Is(self, {"vec"}) -> vectorMcall(st, b, A, args, m)
       [] IsString(self) -> stringMcall(st, b, A, args, m)
       [] OTHER -> Fail(st, "cannot call method on " \o typeName(self))

jitTableGet(st, b, A, n) == jitMcall(st, b, A, n, "get")
\* set on a table, with the part of it that is inlined.
jitTableSet(st, b, A, n) ==
  LET self == Reg(st, b, A)
  IN IF Is(self, {"tbl"})
     THEN Put(SetCell(st, self, SetInline(Cell(st, self), Reg(st, b, A + 1), Reg(st, b, A + 2))), b, A, Null)
     ELSE jitMcall(st, b, A, n, "set")

------------------------------------------------------------------------------
jitLength(st, b, A, B) ==
  LET v == Reg(st, b, B)
  IN CASE Is(v, {"vec"}) -> Put(st, b, A, Num(Len(Cell(st, v))))
       [] Is(v, {"tbl"}) -> Put(st, b, A, Num(Cardinality(DOMAIN Cell(st, v).map)))
       [] IsString(v) -> Put(st, b, A, Num(Len(Text(st, v))))
       [] OTHER -> Fail(st, "cannot get length")

jitGetField(st, b, A, B, name) ==
  LET v == Reg(st, b, B)
  IN IF Is(v, {"tbl"}) THEN Put(st, b, A, Get(Cell(st, v), Str(name), Null)) ELSE Fail(st, "cannot access field")
\* A target that has no fields or elements is passed over in silence.
jitSetField(st, b, A, B, name) ==
  LET v == Reg(st, b, B)
  IN IF Is(v, {"tbl"}) THEN SetCell(st, v, Set(Cell(st, v), Str(name), Reg(st, b, A))) ELSE st
jitGetIndex(st, b, A, B, C) ==
  LET v == Reg(st, b, B)
      k == Reg(st, b, C)
  IN CASE Is(v, {"vec"}) -> PutOr(st, b, A, InVector(Cell(st, v), k[2]), Cell(st, v)[k[2] + 1], OutOfBounds(k[2]))
       [] Is(v, {"tbl"}) -> Put(st, b, A, Get(Cell(st, v), k, Null))
       [] OTHER -> Fail(st, "cannot index")
jitSetIndex(st, b, A, B, C) ==
  LET v == Reg(st, b, B)
      k == Reg(st, b, C)
      w == Reg(st, b, A)
  IN CASE Is(v, {"vec"}) -> IF ~InVector(Cell(st, v), k[2]) THEN Fail(st, OutOfBounds(k[2]))
                            ELSE IF ~Is(w, {"int"}) THEN Fail(st, Mismatch(<<w>>))
                            ELSE SetCell(st, v, [Cell(st, v) EXCEPT ![k[2] + 1] = w])
       [] Is(v, {"tbl"}) -> SetCell(st, v, Set(Cell(st, v), k, w))
       [] OTHER -> st

\* C++ division truncates towards zero.
Abs(n) == IF n < 0 THEN -n ELSE n
Quotient(x, y) == (IF (x < 0) = (y < 0) THEN 1 ELSE -1) * (Abs(x) \div Abs(y))
\* A string that was built and is its own destination is appended to in place.
jitArith(st, b, op, A, B, C) ==
  LET v == Reg(st, b, B)
      w == Reg(st, b, C)
      x == v[2]
      y == w[2]
      joined == Text(st, v) \o jitValToStr(st, w)
  IN CASE Is(v, {"int"}) /\ Is(w, {"int"}) ->
            (CASE op = "ADD" -> Put(st, b, A, Num(x + y))
               [] op = "SUB" -> Put(st, b, A, Num(x - y))
               [] op = "MUL" -> Put(st, b, A, Num(x * y))
               [] y = 0 -> Fail(st, "division by zero")
               [] op = "DIV" -> Put(st, b, A, Num(Quotient(x, y)))
               [] OTHER -> Put(st, b, A, Num(x - y * Quotient(x, y))))
       [] op = "ADD" /\ v[1] = "built" /\ A = B -> SetCell(st, v, [text |-> joined])
       [] op = "ADD" /\ IsString(v) -> Alloc(st, b, A, "built", [text |-> joined])
       [] op = "ADD" /\ ~(Is(v, {"int", "junk"}) /\ Is(w, {"int", "junk"})) -> Fail(st, "type mismatch in addition")
       [] OTHER -> Put(st, b, A, Junk)

\* The operands of & | ^^ are not negative in any modelled program.
jitBitwise(st, b, op, A, B, C) ==
  LET v == Reg(st, b, B)
      w == Reg(st, b, C)
      x == v[2]
      y == w[2]
  IN IF ~Is(v, {"int"}) \/ (op # "BNOT" /\ ~Is(w, {"int"})) THEN Fail(st, "bitwise ops require integers")
     ELSE IF op \in {"SHL", "SHR"} /\ y < 0 THEN Fail(st, "negative shift count")
     ELSE Put(st, b, A, Num(CASE op = "BAND" -> x & y
                              [] op = "BOR" -> x | y
                              [] op = "BXOR" -> x ^^ y
                              [] op = "BNOT" -> -x - 1
                              [] op = "SHL" -> x * 2^y
                              [] op = "SHR" -> x \div 2^y))

jitNot(st, b, A, B) == Put(st, b, A, Bool(Falsy(Reg(st, b, B))))
\* Only digits are taken for a number; the longest the programs use is two.
Numbers == [s \in {ToString(n) : n \in -99..99} |-> CHOOSE n \in -99..99 : ToString(n) = s]
jitInt(st, b, A, B) ==
  LET v == Reg(st, b, B)
  IN IF Is(v, {"int"}) THEN Put(st, b, A, v)
     ELSE PutOr(st, b, A, IsString(v) /\ Text(st, v) \in DOMAIN Numbers, Num(Numbers[Text(st, v)]), "int: cannot convert")

------------------------------------------------------------------------------
\* Captured variables live in the closure that register 0 holds.
jitGetCapture(st, b, A, i) == Put(st, b, A, Cell(st, Reg(st, b, 0)).captures[i])
jitSetCapture(st, b, A, i) ==
  IF ~Is(Reg(st, b, 0), {"fn"}) THEN Fail(st, "no closure for capture")
  ELSE SetCell(st, Reg(st, b, 0), [Cell(st, Reg(st, b, 0)) EXCEPT !.captures[i] = Reg(st, b, A)])
\* descs says where each captured value is: <<0, register>> or <<1, index>>.
jitClosure(st, b, A, path, descs) ==
  Alloc(st, b, A, "fn",
        [path |-> path,
         captures |-> [i \in DOMAIN descs |->
            CASE descs[i][1] = 0 -> Reg(st, b, descs[i][2])
              [] Is(Reg(st, b, 0), {"fn"}) -> Cell(st, Reg(st, b, 0)).captures[descs[i][2]]
              [] OTHER -> Null]])

jitGetGlobal(st, b, A, s) == PutOr(st, b, A, s \in DOMAIN st.globals, st.globals[s], "undefined variable")
jitSetGlobal(st, b, A, s) == [st EXCEPT !.globals = (s :> Reg(st, b, A)) @@ @]
jitStoreError(st, b, A) == [Put(st, b, A, Str(st.err)) EXCEPT !.err = ""]
=============================================================================
