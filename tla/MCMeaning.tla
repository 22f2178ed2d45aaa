------------------------------ MODULE MCMeaning ------------------------------
(***************************************************************************)
(* What a program means by bbl.md, to compare what Machine makes of it     *)
(* with.  It never follows the implementation: where code, tests and       *)
(* bbl.md disagree it is bbl.md that is written here, and MCScripts has    *)
(* programs on which the disagreement does not show (README.md lists it).  *)
(*                                                                         *)
(* It is an evaluator of the syntax tree: strict, left to right, with      *)
(* variables by name and no registers.  Its state has the globals (the     *)
(* root), the locals of the call, the closure called (self, 0 in the main  *)
(* chunk), the heap, the output, the value of the last expression, and why *)
(* the evaluation stops, "" when it does not.                              *)
(*                                                                         *)
(* Left out, as no program asks for it: floats, order of strings, texts of *)
(* errors, the name of a function among its own captured variables.        *)
(***************************************************************************)
EXTENDS Machine

Say(s, v) == [s EXCEPT !.val = v]
Quit(s, why) == [s EXCEPT !.stop = why]
Hold(s, type, c) == [s EXCEPT !.heap = Append(@, c), !.val = <<type, Len(s.heap) + 1>>]
Held(s, v) == s.heap[v[2]]
Own(s) == IF s.self = 0 THEN <<>> ELSE s.heap[s.self].captured
Visible(s) == s.locals @@ Own(s)
Lookup(s, x) == IF x \in DOMAIN (Visible(s) @@ s.globals) THEN Say(s, (Visible(s) @@ s.globals)[x]) ELSE Quit(s, "error")
\* An assignment rebinds the name where the chain local, captured, root has it,
\* and makes it in the current scope where nothing has.
Assign(s, x) ==
  CASE x \in DOMAIN s.locals -> [s EXCEPT !.locals[x] = s.val]
    [] x \in DOMAIN Own(s) -> [s EXCEPT !.heap[s.self].captured[x] = s.val]
    [] x \in DOMAIN s.globals \/ s.self = 0 -> [s EXCEPT !.globals = (x :> s.val) @@ @]
    [] OTHER -> [s EXCEPT !.locals = (x :> s.val) @@ @]

AsText(s, v) == CASE v = Null -> "null" [] Is(v, {"bool"}) -> (IF v[2] = 1 THEN "true" ELSE "false")
                  [] Is(v, {"int"}) -> ToString(v[2]) [] Is(v, {"str"}) -> v[2] [] OTHER -> "<object>"
IntOps == {"+", "-", "*", "/", "%", "<", ">", "<=", ">=", "band", "bor", "bxor", "shl", "shr"}
OnInts(op, x, y) ==
  CASE op = "+" -> Num(x + y) [] op = "-" -> Num(x - y) [] op = "*" -> Num(x * y)
    [] op = "/" -> Num(Quotient(x, y)) [] op = "%" -> Num(x - y * Quotient(x, y))
    [] op = "<" -> Bool(x < y) [] op = ">" -> Bool(x > y) [] op = "<=" -> Bool(x <= y) [] op = ">=" -> Bool(x >= y)
    [] op = "band" -> Num(x & y) [] op = "bor" -> Num(x | y) [] op = "bxor" -> Num(x ^^ y)
    [] op = "shl" -> Num(x * 2^y) [] op = "shr" -> Num(x \div 2^y)
Apply2(s, op, v, w) ==
  CASE op = "==" -> Say(s, Bool(v = w))
    [] op = "!=" -> Say(s, Bool(v # w))
    [] op = "+" /\ Is(v, {"str"}) -> Say(s, Str(v[2] \o AsText(s, w)))
    [] ~Is(v, {"int"}) \/ ~Is(w, {"int"}) \/ (op \in {"/", "%"} /\ w = Num(0)) -> Quit(s, "error")
    [] OTHER -> Say(s, OnInts(op, v[2], w[2]))

\* A table is the sequence of its entries <<key, value>> in the order they were
\* put in, a vector the sequence of its elements.
Places(t, k) == {i \in DOMAIN t : t[i][1] = k}
ValueAt(t, k) == IF Places(t, k) = {} THEN Null ELSE t[CHOOSE i \in Places(t, k) : TRUE][2]
PutEntry(t, k, v) == IF Places(t, k) = {} THEN Append(t, <<k, v>>) ELSE [i \in DOMAIN t |-> IF t[i][1] = k THEN <<k, v>> ELSE t[i]]
WithoutKey(t, k) == SelectSeq(t, LAMBDA e : e[1] # k)
IntEntries(t) == SelectSeq(t, LAMBDA e : Is(e[1], {"int"}))
NextKey(t) == FoldLeft(LAMBDA n, e : IF e[1][2] >= n THEN e[1][2] + 1 ELSE n, 0, IntEntries(t))
Change(s, v, c) == Say([s EXCEPT !.heap[v[2]] = c], Null)
TableMethods == {"get", "set", "has", "delete", "length", "push", "pop", "at", "keys"}
OnTable(s, v, m, args) ==
  LET t == Held(s, v)
  IN CASE m = "get" -> Say(s, ValueAt(t, args[1]))
       [] m = "set" -> Change(s, v, PutEntry(t, args[1], args[2]))
       [] m = "has" -> Say(s, Bool(Places(t, args[1]) # {}))
       [] m = "delete" -> Change(s, v, WithoutKey(t, args[1]))
       [] m = "length" -> Say(s, Num(Len(t)))
       [] m = "push" -> Change(s, v, Append(t, <<Num(NextKey(t)), args[1]>>))
       [] m = "pop" -> IF IntEntries(t) = <<>> THEN Quit(s, "error")
                       ELSE LET e == Last(IntEntries(t)) IN Say(Change(s, v, WithoutKey(t, e[1])), e[2])
       [] m = "at" -> IF args[1][2] \in 0..(Len(t) - 1) THEN Say(s, t[args[1][2] + 1][2]) ELSE Quit(s, "error")
       [] m = "keys" -> Hold(s, "tbl", [i \in DOMAIN t |-> <<Num(i - 1), t[i][1]>>])
OnVector(s, v, m, args) ==
  LET ws == Held(s, v)
      inside == args[1][2] \in 0..(Len(ws) - 1)
      i == args[1][2] + 1
  IN CASE m = "length" -> Say(s, Num(Len(ws)))
       [] m = "push" -> IF Is(args[1], {"int"}) THEN Change(s, v, Append(ws, args[1])) ELSE Quit(s, "error")
       [] m = "pop" -> IF ws = <<>> THEN Quit(s, "error") ELSE Say(Change(s, v, Front(ws)), Last(ws))
       [] m = "clear" -> Change(s, v, <<>>)
       [] m = "at" -> IF inside THEN Say(s, ws[i]) ELSE Quit(s, "error")
       [] m = "set" -> IF inside /\ Is(args[2], {"int"}) THEN Change(s, v, [ws EXCEPT ![i] = args[2]]) ELSE Quit(s, "error")
       [] m = "resize" -> Change(s, v, [k \in 1..args[1][2] |-> IF k \in DOMAIN ws THEN ws[k] ELSE Num(0)])
       [] OTHER -> Quit(s, "error")
\* slice has a start and an end, and clamps silently.
OnString(s, v, m, args) ==
  LET x == v[2]
      at == {k \in 0..(Len(x) - Len(args[1][2])) : SubSeq(x, k + 1, k + Len(args[1][2])) = args[1][2]}
      end == IF args[2][2] < Len(x) THEN args[2][2] ELSE Len(x)
  IN CASE m = "length" -> Say(s, Num(Len(x)))
       [] m = "at" -> IF args[1][2] \in 0..(Len(x) - 1) THEN Say(s, Str(SubSeq(x, args[1][2] + 1, args[1][2] + 1))) ELSE Quit(s, "error")
       [] m = "slice" -> Say(s, Str(SubSeq(x, args[1][2] + 1, end)))
       [] m = "find" -> Say(s, Num(IF at = {} THEN -1 ELSE CHOOSE k \in at : \A j \in at : k <= j))
       [] m = "contains" -> Say(s, Bool(at # {}))
       [] m = "starts-with" -> Say(s, Bool(0 \in at))
       [] m = "ends-with" -> Say(s, Bool(Len(x) - Len(args[1][2]) \in at))
       [] m = "join" -> LET items == Held(s, args[1])
                        IN Say(s, Str(FoldLeft(LAMBDA r, k : r \o (IF k = 1 THEN "" ELSE x) \o AsText(s, items[k][2]), "",
                                               [k \in DOMAIN items |-> k])))
       [] OTHER -> Quit(s, "error")

RECURSIVE Eval(_, _), EvalSeq(_, _), EvalArgs(_, _, _), Invoke(_, _, _), While(_, _, _), ForEach(_, _, _, _, _)
EvalSeq(s, ns) == IF ns = <<>> \/ s.stop # "" THEN s ELSE EvalSeq(Eval(s, Head(ns)), Tail(ns))
\* The values of the expressions, in val.
EvalArgs(s, ns, vs) ==
  IF s.stop # "" THEN s ELSE IF ns = <<>> THEN Say(s, vs)
  ELSE LET t == Eval(s, Head(ns)) IN EvalArgs(t, Tail(ns), Append(vs, t.val))

\* The number of arguments is that of the parameters; a break or continue does
\* not leave the body of a function.
Invoke(s, f, args) ==
  CASE Is(f, {"cfn"}) -> [s EXCEPT !.out = FoldLeft(LAMBDA o, v : o \o AsText(s, v), @, args), !.val = Null]
    [] Is(f, {"fn"}) /\ Len(args) = Len(Held(s, f).params) ->
         LET c == Held(s, f)
             bound == [x \in {c.params[i] : i \in DOMAIN c.params} |-> args[CHOOSE i \in DOMAIN args : c.params[i] = x]]
             t == EvalSeq([s EXCEPT !.self = f[2], !.locals = bound], c.body)
         IN [t EXCEPT !.self = s.self, !.locals = s.locals, !.stop = IF @ = "" THEN @ ELSE "error"]
    [] OTHER -> Quit(s, "error")

\* A condition, and an operand of and, or and not, is a bool or an error.
Test(s, n) == LET t == Eval(s, n) IN IF t.stop = "" /\ ~Is(t.val, {"bool"}) THEN Quit(t, "error") ELSE t
Yes(s) == s.val = Bool(TRUE)

Body(s, ns) == LET t == EvalSeq(s, ns) IN IF t.stop = "continue" THEN Quit(t, "") ELSE t
Broken(s) == IF s.stop = "break" THEN Say(Quit(s, ""), Null) ELSE s
While(s, cond, ns) ==
  LET c == Test(s, cond)
      t == Body(c, ns)
  IN IF c.stop # "" THEN c ELSE IF ~Yes(c) THEN Say(c, Null) ELSE IF t.stop # "" THEN Broken(t) ELSE While(t, cond, ns)
\* The variable goes through the indices, and has the length in the end.
ForEach(s, x, v, i, ns) ==
  LET at == Assign(Say(s, Num(i)), x)
      t == Body(at, ns)
  IN IF i >= Len(Held(s, v)) THEN Say(at, Null) ELSE IF t.stop # "" THEN Broken(t) ELSE ForEach(t, x, v, i + 1, ns)

\* A closure copies the variables of the calls around it when it is made.
Closure(s, params, body) ==
  Hold(s, "fn", [params |-> [i \in DOMAIN params |-> params[i][2]], body |-> body, captured |-> Visible(s)])

Form(s, op, c) ==
  LET first == Eval(s, c[2])
      cond == Test(s, c[2])
      args == EvalArgs(s, Tail(c), <<>>)
      catch == Last(c)[2]
      tried == EvalSeq(s, SubSeq(c, 2, Len(c) - 1))
      over(t) == IF t.stop # "" THEN t ELSE FoldLeft(LAMBDA u, w : IF u.stop # "" THEN u ELSE Apply2(u, op, u.val, w),
                                                     Say(t, t.val[1]), Tail(t.val))
      each == Eval(s, c[3])
      place == Eval(Eval(s, c[3]), c[2][2])
      value == Eval(s, c[3]).val
  IN CASE op \in IntOps \cup {"==", "!="} -> over(args)
       [] op = "not" -> IF cond.stop # "" THEN cond ELSE Say(cond, Bool(~Yes(cond)))
       [] op = "bnot" -> IF first.stop # "" THEN first ELSE Say(first, Num(-first.val[2] - 1))
       [] op = "and" -> IF cond.stop # "" \/ ~Yes(cond) THEN cond ELSE Test(cond, c[3])
       [] op = "or" -> IF cond.stop # "" \/ Yes(cond) THEN cond ELSE Test(cond, c[3])
       [] op = "int" -> IF first.stop # "" \/ Is(first.val, {"int"}) THEN first
                        ELSE IF Is(first.val, {"str"}) /\ first.val[2] \in DOMAIN Numbers THEN Say(first, Num(Numbers[first.val[2]]))
                        ELSE Quit(first, "error")
       [] op = "do" -> EvalSeq(Say(s, Null), Tail(c))
       [] op = "if" -> IF cond.stop # "" THEN cond ELSE IF Yes(cond) THEN Eval(cond, c[3])
                       ELSE IF Len(c) > 3 THEN Eval(cond, c[4]) ELSE Say(cond, Null)
       [] op = "loop" -> While(s, c[2], SubSeq(c, 3, Len(c)))
       [] op = "each" -> IF each.stop # "" THEN each ELSE IF ~Is(each.val, {"tbl", "vec"}) THEN Quit(each, "error")
                         ELSE ForEach(each, c[2][2], each.val, 0, SubSeq(c, 4, Len(c)))
       [] op \in {"break", "continue"} -> Quit(s, op)
       [] op = "fn" -> Closure(s, c[2][2], SubSeq(c, 3, Len(c)))
       [] op = "defn" -> Assign(Closure(s, c[3][2], SubSeq(c, 4, Len(c))), c[2][2])
       [] op = "=" /\ c[2][1] = "sym" -> IF each.stop # "" THEN each ELSE Assign(each, c[2][2])
       [] op = "=" -> IF place.stop # "" THEN place
                      ELSE LET k == IF c[2][1] = "dot" THEN Str(c[2][3]) ELSE Num(c[2][3])
                           IN Say(IF Is(place.val, {"tbl"}) THEN OnTable(place, place.val, "set", <<k, value>>)
                                  ELSE OnVector(place, place.val, "set", <<k, value>>), value)
       [] op = "try" -> IF Len(c) < 3 THEN Quit(s, "error") ELSE IF tried.stop # "error" THEN tried
                        ELSE EvalSeq(Assign(Say(Quit(tried, ""), Str("")), catch[2][2]), SubSeq(catch, 3, Len(catch)))
       [] op = "table" -> IF args.stop # "" THEN args
                          ELSE Hold(args, "tbl", FoldLeft(LAMBDA t, p : PutEntry(t, args.val[2 * p - 1], args.val[2 * p]), <<>>,
                                                          [p \in 1..(Len(args.val) \div 2) |-> p]))
       [] op = "vector" -> LET vs == EvalArgs(s, SubSeq(c, 3, Len(c)), <<>>)
                           IN IF vs.stop # "" THEN vs
                              ELSE IF \A i \in DOMAIN vs.val : Is(vs.val[i], {"int"}) THEN Hold(vs, "vec", vs.val) ELSE Quit(vs, "error")

Forms == IntOps \cup {"==", "!=", "not", "bnot", "and", "or", "int", "do", "if", "loop", "each", "break", "continue", "fn", "defn", "=",
                      "try", "table", "vector"}
\* A method of the type, else the function a table has under the name.
MethodCall(s, c) ==
  LET obj == Eval(s, c[1][2])
      t == EvalArgs(obj, Tail(c), <<>>)
  IN IF obj.stop # "" THEN obj ELSE IF t.stop # "" THEN t
     ELSE CASE Is(obj.val, {"tbl"}) /\ c[1][3] \in TableMethods -> OnTable(t, obj.val, c[1][3], t.val)
            [] Is(obj.val, {"tbl"}) -> Invoke(t, ValueAt(Held(t, obj.val), Str(c[1][3])), <<obj.val>> \o t.val)
            [] Is(obj.val, {"vec"}) -> OnVector(t, obj.val, c[1][3], t.val)
            [] Is(obj.val, {"str"}) -> OnString(t, obj.val, c[1][3], t.val)
            [] OTHER -> Quit(t, "error")
Eval(s, n) ==
  LET c == n[2]
      f == Eval(s, c[1])
      args == EvalArgs(f, Tail(c), <<>>)
      obj == Eval(s, n[2])
  IN CASE n[1] \in {"int", "str"} -> Say(s, n)
       [] n[1] = "bool" -> Say(s, Bool(n[2]))
       [] n[1] = "null" -> Say(s, Null)
       [] n[1] = "sym" -> Lookup(s, n[2])
       [] n[1] = "dot" -> IF obj.stop # "" THEN obj ELSE IF ~Is(obj.val, {"tbl"}) THEN Quit(obj, "error")
                          ELSE OnTable(obj, obj.val, "get", <<Str(n[3])>>)
       [] n[1] = "nth" -> IF obj.stop # "" THEN obj
                          ELSE IF Is(obj.val, {"tbl"}) THEN OnTable(obj, obj.val, "get", <<Num(n[3])>>)
                          ELSE IF Is(obj.val, {"vec"}) THEN OnVector(obj, obj.val, "at", <<Num(n[3])>>) ELSE Quit(obj, "error")
       [] c = <<>> -> Say(s, Null)
       [] c[1][1] = "colon" -> MethodCall(s, c)
       [] c[1][1] = "sym" /\ c[1][2] \in Forms -> Form(s, c[1][2], c)
       [] OTHER -> IF f.stop # "" THEN f ELSE IF args.stop # "" THEN args ELSE Invoke(args, f.val, args.val)

\* What can be observed of a program: its output, and its value or error.
Shown(v, text) == IF Is(v, {"int", "bool", "null", "str", "built"}) THEN <<typeName(v), text>> ELSE <<typeName(v)>>
Meaning(nodes) ==
  LET s == EvalSeq([globals |-> Globals0, locals |-> <<>>, self |-> 0, heap |-> <<>>, out |-> "", val |-> Null, stop |-> ""], nodes)
  IN [out |-> s.out, end |-> IF s.stop # "" THEN <<"error">> ELSE Shown(s.val, AsText(s, s.val))]
Ending == CASE result[1] = "value" -> Shown(result[2], jitValToStr(st, result[2])) [] OTHER -> <<result[1]>>
=============================================================================
