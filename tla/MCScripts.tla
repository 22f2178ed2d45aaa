------------------------------ MODULE MCScripts ------------------------------
(***************************************************************************)
(* Programs for Machine, and the properties that compare what the native   *)
(* code and the traces make of them with what they mean.                   *)
(*                                                                         *)
(* The programs keep away from the shapes README.md lists as known to go   *)
(* wrong.  Where bbl.md and the tests disagree they are such that both     *)
(* mean the same: conditions are bools, a slice starts at 0, the container *)
(* of an each has its indices for elements and the variable is not used    *)
(* after it.  Arithmetic is every program of its shape, the others are     *)
(* chosen for the paths of the compiler and of the machine they take.      *)
(***************************************************************************)
EXTENDS MCMeaning

V(x) == <<"sym", x>>
N(n) == <<"int", n>>
T(s) == <<"str", s>>
True == <<"bool", TRUE>>
X(f, args) == <<"list", <<f>> \o args>>
L(op, args) == X(V(op), args)
O(op, v, w) == L(op, <<v, w>>)
A(x, e) == O("=", V(x), e)
Fn(params, body) == L("fn", <<<<"list", [i \in DOMAIN params |-> V(params[i])]>>>> \o body)
Defn(f, params, body) == L("defn", <<V(f), <<"list", [i \in DOMAIN params |-> V(params[i])]>>>> \o body)
If(c, t, e) == L("if", <<c, t, e>>)
When(c, t) == L("if", <<c, t>>)
Rep(c, body) == L("loop", <<c>> \o body)
M(obj, m, args) == X(<<"colon", V(obj), m>>, args)
Dot(obj, f) == <<"dot", V(obj), f>>
Nth(obj, i) == <<"nth", V(obj), i>>
Try(body, handler) == L("try", body \o <<L("catch", <<V("e")>> \o handler)>>)
Out(e) == L("print", <<e, T(" ")>>)
Count(n, body) == <<A("i", N(0)), Rep(O("<", V("i"), n), body \o <<A("i", O("+", V("i"), N(1)))>>)>>

\* Every nesting of two operations on two variables and a literal.
Leaf == {V("x"), V("y"), N(2)}
Operations(ops, as, bs) == {O(op, v, w) : op \in ops, v \in as, w \in bs}
Sums == Operations({"+", "-", "*"}, Leaf, Leaf)
Nested == Operations({"+", "-", "*"}, Sums, Leaf) \cup Operations({"+", "-", "*"}, Leaf, Sums)
Tests == Operations({"<", "==", ">="}, Sums, {V("y"), N(2)})
\* Those whose operations give no negative number, for x = 7 and y = 3.
Start == [globals |-> ("x" :> Num(7)) @@ ("y" :> Num(3)), locals |-> <<>>, self |-> 0, heap |-> <<>>, out |-> "", val |-> Null, stop |-> ""]
Natural(e) == \A d \in {e} \cup {e[2][2], e[2][3]} : Eval(Start, d).val[2] >= 0
AsGlobals(e) == <<A("x", N(7)), A("y", N(3)), e>>
AsLocals(e) == <<Defn("f", <<"x", "y">>, <<e>>), X(V("f"), <<N(7), N(3)>>)>>
Choice(c) == <<Defn("f", <<"x", "y">>, <<If(c, O("+", V("x"), V("y")), V("y"))>>), X(V("f"), <<N(7), N(3)>>)>>
Arithmetic == {AsGlobals(e) : e \in {d \in Nested : Natural(d)}} \cup {AsLocals(e) : e \in {d \in Nested : Natural(d)}}
              \cup {Choice(c) : c \in {O(op, e, w) : op \in {"<", "==", ">="}, e \in {d \in Sums : Natural(d)}, w \in {V("y"), N(2)}}}

\* Calls: of the function itself, of closures with captured variables, of
\* functions whose body takes the place of the call.
x == V("x")
n == V("n")
i == V("i")
s == V("s")
f == V("f")
g == V("g")
t == V("t")
v == V("v")
Plus1(y) == O("+", y, N(1))
Less1(y) == O("-", y, N(1))
\* Two functions of a table that call each other and count its n down.
Turn(this, other) ==
  LET left == Dot("self", "n")
  IN Fn(<<"self">>, <<O("=", left, Less1(left)), If(O("==", left, N(0)), T(this), M("self", other, <<>>))>>)
Calls == {
  <<Defn("f", <<"n">>, <<If(O("<=", n, N(1)), N(1), O("*", n, X(f, <<Less1(n)>>)))>>), X(f, <<N(4)>>)>>,
  <<Defn("f", <<"n">>, <<If(O("<", n, N(2)), n, O("+", X(f, <<Less1(n)>>), X(f, <<O("-", n, N(2))>>)))>>), X(f, <<N(5)>>)>>,
  <<A("t", L("table", <<T("n"), N(3)>>)), O("=", Dot("t", "even"), Turn("even", "odd")), O("=", Dot("t", "odd"), Turn("odd", "even")),
    M("t", "even", <<>>)>>,
  <<Defn("f", <<>>, <<A("n", N(0)), Fn(<<>>, <<A("n", Plus1(n)), n>>)>>), A("c", X(f, <<>>)), X(V("c"), <<>>), X(V("c"), <<>>)>>,
  <<Defn("f", <<"n">>, <<Fn(<<"x">>, <<O("+", x, n)>>)>>), A("g", X(f, <<N(5)>>)), X(g, <<X(g, <<N(1)>>)>>)>>,
  <<Defn("f", <<"g", "x">>, <<X(g, <<X(g, <<x>>)>>)>>), X(f, <<Fn(<<"y">>, <<O("*", V("y"), N(3))>>), N(2)>>)>>,
  <<A("g", Fn(<<"x">>, <<O("*", x, x)>>)), X(g, <<X(g, <<N(3)>>)>>)>>,
  <<A("g", Fn(<<"x">>, <<O("*", x, x)>>)), Defn("f", <<"x">>, <<O("+", X(g, <<Plus1(x)>>), X(g, <<x>>))>>), X(f, <<N(2)>>)>>,
  <<Defn("g", <<"x", "y">>, <<O("-", x, V("y"))>>), Defn("f", <<"x">>, <<X(g, <<x, X(g, <<x, N(1)>>)>>)>>), X(f, <<N(9)>>)>>,
  <<Defn("g", <<"x">>, <<If(O("<", x, N(3)), T("s"), T("b"))>>), Defn("f", <<"x">>, <<Out(X(g, <<x>>)), X(g, <<Plus1(x)>>)>>), X(f, <<N(2)>>)>>,
  <<Defn("f", <<"n">>, <<Defn("g", <<"x">>, <<Fn(<<>>, <<O("+", x, n)>>)>>), A("h", X(g, <<N(4)>>)), X(V("h"), <<>>)>>), X(f, <<N(3)>>)>>,
  <<Defn("f", <<"n">>, <<A("x", n), A("x", O("+", x, n)), A("n", O("*", x, N(2))), O("-", n, x)>>), X(f, <<N(3)>>)>>,
  <<X(T("no"), <<N(1)>>)>>, <<V("nowhere")>>, <<A("x", N(1)), X(x, <<>>)>>, <<O("nowhere", N(1), N(2))>>
  }

\* Conditions and loops.
Control == {
  <<Defn("f", <<"x", "n">>, <<If(O(op, x, n), T("yes"), T("no"))>>), Out(X(f, <<N(1), N(2)>>)), Out(X(f, <<N(2), N(2)>>)), X(f, <<N(3), N(2)>>)>>
  : op \in {"<", ">", "<=", ">=", "==", "!="}} \cup {
  <<Defn("f", <<"x">>, <<L("do", <<Out(x), L(op, <<O("<", x, N(2)), O("==", x, N(c))>>)>>)>>), Out(X(f, <<N(1)>>)), X(f, <<N(3)>>)>>
  : op \in {"and", "or"}, c \in {1, 3}} \cup {
  <<Defn("f", <<"n">>, <<A("s", N(0))>> \o Count(n, <<A("s", O("+", s, i))>>) \o <<s>>), X(f, <<N(6)>>)>>,
  <<Defn("f", <<"n">>, <<A("s", N(1))>> \o Count(n, <<A("s", O("*", s, N(2)))>>) \o <<s>>), X(f, <<N(5)>>)>>,
  <<Defn("f", <<"n">>, Count(n, <<When(O("==", i, N(2)), L("break", <<>>))>>) \o <<i>>), X(f, <<N(6)>>)>>,
  <<Defn("f", <<"n">>, <<A("i", N(0)), A("s", N(0)),
      Rep(O("<", i, n), <<A("i", Plus1(i)), When(O("==", i, N(2)), L("continue", <<>>)), A("s", O("+", s, i))>>), s>>), X(f, <<N(4)>>)>>,
  Count(N(6), <<Out(i)>>) \o <<i>>,
  <<A("s", N(0))>> \o Count(N(6), <<A("s", O("+", s, i))>>) \o <<s>>,
  <<A("i", N(3)), Rep(O("!=", i, N(0)), <<Out(i), A("i", Less1(i))>>)>>,
  <<A("i", N(0)), Rep(True, <<When(O(">=", i, N(2)), L("break", <<>>)), A("i", Plus1(i))>>), i>>,
  <<Out(N(1)), L("not", <<O("==", N(1), N(2))>>)>>, <<L("bnot", <<N(5)>>)>>, <<L("do", <<>>)>>, <<<<"null">>>>, <<>>, <<L("break", <<>>)>>
  } \cup {<<O(op, N(13), N(2))>> : op \in {"/", "%", "band", "bor", "bxor", "shl", "shr"}}
  \cup {<<L("+", <<N(1), N(2), N(3), N(4)>>)>>, <<O("/", N(1), N(0))>>, <<O("%", N(1), N(0))>>}

\* Errors, and where they are caught.
Bad == O("/", N(1), N(0))
Errors == {
  <<Try(<<Out(N(1)), Bad, Out(N(2))>>, <<Out(N(3)), T("caught")>>)>>,
  <<Defn("f", <<"x">>, <<O("/", N(6), x)>>), Try(<<Out(X(f, <<N(2)>>)), X(f, <<N(0)>>)>>, <<T("caught")>>)>>,
  <<Defn("f", <<"n">>, <<If(O("==", n, N(0)), Bad, Plus1(X(f, <<Less1(n)>>)))>>), Try(<<X(f, <<N(3)>>)>>, <<T("caught")>>)>>,
  <<Defn("f", <<"n">>, <<If(O("==", n, N(0)), Bad, Plus1(X(f, <<Less1(n)>>)))>>), X(f, <<N(2)>>)>>,
  <<Defn("f", <<"x">>, <<Try(<<O("/", N(6), x)>>, <<N(0)>>)>>), O("+", X(f, <<N(0)>>), X(f, <<N(3)>>))>>,
  <<Try(<<Try(<<Bad>>, <<Out(T("in")), Bad>>)>>, <<T("out")>>)>>,
  <<Try(<<Try(<<Bad>>, <<Out(T("in"))>>), N(5)>>, <<T("out")>>)>>,
  <<Try(<<N(4)>>, <<T("caught")>>)>>,
  <<A("i", N(0)), Rep(O("<", i, N(3)), <<A("i", Plus1(i)), Try(<<When(O("==", i, N(2)), Bad), Out(i)>>, <<Out(T("x"))>>)>>), i>>,
  <<Defn("f", <<"x">>, <<Bad, Out(N(1))>>), Defn("g", <<"x">>, <<X(f, <<x>>), Out(N(2))>>), Try(<<X(g, <<N(1)>>)>>, <<T("caught")>>)>>,
  <<Out(Bad), N(1)>>, <<A("t", L("table", <<>>)), M("t", "pop", <<>>)>>, <<A("t", N(1)), Try(<<M("t", "push", <<N(1)>>)>>, <<T("caught")>>)>>,
  <<L("try", <<N(1)>>)>>, <<L("int", <<T("x")>>)>>, <<O("+", N(1), T("a"))>>, <<O("band", N(1), T("a"))>>
  }

\* Tables, vectors and strings.
Data == {
  <<A("t", L("table", <<T("a"), N(1), T("b"), N(2)>>)), O("=", Dot("t", "a"), N(5)), O("+", Dot("t", "a"), Dot("t", "b"))>>,
  <<A("t", L("table", <<>>)), M("t", "push", <<N(4)>>), M("t", "push", <<N(5)>>), Out(M("t", "pop", <<>>)), Out(M("t", "length", <<>>)),
    O("+", Nth("t", 0), M("t", "at", <<N(0)>>))>>,
  <<A("t", L("table", <<>>)), M("t", "set", <<T("k"), N(1)>>), Out(M("t", "has", <<T("k")>>)), M("t", "delete", <<T("k")>>), Out(M("t", "length", <<>>)),
    M("t", "get", <<T("k")>>)>>,
  <<A("t", L("table", <<>>)), O("=", Nth("t", 0), N(0)), O("=", Nth("t", 1), N(1)), L("each", <<x, t, Out(x)>>), M("t", "length", <<>>)>>,
  <<A("t", L("table", <<T("m"), Fn(<<"self">>, <<Dot("self", "k")>>), T("k"), N(3)>>)), M("t", "m", <<>>)>>,
  <<Defn("f", <<"t", "n">>, <<M("t", "push", <<n>>), If(O("<", n, N(3)), X(f, <<t, Plus1(n)>>), M("t", "length", <<>>))>>), X(f, <<L("table", <<>>), N(0)>>)>>,
  <<A("v", L("vector", <<V("int"), N(3), N(1)>>)), M("v", "push", <<N(2)>>), M("v", "set", <<N(0), N(0)>>), L("each", <<x, v, Out(x)>>),
    O("+", M("v", "at", <<N(1)>>), Nth("v", 2))>>,
  <<A("v", L("vector", <<V("int"), N(3)>>)), O("=", Nth("v", 0), N(6)), M("v", "resize", <<N(2)>>), Out(M("v", "length", <<>>)), M("v", "pop", <<>>),
    Out(M("v", "pop", <<>>)), M("v", "clear", <<>>), M("v", "length", <<>>)>>,
  <<A("v", L("vector", <<V("int"), N(3)>>)), M("v", "at", <<N(1)>>)>>, <<A("v", L("vector", <<V("int")>>)), Try(<<M("v", "pop", <<>>)>>, <<T("caught")>>)>>,
  <<L("vector", <<V("int"), T("a")>>)>>, <<A("v", L("vector", <<V("int"), N(3)>>)), M("v", "push", <<T("a")>>)>>,
  <<A("s", T("abcab")), Out(M("s", "length", <<>>)), Out(M("s", "at", <<N(1)>>)), Out(M("s", "slice", <<N(0), N(3)>>)), M("s", "find", <<T("ab")>>)>>,
  <<A("s", T("abc")), Out(M("s", "contains", <<T("bc")>>)), Out(M("s", "starts-with", <<T("b")>>)), M("s", "ends-with", <<T("bc")>>)>>,
  <<A("s", T("-")), A("t", L("table", <<N(0), N(1), N(1), T("b")>>)), M("s", "join", <<t>>)>>,
  <<Defn("f", <<"s", "n">>, <<O("+", s, n)>>), Out(X(f, <<T("a"), N(1)>>)), X(f, <<N(2), N(3)>>)>>,
  <<A("g", T("a")), Defn("f", <<>>, <<Out(O("+", N(1), N(2))), O("+", N(1), N(2)), O("+", g, N(1))>>), X(f, <<>>)>>,
  <<A("s", T("a")), A("s", O("+", s, T("b"))), A("s", O("+", s, N(1))), s>>, <<L("int", <<T("12")>>)>>,
  <<Defn("f", <<"h", "v">>, <<A("s", N(0)), L("each", <<x, X(V("h"), <<v>>), A("s", O("+", s, x))>>), s>>), A("g", Fn(<<"v">>, <<v>>)),
    X(f, <<g, L("vector", <<V("int"), N(0), N(1), N(2)>>)>>)>>,
  <<A("t", L("table", <<N(0), T("a"), N(1), T("b")>>)), M("t", "keys", <<>>)>>
  }

\* Loops run often enough for a trace.
Hot == {
  <<A("s", N(0))>> \o Count(N(9), <<A("s", O("+", s, O("*", i, i)))>>) \o <<s>>,
  <<Defn("f", <<"x">>, <<O("+", x, N(2))>>), A("s", N(0))>> \o Count(N(9), <<A("s", X(f, <<s>>))>>) \o <<s>>,
  <<A("t", L("table", <<>>))>> \o Count(N(8), <<M("t", "push", <<i>>)>>) \o <<M("t", "length", <<>>)>>,
  <<A("t", L("table", <<T("k"), N(0)>>))>> \o Count(N(8), <<O("=", Dot("t", "k"), O("+", Dot("t", "k"), i))>>) \o <<Dot("t", "k")>>,
  <<A("v", L("vector", <<V("int"), N(0), N(1), N(2), N(3), N(4), N(5)>>)), A("s", N(0)), L("each", <<x, v, A("s", O("+", s, x))>>), s>>,
  <<A("s", N(0)), A("k", N(0)), A("n", N(7)), Rep(O("<", V("k"), n), <<A("p", L("table", <<T("x"), V("k"), T("y"), N(2)>>)), A("s", O("+", s, Dot("p", "x"))), A("k", Plus1(V("k")))>>), s>>,
  <<Defn("f", <<"n">>, <<A("s", N(0)), A("i", N(0)), Rep(O("<", i, n), <<A("p", L("table", <<T("x"), i, T("y"), N(2)>>)), A("s", O("+", s, Dot("p", "x"))), A("i", Plus1(i))>>), s>>), X(f, <<N(8)>>)>>,
  Count(N(9), <<Out(i)>>) \o <<i>>,
  <<A("s", N(0)), A("t", L("table", <<T("m"), Fn(<<"self">>, <<Dot("self", "k")>>), T("k"), N(2)>>))>>
    \o Count(N(7), <<A("s", O("+", s, M("t", "m", <<>>)))>>) \o <<s>>,
  <<Defn("f", <<"n">>, Count(n, <<A("s", O("*", i, N(2))), Out(s)>>) \o <<s>>), X(f, <<N(8)>>)>>
  }

\* Every pair of twelve statements as the body of a loop, in a function and in
\* the main chunk, but those README.md lists.
Statements == {A("s", O("+", s, i)), A("s", O("+", i, s)), A("u", O("*", i, N(2))), A("s", O("+", s, V("u"))), A("u", s), Out(s),
               A("p", L("table", <<T("x"), i>>)), A("s", O("+", s, Dot("p", "x"))), O("=", Dot("p", "x"), s),
               A("s", X(V("h"), <<s>>)), A("s", O("/", s, N(2))), M("q", "push", <<s>>)}
Before == <<A("s", N(0)), A("u", N(0)), A("p", L("table", <<T("x"), N(1)>>)), A("q", L("table", <<>>))>>
Helper == Defn("h", <<"x">>, <<O("+", x, N(2))>>)
InMain(b1, b2) == <<Helper>> \o Before \o Count(N(6), <<b1, b2>>) \o <<Out(s), V("u")>>
InFunction(b1, b2) == <<Helper, Defn("f", <<"n">>, Before \o Count(n, <<b1, b2>>) \o <<s>>), Out(X(f, <<N(6)>>))>>
Lost == {<<M("q", "push", <<s>>), A("u", O("*", i, N(2)))>>, <<M("q", "push", <<s>>), A("p", L("table", <<T("x"), i>>))>>,
         <<A("s", O("+", s, Dot("p", "x"))), A("p", L("table", <<T("x"), i>>))>>}
Bodies == {InMain(b1, b2) : b1 \in Statements, b2 \in Statements}
          \cup {InFunction(p[1], p[2]) : p \in (Statements \X Statements) \ Lost}

Scripts == UNION {Arithmetic, Calls, Control, Errors, Data, Hot, Bodies}

\* The example of bbl.md:218, after x has been given a negative value.
Negative == {<<A("x", O("-", N(0), N(5))), A("abs-x", If(O("<", x, N(0)), O("-", N(0), x), x)), Out(V("abs-x"))>>}

------------------------------------------------------------------------------
\* A script ends as it should, whichever way its code is compiled, inlined,
\* kept in machine registers, traced and optimised: it prints what the program
\* says and gives the value of its last expression, or fails where it says so
\* (compiler.cpp, jitCompile, jitCall, jitLoopTrace and optimizeTrace together).
ResultIsMeaning ==
  result # <<>> => LET m == Meaning(prog) IN st.out = m.out /\ Ending = m.end

\* The registers the next instruction takes for integers without looking at
\* their tags: in native code, of an inlined callee, and in a trace.
Taken(ins) ==
  CASE ins.op \in {"ADD", "SUB", "MUL"} /\ ins.how = "int" -> {ins.B, ins.C}
    [] ins.op = "ADDI" /\ ins.how = "int" -> {ins.A}
    [] ins.op = "SUBI" /\ ins.how # "hw" -> {ins.A}
    [] ins.op = "ADDK" -> {ins.B}
    [] OTHER -> {}
AllInts(store, base, regs) == \A r \in regs : Is(Reg(store, base, r), {"int"})
InlinedInts ==
  (Top.at = 0 /\ Ins.op = "CALL" /\ Ins.how = "inline" /\ st.regs[b + Ins.A] = <<"fn", Ins.callee>>) =>
    LET body == chunks[st.heap[Ins.callee].path].code
    IN \A k \in 1..(InlineEnd(body) - 1) :
         AllInts(InlineRun(st, b + Ins.A, body, k - 1), b + Ins.A, Taken(Inlined(body[k])))

\* Arithmetic whose type guard was left out, because the type of the operands
\* is taken for known, works on integers (the knownTypes of jitCompile; the
\* machine registers of a loop; inlined callees; traces, which have no guards).
UncheckedAreInts ==
  (Running /\ ~raised) =>
    /\ AllInts(st, b, Taken(Cur))
    /\ (Top.at = 0 /\ ~Top.skip) => AllInts(st, b, Ins.load)
    /\ InlinedInts

\* Every one of these scripts comes to its end: no loop is entered again that
\* its condition has left, by native code, by a trace, or by a handler.
Ends == <>(result # <<>>)
=============================================================================
