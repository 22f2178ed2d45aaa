------------------------------ MODULE Compiler ------------------------------
(***************************************************************************)
(* The compiler of src/src/compiler.cpp: an abstract syntax tree becomes a *)
(* chunk of register bytecode.                                             *)
(*                                                                         *)
(* A node is a tuple whose first element is its kind: <<"int", 1>>,        *)
(* <<"str", "a">>, <<"bool", TRUE>>, <<"null">>, <<"sym", "x">>,           *)
(* <<"list", <<n1, ..., nk>>>>, <<"dot", object, "field">>,                *)
(* <<"nth", object, 0>> and <<"colon", object, "method">>.  An instruction *)
(* is <<op, A, B, C>>: the constant an operand names stands in its place,  *)
(* and a jump offset (sBx) stands in B.  A function constant is the path   *)
(* of the function in the program; the chunks are collected by path.       *)
(*                                                                         *)
(* CompilerState is a record; the register an expression's value ends in,  *)
(* which compileExpr returns, is its field reg.  Not modelled: with,       *)
(* struct, struct constructors, binary, exec, exec-file, size-of, floats,  *)
(* and the limits on registers, constants, captures and nesting (255,      *)
(* 65536, 255, 512), which no modelled program comes near.                 *)
(***************************************************************************)
EXTENDS Integers, Sequences

Kind(n) == n[1]
IsForm(n, names) == /\ Kind(n) = "list" /\ n[2] # <<>>
                    /\ Kind(n[2][1]) = "sym" /\ n[2][1][2] \in names

NoLocals == [s \in {} |-> 0]
With(f, k, v) == [x \in DOMAIN f \cup {k} |-> IF x = k THEN v ELSE f[x]]

\* struct CompilerState; up is the enclosing one (a sequence of at most one),
\* inlining the functions being inlined, protos the chunks of the functions
\* compiled so far, error the message of the first Error thrown.
CompilerState(path, name, up, inlining) ==
  [path |-> path, name |-> name, up |-> up, inlining |-> inlining,
   code |-> <<>>, locals |-> NoLocals, inlinable |-> NoLocals, captures |-> <<>>,
   next |-> 0, reg |-> 0, loops |-> <<>>, protos |-> NoLocals, error |-> ""]

Emit(cs, op, A, B, C) == [cs EXCEPT !.code = Append(@, <<op, A, B, C>>)]
In(cs, r) == [cs EXCEPT !.reg = r]
Throw(cs, msg) == IF cs.error = "" THEN [cs EXCEPT !.error = msg] ELSE cs
allocReg(cs) == [cs EXCEPT !.next = @ + 1, !.reg = cs.next]
freeRegsTo(cs, r) == [cs EXCEPT !.next = r]
PC(cs) == Len(cs.code)

emitJump(cs, op, A) == Emit(cs, op, A, 0, 0)
patchJump(cs, at) == [cs EXCEPT !.code[at][3] = PC(cs) - at]
RECURSIVE patchAll(_, _)
patchAll(cs, jumps) == IF jumps = <<>> THEN cs ELSE patchAll(patchJump(cs, Head(jumps)), Tail(jumps))

Bind(cs, s, r) == [cs EXCEPT !.locals = With(@, s, r)]
IsLocal(cs, s) == s \in DOMAIN cs.locals

\* The index of a captured variable, 0 for none, in reg.
AddCapture(cs, d) ==
  IF \E i \in DOMAIN cs.captures : cs.captures[i] = d
  THEN In(cs, CHOOSE i \in DOMAIN cs.captures : cs.captures[i] = d)
  ELSE In([cs EXCEPT !.captures = Append(@, d)], Len(cs.captures) + 1)
RECURSIVE resolveCapture(_, _)
resolveCapture(cs, s) ==
  IF cs.up = <<>> THEN In(cs, 0)
  ELSE IF IsLocal(cs.up[1], s) THEN AddCapture(cs, <<0, cs.up[1].locals[s]>>)
  ELSE LET up == resolveCapture(cs.up[1], s)
           cs1 == [cs EXCEPT !.up = <<up>>]
       IN IF up.reg = 0 THEN In(cs1, 0) ELSE AddCapture(cs1, <<1, up.reg>>)

arithOp == [o \in {"+", "-", "*", "/", "%", "band", "bor", "bxor"} |->
  CASE o = "+" -> "ADD" [] o = "-" -> "SUB" [] o = "*" -> "MUL" [] o = "/" -> "DIV" [] o = "%" -> "MOD"
    [] o = "band" -> "BAND" [] o = "bor" -> "BOR" [] o = "bxor" -> "BXOR"]
cmpOp == [o \in {"==", "!=", "<", ">", "<=", ">="} |->
  CASE o = "==" -> "EQ" [] o = "!=" -> "NEQ" [] o = "<" -> "LT" [] o = ">" -> "GT" [] o = "<=" -> "LTE" [] o = ">=" -> "GTE"]
fusedOp == [o \in {"<", ">", "<=", ">="} |->
  CASE o = "<" -> "LTJMP" [] o = "<=" -> "LEJMP" [] o = ">" -> "GTJMP" [] o = ">=" -> "GEJMP"]
IsFused(cond) == IsForm(cond, DOMAIN fusedOp) /\ Len(cond[2]) = 3

RECURSIVE compileExpr(_, _, _), compileList(_, _, _), compileFn(_, _, _, _)

compileInto(cs, n, dest) ==
  LET r == compileExpr(cs, n, dest)
  IN In(IF r.reg # dest THEN Emit(r, "MOVE", dest, r.reg, 0) ELSE r, dest)

\* Expressions one after the other into dest; reg is where the last one is.
RECURSIVE compileAll(_, _, _)
compileAll(cs, ns, dest) ==
  IF ns = <<>> THEN cs ELSE compileAll(compileExpr(cs, Head(ns), dest), Tail(ns), dest)

\* Arguments, each moved into a register of its own.
RECURSIVE compileArgs(_, _)
compileArgs(cs, ns) ==
  IF ns = <<>> THEN cs
  ELSE LET r == allocReg(cs) IN compileArgs(compileInto(r, Head(ns), r.reg), Tail(ns))

\* Two operands in fresh registers; the pair of registers they end in is in reg.
compilePair(cs, a, b) ==
  LET r1 == allocReg(cs)
      c1 == compileExpr(r1, a, r1.reg)
      r2 == allocReg(c1)
      c2 == compileExpr(r2, b, r2.reg)
  IN [c2 EXCEPT !.reg = <<c1.reg, c2.reg>>]

Rest(c, i) == SubSeq(c, i, Len(c))
\* Mutant: built at the register the result goes to, over what is live above it.
BaseReg_Low(cs, dest) == dest
\* The register a call, table or vector is built at.
BaseReg(cs, dest) == IF dest < cs.next THEN cs.next ELSE dest
Reserve(cs, base) == IF cs.next <= base THEN freeRegsTo(cs, base + 1) ELSE cs
MoveFrom(cs, base, dest) == In(IF base # dest THEN Emit(cs, "MOVE", dest, base, 0) ELSE cs, dest)

\* A method call (op MCALL, C the method) or a call (op CALL, C = 1).
compileCall(cs, op, callee, args, dest, C, free) ==
  LET base == BaseReg(cs, dest)
      c0 == IF free \/ base # dest THEN freeRegsTo(cs, base) ELSE cs
      c1 == Reserve(compileInto(c0, callee, base), base)
      c2 == Emit(compileArgs(c1, args), op, base, Len(args), C)
  IN MoveFrom(freeRegsTo(c2, cs.next), base, dest)

compileMethodCall(cs, c, dest) == compileCall(cs, "MCALL", c[1][2], Rest(c, 2), dest, c[1][3], TRUE)

compileVector(cs, c, dest) ==
  LET base == BaseReg(cs, dest)
      c0 == Reserve(IF base # dest THEN freeRegsTo(cs, base) ELSE cs, base)
      c1 == Emit(compileArgs(c0, Rest(c, 3)), "VECTOR", base, Len(c) - 2, c[2][2])
  IN IF Len(c) < 2 THEN Throw(cs, "'vector' requires a type name") ELSE MoveFrom(freeRegsTo(c1, cs.next), base, dest)
compileTable(cs, c, dest) ==
  LET base == BaseReg(cs, dest)
      c0 == Reserve(IF base # dest THEN freeRegsTo(cs, base) ELSE cs, base)
      c1 == Emit(compileArgs(c0, Rest(c, 2)), "TABLE", base, (Len(c) - 1) \div 2, 0)
  IN MoveFrom(freeRegsTo(c1, cs.next), base, dest)

\* A chain of binary operations; the register of the left operand is in reg,
\* and one literal operand of + or - is taken into the instruction.
RECURSIVE compileChain(_, _, _, _, _, _)
compileChain(cs, op, ns, dest, only, saved) ==
  IF ns = <<>> THEN In(cs, dest)
  ELSE LET n == Head(ns)
           special == /\ only /\ Kind(n) = "int" /\ n[2] \in -32768..32767
                      /\ cs.reg = dest /\ op \in {"ADD", "SUB"}
           r == allocReg(cs)
           b == compileExpr(r, n, r.reg)
           c1 == IF special THEN Emit(cs, IF op = "ADD" THEN "ADDI" ELSE "SUBI", dest, n[2], 0)
                 ELSE Emit(b, op, dest, cs.reg, b.reg)
       IN compileChain(In(freeRegsTo(c1, saved), dest), op, Tail(ns), dest, only, saved)
compileArith(cs, op, c, dest) ==
  IF Len(c) < 3 THEN Throw(cs, "requires at least 2 arguments")
  ELSE compileChain(compileExpr(cs, c[2], dest), op, Rest(c, 3), dest, Len(c) = 3,
                    IF cs.next > dest + 1 THEN cs.next ELSE dest + 1)

compileCompare(cs, op, c, dest) ==
  IF Len(c) # 3 THEN Throw(cs, "requires exactly 2 arguments")
  ELSE LET p == compilePair(cs, c[2], c[3])
       IN In(freeRegsTo(Emit(p, op, dest, p.reg[1], p.reg[2]), cs.next), dest)

compileUnary(cs, op, c, dest) ==
  LET a == compileExpr(cs, c[2], dest)
  IN IF Len(c) < 2 \/ (op = "INT" /\ Len(c) # 2) THEN Throw(cs, "requires an argument")
     ELSE In(Emit(a, op, dest, a.reg, 0), dest)

\* (= name value): an existing local, a captured variable, a new local, or a
\* global of the main chunk, in this order.
IsFn(n) == IsForm(n, {"fn"})
Value(cs, n, name, dest) == IF IsFn(n) THEN compileFn(cs, n[2], name, dest) ELSE compileExpr(cs, n, dest)
ValueInto(cs, n, name, dest) == IF IsFn(n) THEN compileFn(cs, n[2], name, dest) ELSE compileInto(cs, n, dest)
NewLocal(cs, s) == LET r == allocReg(cs) IN Bind(r, s, r.reg)
assignName(cs, s, n, dest) ==
  LET c0 == IF IsFn(n) /\ Len(n[2]) = 3 /\ Kind(n[2][2]) = "list" THEN [cs EXCEPT !.inlinable = With(@, s, n[2])] ELSE cs
      cap == resolveCapture(c0, s)
      local == NewLocal(cap, s)
  IN IF IsLocal(c0, s) THEN In(ValueInto(c0, n, s, c0.locals[s]), c0.locals[s])
     ELSE IF cap.reg # 0 THEN In(Emit(Value(cap, n, s, dest), "SETCAPTURE", dest, cap.reg, 0), dest)
     ELSE IF cs.up # <<>> THEN In(ValueInto(local, n, s, local.reg), local.reg)
     ELSE In(Emit(Value(cap, n, s, dest), "SETGLOBAL", dest, s, 0), dest)

\* (= object.field value) and (= object.0 value).
assignPlace(cs, place, n, dest) ==
  LET p == compilePair(cs, n, place[2])
      i == allocReg(p)
      c1 == IF Kind(place) = "dot" THEN Emit(p, "SETFIELD", p.reg[1], p.reg[2], place[3])
            ELSE Emit(Emit(i, "LOADINT", i.reg, place[3], 0), "SETINDEX", p.reg[1], p.reg[2], i.reg)
  IN In(freeRegsTo(IF dest # p.reg[1] THEN Emit(c1, "MOVE", dest, p.reg[1], 0) ELSE c1, cs.next), dest)

compileAssign(cs, c, dest) ==
  IF Len(c) < 3 THEN Throw(cs, "'=' requires at least 2 arguments")
  ELSE IF Kind(c[2]) = "sym" THEN assignName(cs, c[2][2], c[3], dest)
  ELSE IF Kind(c[2]) \in {"dot", "nth"} THEN assignPlace(cs, c[2], c[3], dest)
  ELSE Throw(cs, "invalid assignment target")

\* (defn name parameters body): like (= name (fn parameters body)), but a
\* captured name is shadowed and the function is never inlined.
compileDefn(cs, c, dest) ==
  LET s == c[2][2]
      fn == <<<<"sym", "fn">>>> \o Rest(c, 3)
      local == NewLocal(cs, s)
  IN IF Len(c) < 4 \/ Kind(c[2]) # "sym" THEN Throw(cs, "'defn' requires name, params, and body")
     ELSE IF IsLocal(cs, s) THEN In(compileFn(cs, fn, s, cs.locals[s]), cs.locals[s])
     ELSE IF cs.up # <<>> THEN In(compileFn(local, fn, s, local.reg), local.reg)
     ELSE In(Emit(compileFn(cs, fn, s, dest), "SETGLOBAL", dest, s, 0), dest)

\* The branch not taken of an if, fused with its comparison or not: the jump
\* to patch is the last instruction of cs.
compileBranches(cs, c, dest) ==
  LET elseJump == PC(cs)
      then == emitJump(compileInto(cs, c[3], dest), "JMP", 0)
      else == IF Len(c) > 3 THEN compileInto(patchJump(then, elseJump), c[4], dest)
              ELSE Emit(patchJump(then, elseJump), "LOADNULL", dest, 0, 0)
  IN In(patchJump(else, PC(then)), dest)
compileIf(cs, c, dest) ==
  LET cond == c[2][2]
      p == compilePair(cs, cond[2], cond[3])
      fused == emitJump(Emit(p, fusedOp[cond[1][2]], p.reg[1], p.reg[2], 0), "JMP", 0)
      test == compileExpr(cs, c[2], dest)
  IN IF Len(c) < 3 THEN Throw(cs, "'if' requires condition and body")
     ELSE IF IsFused(c[2]) THEN compileBranches(freeRegsTo(fused, cs.next), c, dest)
     ELSE compileBranches(emitJump(test, "JMPFALSE", test.reg), c, dest)

LoopInfo(start, isEach) == [start |-> start, isEach |-> isEach, breaks |-> <<>>, continues |-> <<>>]
PushLoop(cs, isEach) == [cs EXCEPT !.loops = Append(@, LoopInfo(PC(cs), isEach))]
TheLoop(cs) == cs.loops[Len(cs.loops)]
PopLoop(cs) == [cs EXCEPT !.loops = SubSeq(@, 1, Len(@) - 1)]
LoopBack(cs) == Emit(cs, "LOOP", 0, PC(cs) - TheLoop(cs).start + 1, 0)
\* Mutant: the exit jump leads to the LOOP instead of behind it.
EndLoop_Back(cs, exitJump, dest) ==
  LET out == Emit(LoopBack(patchJump(cs, exitJump)), "LOADNULL", dest, 0, 0)
  IN In(PopLoop(patchAll(out, TheLoop(out).breaks)), dest)
\* The end of a loop whose exit jump is at exitJump: back, null, breaks.
EndLoop(cs, exitJump, dest) ==
  LET out == Emit(patchJump(LoopBack(cs), exitJump), "LOADNULL", dest, 0, 0)
  IN In(PopLoop(patchAll(out, TheLoop(out).breaks)), dest)

\* A fused loop keeps the two registers of its comparison.
compileLoop(cs, c, dest) ==
  LET start == PushLoop(cs, FALSE)
      cond == c[2][2]
      p == compilePair(start, cond[2], cond[3])
      fused == emitJump(Emit(p, fusedOp[cond[1][2]], p.reg[1], p.reg[2], 0), "JMP", 0)
      r == allocReg(start)
      e == compileExpr(r, c[2], r.reg)
      test == emitJump(e, "JMPFALSE", r.reg)
      head == IF IsFused(c[2]) THEN fused ELSE freeRegsTo(test, test.next - 1)
  IN IF Len(c) < 2 THEN Throw(cs, "'loop' requires a condition")
     ELSE EndLoop(compileAll(head, Rest(c, 3), dest), PC(head), dest)

\* each: the container, its length, the index, the element, all in registers.
compileEach(cs, c, dest) ==
  LET container == allocReg(cs)
      c1 == compileExpr(container, c[3], container.reg)
      len == allocReg(c1)
      idx == allocReg(Emit(len, "LENGTH", len.reg, container.reg, 0))
      elem == allocReg(Emit(idx, "LOADINT", idx.reg, 0, 0))
      start == PushLoop(Bind(elem, c[2][2], elem.reg), TRUE)
      cmp == allocReg(start)
      test == emitJump(Emit(cmp, "LT", cmp.reg, idx.reg, len.reg), "JMPFALSE", cmp.reg)
      fetch == Emit(freeRegsTo(test, test.next - 1), "GETINDEX", elem.reg, container.reg, idx.reg)
      body == compileAll(fetch, Rest(c, 4), dest)
      step == Emit(patchAll(body, TheLoop(body).continues), "ADDK", idx.reg, idx.reg, 1)
  IN IF Len(c) < 4 \/ Kind(c[2]) # "sym" THEN Throw(cs, "'each' requires variable, container, and body")
     ELSE freeRegsTo(EndLoop(step, PC(test), dest), cs.next)

compileDo(cs, c, dest) ==
  In(IF Len(c) = 1 THEN Emit(cs, "LOADNULL", dest, 0, 0) ELSE compileAll(cs, Rest(c, 2), dest), dest)

\* and (op AND), or (op OR): the operands are evaluated into dest.
compileShort(cs, op, c, dest) ==
  LET first == emitJump(compileExpr(cs, c[2], dest), op, dest)
      second == compileExpr(first, c[3], dest)
  IN IF Len(c) < 3 THEN Throw(cs, "requires 2 arguments") ELSE In(patchJump(second, PC(first)), dest)

compileBreak(cs, dest) ==
  LET jump == emitJump(cs, "JMP", 0)
      noted == [jump EXCEPT !.loops[Len(cs.loops)].breaks = Append(@, PC(jump))]
  IN IF cs.loops = <<>> THEN Throw(cs, "'break' outside of loop")
     ELSE In(Emit(noted, "LOADNULL", dest, 0, 0), dest)
compileContinue(cs, dest) ==
  LET jump == emitJump(cs, "JMP", 0)
  IN IF cs.loops = <<>> THEN Throw(cs, "'continue' outside of loop")
     ELSE In(IF TheLoop(cs).isEach
             THEN [jump EXCEPT !.loops[Len(cs.loops)].continues = Append(@, PC(jump))]
             ELSE LoopBack(cs), dest)

\* (try body ... (catch e handler ...))
compileTry(cs, c, dest) ==
  LET catch == c[Len(c)]
      begin == emitJump(cs, "TRYBEGIN", dest)
      body == Emit(compileAll(begin, SubSeq(c, 2, Len(c) - 1), dest), "TRYEND", 0, 0, 0)
      end == emitJump(body, "JMP", 0)
      r == allocReg(patchJump(end, PC(begin)))
      bound == Bind(r, catch[2][2][2], r.reg)
      moved == IF r.reg # dest THEN Emit(bound, "MOVE", r.reg, dest, 0) ELSE bound
      handler == compileAll(moved, Rest(catch[2], 3), dest)
  IN IF Len(c) < 3 \/ ~IsForm(catch, {"catch"}) \/ Len(catch[2]) < 3
     THEN Throw(cs, "try: last argument must be (catch var handler)")
     ELSE In(patchJump(handler, PC(end)), dest)

\* A call of a function assigned in this chunk whose body is one expression is
\* replaced by that body, its parameters bound to the registers of the
\* arguments, unless it is being inlined already.
RECURSIVE BindArgs(_, _, _)
BindArgs(cs, params, args) ==
  IF args = <<>> THEN cs
  ELSE LET r == allocReg(cs)
           a == compileExpr(r, Head(args), r.reg)
       IN BindArgs(Bind(a, Head(params)[2], a.reg), Tail(params), Tail(args))
Params(params) == {params[i][2] : i \in DOMAIN params}
Inlines(cs, c) ==
  LET s == c[1][2]
  IN /\ s \in DOMAIN cs.inlinable /\ s \notin cs.inlining
     /\ Len(cs.inlinable[s][2][2]) = Len(c) - 1
inline(cs, c, dest) ==
  LET fn == cs.inlinable[c[1][2]]
      params == fn[2][2]
      bound == BindArgs([cs EXCEPT !.inlining = @ \cup {c[1][2]}], params, Rest(c, 2))
      body == compileInto(bound, fn[3], dest)
      names == (DOMAIN body.locals \ Params(params)) \cup (Params(params) \cap DOMAIN cs.locals)
  IN [body EXCEPT !.locals = [s \in names |-> IF s \in Params(params) THEN cs.locals[s] ELSE body.locals[s]],
                  !.next = cs.next, !.inlining = cs.inlining]

compileFunctionCall(cs, c, dest) ==
  IF Inlines(cs, c) THEN inline(cs, c, dest)
  ELSE compileCall(cs, "CALL", c[1], Rest(c, 2), dest, 1, FALSE)

compileList(cs, c, dest) ==
  LET op == c[1][2]
  IN IF c = <<>> THEN In(Emit(cs, "LOADNULL", dest, 0, 0), dest)
     ELSE IF Kind(c[1]) = "colon" THEN compileMethodCall(cs, c, dest)
     ELSE IF Kind(c[1]) # "sym" THEN compileCall(cs, "CALL", c[1], Rest(c, 2), dest, 1, TRUE)
     ELSE IF op \in DOMAIN arithOp THEN compileArith(cs, arithOp[op], c, dest)
     ELSE IF op \in DOMAIN cmpOp THEN compileCompare(cs, cmpOp[op], c, dest)
     ELSE CASE op = "shl" -> compileCompare(cs, "SHL", c, dest)
            [] op = "shr" -> compileCompare(cs, "SHR", c, dest)
            [] op = "bnot" -> compileUnary(cs, "BNOT", c, dest)
            [] op = "not" -> compileUnary(cs, "NOT", c, dest)
            [] op = "=" -> compileAssign(cs, c, dest)
            [] op = "defn" -> compileDefn(cs, c, dest)
            [] op = "if" -> compileIf(cs, c, dest)
            [] op = "loop" -> compileLoop(cs, c, dest)
            [] op = "each" -> compileEach(cs, c, dest)
            [] op = "do" -> compileDo(cs, c, dest)
            [] op = "and" -> compileShort(cs, "AND", c, dest)
            [] op = "or" -> compileShort(cs, "OR", c, dest)
            [] op = "fn" -> compileFn(cs, c, "", dest)
            [] op = "break" -> compileBreak(cs, dest)
            [] op = "continue" -> compileContinue(cs, dest)
            [] op = "try" -> compileTry(cs, c, dest)
            [] op = "vector" -> compileVector(cs, c, dest)
            [] op = "table" -> compileTable(cs, c, dest)
            [] op = "int" -> compileUnary(cs, "INT", c, dest)
            [] OTHER -> compileFunctionCall(cs, c, dest)

compileSymbol(cs, s, dest) ==
  LET cap == resolveCapture(cs, s)
  IN IF IsLocal(cs, s) THEN In(cs, cs.locals[s])
     ELSE IF cap.reg # 0 THEN In(Emit(cap, "GETCAPTURE", dest, cap.reg, 0), dest)
     ELSE In(Emit(cap, "GETGLOBAL", dest, s, 0), dest)

\* object.field and object.0
compileAccess(cs, n, dest) ==
  LET obj == compileInto(cs, n[2], dest)
      i == allocReg(obj)
  IN In(IF Kind(n) = "dot" THEN Emit(obj, "GETFIELD", dest, dest, n[3])
        ELSE freeRegsTo(Emit(Emit(i, "LOADINT", i.reg, n[3], 0), "GETINDEX", dest, dest, i.reg), obj.next), dest)

compileExpr(cs, n, dest) ==
  CASE Kind(n) = "int" -> In(Emit(cs, IF n[2] \in -32768..32767 THEN "LOADINT" ELSE "LOADK", dest,
                                  IF n[2] \in -32768..32767 THEN n[2] ELSE <<"int", n[2]>>, 0), dest)
    [] Kind(n) = "str" -> In(Emit(cs, "LOADK", dest, n, 0), dest)
    [] Kind(n) = "bool" -> In(Emit(cs, "LOADBOOL", dest, IF n[2] THEN 1 ELSE 0, 0), dest)
    [] Kind(n) = "null" -> In(Emit(cs, "LOADNULL", dest, 0, 0), dest)
    [] Kind(n) = "sym" -> compileSymbol(cs, n[2], dest)
    [] Kind(n) = "list" -> compileList(cs, n[2], dest)
    [] Kind(n) \in {"dot", "nth"} -> compileAccess(cs, n, dest)
    [] OTHER -> Throw(cs, "colon access must be called as a method")

\* The last expression of a chunk, moved into resultReg, and returned.
Return(cs, resultReg) ==
  LET r == IF cs.reg # resultReg THEN Emit(cs, "MOVE", resultReg, cs.reg, 0) ELSE cs
  IN Emit(r, "RETURN", resultReg, 0, 0)

\* (fn (parameters) body ...): register 0 is the callee, then the parameters,
\* then the result.
compileFn(cs, c, name, dest) ==
  LET path == Append(cs.path, PC(cs) + 1)
      params == c[2][2]
      r == CompilerState(path, name, <<cs>>, cs.inlining)
      result == Len(params) + 1
      bound == [r EXCEPT !.locals = [s \in Params(params) |->
                                       CHOOSE i \in DOMAIN params : /\ params[i][2] = s
                                                                    /\ \A j \in DOMAIN params : params[j][2] = s => j <= i],
                         !.next = result + 1]
      body == Return(compileAll(In(bound, result), Rest(c, 3), result), result)
      proto == [code |-> body.code, arity |-> Len(params), captures |-> body.captures, name |-> name]
      up == body.up[1]
      known == [q \in DOMAIN up.protos \cup DOMAIN body.protos \cup {path} |->
                  IF q = path THEN proto ELSE IF q \in DOMAIN body.protos THEN body.protos[q] ELSE up.protos[q]]
      out == Throw([up EXCEPT !.protos = known], body.error)
  IN IF Len(c) < 3 \/ Kind(c[2]) # "list" \/ \E i \in DOMAIN c[2][2] : Kind(c[2][2][i]) # "sym"
     THEN Throw(cs, "fn requires a parameter list and body")
     ELSE In(Emit(out, "CLOSURE", dest, path, 0), dest)

\* compile(nodes): the chunks by path, the main chunk's being <<>>, and the
\* Error thrown, "" when there is none.
compile(nodes) ==
  LET start == [CompilerState(<<>>, "", <<>>, {}) EXCEPT !.next = 2, !.reg = 1]
      body == Return(compileAll(IF nodes = <<>> THEN Emit(start, "LOADNULL", 1, 0, 0) ELSE start, nodes, 1), 1)
      main == [code |-> body.code, arity |-> 0, captures |-> <<>>, name |-> ""]
  IN [error |-> body.error, chunks |-> With(body.protos, <<>>, main)]
=============================================================================
