------------------------------ MODULE Machine ------------------------------
(***************************************************************************)
(* A script on its way through src/src/jit.cpp: compiled to bytecode, each *)
(* chunk compiled to native code when it is called for the first time, and *)
(* a loop that is run often replaced by a trace.                           *)
(*                                                                         *)
(* A frame is one activation of native code: the chunk, the closure whose  *)
(* chunk counts its loops (0: the main chunk), the base of its registers,  *)
(* the instruction it is at, whether it was entered by a light call, the   *)
(* machine registers of its loop (by absolute register), whether the next  *)
(* instruction is entered behind its loads, and the position in the trace  *)
(* of the LOOP it is at (0: it runs native code).  raised says that a      *)
(* helper's error has been seen by the check behind it; an error may also  *)
(* be pending in st.err without having been seen.                          *)
(*                                                                         *)
(* External: print.  Not modelled: garbage collection, the debugger, the   *)
(* step limit, import; the stack has NumRegs registers.                    *)
(***************************************************************************)
EXTENDS Integers, Sequences, FiniteSets, JitHelpers, Traces

CONSTANTS Source,     \* the programs, a set of sequences of nodes
          HotCount,   \* how often a LOOP runs before it is traced (32)
          NumRegs

ASSUME CountAssumption == HotCount \in Nat \ {0} /\ NumRegs \in Nat

C == INSTANCE Compiler

VARIABLES prog, chunks, st, frames, native, traces, raised, result

vars == <<prog, chunks, st, frames, native, traces, raised, result>>
program == <<prog, chunks>>

Running == result = <<>>
Top == Last(frames)
b == Top.base
Ins == native[Top.path][Top.pc]
LoopKey(f) == <<f.clo, f.pc>>
Trace == traces[LoopKey(Top)]
Entry == Trace.entries[Top.at]

\* An entry of a trace as an instruction of the frame of the loop: registers,
\* and what is taken for one, are moved by the base of the entry.
ShiftB == {"MOVE", "NOT", "LENGTH", "GETFIELD", "SETFIELD", "GETINDEX", "SETINDEX", "ADDK", "ADD", "SUB", "MUL", "DIV",
           "LOADBOOL", "GETCAPTURE", "SETCAPTURE"} \cup Fused \cup Comparisons
ShiftC == {"ADD", "SUB", "MUL", "DIV", "GETINDEX", "SETINDEX"} \cup Comparisons
TraceIns(e) == [op |-> Op(e), A |-> RegA(e), B |-> IF Op(e) \in ShiftB THEN RegB(e) ELSE e.ins[3],
                C |-> IF Op(e) \in ShiftC THEN RegC(e) ELSE e.ins[4], how |-> "int", catch |-> <<>>]
Cur == IF Top.at = 0 THEN Ins ELSE TraceIns(Entry)

\* emitAdd, emitSub, emitAddi and emitSubi work on the whole word: a carry out
\* of the payload, which is in two's complement, goes into the tag above it.
\* A "wild" value has the tag of a closure and no closure behind it.
Tags == <<"null", "bool", "int", "wild">>
TagOf(v) == CHOOSE t \in 0..3 : Tags[t + 1] = v[1]
Word(t, n) == IF t \in 0..3 THEN <<Tags[t + 1], n>> ELSE Junk
Carry(x, y) == IF (x < 0 /\ y < 0) \/ ((x < 0) # (y < 0) /\ x + y >= 0) THEN 1 ELSE 0
Borrow(x, y) == IF ((x < 0) = (y < 0) /\ x < y) \/ (x >= 0 /\ y < 0) THEN 1 ELSE 0
emitAdd(v, w) == IF IsScalar(v) /\ IsScalar(w) THEN Word(TagOf(v) + TagOf(w) - 2 + Carry(v[2], w[2]), v[2] + w[2]) ELSE Junk
emitSub(v, w) == IF IsScalar(v) /\ IsScalar(w) THEN Word(TagOf(v) - TagOf(w) + 2 - Borrow(v[2], w[2]), v[2] - w[2]) ELSE Junk
\* emitMul, ADDK, and the machine registers of a loop, take the payloads out
\* first and put the tag of an integer on the result.
Unboxed(op, v, w) ==
  IF ~IsScalar(v) \/ ~IsScalar(w) THEN Junk
  ELSE Num(CASE op \in {"ADD", "ADDI", "ADDK"} -> v[2] + w[2] [] op \in {"SUB", "SUBI"} -> v[2] - w[2] [] op = "MUL" -> v[2] * w[2])
emitAddi(v, n) ==
  CASE ~IsScalar(v) -> Junk
    [] n < 0 -> Unboxed("ADD", v, Num(n))
    [] OTHER -> Word(TagOf(v) + Carry(v[2], n), v[2] + n)
emitSubi(v, n) ==
  CASE ~IsScalar(v) -> Junk
    [] n < 0 -> Word(TagOf(v) + Carry(v[2], -n), v[2] - n)
    [] OTHER -> Word(TagOf(v) - Borrow(v[2], n), v[2] - n)
\* In machine registers x = y - x comes out as zero: x is overwritten first.
Hw(op, v, w, overwritten) == IF op = "SUB" /\ overwritten THEN Num(0) ELSE Unboxed(op, v, w)

\* What an instruction that neither jumps nor calls does to the store.
Exec(s, base, ins) ==
  LET op == ins.op
      A == ins.A
      B == ins.B
      X == ins.C
      a == Reg(s, base, A)
      v == Reg(s, base, B)
      w == Reg(s, base, X)
      result1(r) == Put(s, base, A, r)
  IN CASE op = "LOADINT" -> result1(Num(B))
       [] op = "LOADK" -> result1(B)
       [] op = "LOADNULL" -> result1(Null)
       [] op = "LOADBOOL" -> result1(Bool(B # 0))
       [] op = "MOVE" -> result1(v)
       [] op \in {"ADD", "SUB", "MUL"} /\ ins.how = "hw" -> result1(Hw(op, v, w, A = X /\ A # B))
       [] op \in {"ADDI", "SUBI"} /\ ins.how = "hw" -> result1(Unboxed(op, a, Num(B)))
       [] op = "ADDI" -> IF ins.how = "int" \/ Is(a, {"int"}) THEN result1(emitAddi(a, B))
                         ELSE jitArith(Put(s, base, A + 1, Num(B)), base, "ADD", A, A, A + 1)
       [] op = "SUBI" -> result1(emitSubi(a, B))
       [] op = "ADDK" -> result1(Unboxed("ADDK", v, Num(X)))
       [] op = "MUL" /\ ins.how = "int" -> result1(Unboxed("MUL", v, w))
       [] op \in {"ADD", "SUB"} /\ (ins.how = "int" \/ (Is(v, {"int"}) /\ Is(w, {"int"}))) ->
            result1(IF op = "ADD" THEN emitAdd(v, w) ELSE emitSub(v, w))
       [] op \in {"ADD", "SUB", "MUL", "DIV", "MOD"} -> jitArith(s, base, op, A, B, X)
       [] op \in Comparisons -> result1(Compare(op, v, w))
       [] op \in {"BAND", "BOR", "BXOR", "BNOT", "SHL", "SHR"} -> jitBitwise(s, base, op, A, B, X)
       [] op = "NOT" -> jitNot(s, base, A, B)
       [] op = "INT" -> jitInt(s, base, A, B)
       [] op = "GETGLOBAL" -> IF ins.how = "self" THEN s ELSE jitGetGlobal(s, base, A, B)
       [] op = "SETGLOBAL" -> jitSetGlobal(s, base, A, B)
       [] op = "CLOSURE" -> jitClosure(s, base, A, B, chunks[B].captures)
       [] op = "GETCAPTURE" -> IF Is(Reg(s, base, 0), {"fn"}) /\ B \in DOMAIN Cell(s, Reg(s, base, 0)).captures
                               THEN jitGetCapture(s, base, A, B) ELSE result1(Junk)
       [] op = "SETCAPTURE" -> jitSetCapture(s, base, A, B)
       [] op = "TABLE" -> jitTable(s, base, A, B)
       [] op = "VECTOR" -> jitVector(s, base, A, B, X)
       [] op = "LENGTH" -> jitLength(s, base, A, B)
       [] op = "GETFIELD" -> jitGetField(s, base, A, B, X)
       [] op = "SETFIELD" -> jitSetField(s, base, A, B, X)
       [] op = "GETINDEX" -> jitGetIndex(s, base, A, B, X)
       [] op = "SETINDEX" -> jitSetIndex(s, base, A, B, X)
       [] op = "MCALL" -> (CASE X = "get" -> jitTableGet(s, base, A, B)
                             [] X = "set" -> jitTableSet(s, base, A, B)
                             [] X = "length" -> jitLength(s, base, A, A)
                             [] OTHER -> jitMcall(s, base, A, B, X))
       [] OTHER -> s

\* The instructions with an error check behind them: those that call a helper.
Unchecked == {"LOADINT", "LOADK", "LOADNULL", "LOADBOOL", "MOVE", "SUBI", "ADDK", "GETCAPTURE", "TRYBEGIN", "TRYEND"}
             \cup Comparisons
Checked(s, base, ins) ==
  /\ ins.op \notin Unchecked /\ ins.how \notin {"int", "hw", "self"}
  /\ ~(ins.op \in {"ADD", "SUB"} /\ Is(Reg(s, base, ins.B), {"int"}) /\ Is(Reg(s, base, ins.C), {"int"}))
  /\ ~(ins.op = "ADDI" /\ Is(Reg(s, base, ins.A), {"int"}))
  /\ ~(ins.op = "GETGLOBAL" /\ ins.how = "inline" /\ ins.B \in DOMAIN s.globals)

\* Entering an instruction: machine registers are written back and loaded.
Stored == [st EXCEPT !.regs = [r \in DOMAIN @ |-> IF Top.at = 0 /\ r - b \in Ins.store THEN Top.hw[r] ELSE @[r]]]
IntBits(v) == IF IsScalar(v) THEN Num(v[2]) ELSE Junk
Loaded == IF Ins.load # {} /\ ~Top.skip THEN [r \in {b + x : x \in Ins.load} |-> IntBits(st.regs[r])] ELSE Top.hw

SetTop(f) == [frames EXCEPT ![Len(frames)] = f]
At(pc) == [Top EXCEPT !.pc = pc, !.skip = FALSE, !.hw = Loaded]

------------------------------------------------------------------------------
\* The globals a script starts with.
Globals0 == [s \in {"print"} |-> <<"cfn", "print">>]
Frame(path, clo, base, light) ==
  [path |-> path, clo |-> clo, base |-> base, pc |-> 1, light |-> light, hw |-> <<>>, skip |-> FALSE, at |-> 0]

\* jitExecute of the main chunk, unless the compiler threw.
Init ==
  /\ prog \in Source
  /\ LET compiled == C!compile(prog)
     IN /\ chunks = compiled.chunks
        /\ native = IF compiled.error # "" THEN <<>>
                    ELSE [path \in {<<>>} |-> jitCompile(chunks[<<>>].code, 0, Globals0, <<>>, chunks)]
        /\ result = IF compiled.error # "" THEN <<"error", compiled.error>> ELSE <<>>
  /\ st = [regs |-> [r \in 0..NumRegs |-> Null], globals |-> Globals0, heap |-> <<>>, out |-> "", err |-> ""]
  /\ frames = <<Frame(<<>>, 0, 0, FALSE)>>
  /\ traces = <<>>
  /\ raised = FALSE

Active(at) == Running /\ ~raised /\ (Top.at > 0) = at

\* An ordinary instruction.  One on machine registers works on them instead.
Straight == {"JMP", "JMPFALSE", "AND", "OR", "LOOP", "CALL", "RETURN"} \cup Fused
IsCall(ins) == ins.op = "CALL" \/ (ins.op = "MCALL" /\ IsMethod(st, b, ins.A, ins.C))
Compute ==
  /\ Active(FALSE)
  /\ Ins.op \notin Straight /\ ~IsCall(Ins)
  /\ LET hw == Exec([st EXCEPT !.regs = Loaded], b, Ins).regs
         st1 == Exec(Stored, b, Ins)
     IN IF Ins.how = "hw"
        THEN st' = Stored /\ raised' = FALSE /\ frames' = SetTop([At(Top.pc + 1) EXCEPT !.hw = hw])
        ELSE /\ st' = st1
             /\ raised' = (st1.err # "" /\ Checked(st, b, Ins))
             /\ frames' = IF raised' THEN frames ELSE SetTop(At(Top.pc + 1))
  /\ UNCHANGED <<program, native, traces, result>>

\* The outcomes of a test: both for a value the model does not follow.
Outcomes(v) == IF v = Junk THEN BOOLEAN ELSE {~Falsy(v)}
FusedTest(ins, regs) ==
  Compare(CASE ins.op = "LTJMP" -> "LT" [] ins.op = "LEJMP" -> "LTE" [] ins.op = "GTJMP" -> "GT" [] OTHER -> "GTE",
          regs[b + ins.A], regs[b + ins.B])
\* A comparison that holds skips the jump behind it.
Branch ==
  /\ Active(FALSE)
  /\ Ins.op \in Straight \ {"LOOP", "CALL", "RETURN"}
  /\ LET target == Top.pc + 1 + Ins.B
         test == IF Ins.op \in Fused THEN FusedTest(Ins, IF Ins.how = "hw" THEN Loaded ELSE st.regs) ELSE Reg(st, b, Ins.A)
     IN \E holds \in (IF Ins.op = "JMP" THEN {TRUE} ELSE Outcomes(test)) :
          frames' = SetTop(At(IF Ins.op \in Fused THEN Top.pc + (IF holds THEN 2 ELSE 1)
                              ELSE IF holds = (Ins.op \in {"JMP", "OR"}) THEN target ELSE Top.pc + 1))
  /\ st' = Stored
  /\ UNCHANGED <<program, native, traces, raised, result>>

\* Behind the instruction the caller is at: in a trace, the next entry.
Resume(f) == IF f.at = 0 THEN [f EXCEPT !.pc = @ + 1]
             ELSE [f EXCEPT !.at = IF @ = Len(traces[LoopKey(f)].entries) THEN 1 ELSE @ + 1]

\* jitCall: the frame of the callee is the caller's registers from the callee
\* on.  A chunk is compiled when a closure of it is called for the first time.
Compile(s, clo) ==
  LET path == s.heap[clo].path
  IN IF path \in DOMAIN native THEN native
     ELSE (path :> jitCompile(chunks[path].code, clo, s.globals, s.heap, chunks)) @@ native
\* print is the only C function; of what it prints, numbers, strings, true,
\* false and null look as + has them, which is all the programs print.
Printed(s, base, n) ==
  FoldLeft(LAMBDA out, r : out \o jitValToStr(s, Reg(s, base, r)), s.out, [r \in 1..n |-> r])
jitCall(s, base, n) ==
  LET callee == s.regs[base]
      done == [Put(s, base, 0, Null) EXCEPT !.out = Printed(s, base, n)]
      failed == Fail(s, "not callable")
  IN CASE Is(callee, {"fn"}) ->
            /\ st' = s
            /\ native' = Compile(s, callee[2])
            /\ frames' = Append(SetTop([Top EXCEPT !.hw = <<>>]), Frame(s.heap[callee[2]].path, callee[2], base, FALSE))
            /\ raised' = FALSE
            /\ UNCHANGED result
       [] Is(callee, {"cfn"}) ->
            /\ st' = done
            /\ raised' = (done.err # "" /\ Top.at = 0)
            /\ frames' = IF raised' THEN frames ELSE SetTop(Resume(Top))
            /\ UNCHANGED <<native, result>>
       [] Is(callee, {"wild"}) -> result' = <<"crash">> /\ UNCHANGED <<st, frames, native, raised>>
       [] OTHER -> st' = failed /\ raised' = TRUE /\ UNCHANGED <<frames, native, result>>

\* The first n instructions of a callee, on the caller's registers from A on.
Inlined(ins) == [op |-> ins[1], A |-> ins[2], B |-> ins[3], C |-> ins[4], how |-> "int"]
InlineRun(s, base, code, n) == FoldLeft(LAMBDA t, i : Exec(t, base, Inlined(code[i])), s, [i \in 1..n |-> i])
Call ==
  /\ Active(FALSE)
  /\ IsCall(Ins)
  /\ LET base == b + Ins.A
         body == chunks[st.heap[Ins.callee].path].code
         end == body[InlineEnd(body)]
         st1 == InlineRun(st, base, body, InlineEnd(body) - 1)
     IN CASE Ins.op = "MCALL" -> jitCall(MethodArgs(st, b, Ins.A, Ins.B, Ins.C), base, Ins.B + 1)
          [] Ins.how = "light" ->
               /\ frames' = Append(SetTop([Top EXCEPT !.hw = <<>>]), Frame(Top.path, Top.clo, base, TRUE))
               /\ UNCHANGED <<st, native, raised, result>>
          [] Ins.how = "inline" /\ st.regs[base] = <<"fn", Ins.callee>> ->
               IF end[1] = "RETURN"
               THEN /\ st' = Put(st1, base, 0, Reg(st1, base, end[2]))
                    /\ frames' = SetTop(At(Top.pc + 1))
                    /\ UNCHANGED <<native, raised, result>>
               ELSE jitCall(st1, base, Ins.B)
          [] OTHER -> jitCall(st, base, Ins.B)
  /\ UNCHANGED <<program, traces>>

Return ==
  /\ Active(FALSE)
  /\ Ins.op = "RETURN"
  /\ LET v == Reg(st, b, Ins.A)
         caller == frames[Len(frames) - 1]
     IN IF Len(frames) = 1
        THEN /\ result' = IF st.err # "" THEN <<"error", st.err>> ELSE <<"value", v>>
             /\ UNCHANGED <<st, frames, raised>>
        ELSE /\ st' = Put(st, b, 0, v)
             /\ raised' = (st.err # "" /\ ~Top.light)
             /\ frames' = IF raised' THEN Front(frames) ELSE Append(SubSeq(frames, 1, Len(frames) - 2), Resume(caller))
             /\ UNCHANGED result
  /\ UNCHANGED <<program, native, traces>>

\* An error that was seen: the handler of the instruction, or the exit of the
\* frame with null.  A light call does not look.
Raise ==
  /\ Running /\ raised
  /\ LET caught == Ins.catch
         caller == frames[Len(frames) - 1]
     IN CASE Top.at > 0 -> /\ frames' = frames /\ raised' = FALSE /\ UNCHANGED <<st, result>>
          [] Top.at = 0 /\ caught # <<>> ->
               /\ st' = jitStoreError(st, b, caught[2])
               /\ frames' = SetTop([Top EXCEPT !.pc = caught[1]])
               /\ raised' = FALSE
               /\ UNCHANGED result
          [] Top.at = 0 /\ caught = <<>> /\ Len(frames) = 1 ->
               /\ result' = <<"error", st.err>>
               /\ UNCHANGED <<st, frames, raised>>
          [] OTHER ->
               /\ st' = Put(st, b, 0, Null)
               /\ raised' = ~Top.light
               /\ frames' = IF Top.light THEN Append(SubSeq(frames, 1, Len(frames) - 2), Resume(caller)) ELSE Front(frames)
               /\ UNCHANGED result
  /\ UNCHANGED <<program, native, traces>>

\* A backward jump, with jitLoopTrace: counted, recorded when hot, and from
\* then on run as a trace, unless the trace is not valid.
LoopTrace0 == [count |-> 0, blacklisted |-> FALSE, compiled |-> FALSE, entries |-> <<>>, sunk |-> {}]
LoopTraceOf(key) == IF key \in DOMAIN traces THEN traces[key] ELSE LoopTrace0
Traced(lt, trace) == [lt EXCEPT !.count = 0, !.compiled = TRUE, !.entries = trace.entries, !.sunk = trace.sunk]
jitLoopTrace(lt, walk) ==
  IF lt.compiled \/ lt.blacklisted THEN lt
  ELSE IF lt.count + 1 < HotCount THEN [lt EXCEPT !.count = @ + 1]
  ELSE IF ~walk.valid THEN [lt EXCEPT !.count = 0, !.blacklisted = TRUE]
  ELSE Traced(lt, optimizeTrace(walk.entries))
Loop ==
  /\ Active(FALSE)
  /\ Ins.op = "LOOP"
  /\ LET key == LoopKey(Top)
         back == [At(Top.pc + 1 - Ins.B) EXCEPT !.skip = (Ins.how = "hw")]
     IN IF Ins.how # "traced" THEN traces' = traces /\ frames' = SetTop(back)
        ELSE /\ traces' = (key :> jitLoopTrace(LoopTraceOf(key), recordTrace(chunks[Top.path].code, Top.pc, st, b, chunks))) @@ traces
             /\ frames' = SetTop(IF traces'[key].compiled THEN [At(Top.pc) EXCEPT !.at = 1] ELSE back)
  /\ st' = Stored
  /\ UNCHANGED <<program, native, raised, result>>

------------------------------------------------------------------------------
\* Leaving a trace, by whichever exit: the tables that were not made are made,
\* and the code behind the loop goes on.
Rebuild(s, sunk) ==
  FoldLeft(LAMBDA t, x : Alloc(t, b, x.reg, "tbl",
                               FoldLeft(LAMBDA u, f : Set(u, Str(f), Reg(t, b, x.fields[f])), EmptyTable, Listing(DOMAIN x.fields))),
           s, Listing(sunk))
Leave(s) == /\ st' = Rebuild(s, Trace.sunk)
            /\ frames' = SetTop([Top EXCEPT !.at = 0, !.pc = @ + 1])

\* A guard of the trace: a comparison must hold, a jump go as it went when the
\* trace was recorded.
Guard ==
  /\ Active(TRUE)
  /\ Op(Entry) \in Fused \cup {"JMPFALSE"}
  /\ LET test == IF Op(Entry) \in Fused THEN FusedTest(Cur, st.regs) ELSE Reg(st, b, Cur.A)
     IN \E holds \in Outcomes(test) :
          IF holds # (Op(Entry) = "JMPFALSE" /\ Entry.taken)
          THEN frames' = SetTop(Resume(Top)) /\ st' = st
          ELSE Leave(st)
  /\ UNCHANGED <<program, native, traces, raised, result>>

\* The register the innermost call around entry k puts its result into.
CallReg(entries, k) ==
  LET calls == {j \in 1..(k - 1) : Op(entries[j]) = "CALL" /\ entries[j].base < entries[k].base}
  IN RegA(entries[CHOOSE j \in calls : \A i \in calls : i <= j])
\* get and set are compiled for tables without a look at the receiver.
Crash == Op(Entry) = "MCALL" /\ Cur.C \in {"get", "set"} /\ ~Is(Reg(st, b, Cur.A), {"tbl"})
Dropped == {"MOD", "BAND", "BOR", "BXOR", "BNOT", "SHL", "SHR", "INT", "JMP", "AND", "OR", "CALL", "LOOP"}
TraceStep ==
  /\ Active(TRUE)
  /\ Op(Entry) \notin Fused \cup {"JMPFALSE"} /\ ~IsCall([Cur EXCEPT !.op = IF @ = "CALL" THEN "LOOP" ELSE @])
  /\ LET st1 == IF Op(Entry) \in Dropped THEN st
                ELSE IF Op(Entry) = "RETURN" THEN Put(st, b, CallReg(Trace.entries, Top.at), Reg(st, b, Cur.A))
                ELSE Exec(st, b, Cur)
     IN IF Crash THEN result' = <<"crash">> /\ UNCHANGED <<st, frames>>
        ELSE /\ IF st1.err # "" /\ Op(Entry) \notin Unchecked THEN Leave(st1)
                ELSE st' = st1 /\ frames' = SetTop(Resume(Top))
             /\ UNCHANGED result
  /\ UNCHANGED <<program, native, traces, raised>>

\* A method that is a function of the table, called from a trace.
TraceCall ==
  /\ Active(TRUE)
  /\ Op(Entry) = "MCALL" /\ IsCall(Cur)
  /\ jitCall(MethodArgs(st, b, Cur.A, Cur.B, Cur.C), b + Cur.A, Cur.B + 1)
  /\ UNCHANGED <<program, traces>>

\* The script has ended.
Ended == ~Running /\ UNCHANGED vars

Next == Compute \/ Branch \/ Call \/ Return \/ Raise \/ Loop \/ Guard \/ TraceStep \/ TraceCall \/ Ended

\* A script that runs goes on running: WF_vars(Next), stated without ENABLED,
\* since a step is enabled in every state of a script that runs.
Progress == []<>(~Running) \/ []<><<TRUE>>_vars

Spec == Init /\ [][Next]_vars /\ Progress
=============================================================================
