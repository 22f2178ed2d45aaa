----------------------------- MODULE NativeCode -----------------------------
(***************************************************************************)
(* jitCompile of src/src/jit.cpp: the native code a chunk is given before  *)
(* it runs for the first time.  One pass over the bytecode, in the order   *)
(* of the code and not of the control flow, decides how each instruction   *)
(* is carried out.  A native instruction is a record: the bytecode         *)
(* instruction (op, A, B, C), and                                          *)
(*   how     "call" (a helper checks the operands), "int" (machine         *)
(*           arithmetic on operands taken to be integers), "guarded"       *)
(*           ("int" when the tags say so, "call" otherwise), "hw" (machine *)
(*           registers of a loop), "self", "light", "inline", "traced",    *)
(*           or "plain";                                                   *)
(*   callee  the closure whose code an "inline" call holds;                *)
(*   catch   <<target, register>> of the innermost try around it, or <<>>; *)
(*   load    the registers read into machine registers before it;          *)
(*   store   those written back before it.                                 *)
(* Positions are numbered from 1.  The knownTypes of the code are the set  *)
(* ints: floats are left out, and Table is forgotten again before every    *)
(* use.  Not modelled: the debug and step-limit checks.                    *)
(***************************************************************************)
EXTENDS Integers, Sequences, FiniteSets, SequencesExt

MAX_HW_REGS == 7
Target(i, ins) == i + 1 + ins[3]
LoopStart(i, ins) == i + 1 - ins[3]
Fused == {"LTJMP", "LEJMP", "GTJMP", "GEJMP"}
Comparisons == {"EQ", "NEQ", "LT", "GT", "LTE", "GTE"}

\* The pre-scan for loops of integer arithmetic.
LoopOps == {"LOADINT", "ADD", "SUB", "MUL", "ADDI", "SUBI", "ADDK", "MOVE", "JMP", "LOOP"} \cup Fused \cup Comparisons
UsedRegs(ins) ==
  CASE ins[1] \in {"ADD", "SUB", "MUL"} \cup Comparisons -> {ins[2], ins[3], ins[4]}
    [] ins[1] \in {"ADDI", "SUBI", "LOADINT"} -> {ins[2]}
    [] ins[1] \in {"ADDK", "MOVE"} \cup Fused -> {ins[2], ins[3]}
    [] OTHER -> {}
BodyRegs(code, li) == UNION {UsedRegs(code[i]) : i \in LoopStart(li, code[li])..li}
Eligible(code, li) ==
  /\ code[li][1] = "LOOP"
  /\ \A i \in LoopStart(li, code[li])..li : code[i][1] \in LoopOps
  /\ Cardinality(BodyRegs(code, li)) <= MAX_HW_REGS
\* loopAllocMap: by the start of the loop, the registers; of two LOOPs to the
\* same start the last one counts.
LoopAllocs(code) ==
  LET lis == {li \in DOMAIN code : Eligible(code, li)}
      of(start) == {li \in lis : LoopStart(li, code[li]) = start}
  IN [start \in {LoopStart(li, code[li]) : li \in lis} |->
        BodyRegs(code, CHOOSE li \in of(start) : \A k \in of(start) : k <= li)]

KeepsClosure == {"GETGLOBAL", "CLOSURE", "CALL"}
\* Mutant: reading a global leaves the type its register had.
KeepsType_Global == {"LOADINT", "LOADK", "ADD", "SUB", "MUL", "ADDI", "SUBI", "ADDK", "MOVE", "TABLE", "JMP", "JMPFALSE",
                     "LOOP", "RETURN", "GETGLOBAL"} \cup Fused
KeepsType == {"LOADINT", "LOADK", "ADD", "SUB", "MUL", "ADDI", "SUBI", "ADDK", "MOVE", "TABLE", "JMP", "JMPFALSE",
              "LOOP", "RETURN"} \cup Fused

\* What the pass keeps: registers known to hold integers, registers that hold
\* the function itself or another global closure (0 for one made here), whether
\* the function calls itself, the loop in machine registers (0 for none), the
\* loops that have been, the open tries, and the code emitted.
Pass0 == [ints |-> {}, selfRef |-> {}, closureOf |-> <<>>, hasSelfCalls |-> FALSE,
          loop |-> 0, started |-> {}, tries |-> <<>>, code |-> <<>>]

\* The instructions of a callee that are inlined: up to the first that cannot be.
InlineOps == {"ADD", "SUB", "MUL", "ADDI", "SUBI", "MOVE", "LOADINT", "LOADK"}
InlineEnd(code) == CHOOSE i \in DOMAIN code : /\ code[i][1] \notin InlineOps
                                              /\ \A j \in 1..(i - 1) : code[j][1] \in InlineOps
InlineTypes(ints, code, A) ==
  FoldLeft(LAMBDA known, i : LET ins == code[i]
                             IN IF ins[1] = "LOADK" \/ (ins[1] = "MOVE" /\ (A + ins[3] \in known) = (A + ins[2] \in known)) THEN known
                                ELSE IF ins[1] = "MOVE" /\ A + ins[3] \notin known THEN known \ {A + ins[2]}
                                ELSE known \cup {A + ins[2]},
           ints, [i \in 1..(InlineEnd(code) - 1) |-> i])

\* One step of the pass, at instruction i; self is the closure compiled.
Step(s, i, code, allocs, self, globals, heap, chunks) ==
  LET closure(x) == IF x \in DOMAIN globals /\ globals[x][1] = "fn" THEN globals[x][2] ELSE 0
      chunkOf(c) == chunks[heap[c].path]
      ins == code[i]
      op == ins[1]
      A == ins[2]
      B == ins[3]
      C == ins[4]
      kept == IF op \in KeepsType THEN s.ints ELSE s.ints \ {A}
      selfRef == IF op \in KeepsClosure THEN s.selfRef ELSE s.selfRef \ {A}
      closureOf == IF op \in KeepsClosure THEN s.closureOf ELSE [r \in DOMAIN s.closureOf \ {A} |-> s.closureOf[r]]
      begins == i \in DOMAIN allocs /\ allocs[i] \subseteq kept
      loop == IF begins THEN i ELSE s.loop
      inLoop(regs) == loop # 0 /\ regs \subseteq allocs[loop]
      start == LoopStart(i, ins)
      own == op = "GETGLOBAL" /\ self # 0 /\ closure(B) = self
      other == op = "GETGLOBAL" /\ self # 0 /\ closure(B) \notin {0, self}
      callee == IF op = "CALL" /\ A \in DOMAIN closureOf THEN closureOf[A] ELSE 0
      body == chunkOf(callee).code
      how ==
        CASE op \in {"ADD", "SUB"} -> IF inLoop({A, B, C}) THEN "hw"
                                      ELSE IF s.hasSelfCalls \/ {B, C} \subseteq kept THEN "int" ELSE "guarded"
          [] op = "MUL" -> IF inLoop({A, B, C}) THEN "hw" ELSE "call"
          [] op = "ADDI" -> IF inLoop({A}) THEN "hw" ELSE IF A \in kept THEN "int" ELSE "guarded"
          [] op = "SUBI" -> IF inLoop({A}) THEN "hw" ELSE "int"
          [] op = "ADDK" -> "int"
          [] op = "LOADINT" /\ inLoop({A}) -> "hw"
          [] op \in {"MOVE"} \cup Fused /\ inLoop({A, B}) -> "hw"
          [] op = "LOOP" -> IF start \in s.started THEN "hw"
                            ELSE IF start \in DOMAIN allocs \/ \E k \in start..(i - 1) : code[k][1] = "DIV" THEN "plain"
                            ELSE "traced"
          [] own -> "self"
          [] op = "GETGLOBAL" -> IF B \in DOMAIN globals THEN "inline" ELSE "call"
          [] op = "CALL" -> IF A \in selfRef THEN "light"
                            ELSE IF callee # 0 /\ chunkOf(callee).arity = B THEN "inline" ELSE "call"
          [] OTHER -> "plain"
      ints ==
        CASE op = "LOADINT" \/ (op = "LOADK" /\ B[1] = "int") \/ (op = "MOVE" /\ B \in kept) -> kept \cup {A}
          [] op \in {"ADD", "SUB", "MUL"} /\ how \in {"hw", "int"} -> kept \cup {A}
          [] op \in {"MUL", "MOVE"} -> kept \ {A}
          [] op = "CALL" /\ how = "inline" -> InlineTypes(kept, body, A)
          [] OTHER -> kept
      native == [op |-> op, A |-> A, B |-> B, C |-> C, how |-> how, callee |-> callee,
                 catch |-> IF s.tries = <<>> THEN <<>> ELSE Last(s.tries),
                 load |-> IF begins THEN allocs[i] ELSE {},
                 store |-> IF loop # 0 /\ i = loop + 1 THEN allocs[loop] ELSE {}]
  IN [ints |-> ints,
      selfRef |-> IF own THEN selfRef \cup {A} ELSE selfRef,
      closureOf |-> IF op = "CLOSURE" THEN (A :> 0) @@ closureOf ELSE IF other THEN (A :> closure(B)) @@ closureOf ELSE closureOf,
      hasSelfCalls |-> s.hasSelfCalls \/ own,
      loop |-> IF op = "LOOP" /\ how = "hw" THEN 0 ELSE loop,
      started |-> IF begins THEN s.started \cup {i} ELSE s.started,
      tries |-> IF op = "TRYBEGIN" THEN Append(s.tries, <<Target(i, ins), A>>)
                ELSE IF op = "TRYEND" /\ s.tries # <<>> THEN Front(s.tries) ELSE s.tries,
      code |-> Append(s.code, native)]

\* The native code of the chunk of the closure self (0: the main chunk), with
\* the globals and the heap as they are when it is compiled.
jitCompile(code, self, globals, heap, chunks) ==
  LET allocs == LoopAllocs(code)
  IN FoldLeft(LAMBDA s, i : Step(s, i, code, allocs, self, globals, heap, chunks),
              Pass0, [i \in DOMAIN code |-> i]).code
=============================================================================
