------------------------------- MODULE Traces -------------------------------
(***************************************************************************)
(* The trace compiler of src/src/jit.cpp: recordTrace walks the bytecode   *)
(* of one iteration of a hot loop without running it, optimizeTrace drops  *)
(* stores and allocations it takes for dead.  An entry is the instruction, *)
(* the base of its frame relative to the loop's, whether it has been       *)
(* dropped, and for a conditional jump whether it was taken.               *)
(***************************************************************************)
EXTENDS Integers, Sequences, SequencesExt, NativeCode

MaxEntries == 200
MaxDepth == 4
Op(e) == e.ins[1]
RegA(e) == e.ins[2] + e.base
RegB(e) == e.ins[3] + e.base
RegC(e) == e.ins[4] + e.base

\* The walk: the chunk and position it is at, the frames it is inside of.
Walk0(code, loopPc) == [entries |-> <<>>, code |-> code, pc |-> LoopStart(loopPc, code[loopPc]), base |-> 0,
                        frames |-> <<>>, done |-> FALSE, valid |-> FALSE]
Unfollowed == {"TRYBEGIN", "TRYEND", "VECTOR"}
IsFalse(v) == v \in {<<"null", 0>>, <<"bool", 0>>, <<"int", 0>>}

\* st and b are the store and the frame of the loop as the walk starts.
RECURSIVE Walk(_, _, _, _, _)
Walk(w, loopPc, st, b, chunks) ==
  LET ins == w.code[w.pc]
      op == ins[1]
      depth == Len(w.frames)
      taken == op = "JMPFALSE" /\ IsFalse(st.regs[b + ins[2] + w.base])
      entry == [ins |-> ins, base |-> w.base, dropped |-> FALSE, taken |-> taken]
      next == [w EXCEPT !.entries = Append(@, entry), !.pc = @ + 1]
      callee == st.regs[b + ins[2] + w.base]
      caller == Last(w.frames)
      target == Target(w.pc, ins)
      w1 ==
        CASE op = "CALL" /\ depth < MaxDepth ->
               IF callee[1] # "fn" THEN [w EXCEPT !.done = TRUE]
               ELSE [next EXCEPT !.frames = Append(@, [code |-> w.code, pc |-> w.pc + 1, base |-> w.base]),
                                 !.code = chunks[st.heap[callee[2]].path].code, !.pc = 1, !.base = ins[2] + w.base]
          [] op = "RETURN" ->
               IF depth = 0 THEN [w EXCEPT !.done = TRUE]
               ELSE [next EXCEPT !.frames = Front(@), !.code = caller.code, !.pc = caller.pc, !.base = caller.base]
          [] op = "JMP" -> IF target > loopPc THEN [w EXCEPT !.pc = @ + 1] ELSE [next EXCEPT !.pc = target]
          [] taken -> [next EXCEPT !.pc = target]
          [] op \in Unfollowed -> [w EXCEPT !.done = TRUE]
          [] OTHER -> next
  IN IF w.done \/ Len(w.entries) >= MaxEntries \/ w.pc > Len(w.code) THEN w
     ELSE IF op = "LOOP" /\ depth = 0 THEN [w EXCEPT !.done = TRUE, !.valid = TRUE]
     ELSE Walk(w1, loopPc, st, b, chunks)

recordTrace(code, loopPc, st, b, chunks) == Walk(Walk0(code, loopPc), loopPc, st, b, chunks)

------------------------------------------------------------------------------
TraceOpWritesA ==
  {"LOADK", "LOADNULL", "LOADBOOL", "LOADINT", "ADD", "ADDK", "ADDI", "SUB", "SUBI", "MUL", "DIV", "MOD", "NOT", "MOVE",
   "GETGLOBAL", "GETCAPTURE", "GETFIELD", "GETINDEX", "LENGTH", "TABLE", "CLOSURE", "BAND", "BOR", "BXOR", "BNOT",
   "SHL", "SHR"} \cup Comparisons

\* traceOpReadsReg: the registers an entry reads.  MOVE, NOT, BNOT and LENGTH
\* are said to read the register they write, MCALL none; the counts of CALL
\* and TABLE are taken with the base of the frame added.
TraceReads(e) ==
  CASE Op(e) \in {"ADD", "SUB", "MUL", "DIV", "MOD", "BAND", "BOR", "BXOR", "SHL", "SHR"} \cup Comparisons -> {RegB(e), RegC(e)}
    [] Op(e) \in {"ADDI", "SUBI", "NOT", "BNOT", "MOVE", "LENGTH", "SETGLOBAL", "SETCAPTURE", "JMPFALSE", "RETURN"} -> {RegA(e)}
    [] Op(e) \in {"ADDK", "GETFIELD"} -> {RegB(e)}
    [] Op(e) \in {"SETFIELD"} \cup Fused -> {RegA(e), RegB(e)}
    [] Op(e) = "GETINDEX" -> {RegB(e), RegC(e)}
    [] Op(e) = "SETINDEX" -> {RegA(e), RegB(e), RegC(e)}
    [] Op(e) = "CALL" -> RegA(e)..(RegA(e) + RegB(e))
    [] Op(e) = "TABLE" -> (RegA(e) + 1)..(RegA(e) + 2 * RegB(e))
    [] OTHER -> {}

Removable == {"LOADINT", "LOADK", "LOADNULL", "LOADBOOL", "MOVE", "ADD", "SUB", "MUL", "ADDI", "SUBI", "ADDK"}
Update(f, k, v) == (k :> v) @@ f
Remove1(f, k) == [x \in DOMAIN f \ {k} |-> f[x]]
Drop(entries, i) == [entries EXCEPT ![i].dropped = TRUE]

\* A store is dead when its register is written again and not read between, in
\* the order of the trace; what a side exit between the two would need is not
\* considered.
eliminateDeadStores(trace) ==
  LET one(s, i) ==
        LET e == s.entries[i]
            A == RegA(e)
            read == s.read \cup TraceReads(e)
            dead == A \in DOMAIN s.lastWrite /\ A \notin read /\ Op(s.entries[s.lastWrite[A]]) \in Removable
        IN IF e.dropped THEN s
           ELSE IF Op(e) \notin TraceOpWritesA THEN [s EXCEPT !.read = read]
           ELSE [entries |-> IF dead THEN Drop(s.entries, s.lastWrite[A]) ELSE s.entries,
                 lastWrite |-> Update(s.lastWrite, A, i), read |-> read \ {A}]
  IN FoldLeft(one, [entries |-> trace, lastWrite |-> <<>>, read |-> {}], [i \in DOMAIN trace |-> i]).entries

\* The string a register was last loaded with before entry i, by the entry
\* itself (0: it was not a string constant that it was loaded with).
KeyLoad(entries, i, r) ==
  LET before == {j \in 1..(i - 1) : ~entries[j].dropped /\ RegA(entries[j]) = r}
      last == CHOOSE j \in before : \A k \in before : k <= j
  IN IF before # {} /\ Op(entries[last]) = "LOADK" /\ entries[last].ins[3][1] = "str" THEN last ELSE 0

\* A table made in the trace: where, the entries that give it fields, and the
\* register each field is in.
TableInfo(entries, i) ==
  LET e == entries[i]
      keys == [p \in 1..e.ins[3] |-> KeyLoad(entries, i, RegA(e) + 2 * p - 1)]
      name(p) == entries[keys[p]].ins[3][2]
  IN [at |-> i, escaped |-> FALSE, known |-> \A p \in DOMAIN keys : keys[p] # 0, sets |-> {},
      fields |-> [s \in {name(p) : p \in DOMAIN keys} |->
                    RegA(e) + 2 * (CHOOSE p \in DOMAIN keys : name(p) = s /\ \A q \in DOMAIN keys : name(q) = s => q <= p)]]

\* The pass over the entries: tables by register, aliases by register.
SinkStep(s, i) ==
  LET e == s.entries[i]
      A == RegA(e)
      obj == RegB(e)
      live == obj \in DOMAIN s.allocs /\ ~s.allocs[obj].escaped
      root(aliases, r) == IF r \in DOMAIN aliases THEN aliases[r] ELSE r
      aliases == IF Op(e) = "MOVE" /\ live THEN Update(s.aliases, A, obj) ELSE s.aliases
      out == CASE Op(e) \in {"SETGLOBAL", "RETURN"} -> {A}
               [] Op(e) = "CALL" -> A..(A + e.ins[3])
               [] Op(e) = "SETINDEX" -> {A, obj}
               [] OTHER -> {}
      info == TableInfo(s.entries, i)
      s1 ==
        CASE Op(e) = "TABLE" -> IF info.known THEN [s EXCEPT !.allocs = Update(@, A, info)] ELSE s
          [] Op(e) = "SETFIELD" -> IF ~live THEN s
               ELSE [s EXCEPT !.allocs[obj].sets = @ \cup {i}, !.allocs[obj].fields = Update(@, e.ins[4], A)]
          [] Op(e) = "GETFIELD" -> IF ~live \/ e.ins[4] \notin DOMAIN s.allocs[obj].fields THEN s
               ELSE [s EXCEPT !.entries[i].ins = <<"MOVE", e.ins[2], s.allocs[obj].fields[e.ins[4]] - e.base, 0>>]
          [] OTHER -> [s EXCEPT !.aliases = aliases,
                                !.allocs = [r \in DOMAIN @ |->
                                   IF \E x \in out : root(aliases, x) = r THEN [@[r] EXCEPT !.escaped = TRUE] ELSE @[r]]]
  IN IF e.dropped THEN s
     ELSE IF Op(e) \in TraceOpWritesA \ {"TABLE"} THEN [s1 EXCEPT !.allocs = Remove1(@, A)] ELSE s1

\* What sinking the table in register r removes: the allocation, the loads of
\* its keys or the entries that set its fields, and one copy to each alias.
Sunk(s, r) ==
  LET info == s.allocs[r]
      pairs == s.entries[info.at].ins[3]
      keys == {KeyLoad(s.entries, info.at, r + 2 * p - 1) : p \in 1..pairs} \ {0}
      copies(x) == {j \in (info.at + 1)..Len(s.entries) :
                      /\ Op(s.entries[j]) = "MOVE" /\ ~s.entries[j].dropped
                      /\ RegA(s.entries[j]) = x /\ RegB(s.entries[j]) = r}
      firsts == UNION {{j \in copies(x) : \A k \in copies(x) : j <= k} :
                         x \in {y \in DOMAIN s.aliases : s.aliases[y] = r}}
  IN {info.at} \cup (IF pairs > 0 THEN keys ELSE info.sets) \cup firsts

\* A table that does not leave the trace is not made: its fields stay in
\* registers, and a side exit makes it from them.
SinkTables(s) ==
  LET sunk == {r \in DOMAIN s.allocs : /\ ~s.allocs[r].escaped
                                       /\ s.entries[s.allocs[r].at].ins[3] > 0 \/ s.allocs[r].sets # {}}
      gone == UNION {Sunk(s, r) : r \in sunk}
  IN [entries |-> [i \in DOMAIN s.entries |-> IF i \in gone THEN [s.entries[i] EXCEPT !.dropped = TRUE] ELSE s.entries[i]],
      sunk |-> {[reg |-> r, fields |-> s.allocs[r].fields] : r \in sunk}]
sinkAllocations(trace) ==
  SinkTables(FoldLeft(SinkStep, [entries |-> trace, allocs |-> <<>>, aliases |-> <<>>], [i \in DOMAIN trace |-> i]))

\* The passes, one after the other; what is left of the trace.
Left(trace) == [trace EXCEPT !.entries = SelectSeq(eliminateDeadStores(@), LAMBDA e : ~e.dropped)]
optimizeTrace(trace) == Left(sinkAllocations(eliminateDeadStores(trace)))
=============================================================================
