# BBL: TLA+ models

BBL ("Basic Binary Lisp") is an embeddable Lisp for C++ programs: source text is compiled to register bytecode and from
there to x86-64 code, hot loops are recompiled as traces, values live in a generational garbage-collected heap, and
scripts can start further interpreters on threads of their own and exchange messages with them.  The implementation is
`src/src/` of the repository (12 000 lines of C++); paths below are relative to the repository, line numbers are those of
the commit modelled.

This directory holds TLA+ modules for the parts of that runtime that are hard to test, the TLC configurations that check
them on small instances, and proofs, checked by TLAPS, that hold for instances of any size.

Contents: [components](#components), [modules](#modules), [runs](#runs), [bounds](#bounds), [fairness](#fairness),
[proofs](#proofs), [what is only model-checked](#what-is-only-model-checked), [known departures](#known-departures), [what is
not modelled](#what-is-not-modelled), [plan](#plan).

## Components

The state, the operations and the hard parts of every component, and what makes it correct.

**Child states** (`bbl.cpp` 3805-4136, `bbl.h` 524-560, `~BblState` in `bbl.cpp` 655-702).  An interpreter (`BblState`)
owns `State` handles.  Each handle owns a child interpreter, a thread, two `MessageQueue`s (mutex, condition variable,
deque), the flags `done` and (in the child) `terminated`, and `childError`.  Operations: `state-new`, `post`, `recv`,
`try-recv`, `join`, `is-done`, `has-error`, `get-error`, `state-destroy` on the owner's side, the flat `post`, `recv` on the
child's, and the end of the child's thread.  The destructor runs from `state-destroy`, from a sweep, and from the
destructor of the owning interpreter, so destructors nest.  Hard: flags are stored without the mutex of the queue whose
waiters test them; `push` notifies outside the lock; `childError` has no lock at all; whoever destroys a child frees
queues, flags and interpreter that three threads may be using.  Correct when no wakeup is lost, messages arrive once
each and in order and all of them before the end of the sender is reported, the error is final when `done` is seen, no
handle is used after it is freed or destroyed twice, and destroying a child returns.

**Select** (`bbl.cpp` 4138-4260, `MessageQueue::push` 3819-3828).  `try-select`, `select`, `select-timeout` over handles.  A
call hangs a pointer to a condition variable on its own stack on each source's queue, and `push` notifies through a copy
of that pointer.  Hard: `push` never takes the mutex the selector sleeps with, and notifies after releasing its own; the
same handle may be named twice; deadline, message and termination race.  Correct when the index answered is that of a
source with a message, no pointer outlives its call, a call sleeps only while no source has a message, and
`select-timeout` comes back.

**Tables** (`bbl.cpp` 41-175, `bbl.h` 317-356, `jitMcall` in `jit.cpp` 223-275, emitted code in `jit.cpp` 2487-2890 and
3810-3970).  An array for integer keys below 1000000, an open-addressing hash part with tombstones for the rest, `count`,
`nextIntKey` for `push`, and a list of keys (`order`) built on demand and thrown away by changes.  Operations: `set`, `get`,
`has`, `delete`, `length`, `keys`, `push`, `pop`, `at`.  The JIT emits its own get and set that read and write the same
fields.  Hard: five pieces of state kept consistent over long sequences of calls, by two implementations.  Correct when
the table is one map for every reader, `length` counts it, probing always ends, the list of keys names entries, and `push`
overwrites nothing.

**Garbage collector** (`bbl.cpp` 704-1130, `bbl.h` 690-760, 839).  Nursery and tenured list, mark bits, a remembered set filled by
write barriers, an intern table, pause guards.  Operations: allocation, `gcMinor`, promotion, `sweepList`, `intern`, barrier.  Hard:
every store into a tenured object must pass a barrier, in C++ and in emitted code; the sweep removes intern entries
by content; a child reads its parent's intern table while the parent changes it; handles are destroyed inside a sweep.
Correct when nothing reachable is freed, every old object that points to a young one is in the remembered set, and the
intern table gives out only live strings with the characters asked for.

**Channels, ring, double buffer** (`bbl.cpp` 2996-3014, 3276-3425).  A blocking channel with `close`, a lock-free
single-producer single-consumer ring, and a two-vector buffer with an atomic read index.  Hard: `closed` tested outside the
lock, memory order of `head` and `tail`, a writer that keeps its vector over a swap.  Correct when the ring is a
bounded queue whose `length` can be relied on, no receiver sleeps beside a message or on a closed channel, a close is
final but for the sends already under way, and a reader gets one whole version of the double buffer.

**Compiler** (`compiler.cpp`).  One pass over the syntax tree: registers, locals, captures, jump patching, inlining of small
callees.  Hard: callee, arguments, operands and results share a window of registers that the next expression reuses; exits of
loops and handlers are patched by hand.

**Method JIT and helpers** (`jit.cpp`, `jit.h`, `vm.h`).  One pass over the bytecode, in the order of the code, decides for each
instruction whether its type guard can be left out, keeps the registers of small integer loops in machine registers, inlines
callees, and calls C helpers for the rest; errors travel through `g_jitError`, which native code tests behind most
helpers.  Hard: what was known of a register must still hold when control arrives by another way; a pending error nobody tests.

**Trace JIT** (`jit.cpp` 757-870, 3230-4096, `chunk.h`).  Loop counters, recording, type guards, dead-store elimination,
allocation sinking, side exits that resume the method code.  Correct when leaving a trace at any exit restores what the
bytecode would have computed.  For the three together: a script ends with the output and the value, or the error, its
source means.

**Lexer and parser** (`bbl.cpp` 200-600).  A pure function of the text.

**Debugger** (`dap.cpp`, `jitDebugPause` in `jit.cpp` 680-785, `DebugState` in `bbl.h` 495-518).  A server thread and the script
thread share breakpoints, a pause flag, a step mode, a request to evaluate and its result.  Hard: continue, step, evaluate and
disconnect against a pause that is just beginning; fields without lock that are published by a flag.  Correct when a client that was
told of a stop sees the script where it stopped, a step stops where it must, an evaluate gets its own answer, and a paused
script is resumed by a continue.

**Modules and network REPL** (`bbl.cpp` 3430-3720).  The module cache of `import`, `execfile`, and a request queue served by
`nrepl-poll`.  Hard: failing and cyclic imports, a request whose evaluation throws.

**Language server, command line, disassembler, standard library** (`lsp.cpp`, `main.cpp`, `disasm.cpp`, the rest of
`bbl.cpp`).  Single-threaded request loops, conversions and system calls.

How they interact: an interpreter owns its heap, and through it the handles of its children; a sweep or the end of the
interpreter runs the destructor of a handle, which waits for the child's thread and destroys the child's interpreter
and so its handles.  Select reads the queues of the handles.  Tables and closures are what the collector marks, and
what emitted code reads and writes behind the back of `BblTable`.  Debugger, nREPL and language server each put a thread or
a loop beside an interpreter.

## Modules

| Module | Models | Extends or uses |
| --- | --- | --- |
| `ChildState` | child states, their handles, threads and destructors | instance of `Mailbox` |
| `Mailbox` | what one direction of a handle promises | |
| `Select` | `select`, `select-timeout` and the part of `push` that serves them | |
| `BblTable` | the table and the emitted get and set | |
| `GcHeap` | the heap of one interpreter: allocation, interning, write barrier, collections | |
| `ScriptHeap` | what the heap is to a script: nothing is ever collected | instantiated by `GcHeapProofs` |
| `Handoff` | `LockFreeRing`, channel, double buffer | instance of `Fifo` |
| `Fifo` | what ring and channel promise: a queue | |
| `Debugger` | `jitDebugPause`, the DAP server's thread, `DebugState` | |
| `Compiler` | syntax tree to bytecode | |
| `JitHelpers` | values, and the C helpers native code calls | |
| `NativeCode` | `jitCompile`'s decisions: guards, machine registers, inlining, handlers | |
| `Traces` | recording and optimizing a trace | `NativeCode` |
| `Machine` | a script running: native frames, calls, errors, traces and their exits | `JitHelpers`, `Traces`, instance of `Compiler` |
| `MCMeaning` | what a program means: an evaluator of the syntax tree by `bbl.md` | `Machine` |
| `MCScripts` | programs, and the properties of scripts | `MCMeaning` |
| `MCChildState`, `MCSelect`, `MCBblTable`, `MCGcHeap`, `MCHandoff`, `MCDebugger` | values of the constants for TLC | the module each is named after |
| `ChildStateProofs` | types, the list of cases of `Next`, how threads end | `ChildState` |
| `ChildQueueProofs`, `ChildOwnershipProofs` | wakeups, delivery and refinement; lifetime | `ChildStateProofs` |
| `SelectProofs` | types, answers, pointers | `Select` |
| `GcHeapProofs` | safety of collections, the barrier, the intern table; the heap implements `ScriptHeap` | `GcHeap` |
| `HandoffProofs` | ring and channel implement `Fifo`; promises of `length`, wakeups and close, versions in the double buffer | `Handoff` |
| `BblTableProofs` | probing, growth, the list of keys; the table is a map, counted right and never full | `BblTable` |
| `DebuggerProofs` | what a stopped client sees, steps, answers to evaluate | `Debugger` |

### ChildState

A thread is identified with the interpreter it runs (`pc`); `at` is the child whose handle its pending call is on, and
`stack` holds the frames of `stateDestructor` it is in, each with the child it destroys and the statement it has reached.
`toChild`, `toParent`, `terminated`, `done` and `childError` are the fields of those names.  Messages are numbered in the
order pushed, and a queue remembers the numbers last pushed and popped: that is all the properties tell apart.  `life`
says whether a handle exists, and `report` what `recv` last raised.

A section of code under a mutex is one step.  The exception is the window between the test of a wait's predicate and
the sleep (`checkUp`, `checkDown`): there the thread holds the mutex across steps, other threads cannot take it
(`ToChildFree`, `ToParentFree`), and flags that are stored without the mutex can change.  The empty critical sections in
the destructor and at the end of the thread lambda are the guards `PassToChildMutex` and `PassToParentMutex`.

What a script does is free: `Script` offers every call whose precondition holds.  Two sets of constants describe kinds of
scripts: `Waiters` use `recv` or `join` on their children, `Catchers` make their calls under `try/catch` in a loop.  An
exception in a C function becomes a script error by `JIT_CATCH` and its like (`Raised`); without a handler it ends the
script.

### Select

One selecting thread and any number of children.  A turn of each loop over the sources takes one queue's mutex and is one
step; `pc` names the loop, `i` the turn.  The condition variable of a call is named by the number of the call, so a
pointer that outlives its call is visible.  `Post` is `push` up to the release of the mutex, `Notify` the
notification; a notification through a pointer whose call is over wakes nobody.  `Terminate` is what the destructor of the
selecting interpreter does as far as this call can see.

### BblTable

The variables are the fields; `array` has one cell for each integer key in use, and `asize` says how far it reaches.
Keys are integers and string objects; a string object is its pointer, which is all that `bblValueKeyEqual` compares.
`Content` gives its characters and so the key a script means (`Name`); `Home` is the hash of the key's bits.  `m`, a
variable of the model only, is the map a script believes in: every operation changes it as the language says, and the
properties compare the table with it.  `Set`, `Erase`, `Get`, `FindEntry`, `Grown`, `GrownSize` and `Ordered` translate
the member functions; `InlineGet` and `InlineSet` the code emitted by the method JIT, which the trace JIT repeats.
The emitted bounds test compares the low 32 bits of a key (`InlineInArray`, `Word` is 2^32) and indexes with all of it, where
`get` and `set` compare the whole key (`InArray`): what lies past the array is any value, so `InlineGet` is the set of answers
the code may give, and an `InlineSet` there stores and counts outside the table.
`set` uses the slot it finds without a test: where the model has the guard `i # NoSlot` the code would write through a
null pointer, and `RoomForNewKey` is the invariant that rules it out.

### GcHeap

Values are abstracted to the object they point to.  A table has one entry (`key`, `val`), a closure one captured value and its
environment; `age` says in which list an object is.  `consts` are the literals of a function, `chunk` the prototypes among the
constants of the chunk being run, neither of which the marker follows.  Every instruction that moves a pointer is
an action: between registers and globals (`Move`), out of an object (`Load`), out of the code (`LoadK`), into a new object
(`MakeClosure`, `MakeTable`), into an existing one (`TableSet`, `SetCapture`, `InlineHashHit`, `TableDel`), and the `+` that may grow
a string in place (`Concat`).  `GcMinor` is enabled always, which covers every threshold and the host's `gc()`; `GcFull` is the
host's `gcFull()`.  `Reached` is what the recursive markers mark: the least set closed under their recursion.  A sweep replaces
pointers to what it freed by `Dangling`, so that a use after free is a state and not an action.

`InlineHashHit` is the one store without a barrier.  `YoungOverHit` says whether scripts put fresh objects over entries of
old tables with it; with `TRUE` the barrier's invariant fails (`gc_barrier`), with `FALSE` everything else about the heap can
be checked and proved.

`ScriptHeap` is the abstract specification.  It has the registers, the module's environment and `held`, what each object the script
can get hold of holds; the instructions above are its only steps, and what they make unreachable is forgotten.  There
is no collection, age, barrier or intern table in it, so it says what a script may rely on: an object stays while there is a
way to it, changes only by a store into it, and a new object is none of those the script has.

### Handoff

One module for three types that are never composed: `kind` says which one the scripts share.  The ring takes one step per load and
store that the other end could notice.  `head` and `tail` are atomics with acquire and release; an acquire load may answer an
older value than the last one stored, and the variables `seen` and `used` say how far each end's knowledge of the other has
come, so a step picks any value from there on (`HeadsSeen`, `TailsSeen`).  Values are numbered in the order pushed.  The channel's
methods are sections under its mutex; `closed` is read before the mutex is taken (`SendTest`) and notifications come after it is
released (`SendNotify`, `CloseNotify`).  A vector of the double buffer has two elements, each set and read in a step of its own by
the script; `Write` and `Read` only hand out the vector.  The ring's and the buffer's methods are called by one producer and one
consumer each, which is their documented use (`concurrency.md`); the channel's by all threads.

`Fifo` is the abstract specification of ring and channel: `Put` and `Get` on one sequence, with a limit or without.  `Queued` is
the sequence they stand for.  A push is `Put` when it stores `head`, a pop is `Get` when it copies its slot, before it stores
`tail`; every other step, the stale looks included, is a stutter.  The double buffer is no queue and stutters.

### Debugger

`spc` is where the script's thread is, in the script (`line`, `run`), inside `jitDebugPause`, or at its end; `dpc` where the server's
thread is between reading a request and answering it.  The fields of `DebugState` keep their names; `pausedLine` stands for the
four plain fields recorded together.  The flags `paused`, `stepMode`, `scriptDone` and `running` are stored without the mutex, so a
command is several steps (`StoreMode`, `StoreUnpaused`, `NotifyUnpaused`); a wait is a look at the predicate and a sleep, with the
mutex held across the two.  The script is a list of lines with the depth (`traceTop`) of each.  A second client may connect after the
first; breakpoints stay, as in the code.

### Scripts: Compiler, NativeCode, Traces, JitHelpers, Machine

A run takes each program through what the implementation does with it.  `Compiler` is the compiler, function by function with the
source's names: `compileExpr`, `compileInto`, `compileCall` and so on take the `CompilerState` as a record and return it.  A function whose
text follows from the registers it allocates (`BaseReg`, `EndLoop`) is an operator of its own.  `NativeCode.jitCompile` gives each
instruction the way it is carried out, with the handler that catches its errors and the registers a loop loads and stores around it;
`Machine` carries it out.  The bytes emitted are not modelled, what they compute is: an `"int"` addition adds words of tag and
payload without looking (`Carry`, `Borrow`), an unguarded operand that is no integer gives `Junk`, which equals nothing the program means.
`Machine.Compute`, `Branch`, `Call`, `Return`, `Raise` and `Loop` are the steps of native code, `Guard`, `TraceStep` and `TraceCall` those
of a trace.  `raised` is an error the check behind a helper has seen; an error that is pending in `g_jitError` without having been
tested is a state of its own, since light calls and traces do not test.

`Traces.recordTrace` walks one iteration without running it, and goes through callees; `optimizeTrace` eliminates dead stores and sinks
allocations.  A side exit (`Leave`) makes the sunk tables and goes on behind the loop, as `jitLoopTrace` does.

The reference is `MCMeaning.Meaning`, an evaluator of the syntax tree written from `bbl.md`, with variables by name and without
registers, chunks or frames.  It never follows the implementation: conditions and logical operands are bools, `slice` has a start and
an end, `each` counts indices and leaves the length behind, assignment looks at locals, captures and the root, arities are enforced, a
table keeps its entries in the order they were put in.  Where code or tests go another way, the known departures say so, and the
programs are such that both readings mean the same: conditions are comparisons, a slice starts at 0, the container of an `each` has its
indices for elements.  `ResultIsMeaning` compares output and final value or error.  The programs (`MCScripts`) are families: every nesting of two arithmetic operations on globals, on parameters and under a comparison; calls, recursion, closures and
captures, inlined and redefined functions; conditions and loops; errors and handlers; tables, vectors and strings; loops hot enough for a
trace; and every pair of twelve statements as the body of a hot loop, in the main chunk and in a function.  All of them were also run
through the implementation, at its own loop threshold of 32, with the same output as the model.

## Runs

`CHECK_DEADLOCK FALSE` stands in every configuration but those of the scripts: the host and the scripts may stop making calls at any
time, so states without successor are legitimate; that waiting threads are not among them is what the wakeup and liveness properties
say.  A script that runs has always a step (`Ended` is the only one that stutters), and the runs of scripts check it.

| Run | Shows |
| --- | --- |
| `child_one` | One child, two messages each way.  No wakeup is lost (`ChildWakeupComing`, `ParentWakeupComing`); everything posted is received before the end is reported (`DrainedBeforeExit`), the error is final (`ErrorSettledByDone`), both directions implement `Mailbox`; destroying returns (`DestroyReturns`) and a blocked `recv` ends with the child (`RecvReturnsAtExit`). |
| `child_chain` | A child with a child of its own, on which it may wait.  Nothing is used after it is freed (`HandleOutlivesUse`), nothing destroyed twice (`DestroyedOnce`), and a destructor returns unless its victim is blocked on its own child (`DestroyReturnsOrBlocked`).  The exception is real: the destructor wakes the victim's own two queues, and not the grandchild's queue the victim waits on. |
| `select` | Two children, one named twice, two calls.  `IndexReady`, `PointersOfThisCall`, `SelectGivesIndex`, `TimedReturns`, `NotifiedReturns`. |
| `select_lost` | Violates `BlocksUntilMessage`: a message pushed between the predicate and the sleep is notified to nobody. |
| `table` | All sequences of operations on four integer keys, one of them wide, and three strings.  `GetIsMap`, `InlineGetIsMap`, `CountIsLength`, `RoomForNewKey`, `ListedIsLive`. |
| `gc` | A table, two closures (one may be the other's prototype), two strings, two roots, any order of instructions and collections.  `NoDangling`, `YoungAreRemembered`, `DirtyAreRemembered`, `InternTableLive`. |
| `gc_barrier` | Violates `YoungAreRemembered`: the emitted set overwrites the entry of an existing key without a barrier. |
| `handoff` | A ring of capacity 1, 2 or 4 with stale views, a channel between three threads, a double buffer.  `QueueInOrder` (they implement `Fifo`), `LengthIsPromise`, `RecvWakeupComing`, `OneLateSend`, `WholeSnapshot`. |
| `debugger` | Four lines with a call, two clients, breakpoints at any time, two evaluates.  A stopped client sees the script where it stopped (`StoppedIsTrue`), steps stop where they must (`StepIsTaken`), an evaluate gets its own answer (`EvaluateAnswers`). |
| `debugger_continue` | Violates `ContinueResumes`: the flag is stored and notified without the mutex, between the script's look at its predicate and its sleep. |
| `scripts` | 1247 programs.  Each prints and gives what it means, or fails where it says so (`ResultIsMeaning`); arithmetic whose guard was left out works on integers (`UncheckedAreInts`); every one ends (`Ends`). |
| `scripts_negative` | Violates `ResultIsMeaning` by the example of `bbl.md` 218: `(- 0 5)` borrows from the tag of its operands and is a boolean. |

The four violated properties are stated by the repository's documentation or tests, quoted in `PROJECT.json`.

## Bounds

- `MaxPosts` (two messages per queue in `child_one`, one in `child_chain`): the waits tell an empty queue from a
  non-empty one, and order needs two messages.  `StatePost` and `ChildPost` stop at the bound; nothing else is limited by it.
- One handle per interpreter (`child_one`), a chain of two (`child_chain`): an owner is in one call at a time, so further
  siblings only add destructors of the kind the chain has.  The theorems hold for any tree.
- `MaxCalls` = 2 and `MaxPosts` = 2 in `select`: a pointer left behind by one call can meet the next, and a child that posts
  twice can notify a pointer copied before.
- `table`: `ArrayLimit` is 6 for 1000000; three integer keys are below it, so the array reaches size 8.  `Word` is 16 for 2^32; the
  fourth key, 31, is wider and has a low half past the array, so that it is hashed by every path (a negative key, which the theorems
  have, would be too).  The hash part starts at 4 slots and grows to 8 with entries and tombstones in it, and probes wrap around.  `BigArray` is 1024 as in the code, and
  the factor 4 beyond it is not reached (the theorems have every limit, hash and size).  `push` stops at a key that is not in `Ints`.  The runs keep out the value `0.0`
  (whose bits mean an absent cell), the keys `0.0` and `5e-324`
  (whose bits mean an empty slot and a tombstone), integer keys that are hashed and later overtaken by the array, and wide keys whose
  low half is within it.
- `gc`: with one table, two closures and two strings an old object can point to a young one of each kind, a prototype can
  die before its closure, and two strings can have the same characters.  Two roots let a store have a key and a value.
  An object has one entry or captured value: more of them are marked by the same loop.
- `handoff`: `MaxPuts` = 7 wraps the indices of a ring of capacity 4 more than once; capacity 1 is the ring that never takes a
  value.  Three threads let one send, one sleep and one close.  Two elements in a vector are enough for half a version.
- `debugger`: two clients, since breakpoints and handles of the first meet the second; two evaluates, so that a second request can
  meet the answer to the first; lines at two depths, so that the step commands differ.
- `scripts`: `HotCount` is 3 for 32, so that a loop of six iterations runs natively, is recorded, traced and left.  `NumRegs` = 40
  registers hold every frame these programs stack.  Integers are unbounded and stay small: the carry into the tag, which is
  what the width of the payload causes, is modelled by itself.  Except in `scripts_negative` results are not negative.
- `SYMMETRY` on the values and strings of `table` and on the objects and roots of `gc`: they are only stored and compared,
  every function of the constants treats them alike, and the runs check invariants only.

## Fairness

The operating system schedules every thread: weak fairness of each thread's runtime steps (`Runtime`, `Run`).  A step that
waits for a mutex is disabled only while another thread is in the window before its sleep, which ends by itself.  For
children, `Script` is fair too: the script of a child makes its next call or ends.  The code does not enforce this
(`checkTerminated` exists and is called nowhere), so a child that computes for ever cannot be destroyed; the models say
nothing else about such a child.  The host owes nothing and may stop.  Spurious wakeups are possible and never assumed.
Both threads of the debugger are strongly fair: each asks for the mutex again and again and gets it in the end.
A script's own steps are weakly fair; `Machine.Progress` says so without `ENABLED` (a script that runs has a step in every state, which
the deadlock check of `scripts` shows), because evaluating `ENABLED Next` would mean compiling again in every state.
`TimeOut` is strongly fair: `wait_for` computes an absolute deadline, and waking early does not put it off.  `join` returns
when the thread has ended.

## Proofs

All theorems are about the specifications themselves, for every value of the constants that satisfies the assumption of its module:
any tree of interpreters, any bound on messages, any list of sources with repetitions, any number of objects and roots, rings of any
capacity and any finite number of threads, scripts of any length, any set of keys with any hash.  Fairness plays no part in them.

`ChildStateProofs.TypeCorrect` is the type invariant.  `NextCases` splits a step into one of an owner, of a thread, of a
child, the beginning of a destructor and one of a destructor, each with the variables it leaves alone; the other modules use
it instead of the thirty actions.  `ThreadInv` says where the thread of a child can be once it is `done`, and that its error is
settled; it is inductive with the types.

`ParentWakeupComing` and `ChildWakeupComing` are not inductive.  A thread that has tested its predicate and not slept yet has no
notification coming and yet must not fall asleep: `OwnerInv` and `ChildInv` say the same of the window (`checkDown`, `checkUp`) as
of the sleep, and the empty critical sections are what keeps a flag-setter from notifying inside it.  For the
child, the notification may be owed by any frame of any thread's destructor stack, so the lemmas `Pending...` say how each
stack operation keeps such a frame or discharges it.

`DrainedFirst` and the two refinements rest on `DeliveryInv` (the messages in a queue are the numbers from `got` + 1 to `sent`)
and on `Effect`, which reduces any step to what it does to one queue: push, pop, end, report or nothing; each of these is a step
of `Mailbox` or a stutter.

`NoUseAfterFree` and `NoDoubleDestroy` need `OwnershipInv`: a thread inside a destructor runs a script or is closing, and its stack is
a path in the tree, the victim of each frame being the owner of the next one and already past its join, so its thread
has ended and can start nothing.  Two frames on one victim would need two threads whose paths meet, and a path starts at
the interpreter of a running thread.

`AnswerIsReady`, `PointersClean` and `SelectAnswers` rest on `PointerInv` (which sources have a pointer in each loop) and `ReadyInv`
(what ended the wait still holds at the last look: nobody else takes messages).

The theorems of `GcHeapProofs` share one inductive invariant, `HeapInv`, under the condition that `YoungOverHit` is `FALSE`.
`NoDangling` alone is not inductive: a minor collection is safe only if old objects that point to young ones are remembered
(`YoungAreRemembered`), the barrier remembers them only if dirty bits are right (`DirtyAreRemembered`), and a closure's
environment, which `gcMinor` does not look at in the remembered set, must not be younger than the closure
(`EnvIsOlder`: it is given at birth and never stored again).  `ReachedClosed` says that marking is closed, `SweepSafe` that a sweep is
safe when nothing outside the dead points to them; `BirthSafe` and `StoreSafe` cover all steps between collections, those that
fill registers and new objects and those that write into live ones.  `InternTableLive` belongs to the same
induction: what the table holds must be freed together with its entry, and never grown in place.
From it follow two statements about the collections themselves, which no run checks.  `CollectionsInvisible`: after `gcMinor` as after
`gcFull`, what the roots reach is what they reached before, and each of these objects holds what it held, so a script cannot
tell when a collection ran (the constants of a chunk, which are not marked, are left out: see the known departures).
`FullIsThorough`: after `gcFull` every object alive is reachable, cycles included.  Both come from `CollectionSweeps`, that either
collection sweeps a set nothing else points to, and `SweepReach`, that such a sweep leaves the smallest closed set alone.

`HeapImplementsScript` puts them to use: under the same condition, `Spec => Script!Spec`, where `Script` is `ScriptHeap` with
`held` standing for `Held`, what the reachable objects hold.  Collections and `Exec` are stutters, `InlineHashHit` is the `TableSet` it
should be, and every other action is the action of the same name.  Besides `HeapInv` the proof needs `LiteralInv`: a literal
that the script has lost comes back by `LoadK`, and is then the string written in the code, interned, whatever was done in between;
and a string holds no pointers, so that one grown in place reaches nothing new.  An instruction changes one object or makes one,
takes its values from what is at hand, and what is at hand is reachable; so what can be reached afterwards is found among what
could be reached before and the new object (`KeepSeen`), and one lemma per action (`TableSetSeen`, `ConcatSeen` ...) does the rest.
The theorem is about all the condition allows and fails without it: with `YoungOverHit`, TLC finds a collection that changes what a
table holds.  It is no property of a run, as working out what is reachable at each of the transitions of `gc` takes TLC far
longer than everything else; on heaps of three or four objects with two registers TLC agrees with it.

The theorems of `HandoffProofs` share `IInv`.  For the ring, `RingSlots` says which values the slots from `tail` to `head` hold,
`RingViews` that there are as many of them as values in and not yet out, that the consumer knows of no more and the producer reckons with
no fewer, which is why a stale view refuses and never overruns; `RingAnswers` keeps what
`length` told an end until that end acts.  For the channel, `WakersEnough` counts: as long as somebody sleeps, messages are no more than
threads that will notify or look.  `RecvWakeupComing` alone is not inductive, as one notification may wake a receiver while two
messages are queued.  `RingAndChannelAreQueues` is the refinement of `Fifo`: `RingSlots` makes the slots from `tail` on, less the one already copied, the numbers
after the last one given, and a step then adds a number at the end, takes the first one away, or neither; with
`ChannelQueued` the messages are such numbers too.  `RingIsFifo` (`RingInOrder`) also bounds the slots in use, the copied one included, which
`Fifo` cannot see.  For the double buffer, `VersionsApart` says that the vector last
swapped in is one whole version and the next is made in the other one, `CopyIsOfVersion` that a copy no swap has overtaken is
of that version so far.

The theorems of `DebuggerProofs` share `IInv`.  `StoppedIsTrue` alone is not inductive: it rests on the flag `paused` being set only by the
script inside its pause, after the place is recorded (`PausedIsTrue`), and taken back only by the server after it has dropped the
handles (`HoldsThisPause`); `StepIsTaken` on the step being stored before the flag is taken back and forgotten only before it is
set again (`StepStored`).  `NoEvalLost` and `AnswersOwn` are the safety half of `EvaluateAnswers`: while a request is open, the result of an
earlier one is gone, and whichever thread sleeps has been or will be notified (`EvalInv`).

The theorems of `BblTableProofs` come in three layers, all under `NarrowInts`: integer keys are less than 2^32, so that the emitted
bounds test is that of `get` (`InlineIsInArray`) and no access leaves the array.  `IInv` needs nothing else: the hash part is in order (`HashOK`: no key
twice, and no empty slot between a key's home and its place), it has a free slot, and `count` is the cells and the entries
together (`CountSound`).  The three need each other, as `set` decides by `count` when to grow, so the free slot rests on the
count, the count on `tableFindEntry` finding a key that is there, and that on tombstones never becoming empty.  `LInv` adds that no
key is looked for in a part it is not in (`KeysOK`) and that the list of keys has live keys once each.  It holds under
`GapInInts`: no integer key lies from `ArrayLimit` to four times it.  The condition was found by the proof, and TLC confirms
it: `arrayGrow` doubles or quadruples past 1000000 (`GrownSizeOK` bounds it by four times), and an integer key the hash
part holds is then looked for in the array and not found.  `MInv` adds that array and entries are the map the script means
(`MapOK`), under `Interned` besides: two strings with the same characters are one object.  `GapInInts` and `Interned` hold in the run `table`; `NarrowInts` is stronger
than it need be there, as key 31 shows, and TLC confirms that some such condition is needed: with a wide key whose low half is in
the array, `GetIsMap` and `InlineGetIsMap` are violated.
Loops over slots and cells are recursive functions in `BblTable`; that such a function exists, and what it computes, is proved from the
well-foundedness of the natural numbers, over sets and functions in place of operators (`LeastNat`, `SetInduction`,
`RecursionExists`): `GrownOK` for `tableGrow`, `GrownSizeOK` for `arrayGrow`, `OrderedLists` for `ensureOrder`.

## What is only model-checked

Liveness (`DestroyReturns`, `DestroyReturnsOrBlocked`, `RecvReturnsAtExit`, `TimedReturns`, `NotifiedReturns`): the prover does not
handle fairness; `EvaluateAnswers` and `Ends` for the same reason.  Everything about scripts (`ResultIsMeaning`, `UncheckedAreInts`):
compiler, recorder and evaluator are recursive over syntax trees and code, as recursive operators.

## Known departures

What the code does otherwise than its documentation says, or than the programs mean, was met while modelling, and is kept out of the
passing runs.  Four are runs of their own; these are not.

Threads and heap:

- A child that receives under `try/catch` in a loop cannot be destroyed: `BblTerminated` arrives as a script error (`jit.cpp` 151, 501)
  and is caught (`Catchers` in `ChildState`; `tests/test_bbl.cpp` 4371 has the loop inside the `try`).
- `push` notifies through the pointer `selectCv` it copied under the lock (`bbl.cpp` 3824); the call of select that owned the condition
  variable may have returned.
- An integer key from 1000000 on is stored in the hash part; when smaller keys make the array grow past it (key 524288 can make
  it 2097152 cells), `get` looks in the array only and does not find it (`bbl.cpp` 80-87, 107).
- The emitted `get` and `set` test a key against the size of the array by its low 32 bits and index with all 64 (`jit.cpp` 2563 and 2765,
  in traces 3855 and 3927): an integer key of 2^32 or more whose low half is below the size accesses memory past the array, where
  `BblTable::get` and `set` use the hash part.  The theorems about tables exclude such keys (`NarrowInts`).
- The inline `set` advances neither `nextIntKey` nor discards `order` (`jit.cpp` 2804): after `(t:set 0 "a") (t:set 1 "b")`,
  `(t:push "c")` overwrites `"b"`.
- Strings are keys by address and the results of `+`, `upper`, `lower` and `at` are not interned: `(t:get (+ "a" "b"))` does not find the
  entry of `"ab"`, though `bbl.md` 78 says all strings are interned.
- `bbl.md` 42 and 449 call strings immutable; `jitArith` (`jit.cpp` 925) grows a string that is not interned in place when the
  result goes to the register of the first operand, as it does for a local.  Inside a function, after `(= t s) (= s (+ s "x"))`
  with `s` the result of an earlier `+`, `t` and any table element that holds the string end in `x` too (`Concat` of `GcHeap`
  and of `ScriptHeap`).
- The constants of a chunk are not marked (`bbl.cpp` 831): a collection frees the literals of a function that can be called again.
- An evaluate that reaches a breakpoint pauses inside the pause (`jit.cpp` 752-758); a disconnect leaves the breakpoints; `stop` and a
  failing script do not wake a server that waits for a pause (`dap.cpp` 513, `main.cpp` 198); `main.cpp` 186 prints that it waits for the
  debugger and does not.

The compiler:

- `(= x (- 10 x))` of a local computes in the register it assigns; the bodies of `do`, `and`, `or`, `loop`, `try` and `each` whose value
  is a bare local are left where they are, so the form's value is stale; `=` to a capture or a top-level global ignores the
  register the value was returned in.
- An assignment inside a function to a variable of the root makes a local, where `bbl.md` 107-113 says it rebinds; a local assigned
  only in a branch not taken is whatever the stack held.
- `each` binds elements, as the tests have it (`test_bbl.cpp` 688, `each.bbl`); `bbl.md` 246-250 says indices, and the length after the
  loop.  On a local it fails (`cannot get length`).
- `(s:slice a b)` takes `b` for a length (`jit.cpp` 308-317; `string_parse.bbl` uses it so), `bbl.md` 457 says it is the end.
- `if`, `loop`, `and`, `or` and `not` take any value, null, false and 0 being false (`test_bbl.cpp` 529-550 has it so); `bbl.md` 171, 211, 238 and
  698 ask for bools.  `pop` takes the last entry with an integer key (`test_bbl.cpp` 1450), `bbl.md` 378 the last entry.
- A callee or receiver that is itself an expression collides with its arguments, as in `((+ a b):length)`; a definition nested in an
  assignment, `(= r (fn ...  r ...))`, is not callable though `bbl.md` 307 has one; a redefined function is still inlined; `(f ..)(g ..)` can
  call `f` twice; the number of arguments is not checked (`bbl.md` 285); the arguments of a method call that is a function of a table
  all become the table; the literal -32768 is read as 32768.

The method JIT:

- A function that uses its own global name other than to call it, as in `(g f)` within `f`, reads a register nothing was loaded
  into: the load of the name is left out for the self-recursive call (`jit.cpp` 2236-2243).
- Negative results borrow from the tag (`scripts_negative`).
- A variable that held an integer and is given a string constant keeps its known type (`jit.cpp` 1881):
  `(defn f () (= x 1) (= x "a") (+ x 1)) (f)` adds a pointer.  The `+` of a self-recursive function (`jit.cpp` 1926) and of an inlined callee
  (2360-2395), and the instructions `ADDK` and `SUBI`, have no type guard at all.
- Comparisons compare payloads whatever the tags; light calls and `jitLoopTrace` do not test for errors.

Traces:

- `%`, the bit operations and `int` are recorded and have no code, so they are dropped; `get` and `set` take any receiver for a table; a
  string grown in a trace crashes; `and` in a condition and an inner `if` whose other branch is taken leave the loop early, since every
  exit goes on behind the loop: a hot loop inside a hot loop loses iterations (`implementation.md` 164-170).
- A sunk table that `MOVE` has copied is stale.  Dead-store elimination drops a write that is needed in three of the bodies of
  `MCScripts` inside a function (`Lost`): `(q:push s)` followed by `(= u (* i 2))`, `(q:push s)` followed by `(= p (table "x" i))`, and
  `(= s (+ s p.x))` followed by `(= p (table "x" i))`.

## What is not modelled

In the modelled parts: the contents of messages; `select` over channels or destroyed handles; a host that destroys its interpreter
while a script of it runs; memory-order effects weaker than sequential consistency, except in the ring; write barriers in
`BblTable`; in `GcHeap` the destructors a sweep runs (see `ChildState`), pause guards, the slice cache, the intern table of a parent, and
what only C++ frames hold; in the scripts garbage collection, floats, structs, binaries, `with`, `exec`, imports, the step limit, and
all shapes listed above; in the debugger the text of requests and answers.

Compiler, method JIT and trace JIT are modelled in part: what is left of `compiler.cpp` are the forms just named, what is left of `jit.cpp`
is mostly the encoding of instructions, which a model has nothing to say about.  The other components are listed in `PROJECT.json` with
the reason; conversions, formatting and system calls are out of a model checker's reach or have no state to speak of.

## Plan

What would add most from here, in order:

1. `GcHeap` further: the intern table of a parent; the values that only C++ frames hold (`BblState::call`, the debugger's
   saved stack).
2. `Modules`: the import cache, cyclic and failing imports; the nREPL request queue.
3. Floats, structs and `with` in the scripts.
4. What holds of `nextIntKey` when only `BblTable::set` changes tables; a refinement of `BblTable` to a map.
