------------------------------ MODULE Debugger ------------------------------
(***************************************************************************)
(* The debugger: the script's thread, which tests at each line whether to  *)
(* pause and evaluates expressions while it does, and the thread of the    *)
(* DAP server, which answers one client.  They share DebugState: atomic    *)
(* flags, plain fields, a condition variable, and a mutex that the flags   *)
(* paused, stepMode, scriptDone and running are stored without.            *)
(*                                                                         *)
(* A condition variable is waited for in three steps: the predicate is     *)
(* looked at, the thread goes to sleep, it is notified.  The mutex is held *)
(* over the first two.                                                     *)
(***************************************************************************)
EXTENDS Integers, Sequences

CONSTANTS
  Depth,         \* of the script's lines, in the order they are run: traceTop
  BreakSets,     \* the sets of lines setBreakpoints is asked for
  MaxSessions,   \* bound: clients, one after the other
  MaxEvals       \* bound: evaluate requests

Lines == DOMAIN Depth

ASSUME DebuggerAssumption ==
  /\ Depth \in Seq(Nat)
  /\ BreakSets \subseteq SUBSET Lines
  /\ MaxSessions \in Nat /\ MaxEvals \in Nat

VARIABLES
  spc,           \* where the script's thread is
  ip,            \* the line it is at
  paused, stepMode, stepDepth, breakpoints, scriptDone,
  pausedLine,    \* stands for pausedRegs, pausedLine, pausedFile and pausedTraceTop
  stops,         \* pauses so far
  evalRequest, evalResult, hasEvalRequest, hasEvalResult,
  dpc,           \* where the server's thread is
  running,
  sessions,
  told,          \* the last event the client was sent in this session
  toInsert,      \* lines of setBreakpoints not yet inserted
  resumeMode,    \* the stepMode the command in progress asks for
  asked, answered, \* the last evaluate sent, and the last one answered
  shown,         \* the line the client was last shown in this stop, 0 for none
  varRefs        \* the pauses in which the handles of variables were made

script == <<spc, ip, pausedLine, stops>>
flags == <<paused, stepMode, stepDepth, breakpoints, scriptDone>>
eval == <<evalRequest, evalResult, hasEvalRequest, hasEvalResult>>
server == <<dpc, running, sessions, told, toInsert, resumeMode, asked, answered, varRefs, shown>>
vars == <<script, flags, eval, server>>

Init ==
  /\ spc = "line" /\ ip = 1 /\ pausedLine = 0 /\ stops = 0
  /\ paused = FALSE /\ stepMode = 0 /\ stepDepth = 0 /\ breakpoints = {} /\ scriptDone = FALSE
  /\ evalRequest = 0 /\ evalResult = 0 /\ hasEvalRequest = FALSE /\ hasEvalResult = FALSE
  /\ dpc = "accept" /\ running = TRUE /\ sessions = 0 /\ told = "none"
  /\ toInsert = {} /\ resumeMode = 0 /\ asked = 0 /\ answered = 0 /\ varRefs = {}
  /\ shown = 0

\* The mutex is held by a thread between its predicate and its sleep.
ScriptHasMutex == spc = "to-sleep"
ServerHasMutex == dpc \in {"wait-to-sleep", "eval-to-sleep"}

\* notify_all, from either thread or from main.
WakeServer(p) ==
  CASE p = "wait-asleep" -> "wait"
    [] p = "eval-asleep" -> "eval"
    [] OTHER -> p
WakeScript(p) == IF p = "asleep" THEN "predicate" ELSE p

-----------------------------------------------------------------------------
(* The script's thread: jitDebugPause, called before each line. *)

ShouldPause ==
  \/ stepMode = 1
  \/ stepMode = 2 /\ Depth[ip] <= stepDepth
  \/ stepMode = 3 /\ Depth[ip] < stepDepth
  \/ ip \in breakpoints

Check ==
  /\ spc = "line" /\ ip \in Lines /\ ~ServerHasMutex
  /\ spc' = IF ShouldPause THEN "record" ELSE "run"
  /\ UNCHANGED <<ip, pausedLine, stops, flags, eval, server>>

Run ==
  /\ spc = "run"
  /\ ip' = ip + 1 /\ spc' = "line"
  /\ UNCHANGED <<pausedLine, stops, flags, eval, server>>

\* Mutant of Record: the flag is stored first, the place and the step after it.
Record_Late ==
  /\ spc = "record"
  /\ paused' = TRUE /\ spc' = "announce"
  /\ UNCHANGED <<ip, pausedLine, stops, stepMode, stepDepth, breakpoints, scriptDone, eval, server>>
Record ==
  /\ spc = "record"
  /\ pausedLine' = ip /\ stops' = stops + 1 /\ stepMode' = 0
  /\ spc' = "announce"
  /\ UNCHANGED <<ip, paused, stepDepth, breakpoints, scriptDone, eval, server>>

Announce ==
  /\ spc = "announce"
  /\ paused' = TRUE /\ spc' = "notify"
  /\ UNCHANGED <<ip, pausedLine, stops, stepMode, stepDepth, breakpoints, scriptDone, eval, server>>

\* Mutant of Notify: the step is forgotten only after the announcement.
Notify_Resets ==
  /\ spc = "notify"
  /\ spc' = "predicate" /\ dpc' = WakeServer(dpc) /\ stepMode' = 0
  /\ UNCHANGED <<ip, pausedLine, stops, paused, stepDepth, breakpoints, scriptDone, eval,
                 running, sessions, told, toInsert, resumeMode, asked, answered, varRefs, shown>>
Notify ==
  /\ spc = "notify"
  /\ spc' = "predicate" /\ dpc' = WakeServer(dpc)
  /\ UNCHANGED <<ip, pausedLine, stops, flags, eval,
                 running, sessions, told, toInsert, resumeMode, asked, answered, varRefs, shown>>

Predicate ==
  /\ spc = "predicate" /\ ~ServerHasMutex
  /\ spc' = IF hasEvalRequest THEN "evaluate" ELSE IF paused THEN "to-sleep" ELSE "run"
  /\ UNCHANGED <<ip, pausedLine, stops, flags, eval, server>>

Sleep ==
  /\ spc = "to-sleep"
  /\ spc' = "asleep"
  /\ UNCHANGED <<ip, pausedLine, stops, flags, eval, server>>

SpuriousWakeup ==
  /\ spc = "asleep"
  /\ spc' = "predicate"
  /\ UNCHANGED <<ip, pausedLine, stops, flags, eval, server>>

\* The expression, or the message of its error, is the result...
Evaluate ==
  /\ spc = "evaluate"
  /\ evalResult' = evalRequest /\ spc' = "answer"
  /\ UNCHANGED <<ip, pausedLine, stops, flags, evalRequest, hasEvalRequest, hasEvalResult, server>>

\* ... unless it reaches a breakpoint: the pause within finds the request
\* still set and evaluates it again, in a recursion without end.
EvaluateRecurses ==
  /\ spc = "evaluate" /\ breakpoints # {}
  /\ spc' = "recursing"
  /\ UNCHANGED <<ip, pausedLine, stops, flags, eval, server>>

Answer ==
  /\ spc = "answer" /\ ~ServerHasMutex
  /\ hasEvalRequest' = FALSE /\ hasEvalResult' = TRUE
  /\ spc' = "predicate" /\ dpc' = WakeServer(dpc)
  /\ UNCHANGED <<ip, pausedLine, stops, flags, evalRequest, evalResult,
                 running, sessions, told, toInsert, resumeMode, asked, answered, varRefs, shown>>

-----------------------------------------------------------------------------
(* The end: scriptDone is stored and notified when the script came to its *)
(* end, not when it failed; then the state is destroyed, which stops the  *)
(* server without a notification and joins its thread.                    *)

ScriptEnds ==
  /\ spc = "line" /\ ip \notin Lines
  /\ scriptDone' = TRUE /\ spc' = "done"
  /\ UNCHANGED <<ip, pausedLine, stops, paused, stepMode, stepDepth, breakpoints, eval, server>>

NotifyDone ==
  /\ spc = "done"
  /\ spc' = "destroy" /\ dpc' = WakeServer(dpc)
  /\ UNCHANGED <<ip, pausedLine, stops, flags, eval,
                 running, sessions, told, toInsert, resumeMode, asked, answered, varRefs, shown>>

ScriptFails ==
  /\ spc = "run"
  /\ spc' = "destroy"
  /\ UNCHANGED <<ip, pausedLine, stops, flags, eval, server>>

Stop ==
  /\ spc = "destroy"
  /\ running' = FALSE /\ spc' = "join"
  /\ UNCHANGED <<ip, pausedLine, stops, flags, eval,
                 dpc, sessions, told, toInsert, resumeMode, asked, answered, varRefs, shown>>

Joined ==
  /\ spc = "join" /\ dpc = "exited"
  /\ spc' = "gone"
  /\ UNCHANGED <<ip, pausedLine, stops, flags, eval, server>>

-----------------------------------------------------------------------------
(* The server's thread.  A client that is told of a stop may ask to go on   *)
(* or to evaluate; the other requests may come whenever the server reads.   *)

Serving(p) == dpc = p /\ UNCHANGED <<script, running, sessions>>

Accept ==
  /\ dpc = "accept" /\ running /\ sessions < MaxSessions
  /\ sessions' = sessions + 1 /\ dpc' = "read"
  /\ told' = "none" /\ varRefs' = {} /\ shown' = 0
  /\ UNCHANGED <<script, flags, eval, running, toInsert, resumeMode, asked, answered>>

\* The client is gone, or stop has closed the connection: the request loop
\* ends, and with running the thread.
Disconnected ==
  /\ Serving("read")
  /\ dpc' = IF running THEN "accept" ELSE "exited"
  /\ told' = "none"
  /\ UNCHANGED <<flags, eval, toInsert, resumeMode, asked, answered, varRefs, shown>>

AcceptFails ==
  /\ dpc = "accept" /\ ~running
  /\ dpc' = "exited"
  /\ UNCHANGED <<script, flags, eval, running, sessions, told, toInsert, resumeMode, asked, answered, varRefs, shown>>

SetBreakpoints(B) ==
  /\ Serving("read") /\ ~ScriptHasMutex
  /\ breakpoints' = {} /\ toInsert' = B /\ dpc' = "insert"
  /\ UNCHANGED <<paused, stepMode, stepDepth, scriptDone, eval, told, resumeMode, asked, answered, varRefs, shown>>

Insert ==
  /\ Serving("insert") /\ ~ScriptHasMutex
  /\ IF toInsert = {}
     THEN dpc' = "read" /\ UNCHANGED <<breakpoints, toInsert>>
     ELSE \E l \in toInsert : /\ breakpoints' = breakpoints \cup {l}
                              /\ toInsert' = toInsert \ {l} /\ UNCHANGED dpc
  /\ UNCHANGED <<paused, stepMode, stepDepth, scriptDone, eval, told, resumeMode, asked, answered, varRefs, shown>>

ConfigurationDone ==
  /\ Serving("read") /\ told = "none"
  /\ dpc' = "wait"
  /\ UNCHANGED <<flags, eval, told, toInsert, resumeMode, asked, answered, varRefs, shown>>

\* variables with reference 1: each table and vector gets a handle.
Variables ==
  /\ Serving("read") /\ paused /\ ~ScriptHasMutex
  /\ varRefs' = varRefs \cup {stops}
  /\ UNCHANGED <<dpc, flags, eval, told, toInsert, resumeMode, asked, answered, shown>>

StackTrace ==
  /\ Serving("read") /\ paused
  /\ shown' = pausedLine
  /\ UNCHANGED <<dpc, flags, eval, told, toInsert, resumeMode, asked, answered, varRefs>>

\* continue (0), stepIn (1), next (2) and stepOut (3): handles are dropped,
\* the depth is taken, then the mode, the flag and the notification.
Resume(m) ==
  /\ Serving("read") /\ told = "stopped"
  /\ varRefs' = {} /\ told' = "none" /\ shown' = 0 /\ resumeMode' = m
  /\ stepDepth' = IF m \in {2, 3} THEN Depth[pausedLine] ELSE stepDepth
  /\ dpc' = "mode"
  /\ UNCHANGED <<paused, stepMode, breakpoints, scriptDone, eval, toInsert, asked, answered>>

\* disconnect: the same as continue, for a script that is paused.
Disconnect ==
  /\ Serving("read") /\ running
  /\ told' = "none" /\ resumeMode' = -1
  /\ dpc' = IF paused THEN "mode" ELSE "accept"
  /\ UNCHANGED <<flags, eval, toInsert, asked, answered, varRefs, shown>>

StoreMode ==
  /\ Serving("mode")
  /\ stepMode' = IF resumeMode = -1 THEN 0 ELSE resumeMode
  /\ dpc' = "unpause"
  /\ UNCHANGED <<paused, stepDepth, breakpoints, scriptDone, eval, told, toInsert, resumeMode, asked, answered, varRefs, shown>>

StoreUnpaused ==
  /\ Serving("unpause")
  /\ paused' = FALSE /\ dpc' = "notify"
  /\ UNCHANGED <<stepMode, stepDepth, breakpoints, scriptDone, eval, told, toInsert, resumeMode, asked, answered, varRefs, shown>>

NotifyUnpaused ==
  /\ dpc = "notify"
  /\ spc' = WakeScript(spc)
  /\ dpc' = IF resumeMode # -1 THEN "wait" ELSE IF running THEN "accept" ELSE "exited"
  /\ UNCHANGED <<ip, pausedLine, stops, flags, eval, running, sessions, told, toInsert, resumeMode, asked, answered, varRefs, shown>>

\* waitForPause, and the event that follows it.
WaitForPause ==
  /\ Serving("wait") /\ ~ScriptHasMutex
  /\ IF paused \/ scriptDone \/ ~running
     THEN /\ told' = IF scriptDone THEN "terminated" ELSE IF paused THEN "stopped" ELSE told
          /\ dpc' = "read"
     ELSE dpc' = "wait-to-sleep" /\ UNCHANGED told
  /\ UNCHANGED <<flags, eval, toInsert, resumeMode, asked, answered, varRefs, shown>>

\* evaluate: the request is set under the mutex, its answer waited for.
\* Mutant: an old answer is left to be taken for the new one's.
AskEvaluate_Stale ==
  /\ Serving("read") /\ told = "stopped" /\ paused /\ ~ScriptHasMutex /\ asked < MaxEvals
  /\ asked' = asked + 1 /\ evalRequest' = asked + 1
  /\ hasEvalRequest' = TRUE
  /\ dpc' = "ask"
  /\ UNCHANGED <<flags, evalResult, hasEvalResult, told, toInsert, resumeMode, answered, varRefs, shown>>
AskEvaluate ==
  /\ Serving("read") /\ told = "stopped" /\ paused /\ ~ScriptHasMutex /\ asked < MaxEvals
  /\ asked' = asked + 1 /\ evalRequest' = asked + 1
  /\ hasEvalResult' = FALSE /\ hasEvalRequest' = TRUE
  /\ dpc' = "ask"
  /\ UNCHANGED <<flags, evalResult, told, toInsert, resumeMode, answered, varRefs, shown>>

NotifyEvaluate ==
  /\ dpc = "ask"
  /\ spc' = WakeScript(spc) /\ dpc' = "eval"
  /\ UNCHANGED <<ip, pausedLine, stops, flags, eval, running, sessions, told, toInsert, resumeMode, asked, answered, varRefs, shown>>

WaitForResult ==
  /\ Serving("eval") /\ ~ScriptHasMutex
  /\ IF hasEvalResult THEN answered' = evalResult /\ dpc' = "read"
                      ELSE dpc' = "eval-to-sleep" /\ UNCHANGED answered
  /\ UNCHANGED <<flags, eval, told, toInsert, resumeMode, asked, varRefs, shown>>

ServerSleep ==
  /\ ServerHasMutex
  /\ dpc' = IF dpc = "wait-to-sleep" THEN "wait-asleep" ELSE "eval-asleep"
  /\ UNCHANGED <<script, flags, eval, running, sessions, told, toInsert, resumeMode, asked, answered, varRefs, shown>>

ServerSpuriousWakeup ==
  /\ dpc \in {"wait-asleep", "eval-asleep"}
  /\ dpc' = WakeServer(dpc)
  /\ UNCHANGED <<script, flags, eval, running, sessions, told, toInsert, resumeMode, asked, answered, varRefs, shown>>

-----------------------------------------------------------------------------

ScriptStep ==
  \/ Check \/ Run \/ Record \/ Announce \/ Notify \/ Predicate \/ Sleep
  \/ Evaluate \/ EvaluateRecurses \/ Answer
  \/ ScriptEnds \/ NotifyDone \/ ScriptFails \/ Stop \/ Joined

\* What the server does without a request.
ServerStep ==
  \/ Insert \/ StoreMode \/ StoreUnpaused \/ NotifyUnpaused \/ WaitForPause
  \/ NotifyEvaluate \/ WaitForResult \/ ServerSleep \/ AcceptFails

Request ==
  \/ Accept \/ Disconnected \/ ConfigurationDone \/ StackTrace \/ Variables \/ Disconnect \/ AskEvaluate
  \/ \E B \in BreakSets : SetBreakpoints(B)
  \/ \E m \in 0 .. 3 : Resume(m)

Next == ScriptStep \/ ServerStep \/ Request \/ SpuriousWakeup \/ ServerSpuriousWakeup

\* Both threads run, and get the mutex in the end when they ask for it again
\* and again; a client owes no request, a wait no spurious wakeup.
Spec == Init /\ [][Next]_vars /\ SF_vars(ScriptStep) /\ SF_vars(ServerStep)

-----------------------------------------------------------------------------
(* Properties. *)

InPause == spc \in {"notify", "predicate", "to-sleep", "asleep", "evaluate", "answer", "recursing"}

\* A client that was told of a stop and has not gone on sees the script where
\* it stopped: it is in jitDebugPause, at the line recorded and shown, and the
\* handles of variables are of this pause.
StoppedIsTrue ==
  told = "stopped" => /\ InPause /\ pausedLine = ip
                      /\ shown \in {0, ip} /\ varRefs \subseteq {stops}

\* A step that was granted is taken: the script runs no further line it was
\* to stop at, whichever of the two threads is the faster.
StepIsTaken ==
  [][spc = "line" /\ spc' = "run" /\ paused = FALSE /\ stops > 0 =>
       /\ resumeMode # 1
       /\ resumeMode = 2 => Depth[ip] > stepDepth
       /\ resumeMode = 3 => Depth[ip] >= stepDepth]_vars

\* evaluate gets its own answer, and not that of an earlier request, unless
\* the expression reaches a breakpoint.
EvaluateAnswers ==
  \A n \in 1 .. MaxEvals :
    (dpc = "eval" /\ asked = n) ~> (answered = n \/ spc = "recursing")

\* What the tests take for granted: a script that is let go on goes on.
ContinueResumes == dpc = "notify" ~> spc \in {"run", "gone", "recursing"}
=============================================================================
