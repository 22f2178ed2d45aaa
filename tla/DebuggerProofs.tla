---------------------------- MODULE DebuggerProofs ----------------------------
(* What a client that was told of a stop may rely on, and what a step that *)
(* was granted does, for every script, every set of breakpoints and any    *)
(* number of sessions and evaluations.                                     *)
EXTENDS Debugger, TLAPS

\* Where the server is while a client is connected and the script was not
\* let go on, and where it lets it go on.
Connected == {"read", "insert", "wait", "wait-to-sleep", "wait-asleep",
              "ask", "eval", "eval-to-sleep", "eval-asleep"}
Resuming == {"mode", "unpause"}

\* Past Check the script is at one of its lines, and so is what it recorded.
AtLine ==
  /\ ip \in Nat /\ stops \in Nat /\ stepDepth \in Nat
  /\ spc \in {"run", "record", "announce"} \/ InPause => ip \in Lines

\* The flag is set by the script, once the place is recorded, and taken back
\* by the server only: while it is set the script is in its pause.
PausedIsTrue ==
  /\ paused => InPause /\ pausedLine = ip
  /\ spc = "announce" => pausedLine = ip

\* From the event on until the client goes on the flag stays set.
StoppedIsPaused ==
  /\ told = "stopped" => paused /\ dpc \in Connected
  /\ dpc \in {"wait", "wait-to-sleep", "wait-asleep"} => told # "stopped"
  /\ dpc \in Resuming => paused /\ told # "stopped"

\* What the client holds is of this pause, and dropped before the next.  The
\* handles outlive a disconnect, and are dropped when the next client comes.
HoldsThisPause ==
  /\ dpc \in Connected =>
       /\ varRefs # {} => paused /\ varRefs \subseteq {stops}
       /\ shown # 0 => paused /\ shown = ip
  /\ dpc \in Resuming \cup {"notify"} /\ resumeMode # -1 => varRefs = {} /\ shown = 0

\* The step asked for is stored before the flag is taken back, and the script
\* forgets it only in its next pause, before it sets the flag.
StepStored ==
  /\ dpc = "unpause" /\ resumeMode # -1 => stepMode = resumeMode
  /\ ~paused /\ stops > 0 /\ spc # "announce" /\ resumeMode \in 1 .. 3 => stepMode = resumeMode

IInv ==
  /\ paused \in BOOLEAN
  /\ AtLine /\ PausedIsTrue /\ StoppedIsPaused /\ HoldsThisPause /\ StepStored

USE DebuggerAssumption

LEMMA DepthType == \A l \in Lines : l \in Nat /\ Depth[l] \in Nat
  BY DEF Lines

\* A notification moves a thread from its sleep to its test and nowhere else.
LEMMA Wakes ==
  /\ WakeServer(dpc) = dpc \/ (dpc = "wait-asleep" /\ WakeServer(dpc) = "wait")
                           \/ (dpc = "eval-asleep" /\ WakeServer(dpc) = "eval")
  /\ WakeScript(spc) = spc \/ (spc = "asleep" /\ WakeScript(spc) = "predicate")
  BY DEF WakeServer, WakeScript

LEMMA InitInv == Init => IInv
  <1> SUFFICES ASSUME Init PROVE IInv
    OBVIOUS
  <1>1. AtLine /\ PausedIsTrue
    BY DEF Init, AtLine, PausedIsTrue, InPause
  <1>2. StoppedIsPaused /\ HoldsThisPause
    BY DEF Init, StoppedIsPaused, HoldsThisPause, Connected, Resuming
  <1>3. StepStored
    BY DEF Init, StepStored
  <1> QED
    BY <1>1, <1>2, <1>3 DEF Init, IInv

\* The script's thread leaves the flag and the server's part alone, but for
\* the pause it begins.
LEMMA ScriptKeeps == ASSUME IInv, ScriptStep \/ SpuriousWakeup PROVE IInv'
  <1> USE DEF IInv, AtLine, PausedIsTrue, StoppedIsPaused, HoldsThisPause, StepStored,
              InPause, Connected, Resuming, script, flags, eval, server
  <1>1. CASE Check
    BY <1>1 DEF Check
  <1>2. CASE Run
    BY <1>2 DEF Run
  <1>3. CASE Record
    BY <1>3 DEF Record
  <1>4. CASE Announce
    <2>1. /\ spc = "announce" /\ spc' = "notify" /\ paused' = TRUE
          /\ UNCHANGED <<ip, pausedLine, stops, stepMode, stepDepth, server>>
      BY <1>4 DEF Announce
    <2> QED
      BY <2>1
  <1>5. CASE Notify
    BY <1>5, Wakes DEF Notify
  <1>6. CASE Predicate
    BY <1>6 DEF Predicate
  <1>7. CASE Sleep \/ SpuriousWakeup \/ Evaluate \/ EvaluateRecurses
    BY <1>7 DEF Sleep, SpuriousWakeup, Evaluate, EvaluateRecurses
  <1>8. CASE Answer
    BY <1>8, Wakes DEF Answer
  <1>9. CASE ScriptEnds \/ ScriptFails \/ Stop \/ Joined
    BY <1>9 DEF ScriptEnds, ScriptFails, Stop, Joined
  <1>10. CASE NotifyDone
    BY <1>10, Wakes DEF NotifyDone
  <1> QED
    BY <1>1, <1>2, <1>3, <1>4, <1>5, <1>6, <1>7, <1>8, <1>9, <1>10 DEF ScriptStep

\* What the server does of its own.
LEMMA ServerKeeps == ASSUME IInv, ServerStep \/ ServerSpuriousWakeup PROVE IInv'
  <1> USE DEF IInv, AtLine, PausedIsTrue, StoppedIsPaused, HoldsThisPause, StepStored,
              InPause, Connected, Resuming, script, flags, eval, server, Serving
  <1>1. CASE Insert
    BY <1>1 DEF Insert
  <1>2. CASE StoreMode
    BY <1>2 DEF StoreMode
  <1>3. CASE StoreUnpaused
    <2>1. /\ dpc = "unpause" /\ dpc' = "notify" /\ paused' = FALSE
          /\ UNCHANGED <<script, stepMode, stepDepth, told, resumeMode, varRefs, shown>>
      BY <1>3 DEF StoreUnpaused
    <2>2. resumeMode \in 1 .. 3 => resumeMode # -1
      OBVIOUS
    <2>3. StepStored'
      BY <2>1, <2>2
    <2> QED
      BY <2>1, <2>3
  <1>4. CASE NotifyUnpaused
    BY <1>4, Wakes DEF NotifyUnpaused
  <1>5. CASE WaitForPause
    BY <1>5 DEF WaitForPause
  <1>6. CASE NotifyEvaluate
    BY <1>6, Wakes DEF NotifyEvaluate
  <1>7. CASE WaitForResult
    BY <1>7 DEF WaitForResult
  <1>8. CASE ServerSleep
    BY <1>8 DEF ServerSleep, ServerHasMutex
  <1>9. CASE AcceptFails
    BY <1>9 DEF AcceptFails
  <1>10. CASE ServerSpuriousWakeup
    BY <1>10, Wakes DEF ServerSpuriousWakeup
  <1> QED
    BY <1>1, <1>2, <1>3, <1>4, <1>5, <1>6, <1>7, <1>8, <1>9, <1>10 DEF ServerStep

\* What a client asks for.
LEMMA RequestKeeps == ASSUME IInv, Request PROVE IInv'
  <1> USE DEF IInv, AtLine, PausedIsTrue, StoppedIsPaused, HoldsThisPause, StepStored,
              InPause, Connected, Resuming, script, flags, eval, server, Serving
  <1>1. CASE Accept
    BY <1>1 DEF Accept
  <1>2. CASE Disconnected
    BY <1>2 DEF Disconnected
  <1>3. CASE ConfigurationDone
    BY <1>3 DEF ConfigurationDone
  <1>4. CASE StackTrace
    BY <1>4 DEF StackTrace
  <1>5. CASE Variables
    BY <1>5 DEF Variables
  <1>6. CASE Disconnect
    BY <1>6 DEF Disconnect
  <1>7. CASE AskEvaluate
    BY <1>7 DEF AskEvaluate
  <1>8. ASSUME NEW B \in BreakSets, SetBreakpoints(B) PROVE IInv'
    BY <1>8 DEF SetBreakpoints
  <1>9. ASSUME NEW m \in 0 .. 3, Resume(m) PROVE IInv'
    <2>1. paused /\ spc # "announce" /\ pausedLine \in Lines
      BY <1>9 DEF Resume
    <2>2. stepDepth' \in Nat
      BY <1>9, <2>1, DepthType DEF Resume
    <2> QED
      BY <1>9, <2>1, <2>2 DEF Resume
  <1> QED
    BY <1>1, <1>2, <1>3, <1>4, <1>5, <1>6, <1>7, <1>8, <1>9 DEF Request

LEMMA StutterKeeps == ASSUME IInv, UNCHANGED vars PROVE IInv'
  BY DEF IInv, AtLine, PausedIsTrue, StoppedIsPaused, HoldsThisPause, StepStored,
     InPause, Connected, Resuming, vars, script, flags, eval, server

LEMMA SpecInv == Spec => []IInv
  <1>1. IInv /\ [Next]_vars => IInv'
    BY ScriptKeeps, ServerKeeps, RequestKeeps, StutterKeeps DEF Next
  <1> QED
    BY InitInv, <1>1, PTL DEF Spec

\* A client that was told of a stop and has not gone on finds the script in
\* its pause, at the line it was shown, and its handles are of this pause.
THEOREM StoppedTrue == Spec => []StoppedIsTrue
  <1>1. IInv => StoppedIsTrue
    BY DEF IInv, PausedIsTrue, StoppedIsPaused, HoldsThisPause, StoppedIsTrue
  <1> QED
    BY <1>1, SpecInv, PTL

\* Once a step is granted the script runs no line that it was to stop at,
\* whichever of the two threads is the faster.
THEOREM StepTaken == Spec => StepIsTaken
  <1> DEFINE Passes == spc = "line" /\ spc' = "run" /\ paused = FALSE /\ stops > 0
             Kept == /\ resumeMode # 1
                     /\ resumeMode = 2 => Depth[ip] > stepDepth
                     /\ resumeMode = 3 => Depth[ip] >= stepDepth
  <1>1. ASSUME IInv, [Next]_vars, Passes PROVE Kept
    <2>1. Check
      BY <1>1 DEF Next, ScriptStep, ServerStep, Request, SpuriousWakeup, ServerSpuriousWakeup,
         Check, Run, Record, Announce, Notify, Predicate, Sleep, Evaluate, EvaluateRecurses, Answer,
         ScriptEnds, NotifyDone, ScriptFails, Stop, Joined, Serving, Accept, Disconnected,
         AcceptFails, SetBreakpoints, Insert, ConfigurationDone, Variables, StackTrace, Resume,
         Disconnect, StoreMode, StoreUnpaused, NotifyUnpaused, WaitForPause, AskEvaluate,
         NotifyEvaluate, WaitForResult, ServerSleep, WakeScript, vars, script
    <2>2. ~ShouldPause /\ ip \in Lines
      BY <1>1, <2>1 DEF Check
    <2>3. resumeMode \in 1 .. 3 => stepMode = resumeMode
      BY <1>1 DEF IInv, StepStored
    <2>4. Depth[ip] \in Nat /\ stepDepth \in Nat
      BY <1>1, <2>2, DepthType DEF IInv, AtLine
    <2> QED
      BY <2>2, <2>3, <2>4 DEF ShouldPause
  <1>2. IInv /\ [Next]_vars => [Passes => Kept]_vars
    BY <1>1
  <1>3. [][Passes => Kept]_vars => StepIsTaken
    BY DEF StepIsTaken
  <1> HIDE DEF Passes, Kept
  <1>4. Spec => [][Passes => Kept]_vars
    BY <1>2, SpecInv, PTL DEF Spec
  <1> QED
    BY <1>3, <1>4

-----------------------------------------------------------------------------
(* An evaluation, from the request to its answer. *)

Asking == {"ask", "eval", "eval-to-sleep", "eval-asleep"}
Evaluating == {"evaluate", "answer", "recursing"}

\* One request is on its way at a time: the server waits for its answer, and
\* the script evaluates nothing else.
OneRequest ==
  /\ hasEvalRequest \in BOOLEAN /\ hasEvalResult \in BOOLEAN
  /\ hasEvalRequest => dpc \in Asking
  /\ spc \in Evaluating => hasEvalRequest
  /\ dpc \in Asking => /\ evalRequest = asked
                       /\ hasEvalRequest = ~hasEvalResult
                       /\ hasEvalResult => evalResult = asked
  /\ spc = "answer" => evalResult = evalRequest

\* Neither thread sleeps over what it waits for: a request the script has not
\* seen is about to be notified of, and a result is never there beside a
\* server that sleeps, or is about to.
EvalWakeupComing ==
  /\ spc = "to-sleep" => ~hasEvalRequest
  /\ spc = "asleep" /\ hasEvalRequest => dpc = "ask"
  /\ dpc \in {"eval-to-sleep", "eval-asleep"} => ~hasEvalResult

\* The answer the server takes is the one to the request it sent last.
AnswerIsOwn == [][answered' # answered => answered' = asked]_vars

EvalInv == OneRequest /\ EvalWakeupComing

LEMMA EvalInit == Init => EvalInv
  BY DEF Init, EvalInv, OneRequest, EvalWakeupComing, Asking, Evaluating

LEMMA EvalScriptKeeps == ASSUME EvalInv, ScriptStep \/ SpuriousWakeup PROVE EvalInv'
  <1> USE DEF EvalInv, OneRequest, EvalWakeupComing, Asking, Evaluating, script, flags, eval, server,
              ServerHasMutex
  <1>1. CASE Check \/ Run \/ Record \/ Announce
    BY <1>1 DEF Check, Run, Record, Announce
  <1>2. CASE Notify \/ NotifyDone
    BY <1>2, Wakes DEF Notify, NotifyDone
  <1>3. CASE Predicate \/ Sleep \/ SpuriousWakeup
    BY <1>3 DEF Predicate, Sleep, SpuriousWakeup
  <1>4. CASE Evaluate \/ EvaluateRecurses
    BY <1>4 DEF Evaluate, EvaluateRecurses
  <1>5. CASE Answer
    BY <1>5, Wakes DEF Answer, WakeServer
  <1>6. CASE ScriptEnds \/ ScriptFails \/ Stop \/ Joined
    BY <1>6 DEF ScriptEnds, ScriptFails, Stop, Joined
  <1> QED
    BY <1>1, <1>2, <1>3, <1>4, <1>5, <1>6 DEF ScriptStep

LEMMA EvalServerKeeps == ASSUME EvalInv, ServerStep \/ ServerSpuriousWakeup PROVE EvalInv'
  <1> USE DEF EvalInv, OneRequest, EvalWakeupComing, Asking, Evaluating, script, flags, eval, server,
              ScriptHasMutex, ServerHasMutex, Serving
  <1>1. CASE Insert \/ StoreMode \/ StoreUnpaused \/ WaitForPause \/ AcceptFails
    BY <1>1 DEF Insert, StoreMode, StoreUnpaused, WaitForPause, AcceptFails
  <1>2. CASE NotifyUnpaused
    BY <1>2, Wakes DEF NotifyUnpaused
  <1>3. CASE NotifyEvaluate
    BY <1>3, Wakes DEF NotifyEvaluate, WakeScript
  <1>4. CASE WaitForResult
    BY <1>4 DEF WaitForResult
  <1>5. CASE ServerSleep
    BY <1>5 DEF ServerSleep
  <1>6. CASE ServerSpuriousWakeup
    BY <1>6 DEF ServerSpuriousWakeup, WakeServer
  <1> QED
    BY <1>1, <1>2, <1>3, <1>4, <1>5, <1>6 DEF ServerStep

LEMMA EvalRequestKeeps == ASSUME EvalInv, Request PROVE EvalInv'
  <1> USE DEF EvalInv, OneRequest, EvalWakeupComing, Asking, Evaluating, script, flags, eval, server,
              ScriptHasMutex, Serving
  <1>1. CASE Accept \/ Disconnected \/ ConfigurationDone \/ StackTrace \/ Variables \/ Disconnect
    BY <1>1 DEF Accept, Disconnected, ConfigurationDone, StackTrace, Variables, Disconnect
  <1>2. CASE AskEvaluate
    BY <1>2 DEF AskEvaluate
  <1>3. ASSUME NEW B \in BreakSets, SetBreakpoints(B) PROVE EvalInv'
    BY <1>3 DEF SetBreakpoints
  <1>4. ASSUME NEW m \in 0 .. 3, Resume(m) PROVE EvalInv'
    BY <1>4 DEF Resume
  <1> QED
    BY <1>1, <1>2, <1>3, <1>4 DEF Request

LEMMA EvalSpecInv == Spec => []EvalInv
  <1>1. ASSUME EvalInv, UNCHANGED vars PROVE EvalInv'
    BY <1>1 DEF EvalInv, OneRequest, EvalWakeupComing, Asking, Evaluating, vars, script, eval, server
  <1>2. EvalInv /\ [Next]_vars => EvalInv'
    BY <1>1, EvalScriptKeeps, EvalServerKeeps, EvalRequestKeeps DEF Next
  <1> QED
    BY EvalInit, <1>2, PTL DEF Spec

\* The request and the result are set under the mutex, so neither is slept
\* over: the safety half of EvaluateAnswers.
THEOREM NoEvalLost == Spec => []EvalWakeupComing
  <1>1. EvalInv => EvalWakeupComing
    BY DEF EvalInv
  <1> QED
    BY <1>1, EvalSpecInv, PTL

\* evaluate never takes the answer of an earlier request for its own.
THEOREM AnswersOwn == Spec => AnswerIsOwn
  <1>1. EvalInv /\ [Next]_vars => [answered' # answered => answered' = asked]_vars
    <2> SUFFICES ASSUME EvalInv, [Next]_vars, answered' # answered PROVE answered' = asked
      OBVIOUS
    <2>1. WaitForResult
      BY DEF Next, ScriptStep, ServerStep, Request, SpuriousWakeup, ServerSpuriousWakeup,
         Check, Run, Record, Announce, Notify, Predicate, Sleep, Evaluate, EvaluateRecurses, Answer,
         ScriptEnds, NotifyDone, ScriptFails, Stop, Joined, Serving, Accept, Disconnected,
         AcceptFails, SetBreakpoints, Insert, ConfigurationDone, Variables, StackTrace, Resume,
         Disconnect, StoreMode, StoreUnpaused, NotifyUnpaused, WaitForPause, AskEvaluate,
         NotifyEvaluate, ServerSleep, vars, script, flags, eval, server
    <2> QED
      BY <2>1 DEF WaitForResult, Serving, EvalInv, OneRequest, Asking
  <1> QED
    BY <1>1, EvalSpecInv, PTL DEF Spec, AnswerIsOwn
=============================================================================
