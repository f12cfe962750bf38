----------------------------- MODULE SessionProofs -----------------------------
(* Theorems about Session, for every list of suites, every number of stoppers *)
(* and all the bounds.                                                        *)
EXTENDS Session, DispatcherProofs

(***************************************************************************)
(* The inductive invariants.                                               *)
(***************************************************************************)

\* What the position of the main thread says about the rest.
MainInv ==
    /\ pc # "idle" => main = "exec"
    /\ main \in {"idle", "start", "created", "command", "running", "create"} =>
         outcome = "none" /\ lastResults = <<>> /\ ~dispRef
    /\ main \in {"idle", "start"} =>
         /\ ~started /\ ~sutRef /\ exitCode = "ok" /\ "session_completed" \notin fired
         /\ \A x \in Stoppers : threadPc[x] \in {"idle", "ignored"}
    /\ main \in {"idle", "start", "created", "command", "running", "create", "exec", "finally"} =>
         threadPc[Main] = "idle"
    /\ main = "done" => threadPc[Main] \in {"idle", "returned", "raised", "crashed"}
    /\ main = "exec" \/ lastResults # <<>> => dispRef

\* What is left for the end of run_single.
EndInv ==
    /\ main \in {"stopping", "done"} /\ lastResults # <<>> /\ report = "none" => sigints > 0
    /\ main \in {"finally", "stopping", "done"} /\ ~raised /\ exitCode = "ok" /\ dispRef =>
         outcome = "ok"

\* The main thread will not run the dispatcher any more.
Ending ==
    /\ pc = "idle"
    /\ outcome # "none" \/ main \in {"error", "interrupt", "finally", "stopping", "done"}

NoneRanAhead == \A x \in Stoppers : ~PastDispatcher(x)

\* What a thread that stops the session has done so far.
CallersInv ==
    \A x \in Stoppers :
        /\ threadPc[x] \in {"idle", "ignored", "all", "dispatcher"} => stopPc[x] = "idle"
        /\ threadPc[x] \notin {"idle", "ignored"} => started
        /\ threadPc[x] = "returned" => main = "done"
        /\ threadPc[x] \in {"check", "use", "stopping", "clear"} =>
             stopPc[x] \in {"idle", "ignored", "stopped"}
        /\ stopPc[x] \notin {"idle", "ignored"} => pc # "idle" \/ outcome # "none"
        /\ stopPc[x] \in {"clear", "stopped"} => pc = "idle"

\* Who has seen self._sut cleared.
ReleasedInv ==
    /\ sutRef => started
    /\ \A t \in Threads : threadPc[t] \in {"fire", "locked", "returned"} => ~sutRef
    /\ exitCode \in {"error", "interrupt"} \/ "session_completed" \in fired => ~sutRef

\* Once self._sut is cleared the SUT is off and stays off, as long as no thread has
\* gone past the dispatcher before it ran.
OffInv ==
    NoneRanAhead =>
        /\ \A t \in Threads : threadPc[t] = "clear" => sut = "off" /\ Ending
        /\ started /\ ~sutRef => sut = "off" /\ Ending

StopInv == CallersInv /\ ReleasedInv /\ OffInv

(***************************************************************************)
(* The steps, by what they may change.                                     *)
(***************************************************************************)
dispatcherVars == <<pc, runVars, loopVars, testVars, isHost, taint, stopVars, history>>

\* A step of the session that touches the target, and no more of the dispatcher.
SutStep ==
    /\ UNCHANGED dispatcherVars
    /\ sut' \in {"up", "dead", "off"}
    /\ sigints' \in {sigints, sigints + 1}

\* The dispatcher works when it is running, and says how it ended; the requests to
\* stop are not its own.
LEMMA RunnerEffect ==
    ASSUME Runner \/ Sigint
    PROVE  /\ pc # "idle" /\ UNCHANGED stopVars
           /\ pc' = "idle" => outcome' # "none"
           /\ pc' # "idle" => outcome' = outcome
<1> USE DEF InTest, runVars
<1>1. CASE DownloadSuites \/ GetInfo \/ Return
  BY <1>1 DEF DownloadSuites, GetInfo, Return, Leave, SutRaises
<1>2. CASE StartSuite \/ LeaveLoop \/ SkipRemaining \/ IgnoreTest \/ StartTest \/ DropEmptySuite
  BY <1>2 DEF StartSuite, LeaveLoop, SkipRemaining, IgnoreTest, StartTest, DropEmptySuite
<1>3. CASE SutFails \/ TaintBefore \/ RunCommand \/ CommandTimeout \/ KernelPanic
  BY <1>3 DEF SutFails, TaintBefore, RunCommand, CommandTimeout, KernelPanic, Leave, SutRaises
<1>4. CASE Ping \/ TaintAfter \/ TestCompleted \/ AppendResult
  BY <1>4 DEF Ping, TaintAfter, TestCompleted, AppendResult
<1>5. CASE ForceStopSut \/ BootSut
  BY <1>5 DEF ForceStopSut, BootSut, Leave, SutRaises
<1>6. CASE CollectSuite
  BY <1>6 DEF CollectSuite, SuiteEnd, Leave, SutRaises
<1>7. CASE Sigint
  <2>1. CASE PostponeSigint
    BY <1>7, <2>1 DEF Sigint, PostponeSigint
  <2>2. CASE RaiseSigint
    BY <1>7, <2>2 DEF Sigint, RaiseSigint, Leave, SutRaises
  <2> QED
    BY <1>7, <2>1, <2>2 DEF Sigint
<1> QED
  BY <1>1, <1>2, <1>3, <1>4, <1>5, <1>6, <1>7 DEF Runner, RunSuite, RunTest

\* A request to the dispatcher moves on its own.
LEMMA StopStepEffect ==
    ASSUME NEW x \in Stoppers, StopStep(x)
    PROVE  /\ UNCHANGED runner
           /\ stopPc[x] \in {"set", "poll", "sleep", "clear", "expire"}
           /\ \E to \in {"poll", "sleep", "clear", "expire", "stopped", "expired"} :
                /\ stopPc' = [stopPc EXCEPT ![x] = to]
                /\ to = "clear" => pc = "idle"
                /\ to = "stopped" => stopPc[x] = "clear"
<1>1. CASE StopSet(x)
  BY <1>1 DEF StopSet, SetStopPc
<1>2. CASE StopPoll(x)
  BY <1>2 DEF StopPoll, SetStopPc, IsRunning
<1>3. CASE StopSleep(x)
  BY <1>3 DEF StopSleep, SetStopPc, IsRunning
<1>4. CASE StopClear(x)
  BY <1>4 DEF StopClear, SetStopPc
<1> QED
  BY <1>1, <1>2, <1>3, <1>4 DEF StopStep

\* What a thread does in the stop procedure, step by step.
ProcedureStep(t, to) ==
    \/ /\ threadPc[t] = "all" /\ (to = "dispatcher" \/ (to = Over(t) /\ ~sutRef))
       /\ UNCHANGED <<stopPc, sut, sutRef>>
    \/ /\ threadPc[t] = "dispatcher" /\ t # Main /\ to = "waiting"
       /\ stopPc' = [stopPc EXCEPT ![t] = IF pc # "idle" THEN "set" ELSE "ignored"]
       /\ UNCHANGED <<sut, sutRef>>
    \/ /\ threadPc[t] = "dispatcher" /\ to = "check"
       /\ UNCHANGED <<stopPc, sut, sutRef>>
    \/ /\ threadPc[t] = "waiting" /\ t # Main
       /\ \/ to = "check" /\ stopPc[t] \in {"ignored", "stopped"}
          \/ to = "raised" /\ stopPc[t] = "expired"
       /\ UNCHANGED <<stopPc, sut, sutRef>>
    \/ /\ threadPc[t] = "check" /\ (to = "use" \/ (to = Over(t) /\ ~sutRef))
       /\ UNCHANGED <<stopPc, sut, sutRef>>
    \/ /\ threadPc[t] = "use" /\ to \in {"stopping", "crashed"}
       /\ UNCHANGED <<stopPc, sut, sutRef>>
    \/ /\ threadPc[t] = "stopping"
       /\ (to \in {"crashed", "raised"} /\ sut' = sut) \/ (to = "clear" /\ sut' = "off")
       /\ UNCHANGED <<stopPc, sutRef>>
    \/ /\ threadPc[t] = "clear" /\ to = Over(t) /\ sutRef' = FALSE
       /\ UNCHANGED <<stopPc, sut>>

\* The stop procedure moves its own thread and leaves run_single alone.
LEMMA ProcedureEffect ==
    ASSUME NEW t \in Threads, StopProcedure(t)
    PROVE  /\ \E to : ProcedureStep(t, to) /\ threadPc' = [threadPc EXCEPT ![t] = to]
           /\ UNCHANGED <<mainVars, fired, pc, runVars, loopVars, testVars, isHost, taint>>
           /\ UNCHANGED <<history, sigints>>
<1> USE DEF GoTo, ProcedureStep, Over
<1>1. CASE StopAll(t)
  BY <1>1 DEF StopAll, vars, sutVars, stopVars
<1>2. CASE CallDispatcherStop(t)
  <2>1. CASE dispRef /\ t # Main /\ GoTo(t, "dispatcher", "waiting") /\ StopCall(t)
    BY <1>2, <2>1 DEF CallDispatcherStop, StopCall, SetStopPc, IsRunning, runner, sutVars
  <2>2. CASE GoTo(t, "dispatcher", "check") /\ UNCHANGED vars
    BY <1>2, <2>2 DEF CallDispatcherStop, vars, sutVars, stopVars
  <2> QED
    BY <1>2, <2>1, <2>2 DEF CallDispatcherStop
<1>3. CASE DispatcherStopped(t)
  BY <1>3 DEF DispatcherStopped, vars, sutVars, stopVars
<1>4. CASE CheckSut(t) \/ UseSut(t)
  BY <1>4 DEF CheckSut, UseSut, vars, sutVars, stopVars
<1>5. CASE StopSut(t)
  BY <1>5 DEF StopSut, stopVars
<1>6. CASE ClearSut(t)
  BY <1>6 DEF ClearSut, vars, sutVars, stopVars
<1> QED
  BY <1>1, <1>2, <1>3, <1>4, <1>5, <1>6 DEF StopProcedure

(***************************************************************************)
(* The session is a caller of the dispatcher: all that is shown of the     *)
(* dispatcher's loops in DispatcherProofs holds in it.                     *)
(***************************************************************************)
DispatcherInv == AccountInv /\ OrderInv /\ EventInv

\* Every step of the session is one of the dispatcher, or one on the target.
LEMMA SessionStepIsStep ==
    ASSUME TypeOK, [SessionNext]_allVars
    PROVE  [Step]_vars \/ SutStep
<1> USE DEF dispatcherVars
<1>1. CASE RunSingle \/ SutCreated \/ CallUserCommand \/ RunUserCommand \/ CreateDispatcher \/ ExecEnded
  BY <1>1 DEF RunSingle, SutCreated, CallUserCommand, RunUserCommand, CreateDispatcher, Uncaught, ExecEnded
<1>2. CASE HandlerEnds \/ Finally \/ FinallyEnds \/ Terminated
  BY <1>2 DEF HandlerEnds, Finally, FinallyEnds, Terminated, allVars
<1>3. CASE StartSut
  BY <1>3 DEF StartSut, SutStep
<1>4. CASE CallExecSuites
  BY <1>4 DEF CallExecSuites, Step
<1>5. CASE Runner \/ Sigint
  BY <1>5 DEF Step
<1>6. ASSUME NEW t \in Threads, StopProcedure(t) PROVE [Step]_vars \/ SutStep
  <2>1. CASE StopAll(t) \/ DispatcherStopped(t) \/ CheckSut(t) \/ UseSut(t) \/ ClearSut(t)
    BY <2>1 DEF StopAll, DispatcherStopped, CheckSut, UseSut, ClearSut
  <2>2. CASE CallDispatcherStop(t)
    <3>1. t # Main => t \in Stoppers
      BY DEF Threads
    <3> QED
      BY <2>2, <3>1 DEF CallDispatcherStop, Step
  <2>3. CASE StopSut(t)
    BY <2>3 DEF StopSut, SutStep, TypeOK
  <2> QED
    BY <1>6, <2>1, <2>2, <2>3 DEF StopProcedure
<1>7. ASSUME NEW x \in Stoppers, CallStop(x) \/ SessionStop(x) PROVE [Step]_vars \/ SutStep
  <2>1. CASE CallStop(x) \/ FireStopped(x) \/ AwaitRun(x)
    BY <2>1 DEF CallStop, FireStopped, AwaitRun
  <2>2. CASE StopStep(x)
    BY <2>2 DEF Step
  <2> QED
    BY <1>6, <1>7, <2>1, <2>2 DEF SessionStop, Threads
<1>8. CASE SessionSigint
  <2>1. sut' \in {"up", "dead", "off"}
    BY <1>8 DEF SessionSigint, SigintTry, SigintCleanup, TypeOK
  <2> QED
    BY <1>8, <2>1 DEF SessionSigint, SutStep
<1>9. CASE UNCHANGED allVars
  BY <1>9 DEF allVars
<1>10. CASE MainStep
  BY <1>1, <1>2, <1>3, <1>4, <1>5, <1>6, <1>10 DEF MainStep, Threads
<1> QED
  BY <1>1, <1>2, <1>5, <1>7, <1>8, <1>9, <1>10 DEF SessionNext

\* What the dispatcher keeps of its loops, the session keeps.
LEMMA DispatcherKept ==
    ASSUME DispatcherInv, [SessionNext]_allVars
    PROVE  DispatcherInv'
<1> USE DEF DispatcherInv
<1>1. TypeInv /\ TypeOK
  BY DEF AccountInv, TypeInv
<1>2. CASE [Step]_vars
  BY <1>1, <1>2, AccountStep, OrderStep, EventStep
<1>3. CASE SutStep
  <2>1. UNCHANGED <<pc, outcome, skip, lastResults, suite, test, testsResults, timedOut, interrupt,
                    completed, missed>>
        /\ (sigints' = 0 => sigints = 0)
    BY <1>1, <1>3 DEF SutStep, dispatcherVars, runVars, loopVars, history, TypeOK
  <2>2. TypeInv'
    BY <1>1, <1>3 DEF SutStep, dispatcherVars, runVars, loopVars, testVars, stopVars, history,
      TypeInv, TypeOK, Positions
  <2>3. AccountInv'
    BY <2>1, <2>2, QuietStep DEF AccountInv, EveryTestAccounted
  <2>4. OrderInv'
    BY <2>1, OrderQuietStep DEF OrderInv, SoFarInOrder, InSuite
  <2>5. EventInv'
    BY <2>1, EventQuietStep DEF InSuite, InTest
  <2> QED
    BY <2>3, <2>4, <2>5
<1> QED
  BY <1>1, <1>2, <1>3, SessionStepIsStep

(***************************************************************************)
(* Type correctness.                                                       *)
(***************************************************************************)
SessionTypeInv ==
    /\ main \in MainPoints
    /\ exitCode \in {"ok", "timeout", "error", "interrupt"}
    /\ raised \in BOOLEAN /\ sutRef \in BOOLEAN /\ dispRef \in BOOLEAN
    /\ threadPc \in [Threads -> ThreadPoints]
    /\ report \in {"none", "saved", "failed"}
    /\ fired \subseteq SessionEvents /\ started \in BOOLEAN

\* The types of the session's own variables hold initially.
LEMMA SessionTypeInit == SessionInit => SessionTypeInv
<1> SUFFICES ASSUME SessionInit PROVE SessionTypeInv
  OBVIOUS
<1> USE DEF SessionInit
<1>1. threadPc \in [Threads -> ThreadPoints]
  BY DEF ThreadPoints
<1>2. raised \in BOOLEAN /\ sutRef \in BOOLEAN /\ dispRef \in BOOLEAN /\ started \in BOOLEAN
  OBVIOUS
<1> QED
  BY <1>1, <1>2 DEF SessionTypeInv, MainPoints

\* Every step keeps the types of the session's own variables.
LEMMA SessionTypeStep ==
    ASSUME SessionTypeInv, [SessionNext]_allVars
    PROVE  SessionTypeInv'
<1> USE DEF SessionTypeInv
<1>1. CASE RunSingle
  BY <1>1 DEF RunSingle, MainPoints, SessionEvents
<1>2. CASE StartSut
  <2>1. threadPc' \in [Threads -> ThreadPoints] /\ main' \in MainPoints
    BY <1>2 DEF StartSut, Uncaught, Handle, MainPoints, ThreadPoints
  <2>2. sutRef' \in BOOLEAN /\ started' \in BOOLEAN
    BY <1>2 DEF StartSut
  <2> QED
    BY <1>2, <2>1, <2>2 DEF StartSut, Uncaught
<1>3. CASE SutCreated \/ CallUserCommand \/ RunUserCommand \/ CreateDispatcher
  <2>1. threadPc' \in [Threads -> ThreadPoints] /\ main' \in MainPoints
    BY <1>3 DEF SutCreated, CallUserCommand, RunUserCommand, CreateDispatcher, Uncaught, NextPhases, Handle, MainPoints, ThreadPoints
  <2>2. raised' \in BOOLEAN /\ dispRef' \in BOOLEAN
    BY <1>3 DEF SutCreated, CallUserCommand, RunUserCommand, CreateDispatcher, Uncaught, NextPhases
  <2> QED
    BY <1>3, <2>1, <2>2 DEF SutCreated, CallUserCommand, RunUserCommand, CreateDispatcher
<1>4. CASE ExecEnded
  <2>1. threadPc' \in [Threads -> ThreadPoints] /\ main' \in MainPoints
    BY <1>4 DEF ExecEnded, Uncaught, Handle, MainPoints, ThreadPoints
  <2>2. raised' \in BOOLEAN /\ exitCode' \in {"ok", "timeout", "error", "interrupt"}
    BY <1>4 DEF ExecEnded, Uncaught
  <2> QED
    BY <1>4, <2>1, <2>2 DEF ExecEnded
<1>5. CASE HandlerEnds
  <2>1. threadPc' \in [Threads -> ThreadPoints]
    BY <1>5 DEF HandlerEnds, GoTo, ThreadPoints
  <2>2. raised' \in BOOLEAN /\ exitCode' \in {"ok", "timeout", "error", "interrupt"}
    BY <1>5 DEF HandlerEnds
  <2>3. fired' \subseteq SessionEvents
    BY <1>5 DEF HandlerEnds, SessionEvents
  <2> QED
    BY <1>5, <2>1, <2>2, <2>3 DEF HandlerEnds, MainPoints
<1>6. CASE Finally
  <2>1. threadPc' \in [Threads -> ThreadPoints] /\ main' \in MainPoints
    BY <1>6 DEF Finally, GoTo, MainPoints, ThreadPoints
  <2>2. raised' \in BOOLEAN /\ report' \in {"none", "saved", "failed"}
    BY <1>6 DEF Finally
  <2> QED
    BY <1>6, <2>1, <2>2 DEF Finally
<1>7. CASE FinallyEnds
  <2>1. raised' \in BOOLEAN /\ fired' \subseteq SessionEvents
    BY <1>7 DEF FinallyEnds, SessionEvents
  <2> QED
    BY <1>7, <2>1 DEF FinallyEnds, MainPoints
<1>8. ASSUME NEW t \in Threads, StopProcedure(t) PROVE SessionTypeInv'
  <2>1. PICK to : ProcedureStep(t, to) /\ threadPc' = [threadPc EXCEPT ![t] = to]
    BY <1>8, ProcedureEffect
  <2>2. to \in ThreadPoints /\ sutRef' \in BOOLEAN
    BY <2>1 DEF ProcedureStep, Over, ThreadPoints
  <2>3. UNCHANGED <<mainVars, fired>>
    BY <1>8, ProcedureEffect
  <2> QED
    BY <2>1, <2>2, <2>3 DEF mainVars
<1>9. ASSUME NEW x \in Stoppers, CallStop(x) \/ FireStopped(x) \/ AwaitRun(x)
      PROVE  SessionTypeInv'
  <2>1. threadPc' \in [Threads -> ThreadPoints]
    BY <1>9 DEF CallStop, FireStopped, AwaitRun, GoTo, ThreadPoints
  <2>2. fired' \subseteq SessionEvents
    BY <1>9 DEF CallStop, FireStopped, AwaitRun, SessionEvents
  <2> QED
    BY <1>9, <2>1, <2>2 DEF CallStop, FireStopped, AwaitRun, mainVars
<1>10. CASE SessionSigint
  <2>1. threadPc' \in [Threads -> ThreadPoints] /\ main' \in MainPoints
    BY <1>10 DEF SessionSigint, SigintTry, SigintCleanup, Handle, MainPoints, ThreadPoints
  <2>2. raised' \in BOOLEAN
    BY <1>10 DEF SessionSigint, SigintTry, SigintCleanup
  <2> QED
    BY <1>10, <2>1, <2>2 DEF SessionSigint
<1>11. CASE UNCHANGED sessionVars
  BY <1>11 DEF sessionVars, mainVars
<1>12. CASE MainStep
  BY <1>2, <1>3, <1>4, <1>5, <1>6, <1>7, <1>8, <1>11, <1>12 DEF MainStep, CallExecSuites, Threads
<1>13. ASSUME NEW x \in Stoppers, CallStop(x) \/ SessionStop(x) PROVE SessionTypeInv'
  BY <1>8, <1>9, <1>11, <1>13 DEF SessionStop, Threads
<1> QED
  BY <1>1, <1>10, <1>11, <1>12, <1>13 DEF SessionNext, Terminated, allVars

(***************************************************************************)
(* The main thread.                                                        *)
(***************************************************************************)

\* The session begins with nothing started.
LEMMA MainInit == SessionInit => MainInv /\ EndInv
<1> SUFFICES ASSUME SessionInit PROVE MainInv /\ EndInv
  OBVIOUS
<1>1. \A t \in Threads : threadPc[t] = "idle"
  BY DEF SessionInit
<1> QED
  BY <1>1 DEF SessionInit, Init, MainInv, EndInv, Threads

\* Every step keeps what the position of the main thread says.
LEMMA MainKept ==
    ASSUME SessionTypeInv, MainInv, [SessionNext]_allVars
    PROVE  MainInv'
<1> USE DEF MainInv
<1>0. Main \in Threads /\ Main \notin Stoppers /\ threadPc \in [Threads -> ThreadPoints]
  BY MainAssumption DEF Threads, SessionTypeInv
<1>1. CASE RunSingle
  BY <1>1 DEF RunSingle, vars, runVars
<1>2. CASE StartSut
  BY <1>0, <1>2 DEF StartSut, Uncaught, Handle, runVars
<1>3. CASE SutCreated \/ CallUserCommand \/ RunUserCommand \/ CreateDispatcher
  BY <1>0, <1>3 DEF SutCreated, CallUserCommand, RunUserCommand, CreateDispatcher, Uncaught, NextPhases, Handle, vars, runVars
<1>4. CASE CallExecSuites
  BY <1>4 DEF CallExecSuites, ExecSuites, sessionVars, mainVars
<1>5. CASE (Runner \/ Sigint) /\ UNCHANGED sessionVars
  BY <1>5, RunnerEffect DEF sessionVars, mainVars
<1>6. CASE ExecEnded
  BY <1>0, <1>6 DEF ExecEnded, Uncaught, Handle, vars, runVars
<1>7. CASE HandlerEnds
  BY <1>0, <1>7 DEF HandlerEnds, GoTo, vars, runVars
<1>8. CASE Finally
  BY <1>0, <1>8 DEF Finally, GoTo, vars, runVars
<1>9. CASE FinallyEnds
  BY <1>9 DEF FinallyEnds, vars, runVars
<1>10. ASSUME NEW t \in Threads, StopProcedure(t) PROVE MainInv'
  <2>1. PICK to : ProcedureStep(t, to) /\ threadPc' = [threadPc EXCEPT ![t] = to]
    BY <1>10, ProcedureEffect
  <2>2. UNCHANGED <<main, exitCode, dispRef, started, fired, pc, outcome, lastResults>>
    BY <1>10, ProcedureEffect DEF mainVars, runVars
  <2>3. threadPc[t] \notin {"idle", "ignored", "returned", "raised", "crashed"}
    BY <2>1 DEF ProcedureStep
  <2>4. main \notin {"idle", "start"} /\ (t = Main => main \in {"error", "interrupt", "stopping"})
    BY <1>0, <2>3 DEF Threads, SessionTypeInv, MainPoints
  <2> QED
    BY <1>0, <2>1, <2>2, <2>4
<1>11. ASSUME NEW x \in Stoppers, CallStop(x) \/ FireStopped(x) \/ AwaitRun(x) PROVE MainInv'
  <2>1. UNCHANGED <<main, exitCode, dispRef, started, sutRef, pc, outcome, lastResults>>
    BY <1>11 DEF CallStop, FireStopped, AwaitRun, mainVars, vars, runVars
  <2>2. \E to : threadPc' = [threadPc EXCEPT ![x] = to]
    BY <1>11 DEF CallStop, FireStopped, AwaitRun, GoTo
  <2>3. "session_completed" \notin fired => "session_completed" \notin fired'
    BY <1>11 DEF CallStop, FireStopped, AwaitRun
  <2>4. main \in {"idle", "start"} => threadPc'[x] = "ignored"
    BY <1>0, <1>11 DEF CallStop, FireStopped, AwaitRun, GoTo, Threads
  <2> QED
    BY <1>0, <2>1, <2>2, <2>3, <2>4
<1>12. ASSUME NEW x \in Stoppers, StopStep(x), UNCHANGED sessionVars PROVE MainInv'
  BY <1>12, StopStepEffect DEF runner, runVars, sessionVars, mainVars
<1>13. CASE SessionSigint
  <2>1. UNCHANGED <<exitCode, dispRef, started, sutRef, fired, pc, outcome, lastResults>>
    BY <1>13 DEF SessionSigint, runVars
  <2>2. /\ main' \in {"interrupt", "finally", "done"} /\ main # "idle"
        /\ main' \in {"finally", "done"} => threadPc'[Main] = "idle"
        /\ main = "exec" => pc = "idle"
    BY <1>0, <1>13 DEF SessionSigint, SigintTry, SigintCleanup, Handle
  <2> QED
    BY <2>1, <2>2
<1>14. CASE UNCHANGED allVars
  BY <1>14 DEF allVars, vars, runVars, sessionVars, mainVars
<1>15. CASE MainStep
  BY <1>0, <1>2, <1>3, <1>4, <1>5, <1>6, <1>7, <1>8, <1>9, <1>10, <1>15 DEF MainStep
<1>16. ASSUME NEW x \in Stoppers, CallStop(x) \/ SessionStop(x) PROVE MainInv'
  BY <1>10, <1>11, <1>12, <1>16 DEF SessionStop, Threads
<1> QED
  BY <1>1, <1>5, <1>13, <1>14, <1>15, <1>16 DEF SessionNext, Terminated

\* Every step keeps what is left for the end.
LEMMA EndKept ==
    ASSUME TypeOK, SessionTypeInv, MainInv, EndInv, [SessionNext]_allVars
    PROVE  EndInv'
<1> USE DEF EndInv
<1>0. sigints \in Nat /\ MainInv'
  BY MainKept DEF TypeOK
<1>1. CASE RunSingle
  BY <1>1 DEF RunSingle
<1>2. CASE StartSut
  BY <1>2 DEF StartSut, Uncaught, Handle, MainInv
<1>3. CASE SutCreated \/ CallUserCommand \/ RunUserCommand \/ CreateDispatcher
  BY <1>3 DEF SutCreated, CallUserCommand, RunUserCommand, CreateDispatcher, Uncaught, NextPhases, Handle, MainInv
<1>4. CASE CallExecSuites
  BY <1>4 DEF CallExecSuites, sessionVars, mainVars
<1>5. CASE (Runner \/ Sigint) /\ UNCHANGED sessionVars
  BY <1>5, RunnerEffect DEF sessionVars, mainVars, MainInv
<1>6. CASE ExecEnded
  BY <1>6 DEF ExecEnded, Uncaught, Handle, vars, runVars
<1>7. CASE HandlerEnds
  BY <1>7 DEF HandlerEnds, vars, runVars
<1>8. CASE Finally
  BY <1>8 DEF Finally, vars, runVars, MainInv
<1>9. CASE FinallyEnds
  BY <1>9 DEF FinallyEnds, vars, runVars
<1>10. ASSUME UNCHANGED <<main, exitCode, raised, dispRef, report, outcome, lastResults, sigints>>
       PROVE  EndInv'
  BY <1>10
<1>11. ASSUME NEW t \in Threads, StopProcedure(t) PROVE EndInv'
  BY <1>10, <1>11, ProcedureEffect DEF mainVars, runVars
<1>12. ASSUME NEW x \in Stoppers, CallStop(x) \/ SessionStop(x) PROVE EndInv'
  <2>1. CASE CallStop(x) \/ FireStopped(x) \/ AwaitRun(x)
    BY <1>10, <2>1 DEF CallStop, FireStopped, AwaitRun, mainVars, vars, runVars
  <2>2. CASE StopStep(x) /\ UNCHANGED sessionVars
    BY <1>10, <2>2, StopStepEffect DEF runner, runVars, sessionVars, mainVars
  <2> QED
    BY <1>11, <1>12, <2>1, <2>2 DEF SessionStop, Threads
<1>13. CASE SessionSigint
  <2>1. sigints' > 0
    BY <1>0, <1>13 DEF SessionSigint
  <2>2. \/ main' = "interrupt"
        \/ raised'
    BY <1>13 DEF SessionSigint, SigintTry, SigintCleanup, Handle
  <2> QED
    BY <2>1, <2>2
<1>14. CASE UNCHANGED allVars
  BY <1>10, <1>14 DEF allVars, vars, runVars, sessionVars, mainVars
<1>15. CASE MainStep
  BY <1>2, <1>3, <1>4, <1>5, <1>6, <1>7, <1>8, <1>9, <1>11, <1>15 DEF MainStep, Threads
<1> QED
  BY <1>1, <1>5, <1>12, <1>13, <1>14, <1>15 DEF SessionNext, Terminated

(***************************************************************************)
(* The threads that stop the session.                                      *)
(***************************************************************************)

\* A step of the main thread, or of the dispatcher it runs, as the stoppers see it.
MainSide ==
    /\ UNCHANGED stopPc
    /\ \A x \in Stoppers : threadPc'[x] = threadPc[x]
    /\ started => started'
    /\ main = "done" => main' = "done"
    /\ pc # "idle" /\ pc' = "idle" => outcome' # "none"
    /\ pc = "idle" /\ pc' # "idle" => outcome = "none" /\ main = "exec"
    /\ pc = "idle" /\ pc' = "idle" => outcome' = outcome

\* A step of run_single.
RunSingleStep ==
    \/ RunSingle \/ StartSut \/ SutCreated \/ CallUserCommand \/ RunUserCommand \/ CreateDispatcher \/ ExecEnded
    \/ HandlerEnds \/ Finally \/ FinallyEnds \/ SessionSigint

\* A step of a stopper in Session.stop itself.
StopBody(x) == CallStop(x) \/ FireStopped(x) \/ AwaitRun(x)

\* Whose step it is.
LEMMA StepCases ==
    ASSUME [SessionNext]_allVars
    PROVE  \/ RunSingleStep
           \/ CallExecSuites
           \/ (Runner \/ Sigint) /\ UNCHANGED sessionVars
           \/ \E t \in Threads : StopProcedure(t)
           \/ \E x \in Stoppers : StopBody(x)
           \/ \E x \in Stoppers : StopStep(x) /\ UNCHANGED sessionVars
           \/ UNCHANGED allVars
<1>1. CASE RunSingle \/ SessionSigint
  BY <1>1 DEF RunSingleStep
<1>2. CASE MainStep
  BY <1>2 DEF MainStep, RunSingleStep, Threads
<1>3. ASSUME NEW x \in Stoppers, CallStop(x) \/ SessionStop(x)
      PROVE  \/ \E t \in Threads : StopProcedure(t)
             \/ \E y \in Stoppers : StopBody(y)
             \/ \E y \in Stoppers : StopStep(y) /\ UNCHANGED sessionVars
  BY <1>3 DEF SessionStop, StopBody, Threads
<1>4. CASE Sigint /\ UNCHANGED sessionVars
  BY <1>4
<1>5. CASE UNCHANGED allVars
  BY <1>5
<1> QED
  BY <1>1, <1>2, <1>3, <1>4, <1>5 DEF SessionNext, Terminated

\* A step of run_single does not touch the dispatcher.
LEMMA RunSingleEffect ==
    ASSUME SessionTypeInv, MainInv, RunSingleStep
    PROVE  MainSide /\ UNCHANGED <<pc, outcome, stopPc>>
<1>0. \A x \in Stoppers : x # Main
  BY MainAssumption
<1>1. threadPc \in [Threads -> ThreadPoints] /\ Main \in Threads /\ Stoppers \subseteq Threads
  BY DEF SessionTypeInv, Threads
<1> USE DEF GoTo, Handle, NextPhases, vars, runVars, stopVars, MainSide
<1>2. CASE RunSingle \/ StartSut
  BY <1>0, <1>1, <1>2 DEF RunSingle, StartSut, Uncaught
<1>3. CASE SutCreated \/ CallUserCommand \/ RunUserCommand \/ CreateDispatcher \/ ExecEnded
  BY <1>0, <1>1, <1>3 DEF SutCreated, CallUserCommand, RunUserCommand, CreateDispatcher, Uncaught, ExecEnded
<1>4. CASE HandlerEnds
  BY <1>0, <1>1, <1>4 DEF HandlerEnds
<1>5. CASE Finally
  BY <1>0, <1>1, <1>5 DEF Finally
<1>6. CASE FinallyEnds
  BY <1>0, <1>1, <1>6 DEF FinallyEnds
<1>7. CASE SessionSigint
  BY <1>0, <1>1, <1>7 DEF SessionSigint, SigintTry, SigintCleanup
<1> QED
  BY <1>2, <1>3, <1>4, <1>5, <1>6, <1>7 DEF RunSingleStep

\* So is a step of the dispatcher, run from exec_suites.
LEMMA DispatcherEffect ==
    ASSUME CallExecSuites \/ ((Runner \/ Sigint) /\ UNCHANGED sessionVars)
    PROVE  MainSide /\ UNCHANGED sessionVars
<1> USE DEF sessionVars, mainVars, MainSide
<1>1. CASE CallExecSuites
  BY <1>1 DEF CallExecSuites, ExecSuites, stopVars
<1>2. CASE (Runner \/ Sigint) /\ UNCHANGED sessionVars
  BY <1>2, RunnerEffect DEF stopVars
<1> QED
  BY <1>1, <1>2

\* A step of a stopper in Session.stop.
LEMMA StopBodyEffect ==
    ASSUME NEW x \in Stoppers, StopBody(x)
    PROVE  /\ UNCHANGED <<vars, mainVars, sutRef>>
           /\ fired' \in {fired, fired \cup {"session_stopped"}}
           /\ \E to : /\ threadPc' = [threadPc EXCEPT ![x] = to]
                      /\ \/ threadPc[x] = "idle" /\ to = "all" /\ sutRef
                         \/ threadPc[x] = "idle" /\ to = "ignored"
                         \/ threadPc[x] = "fire" /\ to \in {"locked", "raised"}
                         \/ /\ threadPc[x] = "locked" /\ to = "returned"
                            /\ main \in {"idle", "done"}
                         \/ threadPc[x] = "locked" /\ to = "raised"
BY DEF StopBody, CallStop, FireStopped, AwaitRun, GoTo

\* The stop procedures begin with nothing stopped.
LEMMA StoppersInit == SessionInit => StopInv
<1> SUFFICES ASSUME SessionInit PROVE StopInv
  OBVIOUS
<1>1. \A t \in Threads : threadPc[t] = "idle"
  BY DEF SessionInit
<1>2. \A x \in Stoppers : stopPc[x] = "idle"
  BY DEF SessionInit, Init
<1>3. ~started /\ ~sutRef /\ exitCode = "ok" /\ fired = {}
  BY DEF SessionInit
<1>4. CallersInv
  BY <1>1, <1>2 DEF CallersInv, Threads
<1>5. ReleasedInv
  BY <1>1, <1>3 DEF ReleasedInv
<1>6. OffInv
  BY <1>1, <1>3 DEF OffInv
<1> QED
  BY <1>4, <1>5, <1>6 DEF StopInv

\* What a stopper has done so far is kept.
LEMMA CallersKept ==
    ASSUME TypeOK, SessionTypeInv, MainInv, CallersInv, ReleasedInv, [SessionNext]_allVars
    PROVE  CallersInv'
<1> USE DEF CallersInv
<1>0. /\ threadPc \in [Threads -> ThreadPoints] /\ Stoppers \subseteq Threads
      /\ stopPc \in [Stoppers -> StopPoints]
  BY DEF SessionTypeInv, Threads, TypeOK
<1>1. CASE RunSingleStep \/ CallExecSuites \/ ((Runner \/ Sigint) /\ UNCHANGED sessionVars)
  <2>1. MainSide
    BY <1>1, RunSingleEffect, DispatcherEffect
  <2> QED
    BY <2>1 DEF MainSide
<1>2. ASSUME NEW t \in Threads, StopProcedure(t) PROVE CallersInv'
  <2>1. PICK to : ProcedureStep(t, to) /\ threadPc' = [threadPc EXCEPT ![t] = to]
    BY <1>2, ProcedureEffect
  <2>2. UNCHANGED <<main, started, pc, outcome>>
    BY <1>2, ProcedureEffect DEF mainVars, runVars
  <2>3. t # Main => t \in Stoppers
    BY DEF Threads
  <2>4. ASSUME NEW x \in Stoppers, x # t PROVE threadPc'[x] = threadPc[x] /\ stopPc'[x] = stopPc[x]
    BY <1>0, <2>1, <2>3, <2>4 DEF ProcedureStep
  <2>5. CASE t = Main
    BY <2>2, <2>4, <2>5, MainAssumption
  <2>6. CASE t # Main
    <3>1. t \in Stoppers /\ threadPc'[t] = to
      BY <1>0, <2>1, <2>3, <2>6
    <3>2. /\ threadPc[t] \notin {"idle", "ignored", "returned"}
          /\ to \notin {"idle", "ignored", "returned"}
      BY <2>1, <2>6 DEF ProcedureStep, Over
    <3>3. /\ to \in {"all", "dispatcher"} => stopPc'[t] = "idle"
          /\ to \in {"check", "use", "stopping", "clear"} =>
               stopPc'[t] \in {"idle", "ignored", "stopped"}
          /\ stopPc'[t] \notin {"idle", "ignored"} => pc # "idle" \/ outcome # "none"
          /\ stopPc'[t] \in {"clear", "stopped"} => pc = "idle"
      BY <1>0, <2>1, <3>1 DEF ProcedureStep, Over
    <3> QED
      BY <2>2, <2>4, <3>1, <3>2, <3>3
  <2> QED
    BY <2>5, <2>6
<1>3. ASSUME NEW x \in Stoppers, StopBody(x) PROVE CallersInv'
  <2>1. UNCHANGED <<main, started, pc, outcome, stopPc>>
    BY <1>3, StopBodyEffect DEF mainVars, vars, runVars, stopVars
  <2>2. main = "idle" => threadPc[x] \in {"idle", "ignored"}
    BY DEF MainInv
  <2> QED
    BY <1>0, <1>3, <2>1, <2>2, StopBodyEffect DEF ReleasedInv
<1>4. ASSUME NEW x \in Stoppers, StopStep(x), UNCHANGED sessionVars PROVE CallersInv'
  <2>1. UNCHANGED <<main, started, pc, outcome, threadPc>>
    BY <1>4, StopStepEffect DEF runner, runVars, sessionVars, mainVars
  <2> QED
    BY <1>0, <1>4, <2>1, StopStepEffect
<1>5. CASE UNCHANGED allVars
  BY <1>5 DEF allVars, vars, runVars, stopVars, sessionVars, mainVars
<1> QED
  BY <1>1, <1>2, <1>3, <1>4, <1>5, StepCases

\* Whoever has seen self._sut cleared, it stays cleared.
LEMMA ReleasedKept ==
    ASSUME SessionTypeInv, MainInv, ReleasedInv, [SessionNext]_allVars
    PROVE  ReleasedInv'
<1> USE DEF ReleasedInv
<1>0. threadPc \in [Threads -> ThreadPoints] /\ Main \in Threads /\ Stoppers \subseteq Threads
  BY DEF SessionTypeInv, Threads
<1>1. CASE RunSingle \/ StartSut
  BY <1>0, <1>1 DEF RunSingle, StartSut, Uncaught, Handle, MainInv, Threads
<1>2. CASE SutCreated \/ CallUserCommand \/ RunUserCommand \/ CreateDispatcher \/ ExecEnded
  BY <1>0, <1>2 DEF SutCreated, CallUserCommand, RunUserCommand, CreateDispatcher, Uncaught, ExecEnded, NextPhases, Handle
<1>3. CASE HandlerEnds
  BY <1>0, <1>3 DEF HandlerEnds, GoTo
<1>4. CASE Finally
  BY <1>0, <1>4 DEF Finally, GoTo
<1>5. CASE FinallyEnds
  BY <1>0, <1>5 DEF FinallyEnds
<1>6. CASE SessionSigint
  BY <1>0, <1>6 DEF SessionSigint, SigintTry, SigintCleanup, Handle
<1>7. CASE CallExecSuites \/ ((Runner \/ Sigint) /\ UNCHANGED sessionVars)
  BY <1>7, DispatcherEffect DEF sessionVars, mainVars
<1>8. ASSUME NEW t \in Threads, StopProcedure(t) PROVE ReleasedInv'
  <2>1. PICK to : ProcedureStep(t, to) /\ threadPc' = [threadPc EXCEPT ![t] = to]
    BY <1>8, ProcedureEffect
  <2>2. UNCHANGED <<started, exitCode, fired>>
    BY <1>8, ProcedureEffect DEF mainVars
  <2>3. (sutRef' => sutRef) /\ (to \in {"fire", "locked", "returned"} => ~sutRef')
    BY <2>1 DEF ProcedureStep, Over
  <2> QED
    BY <1>0, <2>1, <2>2, <2>3
<1>9. ASSUME NEW x \in Stoppers, StopBody(x) PROVE ReleasedInv'
  <2>1. UNCHANGED <<started, exitCode, sutRef>>
    BY <1>9, StopBodyEffect DEF mainVars
  <2>2. "session_completed" \in fired' => "session_completed" \in fired
    BY <1>9, StopBodyEffect
  <2> QED
    BY <1>0, <1>9, <2>1, <2>2, StopBodyEffect
<1>10. CASE UNCHANGED sessionVars
  BY <1>10 DEF sessionVars, mainVars
<1> QED
  BY <1>1, <1>2, <1>3, <1>4, <1>5, <1>6, <1>7, <1>8, <1>9, <1>10, StepCases
    DEF RunSingleStep, allVars

\* A thread that has gone past the dispatcher has gone past it for good.
LEMMA PastForGood ==
    ASSUME TypeOK, SessionTypeInv, MainInv, CallersInv, [SessionNext]_allVars,
           NEW x \in Stoppers, PastDispatcher(x)
    PROVE  PastDispatcher(x)'
<1> USE DEF PastDispatcher
<1>0. /\ threadPc \in [Threads -> ThreadPoints] /\ Stoppers \subseteq Threads
      /\ stopPc \in [Stoppers -> StopPoints]
  BY DEF SessionTypeInv, Threads, TypeOK
<1>1. threadPc[x] \notin {"idle", "ignored", "all", "dispatcher"}
  BY DEF CallersInv
<1>2. CASE MainSide
  BY <1>2 DEF MainSide
<1>3. ASSUME NEW t \in Threads, StopProcedure(t) PROVE PastDispatcher(x)'
  <2>1. PICK to : ProcedureStep(t, to) /\ threadPc' = [threadPc EXCEPT ![t] = to]
    BY <1>3, ProcedureEffect
  <2>2. CASE t = x
    <3>1. to \notin {"idle", "ignored", "all", "dispatcher"} /\ stopPc' = stopPc
      BY <1>1, <2>1, <2>2 DEF ProcedureStep, Over
    <3> QED
      BY <1>0, <2>1, <2>2, <3>1
  <2>3. CASE t # x
    BY <1>0, <2>1, <2>3 DEF ProcedureStep
  <2> QED
    BY <2>2, <2>3
<1>4. ASSUME NEW y \in Stoppers, StopBody(y) PROVE PastDispatcher(x)'
  <2>1. UNCHANGED stopPc
    BY <1>4, StopBodyEffect DEF vars, stopVars
  <2> QED
    BY <1>0, <1>1, <1>4, <2>1, StopBodyEffect
<1>5. ASSUME NEW y \in Stoppers, StopStep(y), UNCHANGED sessionVars PROVE PastDispatcher(x)'
  BY <1>0, <1>5, StopStepEffect DEF sessionVars
<1>6. CASE UNCHANGED allVars
  BY <1>6 DEF allVars, vars, stopVars, sessionVars
<1> QED
  BY <1>2, <1>3, <1>4, <1>5, <1>6, StepCases, RunSingleEffect, DispatcherEffect

\* Once the run is over and the main thread has no SUT to start, the SUT stays off.
LEMMA OffForGood ==
    ASSUME TypeOK, SessionTypeInv, MainInv, [SessionNext]_allVars,
           main \notin {"idle", "start"}, sut = "off", Ending
    PROVE  sut' = "off" /\ Ending'
<1> USE DEF Ending
<1>1. CASE RunSingleStep
  <2>1. UNCHANGED <<pc, outcome>>
    BY <1>1, RunSingleEffect
  <2>2. sut' = sut
    BY <1>1 DEF RunSingleStep, RunSingle, StartSut, SutCreated, CallUserCommand, RunUserCommand, CreateDispatcher, Uncaught, ExecEnded,
      HandlerEnds, Finally, FinallyEnds, SessionSigint, SigintTry, SigintCleanup, vars, sutVars
  <2>3. main \in {"error", "interrupt", "finally", "stopping", "done"} =>
           main' \in {"error", "interrupt", "finally", "stopping", "done"}
    BY <1>1 DEF RunSingleStep, RunSingle, StartSut, SutCreated, CallUserCommand, RunUserCommand, CreateDispatcher, Uncaught, ExecEnded,
      HandlerEnds, Finally, FinallyEnds, SessionSigint, SigintTry, SigintCleanup, Handle
  <2> QED
    BY <2>1, <2>2, <2>3
<1>2. CASE CallExecSuites
  BY <1>2 DEF CallExecSuites
<1>3. CASE Runner \/ Sigint
  BY <1>3, RunnerEffect
<1>4. ASSUME NEW t \in Threads, StopProcedure(t) PROVE sut' = "off" /\ Ending'
  <2>1. UNCHANGED <<pc, outcome, main>>
    BY <1>4, ProcedureEffect DEF mainVars, runVars
  <2>2. sut' = "off"
    BY <1>4, ProcedureEffect DEF ProcedureStep
  <2> QED
    BY <2>1, <2>2
<1>5. ASSUME NEW x \in Stoppers, StopBody(x) PROVE sut' = "off" /\ Ending'
  BY <1>5, StopBodyEffect DEF vars, runVars, sutVars, mainVars
<1>6. ASSUME NEW x \in Stoppers, StopStep(x), UNCHANGED sessionVars PROVE sut' = "off" /\ Ending'
  BY <1>6, StopStepEffect DEF runner, runVars, sutVars, sessionVars, mainVars
<1>7. CASE UNCHANGED allVars
  BY <1>7 DEF allVars, vars, runVars, sutVars, sessionVars, mainVars
<1> QED
  BY <1>1, <1>2, <1>3, <1>4, <1>5, <1>6, <1>7, StepCases

\* When a thread turns the SUT off, nobody will start it again.
LEMMA OffIsLast ==
    ASSUME TypeOK, SessionTypeInv, MainInv, StopInv, NoneRanAhead,
           NEW t \in Threads, threadPc[t] = "stopping"
    PROVE  Ending
<1>1. CASE t = Main
  <2>1. main \in {"error", "interrupt", "stopping"}
    BY <1>1 DEF MainInv, SessionTypeInv, MainPoints
  <2> QED
    BY <2>1 DEF MainInv, Ending
<1>2. CASE t # Main
  <2>1. t \in Stoppers
    BY <1>2 DEF Threads
  <2>2. stopPc[t] = "stopped"
    BY <2>1 DEF StopInv, CallersInv, NoneRanAhead, PastDispatcher
  <2> QED
    BY <2>1, <2>2 DEF StopInv, CallersInv, Ending
<1> QED
  BY <1>1, <1>2

\* How a thread comes to clear self._sut, and how it is cleared.
LEMMA WhoClears ==
    ASSUME SessionTypeInv, MainInv, [SessionNext]_allVars
    PROVE  /\ \A t \in Threads : threadPc'[t] = "clear" /\ threadPc[t] # "clear" =>
                /\ threadPc[t] = "stopping" /\ sut' = "off"
                /\ UNCHANGED <<pc, outcome, main>>
           /\ started' /\ ~sutRef' =>
                started /\ (~sutRef \/ \E t \in Threads : threadPc[t] = "clear")
<1>0. threadPc \in [Threads -> ThreadPoints] /\ Main \in Threads /\ Stoppers \subseteq Threads
  BY DEF SessionTypeInv, Threads
<1>1. CASE RunSingleStep
  <2>1. \A x \in Stoppers : threadPc'[x] = threadPc[x]
    BY <1>1, RunSingleEffect DEF MainSide
  <2>2. threadPc'[Main] = "clear" => threadPc[Main] = "clear"
    BY <1>0, <1>1 DEF RunSingleStep, RunSingle, StartSut, SutCreated, CallUserCommand, RunUserCommand, CreateDispatcher, Uncaught, ExecEnded,
      HandlerEnds, Finally, FinallyEnds, SessionSigint, SigintTry, SigintCleanup, Handle, NextPhases,
      GoTo
  <2>3. started' /\ ~sutRef' => started /\ ~sutRef
    BY <1>1 DEF RunSingleStep, RunSingle, StartSut, SutCreated, CallUserCommand, RunUserCommand, CreateDispatcher, Uncaught, ExecEnded,
      HandlerEnds, Finally, FinallyEnds, SessionSigint, MainInv
  <2> QED
    BY <2>1, <2>2, <2>3 DEF Threads
<1>2. CASE CallExecSuites \/ ((Runner \/ Sigint) /\ UNCHANGED sessionVars)
  BY <1>2, DispatcherEffect DEF sessionVars, mainVars
<1>3. CASE \E s \in Threads : StopProcedure(s)
  <2>1. PICK s \in Threads : StopProcedure(s)
    BY <1>3
  <2>2. PICK to : ProcedureStep(s, to) /\ threadPc' = [threadPc EXCEPT ![s] = to]
    BY <2>1, ProcedureEffect
  <2>3. UNCHANGED <<pc, outcome, main, started>>
    BY <2>1, ProcedureEffect DEF mainVars, runVars
  <2>4. to = "clear" => threadPc[s] = "stopping" /\ sut' = "off"
    BY <2>2 DEF ProcedureStep, Over
  <2>5. ~sutRef' => ~sutRef \/ threadPc[s] = "clear"
    BY <2>2 DEF ProcedureStep
  <2> QED
    BY <1>0, <2>2, <2>3, <2>4, <2>5
<1>4. CASE \E x \in Stoppers : StopBody(x)
  <2>1. UNCHANGED <<started, sutRef>>
    BY <1>4, StopBodyEffect DEF mainVars
  <2> QED
    BY <1>0, <1>4, <2>1, StopBodyEffect
<1>5. CASE UNCHANGED sessionVars
  BY <1>5 DEF sessionVars, mainVars
<1> QED
  BY <1>1, <1>2, <1>3, <1>4, <1>5, StepCases DEF allVars

\* Every step keeps what is known of the SUT.
LEMMA OffKept ==
    ASSUME TypeOK, SessionTypeInv, MainInv, StopInv, [SessionNext]_allVars
    PROVE  OffInv'
<1> SUFFICES ASSUME NoneRanAhead'
             PROVE  /\ \A t \in Threads : threadPc'[t] = "clear" => sut' = "off" /\ Ending'
                    /\ started' /\ ~sutRef' => sut' = "off" /\ Ending'
  BY DEF OffInv
<1>1. NoneRanAhead
  BY PastForGood DEF NoneRanAhead, StopInv
<1>2. ASSUME NEW t \in Threads, threadPc[t] = "clear" PROVE sut' = "off" /\ Ending'
  <2>1. main \notin {"idle", "start"}
    BY <1>2 DEF MainInv, Threads
  <2> QED
    BY <1>1, <1>2, <2>1, OffForGood DEF StopInv, OffInv
<1>3. ASSUME NEW t \in Threads, threadPc'[t] = "clear" PROVE sut' = "off" /\ Ending'
  <2>1. CASE threadPc[t] = "clear"
    BY <1>2, <2>1
  <2>2. CASE threadPc[t] # "clear"
    <3>1. threadPc[t] = "stopping" /\ sut' = "off" /\ UNCHANGED <<pc, outcome, main>>
      BY <1>3, <2>2, WhoClears
    <3> QED
      BY <1>1, <3>1, OffIsLast DEF Ending
  <2> QED
    BY <2>1, <2>2
<1>4. ASSUME started', ~sutRef' PROVE sut' = "off" /\ Ending'
  <2>1. started /\ (~sutRef \/ \E t \in Threads : threadPc[t] = "clear")
    BY <1>4, WhoClears
  <2>2. CASE ~sutRef
    <3>1. main \notin {"idle", "start"}
      BY <2>1 DEF MainInv
    <3> QED
      BY <1>1, <2>1, <2>2, <3>1, OffForGood DEF StopInv, OffInv
  <2> QED
    BY <1>2, <2>1, <2>2
<1> QED
  BY <1>3, <1>4

(***************************************************************************)
(* The theorems.                                                           *)
(***************************************************************************)
SessionInv == DispatcherInv /\ SessionTypeInv /\ MainInv /\ EndInv /\ StopInv

\* The dispatcher of a new session is a new one.
LEMMA DispatcherInvInit == SessionInit => DispatcherInv
<1>1. SessionInit => Init
  BY DEF SessionInit
<1> QED
  BY <1>1, AccountInit, OrderInit, EventInit DEF DispatcherInv

\* The conjunction is inductive.
LEMMA SessionStepKeeps ==
    ASSUME SessionInv, [SessionNext]_allVars
    PROVE  SessionInv'
<1> USE DEF SessionInv
<1>1. TypeOK
  BY DEF DispatcherInv, AccountInv, TypeInv
<1>2. DispatcherInv'
  BY DispatcherKept
<1>3. SessionTypeInv' /\ MainInv'
  BY SessionTypeStep, MainKept
<1>4. EndInv'
  BY <1>1, EndKept
<1>5. CallersInv'
  BY <1>1, CallersKept DEF StopInv
<1>6. ReleasedInv'
  BY ReleasedKept DEF StopInv
<1>7. OffInv'
  BY <1>1, OffKept
<1> QED
  BY <1>2, <1>3, <1>4, <1>5, <1>6, <1>7 DEF StopInv

\* It holds of the session.
LEMMA SessionInvHolds == SessionSpec => []SessionInv
<1>1. SessionInit => SessionInv
  BY DispatcherInvInit, SessionTypeInit, MainInit, StoppersInit DEF SessionInv
<1> QED
  BY <1>1, SessionStepKeeps, PTL DEF SessionSpec

\* The type invariant of Session, for every list of suites, any number of
\* threads that call Session.stop, and every bound.
THEOREM SessionTypeCorrect == SessionSpec => []SessionTypeOK
<1>1. SessionInv => SessionTypeOK
  BY DEF SessionInv, DispatcherInv, AccountInv, TypeInv, SessionTypeInv, SessionTypeOK
<1> QED
  BY <1>1, SessionInvHolds, PTL

\* What the dispatcher promises of its report, it promises inside a session too,
\* where other threads stop the SUT under the running tests (session.py, _stop_sut):
\* no test is lost, the results are in order, and they agree with the events.
THEOREM SessionReportSound ==
    SessionSpec => [](EveryTestAccounted /\ ResultsInOrder /\ ReportMatchesEvents)
<1>1. SessionInv => EveryTestAccounted /\ ResultsInOrder /\ ReportMatchesEvents
  <2>1. DispatcherInv => EveryTestAccounted /\ ResultsInOrder
    BY DEF DispatcherInv, AccountInv, OrderInv
  <2>2. DispatcherInv => ReportMatchesEvents
    BY DEF DispatcherInv, AccountInv, EventInv, ReportMatchesEvents, Matches, Keeping, InSuite,
      InTest, Shown
  <2> QED
    BY <2>1, <2>2 DEF SessionInv
<1> QED
  BY <1>1, SessionInvHolds, PTL

\* A session that returns after an error or SIGINT, or that announces its
\* completion, leaves no SUT running unless another thread was stopping it.
THEOREM SessionEndedSutOff == SessionSpec => []EndedStopsSut
<1>1. SessionInv => EndedStopsSut
  <2> SUFFICES ASSUME SessionInv, Undisturbed, started,
                      exitCode \in {"error", "interrupt"} \/ "session_completed" \in fired
               PROVE  sut = "off"
    BY DEF EndedStopsSut
  <2>1. ~sutRef
    BY DEF SessionInv, StopInv, ReleasedInv
  <2>2. NoneRanAhead
    BY DEF SessionInv, StopInv, CallersInv, NoneRanAhead, PastDispatcher, Undisturbed
  <2> QED
    BY <2>1, <2>2 DEF SessionInv, StopInv, OffInv
<1> QED
  BY <1>1, SessionInvHolds, PTL

\* A call of Session.stop that found the dispatcher running and that returns leaves
\* the session ended and the SUT off, however many threads stop the session at once,
\* if none of them went past the dispatcher before it ran.
THEOREM SessionStopped == SessionSpec => []StopStopsSession
<1>1. SessionInv => StopStopsSession
  <2> SUFFICES ASSUME SessionInv, NEW x \in Stoppers, threadPc[x] = "returned", NoneRanAhead
               PROVE  main = "done" /\ sut = "off"
    BY DEF StopStopsSession, NoneRanAhead
  <2>1. main = "done" /\ started
    BY DEF SessionInv, StopInv, CallersInv
  <2>2. ~sutRef
    BY DEF SessionInv, StopInv, ReleasedInv, Threads
  <2> QED
    BY <2>1, <2>2 DEF SessionInv, StopInv, OffInv
<1> QED
  BY <1>1, SessionInvHolds, PTL

\* However exec_suites ended, what it reported reaches the JSON exporter, unless
\* SIGINT cuts the clean-up.
THEOREM SessionReportKept == SessionSpec => []ReportNotLost
<1>1. SessionInv => ReportNotLost
  BY DEF SessionInv, EndInv, ReportNotLost
<1> QED
  BY <1>1, SessionInvHolds, PTL

\* RC_OK means that every test was run to its end, matched skip_tests, or was
\* passed over for stop or SIGINT.
THEOREM SessionOkMeansAllRun == SessionSpec => []OkMeansAllRun
<1>1. SessionInv /\ EveryTestAccounted /\ ResultsInOrder /\ ReportMatchesEvents => OkMeansAllRun
  <2> SUFFICES ASSUME SessionInv, EveryTestAccounted, ResultsInOrder, ReportMatchesEvents,
                      Ended, exitCode = "ok", dispRef,
                      NEW s \in Suites, NEW t \in 1 .. SuiteSize[s]
               PROVE  <<s, t>> \in skip \cup missed \cup completed
    BY DEF OkMeansAllRun, AllTests, TestsOf
  <2>1. outcome = "ok"
    BY DEF SessionInv, EndInv, Ended
  <2>2. s < suite
    <3>1. suite \in Nat /\ Len(SuiteSize) \in Nat
      BY SuitesAssumption DEF SessionInv, DispatcherInv, AccountInv, TypeInv, TypeOK
    <3> QED
      BY <2>1, <3>1 DEF EveryTestAccounted, Suites
  <2>3. Accounted(s, t)
    BY <2>2 DEF EveryTestAccounted
  <2>4. ASSUME HasResult(s, t) PROVE <<s, t>> \in completed
    <3>1. PICK i \in 1 .. Len(lastResults) :
            lastResults[i].suite = s /\ t \in Tested(lastResults[i].tests)
      BY <2>4 DEF HasResult
    <3>2. PICK k \in 1 .. Len(lastResults[i].tests) : lastResults[i].tests[k].test = t
      BY <3>1 DEF Tested
    <3>3. lastResults[i].tests[k].verdict # "skipped"
      BY <2>1 DEF ResultsInOrder, HasSkipped
    <3> QED
      BY <3>1, <3>2, <3>3 DEF ReportMatchesEvents
  <2> QED
    BY <2>3, <2>4 DEF Accounted
<1> QED
  BY <1>1, SessionInvHolds, SessionReportSound, PTL
================================================================================
