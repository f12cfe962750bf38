------------------------------ MODULE Session ------------------------------
(***************************************************************************)
(* Session of src/ltp/session.py composed with its SerialDispatcher and    *)
(* the SUT.  The main thread goes once through run_single, and is the      *)
(* runner of Dispatcher while it is in exec_suites; other threads (the     *)
(* stoppers) may call Session.stop, which calls the dispatcher's stop.     *)
(* Both use _stop_sut, where they share self._sut without a lock.          *)
(***************************************************************************)
EXTENDS Dispatcher

CONSTANT Main     \* the thread of run_single

ASSUME MainAssumption == Main \notin Stoppers

Threads == Stoppers \cup {Main}

VARIABLES
    main,       \* where the main thread is in run_single
    exitCode,   \* exit_code
    raised,     \* whether an exception leaves run_single
    sutRef,     \* whether self._sut is set
    dispRef,    \* whether self._dispatcher is set
    threadPc,   \* where each thread is in stop, _stop_all or _stop_sut
    report,     \* what became of the JSON report
    fired       \* session events that were fired

\* History variable: run_single has obtained a running SUT.
VARIABLE started

mainVars == <<main, exitCode, raised, dispRef, report, started>>
sessionVars == <<mainVars, sutRef, threadPc, fired>>
allVars == <<vars, sessionVars>>

MainPoints == {"idle", "start", "created", "command", "running", "create", "exec",
               "error", "interrupt", "finally", "stopping", "done"}
ThreadPoints == {"idle", "all", "dispatcher", "waiting", "check", "use",
                 "stopping", "clear", "fire", "locked",
                 "ignored", "returned", "raised", "crashed"}
SessionEvents == {"session_started", "session_error", "session_stopped",
                  "session_completed"}

SessionInit ==
    /\ Init
    /\ main = "idle" /\ exitCode = "ok" /\ raised = FALSE
    /\ sutRef = FALSE /\ dispRef = FALSE
    /\ threadPc = [t \in Threads |-> "idle"]
    /\ report = "none" /\ fired = {} /\ started = FALSE

GoTo(t, from, to) ==
    threadPc[t] = from /\ threadPc' = [threadPc EXCEPT ![t] = to]

-----------------------------------------------------------------------------
(* _stop_all and _stop_sut, for the main thread and for the stoppers.      *)

\* What a thread does once _stop_all is over.
Over(t) == IF t = Main THEN "returned" ELSE "fire"

StopAll(t) ==
    /\ GoTo(t, "all", IF sutRef THEN "dispatcher" ELSE Over(t))
    /\ UNCHANGED <<vars, mainVars, sutRef, fired>>

\* When the main thread gets here exec_suites is over, and the stop method of
\* the dispatcher returns at once.
CallDispatcherStop(t) ==
    /\ \/ dispRef /\ t # Main /\ GoTo(t, "dispatcher", "waiting") /\ StopCall(t)
       \/ (~dispRef \/ t = Main) /\ GoTo(t, "dispatcher", "check") /\ UNCHANGED vars
    /\ UNCHANGED <<mainVars, sutRef, fired>>

\* Mutant: a timeout of the dispatcher's stop is never noticed.
DispatcherStoppedOnly(t) ==
    /\ t # Main
    /\ stopPc[t] \in {"ignored", "stopped"} /\ GoTo(t, "waiting", "check")
    /\ UNCHANGED <<vars, mainVars, sutRef, fired>>

DispatcherStopped(t) ==
    /\ t # Main
    /\ \/ stopPc[t] \in {"ignored", "stopped"} /\ GoTo(t, "waiting", "check")
       \/ stopPc[t] = "expired" /\ GoTo(t, "waiting", "raised")
    /\ UNCHANGED <<vars, mainVars, sutRef, fired>>

CheckSut(t) ==
    /\ GoTo(t, "check", IF sutRef THEN "use" ELSE Over(t))
    /\ UNCHANGED <<vars, mainVars, sutRef, fired>>

\* self._sut.name: an AttributeError if another thread has reset self._sut.
UseSut(t) ==
    /\ GoTo(t, "use", IF sutRef THEN "stopping" ELSE "crashed")
    /\ UNCHANGED <<vars, mainVars, sutRef, fired>>

\* self._sut.stop or force_stop, which may fail or time out.
StopSut(t) ==
    /\ \/ ~sutRef /\ GoTo(t, "stopping", "crashed") /\ UNCHANGED sut
       \/ sutRef /\ GoTo(t, "stopping", "clear") /\ sut' = "off"
       \/ sutRef /\ GoTo(t, "stopping", "raised") /\ UNCHANGED sut
    /\ UNCHANGED <<pc, runVars, loopVars, testVars, isHost, taint, stopVars>>
    /\ UNCHANGED <<history, sigints, mainVars, sutRef, fired>>

ClearSut(t) ==
    /\ GoTo(t, "clear", Over(t))
    /\ sutRef' = FALSE
    /\ UNCHANGED <<vars, mainVars, fired>>

StopProcedure(t) ==
    \/ StopAll(t) \/ CallDispatcherStop(t) \/ DispatcherStopped(t)
    \/ CheckSut(t) \/ UseSut(t) \/ StopSut(t) \/ ClearSut(t)

-----------------------------------------------------------------------------
(* Session.stop.                                                           *)

CallStop(x) ==
    /\ GoTo(x, "idle", IF sutRef THEN "all" ELSE "ignored")
    /\ UNCHANGED <<vars, mainVars, sutRef, fired>>

FireStopped(x) ==
    /\ \E to \in {"locked", "raised"} : GoTo(x, "fire", to)
    /\ fired' = fired \cup {"session_stopped"}
    /\ UNCHANGED <<vars, mainVars, sutRef>>

\* Mutant: _lock_run is not waited for.
AwaitRunNot(x) ==
    /\ GoTo(x, "locked", "returned")
    /\ UNCHANGED <<vars, mainVars, sutRef, fired>>

\* _lock_run is held from "start" to "done".
AwaitRun(x) ==
    /\ \/ main \in {"idle", "done"} /\ GoTo(x, "locked", "returned")
       \/ GoTo(x, "locked", "raised")
    /\ UNCHANGED <<vars, mainVars, sutRef, fired>>

SessionStop(x) ==
    \/ StopProcedure(x) \/ FireStopped(x) \/ AwaitRun(x)
    \/ StopStep(x) /\ UNCHANGED sessionVars

-----------------------------------------------------------------------------
(* run_single.                                                             *)

RunSingle ==
    /\ main = "idle"
    /\ main' = "start"
    /\ exitCode' = "ok" /\ sutRef' = FALSE /\ dispRef' = FALSE
    /\ fired' = fired \cup {"session_started"}
    /\ UNCHANGED <<vars, raised, threadPc, report, started>>

\* Mutant: the handlers forget _stop_all.
HandleWithoutStop(kind) ==
    main' = kind /\ threadPc' = [threadPc EXCEPT ![Main] = "returned"]

\* An exception handler begins: _stop_all, then its exit code.
Handle(kind) ==
    main' = kind /\ threadPc' = [threadPc EXCEPT ![Main] = "all"]

\* An error that is no LTPException, and no KeyboardInterrupt, has no except clause.
Uncaught == main' = "finally" /\ raised' = TRUE /\ UNCHANGED threadPc

\* What may follow: a command and suites are optional.
NextPhases(phases) ==
    main' \in phases \cup {"finally"} /\ UNCHANGED <<raised, threadPc>>

\* communicate may fail with the target already powered on; self._sut is
\* assigned when it returns.
StartSut ==
    /\ main = "start"
    /\ \/ sut' = "up" /\ sutRef' = TRUE /\ started' = TRUE
          /\ main' = "created" /\ UNCHANGED <<raised, threadPc>>
       \/ /\ sut' \in {"off", "up", "dead"} /\ UNCHANGED <<sutRef, started>>
          /\ (Handle("error") /\ UNCHANGED raised) \/ Uncaught
    /\ UNCHANGED <<pc, runVars, loopVars, testVars, isHost, taint, stopVars>>
    /\ UNCHANGED <<history, sigints, exitCode, dispRef, report, fired>>

\* self._sut.name: from here on another thread may have reset self._sut, and
\* every use of it is an AttributeError.
SutCreated ==
    /\ main = "created"
    /\ IF sutRef THEN NextPhases({"command", "create"}) ELSE Uncaught
    /\ UNCHANGED <<vars, exitCode, dispRef, report, started, sutRef, fired>>

CallUserCommand ==
    /\ main = "command"
    /\ IF sutRef THEN main' = "running" /\ UNCHANGED <<raised, threadPc>> ELSE Uncaught
    /\ UNCHANGED <<vars, exitCode, dispRef, report, started, sutRef, fired>>

RunUserCommand ==
    /\ main = "running"
    /\ \/ sut = "up" /\ NextPhases({"create"})
       \/ Handle("error") /\ UNCHANGED raised
       \/ Uncaught
    /\ UNCHANGED <<vars, exitCode, dispRef, report, started, sutRef, fired>>

\* The constructor refuses a SUT that is None with a ValueError.
CreateDispatcher ==
    /\ main = "create"
    /\ IF sutRef
       THEN main' = "exec" /\ dispRef' = TRUE /\ UNCHANGED <<raised, threadPc>>
       ELSE Uncaught /\ UNCHANGED dispRef
    /\ UNCHANGED <<vars, exitCode, report, started, sutRef, fired>>

CallExecSuites ==
    /\ main = "exec" /\ outcome = "none"
    /\ \E skipped \in SkipSets : ExecSuites(skipped)
    /\ UNCHANGED sessionVars

\* Mutant: SuiteTimeoutError does not set the exit code.
ExecEndedTimeoutOk ==
    /\ main = "exec" /\ pc = "idle"
    /\ \/ outcome \in {"ok", "timeout"} /\ main' = "finally"
          /\ exitCode' = "ok" /\ UNCHANGED <<raised, threadPc>>
       \/ outcome \in {"ltp", "interrupt"} /\ Handle("error")
          /\ UNCHANGED <<exitCode, raised>>
       \/ outcome = "other" /\ Uncaught /\ UNCHANGED exitCode
    /\ UNCHANGED <<vars, dispRef, report, started, sutRef, fired>>

\* exec_suites has ended.  SuiteTimeoutError has a handler of its own, the
\* other LTPExceptions share one, and an error of another class has none.
ExecEnded ==
    /\ main = "exec" /\ pc = "idle"
    /\ \/ outcome \in {"ok", "timeout"} /\ main' = "finally"
          /\ exitCode' = outcome /\ UNCHANGED <<raised, threadPc>>
       \/ outcome = "ltp" /\ Handle("error") /\ UNCHANGED <<exitCode, raised>>
       \/ outcome = "interrupt" /\ Handle("interrupt") /\ UNCHANGED <<exitCode, raised>>
       \/ outcome = "other" /\ Uncaught /\ UNCHANGED exitCode
    /\ UNCHANGED <<vars, dispRef, report, started, sutRef, fired>>

\* Mutant: no finally clause, so what _stop_all raises skips the report.
HandlerEndsWithoutFinally ==
    /\ main \in {"error", "interrupt"}
    /\ \/ GoTo(Main, "returned", "idle") /\ main' = "finally" /\ exitCode' = main
          /\ fired' = fired \cup
               {IF main = "error" THEN "session_error" ELSE "session_stopped"}
          /\ UNCHANGED raised
       \/ \E bad \in {"raised", "crashed"} : GoTo(Main, bad, "idle")
          /\ main' = "done" /\ raised' = TRUE /\ UNCHANGED <<exitCode, fired>>
    /\ UNCHANGED <<vars, dispRef, report, started, sutRef>>

\* The end of an except clause.  If _stop_all raised, finally runs as well and
\* the exception leaves run_single after it.
HandlerEnds ==
    /\ main \in {"error", "interrupt"}
    /\ main' = "finally"
    /\ \/ GoTo(Main, "returned", "idle") /\ exitCode' = main
          /\ fired' = fired \cup
               {IF main = "error" THEN "session_error" ELSE "session_stopped"}
          /\ UNCHANGED raised
       \/ \E bad \in {"raised", "crashed"} : GoTo(Main, bad, "idle")
          /\ raised' = TRUE /\ UNCHANGED <<exitCode, fired>>
    /\ UNCHANGED <<vars, dispRef, report, started, sutRef>>

\* The finally clause.  Without a dispatcher the SUT is stopped; with one the
\* results, if any, are exported, and the SUT is stopped when every suite has
\* results.  The exporter may refuse to write the file.
Finally ==
    /\ main = "finally"
    /\ \/ ~dispRef /\ main' = "stopping" /\ GoTo(Main, "idle", "check")
          /\ UNCHANGED <<raised, report>>
       \/ dispRef /\ lastResults = <<>> /\ main' = "done"
          /\ UNCHANGED <<raised, report, threadPc>>
       \/ dispRef /\ lastResults # <<>> /\ report' = "saved" /\ UNCHANGED raised
          /\ IF Len(lastResults) = Len(SuiteSize)
             THEN main' = "stopping" /\ GoTo(Main, "idle", "check")
             ELSE main' = "done" /\ UNCHANGED threadPc
       \/ dispRef /\ lastResults # <<>> /\ report' = "failed"
          /\ raised' = TRUE /\ main' = "done" /\ UNCHANGED threadPc
    /\ UNCHANGED <<vars, exitCode, dispRef, started, sutRef, fired>>

FinallyEnds ==
    /\ main = "stopping"
    /\ main' = "done"
    /\ \/ threadPc[Main] = "returned" /\ UNCHANGED raised
          /\ fired' = fired \cup (IF dispRef THEN {"session_completed"} ELSE {})
       \/ threadPc[Main] \in {"raised", "crashed"} /\ raised' = TRUE
          /\ UNCHANGED fired
    /\ UNCHANGED <<vars, exitCode, dispRef, report, started, sutRef, threadPc>>

\* SIGINT outside exec_suites: the except clause for KeyboardInterrupt covers
\* the try clause only.
SigintTry ==
    /\ main \in {"start", "created", "command", "running", "create", "exec"} /\ pc = "idle"
    /\ Handle("interrupt")
    /\ IF main = "start" THEN sut' \in {"off", "up", "dead"} ELSE UNCHANGED sut
    /\ UNCHANGED raised

SigintCleanup ==
    /\ main \in {"error", "interrupt", "finally", "stopping"}
    /\ main' = IF main \in {"error", "interrupt"} THEN "finally" ELSE "done"
    /\ threadPc' = [threadPc EXCEPT ![Main] = "idle"]
    /\ raised' = TRUE
    /\ UNCHANGED sut

SessionSigint ==
    /\ sigints < MaxSigint
    /\ sigints' = sigints + 1
    /\ SigintTry \/ SigintCleanup
    /\ UNCHANGED <<pc, runVars, loopVars, testVars, isHost, taint, stopVars>>
    /\ UNCHANGED <<history, exitCode, dispRef, report, started, sutRef, fired>>

-----------------------------------------------------------------------------
MainStep ==
    \/ StartSut \/ SutCreated \/ CallUserCommand \/ RunUserCommand
    \/ CreateDispatcher \/ CallExecSuites
    \/ Runner /\ UNCHANGED sessionVars
    \/ ExecEnded \/ HandlerEnds \/ Finally \/ FinallyEnds
    \/ StopProcedure(Main)

\* run_single is called once, and each stopper calls Session.stop once.
Terminated ==
    /\ main = "done"
    /\ \A x \in Stoppers : threadPc[x] \in {"ignored", "returned", "raised", "crashed"}
    /\ UNCHANGED allVars

SessionNext ==
    \/ RunSingle
    \/ MainStep
    \/ \E x \in Stoppers : CallStop(x) \/ SessionStop(x)
    \/ Sigint /\ UNCHANGED sessionVars
    \/ SessionSigint
    \/ Terminated

\* A thread inside a call of the SUT (communicate, run_command, the calls of the
\* dispatcher, stop): the call may never return.
WaitsForSut(t) ==
    \/ threadPc[t] = "stopping"
    \/ t = Main /\ main \in {"start", "running"}
    \/ t = Main /\ main = "exec" /\ pc \in SutCalls

\* The threads keep running outside the calls of the SUT; the other waits have
\* timeouts.
SessionFairness ==
    /\ WF_allVars(~WaitsForSut(Main) /\ MainStep)
    /\ \A x \in Stoppers : WF_allVars(~WaitsForSut(x) /\ SessionStop(x))

SessionSpec == SessionInit /\ [][SessionNext]_allVars /\ SessionFairness

-----------------------------------------------------------------------------
SessionTypeOK ==
    /\ TypeOK
    /\ main \in MainPoints
    /\ exitCode \in {"ok", "timeout", "error", "interrupt"}
    /\ raised \in BOOLEAN /\ sutRef \in BOOLEAN /\ dispRef \in BOOLEAN
    /\ threadPc \in [Threads -> ThreadPoints]
    /\ report \in {"none", "saved", "failed"}
    /\ fired \subseteq SessionEvents /\ started \in BOOLEAN

\* run_single returned, as opposed to raised.
Ended == main = "done" /\ ~raised

\* No stopper has got past the first test of Session.stop.
Undisturbed == \A x \in Stoppers : threadPc[x] \in {"idle", "ignored"}

\* A session that was not stopped from another thread leaves no SUT running
\* when it returns after an error or SIGINT, or announces its completion.
EndedStopsSut ==
    Ended /\ started /\ Undisturbed =>
        (exitCode \in {"error", "interrupt"} \/ "session_completed" \in fired
            => sut = "off")

\* The stop procedure of x has gone past a dispatcher that was not running, or
\* not created yet.
PastDispatcher(x) ==
    \/ stopPc[x] = "ignored"
    \/ stopPc[x] = "idle" /\ threadPc[x] \notin {"idle", "ignored", "all", "dispatcher"}

\* A call of Session.stop that found the dispatcher running, and that returns,
\* leaves the session ended and the SUT off, whatever main did meanwhile and however
\* many threads stop the session, if none of them went past the dispatcher before it
\* ran: such a thread stops the SUT under the running tests, whose reboot starts it
\* again, and then clears self._sut, so that nobody else stops it.
\* (stop, _stop_all and _stop_sut.)
StopStopsSession ==
    \A x \in Stoppers :
        /\ threadPc[x] = "returned" /\ stopPc[x] = "stopped"
        /\ \A y \in Stoppers : ~PastDispatcher(y)
        => main = "done" /\ sut = "off"

\* However exec_suites ended, the suites it reported reach the JSON exporter,
\* unless SIGINT cuts the clean-up.
ReportNotLost ==
    main = "done" /\ lastResults # <<>> /\ report = "none" => sigints > 0

\* RC_OK is not a lie: every test was run to its end, matches skip_tests, or was
\* passed over for stop or SIGINT.
OkMeansAllRun ==
    Ended /\ exitCode = "ok" /\ dispRef =>
        AllTests \subseteq skip \cup missed \cup completed

\* run_single ends, and so does every call of Session.stop, unless one of its own
\* calls on the SUT never returns: neither waits for ever for the other, not even
\* when the other is stuck in the SUT.  (run_single, Session.stop and the
\* dispatcher's stop.)
SessionEnds ==
    /\ main = "start" ~> main = "done" \/ []WaitsForSut(Main)
    /\ \A x \in Stoppers :
         threadPc[x] = "all" ~> \/ threadPc[x] \in {"returned", "raised", "crashed"}
                               \/ []WaitsForSut(x)

\* test_session.py:350-355: on RC_TIMEOUT the SUT is stopped.
TimeoutStopsSut == Ended /\ exitCode = "timeout" => sut = "off"

\* session.py:216, "Stop both sut and dispatcher.": not so for two threads.
EveryStopStops ==
    \A x \in Stoppers :
        threadPc[x] = "returned" /\ stopPc[x] = "stopped" => main = "done" /\ sut = "off"

\* session.py:277, ":returns: exit code for the session": stopping the session
\* from another thread does not make run_single's clean-up fail on self._sut being
\* None.
RunSingleReturns == threadPc[Main] # "crashed"
=============================================================================
