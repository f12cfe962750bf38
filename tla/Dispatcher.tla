----------------------------- MODULE Dispatcher -----------------------------
(***************************************************************************)
(* SerialDispatcher of src/ltp/dispatcher.py: the thread that calls        *)
(* exec_suites (the runner) walks the tests of the suites one after the    *)
(* other on one SUT; other threads (the stoppers) may call stop() at any   *)
(* time; SIGINT reaches the runner as a KeyboardInterrupt.                 *)
(*                                                                         *)
(* A step of the runner goes from one point where another thread, the SUT  *)
(* or a signal can matter to the next one: `pc' names that point.          *)
(***************************************************************************)
EXTENDS Integers, Sequences

CONSTANTS
    Stoppers,     \* threads that may call stop()
    SuiteSize,    \* SuiteSize[s] = number of tests in the s-th suite
    SkipSets,     \* what the skip_tests expression may match
    MaxExec,      \* bound on the calls of exec_suites
    MaxSigint,    \* bound on the signals
    MaxTaint      \* bound on the kernel taint value

Suites == 1 .. Len(SuiteSize)
TestsOf(s) == {<<s, t>> : t \in 1 .. SuiteSize[s]}
AllTests == UNION {TestsOf(s) : s \in Suites}

\* exec_suites refuses an empty list; a runtest file may hold only comments.
ASSUME SuitesAssumption ==
    /\ SuiteSize \in Seq(Nat)
    /\ Len(SuiteSize) > 0
    /\ \A skipped \in SkipSets : skipped \subseteq AllTests
    /\ MaxExec \in Nat /\ MaxSigint \in Nat /\ MaxTaint \in Nat

VARIABLES
    pc,            \* where the runner is; "idle" outside exec_suites
    outcome,       \* how the last exec_suites ended
    skip,          \* tests that skip_tests matches
    lastResults,   \* self._last_results
    suite, test,   \* positions in the two for loops
    testsResults,  \* tests_results of _run_suite
    timedOut,      \* timed_out of _run_suite
    interrupt,     \* interrupt of _run_suite
    before,        \* tained_code_before of _run_test
    verdict,       \* what timed_out of _run_test makes of the result
    reboot,        \* reboot of _run_test
    isHost,        \* whether sut.name = "host"
    sut, taint,    \* the target: power state and kernel taint value
    stop,          \* self._stop
    stopPc,        \* where each stopper is in stop()
    execs, sigints \* counters for the bounds

\* History variables: the properties read them, no action does.
VARIABLES
    completed,     \* tests of this run that fired test_completed
    missed,        \* tests passed over because of stop() or SIGINT
    baseTaint      \* taint value when exec_suites was called

loopVars == <<suite, test, testsResults, timedOut, interrupt>>
testVars == <<before, verdict, reboot>>
runVars  == <<outcome, skip, lastResults, execs, baseTaint>>
sutVars  == <<isHost, sut, taint>>
stopVars == <<stop, stopPc>>
history  == <<completed, missed>>
vars == <<pc, runVars, loopVars, testVars, sutVars, stopVars, history, sigints>>

-----------------------------------------------------------------------------
InTest == {"taint", "run", "ping", "after", "report", "reboot", "boot", "append"}
Points == {"idle", "download", "info", "suite", "next", "collect"} \cup InTest

\* Where the runner is inside a call on the SUT, for as long as the call takes.
SutCalls == {"download", "info", "taint", "run", "ping", "after", "reboot", "boot"}

Outcomes == {"none", "ok", "timeout", "interrupt", "ltp", "other"}
Verdicts == {"done", "broken", "skipped"}
StopPoints == {"idle", "set", "poll", "sleep", "clear", "expire",
               "ignored", "stopped", "expired"}

Results == [test : Nat, verdict : Verdicts]
SuiteResults == [suite : Suites, tests : Seq(Results)]

\* is_running: exec_suites holds _exec_lock from its first step to its last.
IsRunning == pc # "idle"

\* exec_suites ends: the lock is released and last_results stays as it is.
Leave(how) == pc' = "idle" /\ outcome' = how

\* What a call on the SUT raises goes up to the caller of exec_suites: an
\* LTPException, or another error that no except clause of the dispatcher knows
\* (the ValueError of an int() of the taint file, the EOFError of an SSH
\* connection, the OSError of /dev/kmsg before a test).
SutRaises == Leave("ltp") \/ Leave("other")

Init ==
    /\ pc = "idle" /\ outcome = "none" /\ skip = {}
    /\ lastResults = <<>>
    /\ suite = 1 /\ test = 1 /\ testsResults = <<>>
    /\ timedOut = FALSE /\ interrupt = FALSE
    /\ before = 0 /\ verdict = "done" /\ reboot = FALSE
    /\ isHost \in BOOLEAN /\ sut = "up" /\ taint \in 0 .. MaxTaint
    /\ stop = FALSE /\ stopPc = [x \in Stoppers |-> "idle"]
    /\ execs = 0 /\ sigints = 0
    /\ completed = {} /\ missed = {} /\ baseTaint = taint

-----------------------------------------------------------------------------
\* exec_suites up to the download.
ExecSuites(skipped) ==
    /\ pc = "idle" /\ execs < MaxExec
    /\ pc' = "download"
    /\ outcome' = "none" /\ skip' = skipped
    /\ lastResults' = <<>>
    /\ suite' = 1
    /\ execs' = execs + 1
    /\ completed' = {} /\ missed' = {} /\ baseTaint' = taint
    /\ UNCHANGED <<test, testsResults, timedOut, interrupt>>
    /\ UNCHANGED <<testVars, sutVars, stopVars, sigints>>

\* _download_suites: fetch_file may fail, and read_runtest refuses a file it
\* cannot parse with a ValueError.
DownloadSuites ==
    /\ pc = "download"
    /\ \/ pc' = "info" /\ UNCHANGED outcome
       \/ SutRaises
    /\ UNCHANGED <<skip, lastResults, execs, baseTaint>>
    /\ UNCHANGED <<loopVars, testVars, sutVars, stopVars, history, sigints>>

GetInfo ==
    /\ pc = "info"
    /\ \/ pc' = "suite" /\ UNCHANGED outcome
       \/ SutRaises
    /\ UNCHANGED <<skip, lastResults, execs, baseTaint>>
    /\ UNCHANGED <<loopVars, testVars, sutVars, stopVars, history, sigints>>

StartSuite ==
    /\ pc = "suite" /\ suite <= Len(SuiteSize)
    /\ pc' = "next"
    /\ test' = 1 /\ testsResults' = <<>>
    /\ timedOut' = FALSE /\ interrupt' = FALSE
    /\ UNCHANGED suite
    /\ UNCHANGED <<runVars, testVars, sutVars, stopVars, history, sigints>>

Return ==
    /\ pc = "suite" /\ suite > Len(SuiteSize)
    /\ Leave("ok")
    /\ UNCHANGED <<skip, lastResults, execs, baseTaint>>
    /\ UNCHANGED <<loopVars, testVars, sutVars, stopVars, history, sigints>>

-----------------------------------------------------------------------------
(* The loop of _run_suite over suite.tests.                                *)

\* Mutant: one test too many.
NoTestLeftLate == test > SuiteSize[suite] + 1

NoTestLeft == test > SuiteSize[suite]

LeaveLoop ==
    /\ pc = "next" /\ (stop \/ NoTestLeft)
    /\ pc' = "collect"
    /\ missed' = missed \cup {<<suite, t>> : t \in test .. SuiteSize[suite]}
    /\ UNCHANGED <<runVars, loopVars, testVars, sutVars, stopVars, completed, sigints>>

SkipRemaining ==
    /\ pc = "next" /\ ~stop /\ ~NoTestLeft
    /\ timedOut \/ interrupt
    /\ testsResults' = Append(testsResults, [test |-> test, verdict |-> "skipped"])
    /\ test' = test + 1
    /\ UNCHANGED <<pc, suite, timedOut, interrupt>>
    /\ UNCHANGED <<runVars, testVars, sutVars, stopVars, history, sigints>>

\* Mutant: a loop by index that does not advance over an ignored test.
IgnoreTestForever ==
    /\ pc = "next" /\ ~stop /\ ~NoTestLeft
    /\ ~timedOut /\ ~interrupt /\ <<suite, test>> \in skip
    /\ UNCHANGED vars

IgnoreTest ==
    /\ pc = "next" /\ ~stop /\ ~NoTestLeft
    /\ ~timedOut /\ ~interrupt /\ <<suite, test>> \in skip
    /\ test' = test + 1
    /\ UNCHANGED <<pc, suite, testsResults, timedOut, interrupt>>
    /\ UNCHANGED <<runVars, testVars, sutVars, stopVars, history, sigints>>

StartTest ==
    /\ pc = "next" /\ ~stop /\ ~NoTestLeft
    /\ ~timedOut /\ ~interrupt /\ <<suite, test>> \notin skip
    /\ pc' = "taint"
    /\ UNCHANGED <<runVars, loopVars, testVars, sutVars, stopVars, history, sigints>>

\* The wall clock is read after every test: it may be past suite_timeout.
ReadClock == timedOut' \in {timedOut, TRUE}

-----------------------------------------------------------------------------
(* _run_test: any call on the SUT may fail.  Nothing looks at the state of  *)
(* the target before a test; that only a live target answers (sut = "up") is   *)
(* the target's doing, and a call on any other one fails or never ends.    *)

SutFails ==
    /\ pc \in {"taint", "run", "ping", "after"}
    /\ SutRaises
    /\ UNCHANGED <<skip, lastResults, execs, baseTaint>>
    /\ UNCHANGED <<loopVars, testVars, sutVars, stopVars, history, sigints>>

TaintBefore ==
    /\ pc = "taint" /\ sut = "up"
    /\ pc' = "run"
    /\ before' = taint /\ verdict' = "done" /\ reboot' = FALSE
    /\ UNCHANGED <<runVars, loopVars, sutVars, stopVars, history, sigints>>

RunCommand ==
    /\ pc = "run" /\ sut = "up"
    /\ pc' = "after"
    /\ taint' \in taint .. MaxTaint
    /\ UNCHANGED <<runVars, loopVars, testVars, isHost, sut, stopVars, history, sigints>>

\* The command outlives test_timeout, on a live target or on a hung one.
CommandTimeout ==
    /\ pc = "run"
    /\ pc' = "ping" /\ verdict' = "broken"
    /\ taint' \in taint .. MaxTaint
    /\ sut' \in IF isHost \/ sut # "up" THEN {sut} ELSE {"up", "dead"}
    /\ UNCHANGED <<runVars, loopVars, before, reboot, isHost, stopVars, history, sigints>>

\* Mutant: reboot as soon as the panic is recognised, before test_completed.
KernelPanicUnannounced ==
    /\ pc = "run" /\ sut = "up"
    /\ pc' = IF isHost THEN "append" ELSE "reboot"
    /\ verdict' = "broken" /\ reboot' = TRUE
    /\ sut' \in IF isHost THEN {"up"} ELSE {"up", "dead"}
    /\ UNCHANGED <<runVars, loopVars, before, isHost, taint, stopVars, history, sigints>>

\* "Kernel panic" in the output, which a test may also print by itself.
KernelPanic ==
    /\ pc = "run" /\ sut = "up"
    /\ pc' = "report" /\ verdict' = "broken" /\ reboot' = TRUE
    /\ sut' \in IF isHost THEN {"up"} ELSE {"up", "dead"}
    /\ UNCHANGED <<runVars, loopVars, before, isHost, taint, stopVars, history, sigints>>

Ping ==
    /\ pc = "ping"
    /\ \/ sut = "up" /\ pc' = "after" /\ UNCHANGED reboot
       \/ pc' = "report" /\ reboot' = TRUE
    /\ UNCHANGED <<runVars, loopVars, before, verdict, sutVars, stopVars, history, sigints>>

TaintAfter ==
    /\ pc = "after" /\ sut = "up"
    /\ pc' = "report"
    /\ reboot' = (before # taint)
    /\ UNCHANGED <<runVars, loopVars, before, verdict, sutVars, stopVars, history, sigints>>

\* Mutant: no reboot after a kernel panic or a target that does not answer.
RebootDueUnlessBroken == reboot /\ ~isHost /\ verdict # "broken"

RebootDue == reboot /\ ~isHost

\* test_completed is fired before the reboot and before the result is kept.
TestCompleted ==
    /\ pc = "report"
    /\ completed' = completed \cup {<<suite, test>>}
    /\ pc' = IF RebootDue THEN "reboot" ELSE "append"
    /\ UNCHANGED <<runVars, loopVars, testVars, sutVars, stopVars, missed, sigints>>

\* _reboot_sut: force_stop, then communicate.
ForceStopSut ==
    /\ pc = "reboot"
    /\ \/ pc' = "boot" /\ sut' = "off" /\ UNCHANGED outcome
       \/ SutRaises /\ UNCHANGED sut
    /\ UNCHANGED <<skip, lastResults, execs, baseTaint, isHost, taint>>
    /\ UNCHANGED <<loopVars, testVars, stopVars, history, sigints>>

BootSut ==
    /\ pc = "boot"
    /\ \/ pc' = "append" /\ sut' = "up" /\ taint' = 0 /\ UNCHANGED outcome
       \/ SutRaises /\ sut' \in {"off", "dead"} /\ UNCHANGED taint
    /\ UNCHANGED <<skip, lastResults, execs, baseTaint, isHost>>
    /\ UNCHANGED <<loopVars, testVars, stopVars, history, sigints>>

AppendResult ==
    /\ pc = "append"
    /\ pc' = "next"
    /\ testsResults' = Append(testsResults, [test |-> test, verdict |-> verdict])
    /\ test' = test + 1
    /\ ReadClock
    /\ UNCHANGED <<suite, interrupt>>
    /\ UNCHANGED <<runVars, testVars, sutVars, stopVars, history, sigints>>

-----------------------------------------------------------------------------
(* The end of _run_suite.                                                  *)

DropEmptySuite ==
    /\ pc = "collect" /\ testsResults = <<>>
    /\ pc' = "suite" /\ suite' = suite + 1
    /\ UNCHANGED <<test, testsResults, timedOut, interrupt>>
    /\ UNCHANGED <<runVars, testVars, sutVars, stopVars, history, sigints>>

\* Mutant: results lost on a timeout.
CollectedUnlessTimeout ==
    IF timedOut THEN lastResults
    ELSE Append(lastResults, [suite |-> suite, tests |-> testsResults])

Collected == Append(lastResults, [suite |-> suite, tests |-> testsResults])

\* Mutant: the suite timeout is noticed but not raised.
SuiteEndGoingOn == IF interrupt THEN "interrupt" ELSE "none"

\* What _run_suite raises once the results are kept.
SuiteEnd ==
    IF interrupt THEN "interrupt" ELSE IF timedOut THEN "timeout" ELSE "none"

CollectSuite ==
    /\ pc = "collect" /\ testsResults # <<>>
    /\ lastResults' = Collected
    /\ \/ SuiteEnd # "none" /\ Leave(SuiteEnd) /\ UNCHANGED suite
       \/ SuiteEnd = "none" /\ pc' = "suite" /\ suite' = suite + 1 /\ UNCHANGED outcome
    /\ UNCHANGED <<test, testsResults, timedOut, interrupt>>
    /\ UNCHANGED <<skip, execs, baseTaint>>
    /\ UNCHANGED <<testVars, sutVars, stopVars, history, sigints>>

(* SIGINT: inside _run_test the handler of _run_suite postpones it, and    *)
(* the loop reads the clock and goes on; anywhere else it ends the run.    *)

PostponeSigint ==
    /\ pc \in InTest
    /\ pc' = "next" /\ interrupt' = TRUE
    /\ missed' = missed \cup {<<suite, test>>}
    /\ test' = test + 1
    /\ ReadClock
    /\ UNCHANGED <<runVars, suite, testsResults, completed>>

RaiseSigint ==
    /\ pc \notin InTest \cup {"idle"}
    /\ Leave("interrupt")
    /\ UNCHANGED <<skip, lastResults, execs, baseTaint, loopVars, history>>

Sigint ==
    /\ sigints < MaxSigint
    /\ sigints' = sigints + 1
    /\ PostponeSigint \/ RaiseSigint
    /\ UNCHANGED <<testVars, sutVars, stopVars>>

-----------------------------------------------------------------------------
(* stop(), called by another thread.                                       *)

SetStopPc(x, from, to) ==
    stopPc[x] = from /\ stopPc' = [stopPc EXCEPT ![x] = to]

runner == <<pc, runVars, loopVars, testVars, sutVars, history, sigints>>

StopCall(x) ==
    /\ \E from \in {"idle", "ignored", "stopped", "expired"} :
         SetStopPc(x, from, IF IsRunning THEN "set" ELSE "ignored")
    /\ UNCHANGED <<runner, stop>>

StopSet(x) ==
    /\ SetStopPc(x, "set", "poll")
    /\ stop' = TRUE
    /\ UNCHANGED runner

StopPoll(x) ==
    /\ SetStopPc(x, "poll", IF IsRunning THEN "sleep" ELSE "clear")
    /\ UNCHANGED <<runner, stop>>

\* The turns of the waiting loop: it ends when the run has ended or when the
\* timer, read after every sleep, has run out; the run may have ended meanwhile.
StopSleep(x) ==
    /\ \/ ~IsRunning /\ SetStopPc(x, "sleep", "clear")
       \/ SetStopPc(x, "sleep", "expire")
    /\ UNCHANGED <<runner, stop>>

\* Mutant: the flag is cleared on the normal path only, not in a finally clause.
StopClearUnlessExpired(x) ==
    /\ \/ SetStopPc(x, "clear", "stopped") /\ stop' = FALSE
       \/ SetStopPc(x, "expire", "expired") /\ UNCHANGED stop
    /\ UNCHANGED runner

\* The finally clause, on the normal path and on the error path.
StopClear(x) ==
    /\ \/ SetStopPc(x, "clear", "stopped")
       \/ SetStopPc(x, "expire", "expired")
    /\ stop' = FALSE
    /\ UNCHANGED runner

-----------------------------------------------------------------------------
RunTest ==
    \/ SutFails \/ TaintBefore \/ RunCommand \/ CommandTimeout \/ KernelPanic
    \/ Ping \/ TaintAfter \/ TestCompleted \/ ForceStopSut \/ BootSut
    \/ AppendResult

RunSuite ==
    \/ StartSuite \/ LeaveLoop \/ SkipRemaining \/ IgnoreTest \/ StartTest
    \/ RunTest \/ DropEmptySuite \/ CollectSuite

Runner == DownloadSuites \/ GetInfo \/ RunSuite \/ Return

StopStep(x) == StopSet(x) \/ StopPoll(x) \/ StopSleep(x) \/ StopClear(x)

\* The caller of exec_suites has started the SUT.
Next ==
    \/ sut = "up" /\ \E skipped \in SkipSets : ExecSuites(skipped)
    \/ Runner
    \/ Sigint
    \/ \E x \in Stoppers : StopCall(x) \/ StopStep(x)

\* A running thread keeps running, so a stop() that waits sees its timer run
\* out.  Nobody has to call anything, and a call on the SUT may never return
\* (HostSUT reads for ever from a pipe that something else holds open).
Fairness ==
    /\ WF_vars(pc \notin SutCalls /\ Runner)
    /\ \A x \in Stoppers : WF_vars(StopStep(x))

Spec == Init /\ [][Next]_vars /\ Fairness

-----------------------------------------------------------------------------
TypeOK ==
    /\ pc \in Points /\ outcome \in Outcomes
    /\ skip \subseteq AllTests
    /\ lastResults \in Seq(SuiteResults)
    /\ suite \in Nat \ {0} /\ test \in Nat \ {0}
    /\ testsResults \in Seq(Results)
    /\ timedOut \in BOOLEAN /\ interrupt \in BOOLEAN
    /\ before \in Nat /\ verdict \in {"done", "broken"} /\ reboot \in BOOLEAN
    /\ isHost \in BOOLEAN /\ sut \in {"up", "dead", "off"} /\ taint \in Nat /\ baseTaint \in Nat
    /\ stop \in BOOLEAN /\ stopPc \in [Stoppers -> StopPoints]
    /\ execs \in Nat /\ sigints \in Nat
    /\ completed \subseteq AllTests /\ missed \subseteq AllTests

Tested(results) == {results[k].test : k \in 1 .. Len(results)}

HasReport(s) == \E i \in 1 .. Len(lastResults) : lastResults[i].suite = s

HasResult(s, t) ==
    \E i \in 1 .. Len(lastResults) :
        lastResults[i].suite = s /\ t \in Tested(lastResults[i].tests)

Accounted(s, t) == HasResult(s, t) \/ <<s, t>> \in skip \cup missed

\* No test is lost by the two loops: once the run has gone past a suite, or has
\* reported it, every test of the suite has a result, matches skip_tests, or was
\* passed over for stop() or SIGINT; a run that returns has gone past all the
\* suites, and one that raises SuiteTimeoutError has reported the suite.
EveryTestAccounted ==
    /\ \A s \in Suites : s < suite \/ HasReport(s) =>
         \A t \in 1 .. SuiteSize[s] : Accounted(s, t)
    /\ outcome = "ok" => suite > Len(SuiteSize)
    /\ outcome = "timeout" => HasReport(suite)

Ordered(results) ==
    \A k, l \in 1 .. Len(results) : k < l =>
        /\ results[k].test < results[l].test
        /\ results[k].verdict = "skipped" => results[l].verdict = "skipped"

HasSkipped(i) ==
    \E k \in 1 .. Len(lastResults[i].tests) : lastResults[i].tests[k].verdict = "skipped"

\* Suites and tests are reported at most once and in the order of the runtest
\* files.  Skipped results are the end of the last suite, and of the run, which does
\* not return then: it raises SuiteTimeoutError or KeyboardInterrupt.
\* (exec_suites and _run_suite.)
ResultsInOrder ==
    /\ \A i, j \in 1 .. Len(lastResults) :
         i < j => lastResults[i].suite < lastResults[j].suite
    /\ \A i \in 1 .. Len(lastResults) :
         /\ Ordered(lastResults[i].tests)
         /\ HasSkipped(i) => i = Len(lastResults) /\ outcome \in {"timeout", "interrupt"}

\* The report and the test_completed events that the user interface has shown
\* agree: a result that is not "skipped" was announced, a skipped one was not,
\* and without SIGINT a run that returns or that times out keeps every
\* announced result.
ReportMatchesEvents ==
    /\ \A i \in 1 .. Len(lastResults) :
         \A k \in 1 .. Len(lastResults[i].tests) :
           LET r == lastResults[i].tests[k]
           IN  r.verdict # "skipped" <=> <<lastResults[i].suite, r.test>> \in completed
    /\ outcome \in {"ok", "timeout"} /\ sigints = 0 =>
         \A c \in completed : HasResult(c[1], c[2])

\* Without SIGINT no test is started on a target that a previous test crashed,
\* hung or tainted: it was rebooted first, so the first call that the test makes
\* on it meets a target that is up.  The host is never rebooted.
HealthyStart ==
    pc = "taint" /\ ~isHost /\ sigints = 0 =>
        sut = "up" /\ taint \in {0, baseTaint}

\* A stop request does not outlive the calls of stop() that made it, so it
\* cannot cut a run that starts after they returned.
NoStaleStop == stop => \E x \in Stoppers : stopPc[x] \in {"poll", "sleep", "clear", "expire"}

\* Every run ends, whatever the tests, the stoppers and SIGINT do, unless one of
\* its calls on the SUT never returns: the loops add no way not to end.
ExecEnds == IsRunning ~> ~IsRunning \/ [](pc \in SutCalls)

\* The comment at dispatcher.py:481: SIGINT is postponed, not forgotten.
InterruptNotSwallowed == outcome = "ok" => sigints = 0
=============================================================================
