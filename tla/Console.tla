------------------------------- MODULE Console -------------------------------
(***************************************************************************)
(* What the user is told of a run: the SerialDispatcher of Dispatcher with *)
(* the counts that _get_test_results makes of each test, the totals of     *)
(* SuiteResults (src/ltp/results.py) and the flags of SimpleUserInterface  *)
(* (ui.py), which collects events until test_completed.  The callbacks     *)
(* come later than the events, but in their order (module Events), and so  *)
(* are taken here with the steps that fire them.                           *)
(***************************************************************************)
EXTENDS Dispatcher, Stdout

CONSTANTS
    Outputs,        \* what a command may leave: a summary or not, counts, return code
    Unnamed         \* the kernel taint values for which TAINED_MSG has no message

Kinds == {"passed", "failed", "broken", "skipped", "warnings"}
Counts == [Kinds -> Nat]

\* _ltp_run makes one user interface and one session, which calls exec_suites once.
ASSUME ConsoleAssumption ==
    /\ MaxExec <= 1
    /\ Outputs \subseteq [summary : BOOLEAN, counts : Counts, retcode : Int]
    /\ Unnamed \subseteq 1 .. MaxTaint

VARIABLES
    writer,         \* the StdoutChecker of the test
    terminal,       \* what VerboseUserInterface prints of a target that boots
    flags,          \* the flags of the user interface that are set
    counts,         \* the counts of the results in tests_results
    current,        \* those of the result that has been announced last
    told,           \* what the user interface has printed of that test
    totals          \* what it has printed of the last suite

\* History variable: what has happened to the test.
VARIABLE happened

uiVars == <<writer, terminal, flags, counts, current, told, totals, happened>>

Troubles == {"timed out", "SUT not responding", "kernel panic"}
Flags == Troubles \cup {"tained"}

Nothing == [k \in Kinds |-> 0]
One(kind) == [Nothing EXCEPT ![kind] = 1]

ConsoleInit ==
    /\ Init
    /\ writer = NewWriter /\ terminal = NewWriter /\ flags = {} /\ counts = <<>>
    /\ current = Nothing /\ told = {} /\ totals = Nothing /\ happened = {}

-----------------------------------------------------------------------------
(* _get_test_results.                                                      *)

\* A test of the old kind says how it went by its return code alone.
OfReturnCode(code) ==
    CASE code = 0 -> One("passed") [] code = 4 -> One("warnings") [] code = 32 -> One("skipped")
      [] OTHER -> One("failed")

OfOutput(output, code) ==
    IF ~output.summary /\ output.counts = Nothing THEN OfReturnCode(code) ELSE output.counts

\* Mutant: a test that timed out is judged by what it has printed.
GetTestResultsOnly(output, brokenTest) ==
    OfOutput(output, IF brokenTest THEN -1 ELSE output.retcode)

GetTestResults(output, brokenTest) ==
    IF brokenTest
    THEN [OfOutput(output, -1) EXCEPT !["broken"] = 1]
    ELSE OfOutput(output, output.retcode)

-----------------------------------------------------------------------------
(* SimpleUserInterface.                                                    *)

\* get_tained_info gives no message for a bit beyond those it knows.
TainedMessage(code) == IF code = 0 \/ code \in Unnamed THEN {} ELSE {"tained"}

Word(c) ==
    CASE c["failed"] > 0 -> "fail"
      [] c["failed"] = 0 /\ c["skipped"] > 0 -> "skip"
      [] c["failed"] = 0 /\ c["skipped"] = 0 /\ c["broken"] > 0 -> "broken"
      [] OTHER -> "pass"

\* The first flag in the order of the code replaces the word and the taint.
Announced(set, c) ==
    CASE "timed out" \in set -> {"timed out"}
      [] "timed out" \notin set /\ "SUT not responding" \in set -> {"SUT not responding"}
      [] set \cap Troubles = {"kernel panic"} -> {"kernel panic"}
      [] OTHER -> {Word(c)} \cup (set \cap {"tained"})

\* Mutant: the flags survive the test.
FlagsKept == flags

FlagsReset == {}

-----------------------------------------------------------------------------
(* The steps of the dispatcher, each with the events it fires.             *)

Raise(event) == flags' = flags \cup event /\ happened' = happened \cup event

NoResult == UNCHANGED <<terminal, counts, current, told, totals>>

\* The writer is of no use after the command.
EndOutput == writer' = NewWriter

\* The target writes a part of the output of the test.
Output ==
    /\ pc = "run" /\ sut = "up"
    /\ CheckerWrites(writer, writer')
    /\ UNCHANGED <<vars, terminal, flags, counts, current, told, totals, happened>>

\* RedirectStdout hands on each chunk of what the rebooted target writes.
BootOutput ==
    /\ pc = "boot"
    /\ PrinterWrites(terminal, terminal')
    /\ UNCHANGED <<vars, writer, flags, counts, current, told, totals, happened>>

ShowTaintBefore ==
    /\ TaintBefore
    /\ flags' = flags \cup TainedMessage(taint) /\ happened' = TainedMessage(taint)
    /\ NoResult /\ UNCHANGED writer

ShowPing ==
    /\ Ping
    /\ Raise(IF pc' = "after" THEN {"timed out"} ELSE {"SUT not responding"})
    /\ NoResult /\ UNCHANGED writer

ShowKernelPanic ==
    /\ KernelPanic /\ Raise({"kernel panic"})
    /\ NoResult /\ EndOutput

ShowTaintAfter ==
    /\ TaintAfter
    /\ Raise(IF before # taint THEN TainedMessage(taint) ELSE {})
    /\ NoResult /\ UNCHANGED writer

ShowTestCompleted ==
    /\ TestCompleted
    /\ \E output \in Outputs : current' = GetTestResults(output, verdict = "broken")
    /\ told' = Announced(flags, current')
    /\ flags' = FlagsReset
    /\ UNCHANGED <<writer, terminal, counts, totals, happened>>

KeepResult ==
    /\ AppendResult /\ counts' = Append(counts, current)
    /\ UNCHANGED <<writer, terminal, flags, current, told, totals, happened>>

KeepSkipped ==
    /\ SkipRemaining /\ counts' = Append(counts, One("skipped"))
    /\ UNCHANGED <<writer, terminal, flags, current, told, totals, happened>>

\* The sums of SuiteResults.
Total(kind) == FoldLeft(LAMBDA sum, c : sum + c[kind], 0, counts)

ShowSuiteCompleted ==
    /\ CollectSuite /\ totals' = [kind \in Kinds |-> Total(kind)]
    /\ UNCHANGED <<writer, terminal, flags, counts, current, told, happened>>

NewSuite ==
    /\ StartSuite /\ counts' = <<>>
    /\ UNCHANGED <<writer, terminal, flags, current, told, totals, happened>>

EndOfCommand ==
    /\ RunCommand \/ CommandTimeout \/ (pc = "run" /\ (SutFails \/ Sigint))
    /\ EndOutput
    /\ UNCHANGED <<terminal, flags, counts, current, told, totals, happened>>

\* The other steps fire events that the user interface prints as they are.
Silently ==
    /\ \/ \E skipped \in SkipSets : sut = "up" /\ ExecSuites(skipped)
       \/ DownloadSuites \/ GetInfo \/ Return \/ LeaveLoop \/ IgnoreTest \/ StartTest
       \/ ForceStopSut \/ BootSut \/ DropEmptySuite
       \/ pc # "run" /\ (SutFails \/ Sigint)
       \/ \E x \in Stoppers : StopCall(x) \/ StopStep(x)
    /\ UNCHANGED uiVars

ConsoleNext ==
    \/ Output \/ BootOutput \/ ShowTaintBefore \/ ShowPing \/ ShowKernelPanic
    \/ ShowTaintAfter \/ ShowTestCompleted \/ KeepResult \/ KeepSkipped \/ ShowSuiteCompleted
    \/ NewSuite \/ EndOfCommand \/ Silently

consoleVars == <<vars, uiVars>>

ConsoleSpec == ConsoleInit /\ [][ConsoleNext]_consoleVars

-----------------------------------------------------------------------------
\* What the user reads of a test is what happened to that test, never to an earlier
\* one: it is in trouble on the terminal exactly if it was, and tainted exactly if
\* get_tained_info said so before it or has changed over it.  Errors of the target,
\* which leave flags behind, end the run before they show; a SIGINT that comes in the
\* first test of its suite need not, and is left out.
\* (SimpleUserInterface.test_completed, _run_test and _run_suite.)
ToldWhatHappened ==
    pc \in {"reboot", "boot", "append"} /\ sigints = 0 =>
        /\ told \cap Troubles = happened \cap Troubles
        /\ happened \cap Troubles = {} => told \cap {"tained"} = happened

\* No trouble disappears in the totals of a suite: they count as broken every test
\* that timed out, hung or crashed the kernel, whatever it had printed, and as
\* skipped every test that was not run.  (_get_test_results, SuiteResults.)
TroubleShown ==
    LET last == lastResults[Len(lastResults)].tests
        With(v) == Cardinality({k \in DOMAIN last : last[k].verdict = v})
    IN  lastResults # <<>> =>
            /\ totals["broken"] >= With("broken")
            /\ totals["skipped"] >= With("skipped")

\* A newline of the test's output fires one test_stdout_line, however the output is
\* cut into chunks.  Of a target that boots at least a line per newline is printed,
\* and at most one more per other line break, which ends a line for splitlines, too.
\* What a line carries is at least the end of what there was to give out.
\* (StdoutChecker.write, _print_stdout.)
OneEventPerLine ==
    /\ writer.fired = writer.newlines /\ writer.ends
    /\ terminal.fired \in terminal.newlines .. terminal.newlines + terminal.breaks
    /\ terminal.ends

\* ui.py, _print_stdout: "Print stdout coming from command run or test."  Not so: of
\* a line that comes in several chunks both writers may give out the last part only.
NothingLost == writer.whole /\ terminal.whole
=============================================================================
