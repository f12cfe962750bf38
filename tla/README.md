# Verification of runltp-ng

TLA+ models of runltp-ng, the Python program that runs the Linux Test Project
suites on a target (the SUT, *system under test*), checked with TLC on small
instances; all their safety properties are also proved with TLAPS, for all values
of the constants. Paths are relative to the repository (`src/` here); line numbers
refer to the commit in `src/`.

## The system

| Component | Source | State | Operations |
|---|---|---|---|
| Command line | `src/ltp/main.py` | arguments, `LOADED_SUT` | parse, discover SUTs, `_ltp_run` |
| Session | `src/ltp/session.py` | `_sut`, `_dispatcher`, `_lock_run` | `run_single`, `stop` |
| SerialDispatcher | `src/ltp/dispatcher.py` | `_stop`, `_exec_lock`, `_last_results`, loop variables | `exec_suites`, `stop`, `last_results` |
| Result parsing | `src/ltp/dispatcher.py` | the pending line (`_line`), `stdout` | `StdoutChecker.write`, `_get_test_results` |
| HostSUT | `src/ltp/host.py` | `_initialized`, `_proc`, `_stop`, two locks | `communicate`, `run_command`, `fetch_file`, `stop`, `force_stop` |
| QemuSUT | `src/ltp/qemu.py` | `_proc`, `_logged_in`, `_stop`, `_last_pos`, three locks | the same, and `ping` |
| SSHSUT | `src/ltp/ssh.py` | `_client` and its transport, `_stop`, three locks | the same, `_reset` |
| SUT base class | `src/ltp/sut.py` | none | `get_info`, `get_tained_info` |
| EventsHandler | `src/ltp/__init__.py` | `_events`, `_tasks`, `_stop`, `_loop` | `register`, `fire`, `start_event_loop`, `stop_event_loop` |
| User interface | `src/ltp/ui.py` | flags of the current test, the pending line | event callbacks |
| TempDir | `src/ltp/tempfile.py` | directories, `latest` link | rotate, `mkdir`, `mkfile` |
| JSONExporter | `src/ltp/export.py` | none | `save_file` |
| Runtest reader | `src/ltp/data.py` | none | `read_runtest` |
| Results | `src/ltp/results.py` | lists of results | sums |
| Timeout | `src/ltp/utils.py` | end of the delay | `check` |

**How they interact.** `_ltp_run` (main.py:166-190) starts the event loop,
creates a user interface, which registers its callbacks, calls
`Session.run_single` and, when it returns, stops the event loop and exits.
`run_single` creates and starts the SUT, runs a command and/or creates a
`SerialDispatcher` and calls `exec_suites`; its `except` and `finally` clauses
map what happened to an exit code, save the report and stop the SUT. The
dispatcher downloads the suites from the SUT, runs one test after the other,
reboots the SUT when a test has panicked, hung or tainted it, and collects the
results. Everybody tells the user interface what happens by firing events:
`fire` puts the callbacks on a queue that the event loop, a daemon thread, works
off. Several `runltp` processes of one user share the directory in which
`TempDir` rotates, and may be given the same path for the report.

**Threads.** The main thread runs `run_single` and everything below it, and
gets SIGINT as a `KeyboardInterrupt` at whatever line it is. The event loop is
a second thread. `Session.stop`, which stops the dispatcher and the SUT, may be
called from any other thread, as the tests do. There is hardly a lock that
protects data: locks mark what is running, and the `stop` functions poll them.

### What is hard here

* A stop request may meet `run_single`, `exec_suites`, a command, a transfer or
  a boot at any line, and shares flags (`_stop`), references (`_sut`, `_proc`)
  and results with it.
* Two loops with five ways to pass over a test (skipped by expression, after a
  suite timeout, after SIGINT, by `stop`, by an error) have to account for all
  tests, over all suites.
* SIGINT is caught in the middle of a test and raised again much later.
* A target that has gone bad must not see another test, also when the next test
  is in another suite.
* Errors occur in clean-up code, which has several things to do.
* Everything has timeouts, and the code after a timeout is the least tested.
* A connection may be lost, or closed by a stop, at any point of what goes on
  over it, and the two must not be taken for each other.
* What the user reads is put together from many events: flags collected until a
  test is over, counts summed up, lines cut from chunks of any size.
* Processes share files without locks, and a process that is killed leaves
  them as they are.

### What makes each component correct

* *Dispatcher*: every test is accounted for, once and in order; the report
  agrees with the events; tests start on a healthy target; stop requests do not
  go stale; every run ends.
* *Session*: an ended session leaves no SUT running; a stop that found
  something to stop ends the session; the results collected so far are saved;
  exit codes tell the truth; it ends.
* *SUTs*: a stop that succeeds has stopped what was running; timeouts stop what
  they time; output and files are complete unless a stop cut them; all calls
  return.
* *EventsHandler*: each fired event reaches each callback once, in order; the
  loop ends when it is told to and not before.
* *TempDir*: directories do not pile up, those in use stay, `latest` is there
  and names the newest.
* *Exporter*: a report that is there is whole and of one run.
* *Parsing, results, user interface*: a test is announced as what happened to
  it, sums hide nothing, an event for each line.
* *Reader*: an unreadable runtest file is refused before a test runs.

## The modules

| Module | Models | Lines of its own state |
|---|---|---|
| `Dispatcher.tla` | `SerialDispatcher` with the SUT as it sees it | runner `pc`, loop variables, `stopPc` of each stopper |
| `DispatcherProofs.tla`, `SessionProofs.tla`, `EventsProofs.tla`, `HostSUTProofs.tla`, `QemuSUTProofs.tla`, `SSHSUTProofs.tla`, `RunltpProofs.tla`, `ConsoleProofs.tla` | theorems about the module in the name | - |
| `Session.tla` | `Session`, EXTENDS `Dispatcher` | `main`, `threadPc`, `sutRef`, `dispRef`, `report`, `fired` |
| `EventQueue.tla` | abstract: what `EventsHandler` promises | `queued`, `called`, `ordered` |
| `Events.tla` | `EventsHandler` | `tasks`, `loopPc`, `main`, `stop` |
| `HostSUT.tla` | `HostSUT` and the host's processes | `runner`, `stopper`, `proc`, flags, locks |
| `QemuSUT.tla` | `QemuSUT`, the Qemu process and its guest | `main`, `stopper`, flags, locks, `lastPos` |
| `SSHSUT.tla` | `SSHSUT`, the connection, the remote command and the reset command | `main`, `stopper`, `transport`, `command`, `resetProc`, `stop` |
| `Runltp.tla` | the processes of one user: `_ltp_run`, `TempDir`, the file protocol of `JSONExporter` | `pc` of each run, `dirs`, `mtime`, `latest`, `report`, `now` |
| `Stdout.tla` | `StdoutChecker.write` and `_print_stdout`, as operators on a writer | - |
| `Console.tla` | what the user is told: result parsing, totals, flags and lines, EXTENDS `Dispatcher`, `Stdout` | `flags`, `counts`, `current`, `told`, `totals`, `writer`, `terminal` |
| `MC*.tla`, `MC*.cfg` | instances for TLC | - |

A variable has the name of the attribute or local variable it stands for, and
an action that of the function, or of the step in it. A thread has a program
counter that names the points where another thread, the target or a signal can
make a difference; what happens between two such points is one action. Each
read or write of something that another thread writes (`_stop`, `_sut`,
`_proc`, a lock that is polled) is a step of its own. Variables under "history"
are read by properties only. Definitions commented "Mutant" are not part of the
models: each is a faulty variant of the definition after it, which the property
named with it in `PROJECT.json` detects.

**Dispatcher.** `ExecSuites`, `DownloadSuites`, `GetInfo`, `StartSuite` and
`Return` are `exec_suites` and the head of `_run_suite`; `LeaveLoop`,
`SkipRemaining`, `IgnoreTest` and `StartTest` the branches of its loop;
`TaintBefore` to `TestCompleted` the steps of `_run_test`; `ForceStopSut` and
`BootSut` `_reboot_sut`; `DropEmptySuite` and `CollectSuite` what follows the
loop. `PostponeSigint` is a SIGINT inside the `try` at line 476 and
`RaiseSigint` one anywhere else. `StopCall` to `StopClear` are `stop`, run by
the threads in `Stoppers`. A test is a position in its suite; a result is a
test and whether it was run to its end, broken off or skipped; the target is
up, dead or off, and has a taint value.

**Session.** `main` is the position in `run_single`. `_stop_all` and
`_stop_sut` are run by the main thread and by callers of `Session.stop` alike:
`threadPc` is the position of each in them. `Handle` chooses the `except`
clause from what was raised; `Finally` and `FinallyEnds` are the `finally`
clause, including a failing exporter. The session's calls of the SUT are single
steps that return, raise or never come; when they do return is what `HostSUT`,
`QemuSUT` and `SSHSUT` are about (`qemu_poweroff` below shows where Qemu's does
not). An error that is no `LTPException` has no except clause (`Uncaught`): from
the target, or because a stop has reset `_sut` before one of its uses
(`SutCreated`, `CallUserCommand`, `CreateDispatcher`).

**Events.** `Fire` and `PutTask` are `fire`, with a step per callback;
`LoopBegin` to `LoopStop` the event loop; `CallStart`, `CallStop`, `SetStop`,
`Join` and `Spawn` the two functions of the main thread. `join(10)` may give up
on a loop that is still running, so several loops may exist. `Queue` is the
refinement mapping to `EventQueue`: a single queue whose order is kept until a
loop has been given up on.

**HostSUT.** `RunCommand` to `ReleaseCommand` are `run_command`; a command is a
shell that ends when it likes and may leave other processes that hold the pipe
of its output, on which `os.read` blocks. `CallStop` to `WaitCommand` are
`_inner_stop`.

**QemuSUT.** `Communicate` to `ReleaseComm` are `communicate`, `Lock` to
`Release` the calls that go through `_exec`, `SetStop` to `EndStop` `stop` and
`force_stop`. The commands that set up the shell at the end of a boot go through
`Exec`, `Parse` and `Match` too; one stands for all of them. `_wait_for` appears
as its outcomes: the message, a partial or no message after a stop or the end of
the process, a timeout, a panic. A return code is zero, one of those that
`fetch_file` takes for a success as well (1 and 9), or another. The content of
the transport file is counted in files.

**SSHSUT.** `Begin` and `Probe` are the two reads of the transport in
`is_running`; `Connect` and `Authenticate` the two parts of `connect`; `Exec`,
`Read` and `Status` `run_command`; `LockFetch`, `Scp` and `Transfer`
`fetch_file`; `Close` to `EndStop` `stop`, with `Reset`, `Resetting` and `Reap`
for `_reset`, whose process outlives its timer. The transport is none, open
(not authenticated), active or dead; `ConnectionLost`, `CommandGoesOn` and
`ResetExits` are paramiko's network, the remote command and the reset command.
A remote command writes, is silent for as long as the timeout, has closed its
output, or has exited. A call ends in a result: complete, cut short or empty, an
error the callers know, or an `AttributeError` or `EOFError` that they do not.

**Runltp.** One process is a sequence of file operations, each an action:
`Iterate` to `Symlink` are `_rotate`, `DebugLog` and `SaveResults` write into the
run's own directory, `Save`, `Open` and `Dump` are `save_file`. A path is the
number of the run that made it, or the link. `Touch` changes a directory's
modification time to the current tick or the next, so that times may be equal;
`Sort` takes any order that agrees with them. `Crash` kills a run at any point.

**Console.** Each step of `Dispatcher` that fires an event is taken with what
the callbacks do: `ShowTaintBefore` to `ShowTestCompleted` those of `_run_test`,
`KeepResult` and `KeepSkipped` give results their counts, `ShowSuiteCompleted`
sums them. Callbacks run later than the events, but in the same order (that is
what `Events` shows), so nothing is lost by taking them together. `Output` and
`BootOutput` hand a chunk to a writer of `Stdout`. A chunk is a sequence of
pieces, its text between line breaks; pieces are numbered within their line, so
that a line given out can be compared with the line that was written. For
`StdoutChecker` only a newline breaks a line, for `_print_stdout` also what
`splitlines` knows: a *soft* break stands for a carriage return, a form feed and
the like. The two are told apart where the code does, in `endswith('\n')` and in
chunks of one character.

## The runs

| Run | Instance | Shows |
|---|---|---|
| `dispatcher` | suites of 2 and 1 tests, 4 skip sets, 2 runs, 1 stopper, 1 SIGINT, taint 0..1, host or not | all properties below, 554 000 states |
| `session` | 2 suites of 1 test, 1 stopper, 1 SIGINT | properties of the session, 233 000 states |
| `events` | 2 threads firing (2 callbacks and 1), 2 loops | refinement of `EventQueue`, draining, liveness, 120 000 states |
| `host_sut` | 2 commands, 1 file, 2 starts, a thread with 2 stop requests | 44 000 states |
| `qemu_sut` | 2 boots, 2 calls, a thread with 1 stop request | 445 000 states |
| `ssh_sut` | 2 connections, 3 calls, 2 stop requests of another thread and 1 of the main thread | 239 000 states |
| `runltp` | up to 2 earlier directories and 5 numbered runs, 2 at a time, 1 crash, 3 ticks, `max_rotate` 2 | 1 660 000 states |
| `console` | a suite of 2 tests, none or all skipped, 4 kinds of output, 1 stopper, 1 SIGINT, taint 0..2, lines of 2 pieces, 1 newline, 1 other line break | properties of what is told, 5 330 000 states |
| `sigint_swallowed` | 1 SIGINT, no stopper | `InterruptNotSwallowed` violated |
| `sut_left_running` | no SIGINT, no stopper | `TimeoutStopsSut` violated |
| `host_timeout` | 1 command | `TimeoutStopsCommand` violated |
| `qemu_poweroff` | 1 boot, 1 stop | `StopReturns` violated |

What the passing runs establish, beyond types:

* `EveryTestAccounted`, `ResultsInOrder`, `ReportMatchesEvents`: no combination of skips, timeouts,
  panics, reboots, failures, SIGINT and stop requests loses, repeats or
  reorders a test, or lets the report and the events differ without reason.
* `HealthyStart`: without SIGINT, a test that begins does so on a target that is
  up and has no taint of an earlier test (other than the host, which is never
  rebooted). It is checked where the test begins, before its first call on the
  target: nothing there looks at the target, and only the reboots see to it.
* `NoStaleStop` (dispatcher and Qemu): no stale stop request.
* `ExecEnds`, `SessionEnds`: the dispatcher's loops end, and `run_single` and
  `Session.stop` do not wait for each other for ever, unless a call of the
  thread's own on the SUT never returns. Such calls exist: see `CommandReturns`,
  `CallsReturn` and `qemu_poweroff`.
* `EndedStopsSut`, `StopStopsSession`, `ReportNotLost`, `OkMeansAllRun` for the
  session. `StopStopsSession` is restricted to calls that found the dispatcher
  running: a call that comes earlier stops the SUT under a dispatcher it has
  not seen, and the run goes on. With several callers, one such early call spoils
  the promise for the others, which the property says too (see `EveryStopStops`
  below).
* `ImplementsQueue`, `StopDrains`, `EventuallyCalled`, `StopEndsLoop` for
  events. They leave out a loop that `join` has given up on. `EventuallyCalled`
  is about every task, until a stop; it makes an exception of a loop that has
  returned after a callback raised with no `internal_error` callback there to be
  told, or after that one raised too: what is queued then is lost.
* `StopWaitsForCommand`, `CutByStop`, `StopReturns`, `CommandReturns` for the
  host.
* `StopEndsMachine`, `PoweroffToShell`, `FetchExact`, `ForceStopReturns` for
  Qemu. `PoweroffToShell` is about the machine the stop was called for: one that
  has taken its place between the look at `_logged_in` and the typing may get the
  poweroff at its boot (`PoweroffNeverAtBoot` below). `FetchExact` holds on the
  first machine until a transfer fails; `_last_pos` survives both. A `cat` that
  fails is such a transfer, and need not be reported (`FetchWhole` below).

* `StopCloses`, `ResetApart`, `DisturbedByStop`, `CallsReturn` for SSH.
  `StopCloses` leaves out a connect that was under way, for which `stop` does not
  wait. `DisturbedByStop` says where the odd results come from: a transfer
  without data, or an `AttributeError`, from a stop; a command that has not ended
  and returns -1 with the output so far, from a stop or a lost connection, which
  the caller cannot tell apart. `CallsReturn` makes an exception of a command that
  writes for ever, since the timeout of `run_command` is one of each line, and of
  a reset command that never ends.
* `DirsBounded`, `LiveDirsKept`, `AloneSucceeds` for the processes. The bound of
  the first is attained. The second counts every directory changed since the one
  that goes was made, those of older runs that still write included: one newer run
  may be enough to remove it. The last makes an exception of a link that dangles: a
  run killed between `rmtree` of what `latest` names and the new link makes
  `getmtime` raise in every run after it.
* `ToldWhatHappened`, `TroubleShown`, `OneEventPerLine` for the console. The
  first leaves out SIGINT: a test that hung or panicked, and was then
  interrupted as the first of its suite, leaves the user interface its flags
  (`_run_suite` returns at dispatcher.py:490), and the next test is announced as
  `timed out` or `kernel panic`, whatever it did. It is about one call of
  `exec_suites` per user interface. The third says of a test's output that a
  newline gives one event; of a boot, that at least a line is printed per newline
  and at most one more per other line break; and of all lines given out, that they
  are at least the end of what was there.

**Violations.** Each of the others states what a comment, a test or a docstring
says, and TLC finds the code doing something else; `PROJECT.json` quotes the
line. (1) A SIGINT during the only test of a suite is forgotten. (2) A suite
timeout before the last suite leaves the SUT running. (3) The host's timed-out
commands go on running. (4) A Qemu guest that ignores `poweroff` blocks `stop`
for ever.

The modules state further properties that the code does not have, for whoever
changes it; each is violated within seconds:

| Property | Instance | What happens |
|---|---|---|
| `RunSingleReturns` (`Session`) | `MCSessionStopRace.cfg` | `Session.stop` resets `_sut` between `_stop_sut`'s test and use of it: `run_single` ends with `AttributeError` |
| `EveryStopStops` (`Session`) | `MCSessionTwoStops.cfg` | of two threads in `Session.stop`, one goes past the dispatcher before it exists, stops the SUT in the middle of a reboot and clears `_sut`; the reboot goes on to start a machine, and the other thread, which did find the dispatcher running, has no SUT to stop and returns with one that is not off |
| `LastEventCalled` (`Events`) | `MCEventsLast.cfg` | an event fired between the loop's looks at the queue and at the flag is dropped |
| `FailedBootKilled` (`QemuSUT`) | `MCQemuSUTBoot.cfg` | `is not None` at qemu.py:533: a machine whose set-up commands fail is not killed |
| `FetchWhole` (`QemuSUT`) | `MCQemuSUTFetch.cfg` | qemu.py:606 lets the return codes 1 and 9 by (`signal.SIGHUP`, `signal.SIGKILL`): a `cat` that fails ends with 1, and `fetch_file` returns an empty file |
| `PoweroffNeverAtBoot` (`QemuSUT`) | `MCQemuSUTTyping.cfg` | the machine exits after the look at `_logged_in`, another is started, and `stop` types `poweroff` at its boot |
| `RotateKeepsMax` (`Runltp`) | `MCRunltpRotate.cfg` | with equal modification times `latest` is among the oldest paths and is passed over: `max_rotate` + 1 directories, against test_tempfile.py:51 |
| `NothingLost` (`Console`) | `MCConsole.cfg`, with it as the invariant | dispatcher.py:193 and ui.py:100 overwrite the pending part of a line that comes in several chunks |

Other disagreements met on the way, which need no model: SSH documents
`reset_command` (ssh.py:151) and reads `reset_cmd` (79); its test of the port,
`1 > port > 65535` (88), is never true; `suite_timeout` (ui.py:171) is not
registered, so nobody prints it; `Total Run` counts the tests of the suite
(ui.py:154), which includes those passed over; the `stats` of the JSON report are
those of the first suite (export.py:97-102).

**Bounds.** Two suites and two tests in one give a first, a next and a last of
both loops and a suite boundary; two calls of `exec_suites` show what is
carried from one to the next. One SIGINT suffices: a second ends the
clean-up, which the first may do as well. One stopper is what the program has;
the theorems are for any number, and proving `StopStopsSession` for more than
one is what turned up `EveryStopStops`. Two loops, two boots
and two starts are the least with something to carry over; an instance of
`HostSUT` with two stoppers (565 000 states) and one of `QemuSUT` in which both
threads stop (713 000) were checked as well. They take longer and show the same.
Two connections show what a stop leaves to the next one, and three calls let one
of each kind meet it. With `max_rotate` 2, two earlier directories fill the
rotation, two overlapping runs race in it, and a third comes after both; three
ticks allow equal, earlier and later times. Two pieces of a line and one newline
are the least with which a line comes in several chunks, in either writer, and one
soft break the least with which the two writers differ; a taint value without a message is among the two.
Bounds are constants: `MaxExec`, `MaxSigint`, `MaxTaint`, `MaxFires`, `MaxStarts`,
`MaxCommands`, `MaxFetches`, `MaxStops`, `MaxBoots`, `MaxCalls`, `MaxConnects`,
`Earlier`, `MaxRuns`, `Concurrent`, `MaxCrashes`, `MaxTicks`, `MaxPieces`,
`MaxLines`, `MaxBreaks`.

**Deadlock** is checked for the dispatcher and the session, which have an
explicit terminated state. In the other modules the system may rest once the
bounds are used up.

**Fairness.** Weak fairness of each thread: Python threads are preempted and
get to run again, and a timer that is checked in a loop expires. Nobody has to
fire events, call stop, send SIGINT or start anything.

* `Dispatcher` and `Session`: no fairness of a thread that is inside a call on the
  SUT (`SutCalls`, `WaitsForSut`), because not all of these return: a host command
  whose pipe is held open does not (host.py:200), nor one that writes for ever over
  SSH, nor Qemu's `stop` when the guest ignores `poweroff`. `ExecEnds` and
  `SessionEnds` make these calls their only exception. All other waits have timers.
* `Events`: callbacks return.
* `HostSUT`: a process need not do anything, nor need a pipe be released;
  `CommandReturns` names the held pipe as its exception.
* `QemuSUT`: a guest need not do anything; a process that was sent a signal by
  `kill` ends in the end.
* `SSHSUT`: the timeouts of connect, channels and `scp` expire. The remote side and
  the reset command need not do anything, nor need a remote command ever be silent
  or end: its timeout comes only when it is silent, and `CallsReturn` says so.
* `Runltp` and `Console` state no liveness.

## Proofs

`DispatcherProofs.tla`, for every `SuiteSize`, `SkipSets`, `Stoppers` and all
bounds, from `SuitesAssumption` (suites have a natural number of tests, there is
at least one, and only tests of the suites are skipped):

* `TypeCorrect`: `Spec => []TypeOK`. `TypeOK` is not inductive: that
  `completed` and `missed` stay within the tests needs `Positions`, which says
  that the two loop variables are within the suites whenever the runner is
  inside the loops.
* `NoTestLost`: `Spec => []EveryTestAccounted`. `AccountInv` adds what the
  invariant needs inside a suite: the tests before the current position are in
  `tests_results`, skipped or missed (`LoopAccounted`), and `outcome` is set on
  leaving only.
* `TestsStartHealthy`: `Spec => []HealthyStart`. `HealthInv` follows the
  target's state and taint value through the points of `_run_test`: between two
  tests, and when one begins, the target is up and its taint value is zero or what
  it was at the start, and a result gets to `append` after a reboot or without a
  reason for one.
* `StopNeverStale`: `Spec => []NoStaleStop`, inductive together with the types:
  who sets the flag stays inside `stop` until it has cleared it.
* `ReportInOrder`: `Spec => []ResultsInOrder`. `OrderInv` adds that the report is
  behind the loop over the suites, and what the loop over the tests keeps: its
  results are in order and before the current test, and a skipped one means that
  `timed_out` or the interrupt is set, which no test runs under.
* `ReportAgrees`: `Spec => []ReportMatchesEvents`. `test_completed` comes before
  the reboot and before the result is kept, so the two differ for a while.
  `EventInv` says where: only the current test, from its announcement to
  `append`, is announced and has no result; all other announced tests are behind
  the loop.

Most of these invariants are shown for `Step`, which is `Next` without the guard
that `exec_suites` is called on a SUT that is up. That makes them hold wherever
the dispatcher is composed with something else.

`SessionProofs.tla`, for every set of `Stoppers` and all bounds, from
`SuitesAssumption` and the assumption of `Session` that the main thread is not a
stopper. A step of the session is a `Step` of the dispatcher or touches the
target only (`SessionStepIsStep`); `AccountInv`, `OrderInv` and `EventInv` do not
depend on the target, and so survive other threads that stop it under the tests.

* `SessionTypeCorrect`: `SessionSpec => []SessionTypeOK`.
* `SessionReportSound`: `EveryTestAccounted`, `ResultsInOrder` and
  `ReportMatchesEvents` hold in a session.
* `SessionReportKept`, `SessionOkMeansAllRun`: `ReportNotLost` and
  `OkMeansAllRun`. `MainInv` ties the position in `run_single` to the
  dispatcher's, and `EndInv` says what has been saved, and which outcome an exit
  code stands for, from the `finally` clause on. The second takes the report's
  soundness for the rest.
* `SessionEndedSutOff`, `SessionStopped`: `EndedStopsSut` and `StopStopsSession`.
  Both rest on `OffInv`: as long as no thread has gone past the dispatcher before
  it ran, `_sut` cleared means that the SUT is off and that nothing will start it
  again. It needs `CallersInv` (how far the dispatcher has come for a thread to be
  where it is in `_stop_all`) and `ReleasedInv` (who has seen `_sut` cleared).
  `OffInv` is not inductive without its premise, and `EveryStopStops` shows that
  the property is false without it.

`QemuSUTProofs.tla`, for every set of `Stoppers` and all bounds, from
`QemuAssumption` (the main thread is not a stopper, the bounds are natural
numbers). Two lemmas say once what kinds of steps there are: `MainSteps` (who is
not stopping leaves the requests and the flag alone) and `StopperSteps` (a
request moves itself, and under which conditions to the points that matter).

* `TypeCorrect`: `Spec => []TypeOK`, by `TypeInv`, four parts of which only
  `Counts` is not just types: while a call still has to send its file, there are
  fewer files than calls.
* `FlagNotStale`: `Spec => []NoStaleStop`, inductive: a request that comes while
  the flag is set cannot be the one the flag is set for.
* `StopStops`: `Spec => []StopEndsMachine`. `StopInv` adds the requests that have
  seen the exit and not returned yet, and that no request is for a machine to
  come; machines start one after the other (`MachineSteps`).
* `PoweroffAtShell`: `Spec => PoweroffToShell`. `LoginInv` says that the guest is
  past its boot when `_logged_in` is set, and from the point on at which
  `communicate` is about to set it. `TypingInv` carries that over from the look at
  the flag to the typing: a guest boots once (`GuestSteps`), and a machine that is
  started in between is a later one than the request is for.
* `FetchesItsFile`: `Spec => []FetchExact`. `Position` relates the end of the
  transport file to `_last_pos` at every point of the main thread: the file of
  the call is the only one between them from the reply of `cat` until it has
  been read back. It holds on the first machine only, which is why `FetchExact`
  says so (`_last_pos` outlives the machine).

`HostSUTProofs.tla`, for every set of `Stoppers` and all bounds, from
`HostAssumption` (the bounds are natural numbers). `RunnerSteps` and
`StopperSteps` say once what the runner and the host, and a request, may change.

* `TypeCorrect`: `Spec => []TypeOK`, inductive.
* `StopWaits`: `Spec => []StopWaitsForCommand`. `WaitInv` adds that the lock is
  held exactly between the start and the end of a command, and that a command
  which is called and has not got the lock yet is later than any a stop has
  found: else a stop could take it for the one it waits for.
* `OnlyStopsCut`: `Spec => []CutByStop`. `CutInv` says by which traces a request
  is known (the flag, a request under way, a target that was started and does
  not run), and that the flag `fetch_file` sees was set after it reset it.

`SSHSUTProofs.tla`, for every set of `Stoppers` and all bounds, from
`SSHAssumption` (the main thread is not a stopper, the bounds are natural
numbers), in the same way.

* `TypeCorrect`: `Spec => []TypeOK`. `Begun` adds what is known from the
  beginning of a call to the point where a connection is counted.
* `StopLeavesNothing`: `Spec => []StopCloses`. `CloseInv` extends the property to
  the requests that have closed their connection and not returned yet: what
  comes up after that is counted.
* `ResetRunsApart`: `Spec => []ResetApart`, inductive on top of `CloseInv`,
  because a transfer begins only over a connection that is up
  (`TransferStarts`).
* `OnlyStopsDisturb`: `Spec => []DisturbedByStop`. `DisturbInv` adds that the flag
  is set only while some request is under way, that a call which meets a request
  is marked as disturbed, and that the transport of a call which is not has not
  been closed since the call has seen it; and that a command is read over a
  connection with a user.

`EventsProofs.tla`, for every set of `Firers`, every `NumCallbacks` and all
bounds, from `EventsAssumption` (each thread's events have at least one callback,
the bounds are natural numbers):

* `TypeCorrect`: `Spec => []TypeOK`; a loop that runs a callback has taken one
  (`Control`).
* `HandlerImplementsQueue`: `Spec => ImplementsQueue`, the safety of
  `EventQueue`. The argument has three invariants. `OneLoop`: until a join has
  given up on a loop, only the loop that `_loop` refers to is under way. `Fresh`
  and `Distinct`: `fire` puts no task twice, because it counts its calls and the
  callbacks within a call. `Places`: `_tasks` is the rest of what was queued, a
  task that has been taken is held by one loop or has been called, and a single
  loop holds at most the last one taken. Then `put` enqueues, a callback's run
  calls, a join that gives up loses the order, and the other steps stutter.
* `StopCallsAll`: `Spec => []StopDrains`. `Drained` adds that the loop ends only
  between the setting of the flag and the join, since a loop that begins resets
  the flag, and that what it saw as an empty queue has been called.

`RunltpProofs.tla`, for any number of runs, crashes and ticks, every `MaxRotate`
above zero and every set of runs with a report, from `RunltpAssumption` (these are
numbers, and the directories that are there at the start are within the bound
that the theorem claims for later).

* `TypeCorrect`: `Spec => []TypeOK`. `Sort` takes any order that agrees with the
  times; `OldestEffect` says what the paths to be removed are, whichever it is.
* `InUseKept`: `Spec => []LiveDirsKept`. A directory goes in `Rmtree`, long after
  `Sort` has condemned it. `KeptInv` therefore says of a path as soon as it is
  condemned that `MaxRotate - 1` others have changed since it was made
  (`SortedPassed`: those behind it in the order), and `PathInv` that a directory
  that is listed or condemned has been made. Times only grow, so it stays true.
* `RotationBounds`: `Spec => []DirsBounded`. The number of directories is not
  inductive: runs that rotate at once do not see what the others make. `BoundInv`
  gives each run between its listing and `mkdtemp` an *account*: directories it
  keeps, at most `MaxRotate`; those it has still to remove; those made since by
  runs under way at its listing, which together with the runs that may still do so
  are at most `Concurrent`. The accounts of two runs are nested, so that when one
  makes its directory every other either counted on it or is replaced by its
  account (`MakeAccounts`); a run that makes its own has removed all it had to
  (`MakeBounded`).
* `AloneIsFine`: `Spec => []AloneSucceeds`. `AfterInv`: when a run that overlaps
  no other starts, those before it are over. Then what it has read of the
  directories, the link and the report stays true until it uses it: `DirsKnown`
  and `ReportKnown` say, for each of its points, what that is. `LinkInv` finds who
  has left a dangling link.

`ConsoleProofs.tla`, for every list of suites, every output, any sequence of chunks
(of at most two line breaks each) and all bounds, from `SuitesAssumption` and
`ConsoleAssumption`: outputs have counts, and `exec_suites` is called at most once,
as `_ltp_run` has it (main.py:181, session.py:327). The last is needed: an error of the SUT leaves flags in the user
interface, and a second run on the same one would begin with them
(`ToldWhatHappened` is violated with `MaxExec = 2`).

* `ConsoleImplementsDispatcher`: `ConsoleSpec => Init /\ [][Next]_vars`, the
  safety of `Dispatcher`; `ConsoleReportSound` carries its report over.
* `ToldTruly`: `ConsoleSpec => []ToldWhatHappened`. `TellInv`: the flags are what
  has happened to the test, from its start to `test_completed`, and none between
  two tests; and at each point only certain troubles are possible (`Possible`).
* `TroubleCounted`: `ConsoleSpec => []TroubleShown`. `CountInv`: of the counts that
  go with `tests_results`, those of a test that broke have one broken, those of a
  skipped one have one skipped, from `_get_test_results` on. That the sum of such
  counts is at least their number is a fact about `FoldLeft` (`LeastSum`). It is
  shown without induction over data: the fold is a `CHOOSE` of a function on sets
  of positions; `SumExists` gives one as the cardinality of a set, and a minimal
  counterexample does the rest (theorem `WFMin` of the library).
* `LinesGivenOut`: `ConsoleSpec => []OneEventPerLine`. `Tidy`: what a writer holds
  is the end of the line so far. The printer gives out the last line of a chunk only
  when the chunk ends with a newline; otherwise the separator that ends it was a
  soft one, and a line fewer is printed than there were breaks. A chunk has at
  most three pieces, so the fold over its lines is computed case by case (`ShortFold`, `FoldTwo`).

**Only model-checked** is the liveness: `ExecEnds`, `SessionEnds`,
`EventuallyCalled`, `StopEndsLoop`, `StopReturns`, `CommandReturns`,
`ForceStopReturns` and `CallsReturn` depend on fairness and ENABLED, which the
prover does not handle. Chunks of more than two line breaks are neither
checked nor proved: the fold over them would need induction. Violations are TLC's
as well.

## What is abstracted or left out

* SUT calls in `Dispatcher` and `Session` return, raise or never end; taint values
  change only while a test runs; `run_single` is called once, and each stopper calls
  `Session.stop` once.
* Output of tests, commands and guests, except for whether it is complete and,
  in `Console`, how it is cut into chunks and counted.
* Wording, logging, colours, the JSON text, callbacks that print their
  arguments and keep nothing.
* `register`, `unregister` and `reset` of events: the user interface registers
  before the first event, and nothing unregisters.
* SIGINT inside SUT calls reaches them as an exception like a timeout; in
  `HostSUT`, `QemuSUT` and `SSHSUT` it is not a separate action. Neither is it in
  `Runltp`, where it is one of the ways to crash.
* `setup` of the targets, the Qemu command line and the command line that SSH
  sends: string building and checks of options, done once before anything else.
* `TempDir` without a root directory, which does nothing.
* The parsing of arguments, configuration and runtest files (main.py, data.py):
  pure functions from text to fields, which unit tests reach.
* An abstract target that all three SUTs implement: they have no common promise
  beyond returning. A stop leaves the host's later command running, Qemu's stop
  may not return, and SSH's leaves a connect in progress; each module states
  what its target does promise, and `Session` allows for all of it.

## Plan

1. Done: all modules above; every safety property of a passing run is a theorem.
2. Possible extensions: chunks with any number of line breaks in `Stdout`; the
   health of the target (`HealthyStart`) in a session, where a stop may turn it
   off between two tests.
