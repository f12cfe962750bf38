------------------------------- MODULE HostSUT -------------------------------
(***************************************************************************)
(* HostSUT of src/ltp/host.py, the target that runs commands on the host   *)
(* itself.  The runner thread starts the target, runs commands and fetches *)
(* files; other threads call stop or force_stop, which poll the locks that *)
(* the runner holds.  Processes belong to the host: they end when they     *)
(* like, may survive SIGHUP, and may leave behind others that hold the     *)
(* pipe of their output.                                                   *)
(***************************************************************************)
EXTENDS Naturals

CONSTANTS
    Stoppers,       \* threads that call stop or force_stop
    MaxCommands,    \* bound on run_command
    MaxFetches,     \* bound on fetch_file
    MaxStarts,      \* bound on communicate
    MaxStops        \* bound on the stop requests of each thread

ASSUME HostAssumption ==
    /\ MaxCommands \in Nat /\ MaxFetches \in Nat
    /\ MaxStarts \in Nat /\ MaxStops \in Nat

Commands == 1 .. MaxCommands

VARIABLES
    initialized,    \* self._initialized
    stop,           \* self._stop
    proc,           \* self._proc: the number of the command, 0 for None
    cmdLocked,      \* self._cmd_lock
    fetchLocked,    \* self._fetch_lock
    runner,         \* where the runner is in run_command and fetch_file
    stopper,        \* where each stopper is in _inner_stop
    sig,            \* the signal each stopper sends
    result          \* how the last run_command or fetch_file came out

\* The host's processes.
VARIABLES
    process,        \* the shell of each command
    pipeHeld        \* whether other processes hold the pipe of its output

\* Counters and history variables.
VARIABLES
    commands, fetches, starts, stops,
    pending,        \* the command each stopper found running, 0 for none
    stoppedSince    \* a stop has been requested since fetch_file reset the flag

flags == <<initialized, stop>>
locks == <<cmdLocked, fetchLocked>>
host == <<process, pipeHeld>>
stopVars == <<stopper, sig, stops, pending>>
counters == <<commands, fetches, starts>>
vars == <<flags, proc, locks, runner, stopVars, result, host, counters, stoppedSince>>

RunnerPoints == {"idle", "enterCommand", "spawn", "poll", "drain", "read", "clear",
                 "releaseCommand", "enterFetch", "fetch", "releaseFetch"}
StopperPoints == {"idle", "set", "look", "signal", "waitFetch", "waitCommand",
                  "terminated"}
Results == {"none", "complete", "cut", "timeout", "file", "cutFile", "ioError"}

Init ==
    /\ initialized = FALSE /\ stop = FALSE /\ proc = 0
    /\ cmdLocked = FALSE /\ fetchLocked = FALSE
    /\ runner = "idle" /\ result = "none"
    /\ stopper = [s \in Stoppers |-> "idle"] /\ sig = [s \in Stoppers |-> "HUP"]
    /\ process = [c \in Commands |-> "unborn"]
    /\ pipeHeld = [c \in Commands |-> FALSE]
    /\ commands = 0 /\ fetches = 0 /\ starts = 0 /\ stops = [s \in Stoppers |-> 0]
    /\ pending = [s \in Stoppers |-> 0] /\ stoppedSince = FALSE

-----------------------------------------------------------------------------
(* communicate, which raises SUTError while the target runs.               *)

Communicate ==
    /\ runner = "idle" /\ ~initialized /\ starts < MaxStarts
    /\ initialized' = TRUE /\ starts' = starts + 1
    /\ UNCHANGED <<stop, proc, locks, runner, stopVars, result, host, commands, fetches,
                   stoppedSince>>

-----------------------------------------------------------------------------
(* run_command.                                                            *)

RunnerGoes(from, to) == runner = from /\ runner' = to

\* The test of is_running comes before the lock.
RunCommand ==
    /\ initialized /\ commands < MaxCommands
    /\ RunnerGoes("idle", "enterCommand")
    /\ commands' = commands + 1 /\ result' = "none"
    /\ UNCHANGED <<flags, proc, locks, stopVars, host, fetches, starts, stoppedSince>>

LockCommand ==
    /\ ~cmdLocked /\ RunnerGoes("enterCommand", "spawn")
    /\ cmdLocked' = TRUE
    /\ UNCHANGED <<flags, proc, fetchLocked, stopVars, result, host, counters, stoppedSince>>

\* Mutant: the commands are counted after the process is created.
SpawnBeforeCount ==
    /\ RunnerGoes("spawn", "poll")
    /\ proc' = commands + 1 /\ process' = [process EXCEPT ![commands] = "running"]
    /\ UNCHANGED <<flags, locks, stopVars, result, pipeHeld, counters, stoppedSince>>

Spawn ==
    /\ RunnerGoes("spawn", "poll")
    /\ proc' = commands /\ process' = [process EXCEPT ![commands] = "running"]
    /\ UNCHANGED <<flags, locks, stopVars, result, pipeHeld, counters, stoppedSince>>

\* The process is over, or the timer raises SUTTimeoutError past the except
\* clause, which waits for another exception before it kills the process.
PollDone ==
    /\ RunnerGoes("poll", "drain") /\ process[proc] = "exited"
    /\ UNCHANGED <<flags, proc, locks, stopVars, result, host, counters, stoppedSince>>

PollTimeout ==
    /\ RunnerGoes("poll", "clear")
    /\ result' = "timeout"
    /\ UNCHANGED <<flags, proc, locks, stopVars, host, counters, stoppedSince>>

\* What is left in the pipe is read to its end, unless a stop is requested: the
\* loop is left, or _read_stdout returns None.
Drain ==
    /\ RunnerGoes("drain", IF stop \/ ~initialized THEN "clear" ELSE "read")
    /\ result' = IF runner' = "clear" THEN "cut" ELSE result
    /\ UNCHANGED <<flags, proc, locks, stopVars, host, counters, stoppedSince>>

\* os.read blocks, whatever the timer and the stop flag say, until there is data
\* from those who hold the pipe, or nobody holds it.
Read ==
    /\ runner = "read"
    /\ IF pipeHeld[proc]
       THEN runner' = "drain" /\ UNCHANGED result
       ELSE runner' = "clear" /\ result' = "complete"
    /\ UNCHANGED <<flags, proc, locks, stopVars, host, counters, stoppedSince>>

ClearProc ==
    /\ RunnerGoes("clear", "releaseCommand")
    /\ proc' = 0
    /\ UNCHANGED <<flags, locks, stopVars, result, host, counters, stoppedSince>>

\* Mutant: an error leaves the lock behind.
ReleaseCommandUnlessTimeout ==
    /\ RunnerGoes("releaseCommand", "idle")
    /\ cmdLocked' = (result = "timeout")
    /\ UNCHANGED <<flags, proc, fetchLocked, stopVars, result, host, counters, stoppedSince>>

ReleaseCommand ==
    /\ RunnerGoes("releaseCommand", "idle")
    /\ cmdLocked' = FALSE
    /\ UNCHANGED <<flags, proc, fetchLocked, stopVars, result, host, counters, stoppedSince>>

-----------------------------------------------------------------------------
(* fetch_file, which does not ask whether the target runs.                 *)

FetchFile ==
    /\ fetches < MaxFetches /\ RunnerGoes("idle", "enterFetch")
    /\ fetches' = fetches + 1 /\ result' = "none"
    /\ UNCHANGED <<flags, proc, locks, stopVars, host, commands, starts, stoppedSince>>

\* Mutant: the flag keeps its value.
BeginFetchAsIs ==
    /\ ~fetchLocked /\ RunnerGoes("enterFetch", "fetch")
    /\ fetchLocked' = TRUE /\ stoppedSince' = FALSE
    /\ UNCHANGED <<flags, proc, cmdLocked, stopVars, result, host, counters>>

BeginFetch ==
    /\ ~fetchLocked /\ RunnerGoes("enterFetch", "fetch")
    /\ fetchLocked' = TRUE /\ stop' = FALSE /\ stoppedSince' = FALSE
    /\ UNCHANGED <<initialized, proc, cmdLocked, stopVars, result, host, counters>>

\* The loop over the file; a file cut short by a stop is returned like another.
ReadFile ==
    /\ RunnerGoes("fetch", "releaseFetch")
    /\ result' \in {IF stop THEN "cutFile" ELSE "file", "timeout", "ioError"}
    /\ UNCHANGED <<flags, proc, locks, stopVars, host, counters, stoppedSince>>

ReleaseFetch ==
    /\ RunnerGoes("releaseFetch", "idle")
    /\ fetchLocked' = FALSE
    /\ UNCHANGED <<flags, proc, cmdLocked, stopVars, result, host, counters, stoppedSince>>

-----------------------------------------------------------------------------
(* _inner_stop, for stop (SIGHUP) and force_stop (SIGKILL).                *)

StopperGoes(s, from, to) == stopper[s] = from /\ stopper' = [stopper EXCEPT ![s] = to]

CallStop(s) ==
    /\ stops[s] < MaxStops
    /\ stopper[s] \in {"idle", "terminated"}
    /\ stopper' = [stopper EXCEPT ![s] = IF initialized THEN "set" ELSE "idle"]
    /\ stops' = [stops EXCEPT ![s] = @ + 1]
    /\ \E kind \in {"HUP", "KILL"} : sig' = [sig EXCEPT ![s] = kind]
    /\ UNCHANGED <<flags, proc, locks, runner, result, host, counters, pending, stoppedSince>>

SetStop(s) ==
    /\ StopperGoes(s, "set", "look")
    /\ stop' = TRUE /\ stoppedSince' = TRUE
    /\ pending' = [pending EXCEPT ![s] = IF cmdLocked THEN commands ELSE 0]
    /\ UNCHANGED <<initialized, proc, locks, runner, sig, stops, result, host, counters>>

LookForProc(s) ==
    /\ StopperGoes(s, "look", IF proc # 0 THEN "signal" ELSE "waitFetch")
    /\ UNCHANGED <<flags, proc, locks, runner, sig, stops, pending, result, host, counters,
                   stoppedSince>>

ShellDies(c) ==
    /\ process' = [process EXCEPT ![c] = "exited"]
    /\ \E held \in BOOLEAN : pipeHeld' = [pipeHeld EXCEPT ![c] = held]

\* self._proc is read again.  If the runner has reset it, this raises
\* AttributeError and the request ends here.  The shell may survive SIGHUP, and
\* what it has started may survive the shell.
Signal(s) ==
    /\ IF proc = 0
       THEN StopperGoes(s, "signal", "idle") /\ UNCHANGED host
       ELSE /\ StopperGoes(s, "signal", "waitFetch")
            /\ IF process[proc] = "running"
               THEN (sig[s] = "HUP" /\ UNCHANGED host) \/ ShellDies(proc)
               ELSE UNCHANGED host
    /\ UNCHANGED <<flags, proc, locks, runner, sig, stops, pending, result, counters,
                   stoppedSince>>

\* The two waits; the timer raises LTPTimeoutError, and the flag stays set.
WaitFetch(s) ==
    /\ \/ ~fetchLocked /\ StopperGoes(s, "waitFetch", "waitCommand")
       \/ StopperGoes(s, "waitFetch", "idle")
    /\ UNCHANGED <<flags, proc, locks, runner, sig, stops, pending, result, host, counters,
                   stoppedSince>>

\* Mutant: the command's lock is not waited for.
WaitCommandNot(s) ==
    /\ StopperGoes(s, "waitCommand", "terminated")
    /\ initialized' = FALSE
    /\ UNCHANGED <<stop, proc, locks, runner, sig, stops, pending, result, host, counters,
                   stoppedSince>>

\* Mutant: the timer is not checked.
WaitCommandForever(s) ==
    /\ ~cmdLocked /\ StopperGoes(s, "waitCommand", "terminated")
    /\ initialized' = FALSE
    /\ UNCHANGED <<stop, proc, locks, runner, sig, stops, pending, result, host, counters,
                   stoppedSince>>

WaitCommand(s) ==
    /\ \/ ~cmdLocked /\ StopperGoes(s, "waitCommand", "terminated")
          /\ initialized' = FALSE
       \/ StopperGoes(s, "waitCommand", "idle") /\ UNCHANGED initialized
    /\ UNCHANGED <<stop, proc, locks, runner, sig, stops, pending, result, host, counters,
                   stoppedSince>>

-----------------------------------------------------------------------------
(* The host: a shell ends, perhaps leaving others that hold its output.    *)

ProcessExits(c) ==
    /\ process[c] = "running" /\ ShellDies(c)
    /\ UNCHANGED <<flags, proc, locks, runner, stopVars, result, counters, stoppedSince>>

PipeReleased(c) ==
    /\ pipeHeld[c]
    /\ pipeHeld' = [pipeHeld EXCEPT ![c] = FALSE]
    /\ UNCHANGED <<flags, proc, locks, runner, stopVars, result, process, counters,
                   stoppedSince>>

-----------------------------------------------------------------------------
CommandStep ==
    \/ LockCommand \/ Spawn \/ PollDone \/ PollTimeout \/ Drain \/ Read \/ ClearProc
    \/ ReleaseCommand

FetchStep == BeginFetch \/ ReadFile \/ ReleaseFetch

StopperStep(s) ==
    SetStop(s) \/ LookForProc(s) \/ Signal(s) \/ WaitFetch(s) \/ WaitCommand(s)

Next ==
    \/ Communicate \/ RunCommand \/ FetchFile \/ CommandStep \/ FetchStep
    \/ \E s \in Stoppers : CallStop(s) \/ StopperStep(s)
    \/ \E c \in Commands : ProcessExits(c) \/ PipeReleased(c)

\* The threads keep running and timers expire.  The host's processes may go on
\* for ever.
Fairness ==
    /\ WF_vars(CommandStep) /\ WF_vars(FetchStep)
    /\ \A s \in Stoppers : WF_vars(StopperStep(s))

Spec == Init /\ [][Next]_vars /\ Fairness

-----------------------------------------------------------------------------
TypeOK ==
    /\ initialized \in BOOLEAN /\ stop \in BOOLEAN /\ proc \in 0 .. MaxCommands
    /\ cmdLocked \in BOOLEAN /\ fetchLocked \in BOOLEAN
    /\ runner \in RunnerPoints /\ result \in Results
    /\ stopper \in [Stoppers -> StopperPoints] /\ sig \in [Stoppers -> {"HUP", "KILL"}]
    /\ process \in [Commands -> {"unborn", "running", "exited"}]
    /\ pipeHeld \in [Commands -> BOOLEAN]
    /\ commands \in 0 .. MaxCommands /\ fetches \in 0 .. MaxFetches
    /\ starts \in 0 .. MaxStarts /\ stops \in [Stoppers -> 0 .. MaxStops]
    /\ pending \in [Stoppers -> 0 .. MaxCommands] /\ stoppedSince \in BOOLEAN

\* A stop that returns normally ("Process terminated") has waited for the command
\* it found running: that command is over, by itself or by the signal.
StopWaitsForCommand ==
    \A s \in Stoppers :
        stopper[s] = "terminated" /\ cmdLocked => pending[s] < commands

\* Output is dropped only when somebody has asked for a stop, and a file is cut
\* short only by a stop requested during that very fetch_file, never by a flag that
\* an earlier stop has left set.  (The loops of run_command and fetch_file.)
CutByStop ==
    /\ result = "cut" => \E s \in Stoppers : stops[s] > 0
    /\ result = "cutFile" => stoppedSince

\* stop and force_stop return, even if the command never ends.
StopReturns ==
    \A s \in Stoppers : stopper[s] = "set" ~> stopper[s] \in {"idle", "terminated"}

\* run_command returns, at the latest by its timer, unless processes that the
\* command has left behind keep hold of its output.
CommandReturns ==
    runner = "enterCommand" ~> runner = "idle" \/ (proc # 0 /\ pipeHeld[proc])

\* sut.py:157, "timeout before stopping execution": a command whose timeout has
\* expired does not go on running.
TimeoutStopsCommand ==
    runner = "idle" /\ result = "timeout" =>
        \A c \in Commands : process[c] # "running"
=============================================================================
