------------------------------- MODULE QemuSUT -------------------------------
(***************************************************************************)
(* QemuSUT of src/ltp/qemu.py, the target that is a virtual machine driven *)
(* through its serial console.  The main thread boots it, runs commands,   *)
(* pings it and fetches files; it and other threads stop it.  Stopping     *)
(* shares with the rest the flag _stop, the process and the locks, which   *)
(* it only looks at.  The guest answers, panics, ignores or ends when it   *)
(* likes.                                                                  *)
(***************************************************************************)
EXTENDS Naturals

CONSTANTS
    Main,           \* the thread that runs the session
    Stoppers,       \* other threads that stop the machine
    MaxBoots,       \* bound on communicate
    MaxCalls,       \* bound on run_command, ping and fetch_file together
    MaxStops        \* bound on the stop requests of each thread

Threads == Stoppers \cup {Main}

ASSUME QemuAssumption ==
    /\ Main \notin Stoppers
    /\ MaxBoots \in Nat /\ MaxCalls \in Nat /\ MaxStops \in [Threads -> Nat]

VARIABLES
    stop,           \* self._stop
    loggedIn,       \* self._logged_in
    commLocked,     \* self._comm_lock
    cmdLocked,      \* self._cmd_lock
    fetchLocked,    \* self._fetch_lock
    lastPos,        \* self._last_pos, in files
    main,           \* where the main thread is, outside of the stop requests
    call,           \* what it has called last
    result,         \* how that came out
    reply,          \* what _wait_for has returned: a return code, "part" or "nothing"
    got,            \* how many files fetch_file has read back
    stopper,        \* where each thread is in stop or force_stop
    force           \* whether that is force_stop

\* The machine.
VARIABLES
    vm,             \* self._proc: "none", "running" or "exited"
    guest,          \* "booting", "shell", "panicked" (unread) or "silent"
    killed,         \* the process has been sent SIGHUP or SIGKILL
    sent            \* files that this machine has written to the transport file

\* Counters and history variables.
VARIABLES
    boots, calls, stops,
    target,         \* the machine, by number, that each request has to stop
    spoiled         \* a transfer failed or was stopped halfway

locks == <<commLocked, cmdLocked, fetchLocked>>
machine == <<vm, guest, killed, sent>>
outcome == <<call, result, reply, got>>
stopVars == <<stopper, force, stops, target>>
counters == <<boots, calls>>
vars == <<stop, loggedIn, locks, lastPos, main, outcome, machine, stopVars, counters, spoiled>>

MainPoints == {"idle", "spawn", "login", "bootFailed", "booted", "releaseComm",
               "lock", "exec", "parse", "match", "tested", "sending", "copy", "release"}
StopperPoints == {"idle", "set", "interrupt", "waitCommand", "waitFetch", "checkLogin",
                  "sendPoweroff", "poweroff", "kill", "waitComm", "waitExit", "killNow",
                  "waitCommandNow", "stopped", "failed", "done"}

\* The return codes that a caller tells apart: fetch_file takes 1 and 9 (SIGHUP and
\* SIGKILL) for a success, too.
ReturnCodes == {"zero", "hupOrKill", "other"}
Replies == ReturnCodes \cup {"part", "nothing"}
Results == {"none", "ok", "stopped", "error", "timeout", "panic", "crash"}

IsRunning == vm = "running"

Init ==
    /\ stop = FALSE /\ loggedIn = FALSE /\ lastPos = 0
    /\ commLocked = FALSE /\ cmdLocked = FALSE /\ fetchLocked = FALSE
    /\ main = "idle" /\ call = "none" /\ result = "none"
    /\ reply = "nothing" /\ got = 0
    /\ stopper = [t \in Threads |-> "idle"] /\ force = [t \in Threads |-> FALSE]
    /\ vm = "none" /\ guest = "booting" /\ killed = FALSE /\ sent = 0
    /\ boots = 0 /\ calls = 0 /\ stops = [t \in Threads |-> 0]
    /\ target = [t \in Threads |-> 0] /\ spoiled = FALSE

-----------------------------------------------------------------------------
(* The machine on its own.  A process that got a signal ends in the end.   *)

VmExits ==
    /\ IsRunning
    /\ vm' = "exited"
    /\ UNCHANGED <<stop, loggedIn, locks, lastPos, main, outcome, guest, killed, sent, stopVars,
                   counters, spoiled>>

\* The guest's kernel panics, in which case nothing answers any more.
GuestPanics ==
    /\ IsRunning /\ guest \in {"booting", "shell"}
    /\ guest' = "panicked"
    /\ UNCHANGED <<stop, loggedIn, locks, lastPos, main, outcome, vm, killed, sent, stopVars,
                   counters, spoiled>>

-----------------------------------------------------------------------------
(* _wait_for, as its callers see it.                                       *)

MainGoes(from, to) == main = from /\ main' = to

\* It returns without the message: the machine has exited, or a stop is requested
\* and nothing arrives.
GivesUp == ~IsRunning \/ stop

Leave(how) == result' = how

-----------------------------------------------------------------------------
(* communicate.                                                            *)

Communicate ==
    /\ ~IsRunning /\ boots < MaxBoots /\ stopper[Main] \in {"idle", "done"}
    /\ MainGoes("idle", "spawn")
    /\ commLocked' = TRUE /\ call' = "communicate" /\ result' = "none"
    /\ UNCHANGED <<stop, loggedIn, cmdLocked, fetchLocked, lastPos, reply, got, machine, stopVars,
                   counters, spoiled>>

\* Mutant: the login of an earlier machine is believed.
StartMachineLoggedIn ==
    /\ MainGoes("spawn", "login")
    /\ vm' = "running" /\ guest' = "booting" /\ killed' = FALSE /\ sent' = 0
    /\ boots' = boots + 1
    /\ UNCHANGED <<stop, loggedIn, locks, lastPos, outcome, stopVars, calls, spoiled>>

\* Qemu truncates the transport file.
StartMachine ==
    /\ MainGoes("spawn", "login")
    /\ loggedIn' = FALSE
    /\ vm' = "running" /\ guest' = "booting" /\ killed' = FALSE /\ sent' = 0
    /\ boots' = boots + 1
    /\ UNCHANGED <<stop, locks, lastPos, outcome, stopVars, calls, spoiled>>

\* The prompts are waited for.  When that is given up the commands that set the shell
\* up are sent all the same; one _exec stands for them.  SUTTimeoutError and
\* KernelPanicError pass by the except clause.
LogIn ==
    /\ main = "login"
    /\ \/ /\ IsRunning /\ guest = "booting"
          /\ main' = "exec" /\ guest' = "shell" /\ UNCHANGED result
       \/ /\ GivesUp
          /\ main' = "exec" /\ UNCHANGED <<guest, result>>
       \/ /\ main' = "releaseComm" /\ Leave("timeout") /\ UNCHANGED guest
       \/ /\ guest = "panicked"
          /\ main' = "releaseComm" /\ Leave("panic") /\ guest' = "silent"
    /\ UNCHANGED <<stop, loggedIn, locks, lastPos, call, reply, got, vm, killed, sent, stopVars,
                   counters, spoiled>>

\* The except clause: kill is called for a process that has exited already, and
\* SUTError is dropped while a stop is requested.
BootFailed ==
    /\ MainGoes("bootFailed", "releaseComm")
    /\ Leave(IF stop THEN "ok" ELSE "error")
    /\ UNCHANGED <<stop, loggedIn, locks, lastPos, call, reply, got, machine, stopVars, counters,
                   spoiled>>

Booted ==
    /\ MainGoes("booted", "releaseComm")
    /\ loggedIn' = TRUE /\ Leave("ok")
    /\ UNCHANGED <<stop, locks, lastPos, call, reply, got, machine, stopVars, counters, spoiled>>

ReleaseComm ==
    /\ MainGoes("releaseComm", "idle")
    /\ commLocked' = FALSE
    /\ UNCHANGED <<stop, loggedIn, cmdLocked, fetchLocked, lastPos, outcome, machine, stopVars,
                   counters, spoiled>>

-----------------------------------------------------------------------------
(* run_command, ping and fetch_file, all through _exec.  ping takes no lock. *)

BeginCall(name, to) ==
    /\ IsRunning /\ calls < MaxCalls /\ stopper[Main] \in {"idle", "done"}
    /\ MainGoes("idle", to)
    /\ calls' = calls + 1
    /\ call' = name /\ result' = "none" /\ reply' = "nothing" /\ got' = 0
    /\ UNCHANGED <<stop, loggedIn, locks, lastPos, machine, stopVars, boots, spoiled>>

RunCommand == BeginCall("run_command", "lock")

Ping == BeginCall("ping", "exec")

FetchFile == BeginCall("test", "lock")

Lock ==
    /\ MainGoes("lock", "exec")
    /\ IF call = "run_command"
       THEN ~cmdLocked /\ cmdLocked' = TRUE /\ UNCHANGED fetchLocked
       ELSE ~fetchLocked /\ fetchLocked' = TRUE /\ UNCHANGED cmdLocked
    /\ UNCHANGED <<stop, loggedIn, commLocked, lastPos, outcome, machine, stopVars, counters,
                   spoiled>>

\* The codes that this call has a use for.
CodesOf(name) ==
    CASE name = "cat" -> ReturnCodes
      [] name \in {"test", "communicate"} -> {"zero", "other"}
      [] OTHER -> {"zero"}

\* Where a command goes that raises SUTError, and where with other errors.
Failed == main' = (IF call = "communicate" THEN "bootFailed" ELSE "release") /\ Leave("error")

Raised(how) ==
    main' = (IF call = "communicate" THEN "releaseComm" ELSE "release") /\ Leave(how)

\* A cat that fails, or whose reply does not come, may have got its file to the
\* transport file or not.
Exec ==
    /\ main = "exec"
    /\ \/ /\ IsRunning /\ guest = "shell"
          /\ main' = "parse" /\ reply' \in CodesOf(call) /\ UNCHANGED result
       \/ /\ GivesUp
          /\ main' = "parse" /\ reply' \in {"part", "nothing"} /\ UNCHANGED result
       \/ Raised("timeout") /\ UNCHANGED reply
       \/ guest = "panicked" /\ Raised("panic") /\ UNCHANGED reply
       \/ ~IsRunning /\ ~stop /\ Failed /\ UNCHANGED reply         \* BrokenPipeError
    /\ guest' = IF result' = "panic" THEN "silent" ELSE guest
    /\ sent' \in {sent, sent + 1}
    /\ call # "cat" => sent' = sent
    /\ call = "cat" /\ reply' = "zero" => sent' = sent + 1
    /\ spoiled' = (spoiled \/ (call = "cat" /\ reply' # "zero"))
    /\ UNCHANGED <<stop, loggedIn, locks, lastPos, call, got, vm, killed, stopVars, counters>>

\* The caller gets a return code, or -1 ("nothing") if the command was cut short.
Replied(code) ==
    CASE call = "communicate" ->
            main' = (IF code = "zero" THEN "booted" ELSE "bootFailed") /\ UNCHANGED result
      [] call = "test" ->
            IF code = "zero" THEN main' = "tested" /\ UNCHANGED result
                             ELSE main' = "release" /\ Leave("error")
      [] OTHER ->
            /\ main' = IF call = "cat" THEN "sending" ELSE "release"
            /\ Leave(IF code = "nothing" THEN "stopped" ELSE "ok")

\* `stop' is read once here, and again in Match.
Parse ==
    /\ main = "parse"
    /\ IF stop \/ reply = "nothing" THEN Replied("nothing")
       ELSE IF reply # "part" THEN Replied(reply)
       ELSE main' = "match" /\ UNCHANGED result
    /\ UNCHANGED <<stop, loggedIn, locks, lastPos, call, reply, got, machine, stopVars,
                   counters, spoiled>>

\* Without a match, SUTError is raised unless a stop is requested by now, and then
\* the match is used as if it were there, which raises AttributeError.
Match ==
    /\ main = "match"
    /\ IF stop THEN Raised("crash") ELSE Failed
    /\ spoiled' = (spoiled \/ call = "cat")
    /\ UNCHANGED <<stop, loggedIn, locks, lastPos, call, reply, got, machine, stopVars,
                   counters>>

\* The file is there.
Tested ==
    /\ MainGoes("tested", "exec")
    /\ call' = "cat" /\ reply' = "nothing"
    /\ UNCHANGED <<stop, loggedIn, locks, lastPos, result, got, machine, stopVars, counters,
                   spoiled>>

\* A return code of 1, which a cat that fails ends with, is let through.
Sending ==
    /\ main = "sending"
    /\ \/ stop /\ main' = "release" /\ Leave("stopped")
       \/ ~stop /\ result = "ok" /\ reply # "other" /\ main' = "copy" /\ UNCHANGED result
       \/ ~stop /\ (result = "stopped" \/ reply = "other") /\ main' = "release" /\ Leave("error")
    /\ spoiled' = (spoiled \/ main' = "release")
    /\ UNCHANGED <<stop, loggedIn, locks, lastPos, call, reply, got, machine, stopVars,
                   counters>>

\* Mutant: the whole transport file is counted again.
CopyAdding ==
    /\ main = "copy"
    /\ IF stop \/ lastPos >= sent
       THEN main' = "release" /\ Leave(IF stop THEN "stopped" ELSE "ok")
            /\ UNCHANGED <<got, lastPos>>
       ELSE \/ main' = "release" /\ Leave("timeout") /\ UNCHANGED <<got, lastPos>>
            \/ got' = sent - lastPos /\ lastPos' = lastPos + sent /\ UNCHANGED <<main, result>>
    /\ spoiled' = (spoiled \/ (main' = "release" /\ result' # "ok"))
    /\ UNCHANGED <<stop, loggedIn, locks, call, reply, machine, stopVars, counters>>

\* Mutant: every file is read from the start of the transport file.
CopyFromStart ==
    /\ main = "copy"
    /\ IF stop \/ lastPos >= sent
       THEN main' = "release" /\ Leave(IF stop THEN "stopped" ELSE "ok")
            /\ UNCHANGED <<got, lastPos>>
       ELSE \/ main' = "release" /\ Leave("timeout") /\ UNCHANGED <<got, lastPos>>
            \/ got' = sent /\ lastPos' = sent /\ UNCHANGED <<main, result>>
    /\ spoiled' = (spoiled \/ (main' = "release" /\ result' # "ok"))
    /\ UNCHANGED <<stop, loggedIn, locks, call, reply, machine, stopVars, counters>>

\* What follows _last_pos is read back; _last_pos outlives the machine.
Copy ==
    /\ main = "copy"
    /\ IF stop \/ lastPos >= sent
       THEN main' = "release" /\ Leave(IF stop THEN "stopped" ELSE "ok")
            /\ UNCHANGED <<got, lastPos>>
       ELSE \/ main' = "release" /\ Leave("timeout") /\ UNCHANGED <<got, lastPos>>
            \/ got' = sent - lastPos /\ lastPos' = sent /\ UNCHANGED <<main, result>>
    /\ spoiled' = (spoiled \/ (main' = "release" /\ result' # "ok"))
    /\ UNCHANGED <<stop, loggedIn, locks, call, reply, machine, stopVars, counters>>

Release ==
    /\ MainGoes("release", "idle")
    /\ cmdLocked' = FALSE /\ fetchLocked' = FALSE /\ reply' = "nothing"
    /\ UNCHANGED <<stop, loggedIn, commLocked, lastPos, call, result, got, machine, stopVars, counters,
                   spoiled>>

-----------------------------------------------------------------------------
(* stop and force_stop.                                                    *)

StopperGoes(t, from, to) == stopper[t] = from /\ stopper' = [stopper EXCEPT ![t] = to]

\* The step of a stop request changes nothing but where the request is.
OnlyStopper ==
    UNCHANGED <<stop, loggedIn, locks, lastPos, main, outcome, machine, force, stops, target,
                counters, spoiled>>

CallStop(t) ==
    /\ stops[t] < MaxStops[t] /\ stopper[t] \in {"idle", "done"}
    /\ t = Main => main = "idle"
    /\ stopper' = [stopper EXCEPT ![t] = IF IsRunning THEN "set" ELSE "done"]
    /\ stops' = [stops EXCEPT ![t] = @ + 1]
    /\ target' = [target EXCEPT ![t] = boots]
    /\ \E kind \in BOOLEAN : force' = [force EXCEPT ![t] = IsRunning /\ kind]
    /\ UNCHANGED <<stop, loggedIn, locks, lastPos, main, outcome, machine, counters, spoiled>>

\* Mutant: force_stop shuts down like stop.
SetStopGently(t) ==
    /\ StopperGoes(t, "set", "interrupt")
    /\ stop' = TRUE
    /\ UNCHANGED <<loggedIn, locks, lastPos, main, outcome, machine, force, stops, target,
                   counters, spoiled>>

SetStop(t) ==
    /\ StopperGoes(t, "set", IF force[t] THEN "killNow" ELSE "interrupt")
    /\ stop' = TRUE
    /\ UNCHANGED <<loggedIn, locks, lastPos, main, outcome, machine, force, stops, target,
                   counters, spoiled>>

\* Writing to a machine that has just exited raises SUTError, unless a stop is
\* requested; another request may have reset the flag.
WriteFails(t, from) ==
    ~IsRunning /\ ~stop /\ StopperGoes(t, from, "failed")

Interrupt(t) ==
    /\ \/ StopperGoes(t, "interrupt", "waitCommand")
       \/ (cmdLocked \/ fetchLocked) /\ WriteFails(t, "interrupt")
    /\ OnlyStopper

\* Every wait polls, and fails when the timer expires.
WaitWhile(t, condition, from, to) ==
    /\ \/ ~condition /\ StopperGoes(t, from, to)
       \/ StopperGoes(t, from, "failed")
    /\ OnlyStopper

WaitCommand(t) == WaitWhile(t, cmdLocked, "waitCommand", "waitFetch")

WaitFetch(t) == WaitWhile(t, fetchLocked, "waitFetch", "checkLogin")

CheckLogin(t) ==
    StopperGoes(t, "checkLogin", IF loggedIn THEN "sendPoweroff" ELSE "kill") /\ OnlyStopper

SendPoweroff(t) ==
    /\ StopperGoes(t, "sendPoweroff", "poweroff") \/ WriteFails(t, "sendPoweroff")
    /\ OnlyStopper

\* The timer is checked in this loop too, and what it raises is ignored.
PoweroffWait(t) == ~IsRunning /\ StopperGoes(t, "poweroff", "kill") /\ OnlyStopper

Kill(t) ==
    /\ StopperGoes(t, "kill", "waitComm")
    /\ killed' = (killed \/ IsRunning)
    /\ UNCHANGED <<stop, loggedIn, locks, lastPos, main, outcome, vm, guest, sent, force, stops,
                   target, counters, spoiled>>

KillNow(t) ==
    /\ StopperGoes(t, "killNow", IF IsRunning THEN "waitCommandNow" ELSE "stopped")
    /\ killed' = (killed \/ IsRunning)
    /\ UNCHANGED <<stop, loggedIn, locks, lastPos, main, outcome, vm, guest, sent, force, stops,
                   target, counters, spoiled>>

WaitCommandNow(t) == WaitWhile(t, cmdLocked, "waitCommandNow", "waitComm")

WaitComm(t) == WaitWhile(t, commLocked, "waitComm", "waitExit")

\* Mutant: the exit of the process is not waited for.
WaitExitNot(t) == StopperGoes(t, "waitExit", "stopped") /\ OnlyStopper

WaitExit(t) == WaitWhile(t, IsRunning, "waitExit", "stopped")

\* Mutant: the flag is reset by the requests that succeed only.
EndStopSucceeded(t) ==
    /\ \/ StopperGoes(t, "stopped", "done") /\ stop' = FALSE
       \/ StopperGoes(t, "failed", "idle") /\ UNCHANGED stop
    /\ force' = [force EXCEPT ![t] = FALSE]
    /\ UNCHANGED <<loggedIn, locks, lastPos, main, outcome, machine, stops, target, counters,
                   spoiled>>

\* The finally clause.
EndStop(t) ==
    /\ StopperGoes(t, "stopped", "done") \/ StopperGoes(t, "failed", "idle")
    /\ stop' = FALSE
    /\ force' = [force EXCEPT ![t] = FALSE]
    /\ UNCHANGED <<loggedIn, locks, lastPos, main, outcome, machine, stops, target, counters,
                   spoiled>>

-----------------------------------------------------------------------------
BootStep ==
    StartMachine \/ LogIn \/ BootFailed \/ Booted \/ ReleaseComm

ExecStep ==
    Lock \/ Exec \/ Parse \/ Match \/ Tested \/ Sending \/ Copy \/ Release

StopperStep(t) ==
    \/ SetStop(t) \/ Interrupt(t) \/ WaitCommand(t) \/ WaitFetch(t) \/ CheckLogin(t)
    \/ SendPoweroff(t) \/ PoweroffWait(t) \/ Kill(t) \/ KillNow(t) \/ WaitCommandNow(t)
    \/ WaitComm(t) \/ WaitExit(t) \/ EndStop(t)

Next ==
    \/ Communicate \/ RunCommand \/ Ping \/ FetchFile \/ BootStep \/ ExecStep
    \/ \E t \in Threads : CallStop(t) \/ StopperStep(t)
    \/ VmExits \/ GuestPanics

\* The threads keep running, timers expire, and a process does not survive its
\* signals for ever.  Nothing else is expected from the guest.
Fairness ==
    /\ WF_vars(BootStep) /\ WF_vars(ExecStep)
    /\ \A t \in Threads : WF_vars(StopperStep(t))
    /\ WF_vars(killed /\ VmExits)

Spec == Init /\ [][Next]_vars /\ Fairness

-----------------------------------------------------------------------------
Ended(t) == stopper[t] \in {"idle", "done"}

TypeOK ==
    /\ stop \in BOOLEAN /\ loggedIn \in BOOLEAN
    /\ commLocked \in BOOLEAN /\ cmdLocked \in BOOLEAN /\ fetchLocked \in BOOLEAN
    /\ lastPos \in 0 .. MaxCalls /\ sent \in 0 .. MaxCalls /\ got \in Nat
    /\ main \in MainPoints /\ result \in Results /\ reply \in Replies
    /\ call \in {"none", "communicate", "run_command", "ping", "test", "cat"}
    /\ stopper \in [Threads -> StopperPoints] /\ force \in [Threads -> BOOLEAN]
    /\ vm \in {"none", "running", "exited"} /\ killed \in BOOLEAN /\ spoiled \in BOOLEAN
    /\ guest \in {"booting", "shell", "panicked", "silent"}
    /\ boots \in 0 .. MaxBoots /\ calls \in 0 .. MaxCalls
    /\ stops \in [Threads -> Nat] /\ \A t \in Threads : stops[t] <= MaxStops[t]
    /\ target \in [Threads -> 0 .. MaxBoots]

\* stop never types poweroff at the boot of the machine that it was called for: such
\* a machine is killed, even if an earlier one had been logged in to.  (A machine that
\* takes its place between the look at _logged_in and the typing may get it.)
PoweroffToShell ==
    [][\A t \in Threads :
          stopper[t] = "sendPoweroff" /\ stopper'[t] = "poweroff"
              /\ IsRunning /\ boots = target[t] => guest # "booting"]_vars

\* A stop or force_stop that returns normally leaves no machine behind: the one it
\* was called for has exited.
StopEndsMachine ==
    \A t \in Threads :
        stopper[t] = "done" /\ stops[t] > 0 => ~(IsRunning /\ target[t] = boots)

\* The flag does not outlive the requests that set it: commands of the next
\* machine are not taken for stopped.
NoStaleStop == stop => \E t \in Threads : ~Ended(t)

\* On the first machine, until a transfer goes wrong (a cat that fails or has no reply
\* counts, also when fetch_file takes it for a success), fetch_file returns the file
\* and nothing else, although all files go through one growing transport file.
FetchExact ==
    main = "idle" /\ call = "cat" /\ result = "ok" /\ boots = 1 /\ ~spoiled => got = 1

\* force_stop returns, whatever the guest and the other threads do.
ForceStopReturns ==
    \A t \in Threads : stopper[t] = "set" /\ force[t] ~> Ended(t)

\* qemu.py:400, "let process to be killed": stop returns, also when the guest does
\* not power off within the timeout.
StopReturns == \A t \in Threads : stopper[t] = "set" ~> Ended(t)

\* sut.py:218, "bytes contained in target_path": the first fetch_file, if nothing is
\* stopped and no error raised, returns the file.  (qemu.py:606 lets a failed cat by.)
FetchWhole ==
    main = "idle" /\ call = "cat" /\ result = "ok" /\ boots = 1 /\ calls = 1
        /\ (\A t \in Threads : stops[t] = 0) => got = 1

\* qemu.py:383, "logged in -> poweroff": nothing but a guest that has left its boot
\* gets the poweroff of a stop.
PoweroffNeverAtBoot ==
    [][\A t \in Threads :
          stopper[t] = "sendPoweroff" /\ stopper'[t] = "poweroff" /\ IsRunning
              => guest # "booting"]_vars

\* qemu.py:534, "this can happen when shell is available but something happened
\* during commands execution": a communicate that raises SUTError leaves no
\* machine running.
FailedBootKilled ==
    main = "idle" /\ call = "communicate" /\ result = "error" => ~IsRunning \/ killed
=============================================================================
