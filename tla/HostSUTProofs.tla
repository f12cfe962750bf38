---------------------------- MODULE HostSUTProofs ----------------------------
(* Theorems about HostSUT, for every number of stoppers and all the bounds. *)
EXTENDS HostSUT, TLAPS

(***************************************************************************)
(* The steps, by what they may change.                                     *)
(***************************************************************************)
RunnerStep == Communicate \/ RunCommand \/ FetchFile \/ CommandStep \/ FetchStep

HostStep == \E c \in Commands : ProcessExits(c) \/ PipeReleased(c)

\* The runner and the host leave the stop requests alone; only fetch_file touches
\* the flag, and only communicate starts the target.
LEMMA RunnerSteps ==
    ASSUME RunnerStep \/ HostStep
    PROVE  /\ UNCHANGED stopVars
           /\ \/ UNCHANGED <<stop, stoppedSince>>
              \/ BeginFetch /\ stop' = FALSE
           /\ \/ UNCHANGED <<initialized, starts>>
              \/ initialized' /\ starts' = starts + 1
<1> USE DEF flags, counters
<1>1. CASE Communicate \/ RunCommand \/ FetchFile
  BY <1>1 DEF Communicate, RunCommand, FetchFile
<1>2. CASE CommandStep
  BY <1>2 DEF CommandStep, LockCommand, Spawn, PollDone, PollTimeout, Drain, Read, ClearProc,
              ReleaseCommand
<1>3. CASE FetchStep
  BY <1>3 DEF FetchStep, BeginFetch, ReadFile, ReleaseFetch
<1>4. CASE HostStep
  BY <1>4 DEF HostStep, ProcessExits, PipeReleased
<1> QED
  BY <1>1, <1>2, <1>3, <1>4 DEF RunnerStep

\* A request moves itself alone, and leaves the runner and its counters as they are.
LEMMA StopperSteps ==
    ASSUME NEW s \in Stoppers, CallStop(s) \/ StopperStep(s)
    PROVE  /\ \E to \in StopperPoints :
                /\ stopper' = [stopper EXCEPT ![s] = to]
                /\ to = "terminated" => ~cmdLocked
                /\ stopper[s] = "idle" /\ to # "idle" => CallStop(s)
                /\ initialized' = initialized \/ (initialized' = FALSE /\ stopper[s] # "idle")
           /\ \/ UNCHANGED <<stop, stoppedSince, pending>>
              \/ SetStop(s)
           /\ \/ UNCHANGED stops
              \/ CallStop(s)
           /\ UNCHANGED <<proc, locks, runner, result, counters>>
<1> USE DEF StopperGoes, StopperPoints, flags
<1>1. CASE CallStop(s)
  <2>1. PICK to \in {"set", "idle"} : stopper' = [stopper EXCEPT ![s] = to]
    BY <1>1 DEF CallStop
  <2> QED
    BY <1>1, <2>1 DEF CallStop
<1>2. CASE SetStop(s)
  BY <1>2 DEF SetStop
<1>3. CASE LookForProc(s)
  BY <1>3 DEF LookForProc
<1>4. CASE Signal(s)
  BY <1>4 DEF Signal
<1>5. CASE WaitFetch(s)
  BY <1>5 DEF WaitFetch
<1>6. CASE WaitCommand(s)
  BY <1>6 DEF WaitCommand
<1> QED
  BY <1>1, <1>2, <1>3, <1>4, <1>5, <1>6 DEF StopperStep

(***************************************************************************)
(* Type correctness, which is inductive.                                   *)
(***************************************************************************)

\* The runner keeps the types.
LEMMA TypeRunner == TypeOK /\ RunnerStep => TypeOK'
<1> SUFFICES ASSUME TypeOK, RunnerStep PROVE TypeOK'
  OBVIOUS
<1> USE HostAssumption DEF TypeOK, RunnerGoes, flags, locks, host, counters, stopVars,
        RunnerPoints, Results
<1>0. \A max \in Nat : 0 \in 0 .. max /\ \A n \in 0 .. max : n < max => n + 1 \in 0 .. max
  OBVIOUS
<1>1. CASE Communicate \/ RunCommand \/ FetchFile
  <2>1. CASE Communicate
    BY <1>0, <2>1 DEF Communicate
  <2>2. CASE RunCommand
    BY <1>0, <2>2 DEF RunCommand
  <2>3. CASE FetchFile
    BY <1>0, <2>3 DEF FetchFile
  <2> QED
    BY <1>1, <2>1, <2>2, <2>3
<1>2. CASE LockCommand \/ Spawn
  BY <1>2 DEF LockCommand, Spawn, Commands
<1>3. CASE PollDone \/ PollTimeout \/ Drain \/ Read
  BY <1>3 DEF PollDone, PollTimeout, Drain, Read
<1>4. CASE ClearProc \/ ReleaseCommand
  <2>1. CASE ClearProc
    BY <1>0, <2>1 DEF ClearProc
  <2>2. CASE ReleaseCommand
    BY <2>2 DEF ReleaseCommand
  <2> QED
    BY <1>4, <2>1, <2>2
<1>5. CASE FetchStep
  BY <1>5 DEF FetchStep, BeginFetch, ReadFile, ReleaseFetch
<1> QED
  BY <1>1, <1>2, <1>3, <1>4, <1>5 DEF RunnerStep, CommandStep

\* The stop requests keep the types.
LEMMA TypeStopper ==
    ASSUME TypeOK, NEW s \in Stoppers, CallStop(s) \/ StopperStep(s)
    PROVE  TypeOK'
<1>1. UNCHANGED <<proc, locks, runner, result, counters>>
  BY StopperSteps
<1>2. stopper' \in [Stoppers -> StopperPoints]
  BY StopperSteps DEF TypeOK
<1>3. stop' \in BOOLEAN /\ stoppedSince' \in BOOLEAN /\ initialized' \in BOOLEAN
  BY StopperSteps DEF SetStop, TypeOK
<1>4. pending' \in [Stoppers -> 0 .. MaxCommands]
  <2>1. 0 \in 0 .. MaxCommands /\ commands \in 0 .. MaxCommands
    BY HostAssumption DEF TypeOK
  <2>2. CASE SetStop(s)
    <3>1. PICK n \in 0 .. MaxCommands : pending' = [pending EXCEPT ![s] = n]
      BY <2>1, <2>2 DEF SetStop
    <3> QED
      BY <3>1 DEF TypeOK
  <2>3. CASE UNCHANGED pending
    BY <2>3 DEF TypeOK
  <2> QED
    BY <2>2, <2>3, StopperSteps
<1>5. stops' \in [Stoppers -> 0 .. MaxStops]
  <2>1. CASE CallStop(s)
    <3>1. stops[s] \in 0 .. MaxStops /\ stops[s] + 1 \in 0 .. MaxStops
      BY <2>1, HostAssumption DEF CallStop, TypeOK
    <3> QED
      BY <2>1, <3>1 DEF CallStop, TypeOK
  <2> QED
    BY <2>1, StopperSteps DEF TypeOK
<1>6. sig' \in [Stoppers -> {"HUP", "KILL"}]
  BY DEF CallStop, StopperStep, SetStop, LookForProc, Signal, WaitFetch, WaitCommand, TypeOK
<1>7. /\ process' \in [Commands -> {"unborn", "running", "exited"}]
      /\ pipeHeld' \in [Commands -> BOOLEAN]
  BY DEF CallStop, StopperStep, SetStop, LookForProc, Signal, ShellDies, WaitFetch,
         WaitCommand, host, TypeOK
<1> QED
  BY <1>1, <1>2, <1>3, <1>4, <1>5, <1>6, <1>7 DEF TypeOK, locks, counters

\* HostSUT keeps its types: commands, files, starts and requests stay within their
\* bounds, and every command found running is one that there was.
THEOREM TypeCorrect == Spec => []TypeOK
<1>1. Init => TypeOK
  <2>1. /\ 0 \in 0 .. MaxCommands /\ 0 \in 0 .. MaxFetches
        /\ 0 \in 0 .. MaxStarts /\ 0 \in 0 .. MaxStops
    BY HostAssumption
  <2> SUFFICES ASSUME Init PROVE TypeOK
    OBVIOUS
  <2>2. /\ stopper \in [Stoppers -> StopperPoints] /\ sig \in [Stoppers -> {"HUP", "KILL"}]
        /\ stops \in [Stoppers -> 0 .. MaxStops] /\ pending \in [Stoppers -> 0 .. MaxCommands]
    BY <2>1 DEF Init, StopperPoints
  <2>3. /\ process \in [Commands -> {"unborn", "running", "exited"}]
        /\ pipeHeld \in [Commands -> BOOLEAN]
    BY DEF Init
  <2> QED
    BY <2>1, <2>2, <2>3 DEF Init, TypeOK, RunnerPoints, Results
<1>2. ASSUME TypeOK, [Next]_vars PROVE TypeOK'
  <2>1. CASE RunnerStep
    BY <1>2, <2>1, TypeRunner
  <2>2. ASSUME NEW s \in Stoppers, CallStop(s) \/ StopperStep(s) PROVE TypeOK'
    BY <1>2, <2>2, TypeStopper
  <2>3. CASE HostStep
    BY <1>2, <2>3 DEF HostStep, ProcessExits, PipeReleased, ShellDies, TypeOK, flags, locks,
                      counters, stopVars
  <2>4. CASE UNCHANGED vars
    BY <1>2, <2>4 DEF vars, flags, locks, host, counters, stopVars, TypeOK
  <2> QED
    BY <1>2, <2>1, <2>2, <2>3, <2>4 DEF Next, RunnerStep, HostStep
<1> QED
  BY <1>1, <1>2, PTL DEF Spec

(***************************************************************************)
(* What a stop has waited for.  The lock of a command is held from its     *)
(* start to its end.  A command that has been called and not locked yet is *)
(* later than any that a stop has found.                                   *)
(***************************************************************************)
InCommand == {"spawn", "poll", "drain", "read", "clear", "releaseCommand"}

WaitInv ==
    /\ cmdLocked <=> runner \in InCommand
    /\ runner = "enterCommand" => commands > 0
    /\ \A s \in Stoppers :
        /\ pending[s] <= commands
        /\ runner = "enterCommand" => pending[s] < commands
        /\ stopper[s] = "terminated" /\ runner \in InCommand => pending[s] < commands

\* The runner keeps its lock and numbers its commands in order.
LEMMA RunnerGoesOn ==
    ASSUME TypeOK, WaitInv, RunnerStep \/ HostStep
    PROVE  /\ cmdLocked' <=> runner' \in InCommand
           /\ commands' \in {commands, commands + 1}
           /\ runner' = "enterCommand" =>
                commands' = commands + 1 \/ (runner = "enterCommand" /\ commands' = commands)
           /\ runner' \in InCommand =>
                commands' = commands /\ runner \in InCommand \cup {"enterCommand"}
<1> USE DEF WaitInv, InCommand, RunnerGoes, locks, counters
<1>1. CASE Communicate \/ RunCommand \/ FetchFile
  BY <1>1 DEF Communicate, RunCommand, FetchFile
<1>2. CASE LockCommand \/ Spawn \/ PollDone \/ PollTimeout
  BY <1>2 DEF LockCommand, Spawn, PollDone, PollTimeout
<1>3. CASE Drain \/ Read \/ ClearProc \/ ReleaseCommand
  BY <1>3 DEF Drain, Read, ClearProc, ReleaseCommand
<1>4. CASE FetchStep
  BY <1>4 DEF FetchStep, BeginFetch, ReadFile, ReleaseFetch
<1>5. CASE HostStep
  BY <1>5 DEF HostStep, ProcessExits, PipeReleased
<1> QED
  BY <1>1, <1>2, <1>3, <1>4, <1>5 DEF RunnerStep, CommandStep

\* A stop that returns normally has waited for the command it found running.
\* (HostSUT._inner_stop and the lock of run_command.)
THEOREM StopWaits == Spec => []StopWaitsForCommand
<1>1. Init => WaitInv
  BY DEF Init, WaitInv, InCommand
<1>2. ASSUME TypeOK, WaitInv, [Next]_vars PROVE WaitInv'
  <2>0. commands \in Nat /\ \A s \in Stoppers : pending[s] \in Nat
    BY <1>2, HostAssumption DEF TypeOK
  <2>1. CASE RunnerStep \/ HostStep
    <3>1. UNCHANGED <<stopper, pending>>
      BY <2>1, RunnerSteps DEF stopVars
    <3> QED
      BY <1>2, <2>0, <2>1, <3>1, RunnerGoesOn DEF WaitInv, InCommand
  <2>2. ASSUME NEW s \in Stoppers, CallStop(s) \/ StopperStep(s) PROVE WaitInv'
    <3>1. UNCHANGED <<cmdLocked, runner, commands>>
      BY <2>2, StopperSteps DEF locks, counters
    <3>2. \A u \in Stoppers : u # s => stopper'[u] = stopper[u] /\ pending'[u] = pending[u]
      BY <1>2, <2>2, StopperSteps DEF SetStop, TypeOK
    <3>3. pending'[s] = pending[s] \/ pending'[s] = IF cmdLocked THEN commands ELSE 0
      BY <1>2, <2>2, StopperSteps DEF SetStop, TypeOK
    <3>4. stopper'[s] = "terminated" => ~cmdLocked
      BY <1>2, <2>2, StopperSteps DEF TypeOK
    <3> QED
      BY <1>2, <2>0, <3>1, <3>2, <3>3, <3>4 DEF WaitInv, InCommand
  <2>3. CASE UNCHANGED vars
    BY <1>2, <2>3 DEF vars, locks, counters, stopVars, WaitInv
  <2> QED
    BY <1>2, <2>1, <2>2, <2>3 DEF Next, RunnerStep, HostStep
<1>3. WaitInv => StopWaitsForCommand
  BY DEF WaitInv, StopWaitsForCommand
<1> QED
  BY <1>1, <1>2, <1>3, TypeCorrect, PTL DEF Spec

(***************************************************************************)
(* What cuts output and files short.  Somebody has asked for a stop if the *)
(* flag is set, a request is under way, or the target was started and does *)
(* not run; the flag that fetch_file sees was set after it had reset it.   *)
(***************************************************************************)
Asked == \E s \in Stoppers : stops[s] > 0

CutInv ==
    /\ stop => Asked
    /\ \A s \in Stoppers : stopper[s] # "idle" => Asked
    /\ starts > 0 /\ ~initialized => Asked
    /\ initialized \/ runner \in InCommand \cup {"enterCommand"} => starts > 0
    /\ runner = "enterFetch" => result = "none"
    /\ runner = "fetch" /\ stop => stoppedSince
    /\ CutByStop

\* The runner keeps the invariant.
LEMMA CutRunner ==
    ASSUME TypeOK, CutInv, RunnerStep \/ HostStep
    PROVE  CutInv'
<1>1. UNCHANGED stopVars /\ Asked' = Asked
  BY RunnerSteps DEF Asked, stopVars
<1>2. starts \in Nat
  BY HostAssumption DEF TypeOK
<1> USE <1>1, <1>2 DEF CutInv, CutByStop, InCommand, RunnerGoes, flags, locks, counters, stopVars
<1> HIDE DEF Asked
<1>3. (\E s \in Stoppers : stops[s] > 0) <=> Asked
  BY DEF Asked
<1>4. (\E s \in Stoppers : stops'[s] > 0) <=> Asked
  BY <1>1 DEF Asked
<1> USE <1>3, <1>4
<1>5. CASE Communicate \/ RunCommand \/ FetchFile
  BY <1>5 DEF Communicate, RunCommand, FetchFile
<1>6. CASE LockCommand \/ Spawn \/ PollDone \/ PollTimeout
  BY <1>6 DEF LockCommand, Spawn, PollDone, PollTimeout
<1>7. CASE Drain
  BY <1>7 DEF Drain
<1>8. CASE Read \/ ClearProc \/ ReleaseCommand
  BY <1>8 DEF Read, ClearProc, ReleaseCommand
<1>9. CASE FetchStep
  BY <1>9 DEF FetchStep, BeginFetch, ReadFile, ReleaseFetch
<1>10. CASE HostStep
  BY <1>10 DEF HostStep, ProcessExits, PipeReleased
<1> QED
  BY <1>5, <1>6, <1>7, <1>8, <1>9, <1>10 DEF RunnerStep, CommandStep

\* Output is dropped only when somebody has asked for a stop, and a file is cut short
\* only by a stop requested during that very fetch_file.  (run_command, fetch_file.)
THEOREM OnlyStopsCut == Spec => []CutByStop
<1>1. Init => CutInv
  BY DEF Init, CutInv, CutByStop, InCommand
<1>2. ASSUME TypeOK, CutInv, [Next]_vars PROVE CutInv'
  <2>1. CASE RunnerStep \/ HostStep
    BY <1>2, <2>1, CutRunner
  <2>2. ASSUME NEW s \in Stoppers, CallStop(s) \/ StopperStep(s) PROVE CutInv'
    <3>1. UNCHANGED <<runner, result, starts>>
      BY <2>2, StopperSteps DEF counters
    <3>2. CASE CallStop(s)
      <4>1. Asked'
        BY <1>2, <3>2, HostAssumption DEF CallStop, Asked, TypeOK
      <4>2. UNCHANGED <<initialized, stop, stoppedSince>>
        BY <3>2 DEF CallStop, flags
      <4> QED
        BY <1>2, <3>1, <4>1, <4>2 DEF CutInv, CutByStop, Asked
    <3>3. CASE ~CallStop(s)
      <4>1. stops' = stops
        BY <2>2, <3>3, StopperSteps
      <4>2. stopper[s] # "idle"
        BY <2>2, <3>3 DEF StopperStep, SetStop, LookForProc, Signal, WaitFetch, WaitCommand,
                          StopperGoes
      <4>3. Asked /\ Asked'
        BY <1>2, <4>1, <4>2 DEF CutInv, Asked
      <4>4. initialized' => initialized
        BY <2>2, StopperSteps
      <4>5. UNCHANGED <<stop, stoppedSince>> \/ (stop' /\ stoppedSince')
        BY <2>2, StopperSteps DEF SetStop
      <4> QED
        BY <1>2, <3>1, <4>3, <4>4, <4>5 DEF CutInv, CutByStop, Asked
    <3> QED
      BY <3>2, <3>3
  <2>3. CASE UNCHANGED vars
    BY <1>2, <2>3 DEF vars, flags, counters, stopVars, CutInv, CutByStop, Asked
  <2> QED
    BY <1>2, <2>1, <2>2, <2>3 DEF Next, RunnerStep, HostStep
<1>3. CutInv => CutByStop
  BY DEF CutInv
<1> QED
  BY <1>1, <1>2, <1>3, TypeCorrect, PTL DEF Spec
=============================================================================
