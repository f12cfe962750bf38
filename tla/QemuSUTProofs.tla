---------------------------- MODULE QemuSUTProofs ----------------------------
(* Theorems about QemuSUT, for every number of stoppers and all the bounds. *)
EXTENDS QemuSUT, TLAPS

(***************************************************************************)
(* The steps, by what they may change.                                     *)
(***************************************************************************)
MainStep == Communicate \/ RunCommand \/ Ping \/ FetchFile \/ BootStep \/ ExecStep

\* Whoever is not stopping leaves the requests and the flag alone.
LEMMA MainSteps ==
    ASSUME MainStep \/ VmExits \/ GuestPanics
    PROVE  UNCHANGED stopVars /\ UNCHANGED stop
<1>1. CASE Communicate \/ RunCommand \/ Ping \/ FetchFile
  BY <1>1 DEF Communicate, RunCommand, Ping, FetchFile, BeginCall
<1>2. CASE BootStep
  BY <1>2 DEF BootStep, StartMachine, LogIn, BootFailed, Booted, ReleaseComm
<1>3. CASE ExecStep
  BY <1>3 DEF ExecStep, Lock, Exec, Parse, Match, Tested, Sending, Copy, Release
<1>4. CASE VmExits \/ GuestPanics
  BY <1>4 DEF VmExits, GuestPanics
<1> QED
  BY <1>1, <1>2, <1>3, <1>4 DEF MainStep

\* A step of a request moves that request alone; it leaves the machine running or
\* not, and counts nothing.
LEMMA StopperSteps ==
    ASSUME NEW t \in Threads, StopperStep(t)
    PROVE  /\ \E to \in StopperPoints :
                 /\ stopper' = [stopper EXCEPT ![t] = to]
                 /\ to = "sendPoweroff" => stopper[t] = "checkLogin" /\ loggedIn
                 /\ to = "stopped" => stopper[t] \in {"killNow", "waitExit"} /\ ~IsRunning
                 /\ to = "done" => stopper[t] = "stopped"
                 /\ to \in {"idle", "done"} => ~stop'
           /\ UNCHANGED <<loggedIn, locks, lastPos, main, outcome, vm, guest, sent, stops, target,
                          counters, spoiled>>
<1> USE DEF StopperGoes, OnlyStopper, WaitWhile, WriteFails, StopperPoints, machine
<1>1. CASE SetStop(t)
  BY <1>1 DEF SetStop
<1>2. CASE Interrupt(t)
  BY <1>2 DEF Interrupt
<1>3. CASE WaitCommand(t)
  BY <1>3 DEF WaitCommand
<1>4. CASE WaitFetch(t)
  BY <1>4 DEF WaitFetch
<1>5. CASE CheckLogin(t)
  BY <1>5 DEF CheckLogin
<1>6. CASE SendPoweroff(t)
  BY <1>6 DEF SendPoweroff
<1>7. CASE PoweroffWait(t)
  BY <1>7 DEF PoweroffWait
<1>8. CASE Kill(t)
  BY <1>8 DEF Kill
<1>9. CASE KillNow(t)
  BY <1>9 DEF KillNow
<1>10. CASE WaitCommandNow(t)
  BY <1>10 DEF WaitCommandNow
<1>11. CASE WaitComm(t)
  BY <1>11 DEF WaitComm
<1>12. CASE WaitExit(t)
  BY <1>12 DEF WaitExit
<1>13. CASE EndStop(t)
  BY <1>13 DEF EndStop
<1> QED
  BY <1>1, <1>2, <1>3, <1>4, <1>5, <1>6, <1>7, <1>8, <1>9, <1>10, <1>11, <1>12, <1>13
  DEF StopperStep

(***************************************************************************)
(* Type correctness, in four parts.  That no more files get to the         *)
(* transport file than there are calls needs the points of the main thread *)
(* at which the call still has to send its file.                           *)
(***************************************************************************)
Flags ==
    /\ stop \in BOOLEAN /\ loggedIn \in BOOLEAN /\ killed \in BOOLEAN /\ spoiled \in BOOLEAN
    /\ commLocked \in BOOLEAN /\ cmdLocked \in BOOLEAN /\ fetchLocked \in BOOLEAN

Control ==
    /\ main \in MainPoints /\ result \in Results /\ reply \in Replies
    /\ call \in {"none", "communicate", "run_command", "ping", "test", "cat"}
    /\ vm \in {"none", "running", "exited"}
    /\ guest \in {"booting", "shell", "panicked", "silent"}

HasToSend ==
    \/ main \in {"lock", "tested"}
    \/ main = "exec" /\ call \in {"test", "cat"}
    \/ main = "parse" /\ call = "test"

Booting == main \in {"spawn", "login", "bootFailed", "booted", "releaseComm"}

Counts ==
    /\ boots \in 0 .. MaxBoots /\ calls \in 0 .. MaxCalls
    /\ sent \in 0 .. calls /\ lastPos \in 0 .. calls /\ got \in Nat
    /\ HasToSend => sent < calls
    /\ main = "spawn" => boots < MaxBoots
    /\ Booting => call = "communicate"

Requests ==
    /\ stopper \in [Threads -> StopperPoints] /\ force \in [Threads -> BOOLEAN]
    /\ stops \in [Threads -> Nat] /\ \A t \in Threads : stops[t] <= MaxStops[t]
    /\ target \in [Threads -> 0 .. MaxBoots]

TypeInv == Flags /\ Control /\ Counts /\ Requests

\* The types hold initially.
LEMMA TypeInit == Init => TypeInv
<1> SUFFICES ASSUME Init PROVE TypeInv
  OBVIOUS
<1>1. Flags
  BY DEF Init, Flags
<1>2. Control
  BY DEF Init, Control, MainPoints, Results, Replies, ReturnCodes
<1>3. Counts
  BY QemuAssumption DEF Init, Counts, HasToSend, Booting
<1>4. Requests
  BY QemuAssumption DEF Init, Requests, StopperPoints
<1> QED
  BY <1>1, <1>2, <1>3, <1>4 DEF TypeInv

\* Every step keeps the flags Boolean.
LEMMA FlagsStep == Flags /\ Next => Flags'
<1> SUFFICES ASSUME Flags, Next PROVE Flags'
  OBVIOUS
<1> USE DEF Flags, locks, machine, outcome, counters
<1>1. CASE Communicate
  BY <1>1 DEF Communicate
<1>2. CASE RunCommand
  BY <1>2 DEF RunCommand, BeginCall
<1>3. CASE Ping
  BY <1>3 DEF Ping, BeginCall
<1>4. CASE FetchFile
  BY <1>4 DEF FetchFile, BeginCall
<1>5. CASE StartMachine
  BY <1>5 DEF StartMachine
<1>6. CASE LogIn
  BY <1>6 DEF LogIn
<1>8. CASE BootFailed
  BY <1>8 DEF BootFailed
<1>9. CASE Booted
  BY <1>9 DEF Booted
<1>10. CASE ReleaseComm
  BY <1>10 DEF ReleaseComm
<1>11. CASE Lock
  BY <1>11 DEF Lock
<1>12. CASE Exec
  BY <1>12 DEF Exec
<1>13. CASE Parse
  BY <1>13 DEF Parse, Replied
<1>14. CASE Match
  BY <1>14 DEF Match
<1>15. CASE Tested
  BY <1>15 DEF Tested
<1>16. CASE Sending
  BY <1>16 DEF Sending
<1>17. CASE Copy
  BY <1>17 DEF Copy
<1>18. CASE Release
  BY <1>18 DEF Release
<1>19. CASE VmExits
  BY <1>19 DEF VmExits
<1>20. CASE GuestPanics
  BY <1>20 DEF GuestPanics
<1>21. ASSUME NEW t \in Threads, CallStop(t) PROVE Flags'
  BY <1>21 DEF CallStop
<1>22. ASSUME NEW t \in Threads, StopperStep(t) PROVE Flags'
  <2>1. UNCHANGED <<loggedIn, locks, spoiled>>
    BY <1>22, StopperSteps
  <2>2. stop' \in BOOLEAN /\ killed' \in BOOLEAN
    BY <1>22
    DEF StopperStep, SetStop, Interrupt, WaitCommand, WaitFetch, CheckLogin, SendPoweroff,
        PoweroffWait, Kill, KillNow, WaitCommandNow, WaitComm, WaitExit, EndStop, OnlyStopper,
        WaitWhile
  <2> QED
    BY <2>1, <2>2
<1> QED
  BY <1>1, <1>2, <1>3, <1>4, <1>5, <1>6, <1>8, <1>9, <1>10, <1>11, <1>12, <1>13, <1>14, <1>15, <1>16, <1>17, <1>18, <1>19, <1>20, <1>21, <1>22
  DEF Next, BootStep, ExecStep

\* Every step keeps the control state in its sets.
LEMMA ControlStep == Control /\ Next => Control'
<1> SUFFICES ASSUME Control, Next PROVE Control'
  OBVIOUS
<1> USE DEF Control, MainPoints, Results, Replies, ReturnCodes, MainGoes, Leave, Failed, Raised, CodesOf, locks, machine, outcome, counters
<1>1. CASE Communicate
  BY <1>1 DEF Communicate
<1>2. CASE RunCommand
  BY <1>2 DEF RunCommand, BeginCall
<1>3. CASE Ping
  BY <1>3 DEF Ping, BeginCall
<1>4. CASE FetchFile
  BY <1>4 DEF FetchFile, BeginCall
<1>5. CASE StartMachine
  BY <1>5 DEF StartMachine
<1>6. CASE LogIn
  BY <1>6 DEF LogIn
<1>8. CASE BootFailed
  BY <1>8 DEF BootFailed
<1>9. CASE Booted
  BY <1>9 DEF Booted
<1>10. CASE ReleaseComm
  BY <1>10 DEF ReleaseComm
<1>11. CASE Lock
  BY <1>11 DEF Lock
<1>12. CASE Exec
  BY <1>12 DEF Exec
<1>13. CASE Parse
  BY <1>13 DEF Parse, Replied
<1>14. CASE Match
  BY <1>14 DEF Match
<1>15. CASE Tested
  BY <1>15 DEF Tested
<1>16. CASE Sending
  BY <1>16 DEF Sending
<1>17. CASE Copy
  BY <1>17 DEF Copy
<1>18. CASE Release
  BY <1>18 DEF Release
<1>19. CASE VmExits
  BY <1>19 DEF VmExits
<1>20. CASE GuestPanics
  BY <1>20 DEF GuestPanics
<1>21. ASSUME NEW t \in Threads, CallStop(t) PROVE Control'
  BY <1>21 DEF CallStop
<1>22. ASSUME NEW t \in Threads, StopperStep(t) PROVE Control'
  BY <1>22, StopperSteps
<1> QED
  BY <1>1, <1>2, <1>3, <1>4, <1>5, <1>6, <1>8, <1>9, <1>10, <1>11, <1>12, <1>13, <1>14, <1>15, <1>16, <1>17, <1>18, <1>19, <1>20, <1>21, <1>22
  DEF Next, BootStep, ExecStep

\* Every step keeps the counters within their bounds.
LEMMA CountsStep == Counts /\ Next => Counts'
<1> SUFFICES ASSUME Counts, Next PROVE Counts'
  OBVIOUS
<1> USE QemuAssumption DEF Counts, HasToSend, Booting, MainGoes, Leave, Failed, Raised, CodesOf, locks, machine,
        outcome, counters
<1>1. CASE Communicate
  BY <1>1 DEF Communicate
<1>2. CASE RunCommand
  BY <1>2 DEF RunCommand, BeginCall
<1>3. CASE Ping
  BY <1>3 DEF Ping, BeginCall
<1>4. CASE FetchFile
  BY <1>4 DEF FetchFile, BeginCall
<1>5. CASE StartMachine
  BY <1>5 DEF StartMachine
<1>6. CASE LogIn
  BY <1>6 DEF LogIn
<1>8. CASE BootFailed
  BY <1>8 DEF BootFailed
<1>9. CASE Booted
  BY <1>9 DEF Booted
<1>10. CASE ReleaseComm
  BY <1>10 DEF ReleaseComm
<1>11. CASE Lock
  BY <1>11 DEF Lock
<1>12. CASE Exec
  <2>1. \/ main' \in {"parse", "release"}
        \/ main' \in {"bootFailed", "releaseComm"} /\ call = "communicate"
    BY <1>12 DEF Exec
  <2>2. sent' \in {sent, sent + 1} /\ (call # "cat" => sent' = sent)
    BY <1>12 DEF Exec
  <2>3. main = "exec" /\ UNCHANGED <<call, got, lastPos, boots, calls>>
    BY <1>12 DEF Exec
  <2> QED
    BY <2>1, <2>2, <2>3
<1>13. CASE Parse
  BY <1>13 DEF Parse, Replied
<1>14. CASE Match
  BY <1>14 DEF Match
<1>15. CASE Tested
  BY <1>15 DEF Tested
<1>16. CASE Sending
  BY <1>16 DEF Sending
<1>17. CASE Copy
  BY <1>17 DEF Copy
<1>18. CASE Release
  BY <1>18 DEF Release
<1>19. CASE VmExits
  BY <1>19 DEF VmExits
<1>20. CASE GuestPanics
  BY <1>20 DEF GuestPanics
<1>21. ASSUME NEW t \in Threads, CallStop(t) PROVE Counts'
  BY <1>21 DEF CallStop
<1>22. ASSUME NEW t \in Threads, StopperStep(t) PROVE Counts'
  BY <1>22, StopperSteps
<1> QED
  BY <1>1, <1>2, <1>3, <1>4, <1>5, <1>6, <1>8, <1>9, <1>10, <1>11, <1>12, <1>13, <1>14, <1>15, <1>16, <1>17, <1>18, <1>19, <1>20, <1>21, <1>22
  DEF Next, BootStep, ExecStep

\* Every step keeps the requests in their sets.
LEMMA RequestsStep == Requests /\ boots \in 0 .. MaxBoots /\ Next => Requests'
<1> SUFFICES ASSUME Requests, boots \in 0 .. MaxBoots, Next PROVE Requests'
  OBVIOUS
<1>1. CASE MainStep \/ VmExits \/ GuestPanics
  BY <1>1, MainSteps DEF Requests, stopVars
<1>2. ASSUME NEW t \in Threads, CallStop(t) PROVE Requests'
  <2>1. stops' \in [Threads -> Nat] /\ \A u \in Threads : stops'[u] <= MaxStops[u]
    <3>1. MaxStops[t] \in Nat /\ stops[t] < MaxStops[t] /\ stops' = [stops EXCEPT ![t] = @ + 1]
      BY <1>2, QemuAssumption DEF CallStop
    <3> QED
      BY <3>1 DEF Requests
  <2>2. force' \in [Threads -> BOOLEAN]
    BY <1>2 DEF CallStop, Requests
  <2>3. stopper' \in [Threads -> StopperPoints] /\ target' \in [Threads -> 0 .. MaxBoots]
    BY <1>2 DEF CallStop, Requests, StopperPoints
  <2> QED
    BY <2>1, <2>2, <2>3 DEF Requests
<1>3. ASSUME NEW t \in Threads, StopperStep(t) PROVE Requests'
  <2>1. stopper' \in [Threads -> StopperPoints] /\ UNCHANGED <<stops, target>>
    BY <1>3, StopperSteps DEF Requests
  <2>2. force' = force \/ force' = [force EXCEPT ![t] = FALSE]
    BY <1>3
    DEF StopperStep, SetStop, Interrupt, WaitCommand, WaitFetch, CheckLogin, SendPoweroff,
        PoweroffWait, Kill, KillNow, WaitCommandNow, WaitComm, WaitExit, EndStop, OnlyStopper,
        WaitWhile
  <2>3. force' \in [Threads -> BOOLEAN]
    BY <2>2 DEF Requests
  <2> QED
    BY <2>1, <2>3 DEF Requests
<1> QED
  BY <1>1, <1>2, <1>3 DEF Next, MainStep

\* The types are an invariant.
LEMMA TypeInvariant == Spec => []TypeInv
<1>1. TypeInv /\ [Next]_vars => TypeInv'
  <2> SUFFICES ASSUME TypeInv, [Next]_vars PROVE TypeInv'
    OBVIOUS
  <2>1. CASE Next
    BY <2>1, FlagsStep, ControlStep, CountsStep, RequestsStep DEF TypeInv, Counts
  <2>2. CASE UNCHANGED vars
    BY <2>2 DEF vars, locks, machine, outcome, stopVars, counters, TypeInv, Flags, Control,
                Counts, HasToSend, Booting, Requests
  <2> QED
    BY <2>1, <2>2
<1> QED
  BY TypeInit, <1>1, PTL DEF Spec

\* Every variable keeps its type: at no time have more files got to the transport
\* file, or been read from it, than there were calls.
THEOREM TypeCorrect == Spec => []TypeOK
<1>1. TypeInv => TypeOK
  <2> SUFFICES ASSUME TypeInv PROVE TypeOK
    OBVIOUS
  <2>1. sent \in 0 .. MaxCalls /\ lastPos \in 0 .. MaxCalls
    BY QemuAssumption DEF TypeInv, Counts
  <2> QED
    BY <2>1 DEF TypeInv, Flags, Control, Counts, Requests, TypeOK
<1> QED
  BY TypeInvariant, <1>1, PTL

(***************************************************************************)
(* The flag.  The property is inductive: the request that raises the flag  *)
(* goes on, and the one that ends resets it.                               *)
(***************************************************************************)
\* A stop request is under way whenever self._stop is set, so the commands of the
\* next machine do not start stopped.
THEOREM FlagNotStale == Spec => []NoStaleStop
<1>1. Init => NoStaleStop
  BY DEF Init, NoStaleStop
<1>2. ASSUME TypeInv, NoStaleStop, [Next]_vars PROVE NoStaleStop'
  <2>1. CASE MainStep \/ VmExits \/ GuestPanics
    BY <2>1, <1>2, MainSteps DEF NoStaleStop, Ended, stopVars
  <2>2. ASSUME NEW t \in Threads, CallStop(t) PROVE NoStaleStop'
    <3> SUFFICES ASSUME stop PROVE \E u \in Threads : ~Ended(u)'
      BY <2>2 DEF CallStop, NoStaleStop
    <3>1. PICK u \in Threads : ~Ended(u)
      BY <1>2 DEF NoStaleStop
    <3>2. u # t
      BY <2>2, <3>1 DEF CallStop, Ended
    <3> QED
      BY <1>2, <2>2, <3>1, <3>2 DEF CallStop, Ended, TypeInv, Requests
  <2>3. ASSUME NEW t \in Threads, StopperStep(t) PROVE NoStaleStop'
    <3> SUFFICES ASSUME stop' PROVE ~Ended(t)'
      BY DEF NoStaleStop
    <3> QED
      BY <1>2, <2>3, StopperSteps DEF Ended, TypeInv, Requests
  <2>4. CASE UNCHANGED vars
    BY <1>2, <2>4 DEF vars, stopVars, NoStaleStop, Ended
  <2> QED
    BY <1>2, <2>1, <2>2, <2>3, <2>4 DEF Next, MainStep
<1> QED
  BY <1>1, <1>2, TypeInvariant, PTL DEF Spec

(***************************************************************************)
(* The machine.  What makes the property inductive is that a request that  *)
(* is about to return normally has seen the exit of the machine that was   *)
(* there when it was made, or of a later one: machines are started one     *)
(* after the other.                                                        *)
(***************************************************************************)
Returning(t) == stopper[t] = "stopped" \/ (stopper[t] = "done" /\ stops[t] > 0)

StopInv ==
    \A t \in Threads :
        /\ target[t] <= boots
        /\ Returning(t) => ~(IsRunning /\ target[t] = boots)

\* Only StartMachine makes a machine run, and it is a new one.
LEMMA MachineSteps ==
    ASSUME MainStep \/ VmExits \/ GuestPanics, boots \in Nat
    PROVE  \/ boots' = boots + 1
           \/ boots' = boots /\ (IsRunning' => IsRunning)
<1>1. CASE Communicate \/ RunCommand \/ Ping \/ FetchFile
  BY <1>1 DEF Communicate, RunCommand, Ping, FetchFile, BeginCall, machine, counters, IsRunning
<1>2. CASE BootStep
  BY <1>2 DEF BootStep, StartMachine, LogIn, BootFailed, Booted, ReleaseComm, machine,
              counters, IsRunning
<1>3. CASE ExecStep
  BY <1>3 DEF ExecStep, Lock, Exec, Parse, Match, Tested, Sending, Copy, Release, machine,
              counters, IsRunning
<1>4. CASE VmExits \/ GuestPanics
  BY <1>4 DEF VmExits, GuestPanics, counters, IsRunning
<1> QED
  BY <1>1, <1>2, <1>3, <1>4 DEF MainStep

\* A stop or force_stop that returns normally leaves no machine running but one
\* that was started after it was called.
THEOREM StopStops == Spec => []StopEndsMachine
<1>1. Init => StopInv
  BY DEF Init, StopInv, Returning
<1>2. ASSUME TypeInv, StopInv, [Next]_vars PROVE StopInv'
  <2> USE <1>2 DEF StopInv, Returning, TypeInv, Requests, Counts
  <2>0. boots \in Nat /\ \A t \in Threads : target[t] \in Nat
    BY QemuAssumption
  <2>1. CASE MainStep \/ VmExits \/ GuestPanics
    <3>1. UNCHANGED <<stopper, stops, target>>
      BY <2>1, MainSteps DEF stopVars
    <3>2. CASE boots' = boots + 1
      BY <2>0, <3>1, <3>2
    <3>3. CASE boots' = boots /\ (IsRunning' => IsRunning)
      BY <2>0, <3>1, <3>3
    <3> QED
      BY <2>0, <2>1, <3>2, <3>3, MachineSteps
  <2>2. ASSUME NEW t \in Threads, CallStop(t) PROVE StopInv'
    BY <2>0, <2>2 DEF CallStop, counters, machine, IsRunning
  <2>3. ASSUME NEW t \in Threads, StopperStep(t) PROVE StopInv'
    <3>1. PICK to \in StopperPoints :
             /\ stopper' = [stopper EXCEPT ![t] = to]
             /\ to = "stopped" => ~IsRunning
             /\ to = "done" => stopper[t] = "stopped"
      BY <2>3, StopperSteps
    <3>2. UNCHANGED <<vm, stops, target, boots>>
      BY <2>3, StopperSteps DEF counters
    <3> QED
      BY <2>0, <3>1, <3>2 DEF IsRunning
  <2>4. CASE UNCHANGED vars
    BY <2>4 DEF vars, stopVars, machine, counters, IsRunning
  <2> QED
    BY <1>2, <2>1, <2>2, <2>3, <2>4 DEF Next, MainStep
<1>3. StopInv => StopEndsMachine
  BY DEF StopInv, Returning, StopEndsMachine
<1> QED
  BY <1>1, <1>2, <1>3, TypeInvariant, PTL DEF Spec

(***************************************************************************)
(* Poweroff.  That a guest once logged in to is not booting has to be      *)
(* known before _logged_in is set, too; and a machine that is started      *)
(* after the look at _logged_in is not the one the request is for.         *)
(***************************************************************************)
LoggingIn ==
    \/ main = "booted"
    \/ main = "parse" /\ call = "communicate" /\ reply = "zero"

LoginInv == loggedIn \/ LoggingIn => guest # "booting"

TypingInv ==
    \A t \in Threads :
        /\ target[t] <= boots
        /\ stopper[t] = "sendPoweroff" /\ target[t] = boots => guest # "booting"

\* A guest boots once, when its machine is started.
LEMMA GuestSteps ==
    ASSUME MainStep \/ VmExits \/ GuestPanics, boots \in Nat
    PROVE  boots' = boots + 1 \/ (boots' = boots /\ (guest' = "booting" => guest = "booting"))
<1>1. CASE Communicate \/ RunCommand \/ Ping \/ FetchFile
  BY <1>1 DEF Communicate, RunCommand, Ping, FetchFile, BeginCall, machine, counters
<1>2. CASE BootStep
  BY <1>2 DEF BootStep, StartMachine, LogIn, BootFailed, Booted, ReleaseComm, machine, counters
<1>3. CASE ExecStep
  BY <1>3 DEF ExecStep, Lock, Exec, Parse, Match, Tested, Sending, Copy, Release, machine, counters
<1>4. CASE VmExits \/ GuestPanics
  BY <1>4 DEF VmExits, GuestPanics, counters
<1> QED
  BY <1>1, <1>2, <1>3, <1>4 DEF MainStep

\* stop types poweroff at the machine that it was called for only when the guest has
\* left its boot behind.
THEOREM PoweroffAtShell == Spec => PoweroffToShell
<1>1. Init => LoginInv /\ TypingInv
  BY DEF Init, LoginInv, LoggingIn, TypingInv
<1>2. ASSUME LoginInv, [Next]_vars PROVE LoginInv'
  <2> USE <1>2 DEF LoginInv, LoggingIn, MainGoes, Failed, Raised, machine, outcome
  <2>1. CASE Communicate \/ RunCommand \/ Ping \/ FetchFile
    BY <2>1 DEF Communicate, RunCommand, Ping, FetchFile, BeginCall
  <2>2. CASE BootStep
    BY <2>2 DEF BootStep, StartMachine, LogIn, BootFailed, Booted, ReleaseComm
  <2>3. CASE ExecStep
    <3>1. CASE Lock \/ Match \/ Tested \/ Sending \/ Copy \/ Release
      BY <3>1 DEF Lock, Match, Tested, Sending, Copy, Release
    <3>2. CASE Exec
      BY <3>2 DEF Exec
    <3>3. CASE Parse
      BY <3>3 DEF Parse, Replied
    <3> QED
      BY <2>3, <3>1, <3>2, <3>3 DEF ExecStep
  <2>4. CASE VmExits \/ GuestPanics
    BY <2>4 DEF VmExits, GuestPanics
  <2>5. ASSUME NEW t \in Threads, CallStop(t) \/ StopperStep(t) PROVE LoginInv'
    BY <2>5, StopperSteps DEF CallStop
  <2>6. CASE UNCHANGED vars
    BY <2>6 DEF vars
  <2> QED
    BY <1>2, <2>1, <2>2, <2>3, <2>4, <2>5, <2>6 DEF Next
<1>3. ASSUME TypeInv, LoginInv, TypingInv, [Next]_vars PROVE TypingInv'
  <2> USE <1>3 DEF TypingInv, TypeInv, Requests, Counts
  <2>0. boots \in Nat /\ \A t \in Threads : target[t] \in Nat
    BY QemuAssumption
  <2>1. CASE MainStep \/ VmExits \/ GuestPanics
    <3>1. UNCHANGED <<stopper, target>>
      BY <2>1, MainSteps DEF stopVars
    <3>2. CASE boots' = boots + 1
      BY <2>0, <3>1, <3>2
    <3>3. CASE boots' = boots /\ (guest' = "booting" => guest = "booting")
      BY <2>0, <3>1, <3>3
    <3> QED
      BY <2>0, <2>1, <3>2, <3>3, GuestSteps
  <2>2. ASSUME NEW t \in Threads, CallStop(t) PROVE TypingInv'
    BY <2>0, <2>2 DEF CallStop, counters, machine
  <2>3. ASSUME NEW t \in Threads, StopperStep(t) PROVE TypingInv'
    <3>1. PICK to \in StopperPoints :
             /\ stopper' = [stopper EXCEPT ![t] = to]
             /\ to = "sendPoweroff" => loggedIn
      BY <2>3, StopperSteps
    <3>2. UNCHANGED <<guest, target, boots>>
      BY <2>3, StopperSteps DEF counters
    <3> QED
      BY <2>0, <3>1, <3>2 DEF LoginInv
  <2>4. CASE UNCHANGED vars
    BY <2>4 DEF vars, stopVars, machine, counters
  <2> QED
    BY <1>3, <2>1, <2>2, <2>3, <2>4 DEF Next, MainStep
<1>4. TypingInv => \A t \in Threads :
        stopper[t] = "sendPoweroff" /\ stopper'[t] = "poweroff" /\ IsRunning /\ boots = target[t]
          => guest # "booting"
  BY DEF TypingInv
<1>5. TypingInv =>
        [\A t \in Threads :
           stopper[t] = "sendPoweroff" /\ stopper'[t] = "poweroff" /\ IsRunning
             /\ boots = target[t] => guest # "booting"]_vars
  BY <1>4
<1> QED
  BY <1>1, <1>2, <1>3, <1>5, TypeInvariant, PTL DEF Spec, PoweroffToShell

(***************************************************************************)
(* The transport file.  On the first machine, until a transfer goes wrong, *)
(* the file of a call is the only one between _last_pos and the end of the *)
(* transport file from the reply of cat until it has been read back.       *)
(***************************************************************************)
Pending ==
    \/ call = "cat" /\ main = "parse"
    \/ main = "sending"
    \/ main = "copy" /\ got = 0

Position ==
    /\ sent = lastPos + (IF Pending THEN 1 ELSE 0)
    /\ call # "communicate" /\ main \in {"lock", "exec", "parse", "tested", "sending"} => got = 0
    /\ call = "cat" /\ main = "exec" => reply = "nothing"
    /\ call = "cat" /\ main = "parse" => reply = "zero"
    /\ main \in {"lock", "match"} => call # "cat"
    /\ main \in {"sending", "copy"} => call = "cat"
    /\ main = "tested" => call = "test"
    /\ main = "copy" => got \in {0, 1}
    /\ call = "cat" /\ main \in {"release", "idle"} /\ result = "ok" => got = 1

FetchInv ==
    /\ boots = 0 => vm = "none" /\ main \in {"idle", "spawn"} /\ call # "cat"
    /\ boots = 0 => lastPos = 0
    /\ boots \in {0, 1} /\ ~spoiled => Position

\* Every step of the main thread, the machine and the requests keeps it.
LEMMA FetchStep == TypeInv /\ FetchInv /\ Next => FetchInv'
<1> SUFFICES ASSUME TypeInv, FetchInv, Next PROVE FetchInv'
  OBVIOUS
<1> USE DEF TypeInv, Counts, FetchInv, Position, Pending, Booting, IsRunning, MainGoes, Leave, Failed, Raised, CodesOf, locks,
            machine, outcome, counters
<1>1. CASE Communicate
  BY <1>1 DEF Communicate
<1>2. CASE RunCommand
  BY <1>2 DEF RunCommand, BeginCall
<1>3. CASE Ping
  BY <1>3 DEF Ping, BeginCall
<1>4. CASE FetchFile
  BY <1>4 DEF FetchFile, BeginCall
<1>5. CASE StartMachine
  BY <1>5 DEF StartMachine
<1>6. CASE LogIn
  <2>1. /\ main = "login" /\ main' \in {"exec", "releaseComm"}
        /\ UNCHANGED <<call, got, sent, lastPos, boots, vm, spoiled>>
    BY <1>6 DEF LogIn
  <2>2. call = "communicate" /\ boots # 0
    BY <2>1
  <2>3. ~Pending /\ ~Pending'
    BY <2>1, <2>2
  <2>4. boots' \in {0, 1} /\ ~spoiled' => Position'
    BY <2>1, <2>2, <2>3
  <2> QED
    BY <2>1, <2>2, <2>4
<1>8. CASE BootFailed
  BY <1>8 DEF BootFailed
<1>9. CASE Booted
  BY <1>9 DEF Booted
<1>10. CASE ReleaseComm
  BY <1>10 DEF ReleaseComm
<1>11. CASE Lock
  BY <1>11 DEF Lock
<1>12. CASE Exec
  <2>1. /\ main = "exec" /\ UNCHANGED <<call, got, lastPos, boots>>
        /\ \/ main' \in {"parse", "release"}
           \/ main' \in {"bootFailed", "releaseComm"} /\ call = "communicate"
    BY <1>12 DEF Exec
  <2>2. ~spoiled' => ~spoiled /\ (call = "cat" => reply' = "zero")
    BY <1>12 DEF Exec
  <2>3. call = "cat" /\ boots = 1 /\ ~spoiled' => main' = "parse"
    BY <1>12, <2>2 DEF Exec
  <2>4. IF call = "cat" /\ ~spoiled' THEN sent' = sent + 1 ELSE call # "cat" => sent' = sent
    BY <1>12, <2>2 DEF Exec
  <2>5. boots # 0
    BY <2>1
  <2> QED
    BY <2>1, <2>2, <2>3, <2>4, <2>5
<1>13. CASE Parse
  BY <1>13 DEF Parse, Replied
<1>14. CASE Match
  BY <1>14 DEF Match
<1>15. CASE Tested
  BY <1>15 DEF Tested
<1>16. CASE Sending
  BY <1>16 DEF Sending
<1>17. CASE Copy
  <2>1. ~spoiled' => ~spoiled /\ (main' = "release" => result' = "ok")
    BY <1>17 DEF Copy
  <2>2. /\ main = "copy" /\ main' \in {"copy", "release"}
        /\ UNCHANGED <<call, sent, boots>>
    BY <1>17 DEF Copy
  <2>3. \/ main' = "release" /\ result' = "ok" /\ lastPos >= sent /\ UNCHANGED <<got, lastPos>>
        \/ main' = "release" /\ result' # "ok"
        \/ main' = "copy" /\ lastPos < sent /\ got' = sent - lastPos /\ lastPos' = sent
    BY <1>17 DEF Copy
  <2>4. boots # 0
    BY <2>2
  <2> QED
    BY <2>1, <2>2, <2>3, <2>4
<1>18. CASE Release
  BY <1>18 DEF Release
<1>19. CASE VmExits
  BY <1>19 DEF VmExits
<1>20. CASE GuestPanics
  BY <1>20 DEF GuestPanics
<1>21. ASSUME NEW t \in Threads, CallStop(t) PROVE FetchInv'
  BY <1>21 DEF CallStop
<1>22. ASSUME NEW t \in Threads, StopperStep(t) PROVE FetchInv'
  BY <1>22, StopperSteps
<1> QED
  BY <1>1, <1>2, <1>3, <1>4, <1>5, <1>6, <1>8, <1>9, <1>10, <1>11, <1>12, <1>13, <1>14, <1>15, <1>16, <1>17, <1>18, <1>19, <1>20, <1>21, <1>22
  DEF Next, BootStep, ExecStep

\* Until a transfer goes wrong, every fetch_file from the first machine that
\* succeeds has read back the file it asked for, and that file alone.
THEOREM FetchesItsFile == Spec => []FetchExact
<1>1. Init => FetchInv
  BY DEF Init, FetchInv, Position, Pending, Booting
<1>2. TypeInv /\ FetchInv /\ [Next]_vars => FetchInv'
  BY FetchStep
  DEF vars, locks, machine, outcome, counters, TypeInv, FetchInv, Position, Pending, Booting
<1>3. FetchInv => FetchExact
  BY DEF FetchInv, Position, FetchExact
<1> QED
  BY <1>1, <1>2, <1>3, TypeInvariant, PTL DEF Spec
=============================================================================
