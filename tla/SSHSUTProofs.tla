---------------------------- MODULE SSHSUTProofs -----------------------------
(* Theorems about SSHSUT, for every number of stoppers and all the bounds. *)
EXTENDS SSHSUT, TLAPS

(***************************************************************************)
(* The steps, by what they may change.                                     *)
(***************************************************************************)
Remote == ConnectionLost \/ CommandGoesOn

\* The calls of the main thread, and the remote side, leave the stop requests and
\* the flag alone; they never close the transport, and a connection that comes up is
\* counted.
LEMMA MainSteps ==
    ASSUME (\E name \in Calls : Begin(name)) \/ CallStep \/ Remote
    PROVE  /\ UNCHANGED <<resetCmd, stop, stopVars>>
           /\ \/ transport' = transport /\ connects' = connects
              \/ Up /\ transport' \in {"active", "dead"} /\ connects' = connects
              \/ transport' = "open" /\ connects' = connects + 1
<1> USE DEF stopVars, counters, outcome, Up
<1>1. CASE \E name \in Calls : Begin(name)
  BY <1>1 DEF Begin
<1>2. CASE Probe
  BY <1>2 DEF Probe
<1>3. CASE Connect \/ Authenticate
  BY <1>3 DEF Connect, Authenticate
<1>4. CASE Exec \/ Read \/ Status
  BY <1>4 DEF Exec, Read, Status
<1>5. CASE LockFetch \/ Scp \/ Transfer
  BY <1>5 DEF LockFetch, Scp, Transfer
<1>6. CASE Remote
  BY <1>6 DEF Remote, ConnectionLost, CommandGoesOn
<1> QED
  BY <1>1, <1>2, <1>3, <1>4, <1>5, <1>6 DEF CallStep

\* A request under way moves itself alone.  The transport is closed by the step that
\* notes which connection that was, and the flag is reset by the last step.
LEMMA StopperSteps ==
    ASSUME NEW t \in Threads, StopperStep(t)
    PROVE  /\ ~Ended(t)
           /\ \E to \in StopperPoints :
                /\ stopper' = [stopper EXCEPT ![t] = to]
                /\ to = "reset" => stopper[t] = "waitFetch" /\ ~FetchLocked
                /\ to \in {"resetting", "ended"} => stopper[t] \in {"reset", "resetting"}
                /\ to = "reap" => stopper[t] = "resetting"
                /\ to = "failed" => stopper[t] \in {"waitFetch", "reap"}
                /\ to = "done" => stopper[t] = "ended"
                /\ to # "close"
                /\ \/ to = "waitFetch" /\ Close(t)
                   \/ to # "waitFetch" /\ UNCHANGED <<transport, closed>>
                /\ \/ to \in {"idle", "done"} /\ stop' = FALSE
                   \/ to \notin {"idle", "done"} /\ stop' = stop
           /\ resetProc' = resetProc \/ resetProc' = [resetProc EXCEPT ![t] = "running"]
           /\ UNCHANGED <<resetCmd, main, outcome, command, stops, counters, disturbed>>
<1> USE DEF StopperGoes, OnlyStopper, StopperPoints, Ended
<1>1. CASE Close(t)
  BY <1>1 DEF Close
<1>2. CASE WaitFetch(t)
  BY <1>2 DEF WaitFetch
<1>3. CASE Reset(t)
  BY <1>3 DEF Reset
<1>4. CASE Resetting(t)
  BY <1>4 DEF Resetting
<1>5. CASE Reap(t)
  BY <1>5 DEF Reap
<1>6. CASE EndStop(t)
  BY <1>6 DEF EndStop
<1> QED
  BY <1>1, <1>2, <1>3, <1>4, <1>5, <1>6 DEF StopperStep

(***************************************************************************)
(* Type correctness.  That connections stay within their bound, and that   *)
(* each part of a call belongs to the call that was made, needs what is    *)
(* known when the call begins.                                             *)
(***************************************************************************)
Begun ==
    /\ main = "probe" => call \in Calls
    /\ main \in {"probe", "connect"} /\ call = "communicate" => connects < MaxConnects

TypeInv == TypeOK /\ Begun

\* The types hold initially.
LEMMA TypeInit == Init => TypeInv
<1> SUFFICES ASSUME Init PROVE TypeInv
  OBVIOUS
<1>1. connects \in 0 .. MaxConnects /\ calls \in 0 .. MaxCalls
  BY SSHAssumption DEF Init
<1>2. /\ stops \in [Threads -> Nat] /\ \A t \in Threads : stops[t] <= MaxStops[t]
      /\ closed \in [Threads -> 0 .. MaxConnects]
  BY SSHAssumption DEF Init
<1>3. /\ stopper \in [Threads -> StopperPoints]
      /\ resetProc \in [Threads -> {"none", "running", "exited"}]
  BY DEF Init, StopperPoints
<1> QED
  BY <1>1, <1>2, <1>3 DEF Init, TypeInv, TypeOK, Begun, MainPoints, Results

\* The calls of the main thread, and the remote side, keep the types.
LEMMA TypeMain ==
    ASSUME TypeInv, (\E name \in Calls : Begin(name)) \/ CallStep \/ Remote
    PROVE  TypeInv'
<1>1. UNCHANGED <<resetCmd, stop, stopVars>>
  BY MainSteps
<1>2. MaxConnects \in Nat /\ MaxCalls \in Nat
  BY SSHAssumption
<1> USE <1>1, <1>2 DEF TypeInv, TypeOK, Begun, stopVars, counters, outcome, Return, MainPoints,
        Results, Calls, Up, Unless
<1>3. CASE \E name \in Calls : Begin(name)
  BY <1>3 DEF Begin
<1>4. CASE Probe
  BY <1>4 DEF Probe, Proceed
<1>5. CASE Connect
  BY <1>5 DEF Connect
<1>6. CASE Authenticate
  BY <1>6 DEF Authenticate
<1>7. CASE Exec
  BY <1>7 DEF Exec
<1>8. CASE Read \/ Status
  BY <1>8 DEF Read, Status
<1>9. CASE LockFetch \/ Scp \/ Transfer
  BY <1>9 DEF LockFetch, Scp, Transfer
<1>10. CASE Remote
  BY <1>10 DEF Remote, ConnectionLost, CommandGoesOn
<1> QED
  BY <1>3, <1>4, <1>5, <1>6, <1>7, <1>8, <1>9, <1>10 DEF CallStep

\* Every step keeps the types.
LEMMA TypeStep == TypeInv /\ [Next]_vars => TypeInv'
<1> SUFFICES ASSUME TypeInv, [Next]_vars PROVE TypeInv'
  OBVIOUS
<1>1. CASE (\E name \in Calls : Begin(name)) \/ CallStep \/ Remote
  BY <1>1, TypeMain
<1>2. ASSUME NEW t \in Threads, CallStop(t) PROVE TypeInv'
  <2>1. stops' \in [Threads -> Nat] /\ \A u \in Threads : stops'[u] <= MaxStops[u]
    <3>1. stops[t] \in Nat /\ MaxStops[t] \in Nat
      BY SSHAssumption DEF TypeInv, TypeOK
    <3>2. stops' = [stops EXCEPT ![t] = stops[t] + 1] /\ stops[t] + 1 <= MaxStops[t]
      BY <1>2, <3>1 DEF CallStop
    <3> QED
      BY <3>1, <3>2 DEF TypeInv, TypeOK
  <2>2. stopper' \in [Threads -> StopperPoints]
    BY <1>2 DEF CallStop, TypeInv, TypeOK, StopperPoints
  <2> QED
    BY <1>2, <2>1, <2>2 DEF CallStop, TypeInv, TypeOK, Begun, outcome, counters
<1>3. ASSUME NEW t \in Threads, StopperStep(t) PROVE TypeInv'
  <2>1. UNCHANGED <<resetCmd, main, outcome, command, stops, counters, disturbed>>
    BY <1>3, StopperSteps
  <2>2. stopper' \in [Threads -> StopperPoints] /\ stop' \in BOOLEAN
    BY <1>3, StopperSteps DEF TypeInv, TypeOK
  <2>3. resetProc' \in [Threads -> {"none", "running", "exited"}]
    BY <1>3, StopperSteps DEF TypeInv, TypeOK
  <2>4. transport' \in {"none", "open", "active", "dead"}
          /\ closed' \in [Threads -> 0 .. MaxConnects]
    <3>1. CASE Close(t)
      BY <3>1 DEF Close, TypeInv, TypeOK
    <3>2. CASE UNCHANGED <<transport, closed>>
      BY <3>2 DEF TypeInv, TypeOK
    <3> QED
      BY <1>3, <3>1, <3>2, StopperSteps, Zenon
  <2> QED
    BY <2>1, <2>2, <2>3, <2>4 DEF TypeInv, TypeOK, Begun, outcome, counters
<1>4. ASSUME NEW t \in Threads, ResetExits(t) PROVE TypeInv'
  BY <1>4 DEF ResetExits, TypeInv, TypeOK, Begun, outcome, counters
<1>5. CASE UNCHANGED vars
  BY <1>5 DEF vars, TypeInv, TypeOK, Begun, outcome, counters, stopVars
<1> QED
  BY <1>1, <1>2, <1>3, <1>4, <1>5 DEF Next, Remote

LEMMA TypeInvariant == Spec => []TypeInv
BY TypeInit, TypeStep, PTL DEF Spec

\* SSHSUT keeps its types: connections, calls and requests within their bounds, and
\* every part of a call belongs to the call that was made.
THEOREM TypeCorrect == Spec => []TypeOK
<1>1. TypeInv => TypeOK
  BY DEF TypeInv
<1> QED
  BY TypeInvariant, <1>1, PTL

(***************************************************************************)
(* What a stop request leaves behind.  The property is extended to the     *)
(* requests that have closed their connection and not returned yet; a      *)
(* connection that comes up after that is one that has been counted since. *)
(***************************************************************************)
HasClosed(t) ==
    stopper[t] \in {"waitFetch", "reset", "resetting", "reap", "ended", "failed", "done"}

CloseInv ==
    \A t \in Threads :
        /\ closed[t] <= connects
        /\ HasClosed(t) /\ Up => connects > closed[t]

\* Every step keeps the connections of past requests closed.
LEMMA CloseStep == TypeInv /\ CloseInv /\ [Next]_vars => CloseInv'
<1> SUFFICES ASSUME TypeInv, CloseInv, [Next]_vars PROVE CloseInv'
  OBVIOUS
<1>0. connects \in Nat /\ \A t \in Threads : closed[t] \in Nat
  BY SSHAssumption DEF TypeInv, TypeOK
<1> USE <1>0 DEF CloseInv, HasClosed, Up
<1>1. CASE (\E name \in Calls : Begin(name)) \/ CallStep \/ Remote
  BY <1>1, MainSteps DEF stopVars
<1>2. ASSUME NEW t \in Threads, CallStop(t) PROVE CloseInv'
  BY <1>2 DEF CallStop, counters, TypeInv, TypeOK
<1>3. ASSUME NEW t \in Threads, StopperStep(t) PROVE CloseInv'
  <2>1. CASE Close(t)
    BY <2>1 DEF Close, StopperGoes, counters, TypeInv, TypeOK
  <2>2. CASE ~Close(t)
    <3>1. UNCHANGED <<transport, connects, closed>>
      BY <1>3, <2>2, StopperSteps DEF counters
    <3>2. HasClosed(t)' => HasClosed(t)
      BY <1>3, <2>2, StopperSteps DEF TypeInv, TypeOK
    <3>3. \A u \in Threads : u # t => stopper'[u] = stopper[u]
      BY <1>3, StopperSteps DEF TypeInv, TypeOK
    <3> QED
      BY <3>1, <3>2, <3>3
  <2> QED
    BY <2>1, <2>2
<1>4. ASSUME NEW t \in Threads, ResetExits(t) PROVE CloseInv'
  BY <1>4 DEF ResetExits, counters
<1>5. CASE UNCHANGED vars
  BY <1>5 DEF vars, counters, stopVars
<1> QED
  BY <1>1, <1>2, <1>3, <1>4, <1>5 DEF Next, Remote

LEMMA CloseInvariant == Spec => []CloseInv
<1>1. Init => CloseInv
  BY DEF Init, CloseInv, HasClosed, Up
<1> QED
  BY <1>1, CloseStep, TypeInvariant, PTL DEF Spec

\* A stop request that has returned normally leaves no connection up but one that
\* was opened after it closed its own.  (SSHSUT.stop.)
THEOREM StopLeavesNothing == Spec => []StopCloses
<1>1. CloseInv => StopCloses
  BY DEF CloseInv, HasClosed, StopCloses
<1> QED
  BY CloseInvariant, <1>1, PTL

(***************************************************************************)
(* The reset command.  The property is inductive on top of CloseInv: a     *)
(* transfer begins over a connection that is up, and while a request waits *)
(* for the lock it does not go on to the reset command.                    *)
(***************************************************************************)

\* The step into the transfer is the only one there is, and needs the connection.
LEMMA TransferStarts ==
    ASSUME (\E name \in Calls : Begin(name)) \/ CallStep \/ Remote,
           main' = "transfer", main # "transfer"
    PROVE  transport = "active"
<1> USE DEF Return, outcome
<1>1. CASE \E name \in Calls : Begin(name)
  BY <1>1 DEF Begin
<1>2. CASE Probe
  BY <1>2 DEF Probe, Proceed
<1>3. CASE Connect \/ Authenticate
  BY <1>3 DEF Connect, Authenticate
<1>4. CASE Exec \/ Read \/ Status
  BY <1>4 DEF Exec, Read, Status, Unless
<1>5. CASE LockFetch \/ Scp \/ Transfer
  BY <1>5 DEF LockFetch, Scp, Transfer, Unless
<1>6. CASE Remote
  BY <1>6 DEF Remote, ConnectionLost, CommandGoesOn
<1> QED
  BY <1>1, <1>2, <1>3, <1>4, <1>5, <1>6 DEF CallStep

\* The reset command runs under no transfer over the connection that its request
\* has closed.  (SSHSUT.stop and fetch_file.)
THEOREM ResetRunsApart == Spec => []ResetApart
<1>1. Init => ResetApart
  BY DEF Init, ResetApart
<1>2. ASSUME TypeInv, CloseInv, ResetApart, [Next]_vars PROVE ResetApart'
  <2>0. connects \in Nat /\ \A t \in Threads : closed[t] \in Nat
    BY <1>2, SSHAssumption DEF TypeInv, TypeOK
  <2> USE <1>2, <2>0 DEF ResetApart
  <2>1. CASE (\E name \in Calls : Begin(name)) \/ CallStep \/ Remote
    <3>1. UNCHANGED <<stopper, closed>> /\ connects' \in {connects, connects + 1}
      BY <2>1, MainSteps DEF stopVars
    <3>2. CASE main = "transfer"
      BY <3>1, <3>2
    <3>3. CASE main # "transfer" /\ main' = "transfer"
      BY <2>1, <3>1, <3>3, TransferStarts DEF CloseInv, HasClosed, Up
    <3> QED
      BY <3>2, <3>3
  <2>2. ASSUME NEW t \in Threads, CallStop(t) PROVE ResetApart'
    BY <2>2 DEF CallStop, counters, TypeInv, TypeOK
  <2>3. ASSUME NEW t \in Threads, StopperStep(t) PROVE ResetApart'
    <3>1. CASE Close(t)
      BY <3>1 DEF Close, StopperGoes, counters, TypeInv, TypeOK
    <3>2. CASE ~Close(t)
      BY <2>3, <3>2, StopperSteps DEF FetchLocked, counters, TypeInv, TypeOK
    <3> QED
      BY <3>1, <3>2
  <2>4. ASSUME NEW t \in Threads, ResetExits(t) PROVE ResetApart'
    BY <2>4 DEF ResetExits, counters
  <2>5. CASE UNCHANGED vars
    BY <2>5 DEF vars, counters, stopVars
  <2> QED
    BY <2>1, <2>2, <2>3, <2>4, <2>5 DEF Next, Remote
<1> QED
  BY <1>1, <1>2, TypeInvariant, CloseInvariant, PTL DEF Spec

(***************************************************************************)
(* What only a stop can do to a call.  A call that meets a request under   *)
(* way is marked as disturbed; the flag is set only then, and only then is *)
(* the transport closed once the call has seen it.                         *)
(***************************************************************************)
Stopping == \E t \in Threads : ~Ended(t)

DisturbInv ==
    /\ stop => Stopping
    /\ Stopping => disturbed
    /\ main # "idle" => result = "none"
    /\ main \in {"read", "status"} => transport # "open"
    /\ main \notin {"idle", "connect"} /\ transport = "none" => disturbed
    /\ DisturbedByStop

\* A call ends with an AttributeError, or a transfer without data and without an
\* error, only if a stop request was under way at some time of it; run_command returns
\* before its command has ended only then or over a connection that was lost.
\* (is_running, run_command, fetch_file.)
THEOREM OnlyStopsDisturb == Spec => []DisturbedByStop
<1>1. Init => DisturbInv
  BY DEF Init, DisturbInv, Stopping, Ended, DisturbedByStop
<1>2. ASSUME TypeInv, DisturbInv, [Next]_vars PROVE DisturbInv'
  <2> USE <1>2 DEF DisturbInv, DisturbedByStop
  <2>1. CASE (\E name \in Calls : Begin(name)) \/ CallStep \/ Remote
    <3>1. UNCHANGED stop /\ Stopping' = Stopping
      BY <2>1, MainSteps DEF Stopping, Ended, stopVars
    <3> HIDE DEF Stopping
    <3> USE <3>1 DEF Return, Unless, outcome
    <3>2. CASE \E name \in Calls : Begin(name)
      <4>1. disturbed' = Stopping
        BY <3>2 DEF Begin, Stopping
      <4> QED
        BY <3>2, <4>1 DEF Begin
    <3>3. CASE Probe
      BY <3>3 DEF Probe, Proceed, Up
    <3>4. CASE Connect \/ Authenticate
      BY <3>4 DEF Connect, Authenticate
    <3>5. CASE Exec \/ Read \/ Status
      <4>1. transport \in {"none", "open", "active", "dead"}
        BY DEF TypeInv, TypeOK
      <4>2. CASE Exec
        BY <4>2 DEF Exec, Up
      <4>3. CASE Read
        BY <4>3 DEF Read
      <4>4. CASE Status
        BY <4>1, <4>4 DEF Status
      <4> QED
        BY <3>5, <4>2, <4>3, <4>4
    <3>6. CASE LockFetch \/ Scp \/ Transfer
      BY <3>6 DEF LockFetch, Scp, Transfer
    <3>7. CASE Remote
      BY <3>7 DEF Remote, ConnectionLost, CommandGoesOn, Up
    <3> QED
      BY <2>1, <3>2, <3>3, <3>4, <3>5, <3>6, <3>7 DEF CallStep
  <2>2. ASSUME NEW t \in Threads, CallStop(t) PROVE DisturbInv'
    <3>1. Stopping'
      BY <2>2 DEF CallStop, Stopping, Ended, TypeInv, TypeOK
    <3> QED
      BY <2>2, <3>1 DEF CallStop, outcome
  <2>3. ASSUME NEW t \in Threads, StopperStep(t) PROVE DisturbInv'
    <3>1. Stopping /\ UNCHANGED <<main, outcome, disturbed>>
      BY <2>3, StopperSteps DEF Stopping
    <3>2. stop' => Stopping'
      <4> SUFFICES ASSUME stop' PROVE ~Ended(t)'
        BY DEF Stopping
      <4> QED
        BY <2>3, StopperSteps DEF Ended, TypeInv, TypeOK
    <3>3. transport' \in {transport, "none"}
      <4>1. CASE Close(t)
        BY <4>1 DEF Close
      <4> QED
        BY <2>3, <4>1, StopperSteps
    <3>4. disturbed /\ UNCHANGED <<main, result, disturbed>>
      BY <3>1 DEF outcome
    <3> QED
      BY <3>2, <3>3, <3>4
  <2>4. ASSUME NEW t \in Threads, ResetExits(t) PROVE DisturbInv'
    BY <2>4 DEF ResetExits, Stopping, Ended, outcome
  <2>5. CASE UNCHANGED vars
    BY <2>5 DEF vars, stopVars, Stopping, Ended, outcome
  <2> QED
    BY <2>1, <2>2, <2>3, <2>4, <2>5 DEF Next, Remote
<1>3. DisturbInv => DisturbedByStop
  BY DEF DisturbInv
<1> QED
  BY <1>1, <1>2, <1>3, TypeInvariant, PTL DEF Spec
=============================================================================
