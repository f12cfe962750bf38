-------------------------------- MODULE SSHSUT --------------------------------
(***************************************************************************)
(* SSHSUT of src/ltp/ssh.py, the target reached by SSH.  The main thread   *)
(* connects, runs commands and fetches files; it and other threads stop    *)
(* the target, which closes the connection under whatever goes on over it, *)
(* waits for a transfer only, and runs the reset command.  The connection  *)
(* belongs to paramiko: it may be lost at any time.                        *)
(***************************************************************************)
EXTENDS Naturals

CONSTANTS
    Main,           \* the thread that runs the session
    Stoppers,       \* other threads that stop the target
    MaxConnects,    \* bound on the connections
    MaxCalls,       \* bound on communicate, run_command and fetch_file together
    MaxStops        \* bound on the stop requests of each thread

Threads == Stoppers \cup {Main}

ASSUME SSHAssumption ==
    /\ Main \notin Stoppers
    /\ MaxConnects \in Nat /\ MaxCalls \in Nat /\ MaxStops \in [Threads -> Nat]

VARIABLES
    resetCmd,       \* whether self._reset_cmd is set
    stop,           \* self._stop
    transport,      \* what self._client.get_transport() returns
    main,           \* where the main thread is, outside of the stop requests
    call,           \* what it has called last
    result,         \* how that came out
    stopper,        \* where each thread is in stop
    resetProc,      \* the reset command of each stop request
    command         \* the remote command: "none", "running", "silent", "closed" (its output)
                    \* or "exited"

\* Counters and history variables.
VARIABLES
    connects, calls, stops,
    closed,         \* the connection, by number, that each request has closed
    disturbed       \* a stop request was under way at some time of the last call

outcome == <<call, result>>
stopVars == <<stopper, resetProc, stops, closed>>
counters == <<connects, calls>>
vars == <<resetCmd, stop, transport, main, outcome, command, stopVars, counters, disturbed>>

Calls == {"communicate", "run_command", "fetch_file"}
MainPoints == {"idle", "probe", "connect", "auth", "exec", "read", "status", "lock", "scp",
               "transfer"}
StopperPoints == {"idle", "close", "waitFetch", "reset", "resetting", "reap", "ended",
                  "failed", "done"}
Results == {"none", "ok", "cut", "empty", "error", "timeout", "panic", "AttributeError",
            "EOFError"}

Init ==
    /\ resetCmd \in BOOLEAN /\ stop = FALSE /\ transport = "none"
    /\ main = "idle" /\ call = "none" /\ result = "none" /\ command = "none"
    /\ stopper = [t \in Threads |-> "idle"] /\ resetProc = [t \in Threads |-> "none"]
    /\ connects = 0 /\ calls = 0 /\ stops = [t \in Threads |-> 0]
    /\ closed = [t \in Threads |-> 0] /\ disturbed = FALSE

Ended(t) == stopper[t] \in {"idle", "done"}

-----------------------------------------------------------------------------
(* paramiko and the remote side.  A transport is "open" until the user is  *)
(* authenticated, then "active"; one that is lost is "dead", and a closed  *)
(* one is "none".                                                          *)

Up == transport \in {"open", "active"}

ConnectionLost ==
    /\ Up /\ transport' = "dead"
    /\ UNCHANGED <<resetCmd, stop, main, outcome, command, stopVars, counters, disturbed>>

\* A command that is silent writes nothing within the timeout of the call.  The
\* output is closed before or after the exit.
CommandGoesOn ==
    /\ \/ command = "running" /\ command' \in {"silent", "closed", "exited"}
       \/ command = "silent" /\ command' \in {"closed", "exited"}
       \/ command = "closed" /\ command' = "exited"
    /\ transport = "active"
    /\ UNCHANGED <<resetCmd, stop, transport, main, outcome, stopVars, counters, disturbed>>

ResetExits(t) ==
    /\ resetProc[t] = "running" /\ resetProc' = [resetProc EXCEPT ![t] = "exited"]
    /\ UNCHANGED <<resetCmd, stop, transport, main, outcome, command, stopper, stops, closed,
                   counters, disturbed>>

-----------------------------------------------------------------------------
(* is_running, with which every call begins.  It asks for the transport    *)
(* twice: a stop between the two makes it use None.                        *)

Return(how) == main' = "idle" /\ result' = how

\* Mutant: communicate goes on when there is a connection.
ProceedAnyway(isRunning) ==
    IF isRunning
    THEN main' = (IF call = "fetch_file" THEN "lock" ELSE "exec") /\ UNCHANGED result
    ELSE IF call = "communicate" THEN main' = "connect" /\ UNCHANGED result
         ELSE Return("error")

\* What the call does once it knows whether the target is running.
Proceed(isRunning) ==
    IF call = "communicate"
    THEN IF isRunning THEN Return("error") ELSE main' = "connect" /\ UNCHANGED result
    ELSE IF isRunning
         THEN main' = (IF call = "run_command" THEN "exec" ELSE "lock") /\ UNCHANGED result
         ELSE Return("error")

Begin(name) ==
    /\ main = "idle" /\ Ended(Main) /\ calls < MaxCalls
    /\ name = "communicate" => connects < MaxConnects
    /\ calls' = calls + 1 /\ call' = name
    /\ disturbed' = (\E t \in Threads : ~Ended(t))
    /\ IF transport = "none"
       THEN \/ name = "communicate" /\ main' = "connect" /\ result' = "none"
            \/ name # "communicate" /\ Return("error")
       ELSE main' = "probe" /\ result' = "none"
    /\ UNCHANGED <<resetCmd, stop, transport, command, stopVars, connects>>

Probe ==
    /\ main = "probe"
    /\ IF transport = "none" THEN Return("AttributeError") ELSE Proceed(Up)
    /\ UNCHANGED <<resetCmd, stop, transport, call, command, stopVars, counters, disturbed>>

-----------------------------------------------------------------------------
(* communicate.                                                            *)

\* Until the socket is connected the client still has its old transport, or none,
\* and a stop finds nothing to close.
Connect ==
    /\ main = "connect"
    /\ \/ main' = "auth" /\ transport' = "open" /\ connects' = connects + 1 /\ UNCHANGED result
       \/ Return("error") /\ UNCHANGED <<transport, connects>>
    /\ UNCHANGED <<resetCmd, stop, call, command, stopVars, calls, disturbed>>

\* Authentication may fail, and leaves the transport as it is.  On a lost or closed
\* transport connect raises SSHException, EOFError, or AttributeError for None; the
\* except clauses know only the first.
Authenticate ==
    /\ main = "auth"
    /\ \/ transport = "open" /\ transport' = "active" /\ Return("ok")
       \/ UNCHANGED transport /\ Return("error")
       \/ ~Up /\ UNCHANGED transport /\ Return("EOFError")
       \/ transport = "none" /\ UNCHANGED transport /\ Return("AttributeError")
    /\ UNCHANGED <<resetCmd, stop, call, command, stopVars, counters, disturbed>>

-----------------------------------------------------------------------------
(* run_command.  An SSHException is dropped while a stop is requested, and *)
(* what has been read is returned with the return code -1.  An EOFError,   *)
(* which paramiko may raise as well, passes the except clauses.            *)

Unless(how) == Return(IF stop THEN how ELSE "error")

Exec ==
    /\ main = "exec"
    /\ \/ transport = "active" /\ main' = "read" /\ command' = "running" /\ UNCHANGED result
       \/ transport = "none" /\ Return("AttributeError") /\ UNCHANGED command
       \/ transport # "none" /\ Unless("cut") /\ UNCHANGED command
       \/ ~Up /\ Return("EOFError") /\ UNCHANGED command
    /\ UNCHANGED <<resetCmd, stop, transport, call, stopVars, counters, disturbed>>

\* readline finds the end of the output, which is also there when the channel is closed.
EndOfOutput == transport # "active" \/ command \in {"closed", "exited"}

\* Mutant: without a timeout on the channel.
ReadForever ==
    /\ main = "read" /\ EndOfOutput
    /\ Return("panic") \/ (main' = "status" /\ UNCHANGED result)
    /\ UNCHANGED <<resetCmd, stop, transport, call, command, stopVars, counters, disturbed>>

\* The output is read to its end.  The timeout is that of one readline: a command that
\* is never silent has none.
Read ==
    /\ main = "read"
    /\ \/ command = "silent" /\ Return("timeout")
       \/ EndOfOutput /\ (Return("panic") \/ (main' = "status" /\ UNCHANGED result))
    /\ UNCHANGED <<resetCmd, stop, transport, call, command, stopVars, counters, disturbed>>

\* A closed channel has an exit status too: -1, which is returned with what there is
\* of the output.
Status ==
    /\ main = "status"
    /\ \/ command = "exited" /\ Return("ok")
       \/ transport # "active" /\ command # "exited" /\ Return("cut")
       \/ Return("timeout")
    /\ UNCHANGED <<resetCmd, stop, transport, call, command, stopVars, counters, disturbed>>

-----------------------------------------------------------------------------
(* fetch_file, which only the main thread calls.                           *)

FetchLocked == main \in {"scp", "transfer"}

LockFetch ==
    /\ main = "lock" /\ main' = "scp"
    /\ UNCHANGED <<resetCmd, stop, transport, outcome, command, stopVars, counters, disturbed>>

Scp ==
    /\ main = "scp"
    /\ \/ transport = "active" /\ main' = "transfer" /\ UNCHANGED result
       \/ transport = "none" /\ Return("AttributeError")
       \/ transport # "none" /\ Unless("empty")
    /\ UNCHANGED <<resetCmd, stop, transport, call, command, stopVars, counters, disturbed>>

\* Mutant: a transfer that fails is taken for one that was stopped.
TransferAnyway ==
    /\ main = "transfer"
    /\ \/ transport = "active" /\ Return("ok")
       \/ Return("empty")
       \/ Return("timeout")
    /\ UNCHANGED <<resetCmd, stop, transport, call, command, stopVars, counters, disturbed>>

\* The remote file may be missing; then, and when the transfer breaks, no data is
\* returned while a stop is requested.
Transfer ==
    /\ main = "transfer"
    /\ \/ transport = "active" /\ Return("ok")
       \/ Unless("empty")
       \/ Return("timeout")
    /\ UNCHANGED <<resetCmd, stop, transport, call, command, stopVars, counters, disturbed>>

-----------------------------------------------------------------------------
(* stop, which is also force_stop.                                         *)

StopperGoes(t, from, to) == stopper[t] = from /\ stopper' = [stopper EXCEPT ![t] = to]

CallStop(t) ==
    /\ stops[t] < MaxStops[t] /\ Ended(t)
    /\ t = Main => main = "idle"
    /\ stopper' = [stopper EXCEPT ![t] = "close"]
    /\ stops' = [stops EXCEPT ![t] = @ + 1]
    /\ stop' = TRUE /\ disturbed' = TRUE
    /\ UNCHANGED <<resetCmd, transport, main, outcome, command, resetProc, closed, counters>>

\* Mutant: a transport that does not answer is not closed.
CloseActive(t) ==
    /\ StopperGoes(t, "close", "waitFetch")
    /\ transport' = IF transport = "active" THEN "none" ELSE transport
    /\ closed' = [closed EXCEPT ![t] = connects]
    /\ UNCHANGED <<resetCmd, stop, main, outcome, command, resetProc, stops, counters, disturbed>>

Close(t) ==
    /\ StopperGoes(t, "close", "waitFetch")
    /\ transport' = "none"
    /\ closed' = [closed EXCEPT ![t] = connects]
    /\ UNCHANGED <<resetCmd, stop, main, outcome, command, resetProc, stops, counters, disturbed>>

\* The step of a stop request changes nothing but where the request is.
OnlyStopper ==
    UNCHANGED <<resetCmd, stop, transport, main, outcome, command, stops, closed, counters,
                disturbed>>

\* Mutant: the closed connection is expected to end the transfer.
WaitFetchNot(t) ==
    StopperGoes(t, "waitFetch", "reset") /\ UNCHANGED resetProc /\ OnlyStopper

\* The lock is polled until the timer expires.
WaitFetch(t) ==
    /\ \/ ~FetchLocked /\ StopperGoes(t, "waitFetch", "reset")
       \/ FetchLocked /\ StopperGoes(t, "waitFetch", "failed")
    /\ UNCHANGED resetProc /\ OnlyStopper

Reset(t) ==
    /\ IF resetCmd
       THEN StopperGoes(t, "reset", "resetting")
            /\ resetProc' = [resetProc EXCEPT ![t] = "running"]
       ELSE StopperGoes(t, "reset", "ended") /\ UNCHANGED resetProc
    /\ OnlyStopper

\* The timer leaves the loop, but the end of the with statement waits for the
\* process.
Resetting(t) ==
    /\ \/ resetProc[t] = "exited" /\ StopperGoes(t, "resetting", "ended")
       \/ resetProc[t] = "running" /\ StopperGoes(t, "resetting", "reap")
    /\ UNCHANGED resetProc /\ OnlyStopper

Reap(t) ==
    /\ resetProc[t] = "exited" /\ StopperGoes(t, "reap", "failed")
    /\ UNCHANGED resetProc /\ OnlyStopper

\* The finally clause.
EndStop(t) ==
    /\ StopperGoes(t, "ended", "done") \/ StopperGoes(t, "failed", "idle")
    /\ stop' = FALSE
    /\ UNCHANGED <<resetCmd, transport, main, outcome, command, resetProc, stops, closed,
                   counters, disturbed>>

-----------------------------------------------------------------------------
CallStep ==
    \/ Probe \/ Connect \/ Authenticate \/ Exec \/ Read \/ Status
    \/ LockFetch \/ Scp \/ Transfer

StopperStep(t) ==
    Close(t) \/ WaitFetch(t) \/ Reset(t) \/ Resetting(t) \/ Reap(t) \/ EndStop(t)

Next ==
    \/ \E name \in Calls : Begin(name)
    \/ CallStep
    \/ \E t \in Threads : CallStop(t) \/ StopperStep(t) \/ ResetExits(t)
    \/ ConnectionLost \/ CommandGoesOn

\* The threads keep running and timers expire.  The remote side, and the reset
\* command, need not do anything: a command may write for ever.
Fairness == WF_vars(CallStep) /\ \A t \in Threads : WF_vars(StopperStep(t))

Spec == Init /\ [][Next]_vars /\ Fairness

-----------------------------------------------------------------------------
TypeOK ==
    /\ resetCmd \in BOOLEAN /\ stop \in BOOLEAN /\ disturbed \in BOOLEAN
    /\ transport \in {"none", "open", "active", "dead"}
    /\ main \in MainPoints /\ call \in Calls \cup {"none"} /\ result \in Results
    /\ command \in {"none", "running", "silent", "closed", "exited"}
    /\ stopper \in [Threads -> StopperPoints]
    /\ resetProc \in [Threads -> {"none", "running", "exited"}]
    /\ connects \in 0 .. MaxConnects /\ calls \in 0 .. MaxCalls
    /\ stops \in [Threads -> Nat] /\ \A t \in Threads : stops[t] <= MaxStops[t]
    /\ closed \in [Threads -> 0 .. MaxConnects]
    /\ main \in {"connect", "auth"} => call = "communicate"
    /\ main \in {"exec", "read", "status"} => call = "run_command"
    /\ main \in {"lock", "scp", "transfer"} => call = "fetch_file"

\* A stop request that has returned normally leaves no connection up but one that
\* was opened after it closed its own.  (SSHSUT.stop; a connect that had begun before
\* is not waited for, and is such a one.)
StopCloses ==
    \A t \in Threads : stopper[t] = "done" /\ Up => connects > closed[t]

\* The reset command runs under no transfer: what goes on then goes over a
\* connection opened after the request closed its own.  (SSHSUT.stop, the wait for
\* _fetch_lock, which fetch_file may take after the check of is_running and even
\* after the wait.)
ResetApart ==
    \A t \in Threads :
        stopper[t] \in {"reset", "resetting", "reap", "ended", "done"} /\ main = "transfer" =>
            connects > closed[t]

\* A call ends with an AttributeError, or a transfer returns no data as if all were
\* well, only if a stop request was under way at some time of the call; and
\* run_command returns before the command has ended (with -1, and the output so far)
\* only then or after the connection was lost.  A transfer reports a lost connection.
\* (is_running, which reads the transport twice; run_command and fetch_file, which
\* drop errors under self._stop.)
DisturbedByStop ==
    /\ result \in {"AttributeError", "empty"} => disturbed
    /\ result = "cut" => disturbed \/ transport = "dead"

\* A command that writes on and on is read as long as it does.
Talking == main = "read" /\ command = "running" /\ transport = "active"

\* Every call returns, unless its command writes for ever, and every stop request
\* ends, unless its reset command never does: a remote side that is silent or gone,
\* or a lost connection, holds up nobody.  (The timeouts of connect, exec_command,
\* SCPClient and stop; that of run_command is one of each line; a reset command is
\* waited for without one, by the with statement of _reset.)
CallsReturn ==
    /\ main # "idle" ~> main = "idle" \/ []Talking
    /\ \A t \in Threads :
        stopper[t] = "close"
            ~> Ended(t) \/ [](stopper[t] = "reap" /\ resetProc[t] = "running")
=============================================================================
