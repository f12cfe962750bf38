------------------------------- MODULE Events -------------------------------
(***************************************************************************)
(* EventsHandler of src/ltp/__init__.py.  Threads that fire events put one *)
(* task per registered callback on a queue; the event loop, a daemon       *)
(* thread, takes the tasks and calls them; the main thread starts and      *)
(* stops the loop.  The stop flag is shared and is also reset by a loop    *)
(* that starts; stop_event_loop joins the thread for ten seconds only, so  *)
(* a loop may outlive it.                                                  *)
(*                                                                         *)
(* The user interface registers its callbacks before the first event, so   *)
(* the registered callbacks are constant here.                             *)
(***************************************************************************)
EXTENDS Integers, Sequences

CONSTANTS
    Firers,         \* threads that fire events
    NumCallbacks,   \* callbacks registered for the events of each thread
    MaxFires,       \* bound on the events each thread fires
    MaxStarts       \* bound on start_event_loop

ASSUME EventsAssumption ==
    NumCallbacks \in [Firers -> Nat \ {0}] /\ MaxFires \in Nat /\ MaxStarts \in Nat

Loops == 1 .. MaxStarts
TasksOf(f) == [firer : {f}, fire : 1 .. MaxFires, callback : 1 .. NumCallbacks[f]]
Tasks == UNION {TasksOf(f) : f \in Firers}

VARIABLES
    tasks,       \* self._tasks
    stop,        \* self._stop
    loopRef,     \* self._loop: the number of a thread, 0 for None
    loopPc,      \* where each event loop is
    current,     \* the task each event loop has taken
    main,        \* where the main thread is in start and stop_event_loop
    starts,      \* event loops started so far
    fires,       \* events fired so far by each thread
    firing,      \* next callback to queue in fire, 0 outside of it
    handler      \* whether "internal_error" has a callback

\* History variables.
VARIABLES
    queued,      \* every task put on the queue, in order
    called,      \* every task called, in order
    leaked,      \* whether join has given up on a loop
    asked,       \* whether stop_event_loop has been called
    due,         \* how much was queued when it set the stop flag
    tooLate      \* whether the loop had then found the queue empty already

queueVars == <<tasks, queued>>
askVars == <<asked, due, tooLate>>
mainVars == <<loopRef, main, starts, leaked, askVars>>
fireVars == <<fires, firing>>
vars == <<queueVars, stop, loopPc, current, mainVars, fireVars, handler, called>>

NoTask == [firer |-> 0, fire |-> 0, callback |-> 0]
LoopPoints == {"unborn", "new", "check", "get", "run", "error", "stopping",
               "ended", "failed", "crashed"}
Over(l) == loopPc[l] \in {"unborn", "ended", "failed", "crashed"}

Init ==
    /\ tasks = <<>> /\ stop = FALSE
    /\ loopRef = 0 /\ loopPc = [l \in Loops |-> "unborn"]
    /\ current = [l \in Loops |-> NoTask]
    /\ main = "idle" /\ starts = 0
    /\ fires = [f \in Firers |-> 0] /\ firing = [f \in Firers |-> 0]
    /\ handler \in BOOLEAN
    /\ queued = <<>> /\ called = <<>>
    /\ leaked = FALSE /\ asked = FALSE /\ due = 0 /\ tooLate = FALSE

-----------------------------------------------------------------------------
(* fire: one put per callback, so two threads may interleave their tasks.  *)

Fire(f) ==
    /\ firing[f] = 0 /\ fires[f] < MaxFires
    /\ fires' = [fires EXCEPT ![f] = @ + 1]
    /\ firing' = [firing EXCEPT ![f] = 1]
    /\ UNCHANGED <<queueVars, stop, loopPc, current, mainVars, handler, called>>

\* Mutant: the loop over the callbacks goes one too far.
PutTaskOneMore(f) ==
    /\ firing[f] # 0
    /\ LET task == [firer |-> f, fire |-> fires[f], callback |-> firing[f]]
       IN  tasks' = Append(tasks, task) /\ queued' = Append(queued, task)
    /\ firing' = [firing EXCEPT ![f] = IF @ > NumCallbacks[f] THEN 0 ELSE @ + 1]
    /\ UNCHANGED <<fires, stop, loopPc, current, mainVars, handler, called>>

PutTask(f) ==
    /\ firing[f] # 0
    /\ LET task == [firer |-> f, fire |-> fires[f], callback |-> firing[f]]
       IN  tasks' = Append(tasks, task) /\ queued' = Append(queued, task)
    /\ firing' = [firing EXCEPT ![f] = IF @ = NumCallbacks[f] THEN 0 ELSE @ + 1]
    /\ UNCHANGED <<fires, stop, loopPc, current, mainVars, handler, called>>

-----------------------------------------------------------------------------
(* _event_loop.                                                            *)

LoopGoes(l, from, to) ==
    loopPc[l] = from /\ loopPc' = [loopPc EXCEPT ![l] = to]

LoopBegin(l) ==
    /\ LoopGoes(l, "new", "check")
    /\ stop' = FALSE
    /\ UNCHANGED <<queueVars, current, mainVars, fireVars, handler, called>>

\* Mutant: a loop that is asked to stop does not look at the queue.
LoopCheckFlagFirst(l) ==
    /\ LoopGoes(l, "check", IF tasks # <<>> /\ ~stop THEN "get" ELSE "stopping")
    /\ UNCHANGED <<queueVars, stop, current, mainVars, fireVars, handler, called>>

LoopCheck(l) ==
    /\ LoopGoes(l, "check", IF tasks # <<>> THEN "get" ELSE "stopping")
    /\ UNCHANGED <<queueVars, stop, current, mainVars, fireVars, handler, called>>

\* Queue.get blocks while another loop has emptied the queue.
LoopGet(l) ==
    /\ tasks # <<>> /\ LoopGoes(l, "get", "run")
    /\ current' = [current EXCEPT ![l] = Head(tasks)]
    /\ tasks' = Tail(tasks)
    /\ UNCHANGED <<queued, stop, mainVars, fireVars, handler, called>>

\* Mutant: tasks that raise are put back and called again.
LoopRunRetrying(l) ==
    /\ \E to \in {"check", "run"} : LoopGoes(l, "run", to)
    /\ called' = Append(called, current[l])
    /\ UNCHANGED <<queueVars, stop, current, mainVars, fireVars, handler>>

\* Mutant: a callback that raises ends the loop, whoever is registered for that.
LoopRunUnhandled(l) ==
    /\ \E to \in {"check", "failed"} : LoopGoes(l, "run", to)
    /\ called' = Append(called, current[l])
    /\ current' = [current EXCEPT ![l] = NoTask]
    /\ UNCHANGED <<queueVars, stop, mainVars, fireVars, handler>>

\* The callback may raise; without an internal_error callback the loop returns.
LoopRun(l) ==
    /\ \/ LoopGoes(l, "run", "check")
       \/ LoopGoes(l, "run", IF handler THEN "error" ELSE "failed")
    /\ called' = Append(called, current[l])
    /\ current' = [current EXCEPT ![l] = NoTask]
    /\ UNCHANGED <<queueVars, stop, mainVars, fireVars, handler>>

\* The internal_error callback may raise in its turn, which nobody catches.
LoopError(l) ==
    /\ \E to \in {"check", "crashed"} : LoopGoes(l, "error", to)
    /\ UNCHANGED <<queueVars, stop, current, mainVars, fireVars, handler, called>>

\* Mutant: a request that meets new tasks is dropped.
LoopStopConsuming(l) ==
    /\ LoopGoes(l, "stopping", IF stop /\ tasks = <<>> THEN "ended" ELSE "check")
    /\ stop' = FALSE
    /\ UNCHANGED <<queueVars, current, mainVars, fireVars, handler, called>>

LoopStop(l) ==
    /\ LoopGoes(l, "stopping", IF stop THEN "ended" ELSE "check")
    /\ UNCHANGED <<queueVars, stop, current, mainVars, fireVars, handler, called>>

-----------------------------------------------------------------------------
(* start_event_loop and stop_event_loop, in the main thread.  `main' tells *)
(* whether the stop is the one that start_event_loop begins with.          *)

CallStart ==
    /\ main = "idle" /\ starts < MaxStarts
    /\ main' = IF loopRef = 0 THEN "spawn" ELSE "restarting"
    /\ UNCHANGED <<queueVars, stop, loopPc, current, loopRef, starts, leaked, askVars>>
    /\ UNCHANGED <<fireVars, handler, called>>

CallStop ==
    /\ main = "idle" /\ loopRef # 0
    /\ main' = "stopping"
    /\ UNCHANGED <<queueVars, stop, loopPc, current, loopRef, starts, leaked, askVars>>
    /\ UNCHANGED <<fireVars, handler, called>>

SetStop ==
    /\ main \in {"stopping", "restarting"}
    /\ main' = IF main = "stopping" THEN "join" ELSE "rejoin"
    /\ stop' = TRUE /\ asked' = TRUE
    /\ due' = Len(queued) /\ tooLate' = (loopPc[loopRef] = "stopping")
    /\ UNCHANGED <<queueVars, loopPc, current, loopRef, starts, leaked>>
    /\ UNCHANGED <<fireVars, handler, called>>

\* join(10) returns when the thread is over or when ten seconds are.
Join ==
    /\ main \in {"join", "rejoin"}
    /\ main' = IF main = "join" THEN "idle" ELSE "spawn"
    /\ loopRef' = 0
    /\ leaked' = (leaked \/ ~Over(loopRef))
    /\ UNCHANGED <<queueVars, stop, loopPc, current, starts, askVars>>
    /\ UNCHANGED <<fireVars, handler, called>>

Spawn ==
    /\ main = "spawn"
    /\ main' = "idle"
    /\ starts' = starts + 1 /\ loopRef' = starts + 1
    /\ loopPc' = [loopPc EXCEPT ![starts + 1] = "new"]
    /\ UNCHANGED <<queueVars, stop, current, leaked, askVars, fireVars, handler, called>>

-----------------------------------------------------------------------------
LoopStep(l) ==
    \/ LoopBegin(l) \/ LoopCheck(l) \/ LoopGet(l) \/ LoopRun(l) \/ LoopError(l)
    \/ LoopStop(l)

MainStep == SetStop \/ Join \/ Spawn

Next ==
    \/ \E f \in Firers : Fire(f) \/ PutTask(f)
    \/ \E l \in Loops : LoopStep(l)
    \/ CallStart \/ CallStop \/ MainStep

\* Threads keep running, and callbacks return.  Nobody has to fire, start or stop.
Fairness ==
    /\ \A l \in Loops : WF_vars(LoopStep(l))
    /\ \A f \in Firers : WF_vars(PutTask(f))
    /\ WF_vars(MainStep)

Spec == Init /\ [][Next]_vars /\ Fairness

-----------------------------------------------------------------------------
TypeOK ==
    /\ tasks \in Seq(Tasks) /\ stop \in BOOLEAN
    /\ loopRef \in 0 .. MaxStarts /\ loopPc \in [Loops -> LoopPoints]
    /\ current \in [Loops -> Tasks \cup {NoTask}]
    /\ main \in {"idle", "stopping", "restarting", "join", "rejoin", "spawn"}
    /\ starts \in 0 .. MaxStarts
    /\ fires \in [Firers -> 0 .. MaxFires] /\ firing \in [Firers -> Nat]
    /\ \A f \in Firers : firing[f] <= NumCallbacks[f]
    /\ handler \in BOOLEAN
    /\ queued \in Seq(Tasks) /\ called \in Seq(Tasks)
    /\ leaked \in BOOLEAN /\ asked \in BOOLEAN /\ tooLate \in BOOLEAN /\ due \in Nat

\* EventsHandler implements the queue its users rely on: callbacks are called
\* at most once, and in order until stop_event_loop has let a loop go.
Queue == INSTANCE EventQueue WITH ordered <- ~leaked
ImplementsQueue == Queue!QueueSpec

\* When the loop of a stop_event_loop ends on request, it has called everything
\* that was queued when the flag was set, unless it was by then past its look at
\* the queue.
StopDrains ==
    loopRef # 0 /\ loopPc[loopRef] = "ended" /\ ~leaked /\ ~tooLate
        => Len(called) >= due

\* While nobody stops the loop, every task that is queued gets called, and a callback
\* that raises changes nothing: unless there is no internal_error callback, whereupon
\* the loop returns, or that callback raises in its turn.  (_event_loop.)
EventuallyCalled ==
    \A t \in Tasks :
        t \in Queue!Members(queued) /\ starts > 0 ~>
            \/ t \in Queue!Members(called) \/ asked
            \/ \E l \in Loops : loopPc[l] = "crashed" \/ (loopPc[l] = "failed" /\ ~handler)

\* The first loop, once it has begun, ends after the flag is set: only a second
\* loop clears the flag, or steals the task that the first is about to get.
StopEndsLoop ==
    starts = 1 /\ stop /\ loopPc[1] # "new" ~> Over(1) \/ starts > 1

\* __init__.py:104, "Fire a specific event.", and the callbacks are executed
\* (109): no event fired before stop_event_loop is dropped by a loop that ends
\* on request.  main.py prints the summary of the session from the last one.
LastEventCalled ==
    loopRef # 0 /\ loopPc[loopRef] = "ended" /\ ~leaked => Len(called) >= due
=============================================================================
