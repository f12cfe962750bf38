----------------------------- MODULE EventsProofs -----------------------------
(* Theorems about Events, for every set of firers, every number of callbacks *)
(* of each, and all the bounds.                                              *)
EXTENDS Events, SequenceTheorems, TLAPS

(***************************************************************************)
(* Type correctness.  A loop that runs a callback has taken one, and the   *)
(* main thread joins a loop that there is.                                 *)
(***************************************************************************)
Control ==
    /\ \A f \in Firers : firing[f] # 0 => fires[f] # 0
    /\ \A l \in Loops : loopPc[l] = "run" => current[l] \in Tasks
    /\ main \in {"stopping", "restarting", "join", "rejoin"} => loopRef # 0
    /\ main \in {"restarting", "rejoin", "spawn"} => starts < MaxStarts

TypeInv == TypeOK /\ Control

\* The task that fire is about to queue for its next callback.
NextTask(f) == [firer |-> f, fire |-> fires[f], callback |-> firing[f]]

LEMMA NextTaskInTasks ==
    ASSUME TypeInv, NEW f \in Firers, firing[f] # 0
    PROVE  NextTask(f) \in Tasks
<1>1. NextTask(f) \in TasksOf(f)
  BY EventsAssumption DEF TypeInv, TypeOK, Control, NextTask, TasksOf
<1> QED
  BY <1>1 DEF Tasks

\* The types hold initially.
LEMMA TypeInit == Init => TypeInv
<1> SUFFICES ASSUME Init PROVE TypeInv
  OBVIOUS
<1>1. /\ stop \in BOOLEAN /\ handler \in BOOLEAN
      /\ leaked \in BOOLEAN /\ asked \in BOOLEAN /\ tooLate \in BOOLEAN
  BY DEF Init
<1>2. tasks \in Seq(Tasks) /\ queued \in Seq(Tasks) /\ called \in Seq(Tasks)
  BY DEF Init
<1>3. /\ loopPc \in [Loops -> LoopPoints] /\ current \in [Loops -> Tasks \cup {NoTask}]
      /\ fires \in [Firers -> 0 .. MaxFires] /\ firing \in [Firers -> Nat]
      /\ \A f \in Firers : firing[f] <= NumCallbacks[f]
  BY EventsAssumption DEF Init, LoopPoints
<1>4. loopRef \in 0 .. MaxStarts /\ starts \in 0 .. MaxStarts /\ due \in Nat /\ main = "idle"
  BY EventsAssumption DEF Init
<1>5. Control
  BY DEF Init, Control
<1> QED
  BY <1>1, <1>2, <1>3, <1>4, <1>5 DEF TypeInv, TypeOK

\* Every step preserves the types.
LEMMA TypeStep == TypeInv /\ [Next]_vars => TypeInv'
<1> SUFFICES ASSUME TypeInv, [Next]_vars PROVE TypeInv'
  OBVIOUS
<1> USE EventsAssumption DEF TypeInv, TypeOK, Control
<1>1. ASSUME NEW f \in Firers, Fire(f) PROVE TypeInv'
  <2>1. UNCHANGED <<queueVars, stop, loopPc, current, mainVars, handler, called>>
    BY <1>1 DEF Fire
  <2>2. fires' \in [Firers -> 0 .. MaxFires] /\ firing' \in [Firers -> Nat]
    BY <1>1 DEF Fire
  <2>3. /\ \A g \in Firers : firing'[g] <= NumCallbacks[g]
        /\ \A g \in Firers : firing'[g] # 0 => fires'[g] # 0
    BY <1>1 DEF Fire
  <2> QED
    BY <2>1, <2>2, <2>3 DEF queueVars, mainVars, askVars
<1>2. ASSUME NEW f \in Firers, PutTask(f) PROVE TypeInv'
  <2>1. UNCHANGED <<fires, stop, loopPc, current, mainVars, handler, called>>
    BY <1>2 DEF PutTask
  <2>2. tasks' \in Seq(Tasks) /\ queued' \in Seq(Tasks)
    BY <1>2, NextTaskInTasks, AppendProperties DEF PutTask, NextTask
  <2>3. firing' \in [Firers -> Nat] /\ \A g \in Firers : firing'[g] <= NumCallbacks[g]
    BY <1>2 DEF PutTask
  <2>4. \A g \in Firers : firing'[g] # 0 => fires'[g] # 0
    BY <1>2 DEF PutTask
  <2> QED
    BY <2>1, <2>2, <2>3, <2>4 DEF mainVars, askVars
<1>3. ASSUME NEW l \in Loops, LoopStep(l) PROVE TypeInv'
  <2> USE DEF LoopGoes, LoopPoints
  <2>1. UNCHANGED <<mainVars, fireVars, handler, queued>>
    BY <1>3 DEF LoopStep, LoopBegin, LoopCheck, LoopGet, LoopRun, LoopError, LoopStop, queueVars
  <2>2. stop' \in BOOLEAN
    BY <1>3 DEF LoopStep, LoopBegin, LoopCheck, LoopGet, LoopRun, LoopError, LoopStop
  <2>3. loopPc' \in [Loops -> LoopPoints]
    BY <1>3 DEF LoopStep, LoopBegin, LoopCheck, LoopGet, LoopRun, LoopError, LoopStop
  <2>4. ASSUME LoopGet(l) PROVE Head(tasks) \in Tasks /\ Tail(tasks) \in Seq(Tasks)
    BY <2>4, HeadTailProperties DEF LoopGet
  <2>5. ASSUME LoopRun(l) PROVE called' \in Seq(Tasks)
    BY <2>5, AppendProperties DEF LoopRun
  <2>6. /\ tasks' \in Seq(Tasks) /\ called' \in Seq(Tasks)
        /\ current' \in [Loops -> Tasks \cup {NoTask}]
        /\ \A k \in Loops : loopPc'[k] = "run" => current'[k] \in Tasks
    <3>1. CASE LoopGet(l)
      BY <2>4, <3>1 DEF LoopGet
    <3>2. CASE LoopRun(l)
      BY <2>5, <3>2 DEF LoopRun, queueVars
    <3>3. CASE LoopBegin(l) \/ LoopCheck(l) \/ LoopError(l) \/ LoopStop(l)
      BY <3>3 DEF LoopBegin, LoopCheck, LoopError, LoopStop, queueVars
    <3> QED
      BY <1>3, <3>1, <3>2, <3>3 DEF LoopStep
  <2> QED
    BY <2>1, <2>2, <2>3, <2>6 DEF mainVars, askVars, fireVars
<1>4. CASE CallStart \/ CallStop
  BY <1>4 DEF CallStart, CallStop, queueVars, askVars, fireVars
<1>5. CASE SetStop
  <2>1. stop' \in BOOLEAN /\ asked' \in BOOLEAN /\ tooLate' \in BOOLEAN
    BY <1>5 DEF SetStop
  <2>2. due' \in Nat
    BY <1>5, LenProperties DEF SetStop
  <2> QED
    BY <1>5, <2>1, <2>2 DEF SetStop, queueVars, fireVars
<1>6. CASE Join
  <2>1. leaked' \in BOOLEAN
    BY <1>6 DEF Join
  <2> QED
    BY <1>6, <2>1 DEF Join, queueVars, askVars, fireVars
<1>7. CASE Spawn
  <2>1. loopPc' \in [Loops -> LoopPoints] /\ \A l \in Loops : loopPc'[l] = "run" => current'[l] \in Tasks
    BY <1>7 DEF Spawn, LoopPoints
  <2>2. starts' \in 0 .. MaxStarts /\ loopRef' \in 0 .. MaxStarts /\ main' = "idle"
    BY <1>7 DEF Spawn
  <2> QED
    BY <1>7, <2>1, <2>2 DEF Spawn, queueVars, askVars, fireVars
<1>8. CASE UNCHANGED vars
  BY <1>8 DEF vars, queueVars, mainVars, askVars, fireVars
<1> QED
  BY <1>1, <1>2, <1>3, <1>4, <1>5, <1>6, <1>7, <1>8 DEF Next, MainStep

\* The types are an invariant.
LEMMA TypeInvariant == Spec => []TypeInv
  BY TypeInit, TypeStep, PTL DEF Spec

\* Every variable of the events handler keeps its type; only tasks of callbacks
\* that are registered are queued and called.
THEOREM TypeCorrect == Spec => []TypeOK
<1>1. TypeInv => TypeOK
  BY DEF TypeInv
<1> QED
  BY TypeInvariant, <1>1, PTL

(***************************************************************************)
(* Loops.  Until join has given up on a loop, the loop that _loop refers   *)
(* to is the only one that may be under way.                               *)
(***************************************************************************)
OneLoop ==
    /\ \A l \in Loops : l > starts => loopPc[l] = "unborn"
    /\ ~leaked => \A l \in Loops : Over(l) \/ l = loopRef
    /\ main = "spawn" => loopRef = 0

LEMMA OneLoopInvariant == Spec => []OneLoop
<1>1. Init => OneLoop
  BY DEF Init, OneLoop, Over
<1>2. ASSUME TypeInv, OneLoop, [Next]_vars PROVE OneLoop'
  <2> USE <1>2, EventsAssumption DEF TypeInv, TypeOK, Control, OneLoop, Over
  <2>1. ASSUME NEW f \in Firers, Fire(f) \/ PutTask(f) PROVE OneLoop'
    BY <2>1 DEF Fire, PutTask, mainVars
  <2>2. ASSUME NEW l \in Loops, LoopStep(l) PROVE OneLoop'
    <3>1. /\ UNCHANGED mainVars /\ loopPc[l] \notin {"unborn", "ended", "failed", "crashed"}
          /\ \E to \in LoopPoints : loopPc' = [loopPc EXCEPT ![l] = to]
      BY <2>2 DEF LoopStep, LoopBegin, LoopCheck, LoopGet, LoopRun, LoopError, LoopStop, LoopGoes,
                  LoopPoints
    <3> QED
      BY <3>1 DEF mainVars
  <2>3. CASE CallStart \/ CallStop
    BY <2>3 DEF CallStart, CallStop
  <2>4. CASE SetStop
    BY <2>4 DEF SetStop
  <2>5. CASE Join
    BY <2>5 DEF Join
  <2>6. CASE Spawn
    BY <2>6 DEF Spawn, Loops
  <2>7. CASE UNCHANGED vars
    BY <2>7 DEF vars, mainVars
  <2> QED
    BY <2>1, <2>2, <2>3, <2>4, <2>5, <2>6, <2>7 DEF Next, MainStep
<1> QED
  BY <1>1, <1>2, TypeInvariant, PTL DEF Spec

(***************************************************************************)
(* The steps, by what they do to the loops that are calling a callback.    *)
(***************************************************************************)
Running == {l \in Loops : loopPc[l] = "run"}

Quiet ==
    \/ \E l \in Loops : LoopBegin(l) \/ LoopCheck(l) \/ LoopError(l) \/ LoopStop(l)
    \/ CallStart \/ CallStop \/ MainStep

\* The steps that neither fire, nor take, nor call.
LEMMA QuietSteps ==
    ASSUME TypeInv, OneLoop, Quiet \/ UNCHANGED vars
    PROVE  UNCHANGED <<tasks, queued, called, current, fires, firing>> /\ Running' = Running
<1> USE DEF TypeInv, TypeOK, queueVars, fireVars, Running
<1>1. CASE \E l \in Loops : LoopBegin(l) \/ LoopCheck(l) \/ LoopError(l) \/ LoopStop(l)
  BY <1>1 DEF LoopBegin, LoopCheck, LoopError, LoopStop, LoopGoes
<1>2. CASE CallStart \/ CallStop
  BY <1>2 DEF CallStart, CallStop
<1>3. CASE SetStop
  BY <1>3 DEF SetStop
<1>4. CASE Join
  BY <1>4 DEF Join
<1>5. CASE UNCHANGED vars
  BY <1>5 DEF vars
<1>6. CASE Spawn
  BY <1>6, EventsAssumption DEF Spawn, Loops, OneLoop, Control
<1> QED
  BY <1>1, <1>2, <1>3, <1>4, <1>5, <1>6 DEF Quiet, MainStep

\* A loop takes the first task.
LEMMA GetSteps ==
    ASSUME TypeInv, NEW l \in Loops, LoopGet(l)
    PROVE  /\ tasks # <<>> /\ tasks' = Tail(tasks) /\ current' = [current EXCEPT ![l] = tasks[1]]
           /\ l \notin Running /\ Running' = Running \cup {l}
           /\ UNCHANGED <<queued, called, fires, firing, mainVars>>
  BY DEF LoopGet, LoopGoes, Running, TypeInv, TypeOK, fireVars

\* A loop calls the task that it has taken.
LEMMA RunSteps ==
    ASSUME TypeInv, NEW l \in Loops, LoopRun(l)
    PROVE  /\ called' = Append(called, current[l]) /\ current[l] \in Tasks
           /\ \A k \in Loops \ {l} : current'[k] = current[k]
           /\ l \in Running /\ Running' = Running \ {l}
           /\ UNCHANGED <<tasks, queued, fires, firing, mainVars>>
<1>1. \E to \in {"check", "error", "failed"} :
         loopPc[l] = "run" /\ loopPc' = [loopPc EXCEPT ![l] = to]
  BY DEF LoopRun, LoopGoes
<1> QED
  BY <1>1 DEF LoopRun, Running, TypeInv, TypeOK, Control, fireVars, queueVars

\* What a step may be.
LEMMA StepKinds ==
    ASSUME [Next]_vars
    PROVE  \/ \E f \in Firers : Fire(f) \/ PutTask(f)
           \/ \E l \in Loops : LoopGet(l) \/ LoopRun(l)
           \/ Quiet \/ UNCHANGED vars
  BY DEF Next, LoopStep, Quiet

(***************************************************************************)
(* Tasks are new when they are queued: fire counts its calls, and within a *)
(* call the callbacks.                                                     *)
(***************************************************************************)
Older(task) ==
    /\ task.fire <= fires[task.firer]
    /\ task.fire = fires[task.firer] /\ firing[task.firer] # 0
           => task.callback < firing[task.firer]

Fresh == \A i \in 1 .. Len(queued) : Older(queued[i])

Distinct == \A i, j \in 1 .. Len(queued) : queued[i] = queued[j] => i = j

\* The parts of a task.
LEMMA TaskParts ==
    ASSUME NEW task \in Tasks
    PROVE  /\ task.firer \in Firers /\ task.fire \in 1 .. MaxFires
           /\ task.callback \in 1 .. NumCallbacks[task.firer]
  BY DEF Tasks, TasksOf

LEMMA FreshInvariant == Spec => [](Fresh /\ Distinct)
<1>1. Init => Fresh /\ Distinct
  BY DEF Init, Fresh, Distinct
<1>2. ASSUME TypeInv, OneLoop, Fresh, Distinct, [Next]_vars PROVE Fresh' /\ Distinct'
  <2> USE <1>2
  <2>0. /\ Len(queued) \in Nat
        /\ \A i \in 1 .. Len(queued) :
              /\ queued[i].firer \in Firers /\ queued[i].fire \in Nat
              /\ queued[i].callback \in 1 .. NumCallbacks[queued[i].firer]
    BY LenProperties, ElementOfSeq, TaskParts DEF TypeInv, TypeOK
  <2>1. ASSUME NEW f \in Firers, Fire(f) PROVE Fresh' /\ Distinct'
    BY <2>0, <2>1 DEF Fire, Fresh, Distinct, Older, queueVars, TypeInv, TypeOK
  <2>2. ASSUME NEW f \in Firers, PutTask(f) PROVE Fresh' /\ Distinct'
    <3>1. /\ queued' = Append(queued, NextTask(f)) /\ firing[f] # 0 /\ UNCHANGED fires
          /\ firing' = [firing EXCEPT ![f] = IF @ = NumCallbacks[f] THEN 0 ELSE @ + 1]
      BY <2>2 DEF PutTask, NextTask
    <3>2. /\ Len(queued') = Len(queued) + 1 /\ queued'[Len(queued) + 1] = NextTask(f)
          /\ \A i \in 1 .. Len(queued) : queued'[i] = queued[i]
      BY <3>1, NextTaskInTasks, AppendProperties DEF TypeInv, TypeOK
    <3>3. \A i \in 1 .. Len(queued) : queued[i] # NextTask(f)
      BY <2>0, <3>1, EventsAssumption DEF Fresh, Older, NextTask, TypeInv, TypeOK
    <3>4. Distinct'
      BY <2>0, <3>2, <3>3 DEF Distinct
    <3>5. Fresh'
      BY <2>0, <3>1, <3>2, EventsAssumption DEF Fresh, Older, NextTask, TypeInv, TypeOK
    <3> QED
      BY <3>4, <3>5
  <2>3. ASSUME NEW l \in Loops, LoopGet(l) \/ LoopRun(l) PROVE Fresh' /\ Distinct'
    BY <2>3, GetSteps, RunSteps DEF Fresh, Distinct, Older
  <2>4. CASE Quiet \/ UNCHANGED vars
    BY <2>4, QuietSteps DEF Fresh, Distinct, Older
  <2> QED
    BY <2>1, <2>2, <2>3, <2>4, StepKinds
<1> QED
  BY <1>1, <1>2, TypeInvariant, OneLoopInvariant, PTL DEF Spec

(***************************************************************************)
(* Where the tasks are.  Of the queued tasks the first ones have been      *)
(* taken, and those that have not been called yet are held by a loop; with *)
(* a single loop at most one is.                                           *)
(***************************************************************************)
Taken == Len(queued) - Len(tasks)

Waiting ==
    /\ Len(tasks) <= Len(queued)
    /\ \A i \in 1 .. Len(tasks) : tasks[i] = queued[Taken + i]

Held ==
    \A l \in Running :
        /\ \E i \in 1 .. Taken : queued[i] = current[l]
        /\ current[l] \notin Queue!Members(called)
        /\ \A k \in Running : current[k] = current[l] => k = l

Done == \A task \in Queue!Members(called) : \E i \in 1 .. Taken : queued[i] = task

InOrder ==
    ~leaked =>
        /\ \A l \in Running : Taken = Len(called) + 1 /\ current[l] = queued[Taken]
        /\ Running = {} => Taken = Len(called)

Places == Waiting /\ Held /\ Done /\ InOrder

LEMMA PlacesInit == Init => Places
<1> SUFFICES ASSUME Init PROVE Places
  OBVIOUS
<1>1. Running = {} /\ Queue!Members(called) = {}
  BY DEF Init, Running, Queue!Members
<1> QED
  BY <1>1 DEF Init, Places, Waiting, Held, Done, InOrder, Taken

\* A task that is queued goes to the end of the queue.
LEMMA PlacesPut ==
    ASSUME TypeInv, Places, NEW f \in Firers, PutTask(f)
    PROVE  Places'
<1>1. /\ tasks' = Append(tasks, NextTask(f)) /\ queued' = Append(queued, NextTask(f))
      /\ NextTask(f) \in Tasks /\ UNCHANGED <<called, current, loopPc, leaked>>
  BY NextTaskInTasks DEF PutTask, NextTask, mainVars
<1>2. /\ Len(queued) \in Nat /\ Len(queued') = Len(queued) + 1
      /\ queued'[Len(queued) + 1] = NextTask(f)
      /\ \A i \in 1 .. Len(queued) : queued'[i] = queued[i]
  BY <1>1, AppendProperties, LenProperties DEF TypeInv, TypeOK
<1>3. /\ Len(tasks) \in Nat /\ Len(tasks') = Len(tasks) + 1
      /\ tasks'[Len(tasks) + 1] = NextTask(f)
      /\ \A i \in 1 .. Len(tasks) : tasks'[i] = tasks[i]
  BY <1>1, AppendProperties, LenProperties DEF TypeInv, TypeOK
<1>4. Taken' = Taken /\ Taken \in 0 .. Len(queued)
  BY <1>2, <1>3 DEF Taken, Places, Waiting
<1>5. Running' = Running /\ Queue!Members(called)' = Queue!Members(called)
  BY <1>1 DEF Running, Queue!Members
<1>6. Waiting'
  <2>1. Len(tasks') <= Len(queued')
    BY <1>2, <1>3 DEF Places, Waiting
  <2>2. Taken + Len(tasks) = Len(queued) /\ Taken \in Nat
    BY <1>2, <1>3, <1>4 DEF Taken
  <2>3. ASSUME NEW i \in 1 .. Len(tasks) PROVE tasks'[i] = queued'[Taken + i]
    <3>1. tasks'[i] = queued[Taken + i]
      BY <1>3 DEF Places, Waiting
    <3>2. Taken + i \in 1 .. Len(queued)
      BY <1>2, <1>3, <2>2
    <3> QED
      BY <1>2, <3>1, <3>2
  <2>4. tasks'[Len(tasks) + 1] = queued'[Taken + (Len(tasks) + 1)]
    BY <1>2, <1>3, <2>2
  <2>5. \A i \in 1 .. Len(tasks') : tasks'[i] = queued'[Taken + i]
    BY <1>3, <2>3, <2>4
  <2> QED
    BY <1>4, <2>1, <2>5 DEF Waiting
<1>7. \A i \in 1 .. Taken : queued'[i] = queued[i]
  BY <1>2, <1>4
<1>8. Held' /\ Done'
  BY <1>1, <1>4, <1>5, <1>7 DEF Places, Held, Done
<1>9. InOrder'
  <2>1. ASSUME ~leaked, NEW l \in Running
        PROVE  Taken = Len(called) + 1 /\ current[l] = queued'[Taken]
    BY <1>4, <1>7, <2>1, LenProperties DEF Places, InOrder, TypeInv, TypeOK
  <2> QED
    BY <1>1, <1>4, <1>5, <2>1 DEF Places, InOrder
<1> QED
  BY <1>6, <1>8, <1>9 DEF Places

\* A task that a loop takes is one that no loop holds and none has called.
LEMMA PlacesGet ==
    ASSUME TypeInv, OneLoop, Distinct, Places, NEW l \in Loops, LoopGet(l)
    PROVE  Places'
<1>1. /\ tasks # <<>> /\ tasks' = Tail(tasks) /\ current' = [current EXCEPT ![l] = tasks[1]]
      /\ l \notin Running /\ Running' = Running \cup {l}
      /\ UNCHANGED <<queued, called, mainVars>>
  BY GetSteps
<1>2. /\ Len(tasks) \in Nat \ {0} /\ Len(tasks') = Len(tasks) - 1
      /\ \A i \in 1 .. Len(tasks') : tasks'[i] = tasks[i + 1]
  BY <1>1, HeadTailProperties, EmptySeq DEF TypeInv, TypeOK
<1>3. Len(queued) \in Nat /\ Len(called) \in Nat
  BY LenProperties DEF TypeInv, TypeOK
<1>4. Taken' = Taken + 1 /\ Taken \in Nat /\ Taken + 1 \in 1 .. Len(queued)
  BY <1>1, <1>2, <1>3 DEF Taken, Places, Waiting
<1>5. tasks[1] = queued[Taken + 1]
  BY <1>2 DEF Places, Waiting
<1>6. Waiting'
  <2>1. \A i \in 1 .. Len(tasks') : tasks'[i] = queued[Taken + (i + 1)]
    BY <1>2, <1>3 DEF Places, Waiting
  <2> QED
    BY <1>1, <1>2, <1>3, <1>4, <2>1 DEF Waiting, Places
<1>7. \A i \in 1 .. Taken : queued[i] # tasks[1]
  BY <1>3, <1>4, <1>5 DEF Distinct
<1>8. tasks[1] \notin Queue!Members(called) /\ \A k \in Running : current[k] # tasks[1]
  BY <1>7 DEF Places, Held, Done
<1>9. /\ current'[l] = tasks[1] /\ \A k \in Running : k # l /\ current'[k] = current[k]
      /\ Queue!Members(called)' = Queue!Members(called)
  BY <1>1 DEF TypeInv, TypeOK, Running, Queue!Members
<1>10. Held' /\ Done'
  BY <1>1, <1>4, <1>5, <1>8, <1>9 DEF Places, Held, Done
<1>11. InOrder'
  <2> SUFFICES ASSUME ~leaked PROVE InOrder'
    BY <1>1 DEF InOrder, mainVars
  <2>1. \A k \in Running' : k = l
    <3>1. Over(l) \/ l = loopRef
      BY DEF OneLoop
    <3>2. ~Over(l)
      BY DEF LoopGet, LoopGoes, Over
    <3> QED
      BY <1>1, <3>1, <3>2 DEF OneLoop, Running, Over
  <2>2. Running = {}
    BY <1>1, <2>1
  <2> QED
    BY <1>1, <1>3, <1>4, <1>5, <1>9, <2>1, <2>2 DEF Places, InOrder
<1> QED
  BY <1>6, <1>10, <1>11 DEF Places

\* A task that is called is held by that loop alone, and by none afterwards.
LEMMA PlacesRun ==
    ASSUME TypeInv, OneLoop, Places, NEW l \in Loops, LoopRun(l)
    PROVE  Places'
<1>1. /\ called' = Append(called, current[l]) /\ current[l] \in Tasks
      /\ \A k \in Loops \ {l} : current'[k] = current[k]
      /\ l \in Running /\ Running' = Running \ {l}
      /\ UNCHANGED <<tasks, queued, mainVars>>
  BY RunSteps
<1>2. /\ Len(called) \in Nat /\ Len(called') = Len(called) + 1
      /\ Queue!Members(called)' = Queue!Members(called) \cup {current[l]}
  <2>1. /\ Len(called) \in Nat /\ Len(called') = Len(called) + 1
        /\ called'[Len(called) + 1] = current[l]
        /\ \A i \in 1 .. Len(called) : called'[i] = called[i]
    BY <1>1, AppendProperties, LenProperties DEF TypeInv, TypeOK
  <2> QED
    BY <2>1 DEF Queue!Members
<1>3. Waiting'
  BY <1>1 DEF Places, Waiting, Taken
<1>4. \A k \in Running' : k \in Running /\ k # l /\ current'[k] = current[k]
  BY <1>1 DEF Running
<1>5. Taken' = Taken
  BY <1>1 DEF Taken
<1>6. Held' /\ Done'
  BY <1>1, <1>2, <1>4, <1>5 DEF Places, Held, Done
<1>7. InOrder'
  <2> SUFFICES ASSUME ~leaked PROVE InOrder'
    BY <1>1 DEF InOrder, mainVars
  <2>1. Taken = Len(called) + 1
    BY <1>1 DEF Places, InOrder
  <2>2. Running' = {}
    BY <1>1, <1>4 DEF OneLoop, Running, Over
  <2> QED
    BY <1>2, <1>5, <2>1, <2>2 DEF InOrder
<1> QED
  BY <1>3, <1>6, <1>7 DEF Places

\* A loop that was let go stays let go.
LEMMA LeakedStays ==
    ASSUME [Next]_vars
    PROVE  leaked => leaked'
<1>1. CASE Join
  BY <1>1 DEF Join
<1>2. CASE UNCHANGED leaked
  BY <1>2
<1> QED
  BY <1>1, <1>2
  DEF Next, Fire, PutTask, LoopStep, LoopBegin, LoopCheck, LoopGet, LoopRun, LoopError, LoopStop,
      CallStart, CallStop, MainStep, SetStop, Spawn, mainVars, vars

\* The other steps leave the tasks where they are.
LEMMA PlacesQuiet ==
    ASSUME TypeInv, OneLoop, Places,
           (Quiet \/ UNCHANGED vars) \/ (\E f \in Firers : Fire(f))
    PROVE  Places'
<1>1. UNCHANGED <<tasks, queued, called, current>> /\ Running' = Running
  BY QuietSteps DEF Fire, Running, queueVars
<1>2. leaked => leaked'
  BY LeakedStays DEF Next, LoopStep, Quiet
<1> QED
  BY <1>1, <1>2 DEF Places, Waiting, Held, Done, InOrder, Taken, Queue!Members

LEMMA PlacesInvariant == Spec => []Places
<1>1. ASSUME TypeInv, OneLoop, Distinct, Places, [Next]_vars PROVE Places'
  BY <1>1, StepKinds, PlacesPut, PlacesGet, PlacesRun, PlacesQuiet
<1> QED
  BY PlacesInit, <1>1, TypeInvariant, OneLoopInvariant, FreshInvariant, PTL DEF Spec

(***************************************************************************)
(* The refinement.                                                         *)
(***************************************************************************)
\* fire enqueues, and what it enqueues is new.
LEMMA PutEnqueues ==
    ASSUME TypeInv, Fresh, NEW f \in Firers, PutTask(f)
    PROVE  Queue!Enqueue(NextTask(f)) /\ NextTask(f) \in Tasks
<1>1. queued' = Append(queued, NextTask(f)) /\ UNCHANGED <<called, leaked>>
  BY DEF PutTask, NextTask, mainVars
<1>2. NextTask(f) \in Tasks
  BY NextTaskInTasks DEF PutTask
<1>3. NextTask(f) \notin Queue!Members(queued)
  BY <1>2, EventsAssumption DEF Queue!Members, Fresh, Older, NextTask, PutTask, TypeInv, TypeOK
<1> QED
  BY <1>1, <1>2, <1>3 DEF Queue!Enqueue

\* The event loop calls what has been queued and not called, in order if it is alone.
LEMMA RunCalls ==
    ASSUME TypeInv, OneLoop, Places, NEW l \in Loops, LoopRun(l)
    PROVE  Queue!Call(current[l]) /\ current[l] \in Tasks
<1>1. /\ called' = Append(called, current[l]) /\ current[l] \in Tasks
      /\ l \in Running /\ UNCHANGED <<queued, mainVars>>
  BY RunSteps
<1>2. Len(queued) \in Nat /\ Len(tasks) \in Nat
  BY LenProperties DEF TypeInv, TypeOK
<1>3. current[l] \in Queue!Members(queued) \ Queue!Members(called)
  BY <1>1, <1>2 DEF Places, Waiting, Held, Taken, Queue!Members
<1>4. ~leaked => current[l] = queued[Len(called) + 1]
  BY <1>1 DEF Places, InOrder
<1> QED
  BY <1>1, <1>3, <1>4 DEF Queue!Call, mainVars

\* The rest is invisible to the users of the queue, but for a loop let go.
LEMMA QuietStutters ==
    ASSUME TypeInv, OneLoop,
           \/ Quiet \/ UNCHANGED vars
           \/ \E f \in Firers : Fire(f)
           \/ \E l \in Loops : LoopGet(l)
    PROVE  Queue!LoseOrder \/ UNCHANGED Queue!queueVars
<1>1. UNCHANGED <<queued, called>>
  BY QuietSteps, GetSteps DEF Fire, queueVars
<1>2. leaked => leaked'
  BY LeakedStays DEF Next, LoopStep, Quiet
<1> QED
  BY <1>1, <1>2 DEF Queue!LoseOrder, Queue!queueVars

\* EventsHandler is a queue of callbacks: none is called twice, and until
\* stop_event_loop has let a loop go all are called in the order in which they
\* were queued, however many threads fire events.
THEOREM HandlerImplementsQueue == Spec => ImplementsQueue
<1>1. Init => Queue!QueueInit
  BY DEF Init, Queue!QueueInit
<1>2. ASSUME TypeInv, OneLoop, Fresh, Places, [Next]_vars
      PROVE  [Queue!QueueNext]_(Queue!queueVars)
  <2>1. ASSUME NEW f \in Firers, PutTask(f) PROVE Queue!QueueNext
    BY <1>2, <2>1, PutEnqueues DEF Queue!QueueNext
  <2>2. ASSUME NEW l \in Loops, LoopRun(l) PROVE Queue!QueueNext
    BY <1>2, <2>2, RunCalls DEF Queue!QueueNext
  <2>3. CASE \/ Quiet \/ UNCHANGED vars
             \/ \E f \in Firers : Fire(f)
             \/ \E l \in Loops : LoopGet(l)
    BY <1>2, <2>3, QuietStutters DEF Queue!QueueNext
  <2> QED
    BY <1>2, <2>1, <2>2, <2>3, StepKinds
<1> QED
  BY <1>1, <1>2, TypeInvariant, OneLoopInvariant, FreshInvariant, PlacesInvariant, PTL
  DEF Spec, ImplementsQueue, Queue!QueueSpec

(***************************************************************************)
(* Stopping.  The loop that main stops is the only one; what it finds when *)
(* it sees the queue empty has been called; and it can only end between    *)
(* the flag and the join, because a loop that begins resets the flag.      *)
(***************************************************************************)
Joining == main \in {"join", "rejoin"}

Leaving(l) == loopPc[l] = "ended" \/ (loopPc[l] = "stopping" /\ stop)

Drained ==
    /\ due <= Len(queued)
    /\ ~leaked /\ loopRef # 0 =>
          /\ ~Joining => loopPc[loopRef] # "ended" /\ (stop => loopPc[loopRef] = "new")
          /\ Joining /\ Leaving(loopRef) => tooLate \/ Len(called) >= due

\* A step of a loop: the only loop, unless one was let go.
LEMMA DrainedLoop ==
    ASSUME TypeInv, OneLoop, Places, Drained, NEW l \in Loops, LoopStep(l)
    PROVE  Drained'
<1>1. UNCHANGED <<mainVars, queued>>
  BY DEF LoopStep, LoopBegin, LoopCheck, LoopGet, LoopRun, LoopError, LoopStop, queueVars
<1> SUFFICES ASSUME ~leaked, loopRef # 0
    PROVE  /\ ~Joining => loopPc'[loopRef] # "ended" /\ (stop' => loopPc'[loopRef] = "new")
           /\ Joining /\ Leaving(loopRef)' => tooLate \/ Len(called') >= due
  BY <1>1 DEF Drained, Joining, Leaving, mainVars, askVars
<1>2. l = loopRef /\ loopRef' = loopRef
  BY <1>1 DEF mainVars, OneLoop, Over, LoopStep, LoopBegin, LoopCheck, LoopGet, LoopRun, LoopError, LoopStop, LoopGoes
<1> USE <1>2 DEF LoopGoes, Drained, Leaving, TypeInv, TypeOK
<1>3. CASE LoopBegin(l)
  BY <1>3 DEF LoopBegin
<1>4. CASE LoopCheck(l)
  <2>1. CASE tasks = <<>>
    <3>1. Running = {}
      BY <1>4 DEF LoopCheck, OneLoop, Over, Running
    <3>2. Len(called) = Len(queued)
      BY <2>1, <3>1, LenProperties DEF Places, InOrder, Taken
    <3> QED
      BY <1>4, <3>2 DEF LoopCheck
  <2>2. CASE tasks # <<>>
    BY <1>4, <2>2 DEF LoopCheck
  <2> QED
    BY <2>1, <2>2
<1>5. CASE LoopGet(l)
  BY <1>5 DEF LoopGet
<1>6. CASE LoopRun(l)
  <2>1. \E to \in {"check", "error", "failed"} :
           loopPc[l] = "run" /\ loopPc' = [loopPc EXCEPT ![l] = to] /\ UNCHANGED stop
    BY <1>6 DEF LoopRun
  <2> QED
    BY <2>1
<1>7. CASE LoopError(l)
  BY <1>7 DEF LoopError
<1>8. CASE LoopStop(l)
  BY <1>8 DEF LoopStop
<1> QED
  BY <1>3, <1>4, <1>5, <1>6, <1>7, <1>8 DEF LoopStep

\* A loop that ends on request, and could still see the queue when the flag was
\* set, has called everything that was queued by then.
THEOREM StopCallsAll == Spec => []StopDrains
<1>1. Init => Drained
  BY DEF Init, Drained
<1>2. ASSUME TypeInv, OneLoop, Places, Drained, [Next]_vars PROVE Drained'
  <2> USE <1>2
  <2>1. ASSUME NEW f \in Firers, Fire(f) \/ PutTask(f) PROVE Drained'
    <3>1. UNCHANGED <<stop, loopPc, mainVars, called>> /\ Len(queued') >= Len(queued)
      BY <2>1, NextTaskInTasks, AppendProperties, LenProperties
      DEF Fire, PutTask, NextTask, queueVars, TypeInv, TypeOK
    <3>2. Len(queued') \in Nat /\ Len(queued) \in Nat /\ due \in Nat
      BY TypeStep, LenProperties DEF TypeInv, TypeOK
    <3> QED
      BY <3>1, <3>2 DEF Drained, Joining, Leaving, mainVars, askVars
  <2>2. ASSUME NEW l \in Loops, LoopStep(l) PROVE Drained'
    BY <2>2, DrainedLoop
  <2>3. CASE CallStart \/ CallStop
    BY <2>3 DEF CallStart, CallStop, Drained, Joining, Leaving, queueVars, askVars
  <2>4. CASE SetStop
    <3>1. due' <= Len(queued')
      BY <2>4, LenProperties DEF SetStop, queueVars, TypeInv, TypeOK
    <3>2. ~leaked /\ loopRef # 0 => loopPc[loopRef] # "ended"
      BY <2>4 DEF SetStop, Drained, Joining
    <3> QED
      BY <2>4, <3>1, <3>2 DEF SetStop, Drained, Joining, Leaving
  <2>5. CASE Join
    BY <2>5 DEF Join, Drained, queueVars, askVars
  <2>6. CASE Spawn
    BY <2>6, EventsAssumption
    DEF Spawn, Drained, Joining, Leaving, queueVars, askVars, TypeInv, TypeOK, Control, Loops
  <2>7. CASE UNCHANGED vars
    BY <2>7 DEF vars, Drained, Joining, Leaving, queueVars, mainVars, askVars
  <2> QED
    BY <2>1, <2>2, <2>3, <2>4, <2>5, <2>6, <2>7 DEF Next, MainStep
<1>3. Drained => StopDrains
  BY DEF Drained, Joining, Leaving, StopDrains
<1> QED
  BY <1>1, <1>2, <1>3, TypeInvariant, OneLoopInvariant, PlacesInvariant, PTL DEF Spec
=============================================================================
