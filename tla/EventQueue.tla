----------------------------- MODULE EventQueue -----------------------------
(***************************************************************************)
(* What EventsHandler promises to the code that fires events and to the    *)
(* callbacks: every queued callback is called at most once, and in the     *)
(* order of the queue as long as one event loop reads it.                  *)
(***************************************************************************)
EXTENDS Naturals, Sequences

CONSTANT Tasks     \* the callbacks that may be queued

VARIABLES
    queued,        \* callbacks queued so far, in order
    called,        \* callbacks called so far, in order
    ordered        \* whether a single event loop has read the queue so far

queueVars == <<queued, called, ordered>>

Members(seq) == {seq[i] : i \in 1 .. Len(seq)}

QueueInit == queued = <<>> /\ called = <<>> /\ ordered = TRUE

Enqueue(t) ==
    /\ t \notin Members(queued)
    /\ queued' = Append(queued, t)
    /\ UNCHANGED <<called, ordered>>

Call(t) ==
    /\ t \in Members(queued) \ Members(called)
    /\ ordered => t = queued[Len(called) + 1]
    /\ called' = Append(called, t)
    /\ UNCHANGED <<queued, ordered>>

LoseOrder == ordered' = FALSE /\ UNCHANGED <<queued, called>>

QueueNext == (\E t \in Tasks : Enqueue(t) \/ Call(t)) \/ LoseOrder

QueueSpec == QueueInit /\ [][QueueNext]_queueVars
=============================================================================
