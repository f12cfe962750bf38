------------------------------ MODULE MCEvents ------------------------------
(* Small instances of Events for TLC: f1 fires events that two callbacks    *)
(* listen to, f2 events with one.                                           *)
EXTENDS Events, TLC

CONSTANTS f1, f2

Callbacks == f1 :> 2 @@ f2 :> 1
=============================================================================
