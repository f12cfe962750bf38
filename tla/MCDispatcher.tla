---------------------------- MODULE MCDispatcher ----------------------------
(* Small instances of Dispatcher for TLC. *)
EXTENDS Dispatcher

CONSTANT s1

TwoSuites == <<2, 1>>
SomeSkipped == {{}, {<<1, 1>>}, {<<1, 2>>}, {<<2, 1>>}}
=============================================================================
