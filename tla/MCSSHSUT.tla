------------------------------ MODULE MCSSHSUT -------------------------------
(* Small instances of SSHSUT for TLC. *)
EXTENDS SSHSUT

CONSTANTS m, s1

\* Stop requests: two of the other thread, one of the main thread.
Requests == [t \in {m, s1} |-> IF t = s1 THEN 2 ELSE 1]
=============================================================================
