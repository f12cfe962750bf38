----------------------------- MODULE MCQemuSUT ------------------------------
(* Small instances of QemuSUT for TLC. *)
EXTENDS QemuSUT

CONSTANTS m, s1

\* Stop requests: one of each thread, or of a single one.
OneStopEach == [t \in {m, s1} |-> 1]
StopperOnly == [t \in {m, s1} |-> IF t = s1 THEN 1 ELSE 0]
MainOnly == [t \in {m} |-> 1]
=============================================================================
