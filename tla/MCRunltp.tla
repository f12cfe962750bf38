------------------------------- MODULE MCRunltp -------------------------------
(* Small instances of Runltp for TLC. *)
EXTENDS Runltp
===============================================================================
