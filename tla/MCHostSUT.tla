----------------------------- MODULE MCHostSUT ------------------------------
(* Small instances of HostSUT for TLC. *)
EXTENDS HostSUT

CONSTANTS s1, s2
=============================================================================
