----------------------------- MODULE MCSession -----------------------------
(* Small instances of Session for TLC. *)
EXTENDS Session

CONSTANTS m, s1, s2

TwoSuites == <<1, 1>>
FirstSkipped == {{}, {<<1, 1>>}}

OneSuite == <<1>>
NoSkip == {{}}
=============================================================================
