------------------------------ MODULE MCConsole -------------------------------
(* Small instances of Console for TLC. *)
EXTENDS Console

CONSTANT s1

OneSuite == <<2>>
AllSkipped == {{}, {<<1, 1>>, <<1, 2>>}}

\* A summary, words in the output, and return codes only.
Left(summary, found, code) == [summary |-> summary, counts |-> found, retcode |-> code]
SomeOutputs ==
    {Left(TRUE, Nothing, 0), Left(FALSE, One("failed"), 0), Left(FALSE, Nothing, 32),
     Left(FALSE, Nothing, 2)}
===============================================================================
