---------------------------- MODULE ConsoleProofs ----------------------------
(* Theorems about Console, for every list of suites, every output and all the *)
(* bounds.                                                                    *)
EXTENDS Console, DispatcherProofs, FiniteSetTheorems, WellFoundedInduction

\* Every step of Console is one of the dispatcher, or none.
LEMMA ConsoleIsStep == [ConsoleNext]_consoleVars => [Next]_vars
<1> USE DEF Next, Runner, RunSuite, RunTest
<1> SUFFICES ASSUME [ConsoleNext]_consoleVars PROVE [Next]_vars
  OBVIOUS
<1>1. CASE UNCHANGED consoleVars \/ Output \/ BootOutput
  BY <1>1 DEF consoleVars, Output, BootOutput
<1>2. CASE ShowTaintBefore \/ ShowPing \/ ShowKernelPanic \/ ShowTaintAfter
  BY <1>2 DEF ShowTaintBefore, ShowPing, ShowKernelPanic, ShowTaintAfter
<1>3. CASE ShowTestCompleted \/ KeepResult \/ KeepSkipped \/ ShowSuiteCompleted \/ NewSuite
  BY <1>3 DEF ShowTestCompleted, KeepResult, KeepSkipped, ShowSuiteCompleted, NewSuite
<1>4. CASE EndOfCommand
  BY <1>4 DEF EndOfCommand
<1>5. CASE Silently
  BY <1>5 DEF Silently
<1> QED
  BY <1>1, <1>2, <1>3, <1>4, <1>5 DEF ConsoleNext

\* What the steps of Console keep of the dispatcher.
LEMMA ConsoleTypes == ConsoleSpec => []TypeInv
<1>1. ConsoleInit => TypeInv
  BY TypeInit DEF ConsoleInit
<1>2. TypeInv /\ [ConsoleNext]_consoleVars => TypeInv'
  BY TypeStep, ConsoleIsStep, NextIsStep
<1> QED
  BY <1>1, <1>2, PTL DEF ConsoleSpec

\* Console tells of the dispatcher and does not change it: seen without the variables
\* of the user interface, its behaviours are the dispatcher's.
THEOREM ConsoleImplementsDispatcher == ConsoleSpec => Init /\ [][Next]_vars
<1>1. ConsoleInit => Init
  BY DEF ConsoleInit
<1> QED
  BY <1>1, ConsoleIsStep, PTL DEF ConsoleSpec

\* So the report of which the user reads is sound: no test is lost, the results are in
\* order, and they agree with the events.
THEOREM ConsoleReportSound ==
    ConsoleSpec => [](EveryTestAccounted /\ ResultsInOrder /\ ReportMatchesEvents)
<1>1. Init => AccountInv /\ OrderInv /\ EventInv
  BY AccountInit, OrderInit, EventInit
<1>2. AccountInv /\ OrderInv /\ EventInv /\ [Next]_vars => (AccountInv /\ OrderInv /\ EventInv)'
  <2>1. AccountInv => TypeInv
    BY DEF AccountInv
  <2> QED
    BY <2>1, NextIsStep, AccountStep, OrderStep, EventStep
<1>3. AccountInv /\ OrderInv /\ EventInv =>
        EveryTestAccounted /\ ResultsInOrder /\ ReportMatchesEvents
  <2>1. AccountInv /\ OrderInv => EveryTestAccounted /\ ResultsInOrder
    BY DEF AccountInv, OrderInv
  <2>2. AccountInv /\ EventInv => ReportMatchesEvents
    BY DEF AccountInv, EventInv, ReportMatchesEvents, Matches, Keeping, InSuite, InTest, Shown
  <2> QED
    BY <2>1, <2>2
<1> QED
  BY <1>1, <1>2, <1>3, ConsoleImplementsDispatcher, PTL

(***************************************************************************)
(* What the user is told of a test.  The flags of the user interface are   *)
(* what has happened to the test, from its start to test_completed, and    *)
(* none at all between two tests.                                          *)
(***************************************************************************)

\* What may have happened by then.
Possible ==
    CASE pc = "run" -> {{}, {"tained"}}
      [] pc = "ping" -> {{}, {"tained"}}
      [] pc = "after" -> {{}, {"tained"}, {"timed out"}, {"timed out", "tained"}}
      [] OTHER -> {{}, {"tained"}} \cup {{e} : e \in Troubles} \cup {{e, "tained"} : e \in Troubles}

TellInv ==
    sigints = 0 =>
        /\ execs = 0 => pc = "idle" /\ flags = {}
        /\ pc \notin {"idle", "run", "ping", "after", "report"} => flags = {}
        /\ pc \in {"run", "ping", "after", "report"} => flags = happened /\ happened \in Possible
        /\ ToldWhatHappened

\* Without SIGINT, each point of a test is reached from the one before it.
LEMMA TellStep ==
    ASSUME TypeInv, TellInv, [ConsoleNext]_consoleVars
    PROVE  TellInv'
<1> SUFFICES ASSUME sigints' = 0 PROVE TellInv'
  BY DEF TellInv
<1> USE DEF TellInv
<1>0. sigints \in Nat /\ execs \in Nat /\ MaxExec <= 1 /\ MaxExec \in Nat
  BY ConsoleAssumption, SuitesAssumption DEF TypeInv, TypeOK
<1>1. CASE UNCHANGED consoleVars
  BY <1>1 DEF consoleVars, uiVars, vars, runVars, ToldWhatHappened, Possible
<1>2. CASE Output
  BY <1>2 DEF Output, uiVars, vars, runVars, ToldWhatHappened, Possible
<1>3. CASE BootOutput
  BY <1>3 DEF BootOutput, uiVars, vars, runVars, ToldWhatHappened, Possible
<1>4. CASE ShowTaintBefore
  <2>1. /\ pc = "taint" /\ pc' = "run" /\ sigints = 0 /\ UNCHANGED execs
        /\ flags' = flags \cup TainedMessage(taint) /\ happened' = TainedMessage(taint)
    BY <1>4 DEF ShowTaintBefore, TaintBefore, runVars
  <2>2. flags = {} /\ execs # 0
    BY <2>1
  <2>3. TainedMessage(taint) \in {{}, {"tained"}}
    BY DEF TainedMessage
  <2> QED
    BY <2>1, <2>2, <2>3 DEF Possible, ToldWhatHappened
<1>5. CASE ShowPing
  <2>1. /\ pc = "ping" /\ sigints = 0 /\ UNCHANGED execs
        /\ \/ pc' = "after" /\ flags' = flags \cup {"timed out"} /\ happened' = happened \cup {"timed out"}
           \/ /\ pc' = "report" /\ flags' = flags \cup {"SUT not responding"}
              /\ happened' = happened \cup {"SUT not responding"}
    BY <1>5 DEF ShowPing, Ping, Raise, runVars
  <2>2. flags = happened /\ happened \in {{}, {"tained"}} /\ execs # 0
    BY <2>1 DEF Possible
  <2>3. flags' = happened'
    BY <2>1, <2>2
  <2>4. CASE pc' = "after"
    <3>1. happened' \in {{"timed out"}, {"timed out", "tained"}}
      BY <2>1, <2>2, <2>4
    <3> QED
      BY <2>1, <2>2, <2>3, <2>4, <3>1 DEF Possible, ToldWhatHappened
  <2>5. CASE pc' = "report"
    <3>1. happened' \in {{"SUT not responding"}, {"SUT not responding", "tained"}}
      BY <2>1, <2>2, <2>5
    <3> QED
      BY <2>1, <2>2, <2>3, <2>5, <3>1 DEF Possible, Troubles, ToldWhatHappened
  <2> QED
    BY <2>1, <2>4, <2>5
<1>6. CASE ShowKernelPanic
  <2>1. /\ pc = "run" /\ pc' = "report" /\ sigints = 0 /\ UNCHANGED execs
        /\ flags' = flags \cup {"kernel panic"} /\ happened' = happened \cup {"kernel panic"}
    BY <1>6 DEF ShowKernelPanic, KernelPanic, Raise, runVars
  <2>2. flags = happened /\ happened \in {{}, {"tained"}} /\ execs # 0
    BY <2>1 DEF Possible
  <2> QED
    BY <2>1, <2>2 DEF Possible, Troubles, ToldWhatHappened
<1>7. CASE ShowTaintAfter
  <2>1. /\ pc = "after" /\ pc' = "report" /\ sigints = 0 /\ UNCHANGED execs
        /\ \E more \in {{}, {"tained"}} : flags' = flags \cup more /\ happened' = happened \cup more
    BY <1>7 DEF ShowTaintAfter, TaintAfter, Raise, TainedMessage, runVars
  <2>2. /\ flags = happened /\ execs # 0
        /\ happened \in {{}, {"tained"}, {"timed out"}, {"timed out", "tained"}}
    BY <2>1 DEF Possible
  <2>3. /\ flags' = happened'
        /\ happened' \in {{}, {"tained"}, {"timed out"}, {"timed out", "tained"}}
    BY <2>1, <2>2
  <2> QED
    BY <2>1, <2>2, <2>3 DEF Possible, Troubles, ToldWhatHappened
<1>8. CASE ShowTestCompleted
  <2>1. /\ pc = "report" /\ pc' \in {"reboot", "append"} /\ sigints = 0
        /\ UNCHANGED <<execs, happened>>
        /\ told' = Announced(flags, current') /\ flags' = {}
    BY <1>8 DEF ShowTestCompleted, TestCompleted, FlagsReset, runVars
  <2>2. flags = happened /\ happened \in Possible /\ execs # 0
    BY <2>1
  <2>3. /\ told' \cap Troubles = happened \cap Troubles
        /\ happened \cap Troubles = {} => told' \cap {"tained"} = happened
    <3>1. Word(current') \in {"fail", "skip", "broken", "pass"}
      BY DEF Word
    <3>2. \/ happened \in {{}, {"tained"}}
          \/ \E e \in Troubles : happened \in {{e}, {e, "tained"}}
      BY <2>1, <2>2 DEF Possible
    <3>3. CASE happened \in {{}, {"tained"}}
      <4>1. told' = {Word(current')} \cup (happened \cap {"tained"})
        BY <2>1, <2>2, <3>3 DEF Announced, Troubles
      <4> QED
        BY <3>1, <3>3, <4>1 DEF Troubles
    <3>4. ASSUME NEW e \in Troubles, happened \in {{e}, {e, "tained"}}
          PROVE  told' \cap Troubles = happened \cap Troubles /\ happened \cap Troubles # {}
      <4>1. told' = {e}
        BY <2>1, <2>2, <3>4 DEF Announced, Troubles
      <4> QED
        BY <3>4, <4>1 DEF Troubles
    <3> QED
      BY <3>2, <3>3, <3>4
  <2> QED
    BY <2>1, <2>2, <2>3 DEF ToldWhatHappened
<1>9. CASE KeepResult \/ KeepSkipped \/ ShowSuiteCompleted \/ NewSuite
  <2>1. /\ pc \in {"append", "next", "collect", "suite"} /\ pc' \in {"idle", "next", "suite"}
        /\ UNCHANGED <<execs, sigints, flags>>
    BY <1>9 DEF KeepResult, AppendResult, KeepSkipped, SkipRemaining, ShowSuiteCompleted,
      CollectSuite, Leave, SutRaises, NewSuite, StartSuite, runVars
  <2> QED
    BY <2>1 DEF ToldWhatHappened
<1>10. ASSUME Sigint PROVE FALSE
  BY <1>0, <1>10 DEF Sigint
<1>11. CASE EndOfCommand
  <2>1. /\ pc = "run" /\ pc' \in {"after", "ping", "idle"} /\ sigints = 0
        /\ UNCHANGED <<execs, flags, happened>>
    BY <1>10, <1>11 DEF EndOfCommand, RunCommand, CommandTimeout, SutFails, Leave, SutRaises, runVars
  <2>2. flags = happened /\ happened \in {{}, {"tained"}} /\ execs # 0
    BY <2>1 DEF Possible
  <2> QED
    BY <2>1, <2>2 DEF Possible, ToldWhatHappened
<1>12. CASE Silently
  <2>1. UNCHANGED <<flags, told, happened>>
    BY <1>12 DEF Silently, uiVars
  <2>2. CASE \E skipped \in SkipSets : ExecSuites(skipped)
    <3>1. /\ pc = "idle" /\ pc' = "download" /\ execs < MaxExec /\ execs' = execs + 1
          /\ UNCHANGED sigints
      BY <2>2 DEF ExecSuites
    <3>2. execs = 0 /\ execs' # 0
      BY <1>0, <3>1
    <3> QED
      BY <2>1, <3>1, <3>2 DEF ToldWhatHappened
  <2>3. CASE \E x \in Stoppers : StopCall(x) \/ StopStep(x)
    <3>1. UNCHANGED <<pc, execs, sigints>>
      BY <2>3 DEF StopCall, StopStep, StopSet, StopPoll, StopSleep, StopClear, runner, runVars
    <3> QED
      BY <2>1, <3>1 DEF ToldWhatHappened, Possible
  <2>4. CASE ForceStopSut \/ BootSut
    <3>1. /\ pc \in {"reboot", "boot"} /\ pc' \in {"boot", "append", "idle"}
          /\ UNCHANGED <<execs, sigints>>
      BY <2>4 DEF ForceStopSut, BootSut, Leave, SutRaises
    <3> QED
      BY <2>1, <3>1 DEF ToldWhatHappened
  <2>5. CASE SutFails
    <3>1. /\ pc' = "idle" /\ pc # "idle" /\ UNCHANGED <<execs, sigints>>
      BY <2>5 DEF SutFails, Leave, SutRaises
    <3> QED
      BY <2>1, <3>1 DEF ToldWhatHappened
  <2>6. CASE \/ DownloadSuites \/ GetInfo \/ Return \/ LeaveLoop \/ IgnoreTest \/ StartTest
             \/ DropEmptySuite
    <3>1. /\ pc \in {"download", "info", "suite", "next", "collect"}
          /\ pc' \in {"idle", "info", "suite", "next", "taint", "collect"}
          /\ UNCHANGED <<execs, sigints>>
      BY <2>6 DEF DownloadSuites, GetInfo, Return, LeaveLoop, IgnoreTest, StartTest,
        DropEmptySuite, Leave, SutRaises, runVars
    <3> QED
      BY <2>1, <3>1 DEF ToldWhatHappened
  <2> QED
    BY <1>10, <1>12, <2>2, <2>3, <2>4, <2>5, <2>6 DEF Silently
<1> QED
  BY <1>1, <1>2, <1>3, <1>4, <1>5, <1>6, <1>7, <1>8, <1>9, <1>11, <1>12 DEF ConsoleNext

\* In a run without SIGINT, and with one call of exec_suites (ConsoleAssumption), the
\* user is told of each test what happened to it, and not to an earlier one.
THEOREM ToldTruly == ConsoleSpec => []ToldWhatHappened
<1>1. ConsoleInit => TellInv
  BY DEF ConsoleInit, Init, TellInv, ToldWhatHappened
<1>2. TellInv => ToldWhatHappened
  BY DEF TellInv, ToldWhatHappened
<1> QED
  BY <1>1, <1>2, ConsoleTypes, TellStep, PTL DEF ConsoleSpec

(***************************************************************************)
(* The lines of an output.  A chunk has few newlines, so its fold is two   *)
(* steps at most.                                                          *)
(***************************************************************************)

Writers ==
    [line : Seq(Nat), text : Seq(Nat), fired : Nat, newlines : Nat, breaks : Nat,
     whole : BOOLEAN, ends : BOOLEAN]

\* What a writer holds is the end of the line that the output has so far, and so
\* were the lines that it has given out.
Tidy(w) == w \in Writers /\ w.ends = TRUE /\ IsSuffix(w.line, w.text)

\* The separators are counted when the chunk has been written.
Seen(v, w) == v.newlines = w.newlines /\ v.breaks = w.breaks

\* The end of a line, element by element.
LEMMA SuffixMeans ==
    ASSUME NEW s \in Seq(Nat), NEW t \in Seq(Nat)
    PROVE  IsSuffix(s, t) <=>
             /\ Len(s) <= Len(t)
             /\ \A i \in 1 .. Len(s) : s[Len(s) - i + 1] = t[Len(t) - i + 1]
<1>1. /\ Reverse(s) \in Seq(Nat) /\ Len(Reverse(s)) = Len(s)
      /\ \A i \in 1 .. Len(s) : Reverse(s)[i] = s[Len(s) - i + 1]
  BY DEF Reverse
<1>2. /\ Reverse(t) \in Seq(Nat) /\ Len(Reverse(t)) = Len(t)
      /\ \A i \in 1 .. Len(t) : Reverse(t)[i] = t[Len(t) - i + 1]
  BY DEF Reverse
<1>3. IsSuffix(s, t) <=>
        Len(s) <= Len(t) /\ SubSeq(Reverse(s), 1, Len(s)) = SubSeq(Reverse(t), 1, Len(s))
  BY <1>1, <1>2 DEF IsSuffix, IsPrefix
<1>4. ASSUME Len(s) <= Len(t)
      PROVE  SubSeq(Reverse(s), 1, Len(s)) = SubSeq(Reverse(t), 1, Len(s)) <=>
               \A i \in 1 .. Len(s) : Reverse(s)[i] = Reverse(t)[i]
  <2>1. SubSeq(Reverse(s), 1, Len(s)) = [i \in 1 .. Len(s) |-> Reverse(s)[i]]
    BY <1>1
  <2>2. SubSeq(Reverse(t), 1, Len(s)) = [i \in 1 .. Len(s) |-> Reverse(t)[i]]
    BY <1>2, <1>4
  <2> QED
    BY <2>1, <2>2
<1>5. ASSUME Len(s) <= Len(t), NEW i \in 1 .. Len(s)
      PROVE  Reverse(s)[i] = Reverse(t)[i] <=> s[Len(s) - i + 1] = t[Len(t) - i + 1]
  <2>1. Len(s) \in Nat /\ Len(t) \in Nat
    OBVIOUS
  <2>2. i \in 1 .. Len(t)
    BY <1>5, <2>1
  <2> QED
    BY <1>1, <1>2, <2>2
<1> QED
  BY <1>3, <1>4, <1>5

\* Text that comes at the end of both.
LEMMA SuffixGrows ==
    ASSUME NEW s \in Seq(Nat), NEW t \in Seq(Nat), NEW u \in Seq(Nat)
    PROVE  /\ IsSuffix(s, t) => IsSuffix(s \o u, t \o u)
           /\ IsSuffix(u, t \o u)
<1>0. Len(s) \in Nat /\ Len(t) \in Nat /\ Len(u) \in Nat
  OBVIOUS
<1>1. s \o u \in Seq(Nat) /\ t \o u \in Seq(Nat)
  OBVIOUS
<1>2. /\ Len(s) \in Nat /\ Len(t) \in Nat /\ Len(u) \in Nat
      /\ Len(s \o u) = Len(s) + Len(u) /\ Len(t \o u) = Len(t) + Len(u)
      /\ \A i \in 1 .. Len(s) + Len(u) :
           (s \o u)[i] = IF i <= Len(s) THEN s[i] ELSE u[i - Len(s)]
      /\ \A i \in 1 .. Len(t) + Len(u) :
           (t \o u)[i] = IF i <= Len(t) THEN t[i] ELSE u[i - Len(t)]
  OBVIOUS
<1>3. ASSUME IsSuffix(s, t) PROVE IsSuffix(s \o u, t \o u)
  <2>1. /\ Len(s) <= Len(t)
        /\ \A i \in 1 .. Len(s) : s[Len(s) - i + 1] = t[Len(t) - i + 1]
    BY <1>3, SuffixMeans
  <2>2. ASSUME NEW i \in 1 .. Len(s) + Len(u)
        PROVE  (s \o u)[Len(s) + Len(u) - i + 1] = (t \o u)[Len(t) + Len(u) - i + 1]
    <3>1. CASE i <= Len(u)
      BY <1>2, <2>1, <3>1
    <3>2. CASE i > Len(u)
      <4>1. PICK j \in 1 .. Len(s) : i = Len(u) + j
        <5>1. i - Len(u) \in 1 .. Len(s) /\ i = Len(u) + (i - Len(u))
          BY <1>2, <3>2
        <5> QED
          BY <5>1
      <4>2. /\ Len(s) + Len(u) - i + 1 = Len(s) - j + 1 /\ Len(t) + Len(u) - i + 1 = Len(t) - j + 1
            /\ Len(s) - j + 1 \in 1 .. Len(s) /\ Len(t) - j + 1 \in 1 .. Len(t)
        BY <2>1, <4>1
      <4>3. (s \o u)[Len(s) - j + 1] = s[Len(s) - j + 1] /\ (t \o u)[Len(t) - j + 1] = t[Len(t) - j + 1]
        BY <1>2, <4>2
      <4> QED
        BY <2>1, <4>2, <4>3
    <3>3. i <= Len(u) \/ i > Len(u)
      BY <1>0
    <3> QED
      BY <3>1, <3>2, <3>3
  <2>3. Len(s \o u) <= Len(t \o u)
    BY <1>2, <2>1
  <2>4. Len(s \o u) = Len(s) + Len(u) /\ Len(t \o u) = Len(t) + Len(u)
    BY <1>2
  <2>5. PICK x \in Seq(Nat), y \in Seq(Nat) : x = s \o u /\ y = t \o u
    BY <1>1, Zenon
  <2>6. \A i \in 1 .. Len(x) : x[Len(x) - i + 1] = y[Len(y) - i + 1]
    <3>1. Len(x) = Len(s) + Len(u) /\ Len(y) = Len(t) + Len(u)
      BY <2>4, <2>5, Zenon
    <3>2. \A i \in 1 .. Len(s) + Len(u) :
             x[Len(s) + Len(u) - i + 1] = y[Len(t) + Len(u) - i + 1]
      BY <2>2, <2>5, Zenon
    <3>3. ASSUME NEW i \in 1 .. Len(x) PROVE x[Len(x) - i + 1] = y[Len(y) - i + 1]
      <4>1. i \in 1 .. Len(s) + Len(u)
        BY <3>1, Zenon
      <4>2. x[Len(s) + Len(u) - i + 1] = y[Len(t) + Len(u) - i + 1]
        BY <3>2, <4>1, Zenon
      <4>3. Len(x) - i + 1 = Len(s) + Len(u) - i + 1 /\ Len(y) - i + 1 = Len(t) + Len(u) - i + 1
        BY <3>1
      <4> QED
        BY <4>2, <4>3, Zenon
    <3> QED
      BY <3>3, Zenon
  <2>7. IsSuffix(x, y)
    BY <2>3, <2>5, <2>6, SuffixMeans, Zenon
  <2> QED
    BY <2>5, <2>7, Zenon
<1>4. IsSuffix(u, t \o u)
  <2>1. Len(u) <= Len(t \o u)
    BY <1>2
  <2>2. \A i \in 1 .. Len(u) : u[Len(u) - i + 1] = (t \o u)[Len(t \o u) - i + 1]
    BY <1>2
  <2> QED
    BY <1>1, <2>1, <2>2, SuffixMeans
<1> QED
  BY <1>3, <1>4

\* A line that is empty is the end of one.
LEMMA NoSuffix == IsSuffix(<<>>, <<>>)
<1> DEFINE none == <<>>
<1>1. none \in Seq(Nat) /\ none = <<>> /\ Len(none) = 0
  OBVIOUS
<1> HIDE DEF none
<1>2. Len(none) <= Len(none)
  BY <1>1
<1>3. IsSuffix(none, none)
  BY <1>1, <1>2, SuffixMeans
<1> QED
  BY <1>1, <1>3

\* Adding a piece, replacing the line by one, and giving it out.
LEMMA WriterSteps ==
    ASSUME NEW w, Tidy(w), NEW piece \in Seq(Nat)
    PROVE  /\ Tidy(Add(w, piece)) /\ Add(w, piece).fired = w.fired
           /\ Seen(Add(w, piece), w)
           /\ Tidy(Keep(w, piece)) /\ Keep(w, piece).fired = w.fired
           /\ Seen(Keep(w, piece), w) /\ Keep(w, piece).line = piece
           /\ Tidy(Fire(w)) /\ Fire(w).fired = w.fired + 1 /\ Seen(Fire(w), w)
<1>0. /\ w \in Writers /\ w.ends = TRUE /\ IsSuffix(w.line, w.text)
      /\ w.line \in Seq(Nat) /\ w.text \in Seq(Nat) /\ w.fired \in Nat /\ w.newlines \in Nat
      /\ w.breaks \in Nat /\ w.whole \in BOOLEAN
  BY DEF Tidy, Writers
<1>1. /\ w.line \o piece \in Seq(Nat) /\ w.text \o piece \in Seq(Nat)
      /\ IsSuffix(w.line \o piece, w.text \o piece) /\ IsSuffix(piece, w.text \o piece)
  BY <1>0, SuffixGrows
<1>2. /\ Add(w, piece) \in Writers /\ Add(w, piece).ends = w.ends
      /\ Add(w, piece).line = w.line \o piece /\ Add(w, piece).text = w.text \o piece
      /\ Add(w, piece).fired = w.fired /\ Seen(Add(w, piece), w)
  BY <1>0, <1>1 DEF Add, Writers, Seen
<1>3. /\ Keep(w, piece) \in Writers /\ Keep(w, piece).ends = w.ends
      /\ Keep(w, piece).line = piece /\ Keep(w, piece).text = w.text \o piece
      /\ Keep(w, piece).fired = w.fired /\ Seen(Keep(w, piece), w)
  BY <1>0, <1>1 DEF Keep, Writers, Seen
<1>4. PICK same \in BOOLEAN : same = (w.line = w.text)
  OBVIOUS
<1>5. PICK whole \in BOOLEAN, ends \in BOOLEAN :
        whole = (w.whole /\ w.line = w.text) /\ ends = (w.ends /\ IsSuffix(w.line, w.text))
  OBVIOUS
<1>6. Fire(w) = [w EXCEPT !.fired = w.fired + 1, !.line = <<>>, !.text = <<>>,
                          !.whole = whole, !.ends = ends]
  BY <1>0, <1>5, Zenon DEF Fire, Writers
<1>7. ends = TRUE
  BY <1>0, <1>5
<1>8. /\ Fire(w) \in Writers /\ Fire(w).ends = TRUE
      /\ Fire(w).line = <<>> /\ Fire(w).text = <<>>
      /\ Fire(w).fired = w.fired + 1 /\ Seen(Fire(w), w)
  <2> DEFINE none == <<>>
  <2>1. none \in Seq(Nat) /\ none = <<>>
    OBVIOUS
  <2> HIDE DEF none
  <2>2. Fire(w) = [line |-> none, text |-> none, fired |-> w.fired + 1, newlines |-> w.newlines,
                   breaks |-> w.breaks, whole |-> whole, ends |-> ends]
    BY <1>0, <1>6, <2>1 DEF Writers
  <2> QED
    BY <1>0, <1>7, <2>1, <2>2 DEF Writers, Seen
<1> QED
  BY <1>0, <1>1, <1>2, <1>3, <1>8, NoSuffix DEF Tidy

\* The fold of the lines before the last.
Folded(w, pieces) == FoldLeft(AddAndFire, w, pieces)

\* The fold over no piece, and over one.
LEMMA ShortFold ==
    ASSUME NEW w, NEW a
    PROVE  /\ Folded(w, <<>>) = w
           /\ Folded(w, <<a>>) = AddAndFire(w, a)
<1> DEFINE Folds(f, D, seq) ==
             f = [s \in SUBSET D |->
                    IF s = {} THEN w ELSE AddAndFire(f[s \ {Max(s)}], seq[Max(s)])]
<1>0. Max({1}) = 1 
  BY DEF Max
<1>1. Folded(w, <<>>) = w
  <2>1. DOMAIN <<>> = {}
    OBVIOUS
  <2>2. Folded(w, <<>>) = (CHOOSE f : Folds(f, DOMAIN <<>>, <<>>))[DOMAIN <<>>]
    BY DEF Folded, FoldLeft, MapThenFoldSet
  <2>3. PICK f : f = (CHOOSE g : Folds(g, DOMAIN <<>>, <<>>))
    OBVIOUS
  <2>4. \E g : Folds(g, DOMAIN <<>>, <<>>)
    <3> DEFINE g == [s \in SUBSET {} |-> w]
    <3>1. Folds(g, DOMAIN <<>>, <<>>)
      BY <2>1
    <3> QED
      BY <3>1
  <2>5. Folds(f, DOMAIN <<>>, <<>>)
    BY <2>3, <2>4
  <2> QED
    BY <2>1, <2>2, <2>3, <2>5
<1>2. Folded(w, <<a>>) = AddAndFire(w, a)
  <2>1. PICK seq, D : seq = <<a>> /\ D = DOMAIN <<a>> /\ D = {1} /\ seq[1] = a
    <3>1. DOMAIN <<a>> = 1 .. 1 /\ <<a>>[1] = a
      OBVIOUS
    <3>2. 1 .. 1 = {1}
      OBVIOUS
    <3> QED
      BY <3>1, <3>2, Zenon
  <2>2. Folded(w, <<a>>) = (CHOOSE f : Folds(f, D, seq))[D]
    BY <2>1 DEF Folded, FoldLeft, MapThenFoldSet
  <2>3. PICK f : f = (CHOOSE g : Folds(g, D, seq))
    OBVIOUS
  <2>4. \E g : Folds(g, D, seq)
    <3> DEFINE g == [s \in SUBSET D |-> IF s = {} THEN w ELSE AddAndFire(w, a)]
    <3>1. \A s \in SUBSET D : s # {} => s = {1}
      BY <2>1
    <3>2. {} \in SUBSET D /\ {1} \in SUBSET D /\ {1} # {} /\ {1} \ {1} = {}
      BY <2>1
    <3>3. g[{}] = w /\ g[{1}] = AddAndFire(w, a)
      BY <3>2
    <3>4. \A s \in SUBSET D :
             g[s] = IF s = {} THEN w ELSE AddAndFire(g[s \ {Max(s)}], seq[Max(s)])
      <4> SUFFICES ASSUME NEW s \in SUBSET D
                   PROVE  g[s] = IF s = {} THEN w ELSE AddAndFire(g[s \ {Max(s)}], seq[Max(s)])
        OBVIOUS
      <4> HIDE DEF g
      <4>1. CASE s = {}
        BY <3>3, <4>1
      <4>2. CASE s = {1}
        BY <1>0, <2>1, <3>2, <3>3, <4>2
      <4> QED
        BY <3>1, <4>1, <4>2
    <3>5. Folds(g, D, seq)
      BY <3>4
    <3> QED
      BY <3>5
  <2>5. Folds(f, D, seq)
    BY <2>3, <2>4
  <2>6. f[{}] = w
    BY <2>5
  <2>7. f[{1}] = AddAndFire(f[{}], a)
    <3>1. {1} \ {1} = {} /\ {1} \in SUBSET D /\ {1} # {}
      BY <2>1
    <3>2. f[{1}] = AddAndFire(f[{1} \ {Max({1})}], seq[Max({1})])
      BY <2>5, <3>1, Zenon
    <3>3. {1} \ {Max({1})} = {} /\ seq[Max({1})] = a
      BY <1>0, <2>1, <3>1, Zenon
    <3> QED
      BY <3>2, <3>3, Zenon
  <2> QED
    BY <2>1, <2>2, <2>3, <2>6, <2>7
<1> QED
  BY <1>1, <1>2

Pair(pieces, a, b) == pieces = <<a, b>>

\* The fold over two.
LEMMA FoldTwo ==
    ASSUME NEW w, NEW a, NEW b, NEW pieces, Pair(pieces, a, b)
    PROVE  Folded(w, pieces) = AddAndFire(AddAndFire(w, a), b)
<1> DEFINE Folds(f, D, seq) ==
             f = [s \in SUBSET D |->
                    IF s = {} THEN w ELSE AddAndFire(f[s \ {Max(s)}], seq[Max(s)])]
<1>0. Max({1}) = 1 /\ Max({2}) = 2 /\ Max({1, 2}) = 2
  BY DEF Max
<1>1. PICK D : D = DOMAIN pieces /\ D = {1, 2} /\ pieces[1] = a /\ pieces[2] = b
  <2>1. DOMAIN pieces = 1 .. 2 /\ pieces[1] = a /\ pieces[2] = b
    BY DEF Pair
  <2>2. 1 .. 2 = {1, 2}
    OBVIOUS
  <2> QED
    BY <2>1, <2>2, Zenon
<1>2. Folded(w, pieces) = (CHOOSE f : Folds(f, D, pieces))[D]
  BY <1>1 DEF Folded, FoldLeft, MapThenFoldSet
<1>3. PICK f : f = (CHOOSE g : Folds(g, D, pieces))
  OBVIOUS
<1>4. \E g : Folds(g, D, pieces)
  <2> DEFINE g == [s \in SUBSET D |->
               IF s = {} THEN w
               ELSE IF s = {1} THEN AddAndFire(w, a)
               ELSE IF s = {2} THEN AddAndFire(w, b)
               ELSE AddAndFire(AddAndFire(w, a), b)]
  <2>1. /\ {} \in SUBSET D /\ {1} \in SUBSET D /\ {2} \in SUBSET D /\ {1, 2} \in SUBSET D
        /\ \A s \in SUBSET D : s = {} \/ s = {1} \/ s = {2} \/ s = {1, 2}
    BY <1>1
  <2>2. /\ {1} \ {1} = {} /\ {2} \ {2} = {} /\ {1, 2} \ {2} = {1}
        /\ {1} # {2} /\ {1} # {1, 2} /\ {2} # {1, 2}
        /\ {1} # {} /\ {2} # {} /\ {1, 2} # {}
    OBVIOUS
  <2>3. /\ g[{}] = w /\ g[{1}] = AddAndFire(w, a) /\ g[{2}] = AddAndFire(w, b)
        /\ g[{1, 2}] = AddAndFire(AddAndFire(w, a), b)
    BY <2>1, <2>2
  <2>4. \A s \in SUBSET D :
           g[s] = IF s = {} THEN w ELSE AddAndFire(g[s \ {Max(s)}], pieces[Max(s)])
    <3> SUFFICES ASSUME NEW s \in SUBSET D
                 PROVE  g[s] = IF s = {} THEN w ELSE AddAndFire(g[s \ {Max(s)}], pieces[Max(s)])
      OBVIOUS
    <3> HIDE DEF g
    <3>1. CASE s = {}
      BY <2>3, <3>1
    <3>2. CASE s = {1}
      BY <1>0, <1>1, <2>2, <2>3, <3>2
    <3>3. CASE s = {2}
      BY <1>0, <1>1, <2>2, <2>3, <3>3
    <3>4. CASE s = {1, 2}
      BY <1>0, <1>1, <2>2, <2>3, <3>4
    <3> QED
      BY <2>1, <3>1, <3>2, <3>3, <3>4
  <2>5. Folds(g, D, pieces)
    BY <2>4
  <2> QED
    BY <2>5
<1>5. Folds(f, D, pieces)
  BY <1>3, <1>4
<1>6. f[{}] = w
  BY <1>5
<1>7. f[{1}] = AddAndFire(f[{}], a)
  <2>1. {1} \ {1} = {} /\ {1} \in SUBSET D /\ {1} # {}
    BY <1>1
  <2>2. f[{1}] = AddAndFire(f[{1} \ {Max({1})}], pieces[Max({1})])
    BY <1>5, <2>1, Zenon
  <2>3. {1} \ {Max({1})} = {} /\ pieces[Max({1})] = a
    BY <1>0, <1>1, <2>1, Zenon
  <2> QED
    BY <2>2, <2>3, Zenon
<1>8. f[{1, 2}] = AddAndFire(f[{1}], b)
  <2>1. {1, 2} \ {2} = {1} /\ {1, 2} \in SUBSET D /\ {1, 2} # {}
    BY <1>1
  <2>2. f[{1, 2}] = AddAndFire(f[{1, 2} \ {Max({1, 2})}], pieces[Max({1, 2})])
    BY <1>5, <2>1, Zenon
  <2>3. {1, 2} \ {Max({1, 2})} = {1} /\ pieces[Max({1, 2})] = b
    BY <1>0, <1>1, <2>1, Zenon
  <2> QED
    BY <2>2, <2>3, Zenon
<1> QED
  BY <1>1, <1>2, <1>3, <1>6, <1>7, <1>8

\* A chunk holds up to three pieces.
LEMMA Few ==
    /\ \A n \in Nat : n <= 2 => n = 0 \/ n = 1 \/ n = 2
    /\ \A n \in 1 .. 3 : n - 1 <= 2 /\ n - 1 \in Nat
    /\ \A n \in 1 .. 3 : n - 1 # 0 => n - 1 \in 1 .. 3
OBVIOUS

\* What the fold of a chunk's lines does.
LEMMA FoldEffect ==
    ASSUME NEW w, Tidy(w), NEW pieces \in Seq(Seq(Nat)), Len(pieces) <= 2,
           NEW v, v = Folded(w, pieces)
    PROVE  Tidy(v) /\ v.fired = w.fired + Len(pieces) /\ Seen(v, w)
<1>0. w.fired \in Nat /\ w.newlines \in Nat /\ w.breaks \in Nat /\ Len(pieces) \in Nat
  BY DEF Tidy, Writers
<1>1. CASE Len(pieces) = 0
  <2>1. pieces = <<>>
    BY <1>1
  <2>2. v = w
    BY <2>1, ShortFold, Zenon
  <2> QED
    BY <1>0, <1>1, <2>2 DEF Seen
<1>2. CASE Len(pieces) = 1
  <2>1. pieces = <<pieces[1]>> /\ pieces[1] \in Seq(Nat)
    BY <1>2
  <2>2. PICK a \in Seq(Nat) : pieces = <<a>>
    BY <2>1, Zenon
  <2>3. v = AddAndFire(w, a)
    BY <2>2, ShortFold, Zenon
  <2>4. Tidy(Add(w, a)) /\ Add(w, a).fired = w.fired /\ Seen(Add(w, a), w)
    BY WriterSteps
  <2>5. /\ Tidy(Fire(Add(w, a))) /\ Fire(Add(w, a)).fired = Add(w, a).fired + 1
        /\ Seen(Fire(Add(w, a)), Add(w, a))
    BY <2>4, WriterSteps
  <2> QED
    BY <1>2, <2>3, <2>4, <2>5 DEF AddAndFire, Seen
<1>3. CASE Len(pieces) = 2
  <2>1. pieces[1] \in Seq(Nat) /\ pieces[2] \in Seq(Nat)
    BY <1>3
  <2>2. PICK a \in Seq(Nat), b \in Seq(Nat) : a = pieces[1] /\ b = pieces[2]
    BY <2>1, Zenon
  <2>3. Pair(pieces, a, b)
    <3>1. /\ <<a, b>> \in Seq(Seq(Nat)) /\ Len(<<a, b>>) = 2
          /\ <<a, b>>[1] = a /\ <<a, b>>[2] = b
      OBVIOUS
    <3>2. \A i \in 1 .. Len(pieces) : pieces[i] = <<a, b>>[i]
      <4>1. \A i \in 1 .. Len(pieces) : i = 1 \/ i = 2
        BY <1>3
      <4> QED
        BY <2>2, <3>1, <4>1, Zenon
    <3> QED
      BY <1>3, <3>1, <3>2, SeqEqual, Zenon DEF Pair
  <2>4. v = AddAndFire(AddAndFire(w, a), b)
    <3>1. Folded(w, pieces) = AddAndFire(AddAndFire(w, a), b)
      BY <2>3, FoldTwo, SMT
    <3> QED
      BY <3>1, Zenon
  <2>5. PICK u : u = AddAndFire(w, a)
    OBVIOUS
  <2>6. Tidy(Add(w, a)) /\ Add(w, a).fired = w.fired /\ Seen(Add(w, a), w)
    BY WriterSteps
  <2>7. Tidy(u) /\ u.fired = w.fired + 1 /\ Seen(u, w)
    BY <2>5, <2>6, WriterSteps DEF AddAndFire, Seen
  <2>8. Tidy(Add(u, b)) /\ Add(u, b).fired = u.fired /\ Seen(Add(u, b), u)
    BY <2>7, WriterSteps
  <2>9. /\ Tidy(Fire(Add(u, b))) /\ Fire(Add(u, b)).fired = Add(u, b).fired + 1
        /\ Seen(Fire(Add(u, b)), Add(u, b))
    BY <2>8, WriterSteps
  <2>10. v = Fire(Add(u, b))
    BY <2>4, <2>5 DEF AddAndFire
  <2> QED
    BY <1>0, <1>3, <2>7, <2>8, <2>9, <2>10 DEF Seen
<1>4. Len(pieces) = 0 \/ Len(pieces) = 1 \/ Len(pieces) = 2
  BY <1>0, Few, Zenon
<1> QED
  BY <1>1, <1>2, <1>3, <1>4

\* The first pieces and the last.
LEMMA FrontLast ==
    ASSUME NEW pieces \in Seq(Seq(Nat)), NEW n \in 1 .. 3, Len(pieces) = n
    PROVE  /\ Front(pieces) \in Seq(Seq(Nat)) /\ Len(Front(pieces)) = n - 1
           /\ Last(pieces) \in Seq(Nat)
BY DEF Front, Last

\* The chunks: up to three pieces.
LEMMA ChunkShape ==
    ASSUME NEW w, Tidy(w), NEW pieces \in Chunks(w)
    PROVE  /\ pieces \in Seq(Seq(Nat)) /\ Len(pieces) \in 1 .. 3
           /\ Front(pieces) \in Seq(Seq(Nat)) /\ Len(Front(pieces)) = Len(pieces) - 1
           /\ Last(pieces) \in Seq(Nat)
<1>1. PICK k \in 1 .. 3 : \E shape \in [1 .. k -> BOOLEAN] :
        pieces = [j \in DOMAIN shape |->
                    IF ~shape[j] THEN <<>> ELSE <<IF j = 1 THEN Len(w.text) + 1 ELSE 1>>]
  BY Zenon DEF Chunks
<1>2. Len(w.text) \in Nat
  BY DEF Tidy, Writers
<1>3. <<>> \in Seq(Nat) /\ <<Len(w.text) + 1>> \in Seq(Nat) /\ <<1>> \in Seq(Nat)
  BY <1>2
<1>4. pieces \in [1 .. k -> Seq(Nat)]
  <2> PICK shape \in [1 .. k -> BOOLEAN] :
        pieces = [j \in DOMAIN shape |->
                    IF ~shape[j] THEN <<>> ELSE <<IF j = 1 THEN Len(w.text) + 1 ELSE 1>>]
    BY <1>1
  <2>1. DOMAIN shape = 1 .. k
    OBVIOUS
  <2>2. \A j \in 1 .. k :
          (IF ~shape[j] THEN <<>> ELSE <<IF j = 1 THEN Len(w.text) + 1 ELSE 1>>) \in Seq(Nat)
    BY <1>3
  <2> QED
    BY <2>1, <2>2, Zenon
<1>5. pieces \in Seq(Seq(Nat)) /\ Len(pieces) = k
  BY <1>4
<1> QED
  BY <1>5, FrontLast

\* A chunk of one character.
LEMMA CharEffect ==
    ASSUME NEW w, Tidy(w), NEW pieces \in Seq(Seq(Nat)), Len(pieces) \in 1 .. 2
    PROVE  LET v == WriteChar(w, pieces)
           IN  Tidy(v) /\ v.fired = w.fired + (Len(pieces) - 1) /\ Seen(v, w)
<1>0. w.fired \in Nat /\ Head(pieces) \in Seq(Nat)
  BY DEF Tidy, Writers
<1>1. CASE Len(pieces) = 2
  BY <1>0, <1>1, WriterSteps DEF WriteChar
<1>2. CASE Len(pieces) = 1
  <2>1. WriteChar(w, pieces) = Add(w, Head(pieces))
    BY <1>2 DEF WriteChar
  <2>2. /\ Tidy(Add(w, Head(pieces))) /\ Add(w, Head(pieces)).fired = w.fired
        /\ Seen(Add(w, Head(pieces)), w)
    BY <1>0, WriterSteps
  <2> QED
    BY <1>0, <1>2, <2>1, <2>2
<1> QED
  BY <1>1, <1>2

\* A longer chunk, in StdoutChecker.
LEMMA CheckerEffect ==
    ASSUME NEW w, Tidy(w), NEW pieces \in Chunks(w)
    PROVE  LET v == CheckerWrite(w, pieces)
           IN  Tidy(v) /\ v.fired = w.fired + (Len(pieces) - 1) /\ Seen(v, w)
<1>0. /\ Front(pieces) \in Seq(Seq(Nat)) /\ Len(Front(pieces)) = Len(pieces) - 1
      /\ Len(pieces) \in 1 .. 3 /\ Last(pieces) \in Seq(Nat)
  BY ChunkShape
<1>1. PICK f : f = Folded(w, Front(pieces))
  OBVIOUS
<1>2. Tidy(f) /\ f.fired = w.fired + (Len(pieces) - 1) /\ Seen(f, w)
  <2>1. Len(Front(pieces)) <= 2
    BY <1>0, Few, Zenon
  <2>2. Tidy(f) /\ f.fired = w.fired + Len(Front(pieces)) /\ Seen(f, w)
    BY <1>0, <1>1, <2>1, FoldEffect, Zenon
  <2> QED
    BY <1>0, <2>2
<1>3. PICK kept : kept = Keep(f, Last(pieces))
  OBVIOUS
<1>4. /\ Tidy(kept) /\ kept.fired = f.fired /\ Seen(kept, f)
      /\ kept.line = Last(pieces)
  BY <1>0, <1>2, <1>3, WriterSteps
<1>5. ~(EndsLine(pieces) /\ kept.line # <<>>)
  BY <1>4 DEF EndsLine
<1>6. CheckerWrite(w, pieces) = kept
  BY <1>1, <1>3, <1>5 DEF CheckerWrite, Folded
<1> QED
  BY <1>2, <1>4, <1>6 DEF Seen

\* A longer chunk, in _print_stdout: a line per separator, but the last one may be
\* soft and leave its line held.
LEMMA PrinterEffect ==
    ASSUME NEW w, Tidy(w), NEW pieces \in Chunks(w), NEW soft \in SUBSET (1 .. Len(pieces) - 1)
    PROVE  LET v == PrintStdout(w, pieces, soft)
           IN  /\ Tidy(v) /\ Seen(v, w)
               /\ \/ v.fired = w.fired + (Len(pieces) - 1)
                  \/ v.fired = w.fired + (Len(pieces) - 1) - 1 /\ soft # {}
<1>0. /\ Front(pieces) \in Seq(Seq(Nat)) /\ Len(Front(pieces)) = Len(pieces) - 1
      /\ Len(pieces) \in 1 .. 3 /\ Last(pieces) \in Seq(Nat) /\ pieces \in Seq(Seq(Nat))
      /\ w.fired \in Nat
  BY ChunkShape DEF Tidy, Writers
<1>1. PICK lines : lines = SplitLines(pieces)
  OBVIOUS
<1>2. CASE lines = <<>>
  <2>1. Len(pieces) = 1
    BY <1>0, <1>1, <1>2 DEF SplitLines
  <2>2. PrintStdout(w, pieces, soft) = w
    BY <1>1, <1>2 DEF PrintStdout, Folded
  <2> QED
    BY <1>0, <2>1, <2>2 DEF Seen
<1>3. CASE lines # <<>>
  <2>1. lines \in Seq(Seq(Nat)) /\ Len(lines) \in 1 .. 3
    <3>1. lines = pieces \/ lines = Front(pieces)
      BY <1>1 DEF SplitLines
    <3>2. lines \in Seq(Seq(Nat)) /\ Len(lines) # 0
      BY <1>0, <1>3, <3>1
    <3>3. Len(lines) = Len(pieces) \/ Len(lines) = Len(pieces) - 1
      BY <1>0, <3>1, Zenon
    <3> QED
      BY <1>0, <3>2, <3>3, Few, Zenon
  <2>2. /\ Front(lines) \in Seq(Seq(Nat)) /\ Len(Front(lines)) = Len(lines) - 1
        /\ Last(lines) \in Seq(Nat)
    BY <2>1, FrontLast
  <2>3. PICK f : f = Folded(w, Front(lines))
    OBVIOUS
  <2>4. Tidy(f) /\ f.fired = w.fired + (Len(lines) - 1) /\ Seen(f, w)
    <3>1. Len(Front(lines)) <= 2
      BY <2>1, <2>2, Few, Zenon
    <3>2. Tidy(f) /\ f.fired = w.fired + Len(Front(lines)) /\ Seen(f, w)
      BY <2>2, <2>3, <3>1, FoldEffect, Zenon
    <3> QED
      BY <2>2, <3>2
  <2>5. PICK kept : kept = Keep(f, Last(lines))
    OBVIOUS
  <2>6. Tidy(kept) /\ kept.fired = f.fired /\ Seen(kept, w)
    <3>1. Tidy(kept) /\ kept.fired = f.fired /\ Seen(kept, f)
      BY <2>2, <2>4, <2>5, WriterSteps
    <3> QED
      BY <2>4, <3>1 DEF Seen
  <2>7. CASE Last(pieces) = <<>>
    <3>1. lines = Front(pieces)
      BY <1>1, <2>7 DEF SplitLines
    <3>2. EndsLine(pieces) /\ Len(lines) = Len(pieces) - 1
      BY <1>0, <2>1, <2>7, <3>1 DEF EndsLine
    <3>3. CASE EndsWithNewline(pieces, soft)
      <4>1. PrintStdout(w, pieces, soft) = Fire(kept)
        BY <1>1, <1>3, <2>3, <2>5, <3>3 DEF PrintStdout, Folded
      <4>2. Tidy(Fire(kept)) /\ Fire(kept).fired = kept.fired + 1 /\ Seen(Fire(kept), kept)
        BY <2>2, <2>6, WriterSteps
      <4>3. Seen(Fire(kept), w)
        BY <2>6, <4>2 DEF Seen
      <4>4. Fire(kept).fired = w.fired + (Len(pieces) - 1)
        <5>1. PICK n \in 1 .. 3, l \in 1 .. 3, q \in {kept.fired} :
                n = Len(pieces) /\ l = Len(lines) /\ q = kept.fired
          BY <1>0, <2>1
        <5>2. q = w.fired + (l - 1) /\ l = n - 1
          BY <2>4, <2>6, <3>2, <5>1
        <5>3. q + 1 = w.fired + (n - 1)
          BY <1>0, <5>1, <5>2
        <5> QED
          BY <4>2, <5>1, <5>3, Zenon
      <4> QED
        BY <4>1, <4>2, <4>3, <4>4
    <3>4. CASE ~EndsWithNewline(pieces, soft)
      <4>1. PrintStdout(w, pieces, soft) = kept
        BY <1>1, <1>3, <2>3, <2>5, <3>4 DEF PrintStdout, Folded
      <4>2. soft # {}
        BY <3>2, <3>4 DEF EndsWithNewline
      <4>3. kept.fired = w.fired + (Len(pieces) - 1) - 1
        BY <1>0, <2>1, <2>4, <2>6, <3>2
      <4> QED
        BY <2>6, <4>1, <4>2, <4>3
    <3> QED
      BY <3>3, <3>4
  <2>8. CASE Last(pieces) # <<>>
    <3>1. lines = pieces /\ ~EndsWithNewline(pieces, soft)
      BY <1>1, <2>8 DEF SplitLines, EndsLine, EndsWithNewline
    <3>2. PrintStdout(w, pieces, soft) = kept
      BY <1>1, <1>3, <2>3, <2>5, <3>1 DEF PrintStdout, Folded
    <3> QED
      BY <2>4, <2>6, <3>1, <3>2
  <2> QED
    BY <2>7, <2>8
<1> QED
  BY <1>2, <1>3

\* How many separators are soft.
LEMMA SoftCount ==
    ASSUME NEW n \in 1 .. 3, NEW soft \in SUBSET (1 .. n - 1)
    PROVE  /\ Cardinality(soft) \in Nat /\ Cardinality(soft) <= n - 1
           /\ soft = {} => Cardinality(soft) = 0
           /\ soft # {} => Cardinality(soft) >= 1
<1>1. IsFiniteSet(1 .. n - 1) /\ Cardinality(1 .. n - 1) = n - 1
  BY FS_Interval
<1>2. IsFiniteSet(soft) /\ Cardinality(soft) <= n - 1
  BY <1>1, FS_Subset
<1>3. Cardinality(soft) \in Nat /\ (Cardinality(soft) = 0 <=> soft = {})
  BY <1>2, FS_CardinalityType, FS_EmptySet
<1>4. PICK c \in Nat : c = Cardinality(soft)
  BY <1>3
<1>5. c # 0 => c >= 1
  OBVIOUS
<1> QED
  BY <1>2, <1>3, <1>4, <1>5, Zenon

\* What k separators, c of them soft, make of a writer before they are counted.
Wrote(w, k, c, u) ==
    /\ Tidy(u) /\ Seen(u, w)
    /\ u.fired \in w.fired + (k - c) .. w.fired + k

Marked(u, k, c) == [u EXCEPT !.newlines = @ + (k - c), !.breaks = @ + c]

\* One more line per newline, and at most one more per soft separator.
LEMMA LinesCounted ==
    ASSUME NEW w, Tidy(w), NEW k \in Nat, NEW c \in Nat, c <= k, NEW u, Wrote(w, k, c, u),
           NEW v, v = Marked(u, k, c)
    PROVE  /\ Tidy(v)
           /\ w.fired >= w.newlines => v.fired >= v.newlines
           /\ w.fired <= w.newlines + w.breaks => v.fired <= v.newlines + v.breaks
           /\ w.fired = w.newlines /\ c = 0 => v.fired = v.newlines
<1>1. /\ Tidy(u) /\ u.newlines = w.newlines /\ u.breaks = w.breaks
      /\ u.fired \in w.fired + (k - c) .. w.fired + k
  BY DEF Wrote, Seen
<1>2. /\ u \in Writers /\ w.newlines \in Nat /\ w.breaks \in Nat /\ w.fired \in Nat
      /\ u.newlines \in Nat /\ u.breaks \in Nat
  BY <1>1 DEF Tidy, Writers
<1>3. PICK a \in Nat, b \in Nat : a = u.newlines + (k - c) /\ b = u.breaks + c
  BY <1>2
<1>4. v = [u EXCEPT !.newlines = a, !.breaks = b]
  BY <1>3 DEF Marked
<1>5. /\ v \in Writers /\ v.line = u.line /\ v.text = u.text /\ v.ends = u.ends
      /\ v.fired = u.fired /\ v.newlines = a /\ v.breaks = b
  BY <1>2, <1>4 DEF Writers
<1>6. Tidy(v)
  BY <1>1, <1>5 DEF Tidy
<1>7. PICK f \in Nat : f = u.fired /\ f \in w.fired + (k - c) .. w.fired + k
  BY <1>1, <1>2 DEF Writers
<1>8. a = w.newlines + (k - c) /\ b = w.breaks + c
  BY <1>1, <1>3
<1>9. /\ w.fired >= w.newlines => f >= a
      /\ w.fired <= w.newlines + w.breaks => f <= a + b
      /\ w.fired = w.newlines /\ c = 0 => f = a
  BY <1>2, <1>7, <1>8
<1> QED
  BY <1>5, <1>6, <1>7, <1>9, Zenon

\* The chunks that are one character.
LEMMA OneCharacter ==
    ASSUME NEW w, NEW pieces \in Characters(w)
    PROVE  Len(pieces) \in 1 .. 2
BY DEF Characters, Separator

\* The writers since the last command, or boot, began.
LineInv ==
    /\ Tidy(writer) /\ writer.fired = writer.newlines
    /\ Tidy(terminal) /\ terminal.fired >= terminal.newlines
    /\ terminal.fired <= terminal.newlines + terminal.breaks

LEMMA NewWriterTidy ==
    /\ Tidy(NewWriter) /\ NewWriter.fired = 0
    /\ NewWriter.newlines = 0 /\ NewWriter.breaks = 0
<1> DEFINE none == <<>>
<1>1. none \in Seq(Nat) /\ none = <<>> /\ Len(none) = 0
  OBVIOUS
<1> HIDE DEF none
<1>2. IsSuffix(none, none)
  BY <1>1, NoSuffix, Zenon
<1>3. NewWriter = [line |-> none, text |-> none, fired |-> 0, newlines |-> 0, breaks |-> 0,
                   whole |-> TRUE, ends |-> TRUE]
  BY <1>1 DEF NewWriter
<1> QED
  BY <1>1, <1>2, <1>3 DEF Tidy, Writers

\* A chunk of the test's output.
LEMMA CheckerStep ==
    ASSUME NEW w, Tidy(w), w.fired = w.newlines, NEW v, CheckerWrites(w, v)
    PROVE  Tidy(v) /\ v.fired = v.newlines
<1>1. \E pieces \in Chunks(w) : \E u :
        /\ v = Counted(u, pieces, {})
        /\ u = CheckerWrite(w, pieces) \/ (u = WriteChar(w, pieces) /\ pieces \in Characters(w))
  BY Zenon DEF CheckerWrites
<1>2. PICK pieces, u :
        /\ pieces \in Chunks(w) /\ v = Counted(u, pieces, {})
        /\ u = CheckerWrite(w, pieces) \/ (u = WriteChar(w, pieces) /\ pieces \in Characters(w))
  BY <1>1, Zenon
<1>3. PICK none : none = {}
  OBVIOUS
<1>4. /\ none \in SUBSET (1 .. Len(pieces) - 1) /\ Cardinality(none) = 0
      /\ v = Counted(u, pieces, none)
  BY <1>2, <1>3, FS_EmptySet
<1>5. Tidy(u) /\ u.fired = w.fired + (Len(pieces) - 1) /\ Seen(u, w)
  BY <1>2, CheckerEffect, CharEffect, ChunkShape, OneCharacter
<1>6. Len(pieces) \in 1 .. 3 /\ w.fired \in Nat
  BY <1>2, ChunkShape DEF Tidy, Writers
<1>7. PICK k \in Nat : k = Len(pieces) - 1
  <2>1. PICK n \in 1 .. 3 : n = Len(pieces)
    BY <1>6, Zenon
  <2>2. n - 1 \in Nat
    BY <2>1
  <2> QED
    BY <2>1, <2>2, Zenon
<1>8. PICK c \in Nat : c = 0 /\ c <= k
  OBVIOUS
<1>9. u.fired \in w.fired + (k - c) .. w.fired + k
  BY <1>5, <1>6, <1>7, <1>8
<1>10. Wrote(w, k, c, u)
  BY <1>5, <1>9 DEF Wrote
<1>11. v = Marked(u, k, c)
  BY <1>4, <1>7, <1>8 DEF Counted, Marked
<1>12. k \in Nat /\ c \in Nat /\ c <= k
  BY <1>7, <1>8
<1>13. Tidy(v) /\ (w.fired = w.newlines /\ c = 0 => v.fired = v.newlines)
  BY <1>10, <1>11, <1>12, LinesCounted
<1> QED
  BY <1>8, <1>13

\* A chunk of what a target that boots writes.
LEMMA PrinterStep ==
    ASSUME NEW w, Tidy(w), w.fired >= w.newlines, w.fired <= w.newlines + w.breaks,
           NEW v, PrinterWrites(w, v)
    PROVE  Tidy(v) /\ v.fired >= v.newlines /\ v.fired <= v.newlines + v.breaks
<1>1. \E pieces \in Chunks(w) : \E soft \in Softs(w, pieces) : \E u :
        /\ v = Counted(u, pieces, soft)
        /\ \/ u = PrintStdout(w, pieces, soft)
           \/ u = PrintChar(w, pieces, soft) /\ pieces \in Characters(w)
  BY Zenon DEF PrinterWrites
<1>2. PICK pieces, soft, u :
        /\ pieces \in Chunks(w) /\ soft \in Softs(w, pieces) /\ v = Counted(u, pieces, soft)
        /\ \/ u = PrintStdout(w, pieces, soft)
           \/ u = PrintChar(w, pieces, soft) /\ pieces \in Characters(w)
  BY <1>1, Zenon
<1>3. soft \in SUBSET (1 .. Len(pieces) - 1)
  BY <1>2, Zenon DEF Softs
<1>4. PICK n \in 1 .. 3 : n = Len(pieces) /\ pieces \in Seq(Seq(Nat))
  BY <1>2, ChunkShape, Zenon
<1>5. PICK c \in Nat : /\ c = Cardinality(soft) /\ c <= n - 1
                       /\ soft = {} => c = 0
                       /\ soft # {} => c >= 1
  BY <1>3, <1>4, SoftCount
<1>6. w.fired \in Nat
  BY DEF Tidy, Writers
<1>7. ASSUME u = PrintStdout(w, pieces, soft) PROVE Wrote(w, n - 1, c, u)
  <2>1. /\ Tidy(u) /\ Seen(u, w)
        /\ u.fired = w.fired + (n - 1) \/ (u.fired = w.fired + (n - 1) - 1 /\ soft # {})
    BY <1>2, <1>3, <1>4, <1>7, PrinterEffect
  <2>2. u.fired \in w.fired + (n - 1 - c) .. w.fired + (n - 1)
    BY <1>5, <1>6, <2>1
  <2> QED
    BY <2>1, <2>2 DEF Wrote
<1>8. ASSUME u = PrintChar(w, pieces, soft) /\ pieces \in Characters(w) PROVE Wrote(w, n - 1, c, u)
  <2>1. n \in 1 .. 2
    BY <1>4, <1>8, OneCharacter
  <2>2. CASE soft = {}
    <3>1. u = WriteChar(w, pieces)
      BY <1>8, <2>2 DEF PrintChar
    <3>2. Tidy(u) /\ Seen(u, w) /\ u.fired = w.fired + (n - 1)
      BY <1>4, <2>1, <3>1, CharEffect
    <3>3. u.fired \in w.fired + (n - 1 - c) .. w.fired + (n - 1)
      BY <1>5, <1>6, <2>2, <3>2
    <3> QED
      BY <3>2, <3>3 DEF Wrote
  <2>3. CASE soft # {}
    <3>1. u = w /\ Tidy(u) /\ Seen(u, w)
      BY <1>8, <2>3 DEF PrintChar, Seen
    <3>2. c = n - 1
      BY <1>5, <2>1, <2>3
    <3>3. u.fired \in w.fired + (n - 1 - c) .. w.fired + (n - 1)
      BY <1>6, <2>1, <3>1, <3>2
    <3> QED
      BY <3>1, <3>3 DEF Wrote
  <2> QED
    BY <2>2, <2>3
<1>9. PICK k \in Nat : k = n - 1 /\ c <= k
  BY <1>5
<1>10. Wrote(w, k, c, u)
  BY <1>2, <1>7, <1>8, <1>9, Zenon
<1>11. v = Marked(u, k, c)
  BY <1>2, <1>4, <1>5, <1>9 DEF Counted, Marked
<1> QED
  BY <1>9, <1>10, <1>11, LinesCounted, Zenon

\* Every step keeps the count, of both writers.
LEMMA LineStep ==
    ASSUME LineInv, [ConsoleNext]_consoleVars
    PROVE  LineInv'
<1>1. CASE Output
  <2>1. UNCHANGED terminal /\ CheckerWrites(writer, writer')
    BY <1>1 DEF Output
  <2>2. Tidy(writer') /\ writer'.fired = writer'.newlines
    BY <2>1, CheckerStep, Zenon DEF LineInv
  <2> QED
    BY <2>1, <2>2 DEF LineInv
<1>2. CASE BootOutput
  <2>1. UNCHANGED writer /\ PrinterWrites(terminal, terminal')
    BY <1>2 DEF BootOutput
  <2>2. /\ Tidy(terminal') /\ terminal'.fired >= terminal'.newlines
        /\ terminal'.fired <= terminal'.newlines + terminal'.breaks
    BY <2>1, PrinterStep, Zenon DEF LineInv
  <2> QED
    BY <2>1, <2>2 DEF LineInv
<1>3. ASSUME writer' \in {writer, NewWriter}, UNCHANGED terminal PROVE LineInv'
  BY <1>3, NewWriterTidy DEF LineInv
<1>4. CASE UNCHANGED consoleVars \/ Silently
  BY <1>3, <1>4 DEF consoleVars, uiVars, Silently
<1>5. CASE ShowTaintBefore \/ ShowPing \/ ShowKernelPanic \/ ShowTaintAfter
  BY <1>3, <1>5 DEF ShowTaintBefore, ShowPing, ShowKernelPanic, ShowTaintAfter, NoResult, EndOutput
<1>6. CASE ShowTestCompleted \/ KeepResult \/ KeepSkipped \/ ShowSuiteCompleted \/ NewSuite
  BY <1>3, <1>6 DEF ShowTestCompleted, KeepResult, KeepSkipped, ShowSuiteCompleted, NewSuite
<1>7. CASE EndOfCommand
  BY <1>3, <1>7 DEF EndOfCommand, EndOutput
<1> QED
  BY <1>1, <1>2, <1>4, <1>5, <1>6, <1>7 DEF ConsoleNext

\* However an output is cut into chunks, each newline of a test fires one event, and of
\* a target that boots a line is printed per newline and at most one more per other line
\* break; each is the end of the line that was written.
THEOREM LinesGivenOut == ConsoleSpec => []OneEventPerLine
<1>1. ConsoleInit => LineInv
  BY NewWriterTidy DEF ConsoleInit, LineInv
<1>2. LineInv => OneEventPerLine
  <2> SUFFICES ASSUME LineInv PROVE OneEventPerLine
    OBVIOUS
  <2>1. terminal.newlines \in Nat /\ terminal.breaks \in Nat /\ terminal.fired \in Nat
    BY DEF LineInv, Tidy, Writers
  <2>2. terminal.fired \in terminal.newlines .. terminal.newlines + terminal.breaks
    BY <2>1 DEF LineInv
  <2> QED
    BY <2>2 DEF LineInv, OneEventPerLine, Tidy
<1> QED
  BY <1>1, <1>2, LineStep, PTL DEF ConsoleSpec

(***************************************************************************)
(* The totals of a suite.  FoldLeft adds up the counts by a function on    *)
(* the sets of positions, whose sum without the greatest comes first.      *)
(***************************************************************************)
Summed(c, kind) == FoldLeft(LAMBDA sum, x : sum + x[kind], 0, c)

\* The function that the fold over 1 .. n of g stands for.
Sums(f, n, g) ==
    f = [s \in SUBSET (1 .. n) |-> IF s = {} THEN 0 ELSE f[s \ {Max(s)}] + g[Max(s)]]

\* A set of positions has its greatest.
LEMMA GreatestIn ==
    ASSUME NEW n \in Nat, NEW s \in SUBSET (1 .. n), s # {}
    PROVE  Max(s) \in s /\ Max(s) \in 1 .. n
<1> DEFINE Above == {k \in Nat : \A y \in s : k >= y}
<1>1. n \in Above
  OBVIOUS
<1>2. PICK k \in Above : \A y \in Above : ~(<<y, k>> \in OpToRel(<, Nat))
  BY <1>1, NatLessThanWellFounded, WFMin
<1>3. \A y \in Above : ~(y < k)
  BY <1>2 DEF OpToRel
<1>4. k \in Nat /\ \A y \in s : k >= y /\ y \in Nat /\ y >= 1
  OBVIOUS
<1>5. k \in s
  <2> SUFFICES ASSUME k \notin s PROVE FALSE
    OBVIOUS
  <2>1. \A y \in s : k - 1 >= y
    BY <1>4
  <2>2. k >= 1
    <3>1. PICK y \in s : TRUE
      OBVIOUS
    <3>2. y \in Nat /\ y >= 1 /\ k >= y
      BY <1>4, <3>1
    <3> QED
      BY <1>4, <3>2
  <2>3. k - 1 \in Above /\ k - 1 < k
    BY <1>4, <2>1, <2>2
  <2> QED
    BY <1>3, <2>3
<1>6. Max(s) \in s
  BY <1>4, <1>5 DEF Max
<1> QED
  BY <1>6

\* The points below a graph: as many as its sum.
Below(s, g) == UNION {{i} \X (1 .. g[i]) : i \in s}

LEMMA BelowFinite ==
    ASSUME NEW n \in Nat, NEW g \in [1 .. n -> Nat], NEW s \in SUBSET (1 .. n)
    PROVE  IsFiniteSet(Below(s, g))
<1>1. IsFiniteSet(s)
  <2>1. IsFiniteSet(1 .. n)
    BY FS_Interval
  <2> QED
    BY <2>1, FS_Subset, Zenon
<1>2. \A i \in s : IsFiniteSet({i} \X (1 .. g[i]))
  <2> SUFFICES ASSUME NEW i \in s PROVE IsFiniteSet({i} \X (1 .. g[i]))
    OBVIOUS
  <2>1. IsFiniteSet(1 .. g[i])
    BY FS_Interval
  <2>2. IsFiniteSet({i})
    BY FS_Singleton
  <2> QED
    BY <2>1, <2>2, FS_Product
<1>3. PICK h : h = [i \in s |-> {i} \X (1 .. g[i])]
  OBVIOUS
<1>4. PICK all : all = {{i} \X (1 .. g[i]) : i \in s}
  OBVIOUS
<1>5. h \in Surjection(s, all)
  <2>1. h \in [s -> all] /\ \A t \in all : \E i \in s : h[i] = t
    BY <1>3, <1>4
  <2> QED
    BY <2>1 DEF Surjection
<1>6. IsFiniteSet(all)
  BY <1>1, <1>5, FS_Surjection, Zenon
<1>7. \A t \in all : IsFiniteSet(t)
  BY <1>2, <1>4
<1>8. IsFiniteSet(UNION all)
  BY <1>6, <1>7, FS_UNION, Zenon
<1> QED
  BY <1>4, <1>8 DEF Below

\* The greatest position adds its own.
LEMMA BelowGrows ==
    ASSUME NEW n \in Nat, NEW g \in [1 .. n -> Nat], NEW s \in SUBSET (1 .. n), NEW m \in s
    PROVE  Cardinality(Below(s, g)) = Cardinality(Below(s \ {m}, g)) + g[m]
<1>1. PICK x, y : x = Below(s \ {m}, g) /\ y = {m} \X (1 .. g[m])
  OBVIOUS
<1>2. Below(s, g) = x \cup y /\ x \cap y = {}
  BY <1>1 DEF Below
<1>3. g[m] \in Nat /\ m \in 1 .. n /\ s \ {m} \in SUBSET (1 .. n)
  OBVIOUS
<1>4. IsFiniteSet(1 .. g[m]) /\ Cardinality(1 .. g[m]) = g[m]
  BY <1>3, FS_Interval
<1>5. IsFiniteSet({m}) /\ Cardinality({m}) = 1
  BY FS_Singleton
<1>6. IsFiniteSet(y) /\ Cardinality(y) = Cardinality({m}) * Cardinality(1 .. g[m])
  BY <1>1, <1>4, <1>5, FS_Product, Zenon
<1>7. Cardinality(y) = g[m]
  BY <1>3, <1>4, <1>5, <1>6
<1>8. IsFiniteSet(x)
  BY <1>1, <1>3, BelowFinite, Zenon
<1>9. Cardinality(x \cup y) = Cardinality(x) + Cardinality(y) - Cardinality(x \cap y)
  BY <1>6, <1>8, FS_Union, Zenon
<1>10. Cardinality(x \cap y) = 0
  BY <1>2, FS_EmptySet
<1>11. Cardinality(x) \in Nat
  BY <1>8, FS_CardinalityType, Zenon
<1>12. Cardinality(x \cup y) = Cardinality(x) + g[m] - 0
  BY <1>7, <1>9, <1>10, Zenon
<1>13. Cardinality(x) + g[m] - 0 = Cardinality(x) + g[m]
  BY <1>3, <1>11
<1> QED
  BY <1>1, <1>2, <1>12, <1>13, Zenon

\* There is such a function, so FoldLeft's CHOOSE chooses one.
LEMMA SumExists ==
    ASSUME NEW n \in Nat, NEW g \in [1 .. n -> Nat]
    PROVE  \E f : Sums(f, n, g)
<1> DEFINE f == [s \in SUBSET (1 .. n) |-> Cardinality(Below(s, g))]
<1>1. ASSUME NEW s \in SUBSET (1 .. n)
      PROVE  f[s] = IF s = {} THEN 0 ELSE f[s \ {Max(s)}] + g[Max(s)]
  <2>1. CASE s = {}
    <3>1. Below(s, g) = {}
      BY <2>1 DEF Below
    <3> QED
      BY <2>1, <3>1, FS_EmptySet
  <2>2. CASE s # {}
    <3>1. PICK m : m = Max(s)
      OBVIOUS
    <3>2. m \in s /\ s \ {m} \in SUBSET (1 .. n)
      BY <2>2, <3>1, GreatestIn
    <3>3. Cardinality(Below(s, g)) = Cardinality(Below(s \ {m}, g)) + g[m]
      BY <3>2, BelowGrows
    <3> QED
      BY <2>2, <3>1, <3>2, <3>3
  <2> QED
    BY <2>1, <2>2
<1>2. f = [s \in SUBSET (1 .. n) |-> IF s = {} THEN 0 ELSE f[s \ {Max(s)}] + g[Max(s)]]
  BY <1>1
<1> HIDE DEF f
<1> QED
  BY <1>2 DEF Sums

\* A sum is at least the number of positions that hold one or more.
LEMMA LeastSum ==
    ASSUME NEW n \in Nat, NEW g \in [1 .. n -> Nat], NEW f, Sums(f, n, g),
           NEW S \in SUBSET (1 .. n), \A k \in S : g[k] >= 1
    PROVE  f[1 .. n] \in Nat /\ f[1 .. n] >= Cardinality(S)
<1> DEFINE Good(s) == f[s] \in Nat /\ f[s] >= Cardinality(s \cap S)
           Bad == {s \in SUBSET (1 .. n) : ~Good(s)}
<1>0. IsFiniteSet(1 .. n)
  BY FS_Interval
<1>1. \A s \in SUBSET (1 .. n) : IsFiniteSet(s)
  BY <1>0, FS_Subset
<1>2. \A s \in SUBSET (1 .. n) : f[s] = IF s = {} THEN 0 ELSE f[s \ {Max(s)}] + g[Max(s)]
  BY DEF Sums
<1>3. Bad = {}
  <2> SUFFICES ASSUME Bad # {} PROVE FALSE
    OBVIOUS
  <2>1. Bad \subseteq FiniteSubsetsOf(1 .. n)
    BY <1>1 DEF FiniteSubsetsOf
  <2>2. PICK s \in Bad : \A y \in Bad : ~(<<y, s>> \in StrictSubsetOrdering(1 .. n))
    <3> HIDE DEF Bad
    <3> QED
      BY <2>1, FS_StrictSubsetOrderingWellFounded, WFMin, Zenon
  <2>3. s \in SUBSET (1 .. n) /\ ~Good(s)
    OBVIOUS
  <2>4. CASE s = {}
    <3>1. f[s] = 0 /\ s \cap S = {}
      BY <1>2, <2>3, <2>4
    <3>2. Cardinality(s \cap S) = 0
      BY <3>1, FS_EmptySet
    <3> QED
      BY <2>3, <3>1, <3>2
  <2>5. CASE s # {}
    <3>1. PICK m : m = Max(s)
      OBVIOUS
    <3>2. m \in s /\ m \in 1 .. n
      BY <2>3, <2>5, <3>1, GreatestIn
    <3>3. PICK r : r = s \ {m}
      OBVIOUS
    <3>4. r \in SUBSET (1 .. n) /\ <<r, s>> \in StrictSubsetOrdering(1 .. n)
      BY <2>3, <3>2, <3>3 DEF StrictSubsetOrdering
    <3>5. Good(r)
      BY <2>2, <3>4
    <3>6. f[s] = f[r] + g[m]
      BY <1>2, <2>3, <2>5, <3>1, <3>3
    <3>7. /\ IsFiniteSet(r \cap S) /\ Cardinality(r \cap S) \in Nat
          /\ r \cap S \in SUBSET (1 .. n)
      BY <1>1, <3>4, FS_CardinalityType
    <3>8. g[m] \in Nat
      BY <3>2
    <3>9. CASE m \in S
      <4>1. s \cap S = (r \cap S) \cup {m} /\ m \notin r \cap S
        BY <3>2, <3>3, <3>9
      <4>2. Cardinality((r \cap S) \cup {m}) =
              IF m \in r \cap S THEN Cardinality(r \cap S) ELSE Cardinality(r \cap S) + 1
        BY <3>7, FS_AddElement, Zenon
      <4>3. Cardinality(s \cap S) = Cardinality(r \cap S) + 1
        BY <4>1, <4>2, Zenon
      <4>4. g[m] >= 1
        BY <3>9
      <4> QED
        BY <2>3, <3>5, <3>6, <3>7, <3>8, <4>3, <4>4
    <3>10. CASE m \notin S
      <4>1. Cardinality(s \cap S) = Cardinality(r \cap S)
        <5>1. s \cap S = r \cap S
          BY <3>3, <3>10
        <5> QED
          BY <5>1, Zenon
      <4> QED
        BY <2>3, <3>5, <3>6, <3>7, <3>8, <4>1
    <3> QED
      BY <3>9, <3>10
  <2> QED
    BY <2>4, <2>5
<1>4. Good(1 .. n)
  BY <1>3
<1>5. (1 .. n) \cap S = S
  OBVIOUS
<1> QED
  BY <1>4, <1>5

\* What the totals are of.
LEMMA SummedMeans ==
    ASSUME NEW c, NEW kind
    PROVE  Summed(c, kind) =
             (CHOOSE f : f = [s \in SUBSET DOMAIN c |->
                                IF s = {} THEN 0 ELSE f[s \ {Max(s)}] + c[Max(s)][kind]])[DOMAIN c]
BY DEF Summed, FoldLeft, MapThenFoldSet

\* The total of a kind counts every result that has one or more of it.
LEMMA SummedLeast ==
    ASSUME NEW c \in Seq(Counts), NEW kind \in Kinds, NEW n, n = Len(c),
           NEW S \in SUBSET (1 .. n), \A k \in S : c[k][kind] >= 1
    PROVE  Summed(c, kind) \in Nat /\ Summed(c, kind) >= Cardinality(S)
<1>1. PICK g : g = [i \in 1 .. n |-> c[i][kind]]
  OBVIOUS
<1>2. n \in Nat /\ DOMAIN c = 1 .. n /\ \A i \in 1 .. n : c[i] \in Counts
  OBVIOUS
<1>3. g \in [1 .. n -> Nat] /\ \A k \in S : g[k] >= 1
  BY <1>1, <1>2 DEF Counts
<1>4. ASSUME NEW f
      PROVE  [s \in SUBSET (1 .. n) |-> IF s = {} THEN 0 ELSE f[s \ {Max(s)}] + c[Max(s)][kind]]
               = [s \in SUBSET (1 .. n) |-> IF s = {} THEN 0 ELSE f[s \ {Max(s)}] + g[Max(s)]]
  <2>1. ASSUME NEW s \in SUBSET (1 .. n), s # {} PROVE c[Max(s)][kind] = g[Max(s)]
    <3>1. Max(s) \in 1 .. n
      BY <1>2, <2>1, GreatestIn
    <3> QED
      BY <1>1, <3>1
  <2> QED
    BY <2>1
<1>5. Summed(c, kind) = (CHOOSE f : Sums(f, n, g))[1 .. n]
  <2>1. Summed(c, kind) =
          (CHOOSE f : f = [s \in SUBSET (1 .. n) |->
                             IF s = {} THEN 0 ELSE f[s \ {Max(s)}] + c[Max(s)][kind]])[1 .. n]
    BY <1>2, SummedMeans, Zenon
  <2>2. \A f : f = [s \in SUBSET (1 .. n) |->
                      IF s = {} THEN 0 ELSE f[s \ {Max(s)}] + c[Max(s)][kind]]
                 <=> Sums(f, n, g)
    BY <1>4, Zenon DEF Sums
  <2> QED
    BY <2>1, <2>2, Zenon
<1>6. PICK f : f = (CHOOSE h : Sums(h, n, g))
  OBVIOUS
<1>7. Sums(f, n, g)
  BY <1>2, <1>3, <1>6, SumExists, Zenon
<1> QED
  BY <1>2, <1>3, <1>5, <1>6, <1>7, LeastSum

\* The counts of the results in tests_results: a test that broke, or was not run, has
\* one in the field that says so, from _get_test_results on.
CountInv ==
    /\ counts \in Seq(Counts) /\ Len(counts) = Len(testsResults) /\ current \in Counts
    /\ \A k \in 1 .. Len(testsResults) :
         /\ testsResults[k].verdict = "broken" => counts[k]["broken"] >= 1
         /\ testsResults[k].verdict = "skipped" => counts[k]["skipped"] >= 1
    /\ pc \in {"reboot", "boot", "append"} /\ verdict = "broken" => current["broken"] >= 1

\* The totals of the last suite that was reported.
TotalInv == lastResults # <<>> => TroubleShown

\* How a test went, whatever its command has left.
LEMMA ResultCounts ==
    ASSUME NEW output \in Outputs, NEW broken \in BOOLEAN
    PROVE  /\ GetTestResults(output, broken) \in Counts
           /\ broken => GetTestResults(output, broken)["broken"] = 1
<1>1. Nothing \in Counts /\ \A kind \in Kinds : One(kind) \in Counts
  BY DEF Nothing, One, Counts
<1>2. output.counts \in Counts
  BY ConsoleAssumption
<1>3. ASSUME NEW code PROVE OfOutput(output, code) \in Counts
  BY <1>1, <1>2 DEF OfOutput, OfReturnCode, Kinds
<1>4. \A c \in Counts : [c EXCEPT !["broken"] = 1] \in Counts /\ [c EXCEPT !["broken"] = 1]["broken"] = 1
  BY DEF Counts, Kinds
<1> QED
  BY <1>3, <1>4 DEF GetTestResults

\* One more result, with its counts.
LEMMA CountAppend ==
    ASSUME TypeInv, CountInv, NEW c \in Counts, NEW v \in {"done", "broken", "skipped"},
           v = "broken" => c["broken"] >= 1, v = "skipped" => c["skipped"] >= 1,
           counts' = Append(counts, c), current' = current,
           testsResults' = Append(testsResults, [test |-> test, verdict |-> v]),
           pc' \notin {"reboot", "boot", "append"}
    PROVE  CountInv'
<1>1. PICK r : r = [test |-> test, verdict |-> v]
  OBVIOUS
<1>2. r \in Results /\ r.verdict = v /\ testsResults \in Seq(Results)
  BY <1>1 DEF TypeInv, TypeOK, Results, Verdicts
<1>3. PICK n \in Nat : n = Len(counts) /\ n = Len(testsResults)
  BY DEF CountInv
<1>4. /\ testsResults' \in Seq(Results) /\ Len(testsResults') = n + 1
      /\ testsResults'[n + 1] = r
      /\ \A k \in 1 .. n : testsResults'[k] = testsResults[k]
  BY <1>1, <1>2, <1>3
<1>5. /\ counts' \in Seq(Counts) /\ Len(counts') = n + 1 /\ counts'[n + 1] = c
      /\ \A k \in 1 .. n : counts'[k] = counts[k]
  BY <1>3 DEF CountInv
<1>6. ASSUME NEW k \in 1 .. n + 1
      PROVE  /\ testsResults'[k].verdict = "broken" => counts'[k]["broken"] >= 1
             /\ testsResults'[k].verdict = "skipped" => counts'[k]["skipped"] >= 1
  <2>1. CASE k \in 1 .. n
    BY <1>3, <1>4, <1>5, <2>1 DEF CountInv
  <2>2. CASE k = n + 1
    BY <1>2, <1>4, <1>5, <2>2
  <2>3. k \in 1 .. n \/ k = n + 1
    OBVIOUS
  <2> QED
    BY <2>1, <2>2, <2>3, Zenon
<1> QED
  BY <1>4, <1>5, <1>6 DEF CountInv

\* A step that leaves the counts alone.
LEMMA CountQuiet ==
    ASSUME CountInv, UNCHANGED <<counts, current, testsResults>>,
           pc' \in {"reboot", "boot", "append"} /\ verdict' = "broken" =>
             pc \in {"reboot", "boot", "append"} /\ verdict = "broken"
    PROVE  CountInv'
BY DEF CountInv

\* Every step keeps the counts.
LEMMA CountStep ==
    ASSUME TypeInv, CountInv, [ConsoleNext]_consoleVars
    PROVE  CountInv'
<1>1. CASE UNCHANGED consoleVars \/ Output \/ BootOutput
  BY <1>1, CountQuiet DEF consoleVars, uiVars, vars, loopVars, testVars, Output, BootOutput
<1>2. CASE ShowTaintBefore \/ ShowPing \/ ShowKernelPanic \/ ShowTaintAfter
  <2>1. UNCHANGED <<counts, current, testsResults>> /\ pc' \in {"run", "after", "report"}
    BY <1>2 DEF ShowTaintBefore, ShowPing, ShowKernelPanic, ShowTaintAfter, NoResult,
      TaintBefore, Ping, KernelPanic, TaintAfter, loopVars
  <2> QED
    BY <2>1, CountQuiet
<1>3. CASE ShowTestCompleted
  <2>1. PICK output \in Outputs : current' = GetTestResults(output, verdict = "broken")
    BY <1>3 DEF ShowTestCompleted
  <2>2. UNCHANGED <<counts, testsResults, verdict>>
    BY <1>3 DEF ShowTestCompleted, TestCompleted, loopVars, testVars
  <2>3. PICK broken \in BOOLEAN : broken = (verdict = "broken")
    OBVIOUS
  <2>4. current' = GetTestResults(output, broken)
    BY <2>1, <2>3
  <2>5. current' \in Counts /\ (broken => current'["broken"] = 1)
    BY <2>4, ResultCounts
  <2>6. verdict = "broken" => current'["broken"] >= 1
    <3> SUFFICES ASSUME verdict = "broken" PROVE current'["broken"] >= 1
      OBVIOUS
    <3>1. broken = TRUE
      BY <2>3
    <3>2. current'["broken"] = 1
      BY <2>5, <3>1, Zenon
    <3> QED
      BY <3>2
  <2> QED
    BY <2>2, <2>5, <2>6 DEF CountInv
<1>4. CASE KeepResult
  <2>1. /\ counts' = Append(counts, current) /\ current' = current
        /\ testsResults' = Append(testsResults, [test |-> test, verdict |-> verdict])
        /\ pc = "append" /\ pc' = "next"
    BY <1>4 DEF KeepResult, AppendResult
  <2>2. current \in Counts /\ (verdict = "broken" => current["broken"] >= 1)
    BY <2>1 DEF CountInv
  <2>3. verdict \in {"done", "broken"}
    BY DEF TypeInv, TypeOK
  <2> QED
    BY <2>1, <2>2, <2>3, CountAppend
<1>5. CASE KeepSkipped
  <2>1. /\ counts' = Append(counts, One("skipped")) /\ current' = current
        /\ testsResults' = Append(testsResults, [test |-> test, verdict |-> "skipped"])
        /\ pc = "next" /\ pc' = "next"
    BY <1>5 DEF KeepSkipped, SkipRemaining
  <2>2. One("skipped") \in Counts /\ One("skipped")["skipped"] >= 1
    BY DEF One, Nothing, Counts, Kinds
  <2> QED
    BY <2>1, <2>2, CountAppend
<1>6. CASE ShowSuiteCompleted
  <2>1. UNCHANGED <<counts, current, testsResults>> /\ pc' \in {"idle", "suite"}
    BY <1>6, SMT DEF ShowSuiteCompleted, CollectSuite, Leave
  <2> QED
    BY <2>1, CountQuiet
<1>7. CASE NewSuite
  <2>1. /\ counts' = <<>> /\ testsResults' = <<>> /\ current' = current /\ pc' = "next"
    BY <1>7 DEF NewSuite, StartSuite
  <2> QED
    BY <2>1 DEF CountInv
<1>8. ASSUME Sigint PROVE UNCHANGED testsResults /\ pc' \in {"next", "idle"}
  BY <1>8 DEF Sigint, PostponeSigint, RaiseSigint, Leave, SutRaises, loopVars
<1>9. ASSUME SutFails PROVE UNCHANGED testsResults /\ pc' = "idle"
  BY <1>9 DEF SutFails, Leave, SutRaises, loopVars
<1>10. CASE EndOfCommand
  <2>1. UNCHANGED <<counts, current>>
    BY <1>10 DEF EndOfCommand
  <2>2. UNCHANGED testsResults /\ pc' \in {"after", "ping", "next", "idle"}
    BY <1>8, <1>9, <1>10 DEF EndOfCommand, RunCommand, CommandTimeout, loopVars
  <2> QED
    BY <2>1, <2>2, CountQuiet
<1>11. CASE Silently
  <2>1. UNCHANGED <<counts, current>>
    BY <1>11 DEF Silently, uiVars
  <2>2. CASE \E x \in Stoppers : StopCall(x) \/ StopStep(x)
    <3>1. UNCHANGED <<pc, verdict, testsResults>>
      BY <2>2 DEF StopCall, StopStep, StopSet, StopPoll, StopSleep, StopClear, runner, loopVars,
        testVars
    <3> QED
      BY <2>1, <3>1, CountQuiet
  <2>3. CASE ForceStopSut \/ BootSut
    <3>1. UNCHANGED <<testsResults, verdict>> /\ pc \in {"reboot", "boot"}
      BY <2>3 DEF ForceStopSut, BootSut, loopVars, testVars
    <3> QED
      BY <2>1, <3>1, CountQuiet
  <2>4. CASE SutFails \/ Sigint
    BY <1>8, <1>9, <2>1, <2>4, CountQuiet
  <2>5. CASE \E skipped \in SkipSets : ExecSuites(skipped)
    <3>1. UNCHANGED testsResults /\ pc' = "download"
      BY <2>5 DEF ExecSuites
    <3> QED
      BY <2>1, <3>1, CountQuiet
  <2>6. CASE \/ DownloadSuites \/ GetInfo \/ Return \/ LeaveLoop \/ IgnoreTest \/ StartTest
             \/ DropEmptySuite
    <3>1. UNCHANGED testsResults /\ pc' \in {"idle", "info", "suite", "next", "taint", "collect"}
      BY <2>6 DEF DownloadSuites, GetInfo, Return, LeaveLoop, IgnoreTest, StartTest,
        DropEmptySuite, Leave, SutRaises, loopVars
    <3> QED
      BY <2>1, <3>1, CountQuiet
  <2> QED
    BY <1>11, <2>2, <2>3, <2>4, <2>5, <2>6 DEF Silently
<1> QED
  BY <1>1, <1>2, <1>3, <1>4, <1>5, <1>6, <1>7, <1>10, <1>11 DEF ConsoleNext

\* The sums that ShowSuiteCompleted makes.
LEMMA TotalMeans == \A kind \in Kinds : Total(kind) = Summed(counts, kind)
BY DEF Total, Summed

\* The totals that come with the report of a suite.
LEMMA TotalStep ==
    ASSUME TypeInv, CountInv, ShowSuiteCompleted
    PROVE  TroubleShown'
<1>1. PICK sums : sums = [kind \in Kinds |-> Total(kind)]
  OBVIOUS
<1>2. \A kind \in Kinds : sums[kind] = Summed(counts, kind)
  BY <1>1, TotalMeans, Zenon
<1>3. totals' = sums
  BY <1>1, Zenon DEF ShowSuiteCompleted
<1>4. lastResults' = Append(lastResults, [suite |-> suite, tests |-> testsResults])
  BY DEF ShowSuiteCompleted, CollectSuite, Collected
<1>5. PICK n \in Nat : n = Len(counts) /\ n = Len(testsResults)
  BY DEF CountInv
<1>6. DOMAIN testsResults = 1 .. n
  BY <1>5 DEF TypeInv, TypeOK
<1>7. lastResults'[Len(lastResults')].tests = testsResults
  BY <1>4 DEF TypeInv, TypeOK
<1>8. ASSUME NEW v \in {"broken", "skipped"}
      PROVE  totals'[v] >= Cardinality({k \in 1 .. n : testsResults[k].verdict = v})
  <2>1. PICK S : S = {k \in 1 .. n : testsResults[k].verdict = v}
    OBVIOUS
  <2>2. S \in SUBSET (1 .. n) /\ \A k \in S : counts[k][v] >= 1
    BY <1>5, <2>1 DEF CountInv
  <2>3. v \in Kinds /\ counts \in Seq(Counts)
    BY DEF Kinds, CountInv
  <2>4. Summed(counts, v) >= Cardinality(S)
    BY <1>5, <2>2, <2>3, SummedLeast, Zenon
  <2> QED
    BY <1>2, <1>3, <2>1, <2>3, <2>4, Zenon
<1> QED
  BY <1>6, <1>7, <1>8 DEF TroubleShown

\* No other step reports a suite.
LEMMA TotalQuiet ==
    ASSUME [ConsoleNext]_consoleVars
    PROVE  ShowSuiteCompleted \/ lastResults' = <<>> \/ UNCHANGED <<lastResults, totals>>
<1>1. CASE UNCHANGED consoleVars \/ Output \/ BootOutput
  BY <1>1 DEF consoleVars, uiVars, vars, runVars, Output, BootOutput
<1>2. CASE ShowTaintBefore \/ ShowPing \/ ShowKernelPanic \/ ShowTaintAfter
  BY <1>2 DEF ShowTaintBefore, ShowPing, ShowKernelPanic, ShowTaintAfter, NoResult,
    TaintBefore, Ping, KernelPanic, TaintAfter, runVars
<1>3. CASE ShowTestCompleted \/ KeepResult \/ KeepSkipped \/ NewSuite
  BY <1>3 DEF ShowTestCompleted, TestCompleted, KeepResult, AppendResult, KeepSkipped, SkipRemaining,
    NewSuite, StartSuite, runVars
<1>4. ASSUME SutFails \/ Sigint PROVE UNCHANGED lastResults
  BY <1>4 DEF SutFails, Sigint, PostponeSigint, RaiseSigint, runVars
<1>5. CASE EndOfCommand
  BY <1>4, <1>5 DEF EndOfCommand, RunCommand, CommandTimeout, runVars
<1>6. CASE Silently
  <2>1. UNCHANGED totals
    BY <1>6 DEF Silently, uiVars
  <2>2. CASE \E x \in Stoppers : StopCall(x) \/ StopStep(x)
    BY <2>1, <2>2 DEF StopCall, StopStep, StopSet, StopPoll, StopSleep, StopClear, runner, runVars
  <2>3. CASE SutFails \/ Sigint
    BY <1>4, <2>1, <2>3
  <2>4. CASE \E skipped \in SkipSets : ExecSuites(skipped)
    BY <2>4 DEF ExecSuites
  <2>5. CASE \/ DownloadSuites \/ GetInfo \/ Return \/ LeaveLoop \/ IgnoreTest \/ StartTest
             \/ DropEmptySuite \/ ForceStopSut \/ BootSut
    BY <2>1, <2>5 DEF DownloadSuites, GetInfo, Return, LeaveLoop, IgnoreTest, StartTest,
      DropEmptySuite, ForceStopSut, BootSut, runVars
  <2> QED
    BY <1>6, <2>2, <2>3, <2>4, <2>5 DEF Silently
<1> QED
  BY <1>1, <1>2, <1>3, <1>5, <1>6 DEF ConsoleNext

\* No trouble disappears in the totals of a suite.
THEOREM TroubleCounted == ConsoleSpec => []TroubleShown
<1>1. ConsoleInit => CountInv /\ TotalInv
  BY DEF ConsoleInit, Init, CountInv, TotalInv, Nothing, Counts
<1>2. TypeInv /\ CountInv /\ [ConsoleNext]_consoleVars => CountInv'
  BY CountStep
<1>3. TypeInv /\ CountInv /\ TotalInv /\ [ConsoleNext]_consoleVars => TotalInv'
  <2> SUFFICES ASSUME TypeInv, CountInv, TotalInv, [ConsoleNext]_consoleVars, lastResults' # <<>>
               PROVE  TroubleShown'
    BY DEF TotalInv
  <2>1. CASE ShowSuiteCompleted
    BY <2>1, TotalStep
  <2>2. CASE UNCHANGED <<lastResults, totals>>
    BY <2>2 DEF TotalInv, TroubleShown
  <2> QED
    BY <2>1, <2>2, TotalQuiet
<1>4. TotalInv => TroubleShown
  BY DEF TotalInv, TroubleShown
<1> QED
  BY <1>1, <1>2, <1>3, <1>4, ConsoleTypes, PTL DEF ConsoleSpec
==============================================================================
