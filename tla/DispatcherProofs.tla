-------------------------- MODULE DispatcherProofs --------------------------
(* Theorems about Dispatcher, for every list of suites, every set of tests  *)
(* to skip, every number of stoppers, and all the bounds.                   *)
EXTENDS Dispatcher, SequenceTheorems, TLAPS

InSuite == {"next", "collect"} \cup InTest

\* The steps, whoever has started the SUT: what is shown of them holds wherever
\* the dispatcher is composed with its caller.
Step ==
    \/ \E skipped \in SkipSets : ExecSuites(skipped)
    \/ Runner
    \/ Sigint
    \/ \E x \in Stoppers : StopCall(x) \/ StopStep(x)

\* Next has no other steps.
LEMMA NextIsStep == [Next]_vars => [Step]_vars
  BY DEF Next, Step

(***************************************************************************)
(* Type correctness.  The sets of tests stay within the suites because the *)
(* positions of the two loops do.                                          *)
(***************************************************************************)
Positions ==
    /\ suite <= Len(SuiteSize) + 1
    /\ pc \in InSuite => suite \in Suites
    /\ pc \in InTest => test \in 1 .. SuiteSize[suite]

TypeInv == TypeOK /\ Positions

\* SuiteSize gives every suite a number of tests, and a test of a suite is one
\* of AllTests.
LEMMA TestInAllTests ==
    ASSUME NEW s \in Suites
    PROVE  /\ SuiteSize[s] \in Nat
           /\ \A t \in 1 .. SuiteSize[s] : <<s, t>> \in AllTests
  BY SuitesAssumption DEF Suites, AllTests, TestsOf

\* The types hold initially.
LEMMA TypeInit == Init => TypeInv
<1> SUFFICES ASSUME Init PROVE TypeInv
  OBVIOUS
<1>1. Len(SuiteSize) \in Nat
  BY SuitesAssumption
<1>2. /\ lastResults \in Seq(SuiteResults) /\ testsResults \in Seq(Results)
      /\ skip \subseteq AllTests /\ completed \subseteq AllTests /\ missed \subseteq AllTests
  BY DEF Init
<1>3. stopPc \in [Stoppers -> StopPoints]
  BY DEF Init, StopPoints
<1>4. taint \in Nat
  BY SuitesAssumption DEF Init
<1>5. Positions
  BY <1>1 DEF Init, Positions, InSuite, InTest
<1>6. /\ timedOut \in BOOLEAN /\ interrupt \in BOOLEAN /\ reboot \in BOOLEAN
      /\ isHost \in BOOLEAN /\ stop \in BOOLEAN
  BY DEF Init
<1>7. TypeOK
  BY <1>2, <1>3, <1>4, <1>6 DEF Init, TypeOK, Points, Outcomes
<1> QED
  BY <1>5, <1>7 DEF TypeInv

\* Every step preserves the types.
LEMMA TypeStep == TypeInv /\ [Step]_vars => TypeInv'
<1> SUFFICES ASSUME TypeInv, [Step]_vars PROVE TypeInv'
  OBVIOUS
<1> USE DEF TypeInv, TypeOK, Positions
<1>0. Len(SuiteSize) \in Nat
  BY SuitesAssumption
<1>1. ASSUME NEW skipped \in SkipSets, ExecSuites(skipped) PROVE TypeInv'
  <2>1. skip' \subseteq AllTests /\ completed' \subseteq AllTests /\ missed' \subseteq AllTests
    BY <1>1, SuitesAssumption DEF ExecSuites
  <2>2. lastResults' \in Seq(SuiteResults)
    BY <1>1 DEF ExecSuites
  <2> QED
    BY <1>0, <1>1, <2>1, <2>2
    DEF ExecSuites, testVars, sutVars, stopVars, Points, Outcomes, InSuite, InTest
<1>2. CASE DownloadSuites
  BY <1>2 DEF DownloadSuites, Leave, SutRaises, loopVars, testVars, sutVars, stopVars, history,
    Points, Outcomes, InSuite, InTest
<1>3. CASE GetInfo
  BY <1>3 DEF GetInfo, Leave, SutRaises, loopVars, testVars, sutVars, stopVars, history,
    Points, Outcomes, InSuite, InTest
<1>4. CASE StartSuite
  <2>1. testsResults' \in Seq(Results)
    BY <1>4 DEF StartSuite
  <2>2. pc' = "next" /\ suite' \in Suites
    BY <1>0, <1>4 DEF StartSuite, Suites
  <2>3. timedOut' \in BOOLEAN /\ interrupt' \in BOOLEAN
    BY <1>4 DEF StartSuite
  <2> QED
    BY <1>0, <1>4, <2>1, <2>2, <2>3 DEF StartSuite, runVars, testVars, sutVars, stopVars,
      history, Points, Suites, InSuite, InTest
<1>5. CASE Return
  BY <1>5 DEF Return, Leave, SutRaises, loopVars, testVars, sutVars, stopVars, history,
    Points, Outcomes, InSuite, InTest
<1>6. CASE LeaveLoop
  <2>1. suite \in Suites
    BY <1>6 DEF LeaveLoop, NoTestLeft, InSuite
  <2>2. {<<suite, t>> : t \in test .. SuiteSize[suite]} \subseteq AllTests
    BY <2>1, TestInAllTests
  <2> QED
    BY <1>6, <2>1, <2>2 DEF LeaveLoop, NoTestLeft, runVars, loopVars, testVars, sutVars, stopVars,
      Points, InSuite, InTest
<1>7. CASE SkipRemaining
  <2>1. [test |-> test, verdict |-> "skipped"] \in Results
    BY DEF Results, Verdicts
  <2>2. testsResults' \in Seq(Results)
    BY <1>7, <2>1, AppendProperties DEF SkipRemaining
  <2> QED
    BY <1>7, <2>2 DEF SkipRemaining, NoTestLeft, runVars, testVars, sutVars, stopVars, history,
      Points, InSuite, InTest
<1>8. CASE IgnoreTest
  BY <1>8 DEF IgnoreTest, NoTestLeft, runVars, testVars, sutVars, stopVars, history,
    Points, InSuite, InTest
<1>9. CASE StartTest
  <2>1. suite \in Suites /\ SuiteSize[suite] \in Nat
    BY <1>9, TestInAllTests DEF StartTest, NoTestLeft, InSuite
  <2> QED
    BY <1>9, <2>1 DEF StartTest, NoTestLeft, runVars, loopVars, testVars, sutVars, stopVars, history,
      Points, InSuite, InTest
<1>10. CASE SutFails
  BY <1>10 DEF SutFails, Leave, SutRaises, loopVars, testVars, sutVars, stopVars, history,
    Points, Outcomes, InSuite, InTest
<1>11. CASE TaintBefore
  BY <1>11 DEF TaintBefore, runVars, loopVars, sutVars, stopVars, history,
    Points, InSuite, InTest
<1>12. CASE RunCommand
  BY <1>12, SuitesAssumption DEF RunCommand, runVars, loopVars, testVars, stopVars, history,
    Points, InSuite, InTest
<1>13. CASE CommandTimeout
  BY <1>13, SuitesAssumption DEF CommandTimeout, runVars, loopVars, stopVars, history,
    Points, InSuite, InTest
<1>14. CASE KernelPanic
  BY <1>14 DEF KernelPanic, runVars, loopVars, stopVars, history, Points, InSuite, InTest
<1>15. CASE Ping
  BY <1>15 DEF Ping, runVars, loopVars, sutVars, stopVars, history, Points, InSuite, InTest
<1>16. CASE TaintAfter
  BY <1>16 DEF TaintAfter, runVars, loopVars, sutVars, stopVars, history,
    Points, InSuite, InTest
<1>17. CASE TestCompleted
  <2>1. suite \in Suites /\ test \in 1 .. SuiteSize[suite]
    BY <1>17 DEF TestCompleted, InSuite, InTest
  <2>2. <<suite, test>> \in AllTests
    BY <2>1, TestInAllTests
  <2> QED
    BY <1>17, <2>1, <2>2 DEF TestCompleted, RebootDue, runVars, loopVars, testVars, sutVars, stopVars,
      Points, InSuite, InTest
<1>18. CASE ForceStopSut
  BY <1>18 DEF ForceStopSut, Leave, SutRaises, loopVars, testVars, stopVars, history,
    Points, Outcomes, InSuite, InTest
<1>19. CASE BootSut
  BY <1>19 DEF BootSut, Leave, SutRaises, loopVars, testVars, stopVars, history,
    Points, Outcomes, InSuite, InTest
<1>20. CASE AppendResult
  <2>1. [test |-> test, verdict |-> verdict] \in Results
    BY DEF Results, Verdicts
  <2>2. testsResults' \in Seq(Results)
    BY <1>20, <2>1, AppendProperties DEF AppendResult
  <2>3. timedOut' \in BOOLEAN
    BY <1>20 DEF AppendResult, ReadClock
  <2> QED
    BY <1>20, <2>2, <2>3 DEF AppendResult, runVars, testVars, sutVars, stopVars,
      history, Points, InSuite, InTest
<1>21. CASE DropEmptySuite
  <2>1. suite \in Suites
    BY <1>21 DEF DropEmptySuite, InSuite
  <2> QED
    BY <1>0, <1>21, <2>1 DEF DropEmptySuite, Suites, runVars, testVars, sutVars, stopVars,
      history, Points, InSuite, InTest
<1>22. CASE CollectSuite
  <2>1. suite \in Suites
    BY <1>22 DEF CollectSuite, Collected, SuiteEnd, InSuite
  <2>2. [suite |-> suite, tests |-> testsResults] \in SuiteResults
    BY <2>1 DEF SuiteResults
  <2>3. lastResults' \in Seq(SuiteResults)
    BY <1>22, <2>2, AppendProperties DEF CollectSuite, Collected, SuiteEnd
  <2> QED
    BY <1>0, <1>22, <2>1, <2>3 DEF CollectSuite, Collected, SuiteEnd, Leave, SutRaises, Suites, testVars, sutVars, stopVars,
      history, Points, Outcomes, InSuite, InTest
<1>23. CASE Sigint
  <2>1. CASE PostponeSigint
    <3>1. suite \in Suites /\ test \in 1 .. SuiteSize[suite]
      BY <2>1 DEF PostponeSigint, InSuite
    <3>2. <<suite, test>> \in AllTests
      BY <3>1, TestInAllTests
    <3>3. timedOut' \in BOOLEAN
      BY <2>1 DEF PostponeSigint, ReadClock
    <3>4. missed' \subseteq AllTests /\ interrupt' \in BOOLEAN
      BY <2>1, <3>2 DEF PostponeSigint
    <3>5. pc' = "next" /\ suite' \in Suites
      BY <2>1, <3>1 DEF PostponeSigint
    <3>6. test' \in Nat \ {0} /\ sigints' \in Nat
      BY <1>23, <2>1 DEF Sigint, PostponeSigint
    <3> QED
      BY <1>0, <1>23, <2>1, <3>3, <3>4, <3>5, <3>6
      DEF Sigint, PostponeSigint, runVars, testVars, sutVars, stopVars, Points, Suites,
        InSuite, InTest
  <2>2. CASE RaiseSigint
    BY <1>23, <2>2 DEF Sigint, RaiseSigint, Leave, SutRaises, loopVars, history, testVars,
      sutVars, stopVars, Points, Outcomes, InSuite, InTest
  <2> QED
    BY <1>23, <2>1, <2>2 DEF Sigint
<1>24. ASSUME NEW x \in Stoppers, StopCall(x) \/ StopStep(x) PROVE TypeInv'
  <2>1. UNCHANGED runner
    BY <1>24 DEF StopCall, StopStep, StopSet, StopPoll, StopSleep, StopClear, runner
  <2>2. stop' \in BOOLEAN
    BY <1>24 DEF StopCall, StopStep, StopSet, StopPoll, StopSleep, StopClear
  <2>3. stopPc' \in [Stoppers -> StopPoints]
    BY <1>24 DEF StopCall, StopStep, StopSet, StopPoll, StopSleep, StopClear, SetStopPc,
      StopPoints
  <2> QED
    BY <2>1, <2>2, <2>3 DEF runner, runVars, loopVars, testVars, sutVars, history
<1>25. CASE UNCHANGED vars
  BY <1>25 DEF vars, runVars, loopVars, testVars, sutVars, stopVars, history
<1> QED
  BY <1>1, <1>2, <1>3, <1>4, <1>5, <1>6, <1>7, <1>8, <1>9, <1>10, <1>11, <1>12, <1>13,
    <1>14, <1>15, <1>16, <1>17, <1>18, <1>19, <1>20, <1>21, <1>22, <1>23, <1>24, <1>25
  DEF Step, Runner, RunSuite, RunTest

\* Every variable keeps its type in every run of the dispatcher.
THEOREM TypeCorrect == Spec => []TypeOK
<1>1. Spec => []TypeInv
  BY TypeInit, TypeStep, NextIsStep, PTL DEF Spec
<1>2. TypeInv => TypeOK
  BY DEF TypeInv
<1> QED
  BY <1>1, <1>2, PTL

(***************************************************************************)
(* No test is lost.  EveryTestAccounted speaks of the suites the run has   *)
(* gone past; it is inductive together with what the loop over the tests   *)
(* of the current suite keeps, and with `outcome' being set on leaving.    *)
(***************************************************************************)
LoopAccounted ==
    pc \in InSuite =>
        \A t \in 1 .. SuiteSize[suite] : t < test \/ pc = "collect" =>
            t \in Tested(testsResults) \/ <<suite, t>> \in skip \cup missed

AccountInv ==
    /\ TypeInv
    /\ pc # "idle" => outcome = "none"
    /\ LoopAccounted
    /\ EveryTestAccounted

\* Adding a result adds its test to the tested ones.
LEMMA TestedAppend ==
    ASSUME NEW results \in Seq(Results), NEW r \in Results
    PROVE  Tested(Append(results, r)) = Tested(results) \cup {r.test}
<1>1. /\ Len(results) \in Nat
      /\ Len(Append(results, r)) = Len(results) + 1
      /\ \A i \in 1 .. Len(results) : Append(results, r)[i] = results[i]
      /\ Append(results, r)[Len(results) + 1] = r
  BY AppendProperties
<1> QED
  BY <1>1 DEF Tested

\* An accounted test stays so while the report and the missed tests only grow.
LEMMA AccountedStays ==
    ASSUME NEW s, NEW t, Accounted(s, t),
           Len(lastResults) \in Nat, Len(lastResults') \in Nat,
           Len(lastResults) <= Len(lastResults'),
           \A i \in 1 .. Len(lastResults) : lastResults'[i] = lastResults[i],
           skip' = skip, missed \subseteq missed'
    PROVE  Accounted(s, t)'
<1>1. CASE <<s, t>> \in skip \cup missed
  BY <1>1 DEF Accounted
<1>2. CASE HasResult(s, t)
  <2>1. PICK i \in 1 .. Len(lastResults) :
          lastResults[i].suite = s /\ t \in Tested(lastResults[i].tests)
    BY <1>2 DEF HasResult
  <2>2. i \in 1 .. Len(lastResults') /\ lastResults'[i] = lastResults[i]
    BY <2>1
  <2>3. t \in Tested(lastResults'[i].tests)
    BY <2>1, <2>2
  <2>4. HasResult(s, t)'
    BY <2>1, <2>2, <2>3 DEF HasResult, Tested
  <2> QED
    BY <2>4 DEF Accounted
<1> QED
  BY <1>1, <1>2 DEF Accounted

\* A step that leaves the report and the suite alone keeps every suite behind
\* the run accounted for.
LEMMA PastStaysAccounted ==
    ASSUME EveryTestAccounted, lastResults \in Seq(SuiteResults),
           lastResults' = lastResults, suite' = suite,
           skip' = skip, missed \subseteq missed',
           outcome' = "ok" => suite > Len(SuiteSize),
           outcome' = "timeout" => HasReport(suite)
    PROVE  EveryTestAccounted'
<1>1. \A s : HasReport(s)' <=> HasReport(s)
  BY DEF HasReport
<1>2. ASSUME NEW s \in Suites, s < suite' \/ HasReport(s)', NEW t \in 1 .. SuiteSize[s]
      PROVE  Accounted(s, t)'
  <2>1. Accounted(s, t)
    BY <1>1, <1>2 DEF EveryTestAccounted
  <2>2. Len(lastResults) \in Nat
    OBVIOUS
  <2> QED
    BY <2>1, <2>2, AccountedStays
<1>3. outcome' = "timeout" => HasReport(suite)'
  BY DEF HasReport
<1> QED
  BY <1>2, <1>3 DEF EveryTestAccounted

\* A step within a suite that changes nothing the accounting reads.
LEMMA QuietStep ==
    ASSUME AccountInv,
           UNCHANGED <<skip, lastResults, suite, test, testsResults, missed>>,
           pc' \in InSuite => pc \in InSuite /\ (pc' = "collect" => pc = "collect"),
           pc' # "idle" => outcome' = "none",
           outcome' = "ok" => suite > Len(SuiteSize),
           outcome' = "timeout" => HasReport(suite),
           TypeInv'
    PROVE  AccountInv'
<1>1. EveryTestAccounted'
  BY PastStaysAccounted DEF AccountInv, TypeInv, TypeOK
<1>2. LoopAccounted'
  BY DEF AccountInv, LoopAccounted, Tested
<1> QED
  BY <1>1, <1>2 DEF AccountInv

\* Initially the run has gone past nothing.
LEMMA AccountInit == Init => AccountInv
<1> SUFFICES ASSUME Init PROVE AccountInv
  OBVIOUS
<1>1. \A s : ~ HasReport(s)
  BY DEF Init, HasReport
<1>2. \A s \in Suites : ~ (s < suite)
  BY DEF Init, Suites
<1>3. EveryTestAccounted
  BY <1>1, <1>2 DEF Init, EveryTestAccounted
<1>4. LoopAccounted
  BY DEF Init, LoopAccounted, InSuite, InTest
<1> QED
  BY <1>3, <1>4, TypeInit DEF Init, AccountInv

\* A test that gets a result is accounted for, and the loop moves on.
LEMMA RecordStep ==
    ASSUME AccountInv, TypeInv', NEW r \in Results, r.test = test,
           pc \in InSuite \ {"collect"}, pc' = "next",
           UNCHANGED <<outcome, skip, lastResults, suite, missed>>,
           testsResults' = Append(testsResults, r), test' = test + 1
    PROVE  AccountInv'
<1>1. EveryTestAccounted'
  <2>1. outcome = "none"
    BY DEF AccountInv, InSuite, InTest
  <2> QED
    BY <2>1, PastStaysAccounted DEF AccountInv, TypeInv, TypeOK
<1>2. Tested(testsResults') = Tested(testsResults) \cup {test}
  BY TestedAppend DEF AccountInv, TypeInv, TypeOK
<1>3. LoopAccounted'
  <2> SUFFICES ASSUME NEW t \in 1 .. SuiteSize[suite], t < test + 1
               PROVE  t \in Tested(testsResults') \/ <<suite, t>> \in skip \cup missed
    BY DEF LoopAccounted, Tested
  <2>1. suite \in Suites /\ test \in Nat
    BY DEF AccountInv, TypeInv, TypeOK, Positions
  <2>2. t < test \/ t = test
    BY <2>1, TestInAllTests
  <2> QED
    BY <1>2, <2>2 DEF AccountInv, LoopAccounted
<1> QED
  BY <1>1, <1>3 DEF AccountInv, InSuite, InTest

\* A suite whose tests are all accounted for can be left behind.
LEMMA CollectStep ==
    ASSUME AccountInv, TypeInv', DropEmptySuite \/ CollectSuite
    PROVE  AccountInv'
<1> USE DEF AccountInv, TypeInv, TypeOK
<1>1. pc = "collect" /\ outcome = "none" /\ suite \in Suites /\ suite \in Nat
  BY DEF DropEmptySuite, CollectSuite, Collected, SuiteEnd, Positions, InSuite
<1>2. \A t \in 1 .. SuiteSize[suite] :
        t \in Tested(testsResults) \/ <<suite, t>> \in skip \cup missed
  BY <1>1 DEF LoopAccounted, InSuite
<1>3. skip' = skip /\ missed' = missed
  BY DEF DropEmptySuite, CollectSuite, Collected, SuiteEnd, runVars, history
<1>4. /\ Len(lastResults) \in Nat /\ Len(lastResults') \in Nat
      /\ Len(lastResults) <= Len(lastResults')
      /\ \A i \in 1 .. Len(lastResults) : lastResults'[i] = lastResults[i]
  <2>1. CASE DropEmptySuite
    BY <2>1 DEF DropEmptySuite, runVars
  <2>2. CASE CollectSuite
    <3>1. [suite |-> suite, tests |-> testsResults] \in SuiteResults
      BY <1>1 DEF SuiteResults
    <3> QED
      BY <2>2, <3>1, AppendProperties DEF CollectSuite, Collected, SuiteEnd
  <2> QED
    BY <2>1, <2>2
<1>5. ASSUME NEW s \in Suites, s = suite, NEW t \in 1 .. SuiteSize[s]
      PROVE  Accounted(s, t)'
  <2>1. CASE DropEmptySuite
    <3>1. Tested(testsResults) = {}
      BY <2>1 DEF DropEmptySuite, Tested
    <3> QED
      BY <1>2, <1>3, <1>5, <3>1 DEF Accounted
  <2>2. CASE CollectSuite
    <3> DEFINE entry == [suite |-> suite, tests |-> testsResults]
    <3>1. entry \in SuiteResults
      BY <1>1 DEF SuiteResults
    <3>2. /\ Len(lastResults) + 1 \in 1 .. Len(lastResults')
          /\ lastResults'[Len(lastResults) + 1] = entry
      BY <2>2, <3>1, AppendProperties DEF CollectSuite, Collected, SuiteEnd
    <3>3. t \in Tested(testsResults) => HasResult(s, t)'
      <4> DEFINE last == Len(lastResults) + 1
      <4>1. SUFFICES ASSUME t \in Tested(testsResults)
                     PROVE  /\ last \in 1 .. Len(lastResults')
                            /\ lastResults'[last].suite = s
                            /\ t \in Tested(lastResults'[last].tests)
        BY DEF HasResult, Tested
      <4>2. lastResults'[last].suite = s /\ lastResults'[last].tests = testsResults
        BY <1>5, <3>2
      <4> QED
        BY <3>2, <4>1, <4>2
    <3> QED
      BY <1>2, <1>3, <1>5, <3>3 DEF Accounted
  <2> QED
    BY <2>1, <2>2
<1>6. \A s : HasReport(s)' => HasReport(s) \/ s = suite
  <2>1. CASE DropEmptySuite
    BY <2>1 DEF DropEmptySuite, runVars, HasReport
  <2>2. CASE CollectSuite
    <3>1. [suite |-> suite, tests |-> testsResults] \in SuiteResults
      BY <1>1 DEF SuiteResults
    <3> QED
      BY <2>2, <3>1, AppendProperties DEF CollectSuite, Collected, SuiteEnd, HasReport
  <2> QED
    BY <2>1, <2>2
<1>7. suite' \in {suite, suite + 1}
  BY DEF DropEmptySuite, CollectSuite, Collected, SuiteEnd
<1>8. ASSUME NEW s \in Suites, s < suite' \/ HasReport(s)', NEW t \in 1 .. SuiteSize[s]
      PROVE  Accounted(s, t)'
  <2>1. s = suite \/ s < suite \/ HasReport(s)
    BY <1>1, <1>6, <1>7, <1>8 DEF Suites
  <2>2. CASE s = suite
    BY <1>5, <2>2
  <2>3. CASE s < suite \/ HasReport(s)
    <3>1. Accounted(s, t)
      BY <2>3 DEF EveryTestAccounted
    <3> QED
      BY <1>3, <1>4, <3>1, AccountedStays
  <2> QED
    BY <2>1, <2>2, <2>3
<1>9. /\ outcome' # "ok" /\ (pc' # "idle" => outcome' = "none")
      /\ pc' \notin InSuite
  BY <1>1 DEF DropEmptySuite, CollectSuite, Collected, SuiteEnd, Leave, SutRaises, runVars, InSuite, InTest
<1>10. outcome' = "timeout" => HasReport(suite)'
  <2>1. CASE DropEmptySuite
    BY <1>1, <2>1 DEF DropEmptySuite, runVars
  <2>2. ASSUME CollectSuite, outcome' = "timeout" PROVE HasReport(suite)'
    <3>1. [suite |-> suite, tests |-> testsResults] \in SuiteResults
      BY <1>1 DEF SuiteResults
    <3>2. suite' = suite
      BY <1>1, <2>2 DEF CollectSuite, Collected, SuiteEnd, Leave, SutRaises
    <3> QED
      BY <2>2, <3>1, <3>2, AppendProperties DEF CollectSuite, Collected, SuiteEnd, HasReport
  <2> QED
    BY <2>1, <2>2
<1> QED
  BY <1>8, <1>9, <1>10 DEF EveryTestAccounted, LoopAccounted

\* A test passed over is missed, and the loop may move on or end.
LEMMA MissStep ==
    ASSUME AccountInv, TypeInv', pc \in InSuite \ {"collect"},
           \/ LeaveLoop
           \/ PostponeSigint
    PROVE  AccountInv'
<1> USE DEF AccountInv, TypeInv, TypeOK
<1>1. suite \in Suites /\ SuiteSize[suite] \in Nat /\ outcome = "none"
  BY TestInAllTests DEF Positions, InSuite, InTest
<1>2. /\ UNCHANGED <<outcome, skip, lastResults, suite, testsResults>>
      /\ missed \subseteq missed'
  BY DEF LeaveLoop, NoTestLeft, PostponeSigint, runVars, loopVars
<1>3. EveryTestAccounted'
  BY <1>1, <1>2, PastStaysAccounted
<1>4. LoopAccounted'
  <2>1. CASE LeaveLoop
    <3> SUFFICES ASSUME NEW t \in 1 .. SuiteSize[suite]
                 PROVE  t \in Tested(testsResults) \/ <<suite, t>> \in skip \cup missed'
      BY <1>2 DEF LoopAccounted, Tested
    <3>1. missed' = missed \cup {<<suite, u>> : u \in test .. SuiteSize[suite]}
      BY <2>1 DEF LeaveLoop, NoTestLeft
    <3>2. t < test \/ t \in test .. SuiteSize[suite]
      BY <1>1
    <3> QED
      BY <1>2, <3>1, <3>2 DEF LoopAccounted
  <2>2. CASE PostponeSigint
    <3> SUFFICES ASSUME NEW t \in 1 .. SuiteSize[suite], t < test + 1
                 PROVE  t \in Tested(testsResults) \/ <<suite, t>> \in skip \cup missed'
      BY <1>2, <2>2 DEF LoopAccounted, Tested, PostponeSigint
    <3>1. missed' = missed \cup {<<suite, test>>}
      BY <2>2 DEF PostponeSigint
    <3>2. t < test \/ t = test
      BY <1>1
    <3> QED
      BY <1>2, <3>1, <3>2 DEF LoopAccounted
  <2> QED
    BY <2>1, <2>2
<1> QED
  BY <1>1, <1>2, <1>3, <1>4

\* Every step preserves the accounting.
LEMMA AccountStep == AccountInv /\ [Step]_vars => AccountInv'
<1> SUFFICES ASSUME AccountInv, [Step]_vars PROVE AccountInv'
  OBVIOUS
<1>0. TypeInv /\ TypeInv' /\ (pc # "idle" => outcome = "none")
  BY TypeStep DEF AccountInv
<1>a. outcome = "ok" => suite > Len(SuiteSize)
  BY DEF AccountInv, EveryTestAccounted
<1>b. outcome = "timeout" => HasReport(suite)
  BY DEF AccountInv, EveryTestAccounted
<1>1. ASSUME NEW skipped \in SkipSets, ExecSuites(skipped) PROVE AccountInv'
  <2>1. lastResults' = <<>> /\ suite' = 1 /\ outcome' = "none" /\ pc' = "download"
    BY <1>1 DEF ExecSuites
  <2>2. EveryTestAccounted'
    BY <2>1 DEF EveryTestAccounted, HasReport, Suites
  <2>3. LoopAccounted'
    BY <2>1 DEF LoopAccounted, InSuite, InTest
  <2> QED
    BY <1>0, <2>1, <2>2, <2>3 DEF AccountInv
<1>2. CASE DownloadSuites
  BY <1>0, <1>2, QuietStep DEF DownloadSuites, Leave, SutRaises, loopVars, history, InSuite, InTest
<1>3. CASE GetInfo
  BY <1>0, <1>3, QuietStep DEF GetInfo, Leave, SutRaises, loopVars, history, InSuite, InTest
<1>4. CASE StartSuite
  <2>1. /\ UNCHANGED <<outcome, skip, lastResults, suite, missed>>
        /\ pc' = "next" /\ test' = 1 /\ outcome = "none"
    BY <1>0, <1>4 DEF StartSuite, runVars, history
  <2>2. EveryTestAccounted'
    BY <2>1, PastStaysAccounted DEF AccountInv, TypeInv, TypeOK
  <2>3. LoopAccounted'
    BY <2>1 DEF LoopAccounted
  <2> QED
    BY <1>0, <2>1, <2>2, <2>3 DEF AccountInv
<1>5. CASE Return
  BY <1>0, <1>5, QuietStep DEF Return, Leave, SutRaises, loopVars, history, InSuite, InTest
<1>6. CASE LeaveLoop
  BY <1>0, <1>6, MissStep DEF LeaveLoop, NoTestLeft, InSuite
<1>7. CASE SkipRemaining
  <2>1. [test |-> test, verdict |-> "skipped"] \in Results
    BY <1>0 DEF Results, Verdicts, TypeInv, TypeOK
  <2> QED
    BY <1>0, <1>7, <2>1, RecordStep DEF SkipRemaining, NoTestLeft, runVars, history, InSuite
<1>8. CASE IgnoreTest
  <2>1. /\ UNCHANGED <<outcome, skip, lastResults, suite, missed, testsResults>>
        /\ pc = "next" /\ pc' = pc /\ test' = test + 1 /\ outcome = "none"
        /\ <<suite, test>> \in skip
    BY <1>0, <1>8 DEF IgnoreTest, NoTestLeft, runVars, history
  <2>2. EveryTestAccounted'
    BY <2>1, PastStaysAccounted DEF AccountInv, TypeInv, TypeOK
  <2>3. LoopAccounted'
    <3> SUFFICES ASSUME NEW t \in 1 .. SuiteSize[suite], t < test + 1
                 PROVE  t \in Tested(testsResults) \/ <<suite, t>> \in skip \cup missed
      BY <2>1 DEF LoopAccounted, Tested
    <3>1. suite \in Suites /\ test \in Nat
      BY <1>0, <2>1 DEF TypeInv, TypeOK, Positions, InSuite
    <3>2. t < test \/ t = test
      BY <3>1, TestInAllTests
    <3> QED
      BY <2>1, <3>2 DEF AccountInv, LoopAccounted, InSuite
  <2> QED
    BY <1>0, <2>1, <2>2, <2>3 DEF AccountInv
<1>9. CASE StartTest
  BY <1>0, <1>9, QuietStep DEF StartTest, NoTestLeft, runVars, loopVars, history, InSuite, InTest
<1>10. CASE SutFails
  BY <1>0, <1>10, QuietStep DEF SutFails, Leave, SutRaises, loopVars, history, InSuite, InTest
<1>11. CASE TaintBefore \/ RunCommand \/ CommandTimeout \/ KernelPanic
  BY <1>0, <1>11, QuietStep DEF TaintBefore, RunCommand, CommandTimeout, KernelPanic,
    runVars, loopVars, history, InSuite, InTest
<1>12. CASE Ping \/ TaintAfter \/ TestCompleted
  BY <1>0, <1>12, QuietStep DEF Ping, TaintAfter, TestCompleted, RebootDue,
    runVars, loopVars, history, InSuite, InTest
<1>13. CASE ForceStopSut \/ BootSut
  BY <1>0, <1>13, QuietStep DEF ForceStopSut, BootSut, Leave, SutRaises, loopVars, history,
    InSuite, InTest
<1>14. CASE AppendResult
  <2>1. [test |-> test, verdict |-> verdict] \in Results
    BY <1>0 DEF Results, Verdicts, TypeInv, TypeOK
  <2> QED
    BY <1>0, <1>14, <2>1, RecordStep DEF AppendResult, runVars, history, InSuite, InTest
<1>15. CASE DropEmptySuite \/ CollectSuite
  BY <1>0, <1>15, CollectStep
<1>16. CASE Sigint
  <2>1. CASE PostponeSigint
    BY <1>0, <2>1, MissStep DEF PostponeSigint, InSuite, InTest
  <2>2. CASE RaiseSigint
    BY <1>0, <2>2, QuietStep DEF RaiseSigint, Leave, SutRaises, loopVars, history, InSuite, InTest
  <2> QED
    BY <1>16, <2>1, <2>2 DEF Sigint
<1>17. ASSUME NEW x \in Stoppers, StopCall(x) \/ StopStep(x) PROVE AccountInv'
  <2>1. UNCHANGED runner
    BY <1>17 DEF StopCall, StopStep, StopSet, StopPoll, StopSleep, StopClear, runner
  <2> QED
    BY <1>0, <1>a, <1>b, <2>1, QuietStep DEF runner, runVars, loopVars, history
<1>18. CASE UNCHANGED vars
  BY <1>0, <1>a, <1>b, <1>18, QuietStep DEF vars, runVars, loopVars, history
<1> QED
  BY <1>1, <1>2, <1>3, <1>4, <1>5, <1>6, <1>7, <1>8, <1>9, <1>10, <1>11, <1>12, <1>13,
    <1>14, <1>15, <1>16, <1>17, <1>18
  DEF Step, Runner, RunSuite, RunTest

\* No test is lost by the loops of exec_suites and _run_suite, however many
\* suites, tests, stoppers, signals, timeouts, crashes and reboots there are.
THEOREM NoTestLost == Spec => []EveryTestAccounted
<1>1. Spec => []AccountInv
  BY AccountInit, AccountStep, NextIsStep, PTL DEF Spec
<1>2. AccountInv => EveryTestAccounted
  BY DEF AccountInv
<1> QED
  BY <1>1, <1>2, PTL

(***************************************************************************)
(* Every test starts on a healthy target.  What the code relies on is that *)
(* the target is healthy whenever the loop is between two tests: a result  *)
(* gets to `append' either after a reboot or without a reason for one.     *)
(***************************************************************************)
Healthy == sut = "up" /\ taint \in {0, baseTaint}

HealthInv ==
    sigints = 0 /\ ~isHost =>
        /\ pc \in {"download", "info", "suite", "next", "collect", "taint", "append"}
             => Healthy
        /\ pc \in {"run", "ping", "after"} => before \in {0, baseTaint}
        /\ pc = "report" /\ ~reboot => Healthy

\* The target is up and the run has not begun.
LEMMA HealthInit == Init => HealthInv
  BY DEF Init, HealthInv

\* Every step preserves it; SIGINT is excluded by its premise.
LEMMA HealthStep == TypeInv /\ HealthInv /\ [Next]_vars => HealthInv'
<1> SUFFICES ASSUME TypeInv, HealthInv, [Next]_vars, sigints' = 0, ~isHost'
             PROVE  HealthInv'
  BY DEF HealthInv
<1>0. sigints \in Nat /\ TypeOK
  BY DEF TypeInv, TypeOK
<1>1. ASSUME NEW skipped \in SkipSets, sut = "up", ExecSuites(skipped) PROVE HealthInv'
  BY <1>1 DEF ExecSuites, HealthInv, Healthy, sutVars
<1>2. CASE DownloadSuites \/ GetInfo \/ Return
  BY <1>2 DEF DownloadSuites, GetInfo, Return, Leave, SutRaises, testVars, sutVars, HealthInv, Healthy
<1>3. CASE StartSuite \/ LeaveLoop \/ SkipRemaining \/ IgnoreTest \/ StartTest
  BY <1>3 DEF StartSuite, LeaveLoop, SkipRemaining, IgnoreTest, StartTest,
    runVars, testVars, sutVars, HealthInv, Healthy
<1>4. CASE SutFails
  BY <1>4 DEF SutFails, Leave, SutRaises, testVars, sutVars, HealthInv
<1>5. CASE TaintBefore
  BY <1>5 DEF TaintBefore, runVars, sutVars, HealthInv, Healthy
<1>6. CASE RunCommand
  BY <1>6 DEF RunCommand, runVars, testVars, HealthInv
<1>7. CASE CommandTimeout
  BY <1>7 DEF CommandTimeout, runVars, HealthInv
<1>8. CASE KernelPanic
  BY <1>8 DEF KernelPanic, runVars, HealthInv
<1>9. CASE Ping
  BY <1>9 DEF Ping, runVars, sutVars, HealthInv
<1>10. CASE TaintAfter
  BY <1>10 DEF TaintAfter, runVars, sutVars, HealthInv, Healthy
<1>11. CASE TestCompleted
  BY <1>11 DEF TestCompleted, RebootDue, runVars, testVars, sutVars, HealthInv, Healthy
<1>12. CASE ForceStopSut
  BY <1>12 DEF ForceStopSut, Leave, SutRaises, testVars, HealthInv
<1>13. CASE BootSut
  BY <1>13 DEF BootSut, Leave, SutRaises, testVars, HealthInv, Healthy
<1>14. CASE AppendResult
  BY <1>14 DEF AppendResult, runVars, testVars, sutVars, HealthInv, Healthy
<1>15. CASE DropEmptySuite \/ CollectSuite
  BY <1>15 DEF DropEmptySuite, CollectSuite, Collected, SuiteEnd, Leave, SutRaises, runVars, testVars, sutVars,
    HealthInv, Healthy
<1>16. CASE Sigint
  BY <1>0, <1>16 DEF Sigint
<1>17. ASSUME NEW x \in Stoppers, StopCall(x) \/ StopStep(x) PROVE HealthInv'
  BY <1>17 DEF StopCall, StopStep, StopSet, StopPoll, StopSleep, StopClear, runner,
    runVars, testVars, sutVars, HealthInv, Healthy
<1>18. CASE UNCHANGED vars
  BY <1>18 DEF vars, runVars, testVars, sutVars, HealthInv, Healthy
<1> QED
  BY <1>1, <1>2, <1>3, <1>4, <1>5, <1>6, <1>7, <1>8, <1>9, <1>10, <1>11, <1>12, <1>13,
    <1>14, <1>15, <1>16, <1>17, <1>18
  DEF Next, Runner, RunSuite, RunTest

\* Without SIGINT, a test is started on a target that is up and not tainted by
\* an earlier test, for every schedule of panics, hangs, taints and failures and
\* however often the target is rebooted.
THEOREM TestsStartHealthy == Spec => []HealthyStart
<1>1. Spec => []TypeInv
  BY TypeInit, TypeStep, NextIsStep, PTL DEF Spec
<1>2. Spec => []HealthInv
  BY <1>1, HealthInit, HealthStep, PTL DEF Spec
<1>3. HealthInv => HealthyStart
  BY DEF HealthInv, Healthy, HealthyStart
<1> QED
  BY <1>2, <1>3, PTL

(***************************************************************************)
(* The stop flag.                                                          *)
(***************************************************************************)

\* Initially the flag is down.
LEMMA StopInit == Init => NoStaleStop
  BY DEF Init, NoStaleStop

\* A thread leaves the waiting loop only through the step that clears the flag.
LEMMA StopStepSafe == TypeInv /\ NoStaleStop /\ [Next]_vars => NoStaleStop'
<1> SUFFICES ASSUME TypeInv, NoStaleStop, [Next]_vars PROVE NoStaleStop'
  OBVIOUS
<1> DEFINE Holding == {"poll", "sleep", "clear", "expire"}
<1>0. stopPc \in [Stoppers -> StopPoints]
  BY DEF TypeInv, TypeOK
<1>1. CASE UNCHANGED stopVars
  BY <1>1 DEF stopVars, NoStaleStop
<1>2. ASSUME NEW x \in Stoppers, StopCall(x) PROVE NoStaleStop'
  <2>1. stopPc[x] \notin Holding /\ stop' = stop
    BY <1>2 DEF StopCall, SetStopPc
  <2>2. \A y \in Stoppers : y # x => stopPc'[y] = stopPc[y]
    BY <1>0, <1>2 DEF StopCall, SetStopPc
  <2> QED
    BY <2>1, <2>2 DEF NoStaleStop
<1>3. ASSUME NEW x \in Stoppers, StopSet(x) PROVE NoStaleStop'
  BY <1>0, <1>3 DEF StopSet, SetStopPc, NoStaleStop
<1>4. ASSUME NEW x \in Stoppers, StopPoll(x) \/ StopSleep(x) PROVE NoStaleStop'
  <2>1. stopPc'[x] \in Holding /\ stop' = stop
    BY <1>0, <1>4 DEF StopPoll, StopSleep, SetStopPc
  <2> QED
    BY <2>1 DEF NoStaleStop
<1>5. ASSUME NEW x \in Stoppers, StopClear(x) PROVE NoStaleStop'
  BY <1>5 DEF StopClear, NoStaleStop
<1>6. ASSUME NEW skipped \in SkipSets, ExecSuites(skipped) PROVE UNCHANGED stopVars
  BY <1>6 DEF ExecSuites
<1>7. CASE Runner
  BY <1>1, <1>7 DEF Runner, RunSuite, RunTest, DownloadSuites, GetInfo, Return, StartSuite,
    LeaveLoop, SkipRemaining, IgnoreTest, StartTest, DropEmptySuite, CollectSuite, Collected, SuiteEnd,
    SutFails, TaintBefore, RunCommand, CommandTimeout, KernelPanic, Ping, TaintAfter,
    TestCompleted, ForceStopSut, BootSut, AppendResult
<1>8. CASE Sigint
  BY <1>1, <1>8 DEF Sigint
<1>9. CASE UNCHANGED vars
  BY <1>1, <1>9 DEF vars
<1> QED
  BY <1>1, <1>2, <1>3, <1>4, <1>5, <1>6, <1>7, <1>8, <1>9 DEF Next, StopStep

\* A stop request lives only while some thread is inside the stop() that made
\* it, for any number of threads.
THEOREM StopNeverStale == Spec => []NoStaleStop
<1>1. Spec => []TypeInv
  BY TypeInit, TypeStep, NextIsStep, PTL DEF Spec
<1> QED
  BY <1>1, StopInit, StopStepSafe, PTL DEF Spec

(***************************************************************************)
(* The order of the report.  ResultsInOrder speaks of the suites that are  *)
(* reported; it is inductive together with what the loop over the tests    *)
(* keeps of the suite it is in, and with the report being behind the loop. *)
(***************************************************************************)
SoFarInOrder ==
    /\ Ordered(testsResults)
    /\ \A k \in 1 .. Len(testsResults) :
         /\ testsResults[k].test < test
         /\ testsResults[k].verdict = "skipped" => timedOut \/ interrupt
    /\ pc \in InTest => ~timedOut /\ ~interrupt

OrderInv ==
    /\ ResultsInOrder
    /\ pc \in {"download", "info"} => lastResults = <<>>
    /\ pc \in InSuite \cup {"suite"} =>
         \A i \in 1 .. Len(lastResults) : lastResults[i].suite < suite
    /\ pc \in InSuite => SoFarInOrder

\* A result in order after the others keeps them in order.
LEMMA OrderedAppend ==
    ASSUME NEW results \in Seq(Results), NEW r \in Results, Ordered(results),
           \A k \in 1 .. Len(results) :
             /\ results[k].test < r.test
             /\ results[k].verdict = "skipped" => r.verdict = "skipped"
    PROVE  Ordered(Append(results, r))
<1>1. /\ Len(results) \in Nat
      /\ Len(Append(results, r)) = Len(results) + 1
      /\ \A i \in 1 .. Len(results) : Append(results, r)[i] = results[i]
      /\ Append(results, r)[Len(results) + 1] = r
  BY AppendProperties
<1> SUFFICES ASSUME NEW k \in 1 .. Len(results) + 1, NEW l \in 1 .. Len(results) + 1, k < l
             PROVE  /\ Append(results, r)[k].test < Append(results, r)[l].test
                    /\ Append(results, r)[k].verdict = "skipped"
                         => Append(results, r)[l].verdict = "skipped"
  BY <1>1 DEF Ordered
<1>2. k \in 1 .. Len(results)
  BY <1>1
<1>3. CASE l = Len(results) + 1
  BY <1>1, <1>2, <1>3
<1>4. CASE l \in 1 .. Len(results)
  BY <1>1, <1>2, <1>4 DEF Ordered
<1> QED
  BY <1>1, <1>3, <1>4

\* A step that changes none of the results keeps their order.
LEMMA OrderQuietStep ==
    ASSUME OrderInv,
           UNCHANGED <<lastResults, suite, test, testsResults, timedOut, interrupt>>,
           outcome' = outcome \/ (outcome = "none" /\ pc # "idle"),
           pc' \in {"download", "info"} => pc \in {"download", "info"},
           pc' \in InSuite => pc \in InSuite,
           pc' = "suite" => pc \in {"suite", "info"},
           pc' \in InTest => pc \in InTest \/ (~timedOut /\ ~interrupt)
    PROVE  OrderInv'
<1>1. ResultsInOrder'
  <2>1. \A i \in 1 .. Len(lastResults) : HasSkipped(i)' <=> HasSkipped(i)
    BY DEF HasSkipped
  <2> QED
    BY <2>1 DEF OrderInv, ResultsInOrder, Ordered
<1>2. pc \in {"download", "info"} => lastResults = <<>>
  BY DEF OrderInv
<1>3. pc' \in InSuite => SoFarInOrder'
  BY DEF OrderInv, SoFarInOrder, Ordered
<1> QED
  BY <1>1, <1>2, <1>3 DEF OrderInv

\* The loop goes on past a test that gets no result.
LEMMA OrderAdvance ==
    ASSUME TypeOK, OrderInv, pc \in InSuite, pc' = "next",
           UNCHANGED <<outcome, lastResults, suite, testsResults>>,
           timedOut \/ interrupt => timedOut' \/ interrupt', test' = test + 1
    PROVE  OrderInv'
<1>1. ResultsInOrder'
  <2>1. \A i \in 1 .. Len(lastResults) : HasSkipped(i)' <=> HasSkipped(i)
    BY DEF HasSkipped
  <2> QED
    BY <2>1 DEF OrderInv, ResultsInOrder, Ordered
<1>2. SoFarInOrder'
  <2>1. Ordered(testsResults)'
    BY DEF OrderInv, SoFarInOrder, Ordered
  <2>2. ASSUME NEW k \in 1 .. Len(testsResults)
        PROVE  /\ testsResults[k].test < test + 1
               /\ testsResults[k].verdict = "skipped" => timedOut' \/ interrupt'
    <3>1. testsResults[k] \in Results
      BY ElementOfSeq DEF TypeOK
    <3>2. testsResults[k].test \in Nat
      BY <3>1 DEF Results
    <3>3. testsResults[k].test < test + 1
      BY <3>2 DEF OrderInv, SoFarInOrder, TypeOK
    <3>4. testsResults[k].verdict = "skipped" => timedOut \/ interrupt
      BY DEF OrderInv, SoFarInOrder
    <3> QED
      BY <3>3, <3>4
  <2> QED
    BY <2>1, <2>2 DEF SoFarInOrder, InTest
<1> QED
  BY <1>1, <1>2 DEF OrderInv, InSuite, InTest

\* Nothing is reported initially.
LEMMA OrderInit == Init => OrderInv
  BY DEF Init, OrderInv, ResultsInOrder, InSuite, InTest

\* The loop appends the result of its own test.
LEMMA OrderRecordStep ==
    ASSUME AccountInv, OrderInv, NEW r \in Results, r.test = test,
           pc \in InSuite, pc' = "next",
           UNCHANGED <<outcome, lastResults, suite, interrupt>>,
           timedOut' \in {timedOut, TRUE},
           \/ r.verdict = "skipped" /\ (timedOut \/ interrupt)
           \/ r.verdict # "skipped" /\ pc \in InTest,
           testsResults' = Append(testsResults, r), test' = test + 1
    PROVE  OrderInv'
<1>0. testsResults \in Seq(Results) /\ test \in Nat /\ SoFarInOrder
      /\ timedOut \in BOOLEAN /\ interrupt \in BOOLEAN
  BY DEF AccountInv, TypeInv, TypeOK, OrderInv
<1>1. /\ Len(testsResults) \in Nat
      /\ Len(testsResults') = Len(testsResults) + 1
      /\ \A i \in 1 .. Len(testsResults) : testsResults'[i] = testsResults[i]
      /\ testsResults'[Len(testsResults) + 1] = r
  BY <1>0, AppendProperties
<1>a. timedOut \/ interrupt => timedOut' \/ interrupt
  OBVIOUS
<1>2. Ordered(testsResults)'
  <2>1. Ordered(testsResults')
    BY <1>0, OrderedAppend DEF SoFarInOrder
  <2> QED
    BY <2>1 DEF Ordered
<1>3. SoFarInOrder'
  <2> SUFFICES ASSUME NEW k \in 1 .. Len(testsResults) + 1
               PROVE  /\ testsResults'[k].test < test + 1
                      /\ testsResults'[k].verdict = "skipped" => timedOut' \/ interrupt
    BY <1>1, <1>2 DEF SoFarInOrder, InTest
  <2>1. CASE k \in 1 .. Len(testsResults)
    <3>a. testsResults[k] \in Results
      BY <1>0, <2>1, ElementOfSeq
    <3>1. testsResults[k].test \in Nat
      BY <3>a DEF Results
    <3>2. testsResults[k].test < test + 1
      BY <1>0, <2>1, <3>1 DEF SoFarInOrder
    <3>3. testsResults[k].verdict = "skipped" => timedOut \/ interrupt
      BY <1>0, <2>1 DEF SoFarInOrder
    <3> QED
      BY <1>1, <1>a, <2>1, <3>2, <3>3
  <2>2. CASE k = Len(testsResults) + 1
    <3>1. r.test < test + 1
      BY <1>0
    <3>2. r.verdict = "skipped" => timedOut \/ interrupt
      OBVIOUS
    <3> QED
      BY <1>1, <1>a, <2>2, <3>1, <3>2
  <2> QED
    BY <1>1, <2>1, <2>2
<1>4. ResultsInOrder'
  <2>1. \A i \in 1 .. Len(lastResults) : HasSkipped(i)' <=> HasSkipped(i)
    BY DEF HasSkipped
  <2> QED
    BY <2>1 DEF OrderInv, ResultsInOrder, Ordered
<1> QED
  BY <1>3, <1>4 DEF OrderInv, InSuite, InTest

\* The suite of the loop is reported after the others.
LEMMA OrderCollectStep ==
    ASSUME AccountInv, OrderInv, CollectSuite
    PROVE  OrderInv'
<1> DEFINE last == Len(lastResults) + 1
           new == [suite |-> suite, tests |-> testsResults]
<1>0. /\ lastResults \in Seq(SuiteResults) /\ testsResults \in Seq(Results)
      /\ pc = "collect" /\ outcome = "none" /\ suite \in Nat /\ suite \in Suites
  BY DEF CollectSuite, Collected, AccountInv, TypeInv, TypeOK, Positions, InSuite
<1>1. /\ Len(lastResults) \in Nat
      /\ Len(lastResults') = last
      /\ \A i \in 1 .. Len(lastResults) : lastResults'[i] = lastResults[i]
      /\ lastResults'[last] = new
  <2>1. new \in SuiteResults
    BY <1>0 DEF SuiteResults
  <2> QED
    BY <1>0, <2>1, AppendProperties DEF CollectSuite, Collected
<1>2. /\ Ordered(testsResults) /\ ResultsInOrder
      /\ \A i \in 1 .. Len(lastResults) : lastResults[i].suite < suite
      /\ \A i \in 1 .. Len(lastResults) : ~HasSkipped(i)
      /\ \A k \in 1 .. Len(testsResults) :
           testsResults[k].verdict = "skipped" => timedOut \/ interrupt
  BY <1>0 DEF OrderInv, SoFarInOrder, ResultsInOrder, InSuite
<1>3. \/ pc' = "idle" /\ outcome' \in {"timeout", "interrupt"} /\ suite' = suite
      \/ /\ pc' = "suite" /\ suite' = suite + 1 /\ outcome' = "none"
         /\ ~timedOut /\ ~interrupt
  BY <1>0 DEF CollectSuite, Collected, SuiteEnd, Leave, SutRaises
<1>4. \A i, j \in 1 .. last : i < j => lastResults'[i].suite < lastResults'[j].suite
  <2> SUFFICES ASSUME NEW i \in 1 .. last, NEW j \in 1 .. last, i < j
               PROVE  lastResults'[i].suite < lastResults'[j].suite
    OBVIOUS
  <2>1. i \in 1 .. Len(lastResults)
    BY <1>1
  <2>2. CASE j = last
    BY <1>1, <1>2, <2>1, <2>2
  <2>3. CASE j \in 1 .. Len(lastResults)
    BY <1>1, <1>2, <2>1, <2>3 DEF ResultsInOrder
  <2> QED
    BY <1>1, <2>2, <2>3
<1>5. \A i \in 1 .. last : Ordered(lastResults'[i].tests)
  <2> SUFFICES ASSUME NEW i \in 1 .. last PROVE Ordered(lastResults'[i].tests)
    OBVIOUS
  <2>1. CASE i = last
    BY <1>1, <1>2, <2>1
  <2>2. CASE i \in 1 .. Len(lastResults)
    BY <1>1, <1>2, <2>2 DEF ResultsInOrder
  <2> QED
    BY <1>1, <2>1, <2>2
<1>6. ASSUME NEW i \in 1 .. last, HasSkipped(i)'
      PROVE  i = last /\ outcome' \in {"timeout", "interrupt"}
  <2>1. CASE i \in 1 .. Len(lastResults)
    BY <1>1, <1>2, <1>6, <2>1 DEF HasSkipped
  <2>2. CASE i = last
    <3>1. \E k \in 1 .. Len(testsResults) : testsResults[k].verdict = "skipped"
      BY <1>1, <1>6, <2>2 DEF HasSkipped
    <3>2. timedOut \/ interrupt
      BY <1>2, <3>1
    <3> QED
      BY <1>3, <2>2, <3>2
  <2> QED
    BY <1>1, <2>1, <2>2
<1>7. ResultsInOrder'
  BY <1>1, <1>4, <1>5, <1>6 DEF ResultsInOrder, Ordered
<1>8. pc' = "suite" => \A i \in 1 .. last : lastResults'[i].suite < suite'
  <2> SUFFICES ASSUME pc' = "suite", NEW i \in 1 .. last PROVE lastResults'[i].suite < suite + 1
    BY <1>3
  <2>1. CASE i = last
    BY <1>0, <1>1, <2>1
  <2>2. CASE i \in 1 .. Len(lastResults)
    <3>a. lastResults[i] \in SuiteResults
      BY <1>0, <2>2, ElementOfSeq
    <3>1. lastResults[i].suite \in Nat
      BY <3>a DEF SuiteResults, Suites
    <3> QED
      BY <1>0, <1>1, <1>2, <2>2, <3>1
  <2> QED
    BY <1>1, <2>1, <2>2
<1> QED
  BY <1>1, <1>3, <1>7, <1>8 DEF OrderInv, InSuite, InTest

\* Leaving the run adds no result.
LEMMA OrderLeaveStep ==
    ASSUME OrderInv, pc # "idle", outcome = "none", pc' = "idle", lastResults' = lastResults
    PROVE  OrderInv'
<1>1. \A i \in 1 .. Len(lastResults) : HasSkipped(i)' <=> HasSkipped(i)
  BY DEF HasSkipped
<1>2. \A i \in 1 .. Len(lastResults) : ~HasSkipped(i)
  BY DEF OrderInv, ResultsInOrder
<1>3. ResultsInOrder'
  BY <1>1, <1>2 DEF OrderInv, ResultsInOrder, Ordered
<1> QED
  BY <1>3 DEF OrderInv, InSuite, InTest

\* Every step preserves the order.
LEMMA OrderStep == AccountInv /\ OrderInv /\ [Step]_vars => OrderInv'
<1> SUFFICES ASSUME AccountInv, OrderInv, [Step]_vars PROVE OrderInv'
  OBVIOUS
<1>0. /\ TypeOK /\ (pc # "idle" => outcome = "none")
      /\ (pc \in InTest => ~timedOut /\ ~interrupt)
  BY DEF AccountInv, TypeInv, OrderInv, SoFarInOrder, InSuite
<1>1. ASSUME NEW skipped \in SkipSets, ExecSuites(skipped) PROVE OrderInv'
  BY <1>1 DEF ExecSuites, OrderInv, ResultsInOrder, InSuite, InTest
<1>2. CASE DownloadSuites \/ GetInfo
  <2>1. ResultsInOrder' /\ lastResults' = <<>> /\ pc' \in {"info", "suite", "idle"}
    BY <1>2 DEF DownloadSuites, GetInfo, Leave, SutRaises, OrderInv, ResultsInOrder
  <2> QED
    BY <2>1 DEF OrderInv, InSuite, InTest
<1>3. CASE Return \/ SutFails
  BY <1>0, <1>3, OrderLeaveStep DEF Return, SutFails, Leave, SutRaises, InTest
<1>4. CASE StartSuite
  <2>1. UNCHANGED <<lastResults, outcome, suite>> /\ pc = "suite" /\ pc' = "next"
        /\ testsResults' = <<>>
    BY <1>4 DEF StartSuite, runVars
  <2>2. ResultsInOrder'
    <3>1. \A i \in 1 .. Len(lastResults) : HasSkipped(i)' <=> HasSkipped(i)
      BY <2>1 DEF HasSkipped
    <3> QED
      BY <2>1, <3>1 DEF OrderInv, ResultsInOrder, Ordered
  <2>3. SoFarInOrder'
    BY <2>1 DEF SoFarInOrder, Ordered, InTest
  <2> QED
    BY <2>1, <2>2, <2>3 DEF OrderInv
<1>5. CASE LeaveLoop \/ StartTest
  BY <1>5, OrderQuietStep DEF LeaveLoop, StartTest, NoTestLeft, runVars, loopVars,
    InSuite, InTest
<1>6. CASE SkipRemaining
  <2>1. [test |-> test, verdict |-> "skipped"] \in Results
    BY <1>0 DEF Results, Verdicts, TypeOK
  <2>2. UNCHANGED <<outcome, lastResults, suite, interrupt>> /\ timedOut' = timedOut
    BY <1>6 DEF SkipRemaining, runVars
  <2> QED
    BY <1>6, <2>1, <2>2, OrderRecordStep DEF SkipRemaining, InSuite
<1>7. CASE TaintBefore \/ RunCommand \/ CommandTimeout \/ KernelPanic
  BY <1>0, <1>7, OrderQuietStep DEF TaintBefore, RunCommand, CommandTimeout, KernelPanic,
    runVars, loopVars, InSuite, InTest
<1>8. CASE Ping \/ TaintAfter \/ TestCompleted
  BY <1>0, <1>8, OrderQuietStep DEF Ping, TaintAfter, TestCompleted, RebootDue,
    runVars, loopVars, InSuite, InTest
<1>9. CASE AppendResult
  <2>1. [test |-> test, verdict |-> verdict] \in Results /\ verdict # "skipped"
    BY <1>0 DEF Results, Verdicts, TypeOK
  <2>2. UNCHANGED <<outcome, lastResults, suite, interrupt>>
    BY <1>9 DEF AppendResult, runVars
  <2> QED
    BY <1>9, <2>1, <2>2, OrderRecordStep DEF AppendResult, ReadClock, InSuite, InTest
<1>10. CASE CollectSuite
  BY <1>10, OrderCollectStep
<1>11. CASE IgnoreTest
  <2>1. UNCHANGED <<outcome, lastResults, suite, testsResults>>
        /\ pc \in InSuite /\ pc' = "next" /\ test' = test + 1
        /\ (timedOut \/ interrupt => timedOut' \/ interrupt')
    BY <1>11 DEF IgnoreTest, runVars, InSuite
  <2> QED
    BY <1>0, <2>1, OrderAdvance
<1>12. CASE ForceStopSut \/ BootSut
  <2>1. CASE pc' = "idle"
    BY <1>0, <1>12, <2>1, OrderLeaveStep DEF ForceStopSut, BootSut
  <2>2. CASE pc' # "idle"
    <3>1. /\ UNCHANGED <<lastResults, suite, test, testsResults, timedOut, interrupt, outcome>>
          /\ pc \in InTest /\ pc' \in InTest
      BY <1>12, <2>2 DEF ForceStopSut, BootSut, Leave, SutRaises, loopVars, InTest
    <3> QED
      BY <3>1, OrderQuietStep DEF InSuite, InTest
  <2> QED
    BY <2>1, <2>2
<1>13. CASE DropEmptySuite
  <2>1. UNCHANGED <<outcome, lastResults>> /\ pc = "collect" /\ pc' = "suite"
        /\ suite' = suite + 1 /\ suite \in Nat
    BY <1>0, <1>13 DEF DropEmptySuite, runVars, TypeOK
  <2>2. ResultsInOrder'
    <3>1. \A i \in 1 .. Len(lastResults) : HasSkipped(i)' <=> HasSkipped(i)
      BY <2>1 DEF HasSkipped
    <3> QED
      BY <2>1, <3>1 DEF OrderInv, ResultsInOrder, Ordered
  <2>3. ASSUME NEW i \in 1 .. Len(lastResults) PROVE lastResults[i].suite < suite + 1
    <3>1. lastResults[i] \in SuiteResults
      BY <1>0, ElementOfSeq DEF TypeOK
    <3>2. lastResults[i].suite \in Nat
      BY <3>1 DEF SuiteResults, Suites
    <3> QED
      BY <2>1, <3>2 DEF OrderInv, InSuite
  <2> QED
    BY <2>1, <2>2, <2>3 DEF OrderInv, InSuite, InTest
<1>14. CASE Sigint
  <2>1. CASE PostponeSigint
    <3>1. UNCHANGED <<outcome, lastResults, suite, testsResults>>
          /\ pc \in InSuite /\ pc' = "next" /\ test' = test + 1
          /\ (timedOut \/ interrupt => timedOut' \/ interrupt')
      BY <2>1 DEF PostponeSigint, runVars, InSuite
    <3> QED
      BY <1>0, <3>1, OrderAdvance
  <2>2. CASE RaiseSigint
    BY <1>0, <2>2, OrderLeaveStep DEF RaiseSigint, Leave, SutRaises
  <2> QED
    BY <1>14, <2>1, <2>2 DEF Sigint
<1>15. CASE UNCHANGED vars
  BY <1>15, <1>0, OrderQuietStep DEF vars, runVars, loopVars
<1>16. ASSUME NEW x \in Stoppers, StopCall(x) \/ StopStep(x) PROVE OrderInv'
  <2>1. UNCHANGED runner
    BY <1>16 DEF StopCall, StopStep, StopSet, StopPoll, StopSleep, StopClear, runner
  <2> QED
    BY <1>0, <2>1, OrderQuietStep DEF runner, runVars, loopVars
<1> QED
  BY <1>1, <1>2, <1>3, <1>4, <1>5, <1>6, <1>7, <1>8, <1>9, <1>10, <1>11,
    <1>12, <1>13, <1>14, <1>15, <1>16
  DEF Step, Runner, RunSuite, RunTest

\* The report is in the order of the runtest files and reports nothing twice,
\* and skipped results end the run: for every list of suites, every schedule of
\* stoppers, signals, timeouts and reboots.
THEOREM ReportInOrder == Spec => []ResultsInOrder
<1>1. Spec => []AccountInv
  BY AccountInit, AccountStep, NextIsStep, PTL DEF Spec
<1>2. Spec => []OrderInv
  BY <1>1, OrderInit, OrderStep, NextIsStep, PTL DEF Spec
<1>3. OrderInv => ResultsInOrder
  BY DEF OrderInv
<1> QED
  BY <1>2, <1>3, PTL

(***************************************************************************)
(* The report against the events.  A test is announced in the middle of    *)
(* its step of the loop, so between test_completed and the result being    *)
(* kept it is announced and has none; every other announced test is        *)
(* behind the loop.                                                        *)
(***************************************************************************)
Shown == {"reboot", "boot", "append"}

Behind(c) ==
    \/ c[1] < suite
    \/ pc \in InSuite /\ c[1] = suite /\ (c[2] < test \/ (pc \in Shown /\ c[2] = test))

Matches(s, r) == r.verdict # "skipped" <=> <<s, r.test>> \in completed

Keeping(c) ==
    \/ HasResult(c[1], c[2])
    \/ pc \in InSuite /\ c[1] = suite /\ c[2] \in Tested(testsResults)
    \/ pc \in Shown /\ c = <<suite, test>>

EventInv ==
    /\ \A i \in 1 .. Len(lastResults) : \A k \in 1 .. Len(lastResults[i].tests) :
         Matches(lastResults[i].suite, lastResults[i].tests[k])
    /\ pc \in InSuite => \A k \in 1 .. Len(testsResults) : Matches(suite, testsResults[k])
    /\ pc # "idle" => \A c \in completed : Behind(c)
    /\ pc \in Shown => <<suite, test>> \in completed
    /\ sigints = 0 /\ (pc # "idle" \/ outcome \in {"ok", "timeout"}) =>
         \A c \in completed : Keeping(c)

\* A test is a pair of positions.
LEMMA TestsArePairs == \A c \in AllTests : c[1] \in Nat /\ c[2] \in Nat
<1> SUFFICES ASSUME NEW c \in AllTests PROVE c[1] \in Nat /\ c[2] \in Nat
  OBVIOUS
<1>1. PICK s \in Suites : c \in TestsOf(s)
  BY DEF AllTests
<1>2. PICK t \in 1 .. SuiteSize[s] : c = <<s, t>>
  BY <1>1 DEF TestsOf
<1>3. SuiteSize[s] \in Nat /\ Len(SuiteSize) \in Nat
  BY SuitesAssumption, TestInAllTests
<1> QED
  BY <1>2, <1>3 DEF Suites

\* Nothing is announced initially.
LEMMA EventInit == Init => EventInv
  BY DEF Init, EventInv, InSuite, InTest, Shown

\* A step that changes neither the results nor what was announced.
LEMMA EventQuietStep ==
    ASSUME EventInv,
           UNCHANGED <<completed, lastResults, suite, test, testsResults>>,
           sigints' = 0 => sigints = 0,
           pc' # "idle" => pc # "idle" /\ (pc' \in InSuite <=> pc \in InSuite)
                             /\ (pc' \in Shown <=> pc \in Shown),
           pc' = "idle" /\ outcome' \in {"ok", "timeout"} =>
             pc \notin InSuite /\ (pc # "idle" \/ outcome' = outcome)
    PROVE  EventInv'
<1> USE DEF EventInv
<1>1. pc' \in InSuite \cup Shown => pc' # "idle"
  BY DEF InSuite, InTest, Shown
<1>2. pc' # "idle" => \A c \in completed' : Behind(c)'
  BY DEF Behind
<1>3. ASSUME sigints' = 0, pc' # "idle" \/ outcome' \in {"ok", "timeout"},
             NEW c \in completed'
      PROVE  Keeping(c)'
  <2>1. Keeping(c)
    BY <1>3
  <2>2. HasResult(c[1], c[2])' <=> HasResult(c[1], c[2])
    BY DEF HasResult, Tested
  <2>3. Tested(testsResults)' = Tested(testsResults)
    BY DEF Tested
  <2> QED
    BY <1>3, <2>1, <2>2, <2>3 DEF Keeping, Shown, InSuite, InTest
<1>4. pc' \in Shown => <<suite', test'>> \in completed'
  BY <1>1
<1>5. (pc \in InSuite => \A k \in 1 .. Len(testsResults) : Matches(suite, testsResults[k]))'
  BY <1>1 DEF Matches
<1>6. (\A i \in 1 .. Len(lastResults) : \A k \in 1 .. Len(lastResults[i].tests) :
         Matches(lastResults[i].suite, lastResults[i].tests[k]))'
  BY DEF Matches
<1> QED
  BY <1>2, <1>3, <1>4, <1>5, <1>6

\* A result that is kept matches what was announced of its test.
LEMMA EventRecordStep ==
    ASSUME TypeOK, EventInv, NEW r \in Results, r.test = test,
           pc \in InSuite, pc' = "next", Matches(suite, r),
           UNCHANGED <<outcome, lastResults, suite, completed, sigints>>,
           testsResults' = Append(testsResults, r), test' = test + 1
    PROVE  EventInv'
<1>0. pc # "idle" /\ pc' # "idle" /\ pc' \notin Shown /\ pc' \in InSuite /\ test \in Nat
  BY DEF InSuite, InTest, Shown, TypeOK
<1>1. /\ Len(testsResults) \in Nat
      /\ Len(testsResults') = Len(testsResults) + 1
      /\ \A i \in 1 .. Len(testsResults) : testsResults'[i] = testsResults[i]
      /\ testsResults'[Len(testsResults) + 1] = r
  BY AppendProperties DEF TypeOK
<1>2. ASSUME NEW c \in completed PROVE Behind(c)'
  <2>1. c[1] \in Nat /\ c[2] \in Nat /\ suite \in Nat
    BY TestsArePairs DEF TypeOK
  <2>2. Behind(c)
    BY <1>0 DEF EventInv
  <2> QED
    BY <1>0, <2>1, <2>2 DEF Behind
<1>3. (\A k \in 1 .. Len(testsResults) : Matches(suite, testsResults[k]))'
  <2> SUFFICES ASSUME NEW k \in 1 .. Len(testsResults) + 1
               PROVE  testsResults'[k].verdict # "skipped" <=>
                        <<suite, testsResults'[k].test>> \in completed
    BY <1>1 DEF Matches
  <2>1. CASE k \in 1 .. Len(testsResults)
    BY <1>1, <2>1 DEF EventInv, Matches
  <2>2. CASE k = Len(testsResults) + 1
    BY <1>1, <2>2 DEF Matches
  <2> QED
    BY <1>1, <2>1, <2>2
<1>4. ASSUME sigints = 0, NEW c \in completed PROVE Keeping(c)'
  <2>1. Keeping(c)
    BY <1>0, <1>4 DEF EventInv
  <2>2. HasResult(c[1], c[2])' <=> HasResult(c[1], c[2])
    BY DEF HasResult, Tested
  <2>3. Tested(testsResults)' = Tested(testsResults) \cup {test}
    <3>1. Tested(testsResults') = Tested(testsResults) \cup {test}
      BY TestedAppend DEF TypeOK
    <3> QED
      BY <3>1 DEF Tested
  <2> QED
    BY <1>0, <2>1, <2>2, <2>3 DEF Keeping
<1>5. (\A i \in 1 .. Len(lastResults) : \A k \in 1 .. Len(lastResults[i].tests) :
         Matches(lastResults[i].suite, lastResults[i].tests[k]))'
  BY DEF Matches, EventInv
<1> QED
  BY <1>0, <1>2, <1>3, <1>4, <1>5 DEF EventInv

\* The suite is reported with what was announced of it.
LEMMA EventCollectStep ==
    ASSUME TypeInv, EventInv, CollectSuite
    PROVE  EventInv'
<1> DEFINE last == Len(lastResults) + 1
           new == [suite |-> suite, tests |-> testsResults]
<1>0. /\ pc = "collect" /\ suite \in Nat /\ suite \in Suites
      /\ UNCHANGED <<testsResults, completed, sigints>>
      /\ pc' \notin InSuite \cup Shown
      /\ pc' # "idle" => suite' = suite + 1
  BY DEF CollectSuite, Collected, SuiteEnd, Leave, SutRaises, TypeInv, TypeOK, Positions, InSuite, InTest,
    Shown, history
<1>1. /\ Len(lastResults) \in Nat
      /\ Len(lastResults') = last
      /\ \A i \in 1 .. Len(lastResults) : lastResults'[i] = lastResults[i]
      /\ lastResults'[last] = new
  <2>1. new \in SuiteResults
    BY <1>0 DEF SuiteResults, TypeInv, TypeOK
  <2> QED
    BY <1>0, <2>1, AppendProperties DEF CollectSuite, Collected, TypeInv, TypeOK
<1>2. (\A i \in 1 .. Len(lastResults) : \A k \in 1 .. Len(lastResults[i].tests) :
         Matches(lastResults[i].suite, lastResults[i].tests[k]))'
  <2> SUFFICES ASSUME NEW i \in 1 .. last, NEW k \in 1 .. Len(lastResults'[i].tests)
               PROVE  lastResults'[i].tests[k].verdict # "skipped" <=>
                        <<lastResults'[i].suite, lastResults'[i].tests[k].test>> \in completed
    BY <1>0, <1>1 DEF Matches
  <2>1. CASE i \in 1 .. Len(lastResults)
    BY <1>1, <2>1 DEF EventInv, Matches
  <2>2. CASE i = last
    BY <1>0, <1>1, <2>2 DEF EventInv, Matches, InSuite
  <2> QED
    BY <1>1, <2>1, <2>2
<1>3. ASSUME pc' # "idle", NEW c \in completed PROVE Behind(c)'
  <2>1. c[1] \in Nat /\ c[2] \in Nat
    BY TestsArePairs DEF TypeInv, TypeOK
  <2>2. Behind(c)
    BY <1>0 DEF EventInv
  <2> QED
    BY <1>0, <1>3, <2>1, <2>2 DEF Behind
<1>4. ASSUME sigints = 0, NEW c \in completed PROVE Keeping(c)'
  <2>1. Keeping(c)
    BY <1>0, <1>4 DEF EventInv
  <2>2. CASE HasResult(c[1], c[2])
    <3>1. PICK i \in 1 .. Len(lastResults) :
            lastResults[i].suite = c[1] /\ c[2] \in Tested(lastResults[i].tests)
      BY <2>2 DEF HasResult
    <3>2. i \in 1 .. Len(lastResults') /\ lastResults'[i] = lastResults[i]
      BY <1>1, <3>1
    <3> QED
      BY <3>1, <3>2 DEF Keeping, HasResult, Tested
  <2>3. CASE c[1] = suite /\ c[2] \in Tested(testsResults)
    <3>1. last \in 1 .. Len(lastResults') /\ lastResults'[last].suite = suite
          /\ lastResults'[last].tests = testsResults
      BY <1>1
    <3> QED
      BY <2>3, <3>1 DEF Keeping, HasResult, Tested
  <2> QED
    BY <1>0, <2>1, <2>2, <2>3 DEF Keeping, Shown
<1> QED
  BY <1>0, <1>2, <1>3, <1>4 DEF EventInv

\* Every step preserves the agreement.
LEMMA EventStep == TypeInv /\ OrderInv /\ EventInv /\ [Step]_vars => EventInv'
<1> SUFFICES ASSUME TypeInv, OrderInv, EventInv, [Step]_vars PROVE EventInv'
  OBVIOUS
<1>0. /\ TypeOK
      /\ suite \in Nat /\ test \in Nat /\ sigints \in Nat
      /\ completed \subseteq AllTests
      /\ \A c \in completed : c[1] \in Nat /\ c[2] \in Nat
  BY TestsArePairs DEF TypeInv, TypeOK
<1>1. ASSUME NEW skipped \in SkipSets, ExecSuites(skipped) PROVE EventInv'
  BY <1>1 DEF ExecSuites, EventInv, InSuite, InTest, Shown
<1>2. CASE DownloadSuites \/ GetInfo \/ Return
  BY <1>2, EventQuietStep DEF DownloadSuites, GetInfo, Return, Leave, SutRaises, loopVars, history,
    InSuite, InTest, Shown
<1>3. CASE StartSuite
  <2>1. /\ UNCHANGED <<lastResults, outcome, suite, completed, sigints>>
        /\ pc = "suite" /\ pc' = "next" /\ testsResults' = <<>>
    BY <1>3 DEF StartSuite, runVars, history
  <2>2. \A c \in completed : Behind(c)'
    BY <2>1 DEF EventInv, Behind, InSuite, InTest
  <2>3. sigints = 0 => \A c \in completed : Keeping(c)'
    BY <2>1 DEF EventInv, Keeping, HasResult, Tested, InSuite, InTest, Shown
  <2> QED
    BY <2>1, <2>2, <2>3 DEF EventInv, Matches, Shown
<1>4. CASE LeaveLoop \/ StartTest \/ TaintBefore \/ RunCommand \/ CommandTimeout \/ KernelPanic
  BY <1>4, EventQuietStep DEF LeaveLoop, StartTest, NoTestLeft, TaintBefore, RunCommand,
    CommandTimeout, KernelPanic, runVars, loopVars, history, InSuite, InTest, Shown
<1>5. CASE SkipRemaining
  <2>1. [test |-> test, verdict |-> "skipped"] \in Results
    BY <1>0 DEF Results, Verdicts
  <2>2. <<suite, test>> \notin completed
    BY <1>0, <1>5 DEF SkipRemaining, EventInv, Behind, Shown
  <2>3. /\ UNCHANGED <<outcome, lastResults, suite, completed, sigints>>
        /\ pc \in InSuite /\ pc' = "next" /\ test' = test + 1
    BY <1>5 DEF SkipRemaining, runVars, history, InSuite
  <2> QED
    BY <1>0, <1>5, <2>1, <2>2, <2>3, EventRecordStep DEF SkipRemaining, Matches
<1>6. CASE IgnoreTest
  <2>1. /\ UNCHANGED <<outcome, lastResults, suite, testsResults, completed, sigints>>
        /\ pc = "next" /\ pc' = "next" /\ test' = test + 1
    BY <1>6 DEF IgnoreTest, runVars, history
  <2> QED
    BY <1>0, <2>1 DEF EventInv, Behind, Matches, Keeping, HasResult, Tested,
      InSuite, InTest, Shown
<1>7. CASE SutFails
  BY <1>7, EventQuietStep DEF SutFails, Leave, SutRaises, loopVars, history, InSuite, InTest, Shown
<1>8. CASE Ping \/ TaintAfter
  BY <1>8, EventQuietStep DEF Ping, TaintAfter, runVars, loopVars, history,
    InSuite, InTest, Shown
<1>9. CASE TestCompleted
  <2>1. /\ UNCHANGED <<outcome, lastResults, suite, test, testsResults, sigints>>
        /\ completed' = completed \cup {<<suite, test>>}
        /\ pc = "report" /\ pc' \in {"reboot", "append"}
    BY <1>9 DEF TestCompleted, RebootDue, runVars, loopVars
  <2>2. ASSUME NEW i \in 1 .. Len(lastResults), NEW k \in 1 .. Len(lastResults[i].tests)
        PROVE  Matches(lastResults[i].suite, lastResults[i].tests[k])'
    <3>1. lastResults[i].suite < suite /\ lastResults[i].suite \in Nat
      <4>1. lastResults[i] \in SuiteResults
        BY <1>0, ElementOfSeq DEF TypeOK
      <4> QED
        BY <2>1, <4>1 DEF OrderInv, InSuite, InTest, SuiteResults, Suites
    <3> QED
      BY <1>0, <2>1, <3>1 DEF EventInv, Matches
  <2>3. ASSUME NEW k \in 1 .. Len(testsResults) PROVE Matches(suite, testsResults[k])'
    <3>1. testsResults[k].test < test
      BY <2>1 DEF OrderInv, SoFarInOrder, InSuite, InTest
    <3> QED
      BY <1>0, <2>1, <3>1 DEF EventInv, Matches, InSuite, InTest
  <2>4. ASSUME NEW c \in completed' PROVE Behind(c)'
    BY <1>0, <2>1, <2>4 DEF EventInv, Behind, InSuite, InTest, Shown
  <2>5. ASSUME sigints = 0, NEW c \in completed' PROVE Keeping(c)'
    <3>1. CASE c = <<suite, test>>
      BY <2>1, <3>1 DEF Keeping, Shown
    <3>2. CASE c \in completed
      BY <2>1, <2>5, <3>2 DEF EventInv, Keeping, HasResult, Tested, InSuite, InTest, Shown
    <3> QED
      BY <2>1, <3>1, <3>2
  <2> QED
    BY <2>1, <2>2, <2>3, <2>4, <2>5 DEF EventInv
<1>10. CASE ForceStopSut \/ BootSut
  <2>1. /\ UNCHANGED <<lastResults, suite, test, testsResults, completed, sigints>>
        /\ pc \in InSuite \cap Shown
        /\ \/ pc' = "idle" /\ outcome' \in {"ltp", "other"}
           \/ pc' \in InSuite \cap Shown
    <3>1. /\ UNCHANGED <<lastResults, suite, test, testsResults, completed, sigints>>
          /\ pc \in {"reboot", "boot"}
      BY <1>10 DEF ForceStopSut, BootSut, loopVars, history
    <3>2. \/ pc' = "idle" /\ outcome' \in {"ltp", "other"}
          \/ pc' \in {"boot", "append"}
      BY <1>10 DEF ForceStopSut, BootSut, Leave, SutRaises
    <3> QED
      BY <3>1, <3>2 DEF InSuite, InTest, Shown
  <2> QED
    BY <2>1, EventQuietStep DEF InSuite, InTest, Shown
<1>11. CASE AppendResult
  <2>1. [test |-> test, verdict |-> verdict] \in Results /\ verdict # "skipped"
    BY <1>0 DEF Results, Verdicts, TypeOK
  <2>2. <<suite, test>> \in completed
    BY <1>11 DEF AppendResult, EventInv, Shown
  <2>3. /\ UNCHANGED <<outcome, lastResults, suite, completed, sigints>>
        /\ pc \in InSuite /\ pc' = "next" /\ test' = test + 1
    BY <1>11 DEF AppendResult, runVars, history, InSuite, InTest
  <2> QED
    BY <1>0, <1>11, <2>1, <2>2, <2>3, EventRecordStep DEF AppendResult, Matches
<1>12. CASE DropEmptySuite
  <2>1. /\ UNCHANGED <<outcome, lastResults, completed, sigints>>
        /\ pc = "collect" /\ pc' = "suite" /\ suite' = suite + 1
        /\ testsResults = <<>>
    BY <1>12 DEF DropEmptySuite, runVars, history
  <2>2. Tested(testsResults) = {}
    BY <2>1 DEF Tested
  <2>3. \A c \in completed : Behind(c)'
    BY <1>0, <2>1 DEF EventInv, Behind, Shown
  <2>4. sigints = 0 => \A c \in completed : Keeping(c)'
    BY <2>1, <2>2 DEF EventInv, Keeping, HasResult, Tested, Shown
  <2> QED
    BY <2>1, <2>3, <2>4 DEF EventInv, Matches, InSuite, InTest, Shown
<1>13. CASE CollectSuite
  BY <1>13, EventCollectStep
<1>14. CASE Sigint
  <2>1. sigints' # 0
    BY <1>0, <1>14 DEF Sigint
  <2>2. CASE PostponeSigint
    <3>1. /\ UNCHANGED <<outcome, lastResults, suite, testsResults, completed>>
          /\ pc \in InSuite /\ pc' = "next" /\ test' = test + 1
      BY <2>2 DEF PostponeSigint, runVars, InSuite
    <3>2. \A c \in completed : Behind(c)'
      BY <1>0, <3>1 DEF EventInv, Behind, InSuite, InTest
    <3> QED
      BY <2>1, <3>1, <3>2 DEF EventInv, Matches, Shown
  <2>3. CASE RaiseSigint
    BY <2>1, <2>3 DEF RaiseSigint, Leave, SutRaises, loopVars, history, EventInv, Matches,
      InSuite, InTest, Shown
  <2> QED
    BY <1>14, <2>2, <2>3 DEF Sigint
<1>15. CASE UNCHANGED vars
  BY <1>15, EventQuietStep DEF vars, runVars, loopVars, history, InSuite, InTest
<1>16. ASSUME NEW x \in Stoppers, StopCall(x) \/ StopStep(x) PROVE EventInv'
  <2>1. UNCHANGED runner
    BY <1>16 DEF StopCall, StopStep, StopSet, StopPoll, StopSleep, StopClear, runner
  <2> QED
    BY <2>1, EventQuietStep DEF runner, runVars, loopVars, history, InSuite, InTest
<1> QED
  BY <1>1, <1>2, <1>3, <1>4, <1>5, <1>6, <1>7, <1>8, <1>9, <1>10, <1>11,
    <1>12, <1>13, <1>14, <1>15, <1>16
  DEF Step, Runner, RunSuite, RunTest

\* What the report says is what the user was shown, for every list of suites and
\* every schedule: a result was announced unless it is "skipped", and without
\* SIGINT nothing that was announced is missing from the report.
THEOREM ReportAgrees == Spec => []ReportMatchesEvents
<1>1. Spec => []AccountInv
  BY AccountInit, AccountStep, NextIsStep, PTL DEF Spec
<1>2. Spec => []OrderInv
  BY <1>1, OrderInit, OrderStep, NextIsStep, PTL DEF Spec
<1>3. AccountInv => TypeInv
  BY DEF AccountInv
<1>4. Spec => []EventInv
  BY <1>1, <1>2, <1>3, EventInit, EventStep, NextIsStep, PTL DEF Spec
<1>5. AccountInv /\ EventInv => ReportMatchesEvents
  BY DEF AccountInv, EventInv, ReportMatchesEvents, Matches, Keeping, InSuite, InTest, Shown
<1> QED
  BY <1>1, <1>4, <1>5, PTL
=============================================================================
