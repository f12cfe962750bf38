------------------------------ MODULE RunltpProofs ------------------------------
(* Theorems about Runltp, for every number of runs, of runs under way at the     *)
(* same time, of directories kept, and all the bounds.                           *)
EXTENDS Runltp, TLAPS, FiniteSetTheorems, SequenceTheorems

(***************************************************************************)
(* The paths to be removed.                                                *)
(***************************************************************************)

LEMMA RunsFinite == IsFiniteSet(Runs)
<1>1. MaxRuns \in Int
  BY RunltpAssumption
<1> QED
  BY <1>1, FS_Interval DEF Runs

\* Leaving the link out of an order leaves the other paths, in their order.
LEMMA WithoutLinkEffect ==
    ASSUME NEW S, NEW order \in Seq(S), IsInjective(order)
    PROVE  /\ WithoutLink(order) \in Seq(S \ {Link})
           /\ IsInjective(WithoutLink(order))
           /\ Range(WithoutLink(order)) = Range(order) \ {Link}
<1> DEFINE at == {i \in DOMAIN order : order[i] = Link}
<1>0. Len(order) \in Nat /\ DOMAIN order = 1 .. Len(order)
  OBVIOUS
<1>1. CASE at = {}
  <2>1. WithoutLink(order) = order
    BY <1>1 DEF WithoutLink
  <2>2. \A i \in 1 .. Len(order) : order[i] \in S \ {Link}
    BY <1>0, <1>1
  <2>3. order \in Seq(S \ {Link})
    BY <1>0, <2>2
  <2> QED
    BY <1>0, <2>1, <2>2, <2>3 DEF Range
<1>2. CASE at # {}
  <2> DEFINE k == CHOOSE i \in at : TRUE
             rest == [i \in 1 .. Len(order) - 1 |-> IF i < k THEN order[i] ELSE order[i + 1]]
  <2>1. k \in 1 .. Len(order) /\ order[k] = Link
    BY <1>0, <1>2
  <2> HIDE DEF k
  <2>2. WithoutLink(order) = SubSeq(order, 1, k - 1) \o SubSeq(order, k + 1, Len(order))
    BY <1>2 DEF WithoutLink, RemoveAt, k
  <2>3. WithoutLink(order) = rest
    <3> DEFINE head == SubSeq(order, 1, k - 1)
               tail == SubSeq(order, k + 1, Len(order))
    <3>0. k \in Int /\ Len(order) \in Int /\ \A i \in 1 .. Len(order) : order[i] \in S
      BY <1>0, <2>1, ElementOfSeq
    <3>1. /\ head \in Seq(S) /\ Len(head) = k - 1
          /\ \A i \in 1 .. k - 1 : head[i] = order[i]
      <4>1. \A i \in 1 .. k - 1 : order[i] \in S
        BY <2>1, <3>0
      <4>2. /\ head \in Seq(S) /\ Len(head) = IF 1 <= k - 1 THEN k - 1 - 1 + 1 ELSE 0
            /\ \A i \in 1 .. k - 1 - 1 + 1 : head[i] = order[1 + i - 1]
        BY <3>0, <4>1, SubSeqProperties
      <4> HIDE DEF head, tail
      <4> QED
        BY <2>1, <3>0, <4>2
    <3>2. /\ tail \in Seq(S) /\ Len(tail) = Len(order) - k
          /\ \A i \in 1 .. Len(order) - k : tail[i] = order[k + i]
      <4>1. \A i \in k + 1 .. Len(order) : order[i] \in S
        BY <2>1, <3>0
      <4>2. /\ tail \in Seq(S)
            /\ Len(tail) = IF k + 1 <= Len(order) THEN Len(order) - (k + 1) + 1 ELSE 0
            /\ \A i \in 1 .. Len(order) - (k + 1) + 1 : tail[i] = order[k + 1 + i - 1]
        BY <3>0, <4>1, SubSeqProperties
      <4> HIDE DEF head, tail, rest, at
      <4>3. PICK n \in Int : n = Len(order)
        BY <3>0
      <4>4. k \in 1 .. n
        BY <2>1, <4>3
      <4>5. Len(tail) = n - k
        BY <4>2, <4>3, <4>4
      <4>6. ASSUME NEW i \in 1 .. n - k
            PROVE  tail[i] = order[k + i]
        <5>1. i \in 1 .. n - (k + 1) + 1 /\ k + 1 + i - 1 = k + i
          BY <4>4
        <5>2. tail[i] = order[k + 1 + i - 1]
          BY <4>2, <4>3, <5>1, Zenon
        <5> QED
          BY <5>1, <5>2, Zenon
      <4> QED
        BY <4>2, <4>3, <4>5, <4>6, Zenon
    <3> HIDE DEF head, tail
    <3>3. /\ head \o tail \in Seq(S) /\ Len(head \o tail) = Len(order) - 1
          /\ \A i \in 1 .. Len(order) - 1 :
               (head \o tail)[i] = IF i <= k - 1 THEN head[i] ELSE tail[i - (k - 1)]
      <4>1. /\ head \o tail \in Seq(S) /\ Len(head \o tail) = Len(head) + Len(tail)
            /\ \A i \in 1 .. Len(head) + Len(tail) :
                 (head \o tail)[i] = IF i <= Len(head) THEN head[i] ELSE tail[i - Len(head)]
        BY <3>1, <3>2, ConcatProperties
      <4>2. Len(head) + Len(tail) = Len(order) - 1
        BY <3>0, <3>1, <3>2
      <4> QED
        BY <3>1, <4>1, <4>2
    <3>4. \A i \in 1 .. Len(order) - 1 : (head \o tail)[i] = rest[i]
      BY <1>0, <2>1, <3>1, <3>2, <3>3
    <3>5. head \o tail = rest
      <4>1. head \o tail \in [1 .. Len(order) - 1 -> S]
        BY <3>3, LenProperties
      <4> QED
        BY <3>4, <4>1
    <3> QED
      BY <2>2, <3>5 DEF head, tail
  <2>4. \A i \in 1 .. Len(order) : i # k => order[i] \in S \ {Link}
    BY <1>0, <2>1 DEF IsInjective
  <2>5. \A i \in 1 .. Len(order) - 1 : rest[i] \in S \ {Link}
    BY <1>0, <2>1, <2>4
  <2>6. rest \in Seq(S \ {Link})
    BY <1>0, <2>1, <2>5
  <2>7. IsInjective(rest)
    BY <1>0, <2>1 DEF IsInjective
  <2>8. ASSUME NEW p \in Range(order) \ {Link} PROVE p \in Range(rest)
    <3>1. PICK i \in 1 .. Len(order) : order[i] = p
      BY <1>0 DEF Range
    <3>2. i # k
      BY <2>1, <3>1
    <3>3. CASE i < k
      <4>1. i \in 1 .. Len(order) - 1 /\ rest[i] = p
        BY <1>0, <2>1, <3>1, <3>3
      <4> QED
        BY <4>1 DEF Range
    <3>4. CASE i > k
      <4>1. i - 1 \in 1 .. Len(order) - 1 /\ rest[i - 1] = p
        BY <1>0, <2>1, <3>1, <3>4
      <4> QED
        BY <4>1 DEF Range
    <3> QED
      BY <1>0, <2>1, <3>2, <3>3, <3>4
  <2>9. ASSUME NEW p \in Range(rest) PROVE p \in Range(order) \ {Link}
    <3>1. PICK i \in 1 .. Len(order) - 1 : rest[i] = p
      BY DEF Range
    <3> QED
      BY <1>0, <2>1, <2>5, <3>1 DEF Range
  <2> QED
    BY <2>3, <2>6, <2>7, <2>8, <2>9
<1> QED
  BY <1>1, <1>2

\* An order of the listed paths has each of them once.
LEMMA OrderEffect ==
    ASSUME NEW paths, IsFiniteSet(paths), NEW order \in SetToSeqs(paths)
    PROVE  /\ order \in Seq(paths) /\ Len(order) = Cardinality(paths)
           /\ IsInjective(order) /\ Range(order) = paths
<1> DEFINE n == Cardinality(paths)
<1>1. n \in Nat
  BY FS_CardinalityType
<1>2. order \in [1 .. n -> paths] /\ \A i, j \in 1 .. n : i # j => order[i] # order[j]
  BY DEF SetToSeqs
<1>3. IsInjective(order) /\ order \in Injection(1 .. n, paths)
  BY <1>2 DEF IsInjective, Injection
<1>4. Cardinality(1 .. n) = n
  BY <1>1, FS_Interval
<1>5. order \in Surjection(1 .. n, paths)
  BY <1>3, <1>4, FS_Injection
<1>6. Range(order) = paths
  BY <1>2, <1>5 DEF Surjection, Range
<1> QED
  BY <1>1, <1>2, <1>3, <1>6

\* The paths to be removed are the first of the order, without the link; no more
\* than MaxRotate others remain.
LEMMA OldestEffect ==
    ASSUME NEW paths \in SUBSET (Runs \cup {Link}), NEW order \in SetToSeqs(paths)
    PROVE  /\ Oldest(order) \in Seq(Runs) /\ IsInjective(Oldest(order))
           /\ \A p \in Range(Oldest(order)) :
                /\ p \in paths
                /\ \E i \in 1 .. Len(order) - MaxRotate : order[i] = p
           /\ Cardinality((paths \ {Link}) \ Range(Oldest(order))) <= MaxRotate
<1>0. IsFiniteSet(paths)
  <2>1. IsFiniteSet(Runs)
    BY RunsFinite
  <2>2. IsFiniteSet(Runs \cup {Link})
    BY <2>1, FS_AddElement
  <2> QED
    BY <2>2, FS_Subset
<1>1. /\ order \in Seq(paths) /\ Len(order) = Cardinality(paths)
      /\ IsInjective(order) /\ Range(order) = paths
  BY <1>0, OrderEffect
<1> DEFINE m == Len(order) - MaxRotate
           first == SubSeq(order, 1, m)
<1>2. Len(order) \in Nat /\ DOMAIN order = 1 .. Len(order) /\ m \in Int /\ MaxRotate \in Nat
  BY <1>1, RunltpAssumption
<1>3. /\ first \in Seq(paths) /\ DOMAIN first = 1 .. m
      /\ \A i \in 1 .. m : first[i] = order[i] /\ i \in 1 .. Len(order)
  BY <1>1, <1>2
<1>4. IsInjective(first)
  BY <1>1, <1>2, <1>3 DEF IsInjective
<1>5. /\ Oldest(order) \in Seq(paths \ {Link})
      /\ IsInjective(Oldest(order))
      /\ Range(Oldest(order)) = Range(first) \ {Link}
  BY <1>3, <1>4, WithoutLinkEffect DEF Oldest
<1>6. Oldest(order) \in Seq(Runs)
  BY <1>5
<1>7. \A p \in Range(Oldest(order)) : p \in paths /\ \E i \in 1 .. m : order[i] = p
  <2> SUFFICES ASSUME NEW p \in Range(Oldest(order))
               PROVE  p \in paths /\ \E i \in 1 .. m : order[i] = p
    OBVIOUS
  <2>1. p \in Range(first)
    BY <1>5
  <2>2. PICK i \in 1 .. m : first[i] = p
    BY <1>3, <2>1 DEF Range
  <2>3. order[i] = p /\ i \in 1 .. Len(order)
    BY <1>3, <2>2
  <2>4. p \in paths
    BY <1>1, <2>3, ElementOfSeq
  <2> QED
    BY <2>2, <2>3, <2>4
<1>8. Cardinality((paths \ {Link}) \ Range(Oldest(order))) <= MaxRotate
  <2> DEFINE kept == (paths \ {Link}) \ Range(Oldest(order))
             low == IF m > 0 THEN m + 1 ELSE 1
             later == low .. Len(order)
             back == [p \in kept |-> CHOOSE i \in later : order[i] = p]
  <2>1. IsFiniteSet(later) /\ Cardinality(later) <= MaxRotate
    <3>1. low \in Int /\ Len(order) \in Int
      BY <1>2
    <3>2. IsFiniteSet(later) /\ Cardinality(later) = IF low > Len(order) THEN 0 ELSE Len(order) - low + 1
      BY <3>1, FS_Interval
    <3>3. CASE m > 0
      BY <1>2, <3>2, <3>3
    <3>4. CASE m <= 0
      <4>1. low = 1 /\ Len(order) <= MaxRotate
        BY <1>2, <3>4
      <4> HIDE DEF later
      <4> QED
        BY <1>2, <3>2, <4>1
    <3> QED
      BY <1>2, <3>3, <3>4
  <2>2. \A p \in kept : \E i \in later : order[i] = p
    <3> SUFFICES ASSUME NEW p \in kept PROVE \E i \in later : order[i] = p
      OBVIOUS
    <3>1. PICK i \in 1 .. Len(order) : order[i] = p
      BY <1>1, <1>2 DEF Range
    <3>2. p \notin Range(first)
      BY <1>5
    <3>3. i \notin 1 .. m
      BY <1>3, <3>1, <3>2 DEF Range
    <3> QED
      BY <1>2, <3>1, <3>3
  <2>3. back \in [kept -> later] /\ \A p \in kept : order[back[p]] = p
    BY <2>2
  <2>4. back \in Injection(kept, later)
    BY <2>3 DEF Injection, IsInjective
  <2>5. Cardinality(kept) <= Cardinality(later) /\ IsFiniteSet(kept)
    BY <2>1, <2>4, FS_Injection
  <2> QED
    BY <1>2, <2>1, <2>5, FS_CardinalityType
<1> QED
  BY <1>5, <1>6, <1>7, <1>8

(***************************************************************************)
(* Type correctness.                                                       *)
(***************************************************************************)

\* The earlier runs are some of the runs.
LEMMA EarlierRuns == Earlier \in Nat /\ 1 .. Earlier \subseteq Runs
BY RunltpAssumption DEF Runs

\* The types hold initially.
LEMMA TypeInit == Init => TypeOK
<1> SUFFICES ASSUME Init PROVE TypeOK
  OBVIOUS
<1>1. PICK n \in 0 .. Earlier :
        /\ dirs = 1 .. n /\ latest = n
        /\ mtime \in {m \in [Runs -> {0, 1}] : \A q, r \in Runs :
                        (q < r /\ r <= n => m[q] <= m[r]) /\ (r > n => m[r] = 0)}
  BY DEF Init
<1>2. dirs \subseteq Runs /\ latest \in Runs \cup {Link}
  BY <1>1, RunltpAssumption DEF Runs, Link
<1>3. mtime \in [Runs -> 0 .. now] /\ now \in Nat
  <2>1. now = 1 /\ mtime \in [Runs -> {0, 1}]
    BY <1>1 DEF Init
  <2> QED
    BY <2>1
<1>4. pc \in [Runs -> Points]
  BY DEF Init, Points, Over
<1>5. doomed \in [Runs -> Seq(Runs)] /\ \A r \in Runs : doomed[r] = <<>>
  BY DEF Init
<1>6. born \in [Runs -> 0 .. now] /\ alone \in [Runs -> BOOLEAN]
  BY <1>3 DEF Init
<1>7. listed \in [Runs -> SUBSET (Runs \cup {Link})]
  BY DEF Init
<1>8. report \in [of : Runs \cup {0}, whole : BOOLEAN]
  BY DEF Init
<1> QED
  BY <1>2, <1>3, <1>4, <1>5, <1>6, <1>7, <1>8 DEF TypeOK

\* A directory that is touched has the time of the clock, which does not go back.
LEMMA TouchEffect ==
    ASSUME TypeOK, NEW r \in Runs, Touch(r)
    PROVE  /\ now' \in Nat /\ now <= now'
           /\ mtime' \in [Runs -> 0 .. now']
           /\ born \in [Runs -> 0 .. now']
           /\ \A q \in Runs : mtime[q] <= mtime'[q]
           /\ mtime'[r] = now'
<1> USE DEF TypeOK
<1>1. now' \in Nat /\ now <= now'
  BY DEF Touch
<1>2. mtime' = [mtime EXCEPT ![r] = now']
  BY DEF Touch
<1>3. \A q \in Runs : mtime[q] \in 0 .. now /\ born[q] \in 0 .. now
  OBVIOUS
<1>4. \A q \in Runs : mtime'[q] = IF q = r THEN now' ELSE mtime[q]
  BY <1>2
<1>5. \A q \in Runs : mtime'[q] \in 0 .. now' /\ born[q] \in 0 .. now' /\ mtime[q] <= mtime'[q]
  BY <1>1, <1>3, <1>4
<1> QED
  BY <1>1, <1>2, <1>4, <1>5

\* Every step keeps the types.
LEMMA TypeStep ==
    ASSUME TypeOK, [Next]_vars
    PROVE  TypeOK'
<1> USE DEF TypeOK, history
<1>1. CASE UNCHANGED vars
  BY <1>1 DEF vars
<1>2. ASSUME NEW r \in Runs, Start(r) PROVE TypeOK'
  <2>1. pc' \in [Runs -> Points] /\ pc[r] = "unborn"
    BY <1>2 DEF Start, Enter, Points, Over, Rotation
  <2>2. alone' \in [Runs -> BOOLEAN]
    BY <1>2 DEF Start, Enter
  <2>3. \A q \in Runs : doomed[q] # <<>> => pc'[q] = "remove"
    BY <1>2, <2>1 DEF Start
  <2> QED
    BY <1>2, <2>1, <2>2, <2>3 DEF Start, Enter
<1>3. ASSUME NEW r \in Runs, Iterate(r) PROVE TypeOK'
  <2>1. pc' \in [Runs -> Points] /\ listed' \in [Runs -> SUBSET (Runs \cup {Link})]
    BY <1>3 DEF Iterate, GoTo, Points, Rotation
  <2> QED
    BY <1>3, <2>1 DEF Iterate, GoTo
<1>4. ASSUME NEW r \in Runs, Sort(r) PROVE TypeOK'
  <2>1. pc' \in [Runs -> Points] /\ listed' \in [Runs -> SUBSET (Runs \cup {Link})]
    BY <1>4 DEF Sort, GoTo, Points, Rotation, Over
  <2>2. CASE UNCHANGED doomed
    <3>1. \A q \in Runs : doomed[q] # <<>> => pc'[q] = "remove"
      BY <1>4, <2>2 DEF Sort, GoTo
    <3> QED
      BY <1>4, <2>1, <2>2, <3>1 DEF Sort
  <2>3. CASE \E order \in SetToSeqs(listed[r]) : doomed' = [doomed EXCEPT ![r] = Oldest(order)]
    <3>1. doomed' \in [Runs -> Seq(Runs)]
      <4>1. PICK order \in SetToSeqs(listed[r]) : doomed' = [doomed EXCEPT ![r] = Oldest(order)]
        BY <2>3
      <4>2. listed[r] \in SUBSET (Runs \cup {Link})
        OBVIOUS
      <4>3. Oldest(order) \in Seq(Runs)
        BY <4>2, OldestEffect
      <4> QED
        BY <4>1, <4>3
    <3>2. \A q \in Runs : doomed'[q] # <<>> => pc'[q] = "remove"
      <4>1. CASE GoTo(r, "sort", "remove")
        BY <2>3, <4>1 DEF GoTo
      <4>2. CASE UNCHANGED doomed
        BY <2>2, <1>4, <4>2 DEF Sort, GoTo
      <4> QED
        BY <1>4, <4>1, <4>2 DEF Sort
    <3> QED
      BY <1>4, <2>1, <3>1, <3>2 DEF Sort
  <2> QED
    BY <1>4, <2>2, <2>3 DEF Sort
<1>5. ASSUME NEW r \in Runs, Rmtree(r) PROVE TypeOK'
  <2>1. pc' \in [Runs -> Points] /\ pc[r] = "remove" /\ \A q \in Runs : q # r => pc'[q] = pc[q]
    BY <1>5 DEF Rmtree, GoTo, Points, Over
  <2>2. doomed' \in [Runs -> Seq(Runs)] /\ \A q \in Runs : q # r => doomed'[q] = doomed[q]
    <3>1. doomed[r] \in Seq(Runs) /\ doomed[r] # <<>>
      BY <1>5 DEF Rmtree
    <3>2. Tail(doomed[r]) \in Seq(Runs) /\ <<>> \in Seq(Runs)
      BY <3>1
    <3>3. \/ doomed' = [doomed EXCEPT ![r] = Tail(doomed[r])]
          \/ doomed' = [doomed EXCEPT ![r] = <<>>]
      BY <1>5 DEF Rmtree
    <3> QED
      BY <3>2, <3>3
  <2>3. doomed'[r] # <<>> => pc'[r] = "remove"
    BY <1>5 DEF Rmtree
  <2>4. dirs' \subseteq Runs
    BY <1>5 DEF Rmtree
  <2> QED
    BY <1>5, <2>1, <2>2, <2>3, <2>4 DEF Rmtree
<1>6. ASSUME NEW r \in Runs, Mkdtemp(r) PROVE TypeOK'
  <2>1. pc' \in [Runs -> Points] /\ \A q \in Runs : doomed[q] # <<>> => pc'[q] = "remove"
    BY <1>6 DEF Mkdtemp, GoTo, Points, Rotation
  <2>2. now' \in Nat /\ mtime' \in [Runs -> 0 .. now'] /\ born \in [Runs -> 0 .. now']
    BY <1>6, TouchEffect DEF Mkdtemp
  <2>3. born' \in [Runs -> 0 .. now']
    BY <1>6, <2>2 DEF Mkdtemp
  <2> QED
    BY <1>6, <2>1, <2>2, <2>3 DEF Mkdtemp
<1>7. ASSUME NEW r \in Runs, IsLink(r) \/ NoResults(r) \/ Save(r) PROVE TypeOK'
  BY <1>7 DEF IsLink, NoResults, Save, OnlyPc, GoTo, Points, Rotation, Over
<1>8. ASSUME NEW r \in Runs, Unlink(r) \/ Symlink(r) PROVE TypeOK'
  BY <1>8 DEF Unlink, Symlink, GoTo, Points, Rotation, Over
<1>9. ASSUME NEW r \in Runs, DebugLog(r) \/ SaveResults(r) PROVE TypeOK'
  <2>1. /\ pc' \in [Runs -> Points] /\ \A q \in Runs : doomed[q] # <<>> => pc'[q] = "remove"
        /\ UNCHANGED <<listed, doomed, dirs, latest, report, born, alone>>
    BY <1>9 DEF DebugLog, SaveResults, Write, GoTo, Points, Over
  <2>2. CASE Touch(r)
    BY <2>1, <2>2, TouchEffect
  <2>3. CASE UNCHANGED <<mtime, now>>
    BY <2>1, <2>3
  <2> QED
    BY <1>9, <2>2, <2>3 DEF DebugLog, SaveResults, Write
<1>10. ASSUME NEW r \in Runs, Open(r) \/ Dump(r) PROVE TypeOK'
  <2>1. pc' \in [Runs -> Points] /\ \A q \in Runs : doomed[q] # <<>> => pc'[q] = "remove"
    BY <1>10 DEF Open, Dump, GoTo, Points, Over
  <2>2. ASSUME Open(r) PROVE report' \in [of : Runs \cup {0}, whole : BOOLEAN]
    <3>1. report' = [of |-> r, whole |-> FALSE]
      BY <2>2 DEF Open
    <3> QED
      BY <3>1
  <2>3. ASSUME Dump(r) PROVE report' \in [of : Runs \cup {0}, whole : BOOLEAN]
    <3>1. report' = [of |-> report.of, whole |-> (report.of = r)]
      BY <2>3 DEF Dump
    <3>2. (report.of = r) \in BOOLEAN /\ report.of \in Runs \cup {0}
      OBVIOUS
    <3> QED
      BY <3>1, <3>2
  <2>4. report' \in [of : Runs \cup {0}, whole : BOOLEAN]
    BY <1>10, <2>2, <2>3
  <2> QED
    BY <1>10, <2>1, <2>4 DEF Open, Dump
<1>11. ASSUME NEW r \in Runs, Crash(r) PROVE TypeOK'
  BY <1>11 DEF Crash, Points, Over
<1> QED
  BY <1>1, <1>2, <1>3, <1>4, <1>5, <1>6, <1>7, <1>8, <1>9, <1>10, <1>11
  DEF Next, Rotate, RunSession

\* The type invariant of Runltp: the times of the directories never pass the clock,
\* and only runs, never the link, are to be removed.
THEOREM TypeCorrect == Spec => []TypeOK
BY TypeInit, TypeStep, PTL DEF Spec

(***************************************************************************)
(* The directory of a session goes only when MaxRotate - 1 others have     *)
(* changed since it was made.  What is condemned when the paths are sorted *)
(* is removed later, so the invariant has to say it of what is condemned.  *)
(***************************************************************************)

\* r is past mkdtemp: nobody makes its directory any more.
Made(r) == pc[r] \notin {"unborn", "iterate", "sort", "remove"}

\* The directories there are, listed or condemned, are those of runs past mkdtemp.
PathInv ==
    /\ \A r \in dirs : Made(r) /\ born[r] <= mtime[r]
    /\ \A q \in Runs :
         /\ \A p \in listed[q] : p = Link \/ Made(p)
         /\ listed[q] # {} => pc[q] = "sort"
         /\ \A p \in Range(doomed[q]) : Made(p)
         /\ q <= Earlier => pc[q] = "exit"

\* As many directories as may stay beside a new one have changed since p was made.
Passed(p) == Cardinality({q \in Runs \ {p} : mtime[q] >= born[p]}) >= MaxRotate - 1

UsesDir == {"islink", "unlink", "symlink", "log", "session"}

KeptInv ==
    /\ \A q \in Runs : \A p \in Range(doomed[q]) : Passed(p)
    /\ \A r \in Runs : pc[r] \in UsesDir /\ r \notin dirs => Passed(r)

\* The steps that neither rotate the directories nor make one.
Rest(r) ==
    \/ IsLink(r) \/ Unlink(r) \/ Symlink(r) \/ DebugLog(r) \/ NoResults(r)
    \/ SaveResults(r) \/ Save(r) \/ Open(r) \/ Dump(r) \/ Crash(r)

\* They leave the directories alone, but for their times.
LEMMA RestEffect ==
    ASSUME TypeOK, NEW r \in Runs, Rest(r)
    PROVE  /\ Live(r)
           /\ \E to \in Points \ {"unborn", "iterate", "sort", "remove"} :
                /\ pc' = [pc EXCEPT ![r] = to]
                /\ to \in UsesDir => pc[r] \in UsesDir
           /\ UNCHANGED <<dirs, born, alone>>
           /\ listed' = listed \/ listed' = [listed EXCEPT ![r] = {}]
           /\ pc[r] \in {"sort", "remove"} => listed' = [listed EXCEPT ![r] = {}]
           /\ doomed' = doomed \/ doomed' = [doomed EXCEPT ![r] = <<>>]
           /\ \A q \in Runs : mtime[q] <= mtime'[q]
<1> USE DEF GoTo, UsesDir, Live, Over, Points, Rotation, history
<1>1. mtime \in [Runs -> 0 .. now] /\ now \in Nat /\ \A q \in Runs : mtime[q] <= mtime[q]
  <2>1. mtime \in [Runs -> 0 .. now] /\ now \in Nat
    BY DEF TypeOK
  <2> QED
    BY <2>1
<1>2. CASE IsLink(r) \/ NoResults(r) \/ Save(r)
  BY <1>1, <1>2 DEF IsLink, NoResults, Save, OnlyPc
<1>3. CASE Unlink(r) \/ Symlink(r)
  BY <1>1, <1>3 DEF Unlink, Symlink
<1>4. CASE Open(r) \/ Dump(r)
  BY <1>1, <1>4 DEF Open, Dump
<1>5. CASE DebugLog(r) \/ SaveResults(r)
  <2>1. \A q \in Runs : mtime[q] <= mtime'[q]
    BY <1>1, <1>5, TouchEffect DEF DebugLog, SaveResults, Write
  <2>2. UNCHANGED <<listed, doomed, dirs, born, alone>>
    BY <1>5 DEF DebugLog, SaveResults, Write
  <2>3. /\ Live(r)
        /\ \E to \in Points \ {"unborn", "iterate", "sort", "remove"} :
             /\ pc' = [pc EXCEPT ![r] = to]
             /\ to \in UsesDir => pc[r] \in UsesDir
    BY <1>5 DEF DebugLog, SaveResults, Write
  <2>4. pc[r] \in {"log", "session"}
    BY <1>5 DEF DebugLog, SaveResults, Write
  <2> QED
    BY <2>1, <2>2, <2>3, <2>4
<1>6. CASE Crash(r)
  <2>1. Live(r) /\ pc' = [pc EXCEPT ![r] = "crashed"]
    BY <1>6 DEF Crash
  <2>2. /\ UNCHANGED <<dirs, born, alone, mtime>>
        /\ listed' = [listed EXCEPT ![r] = {}] /\ doomed' = [doomed EXCEPT ![r] = <<>>]
    BY <1>6 DEF Crash
  <2>3. \A q \in Runs : mtime[q] <= mtime'[q]
    BY <1>1, <2>2
  <2>4. \E to \in Points \ {"unborn", "iterate", "sort", "remove"} :
           pc' = [pc EXCEPT ![r] = to] /\ to \notin UsesDir
    <3>1. "crashed" \in Points \ {"unborn", "iterate", "sort", "remove"} /\ "crashed" \notin UsesDir
      OBVIOUS
    <3> QED
      BY <2>1, <3>1
  <2> QED
    BY <2>1, <2>2, <2>3, <2>4
<1> QED
  BY <1>2, <1>3, <1>4, <1>5, <1>6 DEF Rest

\* What a step may be.
LEMMA NextCases ==
    ASSUME [Next]_vars
    PROVE  \/ UNCHANGED vars
           \/ \E r \in Runs : \/ Start(r) \/ Iterate(r) \/ Sort(r) \/ Rmtree(r)
                              \/ Mkdtemp(r) \/ Rest(r)
BY DEF Next, Rotate, RunSession, Rest

\* Removing a directory.
LEMMA RmtreeEffect ==
    ASSUME TypeOK, NEW r \in Runs, Rmtree(r)
    PROVE  /\ pc[r] = "remove" /\ doomed[r] # <<>> /\ Head(doomed[r]) \in Runs
           /\ UNCHANGED <<listed, mtime, latest, report, now, born, alone>>
           /\ \/ /\ UNCHANGED pc /\ dirs' = dirs \ {Head(doomed[r])}
                 /\ doomed' = [doomed EXCEPT ![r] = Tail(doomed[r])]
                 /\ Head(doomed[r]) \in dirs
              \/ /\ pc' = [pc EXCEPT ![r] = "failed"] /\ UNCHANGED dirs
                 /\ doomed' = [doomed EXCEPT ![r] = <<>>]
                 /\ Head(doomed[r]) \notin dirs \/ Live(Head(doomed[r]))
<1>1. doomed[r] \in Seq(Runs) /\ doomed[r] # <<>>
  BY DEF TypeOK, Rmtree
<1>2. Head(doomed[r]) \in Runs
  BY <1>1
<1> QED
  BY <1>1, <1>2 DEF Rmtree, GoTo, history

\* The rest of what is condemned was condemned.
LEMMA TailCondemned ==
    ASSUME NEW order \in Seq(Runs), order # <<>>
    PROVE  /\ Head(order) \in Range(order)
           /\ Range(Tail(order)) \subseteq Range(order)
           /\ IsInjective(order) => IsInjective(Tail(order)) /\ Head(order) \notin Range(Tail(order))
<1>1. /\ Head(order) = order[1] /\ 1 \in DOMAIN order
      /\ DOMAIN order = 1 .. Len(order) /\ Len(order) \in Nat
      /\ DOMAIN Tail(order) = 1 .. Len(order) - 1
      /\ \A i \in DOMAIN Tail(order) : i + 1 \in DOMAIN order /\ Tail(order)[i] = order[i + 1]
  OBVIOUS
<1>2. Range(Tail(order)) \subseteq Range(order) /\ Head(order) \in Range(order)
  BY <1>1 DEF Range
<1>3. ASSUME IsInjective(order)
      PROVE  IsInjective(Tail(order)) /\ Head(order) \notin Range(Tail(order))
  BY <1>1, <1>3 DEF IsInjective, Range
<1> QED
  BY <1>2, <1>3

\* Sorting condemns some of the listed directories.
LEMMA SortCondemns ==
    ASSUME TypeOK, NEW r \in Runs, Sort(r), NEW q \in Runs, NEW p \in Range(doomed'[q])
    PROVE  p \in Range(doomed[q]) \/ (p \in listed[r] /\ p # Link)
<1>1. CASE UNCHANGED doomed
  BY <1>1
<1>2. CASE \E order \in SetToSeqs(listed[r]) : doomed' = [doomed EXCEPT ![r] = Oldest(order)]
  <2>1. PICK order \in SetToSeqs(listed[r]) : doomed' = [doomed EXCEPT ![r] = Oldest(order)]
    BY <1>2
  <2>2. listed[r] \in SUBSET (Runs \cup {Link}) /\ doomed \in [Runs -> Seq(Runs)]
    BY DEF TypeOK
  <2>3. CASE q = r
    <3>1. doomed'[q] = Oldest(order)
      BY <2>1, <2>2, <2>3
    <3>2. p \in listed[r] /\ Oldest(order) \in Seq(Runs)
      BY <2>2, <3>1, OldestEffect
    <3>3. p \in Runs
      BY <3>1, <3>2 DEF Range
    <3>4. Link \notin Runs
      BY DEF Link, Runs
    <3> QED
      BY <3>2, <3>3, <3>4
  <2>4. CASE q # r
    BY <2>1, <2>2, <2>4
  <2> QED
    BY <2>3, <2>4
<1> QED
  BY <1>1, <1>2 DEF Sort

\* What is condemned are directories of runs.
LEMMA CondemnedRuns ==
    ASSUME NEW order \in Seq(Runs)
    PROVE  Range(order) \subseteq Runs
<1>1. DOMAIN order = 1 .. Len(order) /\ \A i \in 1 .. Len(order) : order[i] \in Runs
  BY ElementOfSeq
<1> QED
  BY <1>1 DEF Range

LEMMA NothingCondemned == Range(<<>>) = {}
BY DEF Range

\* The paths hold initially.
LEMMA PathInit == Init => PathInv
<1> SUFFICES ASSUME Init PROVE PathInv
  OBVIOUS
<1>1. PICK n \in 0 .. Earlier : dirs = 1 .. n
  BY DEF Init
<1>2. TypeOK /\ dirs \subseteq 1 .. Earlier /\ dirs \subseteq Runs
  BY <1>1, TypeInit, EarlierRuns DEF TypeOK
<1>3. \A r \in dirs : pc[r] = "exit" /\ born[r] = 0
  <2> SUFFICES ASSUME NEW r \in dirs PROVE pc[r] = "exit" /\ born[r] = 0
    OBVIOUS
  <2>1. r \in Runs /\ r <= Earlier
    BY <1>2, EarlierRuns
  <2> QED
    BY <2>1 DEF Init
<1>4. \A r \in dirs : mtime[r] >= 0
  BY <1>2 DEF TypeOK
<1>5. \A q \in Runs : listed[q] = {} /\ doomed[q] = <<>> /\ (q <= Earlier => pc[q] = "exit")
  BY DEF Init
<1> QED
  BY <1>3, <1>4, <1>5, NothingCondemned DEF PathInv, Made

\* Every step keeps the paths.
LEMMA PathStep ==
    ASSUME TypeOK, PathInv, [Next]_vars
    PROVE  PathInv'
<1> USE DEF PathInv, Made
<1>0. /\ pc \in [Runs -> Points] /\ doomed \in [Runs -> Seq(Runs)] /\ dirs \subseteq Runs
      /\ listed \in [Runs -> SUBSET (Runs \cup {Link})] /\ mtime \in [Runs -> 0 .. now]
      /\ born \in [Runs -> 0 .. now] /\ now \in Nat
      /\ Runs \subseteq Nat /\ Earlier \in Nat
  BY EarlierRuns DEF TypeOK, Runs
<1>1. CASE UNCHANGED vars
  BY <1>1 DEF vars, history
<1>2. ASSUME NEW r \in Runs, Start(r) PROVE PathInv'
  <2>1. /\ UNCHANGED <<listed, doomed, dirs, mtime, born>> /\ pc[r] = "unborn"
        /\ \E to : pc' = [pc EXCEPT ![r] = to]
    BY <1>2 DEF Start, Enter
  <2> QED
    BY <1>0, <2>1
<1>3. ASSUME NEW r \in Runs, Iterate(r) PROVE PathInv'
  <2>1. /\ UNCHANGED <<doomed, dirs, mtime, born>> /\ pc[r] = "iterate"
        /\ pc' = [pc EXCEPT ![r] = "sort"]
        /\ \E paths : listed' = [listed EXCEPT ![r] = paths] /\ paths \subseteq dirs \cup {Link}
    BY <1>3 DEF Iterate, GoTo, history
  <2> QED
    BY <1>0, <2>1
<1>4. ASSUME NEW r \in Runs, Sort(r) PROVE PathInv'
  <2>1. /\ UNCHANGED <<dirs, mtime, born>> /\ pc[r] = "sort"
        /\ \E to \in {"failed", "remove"} : pc' = [pc EXCEPT ![r] = to]
        /\ listed' = [listed EXCEPT ![r] = {}]
    BY <1>4 DEF Sort, GoTo, history
  <2>2. \A p : Made(p) => Made(p)'
    BY <1>0, <2>1
  <2>3. ASSUME NEW q \in Runs, NEW p \in Range(doomed'[q]) PROVE Made(p)'
    <3>1. p \in Range(doomed[q]) \/ (p \in listed[r] /\ p # Link)
      BY <1>4, <2>3, SortCondemns
    <3>2. Made(p)
      BY <3>1
    <3> QED
      BY <2>2, <3>2
  <2>4. \A q \in dirs : Made(q)'
    BY <2>2
  <2>5. \A q \in Runs : \A p \in listed'[q] : p = Link \/ Made(p)'
    BY <1>0, <2>1, <2>2
  <2>6. \A q \in Runs : listed'[q] # {} => pc'[q] = "sort"
    BY <1>0, <2>1
  <2>7. \A q \in Runs : q <= Earlier => pc'[q] = "exit"
    BY <1>0, <2>1
  <2> QED
    BY <2>1, <2>3, <2>4, <2>5, <2>6, <2>7
<1>5. ASSUME NEW r \in Runs, Rmtree(r) PROVE PathInv'
  <2>1. pc[r] = "remove" /\ dirs' \subseteq dirs /\ UNCHANGED <<listed, mtime, born>>
        /\ (UNCHANGED pc \/ pc' = [pc EXCEPT ![r] = "failed"])
    BY <1>5, RmtreeEffect
  <2>2. \A q \in Runs : Range(doomed'[q]) \subseteq Range(doomed[q])
    <3>1. Range(Tail(doomed[r])) \subseteq Range(doomed[r])
      BY <1>0, <1>5, RmtreeEffect, TailCondemned
    <3>2. CASE doomed' = [doomed EXCEPT ![r] = Tail(doomed[r])]
      BY <1>0, <3>1, <3>2
    <3>3. CASE doomed' = [doomed EXCEPT ![r] = <<>>]
      BY <1>0, <3>3, NothingCondemned
    <3> QED
      BY <1>5, <3>2, <3>3, RmtreeEffect
  <2>3. \A p \in Runs : Made(p) => Made(p)'
    BY <1>0, <2>1
  <2>4. \A q \in Runs : pc[q] \in {"sort", "exit"} => pc'[q] = pc[q]
    BY <1>0, <2>1
  <2>5. \A q \in Runs : \A p \in Range(doomed'[q]) : Made(p)'
    BY <1>0, <2>2, <2>3, CondemnedRuns
  <2>6. \A q \in Runs : \A p \in listed'[q] : p = Link \/ Made(p)'
    BY <1>0, <2>1, <2>3
  <2>7. \A q \in dirs' : Made(q)' /\ born'[q] <= mtime'[q]
    BY <1>0, <2>1, <2>3
  <2>8. \A q \in Runs : (listed'[q] # {} => pc'[q] = "sort") /\ (q <= Earlier => pc'[q] = "exit")
    BY <2>1, <2>4
  <2> QED
    BY <2>5, <2>6, <2>7, <2>8
<1>6. ASSUME NEW r \in Runs, Mkdtemp(r) PROVE PathInv'
  <2>1. /\ UNCHANGED <<listed, doomed>> /\ pc[r] = "remove" /\ pc' = [pc EXCEPT ![r] = "islink"]
        /\ dirs' = dirs \cup {r} /\ born' = [born EXCEPT ![r] = now'] /\ Touch(r)
    BY <1>6 DEF Mkdtemp, GoTo
  <2>2. /\ \A q \in Runs : mtime[q] <= mtime'[q] /\ mtime'[q] \in Nat
        /\ mtime'[r] = now' /\ now' \in Nat
    BY <2>1, TouchEffect
  <2>3. \A q \in dirs' : born'[q] <= mtime'[q]
    BY <1>0, <2>1, <2>2
  <2> QED
    BY <1>0, <2>1, <2>3
<1>7. ASSUME NEW r \in Runs, Rest(r) PROVE PathInv'
  <2>1. /\ UNCHANGED <<dirs, born>> /\ r > Earlier
        /\ \E to : /\ pc' = [pc EXCEPT ![r] = to]
                   /\ to \notin {"unborn", "iterate", "sort", "remove"}
        /\ listed' = listed \/ listed' = [listed EXCEPT ![r] = {}]
        /\ doomed' = doomed \/ doomed' = [doomed EXCEPT ![r] = <<>>]
        /\ \A q \in Runs : mtime[q] <= mtime'[q]
    <3>1. r > Earlier
      <4>1. pc[r] # "exit"
        BY <1>7, RestEffect DEF Live, Over
      <4> QED
        BY <4>1, EarlierRuns DEF Runs
    <3> QED
      BY <1>7, <3>1, RestEffect
  <2>2. mtime' \in [Runs -> 0 .. now'] /\ now' \in Nat
    BY <1>7, TypeStep DEF TypeOK, Next, Rotate, RunSession, Rest
  <2>3. \A q \in dirs' : born'[q] <= mtime'[q]
    <3> SUFFICES ASSUME NEW q \in dirs PROVE born[q] <= mtime'[q]
      BY <2>1
    <3>1. q \in Runs /\ born[q] <= mtime[q] /\ mtime[q] <= mtime'[q]
      BY <1>0, <2>1
    <3>2. born[q] \in Nat /\ mtime[q] \in Nat /\ mtime'[q] \in Nat
      BY <1>0, <2>2, <3>1
    <3> QED
      BY <3>1, <3>2
  <2>4. \A p : Made(p) => Made(p)'
    BY <1>0, <2>1
  <2>5. \A q \in Runs : Range(doomed'[q]) \subseteq Range(doomed[q])
    BY <1>0, <2>1, NothingCondemned
  <2>6. \A q \in Runs : listed'[q] # {} => listed'[q] = listed[q] /\ pc'[q] = "sort"
    <3>1. \A q \in Runs : q # r => pc'[q] = pc[q] /\ listed'[q] = listed[q]
      BY <1>0, <2>1
    <3>2. listed'[r] = {}
      <4>1. listed[r] = {} \/ pc[r] = "sort"
        OBVIOUS
      <4> QED
        BY <1>0, <1>7, <2>1, <4>1, RestEffect
    <3> QED
      BY <3>1, <3>2
  <2>7. \A q \in Runs : q <= Earlier => pc'[q] = "exit"
    BY <1>0, <2>1
  <2> QED
    BY <2>1, <2>3, <2>4, <2>5, <2>6, <2>7
<1> QED
  BY <1>1, <1>2, <1>3, <1>4, <1>5, <1>6, <1>7, NextCases

\* What has changed since p was made has changed since for ever.
LEMMA PassedLater ==
    ASSUME TypeOK, TypeOK', \A q \in Runs : mtime[q] <= mtime'[q],
           NEW p \in Runs, born'[p] = born[p], Passed(p)
    PROVE  Passed(p)'
<1> DEFINE since == {q \in Runs \ {p} : mtime[q] >= born[p]}
           later == {q \in Runs \ {p} : mtime'[q] >= born'[p]}
<1>1. \A q \in Runs : mtime[q] \in Nat /\ mtime'[q] \in Nat /\ born[p] \in Nat
  BY DEF TypeOK
<1>2. since \subseteq later
  BY <1>1
<1>3. IsFiniteSet(later)
  BY RunsFinite, FS_Subset
<1>4. /\ Cardinality(since) <= Cardinality(later)
      /\ Cardinality(since) \in Nat /\ Cardinality(later) \in Nat
  BY <1>2, <1>3, FS_Subset, FS_CardinalityType
<1>5. Cardinality(since) >= MaxRotate - 1 /\ MaxRotate \in Nat
  BY RunltpAssumption DEF Passed
<1>6. Cardinality(later) >= MaxRotate - 1
  <2> HIDE DEF since, later
  <2> QED
    BY <1>4, <1>5
<1> QED
  BY <1>6 DEF Passed

\* What sorting condemns is older than MaxRotate - 1 of the other directories.
LEMMA SortedPassed ==
    ASSUME TypeOK, PathInv, NEW r \in Runs, NEW order \in SetToSeqs(listed[r]),
           \A p \in listed[r] : ~Gone(p),
           \A i, j \in DOMAIN order : i < j => Before(order[i], order[j]),
           NEW p \in Range(Oldest(order))
    PROVE  Passed(p)
<1>1. listed[r] \in SUBSET (Runs \cup {Link}) /\ mtime \in [Runs -> 0 .. now] /\ now \in Nat
      /\ born \in [Runs -> 0 .. now] /\ dirs \subseteq Runs
  BY DEF TypeOK
<1>2. IsFiniteSet(listed[r])
  BY <1>1, RunsFinite, FS_AddElement, FS_Subset
<1>3. /\ order \in Seq(listed[r]) /\ Len(order) \in Nat /\ DOMAIN order = 1 .. Len(order)
      /\ IsInjective(order)
  BY <1>2, OrderEffect
<1> DEFINE m == Len(order) - MaxRotate
<1>4. MaxRotate \in Nat /\ m \in Int
  BY <1>3, RunltpAssumption
<1>5. PICK i \in 1 .. m : order[i] = p
  <2>1. \A x \in Range(Oldest(order)) :
          x \in listed[r] /\ \E i \in 1 .. Len(order) - MaxRotate : order[i] = x
    <3> HIDE DEF m
    <3>1. listed[r] \in SUBSET (Runs \cup {Link})
      BY <1>1
    <3> QED
      BY <3>1, OldestEffect, Zenon
  <2> QED
    BY <2>1
<1>6. p \in Runs /\ p \in listed[r] /\ p # Link
  <2>1. Oldest(order) \in Seq(Runs) /\ p \in listed[r]
    BY <1>1, OldestEffect
  <2>2. p \in Runs
    BY <2>1, CondemnedRuns
  <2> QED
    BY <2>1, <2>2 DEF Runs, Link
<1>7. Target(p) = p /\ born[p] <= mtime[p]
  BY <1>6 DEF Target, Gone, PathInv
<1> DEFINE newer == {order[j] : j \in m + 1 .. Len(order)}
           since == {q \in Runs \ {p} : mtime[q] >= born[p]}
<1>8. m >= 1 /\ i \in DOMAIN order /\ m + 1 .. Len(order) \subseteq DOMAIN order
  BY <1>3, <1>4, <1>5
<1>9. newer \subseteq listed[r] /\ IsFiniteSet(newer)
  <2>1. newer \subseteq listed[r]
    BY <1>3, <1>8, ElementOfSeq
  <2> QED
    BY <1>2, <2>1, FS_Subset
<1>10. MaxRotate <= Cardinality(newer)
  <2>1. [j \in m + 1 .. Len(order) |-> order[j]] \in Injection(m + 1 .. Len(order), newer)
    BY <1>3, <1>8 DEF Injection, IsInjective
  <2>2. Cardinality(m + 1 .. Len(order)) <= Cardinality(newer)
    BY <1>9, <2>1, FS_Injection
  <2>3. m + 1 \in Int /\ Len(order) \in Int
    BY <1>3, <1>4
  <2>4. Cardinality(m + 1 .. Len(order)) = IF m + 1 > Len(order) THEN 0 ELSE Len(order) - (m + 1) + 1
    BY <2>3, FS_Interval
  <2>5. Cardinality(m + 1 .. Len(order)) = MaxRotate
    BY <1>3, <1>4, <2>4
  <2> QED
    BY <2>2, <2>5
<1>11. newer \ {Link} \subseteq since
  <2> SUFFICES ASSUME NEW j \in m + 1 .. Len(order), order[j] # Link PROVE order[j] \in since
    OBVIOUS
  <2>1. j \in DOMAIN order /\ i < j
    BY <1>3, <1>4, <1>5, <1>8
  <2>2. order[j] \in Runs /\ order[j] # p
    BY <1>1, <1>3, <1>5, <1>8, <1>9, <2>1 DEF IsInjective
  <2>3. mtime[p] <= mtime[order[j]]
    BY <1>5, <1>7, <1>8, <2>1 DEF Before, Target
  <2> QED
    BY <1>1, <1>6, <1>7, <2>2, <2>3
<1>12. Cardinality(newer \ {Link}) >= Cardinality(newer) - 1 /\ Cardinality(newer) \in Nat
       /\ Cardinality(newer \ {Link}) \in Nat
  <2> HIDE DEF newer
  <2>1. /\ IsFiniteSet(newer \ {Link})
        /\ Cardinality(newer \ {Link}) =
             IF Link \in newer THEN Cardinality(newer) - 1 ELSE Cardinality(newer)
    BY <1>9, FS_RemoveElement
  <2>2. Cardinality(newer) \in Nat /\ Cardinality(newer \ {Link}) \in Nat
    BY <1>9, <2>1, FS_CardinalityType
  <2> QED
    BY <2>1, <2>2
<1>13. Cardinality(newer \ {Link}) <= Cardinality(since) /\ Cardinality(since) \in Nat
  <2>1. IsFiniteSet(since)
    BY RunsFinite, FS_Subset
  <2> HIDE DEF newer, since
  <2> QED
    BY <1>11, <2>1, FS_Subset, FS_CardinalityType
<1>14. Cardinality(since) >= MaxRotate - 1
  <2> HIDE DEF newer, since
  <2> QED
    BY <1>4, <1>10, <1>12, <1>13
<1> QED
  BY <1>14 DEF Passed

\* Nothing is condemned, and nobody uses a directory, at first.
LEMMA KeptInit == Init => KeptInv
<1> SUFFICES ASSUME Init PROVE KeptInv
  OBVIOUS
<1>1. \A q \in Runs : doomed[q] = <<>> /\ pc[q] \in {"exit", "unborn"}
  BY DEF Init
<1> QED
  BY <1>1, NothingCondemned DEF KeptInv, UsesDir

\* Every step keeps what is due to the directories in use.
LEMMA KeptStep ==
    ASSUME TypeOK, PathInv, KeptInv, [Next]_vars
    PROVE  KeptInv'
<1>0. /\ TypeOK' /\ pc \in [Runs -> Points] /\ doomed \in [Runs -> Seq(Runs)]
      /\ mtime \in [Runs -> 0 .. now] /\ born \in [Runs -> 0 .. now] /\ now \in Nat
  BY TypeStep DEF TypeOK
<1>1. \A q \in Runs : mtime[q] <= mtime[q] /\ Range(doomed[q]) \subseteq Runs
  BY <1>0, CondemnedRuns
\* It is enough that the times grow, that nothing else is condemned, and that no
\* other directory of a run that uses it is gone.
<1>2. ASSUME \A q \in Runs : mtime[q] <= mtime'[q],
             \A q \in Runs : \A p \in Range(doomed'[q]) : Passed(p) /\ p \in Runs /\ born'[p] = born[p],
             \A q \in Runs : pc'[q] \in UsesDir /\ q \notin dirs' => Passed(q) /\ born'[q] = born[q]
      PROVE  KeptInv'
  BY <1>0, <1>2, PassedLater DEF KeptInv
<1>3. CASE UNCHANGED vars
  BY <1>1, <1>2, <1>3 DEF vars, history, KeptInv
<1>4. ASSUME NEW r \in Runs, Start(r) \/ Iterate(r) PROVE KeptInv'
  <2>1. /\ UNCHANGED <<doomed, dirs, mtime, born>>
        /\ \E to : pc' = [pc EXCEPT ![r] = to] /\ to \notin UsesDir
    BY <1>4 DEF Start, Enter, Iterate, GoTo, history, UsesDir
  <2> QED
    BY <1>0, <1>1, <1>2, <2>1 DEF KeptInv
<1>5. ASSUME NEW r \in Runs, Sort(r) PROVE KeptInv'
  <2>1. /\ UNCHANGED <<dirs, mtime, born>>
        /\ \E to : pc' = [pc EXCEPT ![r] = to] /\ to \notin UsesDir
    BY <1>5 DEF Sort, GoTo, history, UsesDir
  <2>2. ASSUME NEW q \in Runs, NEW p \in Range(doomed'[q]) PROVE Passed(p)
    <3>1. CASE UNCHANGED doomed
      BY <2>2, <3>1 DEF KeptInv
    <3>2. CASE /\ ~ \E x \in listed[r] : Gone(x)
               /\ \E order \in SetToSeqs(listed[r]) :
                    /\ \A i, j \in DOMAIN order : i < j => Before(order[i], order[j])
                    /\ doomed' = [doomed EXCEPT ![r] = Oldest(order)]
      <4>1. PICK order \in SetToSeqs(listed[r]) :
              /\ \A i, j \in DOMAIN order : i < j => Before(order[i], order[j])
              /\ doomed' = [doomed EXCEPT ![r] = Oldest(order)]
        BY <3>2
      <4>2. CASE q = r
        BY <1>0, <2>2, <3>2, <4>1, <4>2, SortedPassed
      <4>3. CASE q # r
        BY <1>0, <2>2, <4>1, <4>3 DEF KeptInv
      <4> QED
        BY <4>2, <4>3
    <3> QED
      BY <1>5, <3>1, <3>2 DEF Sort
  <2>3. \A q \in Runs : Range(doomed'[q]) \subseteq Runs
    BY <1>0, CondemnedRuns DEF TypeOK
  <2> QED
    BY <1>0, <1>1, <1>2, <2>1, <2>2, <2>3 DEF KeptInv
<1>6. ASSUME NEW r \in Runs, Rmtree(r) PROVE KeptInv'
  <2>1. /\ UNCHANGED <<mtime, born>> /\ doomed[r] # <<>> /\ doomed[r] \in Seq(Runs)
        /\ UNCHANGED pc \/ pc' = [pc EXCEPT ![r] = "failed"]
        /\ UNCHANGED dirs \/ dirs' = dirs \ {Head(doomed[r])}
    BY <1>0, <1>6, RmtreeEffect
  <2>2. \A q \in Runs : Range(doomed'[q]) \subseteq Range(doomed[q])
    <3>1. CASE doomed' = [doomed EXCEPT ![r] = Tail(doomed[r])]
      BY <1>0, <2>1, <3>1, TailCondemned
    <3>2. CASE doomed' = [doomed EXCEPT ![r] = <<>>]
      BY <1>0, <3>2, NothingCondemned
    <3> QED
      BY <1>6, <3>1, <3>2, RmtreeEffect
  <2>3. Passed(Head(doomed[r]))
    BY <2>1, TailCondemned DEF KeptInv
  <2>4. \A q \in Runs : pc'[q] \in UsesDir => pc[q] \in UsesDir
    BY <1>0, <2>1 DEF UsesDir
  <2>5. \A q \in Runs : pc'[q] \in UsesDir /\ q \notin dirs' => Passed(q)
    BY <2>1, <2>3, <2>4 DEF KeptInv
  <2> QED
    BY <1>1, <1>2, <2>1, <2>2, <2>5 DEF KeptInv
<1>7. ASSUME NEW r \in Runs, Mkdtemp(r) PROVE KeptInv'
  <2>1. /\ UNCHANGED doomed /\ pc[r] = "remove" /\ pc' = [pc EXCEPT ![r] = "islink"]
        /\ dirs' = dirs \cup {r} /\ born' = [born EXCEPT ![r] = now'] /\ Touch(r)
    BY <1>7 DEF Mkdtemp, GoTo
  <2>2. \A q \in Runs : mtime[q] <= mtime'[q]
    BY <2>1, TouchEffect
  <2>3. \A q \in Runs : \A p \in Range(doomed[q]) : p # r
    BY <2>1 DEF PathInv, Made
  <2> QED
    BY <1>0, <1>1, <1>2, <2>1, <2>2, <2>3 DEF KeptInv
<1>8. ASSUME NEW r \in Runs, Rest(r) PROVE KeptInv'
  <2>1. /\ UNCHANGED <<dirs, born>>
        /\ \E to : pc' = [pc EXCEPT ![r] = to] /\ (to \in UsesDir => pc[r] \in UsesDir)
        /\ doomed' = doomed \/ doomed' = [doomed EXCEPT ![r] = <<>>]
        /\ \A q \in Runs : mtime[q] <= mtime'[q]
    BY <1>8, RestEffect
  <2>2. \A q \in Runs : Range(doomed'[q]) \subseteq Range(doomed[q])
    BY <1>0, <2>1, NothingCondemned
  <2>3. \A q \in Runs : pc'[q] \in UsesDir => pc[q] \in UsesDir
    BY <1>0, <2>1
  <2>4. \A q \in Runs : \A p \in Range(doomed'[q]) : Passed(p) /\ p \in Runs
    BY <1>1, <2>2 DEF KeptInv
  <2>5. \A q \in Runs : pc'[q] \in UsesDir /\ q \notin dirs' => Passed(q)
    BY <2>1, <2>3 DEF KeptInv
  <2> QED
    BY <1>2, <2>1, <2>4, <2>5
<1> QED
  BY <1>3, <1>4, <1>5, <1>6, <1>7, <1>8, NextCases

\* However the runs overlap and crash, the directory of a session under way goes
\* only when max_rotate - 1 others, of newer or of older runs, have changed since it
\* was made.
THEOREM InUseKept == Spec => []LiveDirsKept
<1>1. Spec => [](TypeOK /\ PathInv)
  BY TypeInit, TypeStep, PathInit, PathStep, PTL DEF Spec
<1>2. Spec => []KeptInv
  BY <1>1, KeptInit, KeptStep, PTL DEF Spec
<1>3. KeptInv => LiveDirsKept
  BY DEF KeptInv, LiveDirsKept, UsesDir, Passed
<1> QED
  BY <1>2, <1>3, PTL

(***************************************************************************)
(* The directories do not pile up.  A run between its listing and its      *)
(* mkdtemp does not see the directories made meanwhile, so each such run   *)
(* is given its own account of the directories there are: those it keeps,  *)
(* those it will remove, and those made since by runs that were under way  *)
(* when it listed.  A run that was not, and makes its directory first, has *)
(* rotated later: its account replaces that of the other.                  *)
(***************************************************************************)

\* The runs between their listing and mkdtemp.
Pending == {r \in Runs : pc[r] \in {"sort", "remove"}}

\* The account of r: B are the runs that may still make a directory that r does not
\* know of, r included.
Room(r, B) ==
    \E kept, new \in SUBSET Runs :
        /\ Cardinality(kept) <= MaxRotate /\ Cardinality(new \cup B) <= Concurrent
        /\ \/ dirs \subseteq kept \cup new \cup Range(doomed[r])
           \/ pc[r] = "sort" /\ dirs \subseteq listed[r] \cup new

\* Every pending run has an account; of two, one counts on all the runs of the other.
Accounts(b) ==
    /\ \A r \in Pending : r \in b[r] /\ Room(r, b[r])
    /\ \A q, r \in Pending : b[q] \subseteq b[r] \/ b[r] \subseteq b[q]

BoundInv ==
    /\ Cardinality({q \in Runs : Live(q)}) <= Concurrent
    /\ \E b \in [Pending -> SUBSET Pending] : Accounts(b)
    /\ DirsBounded

\* A set of runs is finite, and what is left of it is no larger.
LEMMA RunSets ==
    ASSUME NEW S \in SUBSET Runs, NEW T \in SUBSET S
    PROVE  /\ IsFiniteSet(S) /\ Cardinality(S) \in Nat /\ Cardinality(T) \in Nat
           /\ Cardinality(T) <= Cardinality(S)
<1>1. IsFiniteSet(S) /\ IsFiniteSet(T)
  BY RunsFinite, FS_Subset
<1> QED
  BY <1>1, FS_Subset, FS_CardinalityType

\* Fewer directories, and fewer runs to make them, leave the account of r right.
LEMMA RoomKept ==
    ASSUME NEW r \in Runs, NEW B \in SUBSET Runs, NEW C \in SUBSET B, Room(r, B),
           dirs' \subseteq dirs, pc'[r] = pc[r], listed'[r] = listed[r], doomed'[r] = doomed[r]
    PROVE  Room(r, C)'
<1>1. PICK kept \in SUBSET Runs, new \in SUBSET Runs :
        /\ Cardinality(kept) <= MaxRotate /\ Cardinality(new \cup B) <= Concurrent
        /\ \/ dirs \subseteq kept \cup new \cup Range(doomed[r])
           \/ pc[r] = "sort" /\ dirs \subseteq listed[r] \cup new
  BY DEF Room
<1>2. Cardinality(new \cup C) <= Concurrent
  <2>1. new \cup B \in SUBSET Runs /\ new \cup C \in SUBSET (new \cup B)
    OBVIOUS
  <2>2. /\ Cardinality(new \cup C) <= Cardinality(new \cup B)
        /\ Cardinality(new \cup C) \in Nat /\ Cardinality(new \cup B) \in Nat
    BY <2>1, RunSets
  <2> QED
    BY <1>1, <2>2, RunltpAssumption
<1>3. \/ dirs' \subseteq kept \cup new \cup Range(doomed'[r])
      \/ pc'[r] = "sort" /\ dirs' \subseteq listed'[r] \cup new
  BY <1>1
<1> QED
  BY <1>1, <1>2, <1>3 DEF Room

\* A run that leaves the rotation without a directory leaves the other accounts right.
LEMMA LeaveAccounts ==
    ASSUME TypeOK, NEW b \in [Pending -> SUBSET Pending], Accounts(b), NEW r \in Runs,
           dirs' \subseteq dirs, Pending' = Pending \ {r},
           \A q \in Runs \ {r} :
             pc'[q] = pc[q] /\ listed'[q] = listed[q] /\ doomed'[q] = doomed[q]
    PROVE  \E c \in [Pending' -> SUBSET Pending'] : Accounts(c)'
<1>0. PICK c : c = [q \in Pending \ {r} |-> b[q] \ {r}]
  OBVIOUS
<1>1. c \in [Pending' -> SUBSET Pending']
  BY <1>0
<1>2. \A q \in Pending \ {r} : q \in c[q] /\ Room(q, c[q])'
  <2> SUFFICES ASSUME NEW q \in Pending \ {r} PROVE q \in c[q] /\ Room(q, c[q])'
    OBVIOUS
  <2>1. q \in b[q] /\ Room(q, b[q]) /\ q \in Runs
    BY DEF Accounts, Pending
  <2>2. b[q] \in SUBSET Runs /\ c[q] \in SUBSET b[q] /\ q \in c[q]
    BY <1>0, <2>1 DEF Pending
  <2>3. Room(q, c[q])'
    BY <2>1, <2>2, RoomKept
  <2> QED
    BY <2>2, <2>3
<1>3. \A p, q \in Pending \ {r} : c[p] \subseteq c[q] \/ c[q] \subseteq c[p]
  BY <1>0 DEF Accounts
<1>4. Accounts(c)'
  BY <1>2, <1>3 DEF Accounts
<1> QED
  BY <1>1, <1>4

\* A run that lists the directories knows them all, and counts on all the others.
LEMMA JoinAccounts ==
    ASSUME TypeOK, BoundInv, NEW b \in [Pending -> SUBSET Pending], Accounts(b),
           NEW r \in Runs, Iterate(r)
    PROVE  \E c \in [Pending' -> SUBSET Pending'] : Accounts(c)'
<1>0. pc \in [Runs -> Points] /\ dirs \subseteq Runs /\ doomed \in [Runs -> Seq(Runs)]
      /\ listed \in [Runs -> SUBSET (Runs \cup {Link})]
  BY DEF TypeOK
<1>1. /\ pc[r] = "iterate" /\ pc' = [pc EXCEPT ![r] = "sort"] /\ UNCHANGED <<dirs, doomed>>
      /\ \A q \in Runs : q # r => listed'[q] = listed[q]
      /\ dirs \subseteq listed'[r]
  BY <1>0 DEF Iterate, GoTo
<1>2. r \notin Pending /\ Pending' = Pending \cup {r}
  BY <1>0, <1>1 DEF Pending
<1>3. PICK c : c = [q \in Pending \cup {r} |-> IF q = r THEN Pending \cup {r} ELSE b[q]]
  OBVIOUS
<1>4. c \in [Pending' -> SUBSET Pending']
  BY <1>2, <1>3
<1>5. ASSUME NEW q \in Pending PROVE q \in c[q] /\ Room(q, c[q])'
  <2>1. q # r /\ c[q] = b[q] /\ q \in Runs /\ b[q] \in SUBSET Runs
    BY <1>2, <1>3 DEF Pending
  <2>2. q \in b[q] /\ Room(q, b[q])
    BY DEF Accounts
  <2>3. pc'[q] = pc[q] /\ listed'[q] = listed[q] /\ doomed'[q] = doomed[q] /\ dirs' \subseteq dirs
    BY <1>0, <1>1, <2>1
  <2>4. Room(q, b[q])'
    BY <2>1, <2>2, <2>3, RoomKept
  <2> QED
    BY <2>1, <2>2, <2>4
<1>6. r \in c[r] /\ Room(r, c[r])'
  <2>1. c[r] = Pending \cup {r} /\ c[r] \in SUBSET {q \in Runs : Live(q)}
    BY <1>1, <1>3 DEF Pending, Live, Over
  <2>2. Cardinality(c[r]) <= Concurrent
    <3>1. /\ Cardinality(c[r]) <= Cardinality({q \in Runs : Live(q)})
          /\ Cardinality(c[r]) \in Nat /\ Cardinality({q \in Runs : Live(q)}) \in Nat
      BY <2>1, RunSets
    <3> QED
      BY <3>1, RunltpAssumption DEF BoundInv
  <2>3. Cardinality({}) <= MaxRotate /\ {} \cup c[r] = c[r]
    BY RunltpAssumption, FS_EmptySet
  <2>4. pc'[r] = "sort" /\ dirs' \subseteq listed'[r] \cup {}
    BY <1>0, <1>1
  <2>5. Room(r, c[r])'
    BY <2>2, <2>3, <2>4 DEF Room
  <2> QED
    BY <2>1, <2>5
<1>7. \A p, q \in Pending \cup {r} : c[p] \subseteq c[q] \/ c[q] \subseteq c[p]
  BY <1>3 DEF Accounts
<1>8. Accounts(c)'
  BY <1>2, <1>5, <1>6, <1>7 DEF Accounts
<1> QED
  BY <1>4, <1>8

\* A run that goes on with what it knows.
LEMMA GoOnAccounts ==
    ASSUME TypeOK, NEW b \in [Pending -> SUBSET Pending], Accounts(b), NEW r \in Runs,
           dirs' \subseteq dirs, Pending' = Pending,
           \A q \in Runs \ {r} :
             pc'[q] = pc[q] /\ listed'[q] = listed[q] /\ doomed'[q] = doomed[q],
           \A B \in SUBSET Runs : Room(r, B) => Room(r, B)'
    PROVE  \E c \in [Pending' -> SUBSET Pending'] : Accounts(c)'
<1>1. ASSUME NEW q \in Pending PROVE Room(q, b[q])'
  <2>1. q \in Runs /\ b[q] \in SUBSET Runs /\ Room(q, b[q])
    BY DEF Accounts, Pending
  <2>2. CASE q = r
    BY <2>1, <2>2
  <2>3. CASE q # r
    BY <2>1, <2>3, RoomKept
  <2> QED
    BY <2>2, <2>3
<1>2. Accounts(b)'
  BY <1>1 DEF Accounts
<1> QED
  BY <1>2

\* What a run has sorted, it keeps or will remove.
LEMMA SortAccounts ==
    ASSUME TypeOK, NEW r \in Runs, pc[r] = "sort", pc'[r] = "remove", UNCHANGED dirs,
           NEW order \in SetToSeqs(listed[r]), doomed'[r] = Oldest(order),
           NEW B \in SUBSET Runs, Room(r, B)
    PROVE  Room(r, B)'
<1>0. doomed[r] = <<>> /\ dirs \subseteq Runs /\ listed[r] \in SUBSET (Runs \cup {Link})
  BY DEF TypeOK
<1>1. PICK kept \in SUBSET Runs, new \in SUBSET Runs :
        /\ Cardinality(kept) <= MaxRotate /\ Cardinality(new \cup B) <= Concurrent
        /\ \/ dirs \subseteq kept \cup new \cup Range(doomed[r])
           \/ pc[r] = "sort" /\ dirs \subseteq listed[r] \cup new
  BY DEF Room
<1>2. CASE dirs \subseteq kept \cup new \cup Range(doomed[r])
  <2>1. dirs' \subseteq kept \cup new \cup Range(doomed'[r])
    BY <1>0, <1>2, NothingCondemned
  <2> QED
    BY <1>1, <2>1 DEF Room
<1>3. CASE dirs \subseteq listed[r] \cup new
  <2>1. PICK rest : rest = (listed[r] \ {Link}) \ Range(Oldest(order))
    OBVIOUS
  <2>2. rest \in SUBSET Runs /\ Cardinality(rest) <= MaxRotate
    BY <1>0, <2>1, OldestEffect
  <2>3. Link \notin dirs
    BY <1>0 DEF Link, Runs
  <2>4. dirs' \subseteq rest \cup new \cup Range(doomed'[r])
    BY <1>3, <2>1, <2>3
  <2> QED
    BY <1>1, <2>2, <2>4 DEF Room
<1> QED
  BY <1>1, <1>2, <1>3

\* What a run removes is no longer there.
LEMMA RemoveAccounts ==
    ASSUME TypeOK, NEW r \in Runs, pc[r] = "remove", doomed[r] # <<>>,
           dirs' = dirs \ {Head(doomed[r])}, doomed'[r] = Tail(doomed[r]),
           NEW B \in SUBSET Runs, Room(r, B)
    PROVE  Room(r, B)'
<1>1. PICK kept \in SUBSET Runs, new \in SUBSET Runs :
        /\ Cardinality(kept) <= MaxRotate /\ Cardinality(new \cup B) <= Concurrent
        /\ dirs \subseteq kept \cup new \cup Range(doomed[r])
  BY DEF Room
<1>2. doomed[r] \in Seq(Runs)
  BY DEF TypeOK
<1>3. Range(doomed[r]) \subseteq {Head(doomed[r])} \cup Range(Tail(doomed[r]))
  <2>1. /\ DOMAIN doomed[r] = 1 .. Len(doomed[r]) /\ Len(doomed[r]) \in Nat
        /\ DOMAIN Tail(doomed[r]) = 1 .. Len(doomed[r]) - 1
        /\ Head(doomed[r]) = doomed[r][1]
        /\ \A i \in 1 .. Len(doomed[r]) - 1 : Tail(doomed[r])[i] = doomed[r][i + 1]
    BY <1>2
  <2>2. \A i \in 2 .. Len(doomed[r]) :
           i - 1 \in DOMAIN Tail(doomed[r]) /\ doomed[r][i] = Tail(doomed[r])[i - 1]
    BY <2>1
  <2>3. \A i \in DOMAIN doomed[r] : i = 1 \/ i \in 2 .. Len(doomed[r])
    BY <2>1
  <2> QED
    BY <2>1, <2>2, <2>3 DEF Range
<1>4. dirs' \subseteq kept \cup new \cup Range(doomed'[r])
  BY <1>1, <1>3
<1> QED
  BY <1>1, <1>4 DEF Room

\* A run that makes its directory: who counted on it knows the directory now, and the
\* others take over its account.
LEMMA MakeAccounts ==
    ASSUME TypeOK, NEW b \in [Pending -> SUBSET Pending], Accounts(b), NEW r \in Runs, Mkdtemp(r)
    PROVE  \E c \in [Pending' -> SUBSET Pending'] : Accounts(c)'
<1>0. pc \in [Runs -> Points] /\ dirs \subseteq Runs
  BY DEF TypeOK
<1>1. /\ pc[r] = "remove" /\ pc' = [pc EXCEPT ![r] = "islink"] /\ UNCHANGED <<listed, doomed>>
      /\ doomed[r] = <<>> /\ dirs' = dirs \cup {r}
  BY DEF Mkdtemp, GoTo
<1>2. r \in Pending /\ Pending' = Pending \ {r}
  BY <1>0, <1>1 DEF Pending
<1>3. PICK c : c = [q \in Pending \ {r} |-> IF r \in b[q] THEN b[q] \ {r} ELSE b[r] \ {r}]
  OBVIOUS
<1>4. c \in [Pending' -> SUBSET Pending']
  BY <1>2, <1>3
<1>5. ASSUME NEW q \in Pending \ {r} PROVE q \in c[q] /\ Room(q, c[q])'
  <2>1. /\ q \in b[q] /\ r \in b[r] /\ q \in Runs /\ Room(q, b[q]) /\ Room(r, b[r])
        /\ b[q] \subseteq b[r] \/ b[r] \subseteq b[q]
    BY <1>2 DEF Accounts, Pending
  <2>2. q \in c[q]
    BY <1>3, <2>1
  <2>3. pc'[q] = pc[q]
    BY <1>0, <1>1, <2>1
  <2>4. CASE r \in b[q]
    <3>1. PICK kept \in SUBSET Runs, new \in SUBSET Runs :
            /\ Cardinality(kept) <= MaxRotate /\ Cardinality(new \cup b[q]) <= Concurrent
            /\ \/ dirs \subseteq kept \cup new \cup Range(doomed[q])
               \/ pc[q] = "sort" /\ dirs \subseteq listed[q] \cup new
      BY <2>1 DEF Room
    <3>2. (new \cup {r}) \cup c[q] = new \cup b[q]
      BY <1>3, <2>4
    <3>3. PICK more : more = new \cup {r}
      OBVIOUS
    <3>4. \/ dirs' \subseteq kept \cup more \cup Range(doomed'[q])
          \/ pc'[q] = "sort" /\ dirs' \subseteq listed'[q] \cup more
      BY <1>1, <2>3, <3>1, <3>3
    <3>5. more \in SUBSET Runs /\ Cardinality(more \cup c[q]) <= Concurrent
      BY <3>1, <3>2, <3>3
    <3> QED
      BY <2>2, <3>1, <3>4, <3>5 DEF Room
  <2>5. CASE r \notin b[q]
    <3>1. PICK kept \in SUBSET Runs, new \in SUBSET Runs :
            /\ Cardinality(kept) <= MaxRotate /\ Cardinality(new \cup b[r]) <= Concurrent
            /\ dirs \subseteq kept \cup new \cup Range(doomed[r])
      BY <1>1, <2>1 DEF Room
    <3>2. (new \cup {r}) \cup c[q] = new \cup b[r]
      BY <1>3, <2>1, <2>5
    <3>3. PICK more : more = new \cup {r}
      OBVIOUS
    <3>4. dirs' \subseteq kept \cup more \cup Range(doomed'[q])
      BY <1>1, <3>1, <3>3, NothingCondemned
    <3>5. more \in SUBSET Runs /\ Cardinality(more \cup c[q]) <= Concurrent
      BY <3>1, <3>2, <3>3
    <3> QED
      BY <2>2, <3>1, <3>4, <3>5 DEF Room
  <2> QED
    BY <2>4, <2>5
<1>6. \A p, q \in Pending \ {r} : c[p] \subseteq c[q] \/ c[q] \subseteq c[p]
  BY <1>2, <1>3 DEF Accounts
<1>7. Accounts(c)'
  BY <1>2, <1>5, <1>6 DEF Accounts
<1> QED
  BY <1>4, <1>7

\* There is room for one more directory.
LEMMA MakeBounded ==
    ASSUME TypeOK, NEW b \in [Pending -> SUBSET Pending], Accounts(b), NEW r \in Runs, Mkdtemp(r)
    PROVE  DirsBounded'
<1>1. pc[r] = "remove" /\ doomed[r] = <<>> /\ dirs' = dirs \cup {r} /\ dirs \subseteq Runs
  BY DEF Mkdtemp, GoTo, TypeOK
<1>2. r \in Pending
  BY <1>1 DEF Pending
<1>3. r \in b[r] /\ b[r] \in SUBSET Runs /\ Room(r, b[r])
  BY <1>2 DEF Accounts, Pending
<1>4. PICK kept \in SUBSET Runs, new \in SUBSET Runs :
        /\ Cardinality(kept) <= MaxRotate /\ Cardinality(new \cup b[r]) <= Concurrent
        /\ dirs \subseteq kept \cup new
  BY <1>1, <1>3, NothingCondemned DEF Room
<1>5. PICK others : others = new \cup b[r]
  OBVIOUS
<1>6. /\ IsFiniteSet(kept) /\ IsFiniteSet(others) /\ IsFiniteSet(kept \cap others)
      /\ Cardinality(kept) \in Nat /\ Cardinality(others) \in Nat
      /\ Cardinality(kept \cap others) \in Nat
  BY <1>3, <1>5, RunSets
<1>7. Cardinality(kept \cup others) = Cardinality(kept) + Cardinality(others) - Cardinality(kept \cap others)
  BY <1>6, FS_Union
<1>8. /\ Cardinality(dirs') <= Cardinality(kept \cup others)
      /\ Cardinality(dirs') \in Nat /\ Cardinality(kept \cup others) \in Nat
  <2>1. kept \cup others \in SUBSET Runs /\ dirs' \in SUBSET (kept \cup others)
    BY <1>1, <1>3, <1>4, <1>5
  <2> QED
    BY <2>1, RunSets
<1>9. Cardinality(dirs') <= MaxRotate + Concurrent
  <2>1. Cardinality(kept) <= MaxRotate /\ Cardinality(others) <= Concurrent
    BY <1>4, <1>5
  <2>2. MaxRotate \in Nat /\ Concurrent \in Nat
    BY RunltpAssumption
  <2> QED
    BY <1>6, <1>7, <1>8, <2>1, <2>2
<1> QED
  BY <1>9 DEF DirsBounded

\* The first directories are within the bound, and nobody is pending.
LEMMA BoundInit == Init => BoundInv
<1> SUFFICES ASSUME Init PROVE BoundInv
  OBVIOUS
<1>1. \A q \in Runs : ~Live(q) /\ pc[q] \notin {"sort", "remove"}
  BY DEF Init, Live, Over
<1>2. Cardinality({q \in Runs : Live(q)}) <= Concurrent
  <2>1. {q \in Runs : Live(q)} = {}
    BY <1>1
  <2> QED
    BY <2>1, FS_EmptySet, RunltpAssumption
<1>3. Pending = {}
  BY <1>1 DEF Pending
<1>4. \E b \in [Pending -> SUBSET Pending] : Accounts(b)
  <2>1. PICK b : b = [q \in Pending |-> {}]
    OBVIOUS
  <2>2. b \in [Pending -> SUBSET Pending] /\ Accounts(b)
    BY <1>3, <2>1 DEF Accounts
  <2> QED
    BY <2>2
<1>5. DirsBounded
  <2>1. PICK n \in 0 .. Earlier : dirs = 1 .. n
    BY DEF Init
  <2>2. n \in Int /\ Cardinality(dirs) = IF 1 > n THEN 0 ELSE n - 1 + 1
    BY <2>1, RunltpAssumption, FS_Interval
  <2>3. Cardinality(dirs) = n
    BY <2>1, <2>2, RunltpAssumption
  <2> QED
    BY <2>1, <2>3, RunltpAssumption DEF DirsBounded
<1> QED
  BY <1>2, <1>4, <1>5 DEF BoundInv

\* No run but one that starts comes to life.
LEMMA LiveStep ==
    ASSUME TypeOK, [Next]_vars
    PROVE  (\A q \in Runs : Live(q)' => Live(q)) \/ \E r \in Runs : Start(r)
<1> USE DEF Live, Over
<1>0. pc \in [Runs -> Points]
  BY DEF TypeOK
<1>1. CASE UNCHANGED vars
  BY <1>1 DEF vars
<1>2. ASSUME NEW r \in Runs, Iterate(r) \/ Sort(r) \/ Mkdtemp(r)
      PROVE  \A q \in Runs : Live(q)' => Live(q)
  BY <1>0, <1>2 DEF Iterate, Sort, Mkdtemp, GoTo
<1>3. ASSUME NEW r \in Runs, Rmtree(r) PROVE \A q \in Runs : Live(q)' => Live(q)
  BY <1>0, <1>3, RmtreeEffect
<1>4. ASSUME NEW r \in Runs, Rest(r) PROVE \A q \in Runs : Live(q)' => Live(q)
  BY <1>0, <1>4, RestEffect
<1> QED
  BY <1>1, <1>2, <1>3, <1>4, NextCases

\* There are never more runs under way than that.
LEMMA ConcurrentStep ==
    ASSUME TypeOK, Cardinality({q \in Runs : Live(q)}) <= Concurrent, [Next]_vars
    PROVE  Cardinality({q \in Runs : Live(q)'}) <= Concurrent
<1>1. PICK now0, next :
        now0 = {q \in Runs : Live(q)} /\ next = {q \in Runs : Live(q)'}
  OBVIOUS
<1>2. CASE \A q \in Runs : Live(q)' => Live(q)
  <2>1. now0 \in SUBSET Runs /\ next \in SUBSET now0
    BY <1>1, <1>2
  <2>2. Cardinality(next) <= Cardinality(now0) /\ Cardinality(next) \in Nat /\ Cardinality(now0) \in Nat
    BY <2>1, RunSets
  <2> QED
    BY <1>1, <2>2, RunltpAssumption
<1>3. ASSUME NEW r \in Runs, Start(r) PROVE Cardinality(next) <= Concurrent
  <2>1. Cardinality(now0) < Concurrent /\ \A q \in Runs : q # r => pc'[q] = pc[q]
    BY <1>1, <1>3 DEF Start, Enter, TypeOK
  <2>2. now0 \cup {r} \in SUBSET Runs /\ next \in SUBSET (now0 \cup {r}) /\ now0 \in SUBSET Runs
    BY <1>1, <2>1 DEF Live
  <2>3. IsFiniteSet(now0) /\ Cardinality(now0) \in Nat
    BY <2>2, RunSets
  <2>4. Cardinality(now0 \cup {r}) <= Cardinality(now0) + 1
    <3>1. \/ Cardinality(now0 \cup {r}) = Cardinality(now0)
          \/ Cardinality(now0 \cup {r}) = Cardinality(now0) + 1
      BY <2>3, FS_AddElement
    <3> QED
      BY <2>3, <3>1
  <2>5. /\ Cardinality(next) <= Cardinality(now0 \cup {r})
        /\ Cardinality(next) \in Nat /\ Cardinality(now0 \cup {r}) \in Nat
    BY <2>2, RunSets
  <2> QED
    BY <2>1, <2>3, <2>4, <2>5, RunltpAssumption
<1> QED
  BY <1>1, <1>2, <1>3, LiveStep

\* Every step keeps the bound and the accounts.
LEMMA BoundStep ==
    ASSUME TypeOK, BoundInv, [Next]_vars
    PROVE  BoundInv'
<1>0. /\ pc \in [Runs -> Points] /\ doomed \in [Runs -> Seq(Runs)] /\ dirs \subseteq Runs
      /\ listed \in [Runs -> SUBSET (Runs \cup {Link})]
  BY DEF TypeOK
<1>1. Cardinality({q \in Runs : Live(q)'}) <= Concurrent
  BY ConcurrentStep DEF BoundInv
<1>2. PICK b \in [Pending -> SUBSET Pending] : Accounts(b)
  BY DEF BoundInv
<1> DEFINE Balanced == \E c \in [Pending' -> SUBSET Pending'] : Accounts(c)'
<1>3. ASSUME dirs' \subseteq dirs PROVE DirsBounded'
  <2>1. Cardinality(dirs') <= Cardinality(dirs) /\ Cardinality(dirs') \in Nat /\ Cardinality(dirs) \in Nat
    BY <1>0, <1>3, RunSets
  <2> QED
    BY <2>1, RunltpAssumption DEF BoundInv, DirsBounded
<1>4. ASSUME Balanced, DirsBounded' PROVE BoundInv'
  BY <1>1, <1>4 DEF BoundInv
<1>5. CASE UNCHANGED vars
  <2>1. UNCHANGED <<pc, doomed, listed, dirs>>
    BY <1>5 DEF vars
  <2>2. Pending' = Pending /\ Accounts(b)'
    BY <1>2, <2>1 DEF Pending, Accounts, Room
  <2> QED
    BY <1>2, <1>3, <1>4, <2>1, <2>2
<1>6. ASSUME NEW r \in Runs, Start(r) PROVE BoundInv'
  <2>1. /\ UNCHANGED <<doomed, dirs, listed>> /\ pc[r] = "unborn"
        /\ pc'[r] \in {"refused", "iterate"} /\ \A q \in Runs : q # r => pc'[q] = pc[q]
    BY <1>0, <1>6 DEF Start, Enter
  <2>2. Pending' = Pending \ {r}
    BY <1>0, <2>1 DEF Pending
  <2>3. Balanced
    BY <1>2, <2>1, <2>2, LeaveAccounts
  <2> QED
    BY <1>3, <1>4, <2>1, <2>3
<1>7. ASSUME NEW r \in Runs, Iterate(r) PROVE BoundInv'
  BY <1>2, <1>3, <1>4, <1>7, JoinAccounts DEF Iterate
<1>8. ASSUME NEW r \in Runs, Sort(r) PROVE BoundInv'
  <2>1. /\ UNCHANGED dirs /\ pc[r] = "sort"
        /\ \A q \in Runs \ {r} : pc'[q] = pc[q] /\ listed'[q] = listed[q] /\ doomed'[q] = doomed[q]
    BY <1>0, <1>8 DEF Sort, GoTo
  <2>2. CASE pc'[r] = "failed"
    <3>1. Pending' = Pending \ {r}
      BY <2>1, <2>2 DEF Pending
    <3> QED
      BY <1>2, <1>3, <1>4, <2>1, <3>1, LeaveAccounts
  <2>3. CASE /\ pc'[r] = "remove"
             /\ \E order \in SetToSeqs(listed[r]) : doomed'[r] = Oldest(order)
    <3>1. Pending' = Pending
      BY <2>1, <2>3 DEF Pending
    <3>2. \A B \in SUBSET Runs : Room(r, B) => Room(r, B)'
      BY <2>1, <2>3, SortAccounts
    <3> QED
      BY <1>2, <1>3, <1>4, <2>1, <3>1, <3>2, GoOnAccounts
  <2> QED
    BY <1>0, <1>8, <2>2, <2>3 DEF Sort, GoTo
<1>9. ASSUME NEW r \in Runs, Rmtree(r) PROVE BoundInv'
  <2>1. /\ dirs' \subseteq dirs /\ pc[r] = "remove" /\ doomed[r] # <<>>
        /\ \A q \in Runs \ {r} : pc'[q] = pc[q] /\ listed'[q] = listed[q] /\ doomed'[q] = doomed[q]
    <3>1. /\ pc[r] = "remove" /\ doomed[r] # <<>> /\ UNCHANGED listed
          /\ UNCHANGED pc \/ pc' = [pc EXCEPT ![r] = "failed"]
          /\ dirs' = dirs \ {Head(doomed[r])} \/ UNCHANGED dirs
          /\ \/ doomed' = [doomed EXCEPT ![r] = Tail(doomed[r])]
             \/ doomed' = [doomed EXCEPT ![r] = <<>>]
      BY <1>9, RmtreeEffect, Zenon
    <3>2. \A q \in Runs \ {r} : doomed'[q] = doomed[q]
      BY <1>0, <3>1
    <3>3. \A q \in Runs \ {r} : pc'[q] = pc[q] /\ listed'[q] = listed[q]
      BY <1>0, <3>1
    <3> QED
      BY <3>1, <3>2, <3>3
  <2>2. CASE pc'[r] = "failed"
    <3>1. Pending' = Pending \ {r}
      BY <2>1, <2>2 DEF Pending
    <3> QED
      BY <1>2, <1>3, <1>4, <2>1, <3>1, LeaveAccounts
  <2>3. CASE /\ UNCHANGED pc /\ dirs' = dirs \ {Head(doomed[r])} /\ doomed'[r] = Tail(doomed[r])
    <3>1. Pending' = Pending
      BY <2>3 DEF Pending
    <3>2. \A B \in SUBSET Runs : Room(r, B) => Room(r, B)'
      BY <2>1, <2>3, RemoveAccounts
    <3> QED
      BY <1>2, <1>3, <1>4, <2>1, <3>1, <3>2, GoOnAccounts
  <2> QED
    BY <1>0, <1>9, <2>2, <2>3, RmtreeEffect
<1>10. ASSUME NEW r \in Runs, Mkdtemp(r) PROVE BoundInv'
  BY <1>2, <1>4, <1>10, MakeAccounts, MakeBounded
<1>11. ASSUME NEW r \in Runs, Rest(r) PROVE BoundInv'
  <2>1. /\ dirs' \subseteq dirs /\ pc'[r] \notin {"sort", "remove"}
        /\ \A q \in Runs \ {r} : pc'[q] = pc[q] /\ listed'[q] = listed[q] /\ doomed'[q] = doomed[q]
    BY <1>0, <1>11, RestEffect
  <2>2. Pending' = Pending \ {r}
    BY <2>1 DEF Pending
  <2> QED
    BY <1>2, <1>3, <1>4, <2>1, <2>2, LeaveAccounts
<1> QED
  BY <1>5, <1>6, <1>7, <1>8, <1>9, <1>10, <1>11, NextCases

\* However many runs there are, overlap and crash, their directories do not pile up:
\* there is at most one above max_rotate for each run that may be under way.
THEOREM RotationBounds == Spec => []DirsBounded
<1>1. Spec => []TypeOK
  BY TypeCorrect
<1>2. Spec => []BoundInv
  BY <1>1, BoundInit, BoundStep, PTL DEF Spec
<1>3. BoundInv => DirsBounded
  BY DEF BoundInv
<1> QED
  BY <1>2, <1>3, PTL

(***************************************************************************)
(* A run that overlaps no other.  While it is the last to have started,    *)
(* nobody else takes a step: the runs before it are over.  So what one of  *)
(* its steps has seen still holds at the next, and the invariant says, at  *)
(* each point of the run, what that is.                                    *)
(***************************************************************************)

LastAlone(r) == r > Earlier /\ alone[r] /\ \A q \in Runs : q > r => pc[q] = "unborn"

\* The runs before one that has overlapped no other are over.
AfterInv ==
    \A r \in Runs : r > Earlier /\ alone[r] /\ pc[r] # "unborn" =>
        \A q \in Runs : q < r => pc[q] \in Over

\* Who has opened the report, and who means to.
ReportInv ==
    /\ \A r \in Runs : report.of = r => pc[r] \in {"dump", "exit", "crashed"}
    /\ \A r \in Runs : pc[r] \in {"save", "open", "dump"} => r \in WithReport

\* What r knows of the directories and of the link.
DirsKnown(r) ==
    /\ pc[r] = "sort" =>
        listed[r] \subseteq dirs \cup {Link} /\ (Link \in listed[r] => latest # Link)
    /\ pc[r] = "remove" => Range(doomed[r]) \subseteq dirs /\ IsInjective(doomed[r])
    /\ pc[r] \in {"islink", "unlink", "symlink"} => r \in dirs
    /\ pc[r] = "unlink" => latest # Link
    /\ pc[r] = "symlink" => latest = Link
    /\ pc[r] \in {"log", "session", "save", "open", "dump", "exit"} => latest = r /\ r \in dirs
    /\ pc[r] = "failed" => Dangling

\* What r knows of the report.
ReportKnown(r) ==
    /\ r \in WithReport /\ pc[r] \in Rotation \cup {"log", "session", "save", "open"} =>
        report.of = 0
    /\ pc[r] = "dump" => report.of = r
    /\ report.of = r /\ pc[r] # "dump" => report.whole \/ pc[r] = "crashed"

AloneInv == \A r \in Runs : LastAlone(r) => DirsKnown(r) /\ ReportKnown(r)

\* A link that leads nowhere is left by the removal of its directory, until the same
\* run has made it anew.
LinkInv ==
    (\A r \in Runs : pc[r] # "crashed" /\ alone[r]) /\ Dangling =>
        \E r \in Runs : pc[r] \in {"remove", "islink", "unlink"}

\* A step is of one run, and never one that is over.
LEMMA StepOfOne ==
    ASSUME TypeOK, NEW r \in Runs,
           Start(r) \/ Iterate(r) \/ Sort(r) \/ Rmtree(r) \/ Mkdtemp(r) \/ Rest(r)
    PROVE  /\ pc[r] \notin Over /\ pc'[r] # "unborn"
           /\ \A q \in Runs \ {r} : pc'[q] = pc[q]
           /\ \A q \in Runs : alone'[q] => alone[q]
           /\ pc[r] = "unborn" => Start(r)
<1>0. pc \in [Runs -> Points] /\ alone \in [Runs -> BOOLEAN]
  BY DEF TypeOK
<1>1. CASE Start(r)
  <2>1. \A q \in Runs : alone'[q] => alone[q]
    BY <1>0, <1>1, Zenon DEF Start, Enter
  <2> QED
    BY <1>0, <1>1, <2>1 DEF Start, Enter, Over
<1>2. CASE Iterate(r) \/ Sort(r) \/ Mkdtemp(r)
  BY <1>0, <1>2 DEF Iterate, Sort, Mkdtemp, GoTo, history, Over
<1>3. CASE Rmtree(r)
  <2>1. /\ pc[r] = "remove" /\ UNCHANGED alone
        /\ UNCHANGED pc \/ pc' = [pc EXCEPT ![r] = "failed"]
    BY <1>3, RmtreeEffect, Zenon
  <2> QED
    BY <1>0, <2>1 DEF Over
<1>4. CASE Rest(r)
  <2>1. /\ Live(r) /\ UNCHANGED alone
        /\ \E to \in Points \ {"unborn", "iterate", "sort", "remove"} : pc' = [pc EXCEPT ![r] = to]
    BY <1>4, RestEffect, Zenon
  <2> QED
    BY <1>0, <2>1 DEF Live
<1> QED
  BY <1>1, <1>2, <1>3, <1>4

\* Initially only the earlier runs are over, and the report is nobody's.
LEMMA AloneInit == Init => AfterInv /\ ReportInv /\ AloneInv /\ LinkInv
<1> SUFFICES ASSUME Init PROVE AfterInv /\ ReportInv /\ AloneInv /\ LinkInv
  OBVIOUS
<1>1. /\ \A r \in Runs : pc[r] = IF r <= Earlier THEN "exit" ELSE "unborn"
      /\ report = [of |-> 0, whole |-> FALSE] /\ 0 \notin Runs
      /\ Runs \subseteq Nat /\ Earlier \in Nat
  BY EarlierRuns DEF Init, Runs
<1>2. AfterInv
  BY <1>1 DEF AfterInv
<1>3. ReportInv
  BY <1>1 DEF ReportInv
<1>4. AloneInv
  <2> SUFFICES ASSUME NEW r \in Runs, r > Earlier PROVE DirsKnown(r) /\ ReportKnown(r)
    BY DEF AloneInv, LastAlone
  <2>1. pc[r] = "unborn" /\ report.of # r
    BY <1>1
  <2>2. DirsKnown(r)
    BY <2>1 DEF DirsKnown
  <2>3. ReportKnown(r)
    BY <2>1 DEF ReportKnown, Rotation
  <2> QED
    BY <2>2, <2>3
<1>5. ~Dangling
  <2>1. PICK n \in 0 .. Earlier : dirs = 1 .. n /\ latest = n
    BY DEF Init
  <2> QED
    BY <1>1, <2>1 DEF Dangling, Link
<1> QED
  BY <1>2, <1>3, <1>4, <1>5 DEF LinkInv

\* The runs before one that has overlapped no other stay over, and are when it starts.
LEMMA AfterStep ==
    ASSUME TypeOK, AfterInv, [Next]_vars
    PROVE  AfterInv'
<1> SUFFICES ASSUME NEW s \in Runs, s > Earlier, alone'[s], pc'[s] # "unborn",
                    NEW q \in Runs, q < s
             PROVE  pc'[q] \in Over
  BY DEF AfterInv
<1>0. Runs \subseteq Nat /\ Runs = 1 .. MaxRuns /\ pc \in [Runs -> Points]
  BY DEF Runs, TypeOK
<1>1. CASE UNCHANGED vars
  BY <1>1 DEF vars, history, AfterInv
<1>2. ASSUME NEW r \in Runs,
             Start(r) \/ Iterate(r) \/ Sort(r) \/ Rmtree(r) \/ Mkdtemp(r) \/ Rest(r)
      PROVE  pc'[q] \in Over
  <2>1. /\ pc[r] \notin Over /\ \A p \in Runs \ {r} : pc'[p] = pc[p]
        /\ alone[s] /\ (pc[r] = "unborn" => Start(r))
    BY <1>2, StepOfOne
  <2>2. CASE pc[s] # "unborn"
    BY <2>1, <2>2 DEF AfterInv
  <2>3. CASE pc[s] = "unborn"
    <3>1. s = r /\ Start(s)
      BY <2>1, <2>3
    <3>2. /\ \A p \in 1 .. s - 1 : pc[p] # "unborn"
          /\ {p \in Runs : Live(p)} = {}
      <4>1. /\ \A p \in 1 .. s - 1 : pc[p] # "unborn"
            /\ LET met == {p \in Runs : Live(p)}
               IN  alone' = [p \in Runs |-> alone[p] /\ (met = {} \/ p \notin met \cup {s})]
        BY <3>1 DEF Start, Enter
      <4> QED
        BY <4>1, Zenon
    <3>3. q \in 1 .. s - 1
      BY <1>0
    <3>4. pc[q] \in Over /\ q # s
      BY <1>0, <3>2, <3>3 DEF Live
    <3> QED
      BY <2>1, <3>1, <3>4
  <2> QED
    BY <2>2, <2>3
<1> QED
  BY <1>1, <1>2, NextCases

\* What a step may do to the report.
LEMMA ReportStep ==
    ASSUME TypeOK, ReportInv, [Next]_vars
    PROVE  ReportInv'
<1> USE DEF ReportInv
<1>0. pc \in [Runs -> Points]
  BY DEF TypeOK
<1>1. CASE UNCHANGED vars
  BY <1>1 DEF vars
<1>2. ASSUME NEW r \in Runs, Start(r) PROVE ReportInv'
  BY <1>0, <1>2 DEF Start, Enter
<1>3. ASSUME NEW r \in Runs, Iterate(r) \/ Sort(r) \/ Mkdtemp(r) PROVE ReportInv'
  BY <1>0, <1>3 DEF Iterate, Sort, Mkdtemp, GoTo
<1>4. ASSUME NEW r \in Runs, Rmtree(r) PROVE ReportInv'
  <2>1. /\ pc[r] = "remove" /\ UNCHANGED report
        /\ UNCHANGED pc \/ pc' = [pc EXCEPT ![r] = "failed"]
    BY <1>4, RmtreeEffect, Zenon
  <2> QED
    BY <1>0, <2>1
<1>5. ASSUME NEW r \in Runs, IsLink(r) \/ NoResults(r) \/ Save(r) PROVE ReportInv'
  BY <1>0, <1>5 DEF IsLink, NoResults, Save, OnlyPc, GoTo
<1>6. ASSUME NEW r \in Runs, Unlink(r) \/ Symlink(r) PROVE ReportInv'
  BY <1>0, <1>6 DEF Unlink, Symlink, GoTo
<1>7. ASSUME NEW r \in Runs, DebugLog(r) \/ SaveResults(r) PROVE ReportInv'
  BY <1>0, <1>7 DEF DebugLog, SaveResults, Write, GoTo
<1>8. ASSUME NEW r \in Runs, Open(r) PROVE ReportInv'
  <2>1. pc[r] = "open" /\ pc' = [pc EXCEPT ![r] = "dump"] /\ report'.of = r
    BY <1>8 DEF Open, GoTo
  <2> QED
    BY <1>0, <2>1
<1>9. ASSUME NEW r \in Runs, Dump(r) PROVE ReportInv'
  <2>1. report \in [of : Runs \cup {0}, whole : BOOLEAN]
    BY DEF TypeOK
  <2>2. pc[r] = "dump" /\ pc' = [pc EXCEPT ![r] = "exit"] /\ report'.of = report.of
    BY <1>9, <2>1 DEF Dump, GoTo
  <2> QED
    BY <1>0, <2>2
<1>10. ASSUME NEW r \in Runs, Crash(r) PROVE ReportInv'
  BY <1>0, <1>10 DEF Crash, Live, Over
<1> QED
  BY <1>1, <1>2, <1>3, <1>4, <1>5, <1>6, <1>7, <1>8, <1>9, <1>10, NextCases DEF Rest

\* The steps of another run leave what s knows alone: s has not started yet.
LEMMA OthersStep ==
    ASSUME TypeOK, AfterInv, ReportInv', NEW s \in Runs, LastAlone(s)', NEW r \in Runs \ {s},
           Start(r) \/ Iterate(r) \/ Sort(r) \/ Rmtree(r) \/ Mkdtemp(r) \/ Rest(r)
    PROVE  DirsKnown(s)' /\ ReportKnown(s)'
<1>0. Runs \subseteq Nat
  BY DEF Runs
<1>1. /\ pc[r] \notin Over /\ pc'[r] # "unborn" /\ pc'[s] = pc[s] /\ alone[s] /\ s > Earlier
      /\ \A q \in Runs : q > s => pc'[q] = "unborn"
  BY StepOfOne DEF LastAlone
<1>2. r < s
  BY <1>0, <1>1
<1>3. pc'[s] = "unborn"
  BY <1>1, <1>2 DEF AfterInv
<1>4. report'.of # s
  BY <1>3 DEF ReportInv
<1>5. DirsKnown(s)'
  BY <1>3 DEF DirsKnown
<1>6. ReportKnown(s)'
  BY <1>3, <1>4 DEF ReportKnown, Rotation
<1> QED
  BY <1>5, <1>6

\* A run that overlaps no other removes what it has condemned: nobody else removes
\* it, and nobody writes into it.
LEMMA AloneRemoves ==
    ASSUME TypeOK, PathInv, AfterInv, NEW s \in Runs, LastAlone(s), DirsKnown(s), Rmtree(s)
    PROVE  /\ UNCHANGED <<pc, latest, report>> /\ dirs' = dirs \ {Head(doomed[s])}
           /\ doomed' = [doomed EXCEPT ![s] = Tail(doomed[s])]
<1>1. doomed[s] \in Seq(Runs) /\ doomed[s] # <<>> /\ pc[s] = "remove" /\ Head(doomed[s]) \in Runs
  BY RmtreeEffect DEF TypeOK
<1>2. PICK p \in Runs : p = Head(doomed[s])
  BY <1>1
<1>3. p \in Range(doomed[s])
  BY <1>1, <1>2, TailCondemned
<1>4. p \in dirs
  BY <1>1, <1>3 DEF DirsKnown
<1>5. Made(p)
  BY <1>3 DEF PathInv
<1>6. ~Live(p)
  <2>1. p # s /\ pc[p] # "unborn"
    BY <1>1, <1>5 DEF Made
  <2>2. p < s
    BY <2>1 DEF LastAlone, Runs
  <2> QED
    BY <1>1, <2>2 DEF AfterInv, LastAlone, Live
<1> QED
  BY <1>2, <1>4, <1>6, RmtreeEffect

\* What it has condemned are directories there are, each once.
LEMMA AloneSorts ==
    ASSUME TypeOK, NEW s \in Runs, DirsKnown(s), Sort(s)
    PROVE  DirsKnown(s)'
<1>0. /\ pc \in [Runs -> Points] /\ doomed \in [Runs -> Seq(Runs)] /\ dirs \subseteq Runs
      /\ listed[s] \in SUBSET (Runs \cup {Link}) /\ Link \notin Runs
  BY DEF TypeOK, Runs, Link
<1>1. /\ pc[s] = "sort" /\ UNCHANGED <<dirs, latest>>
      /\ listed[s] \subseteq dirs \cup {Link} /\ (Link \in listed[s] => latest # Link)
  BY DEF Sort, GoTo, DirsKnown
<1>2. CASE \E p \in listed[s] : Gone(p)
  <2>1. PICK p \in listed[s] : Gone(p)
    BY <1>2
  <2>2. p = Link /\ latest \notin dirs
    BY <1>1, <2>1 DEF Gone, Target
  <2>3. Dangling'
    BY <1>1, <2>2 DEF Dangling
  <2>4. pc'[s] = "failed"
    BY <1>0, <1>2 DEF Sort, GoTo
  <2> QED
    BY <2>3, <2>4 DEF DirsKnown
<1>3. CASE ~\E p \in listed[s] : Gone(p)
  <2>1. /\ pc'[s] = "remove"
        /\ \E order \in SetToSeqs(listed[s]) : doomed' = [doomed EXCEPT ![s] = Oldest(order)]
    BY <1>0, <1>3 DEF Sort, GoTo
  <2>2. PICK order \in SetToSeqs(listed[s]) : doomed'[s] = Oldest(order)
    BY <1>0, <2>1
  <2>3. /\ Oldest(order) \in Seq(Runs) /\ IsInjective(Oldest(order))
        /\ \A p \in Range(Oldest(order)) : p \in listed[s]
    BY <1>0, OldestEffect
  <2>4. Range(Oldest(order)) \subseteq dirs
    BY <1>0, <1>1, <2>3, CondemnedRuns
  <2>5. Range(doomed'[s]) \subseteq dirs' /\ IsInjective(doomed'[s])
    BY <1>1, <2>2, <2>3, <2>4
  <2> QED
    BY <2>1, <2>5 DEF DirsKnown
<1> QED
  BY <1>2, <1>3

\* The steps of s itself: what it knows of the directories and of the link.
LEMMA DirsKnownStep ==
    ASSUME TypeOK, PathInv, AfterInv, NEW s \in Runs, LastAlone(s), DirsKnown(s), ReportKnown(s),
           ReportInv,
           Start(s) \/ Iterate(s) \/ Sort(s) \/ Rmtree(s) \/ Mkdtemp(s) \/ Rest(s)
    PROVE  DirsKnown(s)'
<1>0. /\ pc \in [Runs -> Points] /\ doomed \in [Runs -> Seq(Runs)] /\ dirs \subseteq Runs
      /\ listed \in [Runs -> SUBSET (Runs \cup {Link})] /\ Link \notin Runs
  BY DEF TypeOK, Runs, Link
<1> USE DEF DirsKnown
<1>1. CASE Start(s)
  <2>1. pc'[s] \in {"refused", "iterate"}
    BY <1>0, <1>1 DEF Start
  <2> QED
    BY <2>1
<1>2. CASE Iterate(s)
  <2>1. pc'[s] = "sort" /\ UNCHANGED <<dirs, latest>>
    BY <1>0, <1>2 DEF Iterate, GoTo
  <2>2. listed'[s] = dirs \cup (IF latest = Link THEN {} ELSE {Link})
    BY <1>0, <1>2 DEF Iterate
  <2>3. listed'[s] \subseteq dirs \cup {Link} /\ (Link \in listed'[s] => latest # Link)
    BY <1>0, <2>2
  <2> QED
    BY <2>1, <2>3
<1>3. CASE Sort(s)
  BY <1>3, AloneSorts
<1>4. CASE Rmtree(s)
  <2>1. /\ pc[s] = "remove" /\ pc'[s] = "remove" /\ doomed[s] \in Seq(Runs) /\ doomed[s] # <<>>
        /\ dirs' = dirs \ {Head(doomed[s])} /\ doomed'[s] = Tail(doomed[s])
    BY <1>0, <1>4, AloneRemoves, RmtreeEffect
  <2>2. Range(doomed[s]) \subseteq dirs /\ IsInjective(doomed[s])
    BY <2>1
  <2>3. /\ Range(Tail(doomed[s])) \subseteq Range(doomed[s])
        /\ IsInjective(Tail(doomed[s])) /\ Head(doomed[s]) \notin Range(Tail(doomed[s]))
    BY <2>1, <2>2, TailCondemned
  <2>4. Range(doomed'[s]) \subseteq dirs' /\ IsInjective(doomed'[s])
    BY <2>1, <2>2, <2>3
  <2> QED
    BY <2>1, <2>4
<1>5. CASE Mkdtemp(s)
  <2>1. pc'[s] = "islink" /\ s \in dirs'
    BY <1>0, <1>5 DEF Mkdtemp, GoTo
  <2> QED
    BY <2>1
<1>6. CASE IsLink(s)
  <2>1. /\ pc[s] = "islink" /\ UNCHANGED <<dirs, latest>>
        /\ pc'[s] = IF latest # Link THEN "unlink" ELSE "symlink"
    BY <1>0, <1>6 DEF IsLink, GoTo, OnlyPc
  <2> QED
    BY <2>1
<1>7. CASE Unlink(s)
  <2>1. pc[s] = "unlink" /\ UNCHANGED dirs /\ latest' = Link /\ pc'[s] = "symlink"
    BY <1>0, <1>7 DEF Unlink, GoTo
  <2> QED
    BY <2>1
<1>8. CASE Symlink(s)
  <2>1. pc[s] = "symlink" /\ UNCHANGED dirs /\ latest' = s /\ pc'[s] = "log"
    BY <1>0, <1>8 DEF Symlink, GoTo
  <2> QED
    BY <2>1
<1>9. CASE \/ DebugLog(s) \/ NoResults(s) \/ SaveResults(s)
           \/ Save(s) \/ Open(s) \/ Dump(s)
  <2>1. pc[s] \in {"log", "session", "save", "open", "dump"} /\ UNCHANGED <<dirs, latest>>
    BY <1>9 DEF DebugLog, NoResults, SaveResults, Write, Save, Open, Dump, GoTo, OnlyPc
  <2>2. latest = s /\ s \in dirs
    BY <2>1
  <2>3. pc[s] = "save" => report.of = 0
    BY DEF ReportKnown, ReportInv
  <2>4. pc'[s] \in {"session", "save", "open", "dump", "exit"}
    BY <1>0, <1>9, <2>2, <2>3 DEF DebugLog, NoResults, SaveResults, Write, Save, Open, Dump, GoTo
  <2> QED
    BY <2>1, <2>2, <2>4
<1>10. CASE Crash(s)
  <2>1. pc'[s] = "crashed"
    BY <1>0, <1>10 DEF Crash
  <2> QED
    BY <2>1
<1> QED
  BY <1>1, <1>2, <1>3, <1>4, <1>5, <1>6, <1>7, <1>8, <1>9, <1>10 DEF Rest

\* The steps of s itself: what it knows of the report.
LEMMA ReportKnownStep ==
    ASSUME TypeOK, ReportInv, NEW s \in Runs, ReportKnown(s),
           Start(s) \/ Iterate(s) \/ Sort(s) \/ Rmtree(s) \/ Mkdtemp(s) \/ Rest(s)
    PROVE  ReportKnown(s)'
<1>0. /\ pc \in [Runs -> Points] /\ 0 \notin Runs
      /\ report = [of |-> report.of, whole |-> report.whole] /\ report.of \in Runs \cup {0}
  BY DEF TypeOK, Runs
<1> USE DEF ReportKnown, Rotation
<1>1. CASE Start(s)
  <2>1. /\ pc[s] = "unborn" /\ UNCHANGED report
        /\ pc'[s] = IF s \in WithReport /\ report.of # 0 THEN "refused" ELSE "iterate"
    BY <1>0, <1>1 DEF Start, Enter
  <2>2. report'.of # s
    BY <2>1 DEF ReportInv
  <2> QED
    BY <2>1, <2>2
<1>2. CASE Iterate(s) \/ Sort(s) \/ Rmtree(s) \/ Mkdtemp(s) \/ IsLink(s) \/ Unlink(s) \/ Symlink(s)
  <2>1. pc[s] \in Rotation /\ UNCHANGED report /\ pc'[s] \in Rotation \cup {"log", "failed"}
    <3>1. CASE Rmtree(s)
      <4>1. /\ pc[s] = "remove" /\ UNCHANGED report
            /\ UNCHANGED pc \/ pc' = [pc EXCEPT ![s] = "failed"]
        BY <3>1, RmtreeEffect, Zenon
      <4> QED
        BY <1>0, <4>1
    <3> QED
      BY <1>0, <1>2, <3>1 DEF Iterate, Sort, Mkdtemp, IsLink, Unlink, Symlink, GoTo, OnlyPc
  <2>2. report'.of # s
    BY <2>1 DEF ReportInv
  <2> QED
    BY <2>1, <2>2
<1>3. CASE DebugLog(s) \/ NoResults(s) \/ SaveResults(s) \/ Save(s)
  <2>1. /\ pc[s] \in {"log", "session", "save"} /\ UNCHANGED report
        /\ pc'[s] \in {"session", "save", "open", "exit", "failed"}
    BY <1>0, <1>3 DEF DebugLog, NoResults, SaveResults, Write, Save, GoTo, OnlyPc
  <2>2. report'.of # s
    BY <2>1 DEF ReportInv
  <2> QED
    BY <2>1, <2>2
<1>4. CASE Open(s)
  <2>1. pc'[s] = "dump" /\ report'.of = s
    BY <1>0, <1>4 DEF Open, GoTo
  <2> QED
    BY <1>0, <2>1
<1>5. CASE Dump(s)
  <2>1. pc[s] = "dump" /\ pc'[s] = "exit" /\ report.of = s
    BY <1>0, <1>5 DEF Dump, GoTo
  <2>2. report' = [of |-> s, whole |-> TRUE]
    BY <1>0, <1>5, <2>1 DEF Dump
  <2>3. report'.whole
    BY <2>2
  <2> QED
    BY <2>1, <2>3
<1>6. CASE Crash(s)
  <2>1. pc'[s] = "crashed"
    BY <1>0, <1>6 DEF Crash
  <2> QED
    BY <2>1
<1> QED
  BY <1>1, <1>2, <1>3, <1>4, <1>5, <1>6 DEF Rest

\* Every step keeps what the runs that overlap no other know.
LEMMA AloneStep ==
    ASSUME TypeOK, TypeOK', PathInv, AfterInv, ReportInv, ReportInv', AloneInv, [Next]_vars
    PROVE  AloneInv'
<1> SUFFICES ASSUME NEW s \in Runs, LastAlone(s)' PROVE DirsKnown(s)' /\ ReportKnown(s)'
  BY DEF AloneInv
<1>1. CASE UNCHANGED vars
  <2>1. LastAlone(s)
    BY <1>1 DEF LastAlone, vars, history
  <2>2. DirsKnown(s) /\ ReportKnown(s)
    BY <2>1 DEF AloneInv
  <2> QED
    BY <1>1, <2>2 DEF vars, DirsKnown, ReportKnown, Dangling
<1>2. ASSUME NEW r \in Runs,
             Start(r) \/ Iterate(r) \/ Sort(r) \/ Rmtree(r) \/ Mkdtemp(r) \/ Rest(r)
      PROVE  DirsKnown(s)' /\ ReportKnown(s)'
  <2>1. CASE r # s
    BY <1>2, <2>1, OthersStep
  <2>2. CASE r = s
    <3>1. LastAlone(s)
      BY <1>2, <2>2, StepOfOne DEF LastAlone, Runs
    <3>2. DirsKnown(s) /\ ReportKnown(s)
      BY <3>1 DEF AloneInv
    <3>3. DirsKnown(s)'
      BY <1>2, <2>2, <3>1, <3>2, DirsKnownStep
    <3>4. ReportKnown(s)'
      BY <1>2, <2>2, <3>2, ReportKnownStep
    <3> QED
      BY <3>3, <3>4
  <2> QED
    BY <2>1, <2>2
<1> QED
  BY <1>1, <1>2, NextCases

\* When no two runs have overlapped, the one that takes a step is the last.
LEMMA LastSteps ==
    ASSUME TypeOK, PathInv, AfterInv, \A q \in Runs : alone[q],
           NEW r \in Runs, Live(r)
    PROVE  LastAlone(r)
<1>1. pc[r] # "exit" /\ Runs \subseteq Nat /\ Earlier \in Nat
  BY EarlierRuns DEF Live, Over, Runs
<1>2. r > Earlier
  BY <1>1 DEF PathInv
<1>3. ASSUME NEW q \in Runs, q > r, pc[q] # "unborn" PROVE FALSE
  <2>1. q > Earlier
    BY <1>1, <1>2, <1>3
  <2>2. pc[r] \in Over
    BY <1>1, <1>3, <2>1 DEF AfterInv
  <2> QED
    BY <2>2 DEF Live
<1> QED
  BY <1>2, <1>3 DEF LastAlone

\* The link leads nowhere only while the run that has removed its directory is at it.
LEMMA LinkStep ==
    ASSUME TypeOK, PathInv, AfterInv, AloneInv, LinkInv, [Next]_vars
    PROVE  LinkInv'
<1> DEFINE AtIt == {"remove", "islink", "unlink"}
<1> SUFFICES ASSUME \A q \in Runs : pc'[q] # "crashed" /\ alone'[q], Dangling'
             PROVE  \E q \in Runs : pc'[q] \in AtIt
  BY DEF LinkInv
<1>0. pc \in [Runs -> Points] /\ dirs \subseteq Runs
  BY DEF TypeOK
<1>1. CASE UNCHANGED vars
  <2>1. /\ \A q \in Runs : pc[q] # "crashed" /\ alone[q]
        /\ Dangling /\ UNCHANGED pc
    BY <1>1 DEF vars, history, Dangling
  <2> QED
    BY <2>1 DEF LinkInv
<1>2. ASSUME NEW r \in Runs,
             Start(r) \/ Iterate(r) \/ Sort(r) \/ Rmtree(r) \/ Mkdtemp(r) \/ Rest(r)
      PROVE  \E q \in Runs : pc'[q] \in AtIt
  <2>1. /\ pc[r] \notin Over /\ \A q \in Runs \ {r} : pc'[q] = pc[q]
        /\ \A q \in Runs : alone[q]
        /\ pc[r] = "unborn" => Start(r)
    BY <1>2, StepOfOne
  <2>2. \A q \in Runs : pc[q] # "crashed"
    BY <2>1 DEF Over
  <2>3. Dangling => \E q \in Runs : pc[q] \in AtIt
    BY <2>1, <2>2 DEF LinkInv
  <2>4. ASSUME Dangling, pc[r] \notin AtIt PROVE \E q \in Runs : pc'[q] \in AtIt
    BY <2>1, <2>3, <2>4
  <2>5. CASE Start(r)
    <3>1. pc[r] = "unborn" /\ UNCHANGED <<latest, dirs>>
      BY <2>5 DEF Start, Enter
    <3> QED
      BY <2>4, <3>1 DEF Dangling
  <2>6. ASSUME pc[r] # "unborn" PROVE DirsKnown(r) /\ LastAlone(r)
    <3>1. Live(r)
      BY <2>1, <2>6 DEF Live
    <3>2. LastAlone(r)
      BY <2>1, <3>1, LastSteps
    <3> QED
      BY <3>2 DEF AloneInv
  <2>7. CASE Iterate(r) \/ Sort(r)
    <3>1. pc[r] \notin AtIt /\ UNCHANGED <<latest, dirs>>
      BY <2>7 DEF Iterate, Sort, GoTo
    <3> QED
      BY <2>4, <3>1 DEF Dangling
  <2>8. CASE Rmtree(r)
    <3>1. pc[r] = "remove"
      BY <2>8, RmtreeEffect
    <3>2. UNCHANGED pc
      BY <2>6, <2>8, <3>1, AloneRemoves
    <3> QED
      BY <3>1, <3>2
  <2>9. CASE Mkdtemp(r)
    <3>1. pc'[r] = "islink"
      BY <1>0, <2>9 DEF Mkdtemp, GoTo
    <3> QED
      BY <3>1
  <2>10. CASE IsLink(r)
    <3>1. latest # Link /\ pc'[r] = "unlink"
      BY <1>0, <2>10 DEF IsLink, OnlyPc, GoTo, Dangling
    <3> QED
      BY <3>1
  <2>11. CASE Unlink(r)
    BY <2>11 DEF Unlink, Dangling
  <2>12. CASE Symlink(r)
    <3>1. pc[r] = "symlink"
      BY <2>12 DEF Symlink, GoTo
    <3>2. r \in dirs /\ latest = Link
      BY <2>6, <3>1 DEF DirsKnown
    <3>3. latest' = r /\ dirs' = dirs
      BY <2>12, <3>2 DEF Symlink
    <3> QED
      BY <3>2, <3>3 DEF Dangling
  <2>13. CASE \/ DebugLog(r) \/ NoResults(r) \/ SaveResults(r)
              \/ Save(r) \/ Open(r) \/ Dump(r)
    <3>1. pc[r] \in {"log", "session", "save", "open", "dump"} /\ UNCHANGED <<dirs, latest>>
      BY <2>13 DEF DebugLog, NoResults, SaveResults, Write, Save, Open, Dump, GoTo, OnlyPc
    <3> QED
      BY <2>4, <3>1 DEF Dangling
  <2>14. CASE Crash(r)
    <3>1. pc'[r] = "crashed"
      BY <1>0, <2>14 DEF Crash
    <3> QED
      BY <3>1
  <2> QED
    BY <1>2, <2>5, <2>7, <2>8, <2>9, <2>10, <2>11, <2>12, <2>13, <2>14 DEF Rest
<1> QED
  BY <1>1, <1>2, NextCases

\* A run that overlaps no other fails only on a link that a crash or an overlap has
\* left without its directory; otherwise it finishes with the link, and with a
\* report that is all its own.
THEOREM AloneIsFine == Spec => []AloneSucceeds
<1>1. Spec => [](TypeOK /\ PathInv)
  BY TypeInit, TypeStep, PathInit, PathStep, PTL DEF Spec
<1>2. Spec => [](AfterInv /\ ReportInv /\ AloneInv /\ LinkInv)
  BY <1>1, AloneInit, AfterStep, ReportStep, AloneStep, LinkStep, PTL DEF Spec
<1>3. AloneInv /\ LinkInv => AloneSucceeds
  <2> SUFFICES ASSUME AloneInv, LinkInv PROVE AloneSucceeds
    OBVIOUS
  <2>1. ASSUME NEW r \in Runs, r > Earlier, alone[r], \A q \in Runs : q > r => pc[q] = "unborn"
        PROVE  /\ pc[r] = "failed" => Dangling
               /\ pc[r] \in {"log", "session", "save", "open", "dump", "exit"} =>
                   latest = r /\ r \in dirs
               /\ report.of = r /\ pc[r] # "dump" => report.whole \/ pc[r] = "crashed"
    <3>1. DirsKnown(r) /\ ReportKnown(r)
      BY <2>1 DEF AloneInv, LastAlone
    <3> QED
      BY <3>1 DEF DirsKnown, ReportKnown
  <2>2. Dangling => \E r \in Runs : pc[r] = "crashed" \/ ~alone[r] \/ pc[r] \in Rotation
    BY DEF LinkInv, Rotation
  <2> QED
    BY <2>1, <2>2 DEF AloneSucceeds
<1> QED
  BY <1>2, <1>3, PTL
=================================================================================
