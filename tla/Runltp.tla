-------------------------------- MODULE Runltp --------------------------------
(***************************************************************************)
(* The runltp processes of one user, as _ltp_run of src/ltp/main.py makes  *)
(* them.  They share a directory: TempDir of tempfile.py rotates in it the *)
(* directories of the runs, and its link "latest"; and they may share the  *)
(* path of the JSON report, which JSONExporter of export.py writes.  Runs  *)
(* may overlap, and may be killed at any point.  What a session does is in *)
(* Session; here it writes its directory and ends.                         *)
(***************************************************************************)
EXTENDS Integers, FiniteSets, Sequences, SequencesExt

CONSTANTS
    Earlier,        \* bound on the runs that were over, and left a directory, before
    MaxRuns,        \* bound on the runs; they start in the order of their numbers
    Concurrent,     \* runs that are under way at the same time
    MaxRotate,      \* max_rotate
    MaxCrashes,     \* bound on the runs that are killed
    MaxTicks,       \* bound on the clock
    WithReport      \* the runs that are given --json-report, all with the same path

Runs == 1 .. MaxRuns

\* The earlier runs have kept to DirsBounded too.
ASSUME RunltpAssumption ==
    MaxRuns \in Nat /\ Concurrent \in Nat
    /\ Earlier \in Nat /\ Earlier <= MaxRuns /\ Earlier <= MaxRotate + Concurrent
    /\ MaxRotate \in Nat \ {0} /\ MaxCrashes \in Nat
    /\ MaxTicks \in Nat /\ WithReport \subseteq Runs

\* The link among the paths of the directory; a run's number stands for its own.
Link == 0

VARIABLES
    pc,         \* where each run is
    listed,     \* the paths it has listed
    doomed,     \* the paths it has still to remove, in order
    dirs,       \* the runs whose directories exist
    mtime,      \* the last modification of each directory, kept when it is removed
    latest,     \* the run whose directory the link names, or Link when there is none
    report,     \* the run that has opened the report last, and whether all of it is there
    now         \* the clock of the file system, which is coarse

\* History variables.
VARIABLES
    born,       \* when each directory was made
    alone       \* the run has been under way with no other

history == <<born, alone>>
vars == <<pc, listed, doomed, dirs, mtime, latest, report, now, history>>

Over == {"refused", "exit", "failed", "crashed"}
Rotation == {"iterate", "sort", "remove", "islink", "unlink", "symlink"}
Points == Over \cup Rotation \cup {"unborn", "log", "session", "save", "open", "dump"}

Live(r) == pc[r] \notin Over \cup {"unborn"}

\* Runs have come one after the other before; they may have ended in the same tick.
Init ==
    /\ \E n \in 0 .. Earlier :
        /\ dirs = 1 .. n /\ latest = n
        /\ mtime \in {m \in [Runs -> {0, 1}] : \A q, r \in Runs :
                        (q < r /\ r <= n => m[q] <= m[r]) /\ (r > n => m[r] = 0)}
    /\ now = 1
    /\ pc = [r \in Runs |-> IF r <= Earlier THEN "exit" ELSE "unborn"]
    /\ listed = [r \in Runs |-> {}] /\ doomed = [r \in Runs |-> <<>>]
    /\ report = [of |-> 0, whole |-> FALSE]
    /\ born = [r \in Runs |-> 0] /\ alone = [r \in Runs |-> TRUE]

GoTo(r, from, to) == pc[r] = from /\ pc' = [pc EXCEPT ![r] = to]

\* The directory of r changes, in the same tick of the clock as the last change or
\* in a later one.
Touch(r) ==
    /\ now' \in {now, now + 1} /\ now' <= MaxTicks
    /\ mtime' = [mtime EXCEPT ![r] = now']

-----------------------------------------------------------------------------
(* The start of a run, up to the temporary directory.                      *)

Enter(r) ==
    /\ pc[r] = "unborn" /\ \A q \in 1 .. r - 1 : pc[q] # "unborn"
    /\ Cardinality({q \in Runs : Live(q)}) < Concurrent
    /\ LET met == {q \in Runs : Live(q)}
       IN  alone' = [q \in Runs |-> alone[q] /\ (met = {} \/ q \notin met \cup {r})]
    /\ UNCHANGED <<listed, doomed, dirs, mtime, latest, report, now, born>>

\* Mutant: whether the report exists is left to the exporter.
StartAnyway(r) == Enter(r) /\ pc' = [pc EXCEPT ![r] = "iterate"]

Start(r) ==
    /\ Enter(r)
    /\ pc' = [pc EXCEPT ![r] = IF r \in WithReport /\ report.of # 0 THEN "refused" ELSE "iterate"]

-----------------------------------------------------------------------------
(* TempDir._rotate.                                                        *)

Iterate(r) ==
    /\ GoTo(r, "iterate", "sort")
    /\ listed' = [listed EXCEPT ![r] = dirs \cup (IF latest = Link THEN {} ELSE {Link})]
    /\ UNCHANGED <<doomed, dirs, mtime, latest, report, now, history>>

\* getmtime follows the link, and raises when there is nothing at its end.
Target(p) == IF p = Link THEN latest ELSE p
Gone(p) == Target(p) \notin dirs

\* The link is in an order at most once.
WithoutLink(order) ==
    LET at == {i \in DOMAIN order : order[i] = Link}
    IN  IF at = {} THEN order ELSE RemoveAt(order, CHOOSE i \in at : TRUE)

\* Mutant: one path fewer.
OldestButOne(order) == WithoutLink(SubSeq(order, 1, Len(order) - MaxRotate - 1))

\* Mutant: the link is not left out.
OldestAndLink(order) == SubSeq(order, 1, Len(order) - MaxRotate)

\* The first paths to be removed.  One of the paths is taken for the link.
Oldest(order) == WithoutLink(SubSeq(order, 1, Len(order) - MaxRotate))

\* Mutant: the newest first.
After(p, q) == mtime[Target(p)] >= mtime[Target(q)]

Before(p, q) == mtime[Target(p)] <= mtime[Target(q)]

Sort(r) ==
    /\ IF \E p \in listed[r] : Gone(p)
       THEN GoTo(r, "sort", "failed") /\ UNCHANGED doomed
       ELSE /\ GoTo(r, "sort", "remove")
            /\ \E order \in SetToSeqs(listed[r]) :
                /\ \A i, j \in DOMAIN order : i < j => Before(order[i], order[j])
                /\ doomed' = [doomed EXCEPT ![r] = Oldest(order)]
    /\ listed' = [listed EXCEPT ![r] = {}]
    /\ UNCHANGED <<dirs, mtime, latest, report, now, history>>

\* rmtree raises when the directory is gone, and may when its run still writes into it.
Rmtree(r) ==
    /\ doomed[r] # <<>>
    /\ LET p == Head(doomed[r])
       IN  \/ /\ p \in dirs /\ dirs' = dirs \ {p}
              /\ doomed' = [doomed EXCEPT ![r] = Tail(@)]
              /\ pc[r] = "remove" /\ UNCHANGED pc
           \/ /\ p \notin dirs \/ Live(p)
              /\ GoTo(r, "remove", "failed") /\ UNCHANGED dirs
              /\ doomed' = [doomed EXCEPT ![r] = <<>>]
    /\ UNCHANGED <<listed, mtime, latest, report, now, history>>

Mkdtemp(r) ==
    /\ doomed[r] = <<>> /\ GoTo(r, "remove", "islink")
    /\ dirs' = dirs \cup {r} /\ Touch(r) /\ born' = [born EXCEPT ![r] = now']
    /\ UNCHANGED <<listed, doomed, latest, report, alone>>

OnlyPc == UNCHANGED <<listed, doomed, dirs, mtime, latest, report, now, history>>

\* Mutant: os.path.exists, which follows the link.
Exists(r) ==
    /\ GoTo(r, "islink", IF latest \in dirs THEN "unlink" ELSE "symlink")
    /\ OnlyPc

IsLink(r) ==
    /\ GoTo(r, "islink", IF latest # Link THEN "unlink" ELSE "symlink")
    /\ OnlyPc

Unlink(r) ==
    /\ GoTo(r, "unlink", IF latest # Link THEN "symlink" ELSE "failed")
    /\ latest' = Link
    /\ UNCHANGED <<listed, doomed, dirs, mtime, report, now, history>>

Symlink(r) ==
    /\ IF latest = Link
       THEN GoTo(r, "symlink", "log") /\ latest' = r
       ELSE GoTo(r, "symlink", "failed") /\ UNCHANGED latest
    /\ UNCHANGED <<listed, doomed, dirs, mtime, report, now, history>>

-----------------------------------------------------------------------------
(* The session: what it writes into its directory, and the report.         *)

\* A file or a directory is made in the run's own directory, if it is there.
Write(r, from, to) ==
    /\ IF r \in dirs
       THEN GoTo(r, from, to) /\ Touch(r)
       ELSE GoTo(r, from, "failed") /\ UNCHANGED <<mtime, now>>
    /\ UNCHANGED <<listed, doomed, dirs, latest, report, history>>

DebugLog(r) == Write(r, "log", "session")

\* A session that has run no suite leaves no results.
NoResults(r) ==
    /\ GoTo(r, "session", "exit")
    /\ OnlyPc

SaveResults(r) == Write(r, "session", IF r \in WithReport THEN "save" ELSE "exit")

Save(r) ==
    /\ GoTo(r, "save", IF report.of # 0 THEN "failed" ELSE "open")
    /\ OnlyPc

Open(r) ==
    /\ GoTo(r, "open", "dump") /\ report' = [of |-> r, whole |-> FALSE]
    /\ UNCHANGED <<listed, doomed, dirs, mtime, latest, now, history>>

\* Another run may have truncated the file meanwhile.
Dump(r) ==
    /\ GoTo(r, "dump", "exit") /\ report' = [report EXCEPT !.whole = report.of = r]
    /\ UNCHANGED <<listed, doomed, dirs, mtime, latest, now, history>>

\* The process is killed, or leaves by an exception of the session.
Crash(r) ==
    /\ Live(r) /\ pc' = [pc EXCEPT ![r] = "crashed"]
    /\ Cardinality({q \in Runs : pc[q] = "crashed"}) < MaxCrashes
    /\ listed' = [listed EXCEPT ![r] = {}] /\ doomed' = [doomed EXCEPT ![r] = <<>>]
    /\ UNCHANGED <<dirs, mtime, latest, report, now, history>>

-----------------------------------------------------------------------------
Rotate(r) ==
    \/ Iterate(r) \/ Sort(r) \/ Rmtree(r) \/ Mkdtemp(r)
    \/ IsLink(r) \/ Unlink(r) \/ Symlink(r)

RunSession(r) ==
    \/ DebugLog(r) \/ NoResults(r) \/ SaveResults(r)
    \/ Save(r) \/ Open(r) \/ Dump(r)

Next == \E r \in Runs : Start(r) \/ Rotate(r) \/ RunSession(r) \/ Crash(r)

Spec == Init /\ [][Next]_vars

-----------------------------------------------------------------------------
TypeOK ==
    /\ pc \in [Runs -> Points]
    /\ listed \in [Runs -> SUBSET (Runs \cup {Link})]
    /\ doomed \in [Runs -> Seq(Runs)] /\ dirs \subseteq Runs
    /\ mtime \in [Runs -> 0 .. now] /\ now \in Nat
    /\ latest \in Runs \cup {Link} /\ report \in [of : Runs \cup {0}, whole : BOOLEAN]
    /\ born \in [Runs -> 0 .. now] /\ alone \in [Runs -> BOOLEAN]
    /\ \A r \in Runs : doomed[r] # <<>> => pc[r] = "remove"

\* However the runs overlap and crash, their directories do not pile up: there is
\* at most one above max_rotate for each run that may be under way.  (_rotate; the
\* link among the oldest keeps a directory that should go.)
DirsBounded == Cardinality(dirs) <= MaxRotate + Concurrent

\* The directory of a session that is under way goes only when max_rotate - 1 other
\* directories have changed since it was made, be they of newer runs or of older ones
\* that still write: a single newer run may then remove it.  (_rotate, which goes by
\* the times of change and does not know which directories are in use.)
LiveDirsKept ==
    \A r \in Runs :
        pc[r] \in {"log", "session"} /\ r \notin dirs =>
            Cardinality({q \in Runs \ {r} : mtime[q] >= born[r]}) >= MaxRotate - 1

Dangling == latest # Link /\ latest \notin dirs

\* A run that overlaps no other fails only on a link that a crashed or overlapping
\* run has left without its directory; it finishes with the link and, if it has
\* results and was given a path, with a report that is all its own.  (_ltp_run, the
\* check of the report before the session and that of the exporter after it; _rotate.)
AloneSucceeds ==
    /\ \A r \in Runs :
        r > Earlier /\ alone[r] /\ (\A q \in Runs : q > r => pc[q] = "unborn") =>
            /\ pc[r] = "failed" => Dangling
            /\ pc[r] \in {"log", "session", "save", "open", "dump", "exit"} =>
                latest = r /\ r \in dirs
            /\ report.of = r /\ pc[r] # "dump" => report.whole \/ pc[r] = "crashed"
    /\ Dangling =>
        \E r \in Runs : pc[r] = "crashed" \/ ~alone[r] \/ pc[r] \in Rotation

\* test_rotate of src/ltp/tests/test_tempfile.py: after a rotation there are no more
\* directories than max_rotate.
RotateKeepsMax ==
    \A r \in Runs : pc[r] = "log" => Cardinality(dirs) <= MaxRotate
=============================================================================
