-------------------------------- MODULE Stdout --------------------------------
(***************************************************************************)
(* The two writers that cut an output into lines: StdoutChecker of         *)
(* src/ltp/dispatcher.py, for the events test_stdout_line, and             *)
(* _print_stdout of ui.py, for the terminal.  The target reads the output  *)
(* in chunks, as they come.  A piece is what a chunk brings of one line; a *)
(* chunk is the pieces between its separators, of which some are empty.    *)
(***************************************************************************)
EXTENDS Naturals, Sequences, SequencesExt

CONSTANTS
    MaxPieces,      \* bound on the pieces of a line
    MaxLines,       \* bound on the newlines of an output
    MaxBreaks       \* bound on its other line breaks

\* A writer: the pieces it holds (self._line), those the output has brought since the
\* last line it gave out, the lines it has given out, the newlines and the other line
\* breaks it has seen, and, as history, whether all the lines it gave out were whole,
\* or at least ends of what was there to give out.
NewWriter ==
    [line |-> <<>>, text |-> <<>>, fired |-> 0, newlines |-> 0, breaks |-> 0,
     whole |-> TRUE, ends |-> TRUE]

Add(w, piece) == [w EXCEPT !.line = @ \o piece, !.text = @ \o piece]

Fire(w) ==
    [w EXCEPT !.fired = @ + 1, !.line = <<>>, !.text = <<>>,
              !.whole = @ /\ w.line = w.text, !.ends = @ /\ IsSuffix(w.line, w.text)]

AddAndFire(w, piece) == Fire(Add(w, piece))

\* What follows the last separator replaces the line, whatever it holds.
Keep(w, piece) == [w EXCEPT !.line = piece, !.text = @ \o piece]

\* A chunk of one character: a newline, or a piece of text.
WriteChar(w, pieces) ==
    IF Len(pieces) = 2 THEN Fire(w) ELSE Add(w, Head(pieces))

EndsLine(pieces) == Len(pieces) > 1 /\ Last(pieces) = <<>>

CheckerWrite(w, pieces) ==
    LET kept == Keep(FoldLeft(AddAndFire, w, Front(pieces)), Last(pieces))
    IN  IF EndsLine(pieces) /\ kept.line # <<>> THEN Fire(kept) ELSE kept

(***************************************************************************)
(* _print_stdout cuts with splitlines(True), which also knows a carriage   *)
(* return, a form feed and other line breaks: `soft' are the separators of *)
(* a chunk that are no newlines.  Only data.endswith('\n') tells the two   *)
(* apart, so a chunk that ends with a soft one leaves its line held.       *)
(***************************************************************************)

\* splitlines(True): a separator belongs to the line that it ends.
SplitLines(pieces) == IF Last(pieces) = <<>> THEN Front(pieces) ELSE pieces

EndsWithNewline(pieces, soft) == EndsLine(pieces) /\ Len(pieces) - 1 \notin soft

\* Mutant: the line that ends the chunk is never given out.
PrintStdoutHolding(w, pieces, soft) ==
    LET lines == SplitLines(pieces)
    IN  IF lines = <<>> THEN w
        ELSE Keep(FoldLeft(AddAndFire, w, Front(lines)), Last(lines))

PrintStdout(w, pieces, soft) ==
    LET lines == SplitLines(pieces)
        kept == Keep(FoldLeft(AddAndFire, w, Front(lines)), Last(lines))
    IN  CASE lines = <<>> -> w
          [] lines # <<>> /\ EndsWithNewline(pieces, soft) -> Fire(kept)
          [] OTHER -> kept

\* One character of _print_stdout: a soft line break is text like any other.
PrintChar(w, pieces, soft) == IF soft = {} THEN WriteChar(w, pieces) ELSE w

-----------------------------------------------------------------------------
\* The chunks that may come when w has been written: at most two separators, with
\* or without text around them.
Chunks(w) ==
    {[j \in DOMAIN shape |->
        IF ~shape[j] THEN <<>> ELSE <<IF j = 1 THEN Len(w.text) + 1 ELSE 1>>] :
        shape \in {s \in UNION {[1 .. k -> BOOLEAN] : k \in 1 .. 3} :
            s[1] => Len(w.text) < MaxPieces}}

\* The separators of a chunk that may be soft.
Softs(w, pieces) ==
    {soft \in SUBSET (1 .. Len(pieces) - 1) :
        /\ w.breaks + Cardinality(soft) <= MaxBreaks
        /\ w.newlines + (Len(pieces) - 1 - Cardinality(soft)) <= MaxLines}

\* A separator, or a piece of text, that comes alone.
Separator == << <<>>, <<>> >>
Characters(w) == {Separator, << <<Len(w.text) + 1>> >>}

Counted(w, pieces, soft) ==
    [w EXCEPT !.newlines = @ + (Len(pieces) - 1 - Cardinality(soft)),
              !.breaks = @ + Cardinality(soft)]

\* The checker knows newlines only, and a newline alone is one character.
CheckerWrites(w, v) ==
    \E pieces \in Chunks(w) :
        /\ {} \in Softs(w, pieces)
        /\ \/ pieces # Separator /\ v = Counted(CheckerWrite(w, pieces), pieces, {})
           \/ pieces \in Characters(w) /\ v = Counted(WriteChar(w, pieces), pieces, {})

\* For the printer a carriage return and a newline are one newline, of two
\* characters; any other separator that comes alone is one character.
PrinterWrites(w, v) ==
    \E pieces \in Chunks(w) : \E soft \in Softs(w, pieces) :
        \/ /\ pieces = Separator => soft = {}
           /\ v = Counted(PrintStdout(w, pieces, soft), pieces, soft)
        \/ pieces \in Characters(w) /\ v = Counted(PrintChar(w, pieces, soft), pieces, soft)
=============================================================================
