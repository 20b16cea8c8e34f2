----------------------------- MODULE BufferedFile ------------------------------
(***************************************************************************)
(* The buffered writer reports are written through, and the buffered       *)
(* reader that puts the lines of a text file into a report.  A write may   *)
(* stop anywhere and fail; a read may return less than it was asked for.   *)
(***************************************************************************)
EXTENDS Integers, Sequences, FiniteSets, SequencesExt, FiniteSetsExt

CONSTANTS
    BufferLength,  \* of the writer; of the reader: what it was given, less one for the NUL
    Lengths,       \* of the portions that are written
    MaxGiven,      \* bound: bytes given to the writer
    MaxFailures,   \* bound: writes, or reads, that fail
    LineLength,    \* of the buffer for a line
    Files          \* contents of text files: "a", "b", "newline", "NUL"

VARIABLES
    fd,            \* of the writer: -1 once it is closed
    given,         \* ghost: how many bytes were given: they are numbered
    file,          \* what was written, or the text file
    buffer,        \* what waits in the writer; what the reader has read, to its NUL
    failures,      \* ghost: how many writes, or reads, have failed
    start,         \* reader->dataStartPos
    offset,        \* of the reader in the file
    line,          \* dstBuffer so far, or "no" between lines
    lines,         \* elements written: what addTextLinesFromFile makes of the file
    outside        \* ghost: fillReadBuffer has moved what is not in its buffer

vars == <<fd, given, file, buffer, failures, start, offset, line, lines, outside>>
reading == <<start, offset, line, lines, outside>>
writing == <<fd, given>>

TypeOK ==
    /\ fd \in -1..3 /\ given \in 0..MaxGiven /\ failures \in 0..MaxFailures
    /\ start \in 0..Len(buffer) /\ offset \in 0..Len(file) /\ outside \in BOOLEAN

Numbers(m, n) == [i \in 1..(n - m) |-> m + i]
-----------------------------------------------------------------------------
(* The writer.                                                             *)

InitWriter ==
    /\ fd \in {0, 3} /\ given = 0 /\ file = <<>> /\ buffer = <<>> /\ failures = 0
    /\ start = 0 /\ offset = 0 /\ line = "no" /\ lines = <<>> /\ outside = FALSE

\* writeBytesToFD: all of it, or less and a failure.
Written(bytes) ==
    {[file |-> file \o SubSeq(bytes, 1, n), ok |-> n = Len(bytes)] :
        n \in (IF failures < MaxFailures THEN 0 ELSE Len(bytes))..Len(bytes)}
Count(ok) == failures' = failures + (IF ok THEN 0 ELSE 1)

\* Mutant of Flushed: after a flush what was flushed is still in the buffer.
FlushedKeeping ==
    IF fd > 0 /\ buffer # <<>>
    THEN {[file |-> w.file, buffer |-> buffer, ok |-> w.ok] : w \in Written(buffer)}
    ELSE {[file |-> file, buffer |-> buffer, ok |-> TRUE]}

Flushed ==
    IF fd > 0 /\ buffer # <<>>
    THEN {[file |-> w.file, buffer |-> IF w.ok THEN <<>> ELSE buffer, ok |-> w.ok] : w \in Written(buffer)}
    ELSE {[file |-> file, buffer |-> buffer, ok |-> TRUE]}

\* writeBufferedWriter: whether the flush has failed is not looked at.
Write(n) ==
    /\ fd >= 0 /\ given + n <= MaxGiven
    /\ given' = given + n
    /\ LET data == Numbers(given, given + n)
           full == n > BufferLength - Len(buffer)
       IN  \E f \in IF full THEN Flushed ELSE {[file |-> file, buffer |-> buffer, ok |-> TRUE]} :
              IF n > BufferLength
              THEN \E w \in Written(data) :
                      /\ file' = f.file \o SubSeq(w.file, Len(file) + 1, Len(w.file))
                      /\ buffer' = f.buffer
                      /\ Count(f.ok /\ w.ok)
              ELSE file' = f.file /\ buffer' = f.buffer \o data /\ Count(f.ok)
    /\ UNCHANGED <<fd, reading>>

Flush ==
    /\ fd >= 0
    /\ \E f \in Flushed : file' = f.file /\ buffer' = f.buffer /\ Count(f.ok)
    /\ UNCHANGED <<fd, given, reading>>

Close ==
    /\ fd > 0 /\ fd' = -1
    /\ \E f \in Flushed : file' = f.file /\ buffer' = f.buffer /\ Count(f.ok)
    /\ UNCHANGED <<given, reading>>

NextWriter == Flush \/ Close \/ \E n \in Lengths : Write(n)
-----------------------------------------------------------------------------
(* The reader.  The buffer is what was read since it was empty last: what  *)
(* is left of it starts after start.                                       *)

InitReader ==
    /\ file \in Files /\ buffer = <<>> /\ start = 0 /\ offset = 0 /\ line = "no" /\ lines = <<>>
    /\ fd = -1 /\ given = 0 /\ failures = 0 /\ outside = FALSE

Left == SubSeq(buffer, start + 1, Len(buffer))

\* fillReadBuffer: as many bytes as were used are moved, not as many as are left; that a read has
\* failed is not looked at.
Fill ==
    LET moved == [i \in 1..Len(Left) |->
                     IF i > start THEN buffer[i]
                     ELSE IF start + i <= Len(buffer) THEN buffer[start + i] ELSE "unread"]
        kept  == IF start > 0 THEN moved ELSE buffer
    IN  /\ outside' = (outside \/ 2 * start > BufferLength + 1)
        /\ start' = 0
        /\ \E n \in 0..Min({BufferLength - Len(kept), Len(file) - offset}) :
              /\ failures' = failures + (IF n # 0 \/ offset = Len(file) \/ Len(kept) = BufferLength THEN 0 ELSE 1)
              /\ failures' <= MaxFailures
              /\ buffer' = kept \o SubSeq(file, offset + 1, offset + n)
              /\ offset' = offset + n

\* openBufferedReader fills the buffer once; the next line begins.
Open ==
    /\ line = "no" /\ lines = <<>> /\ offset = 0 /\ Fill /\ line' = <<>>
    /\ UNCHANGED <<file, lines, writing>>

\* strchr stops at the first NUL, of the file too.
Before(c, s) == {i \in DOMAIN s : s[i] = c /\ \A j \in 1..(i - 1) : s[j] # "NUL"}

\* Mutant of ToCopy: the newline stays for the next line.
ToCopyWithout(rest) ==
    LET most  == Min({Len(Left), rest})
        found == Before("newline", Left)
    IN  IF found # {} /\ Min(found) - 1 < most THEN Min(found) - 1 ELSE most

ToCopy(rest) ==
    LET most  == Min({Len(Left), rest})
        found == Before("newline", Left)
    IN  IF found # {} /\ Min(found) < most THEN Min(found) ELSE most

\* What addTextLinesFromFile makes of a line: its last byte is overwritten, whatever it is, and
\* what is written ends at a NUL.
Element(s) ==
    LET t == Front(s) IN
    IF Contains(t, "NUL") THEN SubSeq(t, 1, Min({i \in DOMAIN t : t[i] = "NUL"}) - 1) ELSE t

\* readBufferedReaderUntilChar: one round of its loop.
Copy ==
    /\ line # "no"
    /\ LET n     == ToCopy(LineLength - Len(line))
           grown == line \o SubSeq(Left, 1, n)
           ends  == Before("newline", Left) # {} \/ Len(grown) = LineLength
       IN  IF ends
           THEN /\ lines' = Append(lines, Element(grown)) /\ line' = <<>> /\ start' = start + n
                /\ UNCHANGED <<buffer, offset, outside>>
           ELSE /\ line' = <<"more">> \o grown /\ start' = start + n
                /\ UNCHANGED <<buffer, offset, lines, outside>>
    /\ (line # <<>> => Head(line) # "more")
    /\ UNCHANGED <<file, failures, writing>>

\* Nothing is found in what there was: the buffer is filled, and if it is empty the line ends.
Refill ==
    /\ line # "no" /\ line # <<>> /\ Head(line) = "more" /\ Fill
    /\ IF start' # Len(buffer') THEN line' = Tail(line) /\ UNCHANGED lines
       ELSE IF Tail(line) = <<>> THEN line' = "no" /\ UNCHANGED lines
       ELSE line' = <<>> /\ lines' = Append(lines, Element(Tail(line)))
    /\ UNCHANGED <<file, writing>>

NextReader == Open \/ Copy \/ Refill
-----------------------------------------------------------------------------
\* As long as no write fails, what is in the file and what waits is what was given, in its order,
\* and what waits fits; once the file is closed nothing waits.
NothingIsLostUnlessAWriteFails ==
    /\ failures = 0 /\ fd # 0 => file \o buffer = Numbers(0, given) /\ Len(buffer) <= BufferLength
    /\ fd = -1 /\ failures = 0 => buffer = <<>>

\* If no read fails, a text file of lines that are not longer than the buffer for them, the last ended
\* by a newline, without a NUL, comes out line by line.
WellFormed(f) ==
    LET ends == {i \in DOMAIN f : f[i] = "newline"} IN
    /\ ~Contains(f, "NUL") /\ (f # <<>> => Last(f) = "newline")
    /\ \A i \in DOMAIN f : \E e \in ends : e >= i /\ e < i + LineLength
LinesOf(f) ==
    LET ends == SetToSortSeq({i \in DOMAIN f : f[i] = "newline"}, <)
    IN  [k \in 1..Len(ends) |-> SubSeq(f, (IF k = 1 THEN 0 ELSE ends[k - 1]) + 1, ends[k] - 1)]
LinesComeOut ==
    WellFormed(file) /\ failures = 0 =>
        /\ Len(lines) <= Len(LinesOf(file)) /\ \A i \in DOMAIN lines : lines[i] = LinesOf(file)[i]
        /\ line = "no" /\ offset > 0 => lines = LinesOf(file)

(* What the code does not keep. *)

\* What waits fits in the buffer: not after a flush that failed, nor if the file has the number 0.
BufferIsNotOverrun == Len(buffer) <= BufferLength
\* Only what is in the buffer is moved in it.
FillStaysInside == ~outside
\* The text of every file comes out, but for newlines: the last byte of a long line does not, nor
\* that of a last line without a newline, or one that is cut by a read that fails; and after such a
\* read the lines that follow may not come at all.
TextComesOut ==
    line = "no" /\ offset > 0 /\ ~Contains(file, "NUL") =>
        FoldSeq(LAMBDA x, y : y \o x, <<>>, lines) = SelectSeq(file, LAMBDA c : c # "newline")
=============================================================================
