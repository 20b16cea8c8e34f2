------------------------------ MODULE JSONEmbed ------------------------------
(***************************************************************************)
(* Texts of JSON inside a report: the scope's and the user's data, which   *)
(* are in memory, and an earlier report, which is read from its file       *)
(* through a buffer that slides along while the decoder is in the middle   *)
(* of it.  Decoder and encoder run in lock step: each event is encoded.    *)
(***************************************************************************)
EXTENDS JSONEncoder, FiniteSets

CONSTANTS
    BufLen,      \* the buffer for the file (1000)
    NameSize,    \* buffers for a decoded name (100) and string (500 and 5000)
    StringSize,
    Sources      \* the texts, whole or not



VARIABLES
    enc,      \* the encoder's context; out holds all that was sent
    before,   \* the context before the call
    call      \* what was embedded and the result, or "none"

vars == <<enc, before, call>>

\* Mutant: what was not decoded yet is not kept.
RefilledAnew(d) ==
    LET n == IF Len(d.file) < BufLen THEN Len(d.file) ELSE BufLen
    IN  IF d.eof \/ d.end - d.ptr >= BufLen \div 2 THEN d
        ELSE [d EXCEPT !.buf  = [i \in 1..BufLen |-> IF i <= n THEN d.file[i] ELSE d.buf[i]],
                       !.ptr  = 1, !.file = SubSeq(@, n + 1, Len(@)), !.eof  = n < BufLen]

\* Mutant: the buffer is filled again when only a quarter is left.
RefilledLate(d) ==
    LET remaining == d.end - d.ptr
        n == IF Len(d.file) < BufLen - remaining THEN Len(d.file) ELSE BufLen - remaining
    IN  IF d.eof \/ remaining >= BufLen \div 4 THEN d
        ELSE [d EXCEPT !.buf  = SubSeq(d.buf, d.ptr, d.end - 1) \o SubSeq(d.file, 1, n)
                                \o SubSeq(d.buf, remaining + n + 1, BufLen),
                       !.ptr  = 1, !.file = SubSeq(@, n + 1, Len(@)), !.eof = n < BufLen - remaining]

\* updateDecoder_readFile: refill when less than half is left; end does not move at the end of file.
Refilled(d) ==
    LET remaining == d.end - d.ptr
        n == IF Len(d.file) < BufLen - remaining THEN Len(d.file) ELSE BufLen - remaining
    IN  IF d.eof \/ remaining >= BufLen \div 2 THEN d
        ELSE [d EXCEPT
                 !.buf  = [i \in 1..BufLen |->
                              IF i <= remaining THEN d.buf[d.ptr + i - 1]
                              ELSE IF i <= remaining + n THEN d.file[i - remaining] ELSE d.buf[i]],
                 !.ptr  = 1,
                 !.file = SubSeq(@, n + 1, Len(@)),
                 !.eof  = n < BufLen - remaining]

\* addJSONFromFile_onEndContainer: without closeLastContainer only from the third level on.
OnEndContainer(d, e) == IF d.close \/ e.level > 2 THEN EndContainer(e) ELSE e

OnElement(e, ev) ==
    IF ev.kind \in {"object", "array"} THEN BeginContainer(e, ev.name, ev.kind = "object")
    ELSE IF ev.kind = "string" THEN AddString(e, ev.name, ev.value)
    ELSE AddLiteral(e, ev.name, <<"lit">>)

Passed(d, e) == Refilled([d EXCEPT !.enc = e, !.result = e.result])

Embedded(d, ev) ==
    Passed(d, IF ev.kind = "end" THEN OnEndContainer(d, d.enc) ELSE OnElement(d.enc, ev))

D == INSTANCE JSONDecoder WITH Callback <- Embedded, IntModulus <- 256

\* Mutant: one container is closed.
ClosedOnce(e, level, close) == IF close /\ e.level > level THEN EndContainer(e) ELSE e

\* Only with closeLastContainer are the containers closed that the text left open.
Closed(e, level, close) ==
    IF ~close THEN e ELSE FoldLeft(LAMBDA c, i : EndContainer(c), e, [i \in 1..(e.level - level) |-> i])

Context0(e, close) == [ptr |-> 1, past |-> "NUL", nameSize |-> NameSize, stringSize |-> StringSize,
                       result |-> "ok", enc |-> e, close |-> close]

Result(d, level) == [enc |-> Closed([d.enc EXCEPT !.result = "ok"], level, d.close), result |-> d.result]

AddJSONElement(e, name, s, close) ==
    LET d == [buf |-> s, end |-> Len(s) + 1, file |-> <<>>, eof |-> TRUE] @@ Context0(e, close)
    IN  Result(D!DecodeElement(d, name), e.level)

\* The buffer is filled from the file before the first element.
AddJSONFromFile(e, name, s, close) ==
    LET d == [buf |-> [i \in 1..BufLen |-> "NUL"], end |-> BufLen + 1, file |-> s, eof |-> FALSE]
             @@ [Context0(e, close) EXCEPT !.ptr = BufLen + 1]
    IN  Result(D!DecodeElement(Refilled(d), name), e.level)

Name == <<"a">>

\* addJSONElement of the report's writer: an error object in the place of a text that fails.
Explained(r) ==
    IF r.result = "ok" THEN r
    ELSE [r EXCEPT !.enc = EndContainer(AddString(BeginContainer(@, Name, TRUE), <<"n">>, <<"a">>))]

Init ==
    /\ \E depth \in 1..3 :
         enc = FoldLeft(LAMBDA e, i : BeginContainer(e, IF i = 1 THEN NULL ELSE Name, TRUE),
                        BeginEncode(-1), [i \in 1..depth |-> i])
    /\ before = enc /\ call = [kind |-> "none"]

Done(r, kind, s, close) ==
    /\ enc' = r.enc
    /\ call' = [kind |-> kind, source |-> s, close |-> close, result |-> r.result]
    /\ UNCHANGED before

FromMemory == /\ call.kind = "none"
              /\ \E s \in Sources, close \in BOOLEAN :
                   Done(Explained(AddJSONElement(enc, Name, s, close)), "memory", s, close)

FromFile == /\ call.kind = "none"
            /\ \E s \in Sources : Done(AddJSONFromFile(enc, Name, s, TRUE), "file", s, TRUE)

\* The report goes on and ends.
Finish == /\ call.kind \in {"memory", "file"} /\ call' = [call EXCEPT !.kind = "ended"]
          /\ enc' = EndEncode(AddLiteral(enc, <<"n">>, <<"lit">>)) /\ UNCHANGED before

Next == FromMemory \/ FromFile \/ Finish
Spec == Init /\ [][Next]_vars
-----------------------------------------------------------------------------
Added   == SubSeq(enc.out, Len(before.out) + 1, Len(enc.out))
Member  == (IF before.first THEN <<>> ELSE <<",">>) \o <<"quote">> \o Name \o <<"quote", ":">>
Reader  == ReadAll(Unread, enc.out)
IsWhole(s) == ReadAll(Unread, s).next = "nothing"

\* A whole text that is embedded without an error is in the report as it is, and the report goes
\* on beside it.
WholeIsCopied ==
    call.kind \in {"memory", "file"} /\ call.close /\ IsWhole(call.source) /\ call.result = "ok" =>
        Added = Member \o call.source

\* Whatever the text holds and wherever it ends, closing leaves the report at the level it was at.
LevelIsKept == call.kind \in {"memory", "file"} /\ call.close => enc.isObject = before.isObject

\* A name with an escape whose character can not be written.
BadNameIn(s) ==
    \E i, j \in DOMAIN s : /\ i < j /\ j < Len(s) /\ s[i] = "uControl" /\ s[j] = "quote" /\ s[j + 1] = ":"
                          /\ \A k \in (i + 1)..(j - 1) : s[k] # "quote"

\* No element, torn or refused half-way, keeps the report from being a JSON text at its end, but for
\* a name with a character that can not be written: beginElement stops after the first part of it.
ReportIsReadable ==
    (call.kind # "none" => ~BadNameIn(call.source)) =>
        IF call.kind = "ended" THEN Reader.next = "nothing"
        ELSE Reader.next # "broken" /\ Reader.open = enc.isObject

\* A text whose elements fit half of the buffer reaches the report whole, through however many
\* refills it takes.
FitsBuffer(s) == \A i \in 0..Len(s) : i + BufLen \div 2 - 3 <= Len(s) =>
                     \E j \in 1..(BufLen \div 2 - 3) : s[i + j] \in {",", "{", "[", "}", "]"}
WholeFileIsRead == call.kind = "file" /\ IsWhole(call.source) /\ FitsBuffer(call.source) => call.result = "ok"

\* Without closing, the last container stays open and no other.
OnlyLastStaysOpen == call.kind = "memory" /\ ~call.close => enc.level <= before.level + 1

\* Nothing of the file is added twice: counted by its literals.
Literals(s)  == {i \in DOMAIN s : s[i] = "lit"}
NothingTwice == call.kind = "file" => Cardinality(Literals(Added)) <= Cardinality(Literals(call.source))

(* What the code does not keep. *)

\* The report is a JSON text whatever is embedded: not after a name that can not be written.
NoElementBreaksIt == call.kind = "ended" => Reader.next = "nothing"
=============================================================================
