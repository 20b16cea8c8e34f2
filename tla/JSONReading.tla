----------------------------- MODULE JSONReading -----------------------------
(***************************************************************************)
(* The decoder given the beginning of a text, a character more at each     *)
(* step.  Its events, sent to the encoder, must give the text again.       *)
(***************************************************************************)
EXTENDS JSONEncoder

CONSTANTS
    Texts,       \* texts of JSON, without white space
    BufferSize,  \* the size of the buffer for decoded texts
    Modulus      \* 2^width of an integer

VARIABLES text, cut, past

vars == <<text, cut, past>>

Decimal(n) == LET s == ToString(IF n < 0 THEN -n ELSE n)
              IN  (IF n < 0 THEN <<"-">> ELSE <<>>) \o [i \in 1..Len(s) |-> SubSeq(s, i, i)]

\* The encoder's calls for one event.
Encoded(e, ev) ==
    IF ev.kind = "end" THEN EndContainer(e)
    ELSE IF ev.kind \in {"object", "array"} THEN BeginContainer(e, ev.name, ev.kind = "object")
    ELSE IF ev.kind = "string" THEN AddString(e, ev.name, ev.value)
    ELSE AddLiteral(e, ev.name, IF ev.kind = "integer" THEN Decimal(ev.value[1]) ELSE ev.value)

Taken(d, e) == [d EXCEPT !.enc = e, !.result = e.result]

Received(d, ev) == Taken(d, Encoded(d.enc, ev))

D == INSTANCE JSONDecoder WITH Callback <- Received, IntModulus <- Modulus

Start(s) == [buf |-> s, ptr |-> 1, end |-> Len(s) + 1, past |-> past, nameSize |-> 0,
             stringSize |-> 0, result |-> "ok", enc |-> BeginEncode(-1)]

Reading == D!Decode(Start(SubSeq(text, 1, cut)), BufferSize)

Init == text \in Texts /\ cut = 0 /\ past \in {"1", "NUL"}
More == cut < Len(text) /\ cut' = cut + 1 /\ UNCHANGED <<text, past>>

Next == More
Spec == Init /\ [][Next]_vars
-----------------------------------------------------------------------------
\* A text of which only a part is there is refused as such, wherever it was cut, unless the
\* part ends with a sign; nothing is read beyond the end that could change this.
CutMeansIncomplete ==
    cut < Len(text) => LET r == Reading.result IN
                       r = "incomplete" \/ (r = "invalid_character" /\ cut > 0 /\ text[cut] = "-")

\* What the decoder reports of a whole text is that text: no element, name, kind of container or
\* character is lost, added or moved.
WholeRoundTrips == cut = Len(text) => LET d == Reading IN d.result = "ok" /\ d.enc.out = text

\* An integer that does not fit its type is not reported as another integer.
OverflowDetected ==
    cut = Len(text) => LET d == Reading IN d.result = "ok" => Len(d.enc.out) = Len(text)
=============================================================================
