----------------------------- MODULE JSONEncoder -----------------------------
(***************************************************************************)
(* The JSON encoder that crash reports are written with: a record for the  *)
(* encoding context, and one operator per call.  A text is a sequence of   *)
(* characters; "lit" stands for true, false, null or a number, and "a" for *)
(* any character that needs no escape.  A call returns the context with    *)
(* the error code in result, and with what it sent to the sink in out.     *)
(***************************************************************************)
EXTENDS Integers, SequencesExt

CONSTANTS
    Portion,   \* half of the work buffer, in characters
    Pretty     \* pretty printing

ASSUME EncoderAssumption == Portion \in Nat \ {0} /\ Pretty \in BOOLEAN

NULL    == <<"NULL">>                     \* a name or a string that is absent
Errors  == {"ok", "invalid_character", "too_long", "cannot_add", "incomplete", "invalid_data"}
Escapes == [bslash |-> "bslash", quote |-> "quote", newline |-> "n"]
Plain   == {"a", "n", "{", "}", "[", "]", ",", ":", "lit"}
InMemory == Plain \cup DOMAIN Escapes \cup {"control"}

\* The sink takes this many more calls (-1: any number).
Context(room) == [level |-> 0, isObject |-> <<>>, first |-> TRUE,
                  result |-> "ok", out |-> <<>>, room |-> room]

BeginEncode(room) == Context(room)

Ok(e)      == e.result = "ok"
Fail(e, r) == [e EXCEPT !.result = r]

\* addJSONData.  Callers return as soon as it fails.
Write(e, s) == IF ~Ok(e) THEN e
               ELSE IF e.room = 0 THEN Fail(e, "cannot_add")
               ELSE [e EXCEPT !.out = @ \o s, !.room = IF @ > 0 THEN @ - 1 ELSE @]

\* A call starts with nothing sent and no error.
Called(e) == [e EXCEPT !.out = <<>>, !.result = "ok"]

Escaped(c) == IF c \in DOMAIN Escapes THEN <<"bslash", Escapes[c]>> ELSE <<c>>

EncodedPortion(p) == FlattenSeq([i \in DOMAIN p |-> Escaped(p[i])])

\* One portion goes through the work buffer and is sent as a whole, or not at all.
AppendEscaped(e, p) == IF Ok(e) /\ "control" \in Range(p) THEN Fail(e, "invalid_character")
                       ELSE Write(e, EncodedPortion(p))

Portions(s) == [i \in 1..((Len(s) + Portion - 1) \div Portion) |->
                   SubSeq(s, (i - 1) * Portion + 1,
                          IF i * Portion < Len(s) THEN i * Portion ELSE Len(s))]

AddEscaped(e, s) == FoldLeft(AppendEscaped, e, Portions(s))

Outcome(closed, bodyOk) == IF bodyOk /\ Ok(closed) THEN closed ELSE Fail(closed, "invalid_character")

\* Mutant: the quote is closed only after the whole content.
CloseQuoteIfWritten(body) == Write(body, <<"quote">>)

\* The closing quote is sent whatever became of the content; `result || closeResult' is a
\* boolean, so every error here has the code of the first one.
CloseQuote(body) == Outcome(Write([body EXCEPT !.result = "ok"], <<"quote">>), Ok(body))

Content(e, s) == IF Ok(e) THEN CloseQuote(AddEscaped(e, s)) ELSE e

Quoted(e, s) == Content(Write(e, <<"quote">>), s)

Indent(e) == FoldLeft(Write, Write(e, <<"space">>), [i \in 1..e.level |-> <<"space">>])

InObject(e) == e.level > 0 /\ e.isObject[e.level]

\* The comma is sent before the name is looked at.
Separate(e) == IF e.first THEN [e EXCEPT !.first = FALSE] ELSE Write(e, <<",">>)

Line(e, wanted) == IF Pretty /\ wanted THEN Indent(e) ELSE e

NameIfAny(e, name) ==
    IF ~Ok(e) \/ ~InObject(e) THEN e
    ELSE IF name = NULL THEN Fail(e, "invalid_data")
    ELSE Write(Quoted(e, name), <<":">>)

\* Mutant: a comma before every element but the first of the whole text.
BeginElementForgettingFirst(e, name) ==
    NameIfAny(Separate([e EXCEPT !.first = @ \/ e.level = 1]), name)

BeginElement(e, name) == NameIfAny(Line(Separate(e), e.level > 0), name)

\* addBooleanElement, addIntegerElement, addFloatingPointElement and addNullElement.
AddLiteral(e, name, lit) == Write(BeginElement(e, name), lit)

AddString(e, name, s) ==
    IF s = NULL THEN AddLiteral(e, name, <<"lit">>) ELSE Quoted(BeginElement(e, name), s)

BeginString(e, name) == Write(BeginElement(e, name), <<"quote">>)
AppendString(e, s)   == AddEscaped(e, s)
EndString(e)         == Write(e, <<"quote">>)

\* Two hexadecimal digits per byte, each byte sent on its own.
AppendData(e, n) == FoldLeft(Write, e, [i \in 1..n |-> <<"a", "a">>])
AddData(e, name, n) == EndString(AppendData(BeginString(e, name), n))

\* The level is raised before the bracket is sent.
Open(e, isObject) ==
    IF ~Ok(e) THEN e
    ELSE Write([e EXCEPT !.level = @ + 1, !.first = TRUE,
                         !.isObject = SubSeq(@, 1, e.level) \o <<isObject>>],
               IF isObject THEN <<"{">> ELSE <<"[">>)

BeginContainer(e, name, isObject) == Open(BeginElement(e, name), isObject)

Lower(e) == [e EXCEPT !.level = @ - 1, !.isObject = Front(@)]

Close(e, closer) == IF Ok(e) THEN Write([e EXCEPT !.first = FALSE], closer) ELSE e

\* Mutant: the level may fall below zero.
EndContainerUnguarded(e) == Close(Lower(e), IF InObject(e) THEN <<"}">> ELSE <<"]">>)

EndContainer(e) ==
    IF e.level <= 0 \/ ~Ok(e) THEN e
    ELSE Close(Line(Lower(e), ~e.first), IF InObject(e) THEN <<"}">> ELSE <<"]">>)

\* Mutant: the root container is left open.
EndEncodeButRoot(e) == FoldLeft(LAMBDA c, i : EndContainer(c), e, [i \in 2..e.level |-> i])

EndEncode(e) == FoldLeft(LAMBDA c, i : EndContainer(c), e, [i \in 1..e.level |-> i])
-----------------------------------------------------------------------------
(* A reader of JSON, character by character: the containers that are open  *)
(* and what may come next.  It is the grammar, and knows nothing of the    *)
(* encoder but the characters.                                             *)

Broken    == [open |-> <<>>, next |-> "broken"]
Closer(o) == IF o THEN "}" ELSE "]"

\* After a value: a comma or the end, or nothing more at the root.
AfterValue(open) == [open |-> open, next |-> IF open = <<>> THEN "nothing" ELSE "comma"]

\* One character of the grammar.
Reads(r, c) ==
    LET inObject == r.open # <<>> /\ Last(r.open)
        inText   == r.next \in {"string", "name"}
    IN  CASE c = "space" /\ ~inText -> r
          [] inText /\ c = "bslash" -> [r EXCEPT !.next = r.next \o "-escape"]
          [] inText /\ c = "quote" -> IF r.next = "name" THEN [r EXCEPT !.next = "colon"]
                                      ELSE AfterValue(r.open)
          [] inText /\ c \in Plain -> r
          [] r.next = "string-escape" /\ c \in Range(Escapes) -> [r EXCEPT !.next = "string"]
          [] r.next = "name-escape" /\ c \in Range(Escapes) -> [r EXCEPT !.next = "name"]
          [] r.next \in {"value", "first"} /\ ~(inObject /\ r.next = "first") /\ c = "quote" ->
                [r EXCEPT !.next = "string"]
          [] r.next \in {"value", "first"} /\ ~(inObject /\ r.next = "first") /\ c = "lit" ->
                AfterValue(r.open)
          [] r.next \in {"value", "first"} /\ ~(inObject /\ r.next = "first") /\ c \in {"{", "["} ->
                [open |-> r.open \o <<c = "{">>, next |-> "first"]
          [] inObject /\ r.next \in {"first", "member"} /\ c = "quote" -> [r EXCEPT !.next = "name"]
          [] r.next = "colon" /\ c = ":" -> [r EXCEPT !.next = "value"]
          [] r.next = "comma" /\ c = "," -> [r EXCEPT !.next = IF inObject THEN "member" ELSE "value"]
          [] r.next \in {"comma", "first"} /\ r.open # <<>> /\ c = Closer(inObject) ->
                AfterValue(Front(r.open))
          [] OTHER -> Broken

Unread == [open |-> <<>>, next |-> "value"]

ReadAll(r, s) == FoldLeft(Reads, r, s)
=============================================================================
