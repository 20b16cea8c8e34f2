----------------------------- MODULE JSONDecoder -----------------------------
(***************************************************************************)
(* The JSON decoder: recursive descent over a buffer, with a callback for  *)
(* everything it meets.  A context is a record with buf, ptr, end, the     *)
(* sizes of the two text buffers, result, and whatever the callbacks add.  *)
(* A callback may move ptr and change buf: one of the code's does.         *)
(*   The words true, false and null are the character "lit"; an escaped    *)
(* character \uXXXX is "bslash" and one of the characters in Quads.        *)
(***************************************************************************)
EXTENDS Integers, SequencesExt

CONSTANTS
    Callback(_, _),   \* the context after an event; its result may be an error
    IntModulus        \* 2^64: integers are signed and wrap

Digit    == [c \in {"0", "1", "2", "3", "4", "5", "6", "7", "8", "9"} |->
                CHOOSE n \in 0..9 : ToString(n) = c]
FPChars  == DOMAIN Digit \cup {".", "e", "-"}    \* isFPChar
\* Mutant: only quotes and backslashes are restored.
UnescapeMarks == [bslash |-> "bslash", quote |-> "quote", n |-> "n"]
Unescape == [bslash |-> "bslash", quote |-> "quote", n |-> "newline"]
Quads    == [uPlain |-> "a", uControl |-> "control"]    \* and "uLead", "uTrail", "uBad", "uCut"
NoName   == <<"NULL">>

Ok(d)      == d.result = "ok"
Fail(d, r) == [d EXCEPT !.result = r]
AtEnd(d)   == d.ptr >= d.end
Skip(d)    == [d EXCEPT !.ptr = @ + 1]

\* Past the end: one character of whatever follows the buffer is read after a sign.
At(d) == IF AtEnd(d) THEN d.past ELSE d.buf[d.ptr]

RECURSIVE SkipSpace(_)
SkipSpace(d) == IF ~AtEnd(d) /\ At(d) = "space" THEN SkipSpace(Skip(d)) ELSE d

\* The text after the opening quote up to the first quote that is not escaped.
RECURSIVE QuoteAt(_, _)
QuoteAt(d, i) == IF i >= d.end \/ d.buf[i] = "quote" THEN i
                 ELSE QuoteAt(d, i + IF d.buf[i] = "bslash" THEN 2 ELSE 1)

\* The decoded text and an error code.
RECURSIVE Decoded(_)
Decoded(s) ==
    LET After(n, cs) == LET rest == Decoded(SubSeq(s, n + 1, Len(s)))
                        IN  [rest EXCEPT !.text = cs \o @]
        Refused(r)   == [result |-> r, text |-> <<>>]
    IN  CASE s = <<>> -> [result |-> "ok", text |-> <<>>]
          [] s # <<>> /\ s[1] # "bslash" -> After(1, <<s[1]>>)
          [] OTHER ->
               CASE s[2] \in DOMAIN Unescape -> After(2, <<Unescape[s[2]]>>)
                 [] s[2] \in DOMAIN Quads -> After(2, <<Quads[s[2]]>>)
                 [] s[2] = "uCut" -> Refused("incomplete")
                 [] s[2] = "uLead" ->    \* a surrogate pair
                      IF Len(s) < 4 THEN Refused("incomplete")
                      ELSE IF s[3] = "bslash" /\ s[4] = "uTrail" THEN After(4, <<"a">>)
                      ELSE Refused("invalid_character")
                 [] OTHER -> Refused("invalid_character")

Text(d, close, t) == [at |-> [d EXCEPT !.ptr = close + 1, !.result = t.result], text |-> t.text]

NoText(d, r) == [at |-> Fail(d, r), text |-> <<>>]

\* Mutant: the end of the buffer ends a text.
TextUpToEnd(d, close, size) == Text(d, close, Decoded(SubSeq(d.buf, d.ptr + 1, close - 1)))

TextUpTo(d, close, size) ==
    IF close >= d.end THEN NoText(d, "incomplete")
    ELSE IF close - d.ptr - 1 >= size THEN NoText(d, "too_long")
    ELSE Text(d, close, Decoded(SubSeq(d.buf, d.ptr + 1, close - 1)))

\* decodeString: the context after it, and the text.
DecodeString(d, size) == IF At(d) # "quote" THEN NoText(d, "invalid_character")
                         ELSE TextUpTo(d, QuoteAt(d, d.ptr + 1), size)

\* Signed, of the width of int64_t.
Wrapped(n) == LET m == n % IntModulus IN IF m >= IntModulus \div 2 THEN m - IntModulus ELSE m

\* The digits from ptr on; an overflow that shows in the sign ends them.
RECURSIVE Digits(_, _)
Digits(d, accum) ==
    IF AtEnd(d) \/ At(d) \notin DOMAIN Digit \/ accum < 0 THEN [at |-> d, accum |-> accum]
    ELSE Digits(IF Wrapped(accum * 10 + Digit[At(d)]) < 0 THEN d ELSE Skip(d),
                Wrapped(accum * 10 + Digit[At(d)]))

RECURSIVE SkipFloat(_)
SkipFloat(d) == IF ~AtEnd(d) /\ At(d) \in FPChars THEN SkipFloat(Skip(d)) ELSE d

Event(kind, name, value) == [kind |-> kind, name |-> name, value |-> value]

\* What was met, and the context after it.
Met(d, kind, name, value) == [at |-> d, event |-> Event(kind, name, value)]
Nothing(d)                == [at |-> d, event |-> Event("none", NoName, <<>>)]

Float(from, at, name, sign) ==
    IF AtEnd(at) THEN Nothing(Fail(at, "incomplete"))
    ELSE IF at.ptr - from >= at.stringSize THEN Nothing(Fail(at, "too_long"))
    ELSE Met(at, "float", name,
             (IF sign < 0 THEN <<"-">> ELSE <<>>) \o SubSeq(at.buf, from, at.ptr - 1))

AfterDigits(from, whole, name, sign) ==
    IF AtEnd(whole.at) THEN Nothing(Fail(whole.at, "incomplete"))
    ELSE IF At(whole.at) \notin FPChars /\ whole.accum >= 0
         THEN Met(whole.at, "integer", name, <<sign * whole.accum>>)
    ELSE Float(from, SkipFloat(whole.at), name, sign)

Number(d, name, sign) == IF At(d) \notin DOMAIN Digit THEN Nothing(Fail(d, "invalid_character"))
                         ELSE AfterDigits(d.ptr, Digits(d, 0), name, sign)

AfterString(t, name) == IF Ok(t.at) THEN Met(t.at, "string", name, t.text) ELSE Nothing(t.at)

Scan(d, name) ==
    IF AtEnd(d) THEN Nothing(Fail(d, "incomplete"))
    ELSE LET c == At(d) IN
         CASE c = "["     -> Met(Skip(d), "array", name, <<>>)
           [] c = "{"     -> Met(Skip(d), "object", name, <<>>)
           [] c = "quote" -> AfterString(DecodeString(d, d.stringSize), name)
           [] c = "lit"   -> Met(Skip(d), "literal", name, <<"lit">>)
           [] c = "-"     -> Number(Skip(d), name, -1)
           [] OTHER       -> Number(d, name, 1)

Report(m) == [at |-> IF Ok(m.at) THEN Callback(m.at, m.event) ELSE m.at, kind |-> m.event.kind]

AfterName(name) ==
    LET d == SkipSpace(name.at)
    IN  IF ~Ok(name.at) THEN name.at
        ELSE IF AtEnd(d) THEN Fail(d, "incomplete")
        ELSE IF At(d) # ":" THEN Fail(d, "invalid_character")
        ELSE Skip(d)

RECURSIVE DecodeElement(_, _), Members(_, _)

Named(d, name) == IF Ok(d) THEN DecodeElement(d, name) ELSE d

NamedMember(name) == Named(AfterName(name), name.text)

\* A comma between two members is skipped where there is one.
AfterMember(d, isObject) ==
    IF ~Ok(d) THEN d
    ELSE IF AtEnd(d) THEN Fail(d, "incomplete")
    ELSE Members(IF At(d) = "," THEN Skip(d) ELSE d, isObject)

\* The rest of a container.
Member(d, isObject) ==
    IF AtEnd(d) THEN Fail(d, "incomplete")
    ELSE IF At(d) = (IF isObject THEN "}" ELSE "]")
         THEN Callback(Skip(d), Event("end", NoName, <<>>))
    ELSE AfterMember(SkipSpace(IF isObject THEN NamedMember(DecodeString(d, d.nameSize))
                               ELSE DecodeElement(d, NoName)), isObject)

Members(d, isObject) == Member(SkipSpace(d), isObject)

Inside(b) == IF Ok(b.at) /\ b.kind \in {"object", "array"} THEN Members(b.at, b.kind = "object")
             ELSE b.at

DecodeElement(d, name) == Inside(Report(Scan(SkipSpace(d), name)))

\* sentrycrashjson_decode: a quarter of the caller's buffer is for names.
Decode(d, size) == DecodeElement([d EXCEPT !.nameSize = size \div 4,
                                           !.stringSize = size - size \div 4], NoName)
=============================================================================
