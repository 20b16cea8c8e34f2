----------------------------- MODULE Descriptions -----------------------------
(***************************************************************************)
(* The description of an object, put together in a buffer piece by piece,  *)
(* as sentrycrashobjc_getDescription does it: every piece is told how much *)
(* of the buffer is left, and says by how much it filled it.               *)
(***************************************************************************)
EXTENDS Integers, Sequences, FiniteSetsExt

CONSTANTS Objects,      \* [kind, text, readable, first]
          Lengths       \* of the buffer

VARIABLES object, length,
          buffer,       \* from 0, some of it behind the end
          fill,         \* pBuffer - buffer
          high,         \* the highest place written to, -1 at first
          pieces        \* that are to come, the first one next

vars == <<object, length, buffer, fill, high, pieces>>

Nothing == [kind |-> "nothing"]
Behind == 8             \* places behind the buffer that are looked at
-----------------------------------------------------------------------------
Piece(text) == [op |-> "print", text |-> text]
\* objectDescription and taggedObjectDescription: the class and the address.
ObjectDescription == Piece(<<"<", ">">>)

\* stringDescription, urlDescription; the contents are text as they are, or converted from UTF-16.
StringPieces(o) ==
    <<ObjectDescription, Piece(<<":", "quote">>),
      [op |-> IF o.kind = "string" /\ ~o.readable THEN "unreadable" ELSE o.kind, text |-> o.text],
      Piece(<<"quote">>)>>
\* dateDescription and numberDescription, of tagged ones too: the value.
DatePieces(o) == <<ObjectDescription, Piece(o.text)>>
NumberPieces(o) == <<ObjectDescription, Piece(o.text)>>
\* arrayDescription: the first object in brackets.
ArrayPieces(o) ==
    <<ObjectDescription, Piece(<<":", "[">>)>>
    \o (IF o.first = Nothing THEN <<>> ELSE <<[op |-> "first", object |-> o.first]>>) \o <<Piece(<<"]">>)>>

\* The description of each class.
PiecesOf(o) ==
    CASE o.kind = "unknown" -> <<ObjectDescription>>
      [] o.kind = "date" -> DatePieces(o)
      [] o.kind = "number" -> NumberPieces(o)
      [] o.kind \in {"string", "utf16"} -> StringPieces(o)
      [] o.kind = "taggedString" -> <<[op |-> "tagged", text |-> o.text]>>
      [] o.kind = "array" -> ArrayPieces(o)

\* The whole description: what a buffer that is long enough gets.
Texts(ps) == LET all[i \in 0..Len(ps)] ==
                     IF i = 0 THEN <<>> ELSE all[i - 1] \o (IF ps[i].op = "unreadable" THEN <<>> ELSE ps[i].text)
             IN  all[Len(ps)]
Whole(o) ==
    IF o.kind = "array" /\ o.first # Nothing
    THEN Texts(SubSeq(PiecesOf(o), 1, 2)) \o Texts(PiecesOf(o.first)) \o <<"]">>
    ELSE Texts(PiecesOf(o))

Init ==
    /\ object \in Objects /\ length \in Lengths
    /\ buffer = [i \in 0..(length + Behind) |-> "old"] /\ fill = 0 /\ high = -1
    /\ pieces = PiecesOf(object)
-----------------------------------------------------------------------------
Left == length - fill

\* The first n characters of a text are put into the buffer, and a terminator to the place z.
Put(text, n, z) ==
    /\ buffer' = [i \in DOMAIN buffer |-> IF i = z THEN "zero" ELSE IF i \in fill..(fill + n - 1)
                                          THEN text[i - fill + 1] ELSE buffer[i]]
    /\ high' = Max({high, z} \cup (IF n > 0 THEN {fill + n - 1} ELSE {}))

\* Mutant of Returned: always the length of the whole text, as vsnprintf gives it.
ReturnedAll(n, left) == n
\* What stringPrintf returns.
Returned(n, left) == IF n > left THEN left - 1 ELSE n

\* stringPrintf; a length below 0 is no limit for vsnprintf.
StringPrintf(text) ==
    LET n == Len(text) IN
    IF Left = 0 THEN UNCHANGED <<buffer, fill, high>>
    ELSE LET k == IF Left < 0 \/ n < Left THEN n ELSE Left - 1
         IN  Put(text, k, fill + k) /\ fill' = fill + Returned(n, Left)

\* copy8BitString.
Copy8(text, readable) ==
    LET n == IF Len(text) >= Left THEN Left - 1 ELSE Len(text) IN
    IF Left = 0 THEN UNCHANGED <<buffer, fill, high>>
    ELSE IF Len(text) = 0 \/ ~readable \/ n < 0 THEN Put(<<>>, 0, fill) /\ fill' = fill
    ELSE Put(text, n, fill + n) /\ fill' = fill + n

\* copyAndConvertUTF16StringToUTF8, each character of two bytes: one byte is left for the
\* terminator, which is written in any case.
Copy16(text) ==
    LET room == IF Left > 1 THEN (Left - 1) \div 2 ELSE 0
        n == 2 * Min({Len(text) \div 2, room})
    IN  Put(text, n, fill + n) /\ fill' = fill + n

\* extractTaggedNSString: as much as there is room for, but the terminator behind all of it.
CopyTagged(text) ==
    LET n == IF Len(text) + 1 > Left THEN Max({Left - 1, 0}) ELSE Len(text)
    IN  Put(text, n, fill + Len(text)) /\ fill' = fill + Len(text)

\* The next piece; the first object of an array if there is room for more than a terminator.
Describe ==
    LET p == Head(pieces) IN
    /\ pieces # <<>> /\ UNCHANGED <<object, length>>
    /\ pieces' = (IF p.op = "first" /\ fill < length - 1 THEN PiecesOf(p.object) ELSE <<>>) \o Tail(pieces)
    /\ CASE p.op = "print" -> StringPrintf(p.text)
         [] p.op = "string" -> Copy8(p.text, TRUE)
         [] p.op = "unreadable" -> Copy8(p.text, FALSE)
         [] p.op = "utf16" -> Copy16(p.text)
         [] p.op = "tagged" -> CopyTagged(p.text)
         [] p.op = "first" -> UNCHANGED <<buffer, fill, high>>

Next == Describe
Spec == Init /\ [][Next]_vars
-----------------------------------------------------------------------------
Kinds == {object.kind} \cup (IF object.kind = "array" THEN {object.first.kind} ELSE {})
Terminators == {i \in DOMAIN buffer : buffer[i] = "zero"}
Text == [i \in 1..Min(Terminators) |-> buffer[i - 1]]

TypeOK == length \in Lengths /\ object \in Objects /\ fill \in Int /\ high \in Int

\* A comment of the header: "buffer will be null terminated unless bufferLength is 0. If the string
\* doesn't fit, it will be truncated."  Nothing is written behind the buffer, and at the end it holds
\* the description, or as much of it as there is room for; but for the strings of the next two.
TruncatedInside ==
    Kinds \cap {"utf16", "taggedString"} = {} =>
        /\ high < length
        /\ pieces = <<>> /\ length > 0 =>
             Terminators # {} /\ Text = SubSeq(Whole(object), 1, Min({Len(Whole(object)), length - 1}))

(* What the code does not keep. *)

\* Also with strings that are converted, if the buffer is full when it comes to them, and with tagged
\* ones, whose terminator is put behind the text that was left out.
UTF16StaysInside == "utf16" \in Kinds => high < length
TaggedStaysInside == "taggedString" \in Kinds => high < length
\* A converted string that had to be cut is not followed by a quote, as if that had been all of it.
CutIsSeen == pieces = <<>> /\ "utf16" \in Kinds /\ Terminators # {} =>
                 Text = SubSeq(Whole(object), 1, Len(Text))
\* "the number of bytes copied (not including null terminator)": one more if the piece that is cut
\* has just the length that was left.
CountIsOfTheText == pieces = <<>> /\ length > 0 /\ Kinds \cap {"utf16", "taggedString"} = {} => fill = Len(Text)
=============================================================================
