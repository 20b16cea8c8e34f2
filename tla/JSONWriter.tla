------------------------------ MODULE JSONWriter ------------------------------
(***************************************************************************)
(* The encoder at work, with a reader that follows what arrives at the     *)
(* sink character by character.  The reader is the grammar of JSON, so     *)
(* what it says of the text is independent of what the encoder believes.   *)
(***************************************************************************)
EXTENDS JSONEncoder

CONSTANTS
    MaxLevel,   \* bound: containers inside each other; isObject[200] is not checked by the code
    Strings,    \* bound: the strings that are added
    Names,      \* names of elements, NULL among them when callers pass it
    Rooms       \* what the sink may take

ASSUME WriterAssumption == MaxLevel \in Nat /\ Strings \subseteq Seq(InMemory) \cup {NULL}
                           /\ Names \subseteq Seq(InMemory) \cup {NULL} /\ Rooms \subseteq Nat \cup {-1}

VARIABLES
    enc,      \* the encoding context
    reader,   \* what has been read: open containers, and what may come next
    inside,   \* a string element was begun and not ended
    failed,   \* the errors that calls have returned, and "nan", which none of them is
    ended     \* endEncode was called

vars == <<enc, reader, inside, failed, ended>>

Init ==
    /\ \E room \in Rooms : enc = BeginEncode(room)
    /\ reader = Unread
    /\ inside = FALSE /\ failed = {} /\ ended = FALSE

\* The call that leaves the context e.
Call(e) ==
    /\ enc' = [e EXCEPT !.out = <<>>, !.result = "ok"]
    /\ reader' = ReadAll(reader, e.out)
    /\ failed' = failed \cup ({e.result} \ {"ok"}) \cup (ToSet(e.out) \cap {"nan"})

\* Callers add one root element, and nothing between the beginning and the end of a string.
MayAdd == ~inside /\ ~ended /\ (enc.level = 0 => enc.first)

Literal == /\ MayAdd /\ \E name \in Names : Call(AddLiteral(enc, name, <<"lit">>))
           /\ UNCHANGED <<inside, ended>>
\* A floating point number that is printed as inf or nan: the call reports nothing.
NotANumber == /\ MayAdd /\ \E name \in Names : Call(AddLiteral(enc, name, <<"nan">>))
              /\ UNCHANGED <<inside, ended>>
String  == /\ MayAdd /\ \E name \in Names, s \in Strings : Call(AddString(enc, name, s))
           /\ UNCHANGED <<inside, ended>>
Data    == /\ MayAdd /\ \E name \in Names, n \in 0..2 : Call(AddData(enc, name, n))
           /\ UNCHANGED <<inside, ended>>
OpenString == /\ MayAdd
              /\ \E e \in {BeginString(enc, name) : name \in Names} : Call(e) /\ inside' = Ok(e)
              /\ UNCHANGED ended
MoreString == /\ inside /\ \E s \in Strings \ {NULL} : Call(AppendString(enc, s))
              /\ UNCHANGED <<inside, ended>>
CloseString == inside /\ inside' = FALSE /\ Call(EndString(enc)) /\ UNCHANGED ended
Container == /\ MayAdd /\ enc.level < MaxLevel
             /\ \E name \in Names, isObject \in BOOLEAN : Call(BeginContainer(enc, name, isObject))
             /\ UNCHANGED <<inside, ended>>
CloseContainer == /\ ~inside /\ ~ended /\ Call(EndContainer(enc))
         /\ UNCHANGED <<inside, ended>>
End == ~inside /\ ~ended /\ ~enc.first /\ Call(EndEncode(enc)) /\ ended' = TRUE /\ UNCHANGED inside

Next == \/ Literal \/ NotANumber \/ String \/ Data \/ OpenString \/ MoreString \/ CloseString
        \/ Container \/ CloseContainer \/ End
Spec == Init /\ [][Next]_vars
-----------------------------------------------------------------------------
TypeOK ==
    /\ enc.level \in 0..MaxLevel /\ enc.isObject \in Seq(BOOLEAN) /\ Len(enc.isObject) = enc.level
    /\ enc.first \in BOOLEAN /\ enc.result = "ok" /\ enc.out = <<>>
    /\ reader.open \in Seq(BOOLEAN) /\ failed \subseteq Errors \cup {"nan"}
    /\ inside \in BOOLEAN /\ ended \in BOOLEAN

\* As long as no call has failed and every number is one, the sink has received the beginning of a JSON text, and the
\* containers open in it are those the encoder will close, in this order and of these kinds.
ReadableSoFar == failed = {} => reader.next # "broken" /\ reader.open = enc.isObject

\* Once the encoding has ended without an error, the sink has received a whole JSON text.
EndedMeansWhole == ended /\ failed = {} => reader.next = "nothing"

\* A string that can not be written to its end is closed all the same: whatever the strings that
\* are added, the text stays readable when the names are good and the sink takes everything.
BadStringsAreClosed ==
    failed \subseteq {"invalid_character"} /\ enc.room = -1 =>
        reader.next # "broken" /\ reader.open = enc.isObject

\* No string is cut short, whatever its characters and the size of the work buffer.
NothingTruncated == "invalid_character" \notin failed
=============================================================================
