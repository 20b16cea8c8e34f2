------------------------------ MODULE TextBuffers ------------------------------
(***************************************************************************)
(* Texts in the memory of a crashed program: how many bytes can be read,   *)
(* found by trying; a UTF-16 string made UTF-8 in a buffer; what is taken  *)
(* for a string; and an address in the text of an exception's reason.      *)
(***************************************************************************)
EXTENDS Integers, Sequences, SequencesExt

CONSTANTS
    Memories,       \* sequences of BOOLEAN: the bytes that can be read, FALSE behind them
    Counts,         \* numbers of bytes that are asked for
    TestBufferSize, \* of g_memoryTestBuffer
    Strings,        \* UTF-16 strings: sequences of "ascii", "control", "two", "three", "lead", "tail"
    Lengths,        \* sizes of the buffer a string is converted into
    MinLength,      \* kMinStringLength
    Reasons,        \* texts: sequences of "0", "x", "1", "other"
    MaxNybbles      \* of a word

VARIABLES
    task,           \* "readable", "string" or "address"
    memory, byteCount,
    try,            \* a copyMaxPossible: [copied, src, srcMax, srcEnd, tries, ended], positions from 0
    string, length, converted,   \* converted: sequence of bytes
    reason, address              \* address: the digits that were found, or "none"

vars == <<task, memory, byteCount, try, string, length, converted, reason, address>>

TypeOK ==
    /\ task \in {"readable", "string", "address"} /\ byteCount \in Nat /\ length \in Nat
    /\ try.copied \in Nat /\ try.ended \in BOOLEAN

Unread == [bytes |-> <<>>, done |-> FALSE]
NoTry  == [copied |-> 0, src |-> 0, srcMax |-> 0, srcEnd |-> 0, tries |-> 0, ended |-> TRUE]
Init ==
    /\ task \in {"readable", "string", "address"}
    /\ memory \in IF task = "readable" THEN Memories ELSE {<<>>}
    /\ byteCount \in IF task = "readable" THEN Counts ELSE {0}
    /\ try = [NoTry EXCEPT !.srcMax = byteCount, !.srcEnd = byteCount, !.ended = task # "readable"]
    /\ string \in IF task = "string" THEN Strings ELSE {<<>>}
    /\ length \in IF task = "string" THEN Lengths ELSE {0}
    /\ converted = Unread
    /\ reason \in IF task = "address" THEN Reasons ELSE {<<>>}
    /\ address = Unread
-----------------------------------------------------------------------------
(* copyMaxPossible.                                                        *)

ReadableAt(p)   == p < Len(memory) /\ memory[p + 1]
CopySafely(p, n) == \A i \in 0..(n - 1) : ReadableAt(p + i)

\* The end of what may be readable comes down to what could not be read, and half of it is tried.
Narrow(t, n) == [t EXCEPT !.srcMax = t.srcEnd, !.srcEnd = t.src + n \div 2]
Widen(t, n)  == [t EXCEPT !.copied = @ + n, !.src = @ + n,
                          !.srcEnd = t.src + n + (t.srcMax - (t.src + n)) \div 2]

Start ==
    /\ ~try.ended /\ try.tries = 0
    /\ try' = IF ~CopySafely(0, 1) THEN [try EXCEPT !.ended = TRUE]
              ELSE IF byteCount <= 1 THEN [try EXCEPT !.copied = byteCount, !.ended = TRUE]
              ELSE [try EXCEPT !.tries = 1]
Try ==
    LET n == try.srcEnd - try.src
        t == [try EXCEPT !.tries = @ + 1]
    IN  /\ ~try.ended /\ try.tries > 0
        /\ try' = IF n <= 0 THEN [try EXCEPT !.ended = TRUE]
                  ELSE IF CopySafely(try.src, n) THEN Widen(t, n)
                  ELSE IF n <= 1 THEN [try EXCEPT !.ended = TRUE] ELSE Narrow(t, n)
Copy == (Start \/ Try) /\ UNCHANGED <<task, memory, byteCount, string, length, converted, reason, address>>

Prefix(p, n) == (CHOOSE k \in 0..n : CopySafely(p, k) /\ (k < n => ~CopySafely(p, k + 1)))
\* sentrycrashmem_isMemoryReadable and sentrycrashmem_maxReadableBytes: pieces of the test buffer.
IsMemoryReadable(n) == CopySafely(0, IF n < TestBufferSize THEN n ELSE TestBufferSize)
MaxReadableBytes(n) ==
    LET from[p \in Nat] == IF n - p > TestBufferSize /\ CopySafely(p, TestBufferSize)
                           THEN from[p + TestBufferSize] ELSE p
    IN  from[0] + Prefix(from[0], TestBufferSize)
-----------------------------------------------------------------------------
(* copyAndConvertUTF16StringToUTF8 and isNullTerminatedUTF8String.          *)

\* A character: the units it takes, and its bytes; behind the string lies another one.
Unit(i) == IF i <= Len(string) THEN string[i] ELSE "ascii"
UnitsAt(i) == IF Unit(i) = "lead" THEN 2 ELSE 1
Bytes(i) ==
    CASE Unit(i) \in {"ascii", "control"} -> <<Unit(i)>>
      [] Unit(i) = "two" -> <<"lead2", "more">>
      [] Unit(i) = "three" -> <<"lead3", "more", "more">>
      [] OTHER -> <<"lead4", "more", "more", "more">>
Invalid(i) == Unit(i) = "tail" \/ (Unit(i) = "lead" /\ Unit(i + 1) # "tail")

\* Mutant of Room: a character of two bytes needs room for one.
RoomForAny(b, at) == at < length - 1

\* The last byte of the buffer is kept for the terminator.
Room(b, at) == at + Len(b) <= length - 1

\* The loop: the unit it is at, the bytes it has written; stopped at the end, or at a wrong surrogate.
Convert ==
    LET step[i \in Nat, out \in Seq({"ascii", "control", "lead2", "lead3", "lead4", "more"})] ==
            IF i > Len(string) \/ Len(out) >= length - 1 THEN out
            ELSE IF Invalid(i) THEN <<>>
            ELSE IF ~Room(Bytes(i), Len(out)) THEN out
            ELSE step[i + UnitsAt(i), out \o Bytes(i)]
    IN  /\ task = "string" /\ ~converted.done
        /\ converted' = [bytes |-> step[1, <<>>] \o <<"zero">>, done |-> TRUE]
        /\ UNCHANGED <<task, memory, byteCount, try, string, length, reason, address>>

More(b) == CASE b = "lead2" -> 1 [] b = "lead3" -> 2 [] b = "lead4" -> 3 [] OTHER -> 0
NotInText == {"more", "control"}
\* Whether some bytes are taken for a string.
IsNullTerminatedUTF8String(m, min, max) ==
    LET from[i \in Nat] ==
            IF i > max \/ i > Len(m) THEN FALSE
            ELSE IF m[i] = "zero" THEN i - 1 >= min
            ELSE IF m[i] \in NotInText THEN FALSE
            ELSE IF More(m[i]) = 0 THEN from[i + 1]
            ELSE i + More(m[i]) <= max /\ (\A j \in 1..More(m[i]) : m[i + j] = "more")
                 /\ from[i + More(m[i]) + 1]
    IN  from[1]
-----------------------------------------------------------------------------
(* sentrycrashstring_extractHexValue.                                      *)

IsDigit(c) == c \in {"0", "1"}
CharAt(i)  == IF i <= Len(reason) THEN reason[i] ELSE "zero"
Wanted(i) == CharAt(i) = "0" /\ CharAt(i + 1) = "x" /\ IsDigit(CharAt(i + 2))

Extract ==
    LET start[i \in Nat] ==
            IF i + 1 > Len(reason) THEN 0 ELSE IF Wanted(i) THEN i
            ELSE start[IF CharAt(i) = "0" /\ CharAt(i + 1) = "x" THEN i + 2 ELSE i + 1]
        digits[i \in Nat] == IF IsDigit(CharAt(i)) THEN <<CharAt(i)>> \o digits[i + 1] ELSE <<>>
        all == digits[start[1] + 2]
    IN  /\ task = "address" /\ ~address.done
        /\ address' = [bytes |-> IF start[1] = 0 THEN <<"none">>
                                 ELSE SubSeq(all, IF Len(all) > MaxNybbles THEN Len(all) - MaxNybbles + 1 ELSE 1,
                                             Len(all)), done |-> TRUE]
        /\ UNCHANGED <<task, memory, byteCount, try, string, length, converted, reason>>

Next == Copy \/ Convert \/ Extract
Spec == Init /\ [][Next]_vars
-----------------------------------------------------------------------------
\* What is copied from memory that may be damaged is all of it that can be read before the first
\* byte that can not, and is found in few tries.
CopiesThePrefix ==
    task = "readable" /\ try.ended => try.copied = Prefix(0, byteCount) /\ try.tries <= 2 * byteCount + 1

\* A string that is converted stays in its buffer, has no part of a character at its end, and is a
\* string to the report if it is long enough, has no control character and no wrong surrogate.
Whole == \A i \in DOMAIN string :
    /\ string[i] # "control"
    /\ string[i] = "lead" => i < Len(string) /\ string[i + 1] = "tail"
    /\ string[i] = "tail" => i > 1 /\ string[i - 1] = "lead"
ConvertedIsAString ==
    converted.done =>
        /\ Len(converted.bytes) <= length
        /\ Whole => IsNullTerminatedUTF8String(converted.bytes, 0, length)
        /\ Whole /\ Len(converted.bytes) > MinLength => IsNullTerminatedUTF8String(converted.bytes, MinLength, length)

\* The address in a reason is the first number behind a "0x", whatever "0x" are before it, to its
\* last digit if that many fit in a word.
FirstAddressIsFound ==
    address.done =>
        IF \E i \in DOMAIN reason : Wanted(i)
        THEN LET first == CHOOSE i \in DOMAIN reason : Wanted(i) /\ \A j \in 1..(i - 1) : ~Wanted(j)
                 behind == SubSeq(reason, first + 2, Len(reason))
             IN  \E n \in 1..Len(behind) :
                     /\ \A k \in 1..n : IsDigit(behind[k])
                     /\ n < Len(behind) => ~IsDigit(behind[n + 1])
                     /\ n <= MaxNybbles => address.bytes = SubSeq(behind, 1, n)
        ELSE address.bytes = <<"none">>

(* What the code does not keep. *)

\* Of no more than was asked for is said that it is readable, and all of it is.
NoMoreThanAsked == task = "readable" => MaxReadableBytes(byteCount) <= byteCount
AllIsReadable   == task = "readable" => (IsMemoryReadable(byteCount) <=> CopySafely(0, byteCount))
\* Nothing behind the string is read.
StaysInside == converted.done => \A i \in DOMAIN string : i + UnitsAt(i) - 1 <= Len(string)
=============================================================================
