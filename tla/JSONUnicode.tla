----------------------------- MODULE JSONUnicode -----------------------------
(***************************************************************************)
(* The decoder's \uXXXX: four hexadecimal digits through a lookup table,   *)
(* surrogates combined, and the character written as UTF-8.                *)
(***************************************************************************)
EXTENDS Integers, Sequences, Bitwise

CONSTANTS Chars,   \* the bytes that occur as digits
          Trails   \* the second quads that follow a lead surrogate

VARIABLES quad, trail    \* trail is <<>> until a lead surrogate asks for it

vars == <<quad, trail>>

INV == 69905    \* 0x11111

\* Mutant: a character too many in one range.
HexConversionToG(b) == CASE b \in 48..57  -> b - 48
                         [] b \in 65..71  -> b - 55
                         [] b \in 97..102 -> b - 87
                         [] OTHER -> INV

\* g_hexConversion.
HexConversion(b) == CASE b \in 48..57  -> b - 48
                      [] b \in 65..70  -> b - 55
                      [] b \in 97..102 -> b - 87
                      [] OTHER -> INV

Accum(q) == (((HexConversion(q[1]) * 4096) | (HexConversion(q[2]) * 256))
              | (HexConversion(q[3]) * 16)) | HexConversion(q[4])

IsLead(u)  == u \in 55296..56319
IsTrail(u) == u \in 56320..57343

\* Mutant: the bits that follow the lead overlap those of the trail.
CombinedShort(lead, second) == ((lead - 55296) * 512) | (second - 56320)

Combined(lead, second) == ((lead - 55296) * 1024) | (second - 56320)

\* The character that is written, or -1 where the code returns an error.
Character == LET u == Accum(quad) IN
             IF u > 65535 \/ IsTrail(u) THEN -1
             ELSE IF ~IsLead(u) THEN u
             ELSE IF trail = <<>> \/ ~IsTrail(Accum(trail)) THEN -1
             ELSE Combined(u, Accum(trail))

Lead(c, n)  == c \div (64 ^ n)
Cont(c, n)  == 128 + ((c \div (64 ^ n)) % 64)

\* Mutant: the boundary of two and three bytes is off by one.
WriteUTF8OffByOne(c) ==
    IF c <= 127 THEN <<c>>
    ELSE IF c <= 2048 THEN <<192 | Lead(c, 1), Cont(c, 0)>>
    ELSE IF c <= 65535 THEN <<224 | Lead(c, 2), Cont(c, 1), Cont(c, 0)>>
    ELSE <<240 | Lead(c, 3), Cont(c, 2), Cont(c, 1), Cont(c, 0)>>

WriteUTF8(c) ==
    IF c <= 127 THEN <<c>>
    ELSE IF c <= 2047 THEN <<192 | Lead(c, 1), Cont(c, 0)>>
    ELSE IF c <= 65535 THEN <<224 | Lead(c, 2), Cont(c, 1), Cont(c, 0)>>
    ELSE IF c <= 1114111 THEN <<240 | Lead(c, 3), Cont(c, 2), Cont(c, 1), Cont(c, 0)>>
    ELSE <<>>

Init == quad \in [1..4 -> Chars] /\ trail = <<>>

ReadTrail == /\ trail = <<>> /\ IsLead(Accum(quad)) /\ trail' \in Trails /\ UNCHANGED quad

Next == ReadTrail
Spec == Init /\ [][Next]_vars
-----------------------------------------------------------------------------
\* The number that four digits stand for, and the character of a surrogate pair.
IsHex(b)  == b \in 48..57 \cup 65..70 \cup 97..102
Value(b)  == IF b <= 57 THEN b - 48 ELSE IF b <= 70 THEN b - 55 ELSE b - 87
Number(q) == Value(q[1]) * 4096 + Value(q[2]) * 256 + Value(q[3]) * 16 + Value(q[4])
Meant     == LET u == Number(quad) IN
             IF IsLead(u) /\ trail # <<>> THEN 65536 + (u - 55296) * 1024 + (Number(trail) - 56320)
             ELSE u

\* One wrong digit, at any place, makes the whole quad invalid, whatever the other three are; four
\* good ones give their number.
BadDigitsAreSeen == IF \A i \in 1..4 : IsHex(quad[i]) THEN Accum(quad) = Number(quad)
                    ELSE Accum(quad) > 65535

\* What a reader of UTF-8 finds in the bytes is the character that was written, in the shortest form.
ReadUTF8(s) ==
    LET C(i) == s[i] - 128
    IN  CASE Len(s) = 1 -> s[1]
          [] Len(s) = 2 -> (s[1] - 192) * 64 + C(2)
          [] Len(s) = 3 -> (s[1] - 224) * 4096 + C(2) * 64 + C(3)
          [] OTHER -> (s[1] - 240) * 262144 + C(2) * 4096 + C(3) * 64 + C(4)
Shortest(c) == CASE c < 128 -> 1 [] c \in 128..2047 -> 2 [] c \in 2048..65535 -> 3 [] OTHER -> 4
UTF8RoundTrips ==
    Character >= 0 => LET s == WriteUTF8(Character) IN
                      ReadUTF8(s) = Character /\ Len(s) = Shortest(Character)

\* Two surrogate pairs that differ give characters that differ: here, the combination is undone.
PairsStayApart ==
    trail # <<>> /\ IsTrail(Accum(trail)) =>
        /\ Character \div 1024 = Accum(quad) - 55296
        /\ Character % 1024 = Accum(trail) - 56320

\* The character that the text means is the one that is decoded.
DecodesTheCharacter == Character >= 0 => Character = Meant
=============================================================================
