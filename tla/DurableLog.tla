----------------------------- MODULE DurableLog -----------------------------
(***************************************************************************)
(* What the disk log promises, whatever files it is spread over: one       *)
(* append-only log.  A message is accepted, waits, and is then appended to *)
(* what is kept or dropped; a process death loses what waits; old messages *)
(* are discarded in runs, an archive at a time.  A message is never kept   *)
(* twice, reordered, or brought back.                                      *)
(***************************************************************************)
EXTENDS Integers, Sequences, SequenceTheorems, TLAPS

CONSTANT MaxMsgs    \* bound: messages accepted in a behaviour

MaxMsgsAssumption == MaxMsgs \in Nat

VARIABLES accepted,  \* how many messages were accepted: 1 .. accepted
          pending,   \* accepted and not yet written, in order
          kept       \* on the disk, in order

vars == <<accepted, pending, kept>>

Init == accepted = 0 /\ pending = <<>> /\ kept = <<>>

Accept ==
    /\ accepted < MaxMsgs
    /\ accepted' = accepted + 1
    /\ pending' = Append(pending, accepted + 1)
    /\ UNCHANGED kept

Persist ==
    /\ pending # <<>>
    /\ kept' = Append(kept, Head(pending))
    /\ pending' = Tail(pending)
    /\ UNCHANGED accepted

Drop ==
    /\ pending # <<>>
    /\ pending' = Tail(pending)
    /\ UNCHANGED <<accepted, kept>>

LosePending ==
    /\ pending' = <<>>
    /\ UNCHANGED <<accepted, kept>>

Discard ==
    /\ \E i, j \in 1 .. Len(kept) :
          /\ i <= j
          /\ kept' = SubSeq(kept, 1, i - 1) \o SubSeq(kept, j + 1, Len(kept))
    /\ UNCHANGED <<accepted, pending>>

Next == Accept \/ Persist \/ Drop \/ LosePending \/ Discard

Spec == Init /\ [][Next]_vars

-----------------------------------------------------------------------------
(* Properties. *)

\* The types of the variables.
TypeOK ==
    /\ accepted \in 0 .. MaxMsgs
    /\ pending \in Seq(1 .. MaxMsgs)
    /\ kept \in Seq(1 .. MaxMsgs)

Increasing(s) == \A i, j \in 1 .. Len(s) : i < j => s[i] < s[j]

\* Read from the oldest line on the disk to the last line waiting, the log is
\* in the order in which the messages were logged, each at most once.
InOrder ==
    /\ Increasing(kept)
    /\ Increasing(pending)
    /\ \A i \in 1 .. Len(kept), j \in 1 .. Len(pending) : kept[i] < pending[j]
    /\ \A i \in 1 .. Len(kept) : kept[i] <= accepted
    /\ \A j \in 1 .. Len(pending) : pending[j] <= accepted

-----------------------------------------------------------------------------
(* The log stays in order, for any number of messages.                     *)

\* Removing a run from a sequence leaves what was before it in place and moves
\* what was behind it up.
LEMMA RemoveRun ==
  ASSUME NEW S, NEW s \in Seq(S), NEW i \in 1 .. Len(s), NEW j \in 1 .. Len(s),
         i <= j
  PROVE  LET r == SubSeq(s, 1, i - 1) \o SubSeq(s, j + 1, Len(s))
         IN  /\ r \in Seq(S)
             /\ Len(r) = Len(s) - (j - i + 1)
             /\ \A x \in 1 .. Len(r) :
                   r[x] = IF x < i THEN s[x] ELSE s[x + (j - i + 1)]
<1> DEFINE a == SubSeq(s, 1, i - 1)
           b == SubSeq(s, j + 1, Len(s))
           r == a \o b
<1>0. Len(s) \in Nat /\ i \in Int /\ j \in Int /\ 1 <= i /\ i <= j /\ j <= Len(s)
  BY LenProperties
<1>a. \A x \in 1 .. Len(s) : s[x] \in S
  BY ElementOfSeq
<1>1. /\ a \in Seq(S) /\ Len(a) = i - 1
      /\ \A x \in 1 .. i - 1 : a[x] = s[x]
  <2>1. 1 \in Int /\ i - 1 \in Int /\ \A x \in 1 .. i - 1 : s[x] \in S
    BY <1>0, <1>a
  <2>2. /\ a \in Seq(S)
        /\ Len(a) = IF 1 <= i - 1 THEN (i - 1) - 1 + 1 ELSE 0
        /\ \A x \in 1 .. (i - 1) - 1 + 1 : a[x] = s[1 + x - 1]
    BY <2>1, SubSeqProperties
  <2> HIDE DEF a
  <2>3. \A x \in 1 .. i - 1 : x \in 1 .. (i - 1) - 1 + 1 /\ 1 + x - 1 = x
    BY <1>0
  <2>4. Len(a) = i - 1
    BY <1>0, <2>2
  <2> QED
    BY <2>2, <2>3, <2>4
<1>2. /\ b \in Seq(S) /\ Len(b) = Len(s) - j
      /\ \A x \in 1 .. Len(s) - j : b[x] = s[x + j]
  <2>1. j + 1 \in Int /\ Len(s) \in Int /\ \A x \in j + 1 .. Len(s) : s[x] \in S
    BY <1>0, <1>a
  <2>2. /\ b \in Seq(S)
        /\ Len(b) = IF j + 1 <= Len(s) THEN Len(s) - (j + 1) + 1 ELSE 0
        /\ \A x \in 1 .. Len(s) - (j + 1) + 1 : b[x] = s[j + 1 + x - 1]
    BY <2>1, SubSeqProperties
  <2> HIDE DEF b
  <2>3. \A x \in 1 .. Len(s) - j :
           x \in 1 .. Len(s) - (j + 1) + 1 /\ j + 1 + x - 1 = x + j
    BY <1>0
  <2>4. Len(b) = Len(s) - j
    BY <1>0, <2>2
  <2> QED
    BY <2>2, <2>3, <2>4
<1> HIDE DEF a, b
<1>3. /\ r \in Seq(S)
      /\ Len(r) = Len(a) + Len(b)
      /\ \A x \in 1 .. Len(a) + Len(b) :
            r[x] = IF x <= Len(a) THEN a[x] ELSE b[x - Len(a)]
  BY <1>1, <1>2, ConcatProperties
<1> HIDE DEF r
<1>4. Len(r) = Len(s) - (j - i + 1)
  BY <1>0, <1>1, <1>2, <1>3
<1>5. ASSUME NEW x \in 1 .. Len(r)
      PROVE  r[x] = IF x < i THEN s[x] ELSE s[x + (j - i + 1)]
  <2>0. x \in Int /\ 1 <= x /\ x <= Len(s) - (j - i + 1)
    BY <1>0, <1>4
  <2>1. r[x] = IF x <= Len(a) THEN a[x] ELSE b[x - Len(a)]
    BY <1>3
  <2>2. CASE x < i
    <3>1. x <= Len(a) /\ x \in 1 .. i - 1
      BY <1>0, <1>1, <2>0, <2>2
    <3> QED
      BY <1>1, <2>1, <2>2, <3>1
  <2>3. CASE ~(x < i)
    <3>1. /\ ~(x <= Len(a)) /\ x - Len(a) \in 1 .. Len(s) - j
          /\ (x - Len(a)) + j = x + (j - i + 1)
      BY <1>0, <1>1, <2>0, <2>3
    <3> QED
      BY <1>2, <2>1, <2>3, <3>1
  <2> QED
    BY <2>2, <2>3
<1> QED
  BY <1>3, <1>4, <1>5 DEF r, a, b

\* The numbers of messages, as the lemmas below want them.
LEMMA IdsAreIntegers == ASSUME MaxMsgsAssumption PROVE 1 .. MaxMsgs \subseteq Int
BY DEF MaxMsgsAssumption

\* A number above all those of an increasing sequence can be appended to it.
LEMMA IncreasingAppend ==
  ASSUME NEW S \in SUBSET Int, NEW s \in Seq(S), NEW v \in S,
         Increasing(s), \A x \in 1 .. Len(s) : s[x] < v
  PROVE  /\ Append(s, v) \in Seq(S)
         /\ Increasing(Append(s, v))
         /\ \A x \in 1 .. Len(Append(s, v)) :
               \/ Append(s, v)[x] = v
               \/ \E y \in 1 .. Len(s) : Append(s, v)[x] = s[y]
<1> DEFINE r == Append(s, v)
<1>1. /\ r \in Seq(S) /\ Len(r) = Len(s) + 1 /\ r[Len(s) + 1] = v
      /\ \A x \in 1 .. Len(s) : r[x] = s[x]
  BY AppendProperties
<1>2. Len(s) \in Nat
  BY LenProperties
<1> HIDE DEF r
<1>3. \A x \in 1 .. Len(r) : x \in 1 .. Len(s) \/ x = Len(s) + 1
  BY <1>1, <1>2
<1>4. \A x, y \in 1 .. Len(r) : x < y => x \in 1 .. Len(s)
  BY <1>1, <1>2
<1>5. Increasing(r)
  <2> SUFFICES ASSUME NEW x \in 1 .. Len(r), NEW y \in 1 .. Len(r), x < y
               PROVE  r[x] < r[y]
    BY DEF Increasing
  <2>1. x \in 1 .. Len(s) /\ r[x] = s[x]
    BY <1>1, <1>4
  <2>2. CASE y \in 1 .. Len(s)
    BY <1>1, <2>1, <2>2 DEF Increasing
  <2>3. CASE y = Len(s) + 1
    BY <1>1, <2>1, <2>3
  <2> QED
    BY <1>3, <2>2, <2>3
<1> QED
  BY <1>1, <1>3, <1>5 DEF r

\* What is left without the first element is increasing, and above it.
LEMMA IncreasingTail ==
  ASSUME NEW S \in SUBSET Int, NEW s \in Seq(S), s # <<>>, Increasing(s)
  PROVE  /\ Head(s) = s[1] /\ 1 \in 1 .. Len(s) /\ Head(s) \in S
         /\ Tail(s) \in Seq(S)
         /\ Increasing(Tail(s))
         /\ \A x \in 1 .. Len(Tail(s)) :
               /\ Head(s) < Tail(s)[x]
               /\ \E y \in 1 .. Len(s) : Tail(s)[x] = s[y]
<1> DEFINE r == Tail(s)
<1>1. /\ Head(s) \in S /\ r \in Seq(S) /\ Len(r) = Len(s) - 1
      /\ \A x \in 1 .. Len(r) : r[x] = s[x + 1]
  BY HeadTailProperties
<1>2. Len(s) \in Nat \ {0} /\ Head(s) = s[1]
  BY EmptySeq
<1> HIDE DEF r
<1>3. /\ 1 \in 1 .. Len(s)
      /\ \A x \in 1 .. Len(r) : x + 1 \in 1 .. Len(s) /\ 1 < x + 1
      /\ \A x, y \in 1 .. Len(r) : x < y => x + 1 < y + 1
  BY <1>1, <1>2
<1>4. Increasing(r)
  BY <1>1, <1>3 DEF Increasing
<1>5. \A x \in 1 .. Len(r) : Head(s) < r[x] /\ \E y \in 1 .. Len(s) : r[x] = s[y]
  BY <1>1, <1>2, <1>3 DEF Increasing
<1> QED
  BY <1>1, <1>2, <1>3, <1>4, <1>5 DEF r

\* Without a run, an increasing sequence is increasing, and has nothing new.
LEMMA IncreasingWithoutRun ==
  ASSUME NEW S \in SUBSET Int, NEW s \in Seq(S), Increasing(s),
         NEW i \in 1 .. Len(s), NEW j \in 1 .. Len(s), i <= j
  PROVE  LET r == SubSeq(s, 1, i - 1) \o SubSeq(s, j + 1, Len(s))
         IN  /\ r \in Seq(S)
             /\ Increasing(r)
             /\ \A x \in 1 .. Len(r) : \E y \in 1 .. Len(s) : r[x] = s[y]
<1> DEFINE r == SubSeq(s, 1, i - 1) \o SubSeq(s, j + 1, Len(s))
           at(x) == IF x < i THEN x ELSE x + (j - i + 1)
<1>1. /\ r \in Seq(S) /\ Len(r) = Len(s) - (j - i + 1)
      /\ \A x \in 1 .. Len(r) : r[x] = IF x < i THEN s[x] ELSE s[x + (j - i + 1)]
  BY RemoveRun
<1> HIDE DEF r
<1>2. Len(s) \in Nat /\ i \in Int /\ j \in Int /\ 1 <= i /\ i <= j /\ j <= Len(s)
  BY LenProperties
<1>3. \A x \in 1 .. Len(r) : at(x) \in 1 .. Len(s) /\ r[x] = s[at(x)]
  <2> SUFFICES ASSUME NEW x \in 1 .. Len(r)
               PROVE  at(x) \in 1 .. Len(s) /\ r[x] = s[at(x)]
    OBVIOUS
  <2>1. at(x) \in 1 .. Len(s)
    BY <1>1, <1>2
  <2>2. r[x] = s[at(x)]
    BY <1>1
  <2> QED
    BY <2>1, <2>2
<1>4. \A x, y \in 1 .. Len(r) : x < y => at(x) < at(y)
  <2> SUFFICES ASSUME NEW x \in Int, NEW y \in Int, x < y PROVE at(x) < at(y)
    BY <1>1, <1>2
  <2> QED
    BY <1>2
<1> HIDE DEF at
<1> QED
  BY <1>1, <1>3, <1>4 DEF Increasing, r

\* The empty log is in order.
LEMMA InitInOrder == ASSUME MaxMsgsAssumption PROVE Init => TypeOK /\ InOrder
BY DEF MaxMsgsAssumption, Init, TypeOK, InOrder, Increasing

\* Every step keeps the types and the order.
LEMMA NextInOrder ==
  ASSUME MaxMsgsAssumption
  PROVE  TypeOK /\ InOrder /\ [Next]_vars => (TypeOK /\ InOrder)'
<1> SUFFICES ASSUME TypeOK, InOrder, [Next]_vars PROVE (TypeOK /\ InOrder)'
  OBVIOUS
<1> DEFINE S == 1 .. MaxMsgs
<1>0. /\ MaxMsgs \in Nat /\ accepted \in 0 .. MaxMsgs
      /\ pending \in Seq(S) /\ kept \in Seq(S) /\ S \in SUBSET Int
  BY IdsAreIntegers DEF MaxMsgsAssumption, TypeOK
<1>a. \A x \in 1 .. Len(kept) : kept[x] \in Int /\ kept[x] <= accepted
  <2>1. \A x \in 1 .. Len(kept) : kept[x] \in S
    BY <1>0, ElementOfSeq
  <2> QED
    BY <1>0, <2>1 DEF InOrder
<1>b. \A x \in 1 .. Len(pending) : pending[x] \in Int /\ pending[x] <= accepted
  <2>1. \A x \in 1 .. Len(pending) : pending[x] \in S
    BY <1>0, ElementOfSeq
  <2> QED
    BY <1>0, <2>1 DEF InOrder
<1>c. /\ Increasing(kept) /\ Increasing(pending)
      /\ \A x \in 1 .. Len(kept), y \in 1 .. Len(pending) : kept[x] < pending[y]
  BY DEF InOrder
<1>1. CASE Accept
  <2>1. /\ accepted + 1 \in S /\ accepted' = accepted + 1
        /\ kept' = kept /\ pending' = Append(pending, accepted + 1)
    BY <1>0, <1>1 DEF Accept
  <2>2. \A x \in 1 .. Len(pending) : pending[x] < accepted + 1
    BY <1>0, <1>b
  <2> HIDE DEF S
  <2>3. /\ pending' \in Seq(S) /\ Increasing(pending')
        /\ \A x \in 1 .. Len(pending') :
              \/ pending'[x] = accepted + 1
              \/ \E y \in 1 .. Len(pending) : pending'[x] = pending[y]
    BY <1>0, <1>c, <2>1, <2>2, IncreasingAppend
  <2>4. /\ \A x \in 1 .. Len(kept), y \in 1 .. Len(pending') : kept[x] < pending'[y]
        /\ \A x \in 1 .. Len(kept) : kept[x] <= accepted'
        /\ \A y \in 1 .. Len(pending') : pending'[y] <= accepted'
    BY <1>0, <1>a, <1>b, <1>c, <2>1, <2>3
  <2>5. TypeOK'
    BY <1>0, <2>1, <2>3 DEF TypeOK, S
  <2> QED
    BY <1>c, <2>1, <2>3, <2>4, <2>5 DEF InOrder, Increasing
<1>2. CASE Persist
  <2>1. /\ pending # <<>> /\ accepted' = accepted
        /\ kept' = Append(kept, Head(pending)) /\ pending' = Tail(pending)
    BY <1>2 DEF Persist
  <2> HIDE DEF S
  <2>2. /\ Head(pending) = pending[1] /\ 1 \in 1 .. Len(pending)
        /\ Head(pending) \in S /\ pending' \in Seq(S) /\ Increasing(pending')
        /\ \A x \in 1 .. Len(pending') :
              /\ Head(pending) < pending'[x]
              /\ \E y \in 1 .. Len(pending) : pending'[x] = pending[y]
    BY <1>0, <1>c, <2>1, IncreasingTail
  <2>3. \A x \in 1 .. Len(kept) : kept[x] < Head(pending)
    BY <1>c, <2>2
  <2>4. /\ kept' \in Seq(S) /\ Increasing(kept')
        /\ \A x \in 1 .. Len(kept') :
              \/ kept'[x] = Head(pending)
              \/ \E y \in 1 .. Len(kept) : kept'[x] = kept[y]
    BY <1>0, <1>c, <2>1, <2>2, <2>3, IncreasingAppend
  <2>5. \A x \in 1 .. Len(kept'), y \in 1 .. Len(pending') : kept'[x] < pending'[y]
    BY <1>c, <2>2, <2>4
  <2>6. /\ \A x \in 1 .. Len(kept') : kept'[x] <= accepted
        /\ \A y \in 1 .. Len(pending') : pending'[y] <= accepted
    BY <1>a, <1>b, <2>2, <2>4
  <2>7. TypeOK'
    BY <1>0, <2>1, <2>2, <2>4 DEF TypeOK, S
  <2> QED
    BY <2>1, <2>2, <2>4, <2>5, <2>6, <2>7 DEF InOrder, Increasing
<1>3. CASE Drop
  <2>1. pending # <<>> /\ pending' = Tail(pending) /\ UNCHANGED <<accepted, kept>>
    BY <1>3 DEF Drop
  <2> HIDE DEF S
  <2>2. /\ pending' \in Seq(S) /\ Increasing(pending')
        /\ \A x \in 1 .. Len(pending') :
              \E y \in 1 .. Len(pending) : pending'[x] = pending[y]
    BY <1>0, <1>c, <2>1, IncreasingTail
  <2>3. /\ \A x \in 1 .. Len(kept), y \in 1 .. Len(pending') : kept[x] < pending'[y]
        /\ \A y \in 1 .. Len(pending') : pending'[y] <= accepted
    BY <1>b, <1>c, <2>2
  <2>4. TypeOK'
    BY <1>0, <2>1, <2>2 DEF TypeOK, S
  <2> QED
    BY <1>a, <1>c, <2>1, <2>2, <2>3, <2>4 DEF InOrder, Increasing
<1>4. CASE LosePending
  BY <1>0, <1>4 DEF LosePending, TypeOK, InOrder, Increasing
<1>5. CASE Discard
  <2>1. PICK i \in 1 .. Len(kept), j \in 1 .. Len(kept) :
           /\ i <= j
           /\ kept' = SubSeq(kept, 1, i - 1) \o SubSeq(kept, j + 1, Len(kept))
    BY <1>5 DEF Discard
  <2>2. accepted' = accepted /\ pending' = pending
    BY <1>5 DEF Discard
  <2> HIDE DEF S
  <2>3. /\ kept' \in Seq(S) /\ Increasing(kept')
        /\ \A x \in 1 .. Len(kept') : \E y \in 1 .. Len(kept) : kept'[x] = kept[y]
    BY <1>0, <1>c, <2>1, IncreasingWithoutRun
  <2>4. /\ \A x \in 1 .. Len(kept'), y \in 1 .. Len(pending) : kept'[x] < pending[y]
        /\ \A x \in 1 .. Len(kept') : kept'[x] <= accepted
    BY <1>a, <1>c, <2>3
  <2>5. TypeOK'
    BY <1>0, <2>2, <2>3 DEF TypeOK, S
  <2> QED
    BY <1>b, <1>c, <2>2, <2>3, <2>4, <2>5 DEF InOrder, Increasing
<1>6. CASE UNCHANGED vars
  BY <1>6 DEF vars, TypeOK, InOrder, Increasing
<1> QED
  BY <1>1, <1>2, <1>3, <1>4, <1>5, <1>6 DEF Next

\* However writes, failures, deaths and clean-ups interleave, what is on the
\* disk followed by what waits is in the order the messages were logged in.
THEOREM LogStaysInOrder ==
  ASSUME MaxMsgsAssumption
  PROVE  Spec => []InOrder
<1>1. TypeOK /\ InOrder /\ [Next]_vars => (TypeOK /\ InOrder)'
  BY NextInOrder
<1> QED
  BY <1>1, InitInOrder, PTL DEF Spec
=============================================================================
