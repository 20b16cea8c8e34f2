----------------------- MODULE RotatingLogFile_proofs -----------------------
(***************************************************************************)
(* Theorems about RotatingLogFile for every value of its constants.  What  *)
(* is on the disk is FlattenSeq of its files: first come lemmas on what    *)
(* FlattenSeq gives for a sequence of sequences that is extended,          *)
(* shortened, or has one of its parts replaced.                            *)
(***************************************************************************)
EXTENDS RotatingLogFile, Integers, Sequences, SequencesExt, FiniteSetTheorems,
        WellFoundedInduction, SequenceTheorems, TLAPS

-----------------------------------------------------------------------------
(* FlattenSeq is the last value of a recursive function; the lemmas follow *)
(* its values from part to part, with the least number principle in place  *)
(* of induction.                                                           *)

\* A set of natural numbers that is not empty has a least element.
LEMMA Least ==
  ASSUME NEW T \in SUBSET Nat, T # {}
  PROVE  \E m \in T : \A k \in T : m <= k
<1> DEFINE R == OpToRel(<, Nat)
<1>1. IsWellFoundedOn(R, Nat)
  BY NatLessThanWellFounded
<1>2. PICK m \in T : \A k \in T : ~ (<<k, m>> \in R)
  BY <1>1, WFMin
<1>3. \A k \in T : ~ (k < m)
  BY <1>2 DEF OpToRel
<1> QED
  BY <1>3

\* f lists what the first 0, 1, ..., n parts of p give in a row.
Upto(p, n, f) == f[0] = <<>> /\ \A i \in 1 .. n : f[i] = f[i - 1] \o p[i]
\* There is such a list of sequences over S.
Reaches(S, p, n) == \E f \in [0 .. n -> Seq(S)] : Upto(p, n, f)

\* There is one for no part.
LEMMA ReachedFirst == \A S, p : Reaches(S, p, 0)
<1> SUFFICES ASSUME NEW S, NEW p PROVE Reaches(S, p, 0)
  OBVIOUS
<1> DEFINE f == [i \in 0 .. 0 |-> <<>>]
<1>1. <<>> \in Seq(S)
  OBVIOUS
<1>2. f \in [0 .. 0 -> Seq(S)]
  BY <1>1
<1>3. f[0] = <<>>
  OBVIOUS
<1>4. Upto(p, 0, f)
  BY <1>3 DEF Upto
<1> QED
  BY <1>2, <1>4 DEF Reaches

\* One for n parts can be extended by a part.
LEMMA ReachedNext ==
  ASSUME NEW S, NEW p, NEW n \in Nat, Reaches(S, p, n), p[n + 1] \in Seq(S)
  PROVE  Reaches(S, p, n + 1)
<1>1. PICK f \in [0 .. n -> Seq(S)] : Upto(p, n, f)
  BY DEF Reaches
<1> DEFINE last == f[n] \o p[n + 1]
           g == [i \in 0 .. n + 1 |-> IF i = n + 1 THEN last ELSE f[i]]
<1>2. last \in Seq(S)
  BY <1>1
<1> HIDE DEF last
<1>3. g \in [0 .. n + 1 -> Seq(S)]
  BY <1>1, <1>2
<1>4. /\ g[0] = f[0] /\ g[n + 1] = last /\ g[n] = f[n]
      /\ \A i \in 1 .. n : g[i] = f[i] /\ g[i - 1] = f[i - 1]
  OBVIOUS
<1>5. Upto(p, n + 1, g)
  <2>1. \A i \in 1 .. n : g[i] = g[i - 1] \o p[i]
    BY <1>1, <1>4, Zenon DEF Upto
  <2>2. g[n + 1] = g[n] \o p[n + 1]
    BY <1>4, Zenon DEF last
  <2>3. \A i \in 1 .. n + 1 : i \in 1 .. n \/ i = n + 1
    OBVIOUS
  <2>4. (n + 1) - 1 = n
    OBVIOUS
  <2>5. g[0] = <<>>
    BY <1>1, <1>4, Zenon DEF Upto
  <2> HIDE DEF g
  <2>6. \A i \in 1 .. n + 1 : g[i] = g[i - 1] \o p[i]
    BY <2>1, <2>2, <2>3, <2>4, Zenon
  <2> QED
    BY <2>5, <2>6, Zenon DEF Upto
<1> QED
  BY <1>3, <1>5, Zenon DEF Reaches

\* So there is one for any number of parts.
LEMMA FlatExists ==
  ASSUME NEW S, NEW p, NEW n \in Nat, \A i \in 1 .. n : p[i] \in Seq(S)
  PROVE  \E f \in [0 .. n -> Seq(S)] : Upto(p, n, f)
<1> DEFINE T == {k \in 0 .. n : ~Reaches(S, p, k)}
<1>1. SUFFICES ASSUME T # {} PROVE FALSE
  <2>1. n \in 0 .. n
    OBVIOUS
  <2>2. Reaches(S, p, n)
    BY <1>1, <2>1, Zenon
  <2> QED
    BY <2>2, Zenon DEF Reaches
<1>2. T \subseteq Nat
  OBVIOUS
<1>3. PICK m \in T : \A k \in T : m <= k
  <2> HIDE DEF T
  <2> QED
    BY <1>1, <1>2, Least
<1>4. m \in 0 .. n /\ ~Reaches(S, p, m)
  OBVIOUS
<1>5. m # 0
  BY <1>4, ReachedFirst
<1>6. m - 1 \in 0 .. n /\ m - 1 \in Nat /\ m \in 1 .. n /\ ~(m <= m - 1) /\ (m - 1) + 1 = m
  BY <1>4, <1>5
<1>7. Reaches(S, p, m - 1)
  BY <1>3, <1>6
<1>8. Reaches(S, p, m)
  BY <1>6, <1>7, ReachedNext
<1> QED
  BY <1>4, <1>8

\* And only one.
LEMMA Unique ==
  ASSUME NEW p, NEW n \in Nat, NEW f, NEW g, Upto(p, n, f), Upto(p, n, g)
  PROVE  \A i \in 0 .. n : f[i] = g[i]
<1> DEFINE T == {i \in 0 .. n : f[i] # g[i]}
<1>1. SUFFICES ASSUME T # {} PROVE FALSE
  OBVIOUS
<1>2. T \subseteq Nat
  OBVIOUS
<1>3. PICK m \in T : \A k \in T : m <= k
  <2> HIDE DEF T
  <2> QED
    BY <1>1, <1>2, Least
<1>4. m \in 0 .. n /\ f[m] # g[m]
  OBVIOUS
<1>5. m # 0
  BY <1>4 DEF Upto
<1>6. m \in 1 .. n /\ m - 1 \in 0 .. n /\ ~(m <= m - 1)
  BY <1>4, <1>5
<1>7. f[m - 1] = g[m - 1]
  BY <1>3, <1>6
<1> QED
  BY <1>4, <1>6, <1>7, Zenon DEF Upto

\* FlattenSeq gives its last value.
LEMMA FlatIs ==
  ASSUME NEW S, NEW parts \in Seq(Seq(S)), NEW f, Upto(parts, Len(parts), f)
  PROVE  FlattenSeq(parts) = f[Len(parts)]
<1>1. Len(parts) \in Nat /\ \A i \in 1 .. Len(parts) : parts[i] \in Seq(S)
  OBVIOUS
<1>2. CASE Len(parts) = 0
  <2>1. parts = <<>>
    BY <1>2
  <2> QED
    BY <1>2, <2>1 DEF FlattenSeq, Upto
<1>3. CASE Len(parts) # 0
  <2> DEFINE n == Len(parts)
             Def(h) == h = [i \in 1 .. n |-> IF i = 1 THEN parts[i] ELSE h[i - 1] \o parts[i]]
             h == CHOOSE h : Def(h)
             g == [i \in 1 .. n |-> f[i]]
             k == [i \in 0 .. n |-> IF i = 0 THEN <<>> ELSE h[i]]
  <2>1. n \in Nat \ {0} /\ \A i \in 1 .. n : parts[i] \in Seq(S)
    BY <1>1, <1>3
  <2>2. \A i \in 1 .. n : <<>> \o parts[i] = parts[i]
    BY <2>1
  <2>3. f[0] = <<>> /\ \A i \in 1 .. n : f[i] = f[i - 1] \o parts[i]
    BY DEF Upto
  <2> HIDE DEF n
  <2>4. \A i \in 1 .. n : g[i] = IF i = 1 THEN parts[i] ELSE g[i - 1] \o parts[i]
    <3> SUFFICES ASSUME NEW i \in 1 .. n
                 PROVE  g[i] = IF i = 1 THEN parts[i] ELSE g[i - 1] \o parts[i]
      OBVIOUS
    <3>1. f[i] = f[i - 1] \o parts[i] /\ <<>> \o parts[i] = parts[i]
      BY <2>2, <2>3, Zenon
    <3>2. i = 1 => i - 1 = 0
      OBVIOUS
    <3>3. i # 1 => i - 1 \in 1 .. n
      BY <2>1
    <3> QED
      BY <2>3, <3>1, <3>2, <3>3
  <2>5. Def(g)
    BY <2>4
  <2>6. Def(h)
    BY <2>5, Zenon
  <2> HIDE DEF h
  <2>7. \A i \in 1 .. n : h[i] = IF i = 1 THEN parts[i] ELSE h[i - 1] \o parts[i]
    BY <2>6, Zenon
  <2>8. Upto(parts, n, k)
    <3>1. k[0] = <<>>
      BY <2>1
    <3> SUFFICES ASSUME NEW i \in 1 .. n PROVE k[i] = k[i - 1] \o parts[i]
      BY <3>1 DEF Upto
    <3>2. k[i] = h[i] /\ (i = 1 => k[i - 1] = <<>>) /\ (i # 1 => k[i - 1] = h[i - 1])
      BY <2>1
    <3> HIDE DEF k
    <3> QED
      BY <2>2, <2>7, <3>2
  <2>9. f[n] = k[n]
    <3>1. n \in 0 .. n /\ n \in Nat
      BY <2>1
    <3>2. Upto(parts, n, f)
      BY DEF n
    <3> HIDE DEF k
    <3> QED
      BY <2>8, <3>1, <3>2, Unique
  <2>10. k[n] = h[n]
    BY <2>1
  <2> QED
    BY <1>3, <2>9, <2>10, Zenon DEF FlattenSeq, h, n
<1> QED
  BY <1>2, <1>3

\* A list for some parts is one for all of them but the last.
LEMMA SumsInitial ==
  ASSUME NEW p, NEW n \in Nat, NEW f, Upto(p, n + 1, f)
  PROVE  Upto(p, n, f) /\ f[n + 1] = f[n] \o p[n + 1]
<1>1. \A i \in 1 .. n : i \in 1 .. n + 1
  OBVIOUS
<1>2. n + 1 \in 1 .. n + 1 /\ (n + 1) - 1 = n
  OBVIOUS
<1>3. \A i \in 1 .. n : f[i] = f[i - 1] \o p[i]
  BY <1>1, Zenon DEF Upto
<1>4. f[n + 1] = f[(n + 1) - 1] \o p[n + 1]
  BY <1>2, Zenon DEF Upto
<1> QED
  BY <1>2, <1>3, <1>4, Zenon DEF Upto

\* A part appended to the others is appended to what they give.
LEMMA FlatAppend ==
  \A S : \A parts \in Seq(Seq(S)), x \in Seq(S) :
      FlattenSeq(Append(parts, x)) = FlattenSeq(parts) \o x
<1>0. SUFFICES ASSUME NEW S, NEW parts, NEW x, parts \in Seq(Seq(S)), x \in Seq(S)
               PROVE  FlattenSeq(Append(parts, x)) = FlattenSeq(parts) \o x
  OBVIOUS
<1> DEFINE n == Len(parts)  q == Append(parts, x)
<1>1. /\ n \in Nat /\ q \in Seq(Seq(S)) /\ Len(q) = n + 1 /\ q[n + 1] = x
      /\ \A i \in 1 .. n : q[i] = parts[i]
      /\ \A i \in 1 .. n + 1 : q[i] \in Seq(S)
  BY <1>0
<1> HIDE DEF q, n
<1>2. PICK f : Upto(q, n + 1, f)
  <2>1. n + 1 \in Nat
    BY <1>1
  <2>2. \E f \in [0 .. n + 1 -> Seq(S)] : Upto(q, n + 1, f)
    BY <1>1, <2>1, FlatExists, Zenon
  <2> QED
    BY <2>2, Zenon
<1>3. Upto(parts, n, f) /\ f[n + 1] = f[n] \o x
  <2>1. Upto(q, n, f) /\ f[n + 1] = f[n] \o q[n + 1]
    BY <1>1, <1>2, SumsInitial
  <2>2. Upto(parts, n, f)
    BY <1>1, <2>1, Zenon DEF Upto
  <2> QED
    BY <1>1, <2>1, <2>2
<1>4. FlattenSeq(parts) = f[n]
  BY <1>0, <1>3, FlatIs DEF n
<1>5. FlattenSeq(q) = f[n + 1]
  BY <1>1, <1>2, FlatIs
<1> QED
  BY <1>3, <1>4, <1>5 DEF q

\* Concatenation as a relation: instances of its associativity are found more easily.
Joined(ab, a, b) == ab = a \o b

\* Concatenation is associative.
LEMMA Regroup ==
  \A S : \A a \in Seq(S), b \in Seq(S), c \in Seq(S) : \A ab, bc, abc :
      Joined(ab, a, b) /\ Joined(bc, b, c) /\ Joined(abc, a, bc) => Joined(abc, ab, c)
<1> SUFFICES ASSUME NEW S, NEW a \in Seq(S), NEW b \in Seq(S), NEW c \in Seq(S)
             PROVE  a \o (b \o c) = (a \o b) \o c
  BY DEF Joined
<1> QED
  BY ConcatAssociative, SMTT(30)

\* Whatever part k is replaced by stands between the same two sequences, and the second is
\* empty if all parts behind it are.
Split(S, p, n, k, before, behind) ==
    /\ \A x \in Seq(S) : \A q :
          q[k] = x /\ (\A i \in 1 .. n : i # k => q[i] = p[i])
             => \E h : Upto(q, n, h) /\ h[n] = (before \o x) \o behind
    /\ (\A j \in k + 1 .. n : p[j] = <<>>) => behind = <<>>

\* Each part has something before and something behind it that do not depend on it.
LEMMA SumsSplit ==
  ASSUME NEW S, NEW p, NEW n \in Nat, NEW k \in 1 .. n, \A i \in 1 .. n : p[i] \in Seq(S)
  PROVE  \E before, behind \in Seq(S) : Split(S, p, n, k, before, behind)
<1> DEFINE later == [i \in 1 .. n |-> IF i <= k THEN <<>> ELSE p[i]]
<1>2. \A i \in 1 .. n : later[i] \in Seq(S)
  <2>1. <<>> \in Seq(S)
    OBVIOUS
  <2> QED
    BY <2>1
<1>3. PICK f \in [0 .. n -> Seq(S)] : Upto(p, n, f)
  BY FlatExists
<1>4. PICK g \in [0 .. n -> Seq(S)] : Upto(later, n, g)
  <2> HIDE DEF later
  <2> QED
    BY <1>2, FlatExists
<1> DEFINE before == f[k - 1]  behind == g[n]
<1>5. before \in Seq(S) /\ behind \in Seq(S)
  OBVIOUS
<1>6. \A i \in 1 .. k : later[i] = <<>>
  OBVIOUS
<1>7. \A i \in k + 1 .. n : later[i] = p[i]
  OBVIOUS
<1> HIDE DEF later
<1> DEFINE empty == [i \in 0 .. n |-> <<>>]
<1>8. /\ empty[0] = <<>> /\ \A i \in 1 .. n : empty[i] = <<>> /\ empty[i - 1] = <<>>
      /\ \A i \in 0 .. n : empty[i] = <<>>
      /\ <<>> \o <<>> = <<>>
  OBVIOUS
<1> HIDE DEF empty
<1>9. g[k] = <<>>
  <2>1. \A i \in 1 .. k : i \in 1 .. n
    OBVIOUS
  <2>2. Upto(later, k, empty)
    BY <1>6, <1>8, <2>1, Zenon DEF Upto
  <2>3. Upto(later, k, g)
    BY <1>4, <2>1, Zenon DEF Upto
  <2>4. k \in Nat /\ k \in 0 .. k /\ k \in 0 .. n
    OBVIOUS
  <2>5. \A i \in 0 .. k : g[i] = empty[i]
    BY <2>2, <2>3, <2>4, Unique
  <2> QED
    BY <1>8, <2>4, <2>5, Zenon
<1>10. ASSUME NEW x \in Seq(S), NEW q, q[k] = x, \A i \in 1 .. n : i # k => q[i] = p[i]
       PROVE  \E h : Upto(q, n, h) /\ h[n] = (before \o x) \o behind
  <2> DEFINE h == [i \in 0 .. n |-> IF i < k THEN f[i] ELSE (before \o x) \o g[i]]
  <2>0. \A i \in 1 .. n : q[i] = IF i = k THEN x ELSE p[i]
    BY <1>10
  <2>1. /\ \A i \in 0 .. n : i < k => h[i] = f[i]
        /\ \A i \in 0 .. n : ~(i < k) => h[i] = (before \o x) \o g[i]
    OBVIOUS
  <2> HIDE DEF h
  <2>2. h[0] = <<>>
    <3>1. 0 \in 0 .. n /\ 0 < k
      OBVIOUS
    <3> QED
      BY <1>3, <2>1, <3>1 DEF Upto
  <2>3. ASSUME NEW i \in 1 .. n, i < k
        PROVE  h[i] = h[i - 1] \o q[i]
    <3>1. i \in 0 .. n /\ i - 1 \in 0 .. n /\ i - 1 < k /\ i # k
      BY <2>3
    <3>2. h[i] = f[i] /\ h[i - 1] = f[i - 1] /\ q[i] = p[i]
      BY <2>0, <2>1, <2>3, <3>1
    <3> QED
      BY <1>3, <3>2, Zenon DEF Upto
  <2>4. h[k] = h[k - 1] \o q[k]
    <3>1. k \in 0 .. n /\ k - 1 \in 0 .. n /\ k - 1 < k /\ ~(k < k) /\ k \in 1 .. n
      OBVIOUS
    <3>2. h[k] = (before \o x) \o g[k] /\ h[k - 1] = before /\ q[k] = x
      BY <2>0, <2>1, <3>1
    <3>3. before \o x \in Seq(S)
      BY <1>5
    <3>4. (before \o x) \o <<>> = before \o x
      BY <3>3
    <3> QED
      BY <1>9, <3>2, <3>4
  <2>5. ASSUME NEW i \in 1 .. n, k < i
        PROVE  h[i] = h[i - 1] \o q[i]
    <3>1. /\ i \in 0 .. n /\ i - 1 \in 0 .. n /\ ~(i - 1 < k) /\ ~(i < k) /\ i # k
          /\ i \in k + 1 .. n
      BY <2>5
    <3>2. h[i] = (before \o x) \o g[i] /\ h[i - 1] = (before \o x) \o g[i - 1]
      BY <2>1, <3>1
    <3>3. g[i] = g[i - 1] \o p[i] /\ q[i] = p[i]
      BY <1>4, <1>7, <2>0, <3>1, Zenon DEF Upto
    <3>4. before \o x \in Seq(S) /\ g[i - 1] \in Seq(S) /\ p[i] \in Seq(S)
      BY <1>5, <3>1
    <3>5. h[i] = h[i - 1] \o p[i]
      <4>1. PICK a \in Seq(S) : Joined(h[i - 1], a, g[i - 1]) /\ Joined(h[i], a, g[i])
        BY <3>2, <3>4, Zenon DEF Joined
      <4>2. PICK b : b = g[i - 1]
        OBVIOUS
      <4>3. b \in Seq(S) /\ p[i] \in Seq(S) /\ Joined(h[i - 1], a, b) /\ Joined(g[i], b, p[i])
        BY <3>3, <3>4, <4>1, <4>2, Zenon DEF Joined
      <4>4. Joined(h[i], h[i - 1], p[i])
        <5>1. \A ab, bc, abc :
                 Joined(ab, a, b) /\ Joined(bc, b, p[i]) /\ Joined(abc, a, bc)
                    => Joined(abc, ab, p[i])
          BY <4>1, <4>3, Regroup
        <5> QED
          BY <4>1, <4>3, <5>1, Zenon
      <4> QED
        BY <4>4, Zenon DEF Joined
    <3> QED
      BY <3>3, <3>5
  <2>6. Upto(q, n, h)
    <3>1. \A i \in 1 .. n : i < k \/ i = k \/ k < i
      OBVIOUS
    <3> QED
      BY <2>2, <2>3, <2>4, <2>5, <3>1, Zenon DEF Upto
  <2>7. h[n] = (before \o x) \o behind
    <3>1. n \in 0 .. n /\ ~(n < k)
      OBVIOUS
    <3> QED
      BY <2>1, <3>1
  <2> QED
    BY <2>6, <2>7
<1>11. ASSUME \A j \in k + 1 .. n : p[j] = <<>>
       PROVE  behind = <<>>
  <2>1. \A i \in 1 .. n : i \in 1 .. k \/ i \in k + 1 .. n
    OBVIOUS
  <2>2. \A i \in 1 .. n : later[i] = <<>>
    BY <1>6, <1>7, <1>11, <2>1, Zenon
  <2>3. Upto(later, n, empty)
    BY <1>8, <2>2, Zenon DEF Upto
  <2>4. n \in 0 .. n
    OBVIOUS
  <2> QED
    <3>1. \A i \in 0 .. n : g[i] = empty[i]
      BY <1>4, <2>3, Unique
    <3> QED
      BY <1>8, <2>4, <3>1, Zenon
<1> HIDE DEF before, behind
<1>12. Split(S, p, n, k, before, behind)
  BY <1>10, <1>11, Zenon DEF Split
<1> QED
  BY <1>5, <1>12, Zenon

\* What stands around part k in what the parts give, whatever it is replaced by; nothing
\* stands behind it if the parts behind it are empty.
Around(S, parts, k, before, behind) ==
    /\ \A x \in Seq(S) : FlattenSeq([parts EXCEPT ![k] = x]) = (before \o x) \o behind
    /\ (\A j \in k + 1 .. Len(parts) : parts[j] = <<>>) => behind = <<>>

\* A part that is replaced is replaced in what the parts give.
LEMMA FlatSplit ==
  ASSUME NEW S, NEW parts \in Seq(Seq(S)), NEW k \in 1 .. Len(parts)
  PROVE  \E before, behind \in Seq(S) : Around(S, parts, k, before, behind)
<1> DEFINE n == Len(parts)
<1>1. n \in Nat /\ k \in 1 .. n /\ \A i \in 1 .. n : parts[i] \in Seq(S)
  OBVIOUS
<1>2. ASSUME NEW x \in Seq(S)
      PROVE  /\ [parts EXCEPT ![k] = x] \in Seq(Seq(S)) /\ Len([parts EXCEPT ![k] = x]) = n
             /\ [parts EXCEPT ![k] = x][k] = x
             /\ \A i \in 1 .. n : i # k => [parts EXCEPT ![k] = x][i] = parts[i]
  BY <1>2, ExceptSeq
<1> HIDE DEF n
<1>3. PICK before \in Seq(S), behind \in Seq(S) : Split(S, parts, n, k, before, behind)
  BY <1>1, SumsSplit
<1>4. ASSUME NEW x \in Seq(S)
      PROVE  FlattenSeq([parts EXCEPT ![k] = x]) = (before \o x) \o behind
  <2> DEFINE q == [parts EXCEPT ![k] = x]
  <2>1. q \in Seq(Seq(S)) /\ Len(q) = n
    BY <1>2
  <2>2. PICK h : Upto(q, n, h) /\ h[n] = (before \o x) \o behind
    BY <1>2, <1>3, Zenon DEF Split
  <2> HIDE DEF q
  <2>3. FlattenSeq(q) = h[n]
    BY <2>1, <2>2, FlatIs
  <2> QED
    BY <2>2, <2>3 DEF q
<1>5. (\A j \in k + 1 .. n : parts[j] = <<>>) => behind = <<>>
  BY <1>3, Zenon DEF Split
<1>6. Around(S, parts, k, before, behind)
  BY <1>4, <1>5, Zenon DEF n, Around
<1> QED
  BY <1>3, <1>6, Zenon

\* What the parts give is a sequence over the same set, and nothing comes of no parts.
LEMMA FlatType ==
  ASSUME NEW S, NEW parts \in Seq(Seq(S))
  PROVE  FlattenSeq(parts) \in Seq(S) /\ (parts = <<>> => FlattenSeq(parts) = <<>>)
<1>1. Len(parts) \in Nat /\ \A i \in 1 .. Len(parts) : parts[i] \in Seq(S)
  OBVIOUS
<1>2. PICK f \in [0 .. Len(parts) -> Seq(S)] : Upto(parts, Len(parts), f)
  BY <1>1, FlatExists
<1>3. FlattenSeq(parts) = f[Len(parts)]
  BY <1>2, FlatIs
<1>4. Len(parts) \in 0 .. Len(parts) /\ (parts = <<>> => Len(parts) = 0)
  BY <1>1
<1>5. f[0] = <<>>
  BY <1>2, Zenon DEF Upto
<1> QED
  BY <1>2, <1>3, <1>4, <1>5

\* The first part is in front of what the others give.
LEMMA FlatTail ==
  ASSUME NEW S, NEW parts \in Seq(Seq(S)), parts # <<>>
  PROVE  FlattenSeq(parts) = parts[1] \o FlattenSeq(Tail(parts))
<1> DEFINE t == Tail(parts)
           n == Len(t)
<1>1. /\ n \in Nat /\ Len(parts) = n + 1 /\ t \in Seq(Seq(S))
      /\ \A i \in 1 .. n : t[i] = parts[i + 1] /\ t[i] \in Seq(S)
      /\ \A i \in 1 .. n + 1 : parts[i] \in Seq(S)
  OBVIOUS
<1> HIDE DEF t, n
<1>2. PICK f \in [0 .. n -> Seq(S)] : Upto(t, n, f)
  BY <1>1, FlatExists
<1> DEFINE h == [i \in 0 .. n + 1 |-> IF i = 0 THEN <<>> ELSE parts[1] \o f[i - 1]]
<1>3. /\ h[0] = <<>>
      /\ \A i \in 1 .. n + 1 : h[i] = parts[1] \o f[i - 1]
  <2>1. n \in Nat
    BY <1>1
  <2>2. /\ 0 \in 0 .. n + 1
        /\ \A i \in 1 .. n + 1 : i \in 0 .. n + 1 /\ i # 0
    BY <2>1
  <2> QED
    BY <2>2, Zenon
<1> HIDE DEF h
<1>4. /\ f[0] = <<>>
      /\ \A i \in 1 .. n : f[i] = f[i - 1] \o t[i]
  BY <1>2, Zenon DEF Upto
<1>5. parts[1] \in Seq(S) /\ parts[1] \o <<>> = parts[1] /\ <<>> \o parts[1] = parts[1]
  <2>1. 1 \in 1 .. n + 1
    BY <1>1
  <2>2. parts[1] \in Seq(S)
    BY <1>1, <2>1, Zenon
  <2> QED
    BY <2>2, ConcatEmptySeq
<1>6. h[1] = h[0] \o parts[1]
  <2>1. 1 \in 1 .. n + 1 /\ 1 - 1 = 0
    BY <1>1
  <2> QED
    BY <1>3, <1>4, <1>5, <2>1
<1>7. ASSUME NEW i \in 1 .. n
      PROVE  h[i + 1] = h[i] \o parts[i + 1]
  <2>1. /\ i + 1 \in 1 .. n + 1 /\ i \in 1 .. n + 1 /\ (i + 1) - 1 = i
        /\ i \in 0 .. n /\ i - 1 \in 0 .. n
    BY <1>1
  <2>2. h[i + 1] = parts[1] \o f[i] /\ h[i] = parts[1] \o f[i - 1]
    BY <1>3, <2>1
  <2>3. f[i] = f[i - 1] \o parts[i + 1]
    BY <1>1, <1>4, Zenon
  <2>4. PICK b \in Seq(S), c \in Seq(S) :
           /\ b = f[i - 1] /\ c = parts[i + 1]
           /\ Joined(h[i], parts[1], b) /\ Joined(f[i], b, c) /\ Joined(h[i + 1], parts[1], f[i])
    <3>1. f[i - 1] \in Seq(S) /\ parts[i + 1] \in Seq(S)
      BY <1>1, <2>1
    <3> QED
      BY <2>2, <2>3, <3>1, Zenon DEF Joined
  <2>5. \A ab, bc, abc :
           Joined(ab, parts[1], b) /\ Joined(bc, b, c) /\ Joined(abc, parts[1], bc)
              => Joined(abc, ab, c)
    BY <1>5, <2>4, Regroup
  <2>6. Joined(h[i + 1], h[i], c)
    BY <2>4, <2>5, Zenon
  <2> QED
    BY <2>4, <2>6, Zenon DEF Joined
<1>8. Upto(parts, n + 1, h)
  <2>1. \A i \in 1 .. n + 1 : i = 1 \/ (i - 1 \in 1 .. n /\ (i - 1) + 1 = i)
    BY <1>1
  <2>2. \A i \in 1 .. n + 1 : h[i] = h[i - 1] \o parts[i]
    <3> SUFFICES ASSUME NEW i \in 1 .. n + 1 PROVE h[i] = h[i - 1] \o parts[i]
      OBVIOUS
    <3>1. CASE i = 1
      <4>1. i - 1 = 0
        BY <3>1
      <4> QED
        BY <1>6, <3>1, <4>1
    <3>2. CASE i - 1 \in 1 .. n /\ (i - 1) + 1 = i
      <4>1. h[(i - 1) + 1] = h[i - 1] \o parts[(i - 1) + 1]
        BY <1>7, <3>2, Zenon
      <4> QED
        BY <3>2, <4>1, Zenon
    <3> QED
      BY <2>1, <3>1, <3>2
  <2> QED
    BY <1>3, <2>2, Zenon DEF Upto
<1>9. FlattenSeq(parts) = h[n + 1]
  BY <1>1, <1>8, FlatIs
<1>10. FlattenSeq(t) = f[n]
  BY <1>1, <1>2, FlatIs DEF n
<1>11. h[n + 1] = parts[1] \o f[n]
  <2>1. n + 1 \in 1 .. n + 1 /\ (n + 1) - 1 = n
    BY <1>1
  <2> QED
    BY <1>3, <2>1
<1> QED
  BY <1>9, <1>10, <1>11 DEF t

\* Empty parts give nothing.
LEMMA FlatOfNothing ==
  ASSUME NEW S, NEW parts \in Seq(Seq(S)), \A i \in 1 .. Len(parts) : parts[i] = <<>>
  PROVE  FlattenSeq(parts) = <<>>
<1> DEFINE n == Len(parts)
           f == [i \in 0 .. n |-> <<>>]
<1>1. n \in Nat
  OBVIOUS
<1> HIDE DEF n
<1>2. /\ f[0] = <<>> /\ f[n] = <<>> /\ <<>> \o <<>> = <<>>
      /\ \A i \in 1 .. n : f[i] = <<>> /\ f[i - 1] = <<>>
  BY <1>1
<1> HIDE DEF f
<1>3. \A i \in 1 .. n : parts[i] = <<>>
  BY DEF n
<1>4. Upto(parts, n, f)
  BY <1>2, <1>3, Zenon DEF Upto
<1> QED
  BY <1>2, <1>4, FlatIs DEF n

\* t is what remains of s without one of its runs.
Cut(s, t) ==
    \E i, j \in 1 .. Len(s) :
        i <= j /\ t = SubSeq(s, 1, i - 1) \o SubSeq(s, j + 1, Len(s))

\* What remains of a concatenation when its middle is cut out.
LEMMA MiddleCutOut ==
  ASSUME NEW S, NEW a \in Seq(S), NEW x \in Seq(S), NEW c \in Seq(S), x # <<>>
  PROVE  Cut((a \o x) \o c, a \o c)
<1> DEFINE f == a \o x
           r == f \o c
           i == Len(a) + 1
           j == Len(a) + Len(x)
           p == SubSeq(r, 1, i - 1)
           q == SubSeq(r, j + 1, Len(r))
<1>1. Len(a) \in Nat /\ Len(x) \in Nat \ {0} /\ Len(c) \in Nat
  BY LenProperties, EmptySeq
<1>2. /\ f \in Seq(S) /\ Len(f) = Len(a) + Len(x)
      /\ \A k \in 1 .. Len(a) + Len(x) : f[k] = IF k <= Len(a) THEN a[k] ELSE x[k - Len(a)]
  BY ConcatProperties
<1> HIDE DEF f
<1>3. /\ r \in Seq(S) /\ Len(r) = Len(f) + Len(c)
      /\ \A k \in 1 .. Len(f) + Len(c) : r[k] = IF k <= Len(f) THEN f[k] ELSE c[k - Len(f)]
  <2>1. f \in Seq(S)
    BY <1>2
  <2> QED
    BY <2>1, ConcatProperties
<1> HIDE DEF r
<1>4. i \in 1 .. Len(r) /\ j \in 1 .. Len(r) /\ i <= j
  BY <1>1, <1>2, <1>3
<1>5. \A k \in 1 .. Len(r) : r[k] \in S
  BY <1>3, ElementOfSeq
<1>6. p = a
  <2>1. 1 \in Int /\ i - 1 \in Int /\ i - 1 = Len(a) /\ \A k \in 1 .. i - 1 : r[k] \in S
    BY <1>1, <1>4, <1>5
  <2>2. /\ p \in Seq(S) /\ Len(p) = IF 1 <= i - 1 THEN (i - 1) - 1 + 1 ELSE 0
        /\ \A k \in 1 .. (i - 1) - 1 + 1 : p[k] = r[1 + k - 1]
    BY <2>1, SubSeqProperties
  <2> HIDE DEF p
  <2>3. Len(p) = Len(a)
    BY <1>1, <2>1, <2>2
  <2>4. ASSUME NEW k \in 1 .. Len(a)
        PROVE  p[k] = a[k]
    <3>1. /\ k \in 1 .. (i - 1) - 1 + 1 /\ 1 + k - 1 = k /\ k <= Len(a) /\ k <= Len(f)
          /\ k \in 1 .. Len(f) + Len(c) /\ k \in 1 .. Len(a) + Len(x)
      BY <1>1, <1>2, <2>1
    <3>2. p[k] = r[k]
      BY <2>2, <3>1
    <3>3. r[k] = f[k] /\ f[k] = a[k]
      BY <1>2, <1>3, <3>1
    <3> QED
      BY <3>2, <3>3
  <2> QED
    BY <2>2, <2>3, <2>4, SeqEqual
<1>7. q = c
  <2>1. j + 1 \in Int /\ Len(r) \in Int /\ \A k \in j + 1 .. Len(r) : r[k] \in S
    BY <1>1, <1>2, <1>3, <1>5
  <2>2. /\ q \in Seq(S) /\ Len(q) = IF j + 1 <= Len(r) THEN Len(r) - (j + 1) + 1 ELSE 0
        /\ \A k \in 1 .. Len(r) - (j + 1) + 1 : q[k] = r[(j + 1) + k - 1]
    BY <2>1, SubSeqProperties
  <2> HIDE DEF q
  <2>3. Len(q) = Len(c)
    BY <1>1, <1>2, <1>3, <2>2
  <2>4. ASSUME NEW k \in 1 .. Len(c)
        PROVE  q[k] = c[k]
    <3>1. /\ k \in 1 .. Len(r) - (j + 1) + 1 /\ (j + 1) + k - 1 = Len(f) + k
          /\ ~(Len(f) + k <= Len(f)) /\ (Len(f) + k) - Len(f) = k
          /\ Len(f) + k \in 1 .. Len(f) + Len(c)
      BY <1>1, <1>2, <1>3
    <3>2. q[k] = r[Len(f) + k]
      BY <2>2, <3>1
    <3>3. r[Len(f) + k] = c[k]
      BY <1>3, <3>1
    <3> QED
      BY <3>2, <3>3
  <2> QED
    BY <2>2, <2>3, <2>4, SeqEqual
<1>8. p \o q = a \o c
  <2> HIDE DEF p, q
  <2> QED
    BY <1>6, <1>7
<1>9. Cut(r, a \o c)
  <2>1. a \o c = SubSeq(r, 1, i - 1) \o SubSeq(r, j + 1, Len(r))
    BY <1>8
  <2> HIDE DEF i, j
  <2> QED
    BY <1>4, <2>1, Zenon DEF Cut
<1> HIDE DEF i, j, p, q
<1> QED
  BY <1>9, Zenon DEF r, f

\* Appending to the last part of a concatenation appends to the concatenation.
LEMMA AppendBehind ==
  ASSUME NEW S, NEW a \in Seq(S), NEW b \in Seq(S), NEW e \in S
  PROVE  a \o Append(b, e) = Append(a \o b, e) /\ a \o b \in Seq(S)
<1>1. Append(b, e) = b \o <<e>> /\ <<e>> \in Seq(S)
  BY AppendIsConcat
<1>2. a \o b \in Seq(S)
  BY ConcatProperties
<1>3. Append(a \o b, e) = (a \o b) \o <<e>>
  BY <1>2, AppendIsConcat
<1> QED
  BY <1>1, <1>2, <1>3, ConcatAssociative

\* No two elements of c have the same g.
Distinct(g, c) == \A i, j \in DOMAIN c : g[c[i]] = g[c[j]] => i = j

\* Each element of s by itself if it is in K, and nothing otherwise.
Picks(s, K) == [i \in DOMAIN s |-> IF s[i] \in K THEN <<s[i]>> ELSE <<>>]

\* What is chosen from a sequence: the elements that are in K, and distinct ones stay so.
LEMMA Choosing ==
  ASSUME NEW S, NEW s \in Seq(S), NEW K, NEW g, NEW c, NEW p, p = Picks(s, K), c = FlattenSeq(p)
  PROVE  /\ c \in Seq(S)
         /\ \A x : x \in ToSet(c) <=> x \in ToSet(s) /\ x \in K
         /\ Distinct(g, s) => Distinct(g, c)
<1> DEFINE n == Len(s)
<1>1. /\ n \in Nat /\ DOMAIN s = 1 .. n /\ \A i \in 1 .. n : s[i] \in S /\ <<s[i]>> \in Seq(S)
      /\ <<>> \in Seq(S)
  OBVIOUS
<1>2. /\ p \in Seq(Seq(S)) /\ Len(p) = n
      /\ \A i \in 1 .. n : p[i] \in Seq(S) /\ p[i] = IF s[i] \in K THEN <<s[i]>> ELSE <<>>
  BY <1>1 DEF Picks
<1> HIDE DEF n
<1>3. PICK f \in [0 .. n -> Seq(S)] : Upto(p, n, f)
  BY <1>1, <1>2, FlatExists
<1>4. c = f[n]
  <2>1. FlattenSeq(p) = f[Len(p)]
    BY <1>2, <1>3, FlatIs
  <2> QED
    BY <1>2, <2>1
<1> DEFINE Has(i) == \A x : (\E k \in DOMAIN f[i] : f[i][k] = x) <=> \E k \in 1 .. i : s[k] = x /\ s[k] \in K
           Good(i) == Has(i) /\ (Distinct(g, s) => Distinct(g, f[i]))
           T == {i \in 0 .. n : ~Good(i)}
<1>5. T = {}
  <2> SUFFICES ASSUME T # {} PROVE FALSE
    OBVIOUS
  <2>1. T \subseteq Nat
    OBVIOUS
  <2>2. PICK m \in T : \A k \in T : m <= k
    BY <2>1, Least
  <2>3. m # 0
    <3>1. f[0] = <<>>
      BY <1>3 DEF Upto
    <3>2. Good(0)
      BY <3>1 DEF Distinct
    <3> QED
      BY <3>2
  <2>4. m \in 1 .. n /\ m - 1 \in 0 .. n /\ m - 1 \notin T
    <3>1. m \in 0 .. n
      OBVIOUS
    <3>2. m \in 1 .. n /\ m - 1 \in 0 .. n /\ ~(m <= m - 1)
      BY <1>1, <2>3, <3>1
    <3> QED
      BY <2>2, <3>2
  <2>5. Good(m - 1)
    BY <2>4
  <2>6. f[m] = f[m - 1] \o p[m]
    BY <1>3, <2>4 DEF Upto
  <2>7. f[m - 1] \in Seq(S) /\ s[m] \in S
    BY <1>1, <1>3, <2>4
  <2>8. CASE s[m] \notin K
    <3>0. p[m] = <<>>
      BY <1>2, <2>4, <2>8
    <3>1. f[m] = f[m - 1]
      BY <2>6, <2>7, <3>0
    <3>2. \A k \in 1 .. m : s[k] \in K => k \in 1 .. m - 1
      BY <2>4, <2>8
    <3>3. \A k \in 1 .. m - 1 : k \in 1 .. m
      BY <2>4
    <3>4. Has(m)
      BY <2>5, <3>1, <3>2, <3>3
    <3> QED
      BY <2>2, <2>5, <3>1, <3>4
  <2>9. CASE s[m] \in K
    <3> DEFINE h == f[m - 1]
    <3>0. p[m] = <<s[m]>>
      BY <1>2, <2>4, <2>9
    <3>1. f[m] = Append(h, s[m])
      <4>1. Append(h, s[m]) = h \o <<s[m]>>
        BY <2>7, AppendIsConcat
      <4> QED
        BY <2>6, <3>0, <4>1
    <3>2. /\ Len(f[m]) = Len(h) + 1 /\ f[m][Len(h) + 1] = s[m] /\ DOMAIN f[m] = DOMAIN h \cup {Len(h) + 1}
          /\ \A k \in DOMAIN h : f[m][k] = h[k] /\ k # Len(h) + 1
      BY <2>7, <3>1
    <3> HIDE DEF h
    <3>3. \A k \in 1 .. m : k \in 1 .. m - 1 \/ k = m
      BY <2>4
    <3>4. \A k \in 1 .. m - 1 : k \in 1 .. m /\ k # m /\ k \in DOMAIN s /\ m \in DOMAIN s /\ m \in 1 .. m
      BY <1>1, <2>4
    <3>5. \A x : (\E k \in DOMAIN h : h[k] = x) <=> \E k \in 1 .. m - 1 : s[k] = x /\ s[k] \in K
      BY <2>5 DEF h
    <3>6. Has(m)
      <4>0. m \in 1 .. m
        BY <2>4
      <4> SUFFICES ASSUME NEW x
                   PROVE  (\E k \in DOMAIN f[m] : f[m][k] = x) <=> \E k \in 1 .. m : s[k] = x /\ s[k] \in K
        OBVIOUS
      <4>1. (\E k \in DOMAIN f[m] : f[m][k] = x) <=> (\E k \in DOMAIN h : h[k] = x) \/ s[m] = x
        BY <3>2
      <4>2. (\E k \in 1 .. m : s[k] = x /\ s[k] \in K) <=> (\E k \in 1 .. m - 1 : s[k] = x /\ s[k] \in K) \/ s[m] = x
        BY <2>9, <3>3, <3>4, <4>0
      <4> QED
        BY <3>5, <4>1, <4>2
    <3>7. ASSUME Distinct(g, s) PROVE Distinct(g, f[m])
      <4>1. Distinct(g, h)
        BY <2>5, <3>7 DEF h
      <4>2. \A k \in DOMAIN h : g[h[k]] # g[s[m]]
        <5> SUFFICES ASSUME NEW k \in DOMAIN h, g[h[k]] = g[s[m]] PROVE FALSE
          OBVIOUS
        <5>1. PICK q \in 1 .. m - 1 : s[q] = h[k]
          BY <3>5
        <5> QED
          BY <3>4, <3>7, <5>1 DEF Distinct
      <4> QED
        BY <3>2, <4>1, <4>2 DEF Distinct
    <3> QED
      BY <2>2, <3>6, <3>7
  <2> QED
    BY <2>8, <2>9
<1>6. Good(n)
  <2>1. n \in 0 .. n
    BY <1>1
  <2> QED
    BY <1>5, <2>1
<1>7. c \in Seq(S)
  BY <1>1, <1>3, <1>4
<1>8. \A x : x \in ToSet(c) <=> x \in ToSet(s) /\ x \in K
  <2>1. Has(n)
    BY <1>6
  <2>2. \A x : (\E k \in DOMAIN c : c[k] = x) <=> \E k \in DOMAIN s : s[k] = x /\ s[k] \in K
    BY <1>1, <1>4, <2>1
  <2> QED
    BY <2>2 DEF ToSet
<1> QED
  BY <1>4, <1>6, <1>7, <1>8


\* A list of sums of n parts over S.
Totals(S, p, n, f) ==
    n \in Nat /\ f \in [0 .. n -> Seq(S)] /\ Upto(p, n, f) /\ \A k \in 1 .. n : p[k] \in Seq(S)
\* One sequence starts with the other.
Starts(g, e) == Len(e) <= Len(g) /\ \A k \in 1 .. Len(e) : g[k] = e[k]
\* Element c of q stands behind h in w.
Stands(w, h, q, c) == Len(h) + c <= Len(w) /\ w[Len(h) + c] = q[c]

\* The sum up to i is at the start of every later one.
LEMMA SumsGrow ==
  \A S, p, n, f : Totals(S, p, n, f) => \A i \in 0 .. n : \A j \in i .. n : Starts(f[j], f[i])
<1> SUFFICES ASSUME NEW S, NEW p, NEW n, NEW f, Totals(S, p, n, f), NEW i \in 0 .. n
             PROVE  \A j \in i .. n : Starts(f[j], f[i])
  BY Zenon
<1> DEFINE T == {j \in i .. n : ~Starts(f[j], f[i])}
<1>0. n \in Nat
  BY DEF Totals
<1>1. SUFFICES ASSUME T # {} PROVE FALSE
  OBVIOUS
<1>2. T \subseteq Nat
  BY <1>0
<1>3. PICK m \in T : \A k \in T : m <= k
  <2> HIDE DEF T
  <2> QED
    BY <1>1, <1>2, Least
<1>4. m \in i .. n /\ ~Starts(f[m], f[i])
  OBVIOUS
<1>5. f[i] \in Seq(S) /\ Starts(f[i], f[i])
  BY DEF Totals, Starts
<1>6. m # i
  BY <1>4, <1>5
<1>7. m \in 1 .. n /\ m - 1 \in i .. n /\ m - 1 \in 0 .. n /\ ~(m <= m - 1)
  BY <1>0, <1>4, <1>6
<1>8. Starts(f[m - 1], f[i])
  BY <1>3, <1>7
<1>9. PICK h \in Seq(S), q \in Seq(S), e \in Seq(S) :
         h = f[m - 1] /\ q = p[m] /\ f[m] = h \o q /\ e = f[i]
  BY <1>5, <1>7 DEF Totals, Upto
<1>10. Starts(h \o q, h)
  BY DEF Starts
<1>11. Starts(h \o q, e)
  <2>1. Starts(h, e)
    BY <1>8, <1>9
  <2>2. Len(h) \in Nat /\ Len(e) \in Nat /\ Len(h \o q) \in Nat
    OBVIOUS
  <2> QED
    BY <1>10, <2>1, <2>2 DEF Starts
<1> QED
  BY <1>4, <1>9, <1>11

\* Element c of part k stands in the whole sum behind the sum of the parts before it.
LEMMA PlaceInSum ==
  \A S, p, n, f : Totals(S, p, n, f) =>
     \A k \in 1 .. n : \A c \in 1 .. Len(p[k]) :
        Stands(f[k], f[k - 1], p[k], c) /\ Stands(f[n], f[k - 1], p[k], c)
<1> SUFFICES ASSUME NEW S, NEW p, NEW n, NEW f, Totals(S, p, n, f),
                    NEW k \in 1 .. n, NEW c \in 1 .. Len(p[k])
             PROVE  Stands(f[k], f[k - 1], p[k], c) /\ Stands(f[n], f[k - 1], p[k], c)
  BY Zenon
<1>1. k - 1 \in 0 .. n /\ k \in 0 .. n /\ n \in k .. n /\ n \in 0 .. n
  BY DEF Totals
<1>2. PICK h \in Seq(S), q \in Seq(S), g \in Seq(S), w \in Seq(S) :
         h = f[k - 1] /\ q = p[k] /\ g = f[k] /\ w = f[n]
  BY <1>1 DEF Totals
<1>3. g = h \o q
  BY <1>2 DEF Totals, Upto
<1>4. Starts(w, g)
  BY <1>1, <1>2, SumsGrow, Zenon
<1>5. c \in 1 .. Len(q)
  BY <1>2, Zenon
<1>6. /\ Len(g) = Len(h) + Len(q) /\ Len(h) \in Nat /\ Len(q) \in Nat /\ Len(w) \in Nat
      /\ \A x \in 1 .. Len(q) : g[Len(h) + x] = q[x]
  BY <1>3
<1>7. Len(h) + c \in 1 .. Len(g) /\ Len(h) + c <= Len(g)
  BY <1>5, <1>6
<1>8. Stands(g, h, q, c)
  BY <1>5, <1>6, <1>7, Zenon DEF Stands
<1>9. Len(g) <= Len(w) /\ w[Len(h) + c] = g[Len(h) + c]
  BY <1>4, <1>7, Zenon DEF Starts
<1>10. Len(h) + c <= Len(w)
  BY <1>6, <1>7, <1>9, c \in Nat
<1> QED
  BY <1>2, <1>8, <1>9, <1>10, Zenon DEF Stands

\* x is before y among these.
Before(s, x, y) == \E u, v \in 1 .. Len(s) : u < v /\ s[u] = x /\ s[v] = y

\* In a sum of parts the parts, and the elements of each, stand in their order.
LEMMA SumInOrder ==
  \A S, p, n, f : Totals(S, p, n, f) =>
     \A i, j \in 1 .. n : \A a \in 1 .. Len(p[i]), b \in 1 .. Len(p[j]) :
        i < j \/ (i = j /\ a < b) => Before(f[n], p[i][a], p[j][b])
<1> SUFFICES ASSUME NEW S, NEW p, NEW n, NEW f, Totals(S, p, n, f), NEW i \in 1 .. n, NEW j \in 1 .. n,
                    NEW a \in 1 .. Len(p[i]), NEW b \in 1 .. Len(p[j]), i < j \/ (i = j /\ a < b)
             PROVE  Before(f[n], p[i][a], p[j][b])
  BY Zenon
<1>1. PICK A, B, C, E \in Nat : /\ A = Len(f[i - 1]) /\ B = Len(f[i])
                                /\ C = Len(f[j - 1]) /\ E = Len(f[n])
  <2>1. {i - 1, i, j - 1, n} \subseteq 0 .. n
    BY DEF Totals
  <2>2. \A k \in 0 .. n : f[k] \in Seq(S) /\ Len(f[k]) \in Nat
    BY DEF Totals
  <2> QED
    BY <2>1, <2>2, Zenon
<1>2. Stands(f[i], f[i - 1], p[i], a) /\ Stands(f[n], f[i - 1], p[i], a)
  BY PlaceInSum, Zenon
<1>3. Stands(f[n], f[j - 1], p[j], b)
  BY PlaceInSum, Zenon
<1>4. i < j => B <= C
  <2>1. i < j => i \in 0 .. n /\ j - 1 \in i .. n
    BY DEF Totals
  <2> QED
    BY <1>1, <2>1, SumsGrow, Zenon DEF Starts
<1>5. /\ A + a <= B /\ A + a <= E /\ f[n][A + a] = p[i][a]
      /\ C + b <= E /\ f[n][C + b] = p[j][b]
  BY <1>1, <1>2, <1>3, Zenon DEF Stands
<1>6. i = j => A = C
  BY <1>1, Zenon
<1>7. a \in Nat /\ b \in Nat /\ a > 0 /\ b > 0
  OBVIOUS
<1>8. A + a \in 1 .. E /\ C + b \in 1 .. E
  BY <1>5, <1>7
<1>9. A + a < C + b
  BY <1>4, <1>5, <1>6, <1>7
<1> QED
  BY <1>1, <1>5, <1>8, <1>9, Zenon DEF Before

\* So they do in a concatenation.
LEMMA PartsInOrder ==
  ASSUME NEW S, NEW parts \in Seq(Seq(S))
  PROVE  \A i, j \in 1 .. Len(parts) : \A a \in 1 .. Len(parts[i]), b \in 1 .. Len(parts[j]) :
            i < j \/ (i = j /\ a < b) => Before(FlattenSeq(parts), parts[i][a], parts[j][b])
<1>1. Len(parts) \in Nat /\ \A k \in 1 .. Len(parts) : parts[k] \in Seq(S)
  OBVIOUS
<1>2. PICK f \in [0 .. Len(parts) -> Seq(S)] : Upto(parts, Len(parts), f)
  BY <1>1, FlatExists, Zenon
<1>3. FlattenSeq(parts) = f[Len(parts)]
  BY <1>2, FlatIs, Zenon
<1>4. Totals(S, parts, Len(parts), f)
  BY <1>1, <1>2, Zenon DEF Totals
<1> QED
  BY <1>3, <1>4, SumInOrder, Zenon

-----------------------------------------------------------------------------
(* Lemmas about the operators the actions are built from. *)

\* The lines of a sequence over S are elements of S.
LEMMA ToSetType ==
  ASSUME NEW S, NEW s \in Seq(S)
  PROVE  ToSet(s) \subseteq S
BY DEF ToSet

\* What is waiting and is not a logger line is a message.
LEMMA MessagesType ==
  ASSUME NEW s \in Seq(Ids \cup {Note})
  PROVE  Messages(s) \subseteq Ids
BY ToSetType DEF Messages

\* A name made of the current local time is a name.
LEMMA NameType ==
  ASSUME now \in Times, zone \in Zones
  PROVE  now + zone \in Names
BY DEF Names

\* What the current file can be, and what opening it can make of it.
CurrentFiles == [there : BOOLEAN, lines : Seq(Ids), born : Times, chars : Nat, bytes : Nat]
Openings == {Created(current), Opened(current), OpenedWithLines(current)}

\* A capped size is a size, not larger, and caps keep the order.
LEMMA CapKeepsOrder ==
  \A m, n \in Nat : /\ Capped(m) \in Nat /\ Capped(m) <= m
                    /\ m <= n => Capped(m) <= Capped(n)
BY SizesAssumption DEF Capped

\* A line has a number of characters.
LEMMA CharsType == \A l : Chars(l) \in Nat
BY SizesAssumption DEF Chars

\* A line that is written takes room, and is the last one unless it is the logger's own.
LEMMA WrittenIs ==
  ASSUME NEW c \in CurrentFiles, NEW l \in Ids \cup {Note}
  PROVE  /\ Written(c, l) \in CurrentFiles
         /\ Written(c, l).there = c.there /\ Written(c, l).born = c.born
         /\ Written(c, l).lines = IF l = Note THEN c.lines ELSE Append(c.lines, l)
         /\ Written(c, l).chars = Capped(c.chars + Chars(l))
         /\ Written(c, l).bytes = Capped(c.bytes + Chars(l) + ExtraBytes)
<1>1. PICK x \in Nat : x = Capped(c.chars + Chars(l))
  <2>1. c.chars + Chars(l) \in Nat
    BY CharsType DEF CurrentFiles
  <2> QED
    BY <2>1, CapKeepsOrder
<1>2. PICK y \in Nat : y = Capped(c.bytes + Chars(l) + ExtraBytes)
  <2>1. c.bytes + Chars(l) + ExtraBytes \in Nat
    BY CharsType, SizesAssumption DEF CurrentFiles
  <2> QED
    BY <2>1, CapKeepsOrder
<1>3. Measured(c, l) = [c EXCEPT !.chars = x, !.bytes = y]
  <2>1. Measured(c, l) = [c EXCEPT !.chars = Capped(c.chars + Chars(l)),
                                   !.bytes = Capped(c.bytes + Chars(l) + ExtraBytes)]
    BY DEF Measured, CurrentFiles
  <2> QED
    BY <1>1, <1>2, <2>1
<1>4. Measured(c, l) \in CurrentFiles
  BY <1>3 DEF CurrentFiles
<1>5. CASE l = Note
  <2>1. Written(c, l) = Measured(c, l)
    BY <1>5 DEF Written
  <2> QED
    BY <1>1, <1>2, <1>3, <1>4, <1>5, <2>1 DEF CurrentFiles
<1>6. CASE l # Note
  <2>1. l \in Ids /\ c.lines \in Seq(Ids)
    BY <1>6 DEF CurrentFiles
  <2>2. PICK q \in Seq(Ids) : q = Append(c.lines, l)
    BY <2>1, AppendProperties
  <2>3. Written(c, l) = [Measured(c, l) EXCEPT !.lines = q]
    <3>1. Measured(c, l).lines = c.lines
      BY <1>3 DEF CurrentFiles
    <3> QED
      BY <1>4, <1>6, <2>2, <3>1 DEF Written, CurrentFiles
  <2>4. Written(c, l) = [c EXCEPT !.chars = x, !.bytes = y, !.lines = q]
    BY <1>3, <2>3 DEF CurrentFiles
  <2> QED
    BY <1>1, <1>2, <1>6, <2>2, <2>4 DEF CurrentFiles
<1> QED
  BY <1>5, <1>6

\* Opening the current file, with or without its opening lines, keeps it or makes a new one.
LEMMA OpeningIs ==
  ASSUME TypeOK, NEW c \in Openings
  PROVE  /\ c \in CurrentFiles /\ c.there
         /\ c.lines = IF current.there THEN current.lines ELSE <<>>
         /\ c.born = IF current.there THEN current.born ELSE now
<1>1. current \in CurrentFiles /\ NewFile \in CurrentFiles
  BY DEF TypeOK, CurrentFiles, NewFile
<1>2. /\ Marked(current) \in CurrentFiles
      /\ Marked(current).there = current.there /\ Marked(current).lines = current.lines
      /\ Marked(current).born = current.born
  <2>1. PICK x \in Nat : x = Capped(current.bytes + MarkBytes)
    <3>1. current.bytes + MarkBytes \in Nat
      BY <1>1, SizesAssumption DEF CurrentFiles
    <3> QED
      BY <3>1, CapKeepsOrder
  <2>2. Marked(current) \in {current, [current EXCEPT !.bytes = x]}
    BY <1>1, <2>1 DEF Marked, CurrentFiles
  <2> QED
    BY <1>1, <2>2 DEF CurrentFiles
<1> DEFINE Good(f) == /\ f \in CurrentFiles /\ f.there
                      /\ f.lines = IF current.there THEN current.lines ELSE <<>>
                      /\ f.born = IF current.there THEN current.born ELSE now
<1>3. Good(Created(current)) /\ Good(Opened(current))
  BY <1>1, <1>2 DEF Created, Opened, NewFile
<1>4. Good(OpenedWithLines(current))
  <2>1. PICK o \in CurrentFiles : o = Opened(current)
    BY <1>3
  <2>2. OpenedWithLines(current) = Written(o, Note) /\ Good(o)
    BY <1>3, <2>1, Zenon DEF OpenedWithLines
  <2> HIDE DEF Good
  <2>3. Note \in Ids \cup {Note}
    OBVIOUS
  <2>4. /\ Written(o, Note) \in CurrentFiles /\ Written(o, Note).there = o.there
        /\ Written(o, Note).born = o.born /\ Written(o, Note).lines = o.lines
    BY <2>3, WrittenIs
  <2> QED
    BY <2>2, <2>4, Zenon DEF Good
<1> QED
  BY <1>3, <1>4 DEF Openings

\* The current file is one of them.
LEMMA CurrentIsFile == TypeOK => current \in CurrentFiles
BY DEF TypeOK, CurrentFiles

\* Opening and writing the current file yields a file.
LEMMA FileType ==
  ASSUME TypeOK
  PROVE  /\ \A c \in Openings : c \in CurrentFiles
         /\ \A l \in Ids \cup {Note} : Written(current, l) \in CurrentFiles
<1>1. current \in CurrentFiles
  BY DEF TypeOK, CurrentFiles
<1> QED
  BY <1>1, OpeningIs, WrittenIs

\* Taking a line off the queue, or adding a logger line, leaves a queue.
LEMMA QueueType ==
  ASSUME TypeOK
  PROVE  /\ Notify(queue) \in Seq(Ids \cup {Note})
         /\ Append(queue, Note) \in Seq(Ids \cup {Note})
         /\ queue # <<>> => /\ Head(queue) \in Ids \cup {Note}
                            /\ Tail(queue) \in Seq(Ids \cup {Note})
<1>1. queue \in Seq(Ids \cup {Note})
  BY DEF TypeOK
<1> QED
  BY <1>1 DEF Notify

\* Changing one archive, or its stamp, leaves a table of archives.
LEMMA ArchiveType ==
  ASSUME TypeOK, NEW n \in Names \cup {0}
  PROVE  /\ [archive EXCEPT ![n] = NoArchive]
               \in [Names -> [there : BOOLEAN, lines : Seq(Ids), stamp : Nat]]
         /\ \A k \in Nat : [archive EXCEPT ![n].stamp = k]
               \in [Names -> [there : BOOLEAN, lines : Seq(Ids), stamp : Nat]]
<1> DEFINE Archive == [there : BOOLEAN, lines : Seq(Ids), stamp : Nat]
<1>1. archive \in [Names -> Archive]
  BY DEF TypeOK
<1>2. NoArchive \in Archive
  BY DEF NoArchive
<1>3. \A k \in Nat, m \in Names : [archive[m] EXCEPT !.stamp = k] \in Archive
  BY <1>1
<1>4. [archive EXCEPT ![n] = NoArchive] \in [Names -> Archive]
  <2> HIDE DEF Archive
  <2> QED
    BY <1>1, <1>2
<1>5. ASSUME NEW k \in Nat
      PROVE  [archive EXCEPT ![n].stamp = k] \in [Names -> Archive]
  <2> DEFINE r == [archive[n] EXCEPT !.stamp = k]
  <2>1. n \in Names => r \in Archive
    BY <1>3
  <2>2. [archive EXCEPT ![n].stamp = k] = [archive EXCEPT ![n] = r]
    OBVIOUS
  <2> HIDE DEF Archive, r
  <2> QED
    BY <1>1, <2>1, <2>2
<1> QED
  BY <1>4, <1>5

\* The end of a rotation leaves counters and victims well-formed.
LEMMA EndRotationType ==
  ASSUME TypeOK, EndRotation
  PROVE  size' \in Nat /\ start' \in Times /\ victims' \subseteq Names
BY DEF EndRotation, TypeOK, Victims, Tagged, Archives

-----------------------------------------------------------------------------
(* Type correctness. *)

\* The application that was never launched has well-typed state.
LEMMA InitTypeOK == Init => TypeOK
<1> SUFFICES ASSUME Init PROVE TypeOK
  OBVIOUS
<1>1. 0 \in Times /\ 0 \in 0 .. MaxMsgs /\ 0 \in 0 .. MaxFaults
  BY BoundsAssumption DEF BoundsAssumption, Times
<1>2. current \in CurrentFiles
  BY <1>1 DEF Init, NoCurrent, CurrentFiles
<1>3. archive \in [Names -> [there : BOOLEAN, lines : Seq(Ids), stamp : Nat]]
  BY DEF Init, NoArchive
<1>4. queue \in Seq(Ids \cup {Note})
  BY DEF Init
<1> QED
  BY <1>1, <1>2, <1>3, <1>4 DEF Init, TypeOK, CurrentFiles

\* Every step preserves the types.
LEMMA NextTypeOK == TypeOK /\ [Next]_vars => TypeOK'
<1> SUFFICES ASSUME TypeOK, [Next]_vars PROVE TypeOK'
  OBVIOUS
<1> USE DEF clock, disk, worker, ledger
<1>0. faults \in Nat /\ MaxFaults \in Nat /\ (Fault => faults' \in 0 .. MaxFaults)
  BY BoundsAssumption DEF BoundsAssumption, TypeOK, Fault
<1>1. CASE Tick
  BY <1>1, BoundsAssumption DEF BoundsAssumption, Tick, TypeOK, Times
<1>2. CASE Travel
  BY <1>2 DEF Travel, TypeOK
<1>3. CASE Log \/ Fatal
  <2>1. issued' \in 0 .. MaxMsgs /\ issued + 1 \in Ids
    BY <1>3, BoundsAssumption DEF BoundsAssumption, Log, Fatal, Enqueue, TypeOK, Ids
  <2>2. queue' \in Seq(Ids \cup {Note})
    <3>1. queue \in Seq(Ids \cup {Note}) /\ queue' = Append(queue, issued + 1)
      BY <1>3 DEF Log, Fatal, Enqueue, TypeOK
    <3> QED
      BY <2>1, <3>1
  <2>3. fatal' \in 0 .. MaxMsgs
    BY <1>3, <2>1 DEF Log, Fatal, TypeOK, Ids
  <2> QED
    BY <1>3, <2>1, <2>2, <2>3 DEF Log, Fatal, Enqueue, TypeOK
<1>4. CASE WriteLine
  <2>1. /\ queue' \in Seq(Ids \cup {Note})
        /\ current' \in CurrentFiles
    BY <1>4, QueueType, FileType DEF WriteLine
  <2>2. size' \in Nat /\ pc' \in {"rotate", "idle"}
    BY <1>4, CharsType DEF WriteLine, TypeOK
  <2> QED
    BY <1>4, <2>1, <2>2 DEF WriteLine, TypeOK, CurrentFiles
<1>5. CASE DropLine
  <2>1. queue' \in Seq(Ids \cup {Note}) /\ dropped' \subseteq Ids
    BY <1>5, QueueType DEF DropLine, TypeOK
  <2>2. size' \in Nat /\ pc' \in {"rotate", "idle"}
    BY <1>5, CharsType DEF DropLine, TypeOK
  <2>3. faults' \in 0 .. MaxFaults
    BY <1>0, <1>5 DEF DropLine, TypeOK
  <2> QED
    BY <1>5, <2>1, <2>2, <2>3 DEF DropLine, TypeOK
<1>6. CASE StartRotation
  BY <1>6, NameType DEF StartRotation, TypeOK
<1>7. CASE RefuseRotation
  BY <1>7 DEF RefuseRotation, EndRotation, Victims, Tagged, Archives, TypeOK
<1>8. CASE MoveFile
  <2>1. archive' \in [Names -> [there : BOOLEAN, lines : Seq(Ids), stamp : Nat]]
    BY <1>8 DEF MoveFile, TypeOK
  <2>2. current' \in CurrentFiles
    BY <1>8, BoundsAssumption DEF BoundsAssumption, MoveFile, NoCurrent, Times, CurrentFiles
  <2> QED
    BY <1>8, <2>1, <2>2 DEF MoveFile, TypeOK, CurrentFiles
<1>9. CASE MoveFails
  BY <1>0, <1>9 DEF MoveFails, TypeOK
<1>10. CASE TagArchive
  <2>1. archive' \in [Names -> [there : BOOLEAN, lines : Seq(Ids), stamp : Nat]]
    <3>1. CASE UNCHANGED archive
      BY <3>1 DEF TypeOK
    <3>2. CASE ~UNCHANGED archive
      <4>1. PICK n \in Names :
               archive' = [archive EXCEPT ![dest].stamp = archive[n].stamp + 1]
        BY <1>10, <3>2 DEF TagArchive
      <4>2. archive[n].stamp + 1 \in Nat /\ dest \in Names \cup {0}
        BY DEF TypeOK
      <4> QED
        BY <4>1, <4>2, ArchiveType
    <3> QED
      BY <3>1, <3>2
  <2>2. faults' \in 0 .. MaxFaults
    BY <1>0, <1>10 DEF TagArchive, TypeOK
  <2> QED
    BY <1>10, <2>1, <2>2, QueueType DEF TagArchive, TypeOK
<1>11. CASE Reopen
  <2>1. /\ current' \in CurrentFiles
        /\ handle' \in BOOLEAN
        /\ faults' \in 0 .. MaxFaults
    BY <1>0, <1>11, FileType, CurrentIsFile DEF Reopen, OpenSucceeds, OpenWithLines, OpenFails, Openings, TypeOK
  <2>2. queue' \in Seq(Ids \cup {Note})
    BY <1>11, QueueType DEF Reopen, TypeOK
  <2>3. /\ size' \in Nat /\ start' \in Times /\ victims' \subseteq Names
        /\ pc' \in {"rotate", "cleanup"}
    <3>1. CASE EndRotation
      BY <3>1, EndRotationType DEF EndRotation
    <3>2. CASE ~EndRotation
      BY <1>11, <3>2, SizesAssumption DEF Reopen, TypeOK
    <3> QED
      BY <3>1, <3>2
  <2> QED
    BY <1>11, <2>1, <2>2, <2>3 DEF Reopen, TypeOK, CurrentFiles
<1>12. CASE DeleteArchive
  <2>1. PICK n \in victims :
           /\ victims' = victims \ {n}
           /\ \/ /\ archive' = [archive EXCEPT ![n] = NoArchive]
                 /\ expired' = expired \cup ToSet(archive[n].lines)
                 /\ UNCHANGED <<queue, faults>>
              \/ /\ Fault
                 /\ queue' = Notify(queue)
                 /\ UNCHANGED <<archive, expired>>
    BY <1>12 DEF DeleteArchive
  <2>2. n \in Names /\ archive[n].lines \in Seq(Ids)
    BY DEF TypeOK
  <2>3. archive' \in [Names -> [there : BOOLEAN, lines : Seq(Ids), stamp : Nat]]
    <3>1. [archive EXCEPT ![n] = NoArchive]
             \in [Names -> [there : BOOLEAN, lines : Seq(Ids), stamp : Nat]]
      BY <2>2, ArchiveType
    <3>2. archive \in [Names -> [there : BOOLEAN, lines : Seq(Ids), stamp : Nat]]
      BY DEF TypeOK
    <3> QED
      BY <2>1, <3>1, <3>2
  <2>4. expired' \subseteq Ids
    BY <2>1, <2>2, ToSetType DEF TypeOK
  <2>5. queue' \in Seq(Ids \cup {Note}) /\ faults' \in 0 .. MaxFaults
    BY <1>0, <2>1, QueueType DEF TypeOK
  <2>6. victims' \subseteq Names
    BY <2>1 DEF TypeOK
  <2> QED
    BY <1>12, <2>3, <2>4, <2>5, <2>6 DEF DeleteArchive, TypeOK
<1>13. CASE EndCleanup
  BY <1>13, QueueType DEF EndCleanup, Registered, TypeOK
<1>14. CASE Attach
  <2>1. /\ current' \in CurrentFiles
        /\ handle' \in BOOLEAN
        /\ faults' \in 0 .. MaxFaults
    BY <1>0, <1>14, FileType, CurrentIsFile DEF Attach, OpenSucceeds, OpenWithLines, OpenFails, Openings, TypeOK
  <2>2. queue' \in Seq(Ids \cup {Note})
    BY <1>14, QueueType DEF Attach, Registered, TypeOK
  <2>3. size' \in Nat
    <3>1. size \in Nat /\ NoteChars \in Nat
      BY SizesAssumption DEF TypeOK
    <3>2. size' = size \/ size' = size + NoteChars
      BY <1>14 DEF Attach
    <3> QED
      BY <3>1, <3>2
  <2> QED
    BY <1>14, <2>1, <2>2, <2>3 DEF Attach, Registered, TypeOK, CurrentFiles
<1>15. CASE Crash
  <2>1. unsaved' \subseteq Ids
    BY <1>15, MessagesType DEF Crash, TypeOK
  <2>2. 0 \in Times /\ <<>> \in Seq(Ids \cup {Note})
    BY BoundsAssumption DEF BoundsAssumption, Times
  <2> QED
    BY <1>15, <2>1, <2>2 DEF Crash, TypeOK
<1>16. CASE Boot
  <2>1. size' \in Nat /\ start' \in Times
    BY <1>16 DEF Boot, TypeOK
  <2>2. 0 \in 0 .. MaxMsgs
    BY BoundsAssumption DEF BoundsAssumption
  <2> QED
    BY <1>16, <2>1, <2>2 DEF Boot, TypeOK
<1>17. CASE UNCHANGED vars
  BY <1>17 DEF vars, TypeOK
<1> QED
  BY <1>1, <1>2, <1>3, <1>4, <1>5, <1>6, <1>7, <1>8, <1>9, <1>10, <1>11,
     <1>12, <1>13, <1>14, <1>15, <1>16, <1>17 DEF Next, Worker

\* Every variable keeps its type: files hold messages only, the counters are
\* natural numbers, the clean-up works on archive names.
THEOREM TypeCorrect == Spec => []TypeOK
<1>1. Init => TypeOK
  BY InitTypeOK
<1>2. TypeOK /\ [Next]_vars => TypeOK'
  BY NextTypeOK
<1> QED
  BY <1>1, <1>2, PTL DEF Spec
-----------------------------------------------------------------------------
(* No line is dropped while no file-system call fails. *)

\* Nothing is open before the first launch.
LEMMA InitHandleInv == Init => HandleInv
BY DEF Init, HandleInv

\* Every step keeps the file of a registered destination open, but for faults.
LEMMA NextHandleInv == TypeOK /\ HandleInv /\ [Next]_vars => HandleInv'
<1> SUFFICES ASSUME TypeOK, HandleInv, [Next]_vars PROVE HandleInv'
  OBVIOUS
<1> USE DEF clock, disk, worker, ledger, HandleInv
<1>0. faults \in Nat /\ (Fault => faults' # 0)
  BY BoundsAssumption DEF BoundsAssumption, TypeOK, Fault
<1>a. /\ \A c \in Openings : c.there
      /\ \A l \in Ids \cup {Note} : current.there => Written(current, l).there
  BY OpeningIs, WrittenIs, CurrentIsFile
<1>1. CASE Tick
  BY <1>1 DEF Tick
<1>2. CASE Travel
  BY <1>2 DEF Travel
<1>3. CASE Log \/ Fatal
  BY <1>3 DEF Log, Fatal, Enqueue
<1>4. CASE WriteLine
  BY <1>4, <1>a, QueueType DEF WriteLine
<1>5. CASE DropLine
  <2>1. faults' # 0
    BY <1>0, <1>5 DEF DropLine
  <2> QED
    BY <1>5, <2>1 DEF DropLine
<1>6. CASE StartRotation
  BY <1>6 DEF StartRotation
<1>7. CASE RefuseRotation
  BY <1>7 DEF RefuseRotation, EndRotation
<1>8. CASE MoveFile
  BY <1>8 DEF MoveFile
<1>9. CASE MoveFails
  BY <1>0, <1>9 DEF MoveFails
<1>10. CASE TagArchive
  BY <1>0, <1>10 DEF TagArchive
<1>11. CASE Reopen
  BY <1>0, <1>a, <1>11 DEF Reopen, EndRotation, OpenSucceeds, OpenWithLines, OpenFails, Openings
<1>12. CASE DeleteArchive
  BY <1>0, <1>12 DEF DeleteArchive
<1>13. CASE EndCleanup
  BY <1>13 DEF EndCleanup, Registered
<1>14. CASE Attach
  BY <1>0, <1>a, <1>14 DEF Attach, Registered, OpenSucceeds, OpenWithLines, OpenFails, Openings
<1>15. CASE Crash
  BY <1>15 DEF Crash
<1>16. CASE Boot
  BY <1>16 DEF Boot
<1>17. CASE UNCHANGED vars
  BY <1>17 DEF vars
<1> QED
  BY <1>1, <1>2, <1>3, <1>4, <1>5, <1>6, <1>7, <1>8, <1>9, <1>10, <1>11,
     <1>12, <1>13, <1>14, <1>15, <1>16, <1>17 DEF Next, Worker

\* While no file-system call fails, every line taken from the queue is written:
\* rotations, refusals, deaths and launches never leave the worker without an
\* open file.
THEOREM NothingDroppedSilently == Spec => []NoSilentDrop
<1>1. Init => TypeOK /\ HandleInv
  BY InitTypeOK, InitHandleInv
<1>2. TypeOK /\ HandleInv /\ [Next]_vars => (TypeOK /\ HandleInv)'
  BY NextTypeOK, NextHandleInv
<1>3. HandleInv => NoSilentDrop
  BY DEF HandleInv, NoSilentDrop
<1> QED
  BY <1>1, <1>2, <1>3, PTL DEF Spec
-----------------------------------------------------------------------------
(* Every message is accounted for. *)

\* Appending adds one element to a sequence's elements.
LEMMA ToSetAppend ==
  ASSUME NEW S, NEW s \in Seq(S), NEW e \in S
  PROVE  ToSet(Append(s, e)) = ToSet(s) \cup {e}
<1> DEFINE a == Append(s, e)
<1>1. /\ DOMAIN a = 1 .. Len(s) + 1
      /\ a[Len(s) + 1] = e
      /\ \A i \in 1 .. Len(s) : a[i] = s[i]
      /\ DOMAIN s = 1 .. Len(s) /\ Len(s) \in Nat
  OBVIOUS
<1>2. 1 .. Len(s) + 1 = (1 .. Len(s)) \cup {Len(s) + 1}
  BY <1>1
<1> HIDE DEF a
<1>3. ToSet(a) = ToSet(s) \cup {e}
  BY <1>1, <1>2 DEF ToSet
<1> QED
  BY <1>3 DEF a

\* The head and the elements behind it are a sequence's elements.
LEMMA ToSetTail ==
  ASSUME NEW S, NEW s \in Seq(S), s # <<>>
  PROVE  ToSet(s) = {Head(s)} \cup ToSet(Tail(s))
<1> DEFINE t == Tail(s)
<1>1. /\ DOMAIN s = 1 .. Len(s) /\ Len(s) \in Nat \ {0}
      /\ DOMAIN t = 1 .. Len(s) - 1
      /\ Head(s) = s[1]
      /\ \A i \in 1 .. Len(s) - 1 : t[i] = s[i + 1]
  OBVIOUS
<1> HIDE DEF t
<1>2. ToSet(s) \subseteq {s[1]} \cup ToSet(t)
  <2> SUFFICES ASSUME NEW i \in 1 .. Len(s) PROVE s[i] \in {s[1]} \cup ToSet(t)
    BY <1>1 DEF ToSet
  <2>1. CASE i = 1
    BY <2>1
  <2>2. CASE i # 1
    <3>1. i - 1 \in DOMAIN t /\ t[i - 1] = s[i]
      BY <1>1, <2>2
    <3> QED
      BY <3>1 DEF ToSet
  <2> QED
    BY <2>1, <2>2
<1>3. {s[1]} \cup ToSet(t) \subseteq ToSet(s)
  <2>1. s[1] \in ToSet(s)
    BY <1>1 DEF ToSet
  <2>2. ASSUME NEW i \in DOMAIN t PROVE t[i] \in ToSet(s)
    <3>1. t[i] = s[i + 1] /\ i + 1 \in DOMAIN s
      BY <1>1
    <3> QED
      BY <3>1 DEF ToSet
  <2> QED
    BY <2>1, <2>2 DEF ToSet
<1> QED
  BY <1>1, <1>2, <1>3 DEF t

\* A logger line changes neither what waits nor that it waits once.
LEMMA NoteIsNoMessage ==
  ASSUME NEW q \in Seq(Ids \cup {Note})
  PROVE  /\ Messages(Append(q, Note)) = Messages(q)
         /\ Once(q) => Once(Append(q, Note))
<1>1. Messages(Append(q, Note)) = Messages(q)
  BY ToSetAppend DEF Messages
<1>2. Once(q) => Once(Append(q, Note))
  <2>1. /\ DOMAIN Append(q, Note) = 1 .. Len(q) + 1
        /\ DOMAIN q = 1 .. Len(q)
        /\ Append(q, Note)[Len(q) + 1] = Note
        /\ \A i \in 1 .. Len(q) : Append(q, Note)[i] = q[i]
    OBVIOUS
  <2> QED
    BY <2>1 DEF Once
<1> QED
  BY <1>1, <1>2

\* A message that does not wait yet is added once.
LEMMA AppendMessage ==
  ASSUME NEW q \in Seq(Ids \cup {Note}), NEW id \in Ids,
         id \notin Messages(q), Once(q)
  PROVE  /\ Messages(Append(q, id)) = Messages(q) \cup {id}
         /\ Once(Append(q, id))
<1>1. id # Note /\ id \notin ToSet(q)
  BY DEF Ids, Note, Messages
<1>2. Messages(Append(q, id)) = Messages(q) \cup {id}
  BY <1>1, ToSetAppend DEF Messages
<1>3. /\ DOMAIN Append(q, id) = 1 .. Len(q) + 1
      /\ DOMAIN q = 1 .. Len(q)
      /\ Append(q, id)[Len(q) + 1] = id
      /\ \A i \in 1 .. Len(q) : Append(q, id)[i] = q[i]
  OBVIOUS
<1>4. \A i \in 1 .. Len(q) : q[i] # id
  BY <1>1, <1>3 DEF ToSet
<1>5. Once(Append(q, id))
  BY <1>3, <1>4 DEF Once
<1> QED
  BY <1>2, <1>5

\* The line at the head of the queue does not wait behind itself.
LEMMA TakeLine ==
  ASSUME NEW q \in Seq(Ids \cup {Note}), q # <<>>, Once(q)
  PROVE  /\ Messages(q) = ({Head(q)} \ {Note}) \cup Messages(Tail(q))
         /\ Head(q) \notin Messages(Tail(q))
         /\ Once(Tail(q))
<1>1. Messages(q) = ({Head(q)} \ {Note}) \cup Messages(Tail(q))
  BY ToSetTail DEF Messages
<1>2. /\ DOMAIN q = 1 .. Len(q) /\ Len(q) \in Nat \ {0}
      /\ DOMAIN Tail(q) = 1 .. Len(q) - 1
      /\ Head(q) = q[1]
      /\ \A i \in 1 .. Len(q) - 1 : Tail(q)[i] = q[i + 1]
  OBVIOUS
<1>3. Head(q) \notin Messages(Tail(q))
  <2> SUFFICES ASSUME Head(q) # Note, NEW i \in DOMAIN Tail(q), Tail(q)[i] = Head(q)
               PROVE  FALSE
    BY DEF Messages, ToSet
  <2>1. q[i + 1] = q[1] /\ i + 1 \in DOMAIN q /\ 1 \in DOMAIN q /\ i + 1 # 1
    BY <1>2
  <2> QED
    BY <1>2, <2>1 DEF Once
<1>4. Once(Tail(q))
  <2> SUFFICES ASSUME NEW i \in DOMAIN Tail(q), NEW j \in DOMAIN Tail(q),
                      i # j, Tail(q)[i] # Note
               PROVE  Tail(q)[i] # Tail(q)[j]
    BY DEF Once
  <2>1. /\ Tail(q)[i] = q[i + 1] /\ Tail(q)[j] = q[j + 1]
        /\ i + 1 \in DOMAIN q /\ j + 1 \in DOMAIN q /\ i + 1 # j + 1
    BY <1>2
  <2> QED
    BY <2>1 DEF Once
<1> QED
  BY <1>1, <1>3, <1>4
\* A step that neither logs, takes nor removes a message keeps the ledger.
LEMMA StableLedger ==
  ASSUME LedgerInv,
         UNCHANGED <<issued, ledger>>,
         \A n \in Names : /\ archive'[n].lines = archive[n].lines
                          /\ archive'[n].there = archive[n].there,
         current'.lines = current.lines,
         ~current'.there => current'.lines = <<>>,
         Messages(queue') = Messages(queue),
         Once(queue'),
         pc' = "move" => dest' \in Names /\ ~archive[dest'].there,
         pc' = "tag" => dest' \in Names
  PROVE  LedgerInv'
<1>1. Waiting' = Waiting /\ Gone' = Gone /\ issued' = issued
  BY DEF Waiting, Gone, ledger
<1>2. \A n \in Names : Lines(n)' = Lines(n)
  BY DEF Lines
<1>3. ToSet(current.lines)' = ToSet(current.lines)
  OBVIOUS
<1>4. OnDisk' = OnDisk
  BY <1>2, <1>3 DEF OnDisk
<1>5. Accounted'
  BY <1>1, <1>2, <1>3, <1>4 DEF LedgerInv, Accounted
<1> QED
  BY <1>5 DEF LedgerInv

\* Before the first message there is nothing to account for.
LEMMA InitLedgerInv == Init => LedgerInv
<1> SUFFICES ASSUME Init PROVE LedgerInv
  OBVIOUS
<1>1. ToSet(<<>>) = {}
  BY DEF ToSet
<1>2. Waiting = {} /\ Gone = {} /\ current.lines = <<>> /\ issued = 0
  BY <1>1 DEF Init, Waiting, Messages, Gone, NoCurrent
<1>3. \A n \in Names : archive[n].lines = <<>> /\ Lines(n) = {}
  BY <1>1 DEF Init, Lines, NoArchive
<1>4. OnDisk = {}
  BY <1>1, <1>2, <1>3 DEF OnDisk
<1>5. Accounted
  BY <1>1, <1>2, <1>3, <1>4 DEF Accounted
<1>6. Once(queue)
  BY DEF Init, Once
<1> QED
  BY <1>2, <1>3, <1>5, <1>6 DEF Init, LedgerInv

\* Every step moves messages from one place to another.
LEMMA NextLedgerInv ==
  TypeOK /\ HandleInv /\ LedgerInv /\ [Next]_vars => LedgerInv'
<1> SUFFICES ASSUME TypeOK, HandleInv, LedgerInv, [Next]_vars PROVE LedgerInv'
  OBVIOUS
<1> USE DEF clock, disk, worker
<1>a. queue \in Seq(Ids \cup {Note}) /\ Once(queue)
  BY DEF TypeOK, LedgerInv
<1>b. /\ Messages(Notify(queue)) = Messages(queue) /\ Once(Notify(queue))
      /\ Messages(Append(queue, Note)) = Messages(queue) /\ Once(Append(queue, Note))
  BY <1>a, NoteIsNoMessage DEF Notify
<1>c. ~current.there => current.lines = <<>>
  BY DEF LedgerInv
<1>d. \A c \in Openings : c.lines = current.lines /\ c.there
  BY <1>c, OpeningIs
<1>1. CASE Tick
  BY <1>1, <1>a, <1>c, StableLedger DEF Tick, LedgerInv
<1>2. CASE Travel
  BY <1>2, <1>a, <1>c, StableLedger DEF Travel, LedgerInv
<1>6. CASE StartRotation
  <2>1. now + zone \in Names
    BY NameType DEF TypeOK
  <2> QED
    BY <1>6, <1>a, <1>c, <2>1, StableLedger DEF StartRotation
<1>7. CASE RefuseRotation
  BY <1>7, <1>a, <1>c, StableLedger DEF RefuseRotation, EndRotation
<1>9. CASE MoveFails
  BY <1>9, <1>a, <1>c, StableLedger DEF MoveFails
<1>10. CASE TagArchive
  <2>1. /\ UNCHANGED <<current, issued, ledger>>
        /\ queue' = Notify(queue)
        /\ pc' = "reopen"
    BY <1>10 DEF TagArchive
  <2>2. \A n \in Names : /\ archive'[n].lines = archive[n].lines
                         /\ archive'[n].there = archive[n].there
    <3>1. CASE UNCHANGED archive
      BY <3>1
    <3>2. CASE ~UNCHANGED archive
      <4>1. PICK k \in Nat : archive' = [archive EXCEPT ![dest].stamp = k]
        <5>1. PICK n \in Names :
                 archive' = [archive EXCEPT ![dest].stamp = archive[n].stamp + 1]
          BY <1>10, <3>2 DEF TagArchive
        <5>2. archive[n].stamp + 1 \in Nat
          BY DEF TypeOK
        <5> QED
          BY <5>1, <5>2
      <4> QED
        BY <4>1 DEF TypeOK
    <3> QED
      BY <3>1, <3>2
  <2> QED
    BY <1>b, <1>c, <2>1, <2>2, StableLedger
<1>11. CASE Reopen
  <2>1. current' \in {current} \cup Openings /\ queue' \in {queue, Notify(queue)}
    BY <1>11 DEF Reopen, OpenSucceeds, OpenWithLines, OpenFails, Openings
  <2>2. pc' \notin {"move", "tag"} /\ UNCHANGED <<archive, issued, ledger>>
    BY <1>11 DEF Reopen, EndRotation
  <2> QED
    BY <1>a, <1>b, <1>c, <1>d, <2>1, <2>2, StableLedger
<1>13. CASE EndCleanup
  <2>1. queue' \in {queue, Append(queue, Note)} /\ pc' \in {"attach", "idle"}
    BY <1>13 DEF EndCleanup, Registered
  <2> QED
    BY <1>13, <1>a, <1>b, <1>c, <2>1, StableLedger DEF EndCleanup
<1>14. CASE Attach
  <2>1. current' \in {current} \cup Openings
        /\ queue' \in {queue, Append(queue, Note)}
    BY <1>14 DEF Attach, Registered, OpenSucceeds, OpenWithLines, OpenFails, Openings
  <2>2. pc' \notin {"move", "tag"} /\ UNCHANGED <<archive, issued, ledger>>
    BY <1>14 DEF Attach, Registered
  <2> QED
    BY <1>a, <1>b, <1>c, <1>d, <2>1, <2>2, StableLedger
<1>16. CASE Boot
  BY <1>16, <1>a, <1>c, StableLedger DEF Boot
<1>17. CASE UNCHANGED vars
  BY <1>17, <1>a, <1>c, StableLedger DEF vars, LedgerInv
\* A message is logged: it is new, so it is nowhere yet.
<1>3. CASE Log \/ Fatal
  <2>1. /\ UNCHANGED <<current, archive, ledger, pc, dest>>
        /\ issued' = issued + 1
        /\ queue' = Append(queue, issued + 1)
    BY <1>3 DEF Log, Fatal, Enqueue
  <2>2. issued \in Nat /\ issued + 1 \in Ids
    BY <1>3, BoundsAssumption
    DEF BoundsAssumption, Log, Fatal, Enqueue, TypeOK, Ids
  <2>3. Waiting \cup OnDisk \cup Gone = 1 .. issued
    BY DEF LedgerInv, Accounted
  <2>4. issued + 1 \notin Waiting \cup OnDisk \cup Gone
    BY <2>2, <2>3
  <2>5. Waiting' = Waiting \cup {issued + 1} /\ Once(queue')
    BY <1>a, <2>1, <2>2, <2>4, AppendMessage DEF Waiting
  <2>6. Gone' = Gone /\ OnDisk' = OnDisk /\ \A n \in Names : Lines(n)' = Lines(n)
    BY <2>1 DEF Gone, OnDisk, Lines, ledger
  <2>7. 1 .. issued' = (1 .. issued) \cup {issued + 1}
    BY <2>1, <2>2
  <2>8. Accounted'
    BY <2>1, <2>3, <2>4, <2>5, <2>6, <2>7 DEF LedgerInv, Accounted
  <2> QED
    BY <2>1, <2>5, <2>8 DEF LedgerInv
\* The line at the head of the queue is taken: written or dropped.
<1>4. CASE WriteLine
  <2>1. /\ UNCHANGED <<archive, ledger, issued, dest>>
        /\ queue # <<>> /\ queue' = Tail(queue)
        /\ current' = Written(current, Head(queue))
        /\ pc' \in {"rotate", "idle"}
        /\ handle
    BY <1>4 DEF WriteLine
  <2>2. /\ Waiting = ({Head(queue)} \ {Note}) \cup Waiting'
        /\ Head(queue) \notin Waiting'
        /\ Once(queue')
    BY <1>a, <2>1, TakeLine DEF Waiting
  <2>3. CASE Head(queue) = Note
    <3>1. current'.lines = current.lines /\ current'.there = current.there
      BY <2>1, <2>3, QueueType, WrittenIs, CurrentIsFile
    <3>2. Messages(queue') = Messages(queue)
      BY <2>2, <2>3 DEF Waiting
    <3> QED
      BY <1>c, <2>1, <2>2, <3>1, <3>2, StableLedger
  <2>4. CASE Head(queue) # Note
    <3>1. Head(queue) \in Ids /\ current.lines \in Seq(Ids)
      BY <1>a, <2>1, <2>4, QueueType DEF TypeOK
    <3>3. /\ current'.lines = Append(current.lines, Head(queue))
          /\ current'.there = current.there
      BY <2>1, <2>4, <3>1, WrittenIs, CurrentIsFile
    <3>4. ToSet(current'.lines) = ToSet(current.lines) \cup {Head(queue)}
      BY <3>1, <3>3, ToSetAppend
    <3>5. Gone' = Gone /\ \A n \in Names : Lines(n)' = Lines(n)
      BY <2>1 DEF Gone, Lines, ledger
    <3>6. OnDisk' = OnDisk \cup {Head(queue)}
      BY <3>4, <3>5 DEF OnDisk
    <3>7. Head(queue) \in Waiting
      BY <2>2, <2>4
    <3>8. \A n \in Names : Head(queue) \notin Lines(n)
      BY <3>7 DEF LedgerInv, Accounted, OnDisk
    <3>9. Accounted'
      BY <2>1, <2>2, <2>4, <3>4, <3>5, <3>6, <3>7, <3>8
      DEF LedgerInv, Accounted
    <3>10. current'.there
      BY <2>1, <3>3 DEF HandleInv
    <3> QED
      BY <2>1, <2>2, <3>9, <3>10 DEF LedgerInv
  <2> QED
    BY <2>3, <2>4
<1>5. CASE DropLine
  <2>1. /\ UNCHANGED <<archive, current, issued, dest, unsaved, expired>>
        /\ queue # <<>> /\ queue' = Tail(queue)
        /\ dropped' = dropped \cup ({Head(queue)} \ {Note})
        /\ pc' \in {"rotate", "idle"}
    BY <1>5 DEF DropLine
  <2>2. /\ Waiting = ({Head(queue)} \ {Note}) \cup Waiting'
        /\ Head(queue) \notin Waiting'
        /\ Once(queue')
    BY <1>a, <2>1, TakeLine DEF Waiting
  <2>3. Gone' = Gone \cup ({Head(queue)} \ {Note})
    BY <2>1 DEF Gone
  <2>4. OnDisk' = OnDisk /\ \A n \in Names : Lines(n)' = Lines(n)
    BY <2>1 DEF OnDisk, Lines
  <2>5. Accounted'
    BY <2>1, <2>2, <2>3, <2>4 DEF LedgerInv, Accounted
  <2> QED
    BY <2>1, <2>2, <2>5 DEF LedgerInv
\* The lines change files: the archive they move to had none.
<1>8. CASE MoveFile
  <2>1. /\ UNCHANGED <<queue, ledger, issued, dest>>
        /\ archive' = [archive EXCEPT ![dest] =
               [there |-> TRUE, lines |-> current.lines, stamp |-> 0]]
        /\ current' = NoCurrent
        /\ pc' = "tag"
        /\ dest \in Names
        /\ archive[dest].lines = <<>>
    BY <1>8 DEF MoveFile, LedgerInv
  <2>2. ToSet(<<>>) = {}
    BY DEF ToSet
  <2>3. /\ Lines(dest) = {} /\ Lines(dest)' = ToSet(current.lines)
        /\ \A n \in Names \ {dest} : Lines(n)' = Lines(n)
    BY <2>1, <2>2 DEF Lines, TypeOK
  <2>4. ToSet(current'.lines) = {}
    BY <2>1, <2>2 DEF NoCurrent
  <2>5. Waiting' = Waiting /\ Gone' = Gone
    BY <2>1 DEF Waiting, Gone, ledger
  <2>6. OnDisk' = OnDisk
    BY <2>1, <2>3, <2>4 DEF OnDisk
  <2>7. \A m, n \in Names : m # n => Lines(m)' \cap Lines(n)' = {}
    <3>1. /\ \A n \in Names : Lines(n) \cap ToSet(current.lines) = {}
          /\ \A m, n \in Names : m # n => Lines(m) \cap Lines(n) = {}
      BY DEF LedgerInv, Accounted
    <3>2. SUFFICES ASSUME NEW m \in Names, NEW n \in Names, m # n
                   PROVE  Lines(m)' \cap Lines(n)' = {}
      OBVIOUS
    <3>3. CASE m = dest
      BY <2>1, <2>3, <3>1, <3>2, <3>3 DEF Lines
    <3>4. CASE n = dest
      BY <2>1, <2>3, <3>1, <3>2, <3>4 DEF Lines
    <3>5. CASE m # dest /\ n # dest
      BY <2>3, <3>1, <3>2, <3>5
    <3> QED
      BY <3>3, <3>4, <3>5
  <2>8. Accounted'
    BY <2>1, <2>4, <2>5, <2>6, <2>7 DEF LedgerInv, Accounted
  <2>9. \A n \in Names : ~archive'[n].there => archive'[n].lines = <<>>
    BY <2>1 DEF LedgerInv, TypeOK
  <2> QED
    BY <2>1, <2>8, <2>9 DEF LedgerInv, NoCurrent
\* An archive goes with its lines.
<1>12. CASE DeleteArchive
  <2>1. PICK n \in victims :
           \/ /\ archive' = [archive EXCEPT ![n] = NoArchive]
              /\ expired' = expired \cup ToSet(archive[n].lines)
              /\ UNCHANGED <<queue, faults>>
           \/ /\ Fault
              /\ queue' = Notify(queue)
              /\ UNCHANGED <<archive, expired>>
    BY <1>12 DEF DeleteArchive
  <2>2. UNCHANGED <<current, pc, dest, issued, dropped, unsaved>> /\ pc = "cleanup"
    BY <1>12 DEF DeleteArchive
  <2>3. CASE queue' = Notify(queue) /\ UNCHANGED <<archive, expired>>
    BY <1>b, <1>c, <2>2, <2>3, StableLedger DEF ledger
  <2>4. CASE /\ archive' = [archive EXCEPT ![n] = NoArchive]
             /\ expired' = expired \cup ToSet(archive[n].lines)
             /\ UNCHANGED <<queue, faults>>
    <3>1. ToSet(<<>>) = {} /\ n \in Names
      BY DEF ToSet, TypeOK
    <3>2. Lines(n)' = {} /\ \A m \in Names \ {n} : Lines(m)' = Lines(m)
      BY <2>4, <3>1 DEF Lines, NoArchive, TypeOK
    <3>3. Gone' = Gone \cup Lines(n) /\ Waiting' = Waiting
      BY <2>2, <2>4 DEF Gone, Lines, Waiting
    <3>4. Lines(n) \subseteq OnDisk
      BY <3>1 DEF OnDisk
    <3>5. OnDisk' = OnDisk \ Lines(n)
      BY <2>2, <3>1, <3>2 DEF OnDisk, LedgerInv, Accounted
    <3>6. /\ \A m \in Names : Lines(m)' \subseteq Lines(m)
          /\ current' = current /\ issued' = issued
      BY <2>2, <3>2
    <3>7. Accounted'
      BY <3>3, <3>4, <3>5, <3>6 DEF LedgerInv, Accounted
    <3>8. \A m \in Names : ~archive'[m].there => archive'[m].lines = <<>>
      BY <2>4, <3>1 DEF LedgerInv, TypeOK, NoArchive
    <3> QED
      BY <2>2, <2>4, <3>7, <3>8 DEF LedgerInv
  <2> QED
    BY <2>1, <2>3, <2>4
\* What was waiting goes with the process.
<1>15. CASE Crash
  <2>1. /\ UNCHANGED <<current, archive, issued, dropped, expired>>
        /\ queue' = <<>> /\ pc' = "down"
        /\ unsaved' = unsaved \cup Waiting
    BY <1>15 DEF Crash, Waiting
  <2>2. Waiting' = {} /\ Once(queue')
    BY <2>1 DEF Waiting, Messages, ToSet, Once
  <2>3. Gone' = Gone \cup Waiting
    BY <2>1 DEF Gone
  <2>4. OnDisk' = OnDisk /\ \A n \in Names : Lines(n)' = Lines(n)
    BY <2>1 DEF OnDisk, Lines
  <2>5. Accounted'
    BY <2>1, <2>2, <2>3, <2>4 DEF LedgerInv, Accounted
  <2> QED
    BY <2>1, <2>2, <2>5 DEF LedgerInv
<1> QED
  BY <1>1, <1>2, <1>3, <1>4, <1>5, <1>6, <1>7, <1>8, <1>9, <1>10, <1>11,
     <1>12, <1>13, <1>14, <1>15, <1>16, <1>17 DEF Next, Worker

\* Whatever fails, dies or is launched again, every message logged is in exactly
\* one place: waiting, in one file, or gone for a reason the ledger names.
THEOREM EveryMessageAccounted == Spec => []Accounted
<1>1. Init => TypeOK /\ HandleInv /\ LedgerInv
  BY InitTypeOK, InitHandleInv, InitLedgerInv
<1>2. TypeOK /\ HandleInv /\ LedgerInv /\ [Next]_vars
         => (TypeOK /\ HandleInv /\ LedgerInv)'
  BY NextTypeOK, NextHandleInv, NextLedgerInv
<1>3. LedgerInv => Accounted
  BY DEF LedgerInv
<1> QED
  BY <1>1, <1>2, <1>3, PTL DEF Spec

-----------------------------------------------------------------------------
(* A clean-up leaves no more archives than are wanted. *)

Stamped == {n \in Names : archive[n].stamp > 0}
Newer(n) == {m \in Tagged : archive[m].stamp > archive[n].stamp}

\* No two archives are of the same time, and only so many were ever tagged.
StampsDiffer ==
    /\ IsFiniteSet(Stamped)
    /\ \A m, n \in Stamped : archive[m].stamp = archive[n].stamp => m = n

\* What a clean-up has not yet to remove is what is wanted, and what it failed to remove.
RestIsWanted ==
    pc = "cleanup" => Cardinality(Tagged \ victims) <= TargetMaxLogFiles + faults

TrimInv == StampsDiffer /\ RestIsWanted

\* Tagged archives are finitely many.
LEMMA TaggedFinite ==
  ASSUME StampsDiffer
  PROVE  Tagged \subseteq Stamped /\ \A S \in SUBSET Tagged : IsFiniteSet(S) /\ Cardinality(S) \in Nat
<1>1. Tagged \subseteq Stamped
  BY DEF Tagged, Archives, Stamped
<1>2. ASSUME NEW S \in SUBSET Tagged
      PROVE  IsFiniteSet(S) /\ Cardinality(S) \in Nat
  <2>1. S \in SUBSET Stamped
    BY <1>1
  <2> QED
    BY <2>1, FS_Subset, FS_CardinalityType DEF StampsDiffer
<1> QED
  BY <1>1, <1>2

\* An older archive has more newer ones.
LEMMA OlderHasMore ==
  ASSUME TypeOK, StampsDiffer, NEW m \in Tagged, NEW n \in Tagged,
         archive[m].stamp > archive[n].stamp
  PROVE  Cardinality(Newer(m)) < Cardinality(Newer(n))
<1>1. \A k \in Names : archive[k].stamp \in Nat
  BY DEF TypeOK
<1>2. m \in Names /\ n \in Names /\ Tagged \subseteq Names
  BY DEF Tagged, Archives
<1>3. Newer(m) \subseteq Newer(n) /\ m \in Newer(n) /\ m \notin Newer(m)
  BY <1>1, <1>2 DEF Newer
<1>4. /\ IsFiniteSet(Newer(n)) /\ Cardinality(Newer(n)) \in Nat
      /\ Cardinality(Newer(m)) \in Nat
  BY TaggedFinite DEF Newer
<1>5. /\ Cardinality(Newer(m)) <= Cardinality(Newer(n))
      /\ Cardinality(Newer(m)) # Cardinality(Newer(n))
  <2>1. Newer(m) \in SUBSET Newer(n) /\ Newer(m) # Newer(n)
    BY <1>3
  <2> QED
    BY <1>4, <2>1, FS_Subset
<1> QED
  BY <1>4, <1>5

\* So of the tagged archives no more than are wanted are no victims: they are told apart
\* by how many newer ones they have.
LEMMA WantedAreFew ==
  ASSUME TypeOK, StampsDiffer
  PROVE  Cardinality(Tagged \ Victims) <= TargetMaxLogFiles
<1> DEFINE Wanted == Tagged \ Victims
           Ranks == 0 .. TargetMaxLogFiles - 1
           rank == [n \in Wanted |-> Cardinality(Newer(n))]
<1>1. TargetMaxLogFiles \in Nat
  BY ThresholdsAssumption
<1>2. IsFiniteSet(Ranks) /\ Cardinality(Ranks) = TargetMaxLogFiles
  <2>1. 0 \in Int /\ TargetMaxLogFiles - 1 \in Int
    BY <1>1
  <2>2. /\ IsFiniteSet(Ranks)
        /\ Cardinality(Ranks) = IF 0 > TargetMaxLogFiles - 1
                                  THEN 0 ELSE (TargetMaxLogFiles - 1) - 0 + 1
    BY <2>1, FS_Interval
  <2> HIDE DEF Ranks
  <2> QED
    BY <1>1, <2>2
<1>3. IsFiniteSet(Wanted) /\ Cardinality(Wanted) \in Nat
  BY TaggedFinite
<1>4. rank \in [Wanted -> Ranks]
  <2>1. ASSUME NEW n \in Wanted
        PROVE  Cardinality(Newer(n)) \in Ranks
    <3>1. Cardinality(Newer(n)) \in Nat
      BY TaggedFinite DEF Newer
    <3>2. ~(Cardinality(Newer(n)) >= TargetMaxLogFiles)
      BY DEF Victims, Newer
    <3> QED
      BY <1>1, <3>1, <3>2
  <2> QED
    BY <2>1
<1>5. ASSUME NEW m \in Wanted, NEW n \in Wanted, m # n
      PROVE  rank[m] # rank[n]
  <2>1. archive[m].stamp # archive[n].stamp
    BY <1>5, TaggedFinite DEF StampsDiffer
  <2>2. m \in Tagged /\ n \in Tagged
    OBVIOUS
  <2>3. archive[m].stamp \in Nat /\ archive[n].stamp \in Nat
    BY <2>2 DEF TypeOK, Tagged, Archives
  <2>4. archive[m].stamp > archive[n].stamp \/ archive[n].stamp > archive[m].stamp
    BY <2>1, <2>3
  <2>5. Cardinality(Newer(m)) \in Nat /\ Cardinality(Newer(n)) \in Nat
    BY TaggedFinite DEF Newer
  <2>6. Cardinality(Newer(m)) # Cardinality(Newer(n))
    BY <2>2, <2>4, <2>5, OlderHasMore
  <2> QED
    BY <2>6
<1>6. ~(Cardinality(Ranks) < Cardinality(Wanted))
  <2> HIDE DEF Wanted, Ranks, rank
  <2> QED
    BY <1>2, <1>3, <1>4, <1>5, FS_PigeonHole
<1> HIDE DEF Wanted, Ranks
<1>7. Cardinality(Wanted) <= TargetMaxLogFiles
  BY <1>1, <1>2, <1>3, <1>6
<1> QED
  BY <1>7 DEF Wanted

\* At first there is no archive.
LEMMA InitTrim == Init => TrimInv
<1> SUFFICES ASSUME Init PROVE TrimInv
  OBVIOUS
<1>1. Stamped = {} /\ pc = "down"
  BY DEF Init, Stamped, NoArchive
<1> QED
  BY <1>1, FS_EmptySet DEF TrimInv, StampsDiffer, RestIsWanted

\* A rotation that ends chooses as victims all that is not wanted.
LEMMA RotationEnds ==
  ASSUME TypeOK, TypeOK', StampsDiffer, EndRotation, UNCHANGED archive
  PROVE  RestIsWanted'
<1>1. Tagged' = Tagged
  BY DEF Tagged, Archives
<1>2. Cardinality(Tagged' \ victims') <= TargetMaxLogFiles
  BY <1>1, WantedAreFew DEF EndRotation
<1>3. TargetMaxLogFiles \in Nat /\ faults' \in Nat
  BY ThresholdsAssumption, BoundsAssumption DEF TypeOK
<1>4. Cardinality(Tagged' \ victims') \in Nat
  BY <1>1, TaggedFinite
<1> QED
  BY <1>2, <1>3, <1>4 DEF RestIsWanted

\* Only tagging gives an archive a stamp, and one that is newer than all.
LEMMA StampsStayDifferent ==
  ASSUME TypeOK, StampsDiffer, [Next]_vars
  PROVE  StampsDiffer'
<1>1. CASE UNCHANGED archive
  BY <1>1 DEF StampsDiffer, Stamped
<1>2. ASSUME NEW k \in Names, NEW a, archive' = [archive EXCEPT ![k] = a], a.stamp = 0
      PROVE  StampsDiffer'
  <2>1. /\ archive'[k].stamp = 0 /\ \A n \in Names \ {k} : archive'[n] = archive[n]
    BY <1>2 DEF TypeOK
  <2>2. Stamped' \in SUBSET Stamped /\ k \notin Stamped'
    BY <2>1 DEF Stamped
  <2>3. IsFiniteSet(Stamped')
    BY <2>2, FS_Subset DEF StampsDiffer
  <2> QED
    BY <2>1, <2>2, <2>3 DEF StampsDiffer, Stamped
<1>3. CASE MoveFile
  <2> DEFINE moved == [there |-> TRUE, lines |-> current.lines, stamp |-> 0]
  <2>1. archive' = [archive EXCEPT ![dest] = moved] /\ moved.stamp = 0
    BY <1>3 DEF MoveFile
  <2> HIDE DEF moved
  <2>2. CASE dest \in Names
    BY <1>2, <2>1, <2>2
  <2>3. CASE dest \notin Names
    <3>1. archive' = archive
      BY <2>1, <2>3 DEF TypeOK
    <3> QED
      BY <1>1, <3>1
  <2> QED
    BY <2>2, <2>3
<1>4. CASE DeleteArchive
  <2>1. \/ UNCHANGED archive
        \/ \E n \in victims : archive' = [archive EXCEPT ![n] = NoArchive]
    BY <1>4 DEF DeleteArchive
  <2>2. victims \subseteq Names /\ NoArchive.stamp = 0
    BY DEF TypeOK, NoArchive
  <2> QED
    BY <1>1, <1>2, <2>1, <2>2
<1>5. ASSUME NEW n \in Names, Latest(n),
             archive' = [archive EXCEPT ![dest].stamp = archive[n].stamp + 1]
      PROVE  StampsDiffer'
  <2>1. \A m \in Names : archive[m].stamp \in Nat /\ archive[m].stamp <= archive[n].stamp
    BY <1>5 DEF TypeOK, Latest
  <2>2. CASE dest \in Names
    <3>1. /\ archive'[dest].stamp = archive[n].stamp + 1
          /\ \A m \in Names \ {dest} : archive'[m] = archive[m]
      BY <1>5, <2>2 DEF TypeOK
    <3>2. Stamped' \in SUBSET (Stamped \cup {dest})
      BY <3>1 DEF Stamped
    <3>3. IsFiniteSet(Stamped')
      BY <3>2, FS_AddElement, FS_Subset DEF StampsDiffer
    <3>4. \A m \in Names \ {dest} : archive'[m].stamp # archive'[dest].stamp
      BY <2>1, <3>1
    <3>5. \A m \in Stamped' \ {dest} : m \in Stamped /\ archive'[m] = archive[m] /\ m \in Names
      BY <3>1 DEF Stamped
    <3> QED
      BY <2>2, <3>3, <3>4, <3>5 DEF StampsDiffer
  <2>3. CASE dest \notin Names
    <3>1. archive' = archive
      BY <1>5, <2>3 DEF TypeOK
    <3> QED
      BY <1>1, <3>1
  <2> QED
    BY <2>2, <2>3
<1>6. CASE TagArchive
  BY <1>1, <1>5, <1>6 DEF TagArchive
<1>7. UNCHANGED archive \/ MoveFile \/ TagArchive \/ DeleteArchive
  BY DEF Next, Worker, vars, Tick, Travel, Log, Fatal, Enqueue, WriteLine, DropLine, StartRotation,
         RefuseRotation, MoveFails, Reopen, EndCleanup, Attach, Crash, Boot, disk
<1> QED
  BY <1>1, <1>3, <1>4, <1>6, <1>7

\* A removal that fails adds one archive to those that stay, and one fault.
LEMMA RestStaysWanted ==
  ASSUME TypeOK, TypeOK', TrimInv, [Next]_vars
  PROVE  RestIsWanted'
<1>1. CASE UNCHANGED <<archive, pc, victims, faults>>
  BY <1>1 DEF TrimInv, RestIsWanted, Tagged, Archives
<1>2. CASE RefuseRotation \/ (Reopen /\ EndRotation)
  <2>1. EndRotation /\ UNCHANGED archive
    BY <1>2 DEF RefuseRotation, Reopen, disk
  <2> QED
    BY <2>1, RotationEnds DEF TrimInv
<1>3. CASE DeleteArchive
  <2>1. PICK n \in victims :
           /\ victims' = victims \ {n}
           /\ \/ archive' = [archive EXCEPT ![n] = NoArchive] /\ UNCHANGED faults
              \/ Fault /\ UNCHANGED archive
    BY <1>3 DEF DeleteArchive
  <2>2. /\ pc = "cleanup" /\ n \in Names
        /\ Cardinality(Tagged \ victims) <= TargetMaxLogFiles + faults
    BY <1>3 DEF DeleteArchive, TypeOK, TrimInv, RestIsWanted
  <2>3. CASE archive' = [archive EXCEPT ![n] = NoArchive] /\ UNCHANGED faults
    <3>1. \A m \in Names : archive'[m] = IF m = n THEN NoArchive ELSE archive[m]
      BY <2>2, <2>3 DEF TypeOK
    <3>2. Tagged' = Tagged \ {n}
      BY <3>1 DEF Tagged, Archives, NoArchive
    <3>3. Tagged' \ victims' = Tagged \ victims
      BY <2>1, <3>2
    <3> QED
      BY <2>2, <2>3, <3>3 DEF RestIsWanted
  <2>4. CASE Fault /\ UNCHANGED archive
    <3>1. Tagged' = Tagged
      BY <2>4 DEF Tagged, Archives
    <3>2. Tagged' \ victims' \in SUBSET ((Tagged \ victims) \cup {n})
      BY <2>1, <3>1
    <3>3. IsFiniteSet(Tagged \ victims) /\ Cardinality(Tagged \ victims) \in Nat
      BY TaggedFinite DEF TrimInv
    <3>4. /\ IsFiniteSet((Tagged \ victims) \cup {n})
          /\ Cardinality((Tagged \ victims) \cup {n}) \in
                {Cardinality(Tagged \ victims), Cardinality(Tagged \ victims) + 1}
      BY <3>3, FS_AddElement
    <3>5. Cardinality(Tagged' \ victims') <= Cardinality((Tagged \ victims) \cup {n})
      BY <3>2, <3>4, FS_Subset
    <3>6. Cardinality(Tagged' \ victims') \in Nat
      BY <3>1, TaggedFinite DEF TrimInv
    <3>7. TargetMaxLogFiles \in Nat /\ faults \in Nat /\ faults' = faults + 1
      BY <2>4, ThresholdsAssumption, BoundsAssumption DEF TypeOK, Fault
    <3>8. Cardinality(Tagged' \ victims') <= TargetMaxLogFiles + faults'
      BY <2>2, <3>3, <3>4, <3>5, <3>6, <3>7
    <3> QED
      BY <3>8 DEF RestIsWanted
  <2> QED
    BY <2>1, <2>3, <2>4
<1>4. CASE pc' # "cleanup"
  BY <1>4 DEF RestIsWanted
<1>5. \/ UNCHANGED <<archive, pc, victims, faults>>
      \/ RefuseRotation \/ (Reopen /\ EndRotation)
      \/ DeleteArchive
      \/ pc' # "cleanup"
  <2>1. CASE Tick \/ Travel \/ Log \/ Fatal
    BY <2>1 DEF Tick, Travel, Log, Fatal, Enqueue, disk, worker
  <2>2. CASE WriteLine \/ DropLine
    BY <2>2 DEF WriteLine, DropLine
  <2>3. CASE Reopen
    BY <2>3 DEF Reopen
  <2>4. CASE StartRotation \/ MoveFile \/ MoveFails \/ TagArchive \/ EndCleanup \/ Attach
    BY <2>4 DEF StartRotation, MoveFile, MoveFails, TagArchive, EndCleanup, Attach, Registered
  <2>5. CASE Crash \/ Boot
    BY <2>5 DEF Crash, Boot
  <2>6. CASE UNCHANGED vars
    BY <2>6 DEF vars, disk, worker
  <2> QED
    BY <2>1, <2>2, <2>3, <2>4, <2>5, <2>6 DEF Next, Worker
<1> QED
  BY <1>1, <1>2, <1>3, <1>4, <1>5

\* When a clean-up is through, no more archives are recognised than targetMaxLogFiles, plus
\* one for each call that failed, whatever the zones, thresholds and interruptions were:
\* cleanUpLogFiles removes all archives behind the first targetMaxLogFiles.
THEOREM CleanUpTrims == Spec => ArchivesTrimmed
<1>1. TypeOK /\ TrimInv /\ [Next]_vars
        => [pc = "cleanup" /\ pc' \in {"attach", "idle"}
              => Cardinality(Tagged) <= TargetMaxLogFiles + faults]_vars
  <2> SUFFICES ASSUME TypeOK, TrimInv, [Next]_vars, pc = "cleanup", pc' \in {"attach", "idle"}
               PROVE  Cardinality(Tagged) <= TargetMaxLogFiles + faults
    OBVIOUS
  <2>1. victims = {}
    BY DEF Next, Worker, vars, worker, Tick, Travel, Log, Fatal, Enqueue, WriteLine, DropLine,
           StartRotation, RefuseRotation, MoveFile, MoveFails, TagArchive, Reopen, DeleteArchive,
           EndCleanup, Attach, Crash, Boot
  <2>2. Tagged \ victims = Tagged
    BY <2>1
  <2> QED
    BY <2>2 DEF TrimInv, RestIsWanted
<1>2. TypeOK /\ TypeOK' /\ TrimInv /\ [Next]_vars => TrimInv'
  BY StampsStayDifferent, RestStaysWanted DEF TrimInv
<1> QED
  BY <1>1, <1>2, InitTrim, TypeCorrect, PTL DEF Spec, ArchivesTrimmed

\* The lines that are messages, one sequence for each line.
LinesOf(q) == [i \in DOMAIN q |-> IF q[i] = Note THEN <<>> ELSE <<q[i]>>]

\* They are sequences of messages.
LEMMA LinesOfType ==
  ASSUME NEW q \in Seq(Ids \cup {Note})
  PROVE  /\ LinesOf(q) \in Seq(Seq(Ids)) /\ Len(LinesOf(q)) = Len(q) /\ Len(q) \in Nat
         /\ \A i \in 1 .. Len(q) : LinesOf(q)[i] = IF q[i] = Note THEN <<>> ELSE <<q[i]>>
<1>1. Len(q) \in Nat /\ DOMAIN q = 1 .. Len(q) /\ \A i \in 1 .. Len(q) : q[i] \in Ids \cup {Note}
  OBVIOUS
<1> DEFINE n == Len(q)  r == [i \in 1 .. n |-> IF q[i] = Note THEN <<>> ELSE <<q[i]>>]
<1>2. LinesOf(q) = r
  BY <1>1 DEF LinesOf
<1>3. \A i \in 1 .. n : (IF q[i] = Note THEN <<>> ELSE <<q[i]>>) \in Seq(Ids)
  <2> SUFFICES ASSUME NEW i \in 1 .. n
               PROVE  (IF q[i] = Note THEN <<>> ELSE <<q[i]>>) \in Seq(Ids)
    OBVIOUS
  <2>1. q[i] = Note \/ q[i] \in Ids
    BY <1>1
  <2> QED
    BY <2>1
<1>4. r \in [1 .. n -> Seq(Ids)] /\ n \in Nat
  BY <1>1, <1>3
<1>5. r \in Seq(Seq(Ids)) /\ Len(r) = n
  <2> HIDE DEF r, n
  <2>1. r \in Seq(Seq(Ids))
    BY <1>4, IsASeq
  <2> QED
    BY <1>4, <2>1, LenProperties
<1>6. \A i \in 1 .. n : r[i] = IF q[i] = Note THEN <<>> ELSE <<q[i]>>
  OBVIOUS
<1> HIDE DEF r
<1> QED
  BY <1>1, <1>2, <1>5, <1>6

\* Messages go into the queue's messages at the end; logger lines do not.
LEMMA UserLinesAppend ==
  ASSUME NEW q \in Seq(Ids \cup {Note}), NEW l \in Ids \cup {Note}
  PROVE  UserLines(Append(q, l)) = IF l = Note THEN UserLines(q) ELSE Append(UserLines(q), l)
<1> DEFINE x == IF l = Note THEN <<>> ELSE <<l>>
<1>1. x \in Seq(Ids)
  <2>1. l = Note \/ l \in Ids
    OBVIOUS
  <2> QED
    BY <2>1
<1>2. LinesOf(Append(q, l)) = Append(LinesOf(q), x)
  <2> DEFINE a == Append(q, l)  n == Len(q)  s == LinesOf(a)  t == Append(LinesOf(q), x)
  <2>1. /\ a \in Seq(Ids \cup {Note}) /\ Len(a) = n + 1 /\ n \in Nat
        /\ a[n + 1] = l /\ \A i \in 1 .. n : a[i] = q[i]
    OBVIOUS
  <2>2. /\ LinesOf(q) \in Seq(Seq(Ids)) /\ Len(LinesOf(q)) = n
        /\ \A i \in 1 .. n : LinesOf(q)[i] = IF q[i] = Note THEN <<>> ELSE <<q[i]>>
    BY LinesOfType
  <2> HIDE DEF a, n
  <2>3. /\ s \in Seq(Seq(Ids)) /\ Len(s) = n + 1
        /\ \A i \in 1 .. n + 1 : s[i] = IF a[i] = Note THEN <<>> ELSE <<a[i]>>
    BY <2>1, LinesOfType
  <2> HIDE DEF x
  <2>4. /\ t \in Seq(Seq(Ids)) /\ Len(t) = n + 1
        /\ t[n + 1] = x /\ \A i \in 1 .. n : t[i] = LinesOf(q)[i]
    BY <1>1, <2>2, AppendProperties
  <2> HIDE DEF s, t
  <2>5. \A i \in 1 .. n + 1 : s[i] = t[i]
    <3> SUFFICES ASSUME NEW i \in 1 .. n + 1 PROVE s[i] = t[i]
      OBVIOUS
    <3>1. i = n + 1 \/ i \in 1 .. n
      BY <2>1
    <3>2. s[i] = IF a[i] = Note THEN <<>> ELSE <<a[i]>>
      BY <2>3
    <3>3. CASE i = n + 1
      <4>1. a[i] = l /\ t[i] = x
        BY <2>1, <2>4, <3>3
      <4> QED
        BY <3>2, <4>1 DEF x
    <3>4. CASE i \in 1 .. n
      <4>1. a[i] = q[i]
        BY <2>1, <3>4
      <4>2. t[i] = LinesOf(q)[i]
        BY <2>4, <3>4
      <4>3. LinesOf(q)[i] = IF q[i] = Note THEN <<>> ELSE <<q[i]>>
        BY <2>2, <3>4
      <4> QED
        BY <3>2, <4>1, <4>2, <4>3
    <3> QED
      BY <3>1, <3>3, <3>4
  <2>6. s = t
    BY <2>3, <2>4, <2>5, SeqEqual
  <2> QED
    BY <2>6 DEF s, t, a
<1>3. FlattenSeq(Append(LinesOf(q), x)) = FlattenSeq(LinesOf(q)) \o x
  BY <1>1, LinesOfType, FlatAppend
<1>4. FlattenSeq(LinesOf(q)) \in Seq(Ids)
  BY LinesOfType, FlatType
<1>5. \A s \in Seq(Ids) : s \o x = IF l = Note THEN s ELSE Append(s, l)
  <2> SUFFICES ASSUME NEW s \in Seq(Ids) PROVE s \o x = IF l = Note THEN s ELSE Append(s, l)
    OBVIOUS
  <2>1. CASE l = Note
    BY <2>1
  <2>2. CASE l # Note
    <3>1. l \in Ids
      BY <2>2
    <3>2. s \o <<l>> = Append(s, l)
      BY <3>1, AppendIsConcat
    <3> QED
      BY <2>2, <3>2
  <2> QED
    BY <2>1, <2>2
<1> HIDE DEF x
<1> QED
  BY <1>2, <1>3, <1>4, <1>5 DEF UserLines, LinesOf

\* Taking a line off the queue takes its message off the messages.
LEMMA UserLinesTail ==
  ASSUME NEW q \in Seq(Ids \cup {Note}), q # <<>>
  PROVE  /\ Head(q) = Note => UserLines(q) = UserLines(Tail(q))
         /\ Head(q) # Note => /\ UserLines(q) # <<>>
                              /\ Head(UserLines(q)) = Head(q)
                              /\ Tail(UserLines(q)) = UserLines(Tail(q))
<1> DEFINE p == LinesOf(q)  t == Tail(q)  n == Len(q)
<1>1. /\ t \in Seq(Ids \cup {Note}) /\ Len(t) = n - 1 /\ n \in Nat \ {0}
      /\ Head(q) = q[1] /\ q[1] \in Ids \cup {Note}
      /\ \A i \in 1 .. n - 1 : t[i] = q[i + 1]
  OBVIOUS
<1>2. /\ p \in Seq(Seq(Ids)) /\ Len(p) = n
      /\ \A i \in 1 .. n : p[i] = IF q[i] = Note THEN <<>> ELSE <<q[i]>>
  BY LinesOfType
<1> HIDE DEF t, n
<1>3. /\ LinesOf(t) \in Seq(Seq(Ids)) /\ Len(LinesOf(t)) = n - 1
      /\ \A i \in 1 .. n - 1 : LinesOf(t)[i] = IF t[i] = Note THEN <<>> ELSE <<t[i]>>
  BY <1>1, LinesOfType
<1> HIDE DEF p
<1>4. p # <<>>
  BY <1>1, <1>2, EmptySeq
<1>5. Tail(p) = LinesOf(t)
  <2>1. /\ Tail(p) \in Seq(Seq(Ids)) /\ Len(Tail(p)) = n - 1
        /\ \A i \in 1 .. n - 1 : Tail(p)[i] = p[i + 1]
    BY <1>2, <1>4, HeadTailProperties
  <2>2. \A i \in 1 .. n - 1 : Tail(p)[i] = LinesOf(t)[i]
    <3> SUFFICES ASSUME NEW i \in 1 .. n - 1 PROVE Tail(p)[i] = LinesOf(t)[i]
      OBVIOUS
    <3>1. i + 1 \in 1 .. n
      BY <1>1
    <3>2. Tail(p)[i] = p[i + 1]
      BY <2>1, Zenon
    <3>3. p[i + 1] = IF q[i + 1] = Note THEN <<>> ELSE <<q[i + 1]>>
      BY <1>2, <3>1, Zenon
    <3>4. t[i] = q[i + 1]
      BY <1>1, Zenon
    <3>5. LinesOf(t)[i] = IF t[i] = Note THEN <<>> ELSE <<t[i]>>
      BY <1>3, Zenon
    <3> QED
      BY <3>2, <3>3, <3>4, <3>5, Zenon
  <2> QED
    BY <1>3, <2>1, <2>2, SeqEqual
<1>6. FlattenSeq(p) = p[1] \o FlattenSeq(LinesOf(t))
  BY <1>2, <1>4, <1>5, FlatTail
<1>7. FlattenSeq(LinesOf(t)) \in Seq(Ids)
  BY <1>3, FlatType
<1>8. p[1] = IF Head(q) = Note THEN <<>> ELSE <<Head(q)>>
  <2>1. 1 \in 1 .. n
    BY <1>1
  <2> QED
    BY <1>1, <1>2, <2>1, Zenon
<1>9. /\ UserLines(q) = FlattenSeq(p)
      /\ UserLines(t) = FlattenSeq(LinesOf(t))
  BY DEF UserLines, LinesOf, p
<1>10. CASE Head(q) = Note
  BY <1>6, <1>7, <1>8, <1>9, <1>10 DEF t
<1>11. CASE Head(q) # Note
  <2>1. Head(q) \in Ids
    BY <1>1, <1>11
  <2>2. ASSUME NEW l \in Ids, NEW s \in Seq(Ids)
        PROVE  <<l>> \o s # <<>> /\ Head(<<l>> \o s) = l /\ Tail(<<l>> \o s) = s
    <3>1. /\ <<l>> \in Seq(Ids) /\ Len(<<l>>) = 1 /\ <<l>>[1] = l
          /\ Head(<<l>>) = l /\ Tail(<<l>>) = <<>> /\ <<l>> # <<>>
      OBVIOUS
    <3> DEFINE c == <<l>> \o s
    <3>2. /\ c \in Seq(Ids) /\ Len(c) = 1 + Len(s)
          /\ \A i \in 1 .. 1 + Len(s) : c[i] = IF i <= 1 THEN <<l>>[i] ELSE s[i - 1]
      BY <3>1, ConcatProperties
    <3> HIDE DEF c
    <3>3. Len(s) \in Nat
      BY LenProperties
    <3>4. c # <<>> /\ c[1] = l /\ \A i \in 1 .. Len(s) : c[i + 1] = s[i]
      <4>1. c[1] = l
        <5>1. 1 \in 1 .. 1 + Len(s)
          BY <3>3
        <5> QED
          BY <3>1, <3>2, <5>1
      <4>2. \A i \in 1 .. Len(s) : i + 1 \in 1 .. 1 + Len(s) /\ ~(i + 1 <= 1) /\ (i + 1) - 1 = i
        BY <3>3
      <4>3. Len(c) # 0
        BY <3>2, <3>3
      <4> QED
        BY <3>2, <4>1, <4>2, <4>3, EmptySeq
    <3>5. /\ Tail(c) \in Seq(Ids) /\ Len(Tail(c)) = Len(c) - 1
          /\ \A i \in 1 .. Len(Tail(c)) : Tail(c)[i] = c[i + 1]
      BY <3>2, <3>4, HeadTailProperties
    <3>6. Len(Tail(c)) = Len(s)
      BY <3>2, <3>3, <3>5
    <3>7. Tail(c) = s
      BY <3>4, <3>5, <3>6, SeqEqual
    <3>8. Head(c) = l
      BY <3>2, <3>4
    <3> QED
      BY <3>4, <3>7, <3>8 DEF c
  <2>3. UserLines(q) = <<Head(q)>> \o UserLines(t)
    BY <1>6, <1>8, <1>9, <1>11, Zenon
  <2>4. UserLines(t) \in Seq(Ids)
    BY <1>7, <1>9, Zenon
  <2>5. /\ UserLines(q) # <<>> /\ Head(UserLines(q)) = Head(q)
        /\ Tail(UserLines(q)) = UserLines(t)
    BY <2>1, <2>2, <2>3, <2>4, Zenon
  <2> QED
    BY <1>11, <2>5, Zenon DEF t
<1> QED
  BY <1>10, <1>11

\* The records of archives, and what LinesOf is for the archives: the lines in the order of
\* the names.
Files == [there : BOOLEAN, lines : Seq(Ids), stamp : Nat]
LinesByName(a) == [i \in 1 .. Max(Names) + 1 |-> IF i - 1 \in Names THEN a[i - 1].lines ELSE <<>>]

\* In one zone the names are an interval.
LEMMA NamesOfZone ==
  ASSUME NEW z \in Nat, Zones = {z}
  PROVE  Names = z .. MaxTime + z /\ Max(Names) = MaxTime + z /\ MaxTime \in Nat
<1>1. MaxTime \in Nat
  BY BoundsAssumption
<1>2. Names = z .. MaxTime + z
  <2>1. \A n \in z .. MaxTime + z : n - z \in Times /\ n = (n - z) + z
    BY <1>1 DEF Times
  <2>2. z .. MaxTime + z \subseteq Names
    BY <2>1 DEF Names
  <2>3. Names \subseteq z .. MaxTime + z
    BY <1>1 DEF Names, Times
  <2> QED
    BY <2>2, <2>3
<1>3. Max(Names) = MaxTime + z
  <2>1. MaxTime + z \in Names /\ \A y \in Names : MaxTime + z >= y
    BY <1>1, <1>2
  <2>2. \A x \in Names : (\A y \in Names : x >= y) => x = MaxTime + z
    BY <1>1, <1>2
  <2> QED
    BY <2>1, <2>2 DEF Max
<1> QED
  BY <1>1, <1>2, <1>3

\* What the archives hold, name by name.
LEMMA LinesByNameType ==
  ASSUME NEW z \in Nat, Zones = {z}, NEW a \in [Names -> Files]
  PROVE  /\ LinesByName(a) \in Seq(Seq(Ids))
         /\ Len(LinesByName(a)) = MaxTime + z + 1
         /\ MaxTime + z + 1 \in Nat
         /\ \A n \in Names : n + 1 \in 1 .. MaxTime + z + 1 /\ LinesByName(a)[n + 1] = a[n].lines
         /\ \A i \in 1 .. MaxTime + z + 1 :
               LinesByName(a)[i] = IF i - 1 \in Names THEN a[i - 1].lines ELSE <<>>
<1> DEFINE n == MaxTime + z + 1
           r == [i \in 1 .. n |-> IF i - 1 \in Names THEN a[i - 1].lines ELSE <<>>]
<1>1. /\ Names = z .. MaxTime + z /\ Max(Names) + 1 = n /\ n \in Nat
  BY NamesOfZone
<1>2. LinesByName(a) = r
  BY <1>1 DEF LinesByName
<1>3. ASSUME NEW i \in 1 .. n
      PROVE  (IF i - 1 \in Names THEN a[i - 1].lines ELSE <<>>) \in Seq(Ids)
  BY DEF Files
<1>4. r \in [1 .. n -> Seq(Ids)]
  BY <1>3
<1>5. \A i \in 1 .. n : r[i] = IF i - 1 \in Names THEN a[i - 1].lines ELSE <<>>
  OBVIOUS
<1> HIDE DEF r
<1>6. r \in Seq(Seq(Ids))
  <2> HIDE DEF n
  <2> QED
    BY <1>1, <1>4, IsASeq
<1>7. Len(r) = n
  BY <1>1, <1>4, <1>6, LenProperties
<1>8. \A m \in Names : m + 1 \in 1 .. n /\ (m + 1) - 1 = m
  BY <1>1, BoundsAssumption
<1>9. \A m \in Names : r[m + 1] = a[m].lines
  BY <1>5, <1>8
<1> QED
  BY <1>1, <1>2, <1>5, <1>6, <1>7, <1>8, <1>9

\* What stands before and behind the lines of one archive does not depend on them.
LEMMA ArchiveInPlace ==
  ASSUME NEW z \in Nat, Zones = {z}, NEW a \in [Names -> Files], NEW k \in Names
  PROVE  \E before, behind \in Seq(Ids) :
            /\ \A b \in [Names -> Files] :
                  (\A n \in Names \ {k} : b[n].lines = a[n].lines)
                     => FlattenSeq(LinesByName(b)) = (before \o b[k].lines) \o behind
            /\ (\A n \in Names : n > k => a[n].lines = <<>>) => behind = <<>>
<1> DEFINE p == LinesByName(a)  l == MaxTime + z + 1
<1>1. /\ p \in Seq(Seq(Ids)) /\ Len(p) = l /\ l \in Nat
      /\ \A n \in Names : n + 1 \in 1 .. l /\ p[n + 1] = a[n].lines
      /\ \A i \in 1 .. l : p[i] = IF i - 1 \in Names THEN a[i - 1].lines ELSE <<>>
  BY LinesByNameType
<1> HIDE DEF p, l
<1>2. k + 1 \in 1 .. Len(p) /\ k \in Int
  <2>1. k + 1 \in 1 .. Len(p)
    BY <1>1, Zenon
  <2>2. k \in z .. MaxTime + z
    BY NamesOfZone
  <2> QED
    BY <2>1, <2>2
<1>3. PICK before \in Seq(Ids), behind \in Seq(Ids) : Around(Ids, p, k + 1, before, behind)
  BY <1>1, <1>2, FlatSplit
<1>4. ASSUME NEW b \in [Names -> Files], \A n \in Names \ {k} : b[n].lines = a[n].lines
      PROVE  FlattenSeq(LinesByName(b)) = (before \o b[k].lines) \o behind
  <2> DEFINE q == LinesByName(b)  x == b[k].lines  e == [p EXCEPT ![k + 1] = x]
  <2>1. /\ q \in Seq(Seq(Ids)) /\ Len(q) = l
        /\ \A i \in 1 .. l : q[i] = IF i - 1 \in Names THEN b[i - 1].lines ELSE <<>>
    BY LinesByNameType DEF l
  <2>2. x \in Seq(Ids)
    BY DEF Files
  <2> HIDE DEF q, x
  <2>3. /\ e \in Seq(Seq(Ids)) /\ Len(e) = l
        /\ \A j \in 1 .. Len(p) : e[j] = IF j = k + 1 THEN x ELSE p[j]
    BY <1>1, <1>2, <2>2, ExceptSeq
  <2> HIDE DEF e
  <2>4. ASSUME NEW i \in 1 .. l
        PROVE  q[i] = e[i]
    <3>0. e[i] = IF i = k + 1 THEN x ELSE p[i]
      BY <1>1, <2>3
    <3>1. CASE i = k + 1
      <4>1. i - 1 = k
        BY <1>2, <3>1
      <4> QED
        BY <2>1, <3>0, <3>1, <4>1 DEF x
    <3>2. CASE i # k + 1
      <4>1. i - 1 # k
        BY <1>2, <3>2
      <4>2. i - 1 \in Names => b[i - 1].lines = a[i - 1].lines
        BY <1>4, <4>1
      <4>3. /\ q[i] = IF i - 1 \in Names THEN b[i - 1].lines ELSE <<>>
            /\ p[i] = IF i - 1 \in Names THEN a[i - 1].lines ELSE <<>>
        BY <1>1, <2>1, Zenon
      <4> QED
        BY <3>0, <3>2, <4>2, <4>3, Zenon
    <3> QED
      BY <3>1, <3>2
  <2>5. q = e
    BY <2>1, <2>3, <2>4, SeqEqual
  <2>6. FlattenSeq(e) = (before \o x) \o behind
    BY <1>3, <2>2, Zenon DEF e, Around
  <2> QED
    BY <2>5, <2>6, Zenon DEF q, x
<1>5. ASSUME \A n \in Names : n > k => a[n].lines = <<>>
      PROVE  behind = <<>>
  <2>1. ASSUME NEW j \in (k + 1) + 1 .. Len(p) PROVE p[j] = <<>>
    <3>1. j \in 1 .. l /\ j - 1 > k
      BY <1>1, <1>2
    <3>2. p[j] = IF j - 1 \in Names THEN a[j - 1].lines ELSE <<>>
      BY <1>1, <3>1, Zenon
    <3> QED
      BY <1>5, <3>1, <3>2, Zenon
  <2> QED
    BY <1>3, <2>1, Zenon DEF Around
<1> QED
  BY <1>4, <1>5


\* What is on the disk is the archives and the current file.
LEMMA OnTheDisk ==
  ASSUME TypeOK, NEW z \in Nat, Zones = {z}
  PROVE  /\ Retained = FlattenSeq(LinesByName(archive)) \o current.lines
         /\ FlattenSeq(LinesByName(archive)) \in Seq(Ids) /\ current.lines \in Seq(Ids)
         /\ archive \in [Names -> Files]
<1>1. archive \in [Names -> Files] /\ current.lines \in Seq(Ids)
  BY DEF TypeOK, Files
<1>2. FlattenSeq(LinesByName(archive)) \in Seq(Ids)
  <2>1. LinesByName(archive) \in Seq(Seq(Ids))
    BY <1>1, LinesByNameType
  <2> QED
    BY <2>1, FlatType
<1> QED
  BY <1>1, <1>2 DEF Retained, ArchivedLines, LinesByName

\* A step that writes no line, moves none and takes none off the queue shows nothing.
LEMMA NothingSeen ==
  ASSUME TypeOK, TypeOK',
         \A n \in Names : archive'[n].lines = archive[n].lines,
         current'.lines = current.lines,
         UserLines(queue') = UserLines(queue), issued' = issued
  PROVE  UNCHANGED Durable!vars
<1>1. LinesByName(archive') = LinesByName(archive)
  BY DEF LinesByName
<1>2. ArchivedLines' = LinesByName(archive') /\ ArchivedLines = LinesByName(archive)
  BY DEF ArchivedLines, LinesByName
<1>3. Retained' = Retained
  BY <1>1, <1>2 DEF Retained
<1> QED
  BY <1>3 DEF Durable!vars

\* A line written is the first message waiting, appended to what is on the disk.
LEMMA WriteLinePersists ==
  ASSUME TypeOK, TypeOK', NEW z \in Nat, Zones = {z}, WriteLine
  PROVE  [Durable!Persist]_Durable!vars
<1> DEFINE l == Head(queue)
<1>1. /\ queue \in Seq(Ids \cup {Note}) /\ queue # <<>> /\ queue' = Tail(queue)
      /\ current' = Written(current, l) /\ archive' = archive /\ issued' = issued
      /\ l \in Ids \cup {Note}
  BY QueueType DEF WriteLine, TypeOK
<1>2. /\ l = Note => UserLines(queue) = UserLines(queue')
      /\ l # Note => /\ UserLines(queue) # <<>> /\ Head(UserLines(queue)) = l
                     /\ Tail(UserLines(queue)) = UserLines(queue')
  BY <1>1, UserLinesTail
<1> HIDE DEF l
<1>3. CASE l = Note
  <2>1. current'.lines = current.lines
    BY <1>1, <1>3, WrittenIs, CurrentIsFile
  <2> QED
    BY <1>1, <1>2, <1>3, <2>1, NothingSeen
<1>4. CASE l # Note
  <2>1. current'.lines = Append(current.lines, l) /\ l \in Ids
    BY <1>1, <1>4, WrittenIs, CurrentIsFile
  <2> DEFINE f == FlattenSeq(LinesByName(archive))
  <2>2. Retained = f \o current.lines /\ f \in Seq(Ids) /\ current.lines \in Seq(Ids)
    BY OnTheDisk
  <2>3. Retained' = f \o current'.lines
    BY <1>1 DEF Retained, ArchivedLines, LinesByName
  <2> HIDE DEF f
  <2>4. Retained' = Append(Retained, l)
    BY <2>1, <2>2, <2>3, AppendBehind
  <2> QED
    BY <1>1, <1>2, <1>4, <2>4 DEF Durable!Persist
<1> QED
  BY <1>3, <1>4

\* A line that is lost was the first message waiting.
LEMMA DropLineDrops ==
  ASSUME TypeOK, TypeOK', DropLine
  PROVE  [Durable!Drop]_Durable!vars
<1> DEFINE l == Head(queue)
<1>1. /\ queue \in Seq(Ids \cup {Note}) /\ queue # <<>> /\ queue' = Tail(queue)
      /\ UNCHANGED <<current, archive, issued>>
  BY DEF DropLine, TypeOK, disk
<1>2. /\ l = Note => UserLines(queue) = UserLines(queue')
      /\ l # Note => /\ UserLines(queue) # <<>>
                     /\ Tail(UserLines(queue)) = UserLines(queue')
  BY <1>1, UserLinesTail
<1> HIDE DEF l
<1>3. CASE l = Note
  BY <1>1, <1>2, <1>3, NothingSeen
<1>4. CASE l # Note
  <2>1. Retained' = Retained
    BY <1>1 DEF Retained, ArchivedLines
  <2> QED
    BY <1>1, <1>2, <1>4, <2>1 DEF Durable!Drop
<1> QED
  BY <1>3, <1>4

\* A call hands one message to the queue.
LEMMA EnqueueAccepts ==
  ASSUME TypeOK, TypeOK', Enqueue
  PROVE  Durable!Accept
<1>1. /\ queue \in Seq(Ids \cup {Note}) /\ issued < MaxMsgs /\ issued' = issued + 1
      /\ queue' = Append(queue, issued + 1) /\ UNCHANGED <<current, archive>>
  BY DEF Enqueue, TypeOK, disk
<1>2. issued + 1 \in Ids /\ issued + 1 # Note
  BY <1>1, BoundsAssumption DEF TypeOK, Ids, Note
<1>3. UserLines(queue') = Append(UserLines(queue), issued + 1)
  BY <1>1, <1>2, UserLinesAppend
<1>4. Retained' = Retained
  BY <1>1 DEF Retained, ArchivedLines
<1> QED
  BY <1>1, <1>3, <1>4 DEF Durable!Accept

\* A process that dies loses what waits, and no more.
LEMMA CrashLosesPending ==
  ASSUME Crash
  PROVE  Durable!LosePending
<1>1. queue' = <<>> /\ UNCHANGED <<current, archive, issued>>
  BY DEF Crash, disk
<1>2. Retained' = Retained
  BY <1>1 DEF Retained, ArchivedLines
<1>3. UserLines(queue') = <<>>
  <2>1. <<>> \in Seq(Ids \cup {Note}) /\ Len(<<>>) = 0
    OBVIOUS
  <2>2. LinesOf(<<>>) \in Seq(Seq(Ids)) /\ LinesOf(<<>>) = <<>>
    BY <2>1, LinesOfType, EmptySeq
  <2>3. FlattenSeq(LinesOf(<<>>)) = <<>>
    BY <2>2, FlatType
  <2> QED
    BY <1>1, <2>3 DEF UserLines, LinesOf
<1> QED
  BY <1>1, <1>2, <1>3 DEF Durable!LosePending

\* A file that is moved goes from behind all archives to the last of them.
LEMMA MoveShowsNothing ==
  ASSUME TypeOK, TypeOK', NEW z \in Nat, Zones = {z}, LedgerInv, NamesInOrder, MoveFile
  PROVE  UNCHANGED Durable!vars
<1> DEFINE moved == [there |-> TRUE, lines |-> current.lines, stamp |-> 0]
<1>1. /\ dest \in Names /\ ~archive[dest].there /\ archive[dest].lines = <<>>
      /\ \A n \in Archives : n < dest
      /\ archive' = [archive EXCEPT ![dest] = moved] /\ current' = NoCurrent
      /\ UNCHANGED <<queue, issued>>
  BY DEF MoveFile, LedgerInv, NamesInOrder
<1>2. moved \in Files /\ archive \in [Names -> Files] /\ moved.lines = current.lines
  BY DEF TypeOK, Files
<1> HIDE DEF moved
<1>3. /\ archive' \in [Names -> Files] /\ archive'[dest].lines = current.lines
      /\ \A n \in Names \ {dest} : archive'[n].lines = archive[n].lines
  BY <1>1, <1>2
<1>4. \A n \in Names : n > dest => archive[n].lines = <<>>
  <2>1. \A n \in Names : n > dest => ~(n < dest)
    BY <1>1, NamesOfZone
  <2> QED
    BY <1>1, <2>1 DEF LedgerInv, Archives
<1>5. PICK before \in Seq(Ids), behind \in Seq(Ids) :
         /\ \A b \in [Names -> Files] :
               (\A n \in Names \ {dest} : b[n].lines = archive[n].lines)
                  => FlattenSeq(LinesByName(b)) = (before \o b[dest].lines) \o behind
         /\ (\A n \in Names : n > dest => archive[n].lines = <<>>) => behind = <<>>
  BY <1>1, <1>2, ArchiveInPlace
<1>6. /\ FlattenSeq(LinesByName(archive)) = (before \o <<>>) \o <<>>
      /\ FlattenSeq(LinesByName(archive')) = (before \o current.lines) \o <<>>
  BY <1>1, <1>2, <1>3, <1>4, <1>5
<1>7. current.lines \in Seq(Ids) /\ before \o current.lines \in Seq(Ids)
  BY ConcatProperties DEF TypeOK
<1>8. /\ FlattenSeq(LinesByName(archive)) = before
      /\ FlattenSeq(LinesByName(archive')) = before \o current.lines
  BY <1>6, <1>7, ConcatEmptySeq
<1>9. Retained = before \o current.lines
  BY <1>8, OnTheDisk
<1>10. Retained' = (before \o current.lines) \o <<>>
  BY <1>1, <1>8 DEF Retained, ArchivedLines, LinesByName, NoCurrent
<1> QED
  BY <1>1, <1>7, <1>9, <1>10, ConcatEmptySeq DEF Durable!vars

\* An archive that is removed takes a run out of the log.
LEMMA DeleteDiscards ==
  ASSUME TypeOK, TypeOK', NEW z \in Nat, Zones = {z}, DeleteArchive
  PROVE  [Durable!Discard]_Durable!vars
<1>1. PICK k \in victims :
         \/ archive' = [archive EXCEPT ![k] = NoArchive] /\ UNCHANGED queue
         \/ queue' = Notify(queue) /\ UNCHANGED archive
  BY DEF DeleteArchive
<1>2. /\ k \in Names /\ UNCHANGED <<current, issued>> /\ archive \in [Names -> Files]
      /\ queue \in Seq(Ids \cup {Note})
  BY DEF DeleteArchive, TypeOK, Files
<1>3. CASE queue' = Notify(queue) /\ UNCHANGED archive
  <2>1. UserLines(queue') = UserLines(queue)
    <3>1. Note \in Ids \cup {Note}
      OBVIOUS
    <3> QED
      BY <1>2, <1>3, <3>1, UserLinesAppend DEF Notify
  <2> QED
    BY <1>2, <1>3, <2>1, NothingSeen
<1>4. CASE archive' = [archive EXCEPT ![k] = NoArchive] /\ UNCHANGED queue
  <2>1. NoArchive \in Files /\ NoArchive.lines = <<>>
    BY DEF NoArchive, Files
  <2>2. /\ archive' \in [Names -> Files] /\ archive'[k].lines = <<>>
        /\ \A n \in Names \ {k} : archive'[n].lines = archive[n].lines
        /\ archive[k].lines \in Seq(Ids)
    <3>1. archive[k].lines \in Seq(Ids)
      BY <1>2 DEF Files
    <3> QED
      BY <1>2, <1>4, <2>1, <3>1
  <2> DEFINE x == archive[k].lines  c == current.lines
  <2>3. PICK before \in Seq(Ids), behind \in Seq(Ids) :
           \A b \in [Names -> Files] :
              (\A n \in Names \ {k} : b[n].lines = archive[n].lines)
                 => FlattenSeq(LinesByName(b)) = (before \o b[k].lines) \o behind
    BY <1>2, ArchiveInPlace
  <2>4. /\ FlattenSeq(LinesByName(archive)) = (before \o x) \o behind
        /\ FlattenSeq(LinesByName(archive')) = (before \o <<>>) \o behind
    BY <1>2, <2>2, <2>3
  <2>5. x \in Seq(Ids) /\ c \in Seq(Ids) /\ before \o x \in Seq(Ids) /\ behind \o c \in Seq(Ids)
    BY <2>2, ConcatProperties DEF TypeOK
  <2>6. Retained = ((before \o x) \o behind) \o c
    BY <2>4, OnTheDisk
  <2>7. Retained' = ((before \o <<>>) \o behind) \o c
    BY <1>2, <2>4 DEF Retained, ArchivedLines, LinesByName
  <2>8. before \o <<>> = before
    BY ConcatEmptySeq
  <2> HIDE DEF x, c
  <2>a. \A s \in Seq(Ids) : (s \o behind) \o c = s \o (behind \o c)
    BY <2>5, ConcatAssociative
  <2>b. PICK rest \in Seq(Ids) : rest = behind \o c
    BY <2>5, Zenon
  <2>9. Retained = (before \o x) \o rest
    BY <2>5, <2>6, <2>a, <2>b, Zenon
  <2>10. Retained' = before \o rest
    BY <2>7, <2>8, <2>a, <2>b, Zenon
  <2>11. CASE x = <<>>
    BY <1>2, <1>4, <2>2, <2>11, NothingSeen DEF x
  <2>12. CASE x # <<>>
    <3>1. x \in Seq(Ids)
      BY <2>5
    <3>2. Cut((before \o x) \o rest, before \o rest)
      BY <2>12, <3>1, MiddleCutOut
    <3>3. Cut(Retained, Retained')
      BY <2>9, <2>10, <3>2, Zenon
    <3>4. \E i, j \in 1 .. Len(Retained) :
             /\ i <= j
             /\ Retained' = SubSeq(Retained, 1, i - 1) \o SubSeq(Retained, j + 1, Len(Retained))
      BY <3>3, Zenon DEF Cut
    <3>5. UNCHANGED <<issued, UserLines(queue)>>
      BY <1>2, <1>4 DEF UserLines
    <3> QED
      BY <3>4, <3>5 DEF Durable!Discard
  <2> QED
    BY <2>11, <2>12
<1> QED
  BY <1>1, <1>3, <1>4

-----------------------------------------------------------------------------
(* Names in one zone. *)

\* At first there is no archive.
LEMMA InitNames == Init => NamesInOrder
<1> SUFFICES ASSUME Init PROVE NamesInOrder
  OBVIOUS
<1>1. Archives = {} /\ Tagged = {}
  BY DEF Init, Archives, Tagged, NoArchive
<1> QED
  BY <1>1 DEF Init, NamesInOrder, NoCurrent

\* A rotation moves a file to a name later than all others, and stamps it as the newest.
LEMMA NextNames ==
  ASSUME TypeOK, TypeOK', NEW z \in Nat, Zones = {z}, LedgerInv, NamesInOrder, [Next]_vars
  PROVE  NamesInOrder'
<1>0. /\ zone = z /\ zone' = z /\ now \in Nat /\ now' \in Nat
      /\ \A n \in Names : n \in Nat
      /\ current.born \in Nat /\ current'.born \in Nat
      /\ \A n \in Names : archive[n].stamp \in Nat /\ archive'[n].stamp \in Nat
      /\ Archives \subseteq Names /\ Tagged \subseteq Archives
  <2>1. MaxTime \in Nat /\ \A n \in Names : n \in Nat
    BY NamesOfZone
  <2>2. \A t \in Times : t \in Nat
    BY <2>1 DEF Times
  <2>3. zone = z /\ zone' = z /\ now \in Times /\ now' \in Times
    BY DEF TypeOK
  <2>4. current.born \in Times /\ current'.born \in Times
    BY DEF TypeOK
  <2>5. \A n \in Names : archive[n].stamp \in Nat /\ archive'[n].stamp \in Nat
    BY DEF TypeOK
  <2>6. Archives \subseteq Names /\ Tagged \subseteq Archives
    BY DEF Archives, Tagged
  <2> QED
    BY <2>1, <2>2, <2>3, <2>4, <2>5, <2>6
<1>a. UNCHANGED archive => Archives' = Archives /\ Tagged' = Tagged
  BY DEF Archives, Tagged
<1>1. CASE /\ UNCHANGED <<archive, current>> /\ now <= now'
           /\ pc' = "move" => pc = "move" /\ dest' = dest
           /\ pc' = "tag" => pc = "tag" /\ dest' = dest
  <2>1. Archives' = Archives /\ Tagged' = Tagged
    BY <1>1, <1>a
  <2>2. \A n \in Archives : n <= now' + zone'
    BY <1>0, <1>1 DEF NamesInOrder
  <2>3. current'.there => /\ current'.born <= now'
                          /\ \A n \in Archives : n <= current'.born + zone'
    BY <1>0, <1>1 DEF NamesInOrder
  <2>4. pc' = "move" => dest' <= now' + zone' /\ \A n \in Archives : n < dest'
    <3>1. dest \in Names \cup {0}
      BY DEF TypeOK
    <3> QED
      BY <1>0, <1>1, <3>1 DEF NamesInOrder
  <2> QED
    BY <1>1, <2>1, <2>2, <2>3, <2>4 DEF NamesInOrder
<1>2. CASE /\ UNCHANGED <<archive, now>> /\ pc' \notin {"move", "tag"}
           /\ current'.there => \/ current'.born = now
                                \/ current.there /\ current'.born = current.born
  <2>1. Archives' = Archives /\ Tagged' = Tagged
    BY <1>2, <1>a
  <2>2. current'.there => /\ current'.born <= now'
                          /\ \A n \in Archives : n <= current'.born + zone'
    BY <1>0, <1>2 DEF NamesInOrder
  <2> QED
    BY <1>0, <1>2, <2>1, <2>2 DEF NamesInOrder
<1>3. CASE StartRotation
  <2>1. /\ UNCHANGED <<archive, current, now>> /\ dest' = now + zone /\ pc' = "move"
        /\ now + zone \notin Archives
    BY <1>3 DEF StartRotation, disk, clock, Archives
  <2>2. \A n \in Archives : n < dest'
    BY <1>0, <2>1 DEF NamesInOrder
  <2> QED
    BY <1>0, <1>a, <2>1, <2>2 DEF NamesInOrder
<1>4. CASE MoveFile
  <2> DEFINE moved == [there |-> TRUE, lines |-> current.lines, stamp |-> 0]
  <2>1. /\ archive' = [archive EXCEPT ![dest] = moved] /\ moved.there /\ moved.stamp = 0
        /\ ~current'.there /\ pc' = "tag" /\ UNCHANGED <<now, dest>>
        /\ dest \in Names /\ ~archive[dest].there /\ dest <= now + zone
        /\ \A n \in Archives : n < dest
    BY <1>4 DEF MoveFile, NoCurrent, LedgerInv, NamesInOrder, clock
  <2> HIDE DEF moved
  <2>2. archive'[dest] = moved /\ \A n \in Names \ {dest} : archive'[n] = archive[n]
    BY <2>1 DEF TypeOK
  <2>3. Archives' = Archives \cup {dest} /\ Tagged' = Tagged /\ dest \notin Tagged
    BY <2>1, <2>2 DEF Archives, Tagged
  <2>4. \A n \in Tagged : archive'[n] = archive[n]
    BY <1>0, <2>2, <2>3
  <2>5. \A n \in Archives' : n <= now' + zone' /\ n <= dest'
    BY <1>0, <2>1, <2>3
  <2> QED
    BY <2>1, <2>3, <2>4, <2>5 DEF NamesInOrder
<1>5. CASE TagArchive
  <2>1. pc = "tag" /\ pc' = "reopen" /\ UNCHANGED <<current, now, dest>>
    BY <1>5 DEF TagArchive, clock
  <2>2. CASE UNCHANGED archive
    BY <1>2, <2>1, <2>2
  <2>3. CASE \E k \in Names :
               Latest(k) /\ archive' = [archive EXCEPT ![dest].stamp = archive[k].stamp + 1]
    <3>1. PICK k \in Names :
             Latest(k) /\ archive' = [archive EXCEPT ![dest].stamp = archive[k].stamp + 1]
      BY <2>3
    <3>2. dest \in Names /\ \A n \in Archives : n <= dest
      BY <2>1 DEF LedgerInv, NamesInOrder
    <3>3. /\ archive'[dest].stamp = archive[k].stamp + 1
          /\ archive'[dest].there = archive[dest].there
          /\ \A n \in Names \ {dest} : archive'[n] = archive[n]
      BY <3>1, <3>2 DEF TypeOK
    <3>4. Archives' = Archives /\ Tagged' \subseteq Tagged \cup {dest}
      BY <3>2, <3>3 DEF Archives, Tagged
    <3>5. ASSUME NEW m \in Tagged', NEW n \in Tagged', m < n
          PROVE  archive'[m].stamp < archive'[n].stamp
      <4>1. m \in Archives /\ n \in Archives /\ m # dest
        <5>1. m \in Archives /\ n \in Archives
          BY <3>4 DEF Tagged, Archives
        <5>2. n <= dest /\ m \in Nat /\ n \in Nat /\ dest \in Nat
          BY <1>0, <3>2, <5>1
        <5> QED
          BY <3>5, <5>1, <5>2
      <4>2. m \in Tagged /\ archive'[m] = archive[m] /\ m \in Names
        BY <1>0, <3>3, <3>4, <4>1
      <4>3. CASE n = dest
        <5>1. archive[m].stamp <= archive[k].stamp
          BY <3>1, <4>2 DEF Latest
        <5> QED
          BY <1>0, <3>3, <4>2, <4>3, <5>1
      <4>4. CASE n # dest
        <5>1. n \in Tagged /\ archive'[n] = archive[n]
          BY <1>0, <3>3, <3>4, <4>1, <4>4
        <5> QED
          BY <3>5, <4>2, <5>1 DEF NamesInOrder
      <4> QED
        BY <4>3, <4>4
    <3> QED
      BY <1>0, <2>1, <3>4, <3>5 DEF NamesInOrder
  <2> QED
    BY <1>5, <2>2, <2>3 DEF TagArchive
<1>6. CASE DeleteArchive
  <2>1. PICK k \in victims : \/ archive' = [archive EXCEPT ![k] = NoArchive]
                             \/ UNCHANGED archive
    BY <1>6 DEF DeleteArchive
  <2>2. pc' = "cleanup" /\ UNCHANGED <<current, now>> /\ k \in Names
    BY <1>6 DEF DeleteArchive, clock, TypeOK
  <2>3. \A n \in Archives' : n \in Archives /\ archive'[n] = archive[n]
    <3>1. ~NoArchive.there
      BY DEF NoArchive
    <3>2. \A n \in Names : archive'[n] = archive[n] \/ archive'[n] = NoArchive
      BY <2>1 DEF TypeOK
    <3> QED
      BY <3>1, <3>2 DEF Archives
  <2>4. \A n \in Tagged' : n \in Tagged /\ archive'[n] = archive[n]
    BY <2>3 DEF Tagged
  <2> QED
    BY <1>0, <2>2, <2>3, <2>4 DEF NamesInOrder
<1>7. CASE Reopen \/ Attach \/ WriteLine
  <2>1. UNCHANGED <<archive, now>> /\ pc' \notin {"move", "tag"}
    BY <1>7 DEF Reopen, Attach, WriteLine, EndRotation, Registered, clock
  <2>2. \/ current' \in {current} \cup Openings
        \/ current' = Written(current, Head(queue)) /\ Head(queue) \in Ids \cup {Note}
    BY <1>7, QueueType DEF Reopen, Attach, WriteLine, OpenSucceeds, OpenWithLines, OpenFails, Openings
  <2>3. /\ \A c \in Openings : c.born = IF current.there THEN current.born ELSE now
        /\ \A l \in Ids \cup {Note} : /\ Written(current, l).there = current.there
                                      /\ Written(current, l).born = current.born
    BY OpeningIs, WrittenIs, CurrentIsFile
  <2> QED
    BY <1>2, <2>1, <2>2, <2>3
<1>8. CASE Tick \/ Travel \/ Log \/ Fatal
  BY <1>0, <1>1, <1>8 DEF Tick, Travel, Log, Fatal, Enqueue, clock, disk, worker
<1>9. CASE DropLine \/ RefuseRotation \/ MoveFails \/ EndCleanup \/ Crash \/ Boot
  BY <1>0, <1>1, <1>9 DEF DropLine, RefuseRotation, EndRotation, MoveFails, EndCleanup, Registered,
                          Crash, Boot, clock, disk
<1>10. CASE UNCHANGED vars
  BY <1>0, <1>1, <1>10 DEF vars, clock, disk, worker
<1> QED
  BY <1>3, <1>4, <1>5, <1>6, <1>7, <1>8, <1>9, <1>10 DEF Next, Worker

-----------------------------------------------------------------------------
(* The refinement. *)

\* Nothing is on the disk or waits before the first launch.
LEMMA InitDurable ==
  ASSUME NEW z \in Nat, Zones = {z}
  PROVE  Init => Durable!Init
<1> SUFFICES ASSUME Init PROVE Durable!Init
  OBVIOUS
<1>1. TypeOK
  BY InitTypeOK
<1>2. /\ queue = <<>> /\ current.lines = <<>> /\ issued = 0
      /\ \A n \in Names : archive[n].lines = <<>>
  BY DEF Init, NoArchive, NoCurrent
<1>3. UserLines(queue) = <<>>
  <2>1. <<>> \in Seq(Ids \cup {Note}) /\ Len(<<>>) = 0
    OBVIOUS
  <2>2. LinesOf(<<>>) \in Seq(Seq(Ids)) /\ LinesOf(<<>>) = <<>>
    BY <2>1, LinesOfType, EmptySeq
  <2>3. FlattenSeq(LinesOf(<<>>)) = <<>>
    BY <2>2, FlatType
  <2> QED
    BY <1>2, <2>3 DEF UserLines, LinesOf
<1>4. FlattenSeq(LinesByName(archive)) = <<>>
  <2>1. archive \in [Names -> Files]
    BY <1>1, OnTheDisk
  <2>2. /\ LinesByName(archive) \in Seq(Seq(Ids))
        /\ \A i \in 1 .. Len(LinesByName(archive)) : LinesByName(archive)[i] = <<>>
    BY <1>2, <2>1, LinesByNameType
  <2> QED
    BY <2>2, FlatOfNothing
<1>5. Retained = <<>> \o <<>>
  BY <1>1, <1>2, <1>4, OnTheDisk
<1> QED
  BY <1>2, <1>3, <1>5 DEF Durable!Init

\* Every step of the files is one of the log, or shows nothing.
LEMMA NextDurable ==
  ASSUME TypeOK, TypeOK', NEW z \in Nat, Zones = {z}, LedgerInv, NamesInOrder, [Next]_vars
  PROVE  [Durable!Next]_Durable!vars
<1> USE DEF Durable!Next
<1>0. queue \in Seq(Ids \cup {Note}) /\ Note \in Ids \cup {Note}
  BY DEF TypeOK
<1>1. CASE /\ \A n \in Names : archive'[n].lines = archive[n].lines
           /\ current'.lines = current.lines /\ issued' = issued
           /\ queue' \in {queue, Append(queue, Note)}
  <2>1. UserLines(queue') = UserLines(queue)
    BY <1>0, <1>1, UserLinesAppend
  <2> QED
    BY <1>1, <2>1, NothingSeen
<1>2. CASE Log \/ Fatal
  BY <1>2, EnqueueAccepts DEF Log, Fatal
<1>3. CASE WriteLine
  BY <1>3, WriteLinePersists
<1>4. CASE DropLine
  BY <1>4, DropLineDrops
<1>5. CASE MoveFile
  BY <1>5, MoveShowsNothing
<1>6. CASE DeleteArchive
  BY <1>6, DeleteDiscards
<1>7. CASE Crash
  BY <1>7, CrashLosesPending
<1>8. CASE TagArchive
  <2>1. \A n \in Names : archive'[n].lines = archive[n].lines
    <3>1. \/ UNCHANGED archive
          \/ \E n \in Names : archive' = [archive EXCEPT ![dest].stamp = archive[n].stamp + 1]
      BY <1>8, Zenon DEF TagArchive
    <3>2. ASSUME NEW k PROVE \A n \in Names : [archive EXCEPT ![dest].stamp = k][n].lines = archive[n].lines
      BY DEF TypeOK
    <3>3. CASE UNCHANGED archive
      BY <3>3
    <3>4. CASE ~UNCHANGED archive
      <4>1. PICK n \in Names : archive' = [archive EXCEPT ![dest].stamp = archive[n].stamp + 1]
        BY <3>1, <3>4
      <4> DEFINE k == archive[n].stamp + 1
      <4>2. archive' = [archive EXCEPT ![dest].stamp = k]
        BY <4>1
      <4> HIDE DEF k
      <4> QED
        BY <3>2, <4>2
    <3> QED
      BY <3>3, <3>4
  <2>2. UNCHANGED <<current, issued>> /\ queue' \in {queue, Append(queue, Note)}
    BY <1>8 DEF TagArchive, Notify
  <2> QED
    BY <1>1, <2>1, <2>2
<1>9. CASE Reopen \/ Attach
  <2>1. current' \in {current} \cup Openings /\ UNCHANGED <<archive, issued>>
    BY <1>9 DEF Reopen, Attach, OpenSucceeds, OpenWithLines, OpenFails, Openings
  <2>2. \A c \in Openings : c.lines = current.lines
    BY OpeningIs DEF LedgerInv
  <2>3. queue' \in {queue, Append(queue, Note)}
    BY <1>9 DEF Reopen, Attach, Registered, Notify
  <2> QED
    BY <1>1, <2>1, <2>2, <2>3
<1>10. CASE Tick \/ Travel \/ StartRotation \/ RefuseRotation \/ MoveFails \/ EndCleanup \/ Boot
  <2>1. UNCHANGED <<archive, current, issued>>
    BY <1>10 DEF Tick, Travel, StartRotation, RefuseRotation, MoveFails, EndCleanup, Boot, disk
  <2>2. queue' \in {queue, Append(queue, Note)}
    BY <1>10 DEF Tick, Travel, StartRotation, RefuseRotation, MoveFails, EndCleanup, Registered, Boot
  <2> QED
    BY <1>1, <2>1, <2>2
<1>11. CASE UNCHANGED vars
  BY <1>1, <1>11 DEF vars, disk
<1> QED
  BY <1>2, <1>3, <1>4, <1>5, <1>6, <1>7, <1>8, <1>9, <1>10, <1>11 DEF Next, Worker

\* On a device that keeps its time zone the files together are one append-only log: whatever
\* the thresholds, the failing calls, the deaths and the launches are, a reader of the archives
\* in the order of their names and of the current file sees what DurableLog promises.
\* rotateFile, rotateFile(to:), openFile and write show no more than that.
THEOREM FilesAreOneLog ==
  ASSUME NEW z \in Nat, Zones = {z}
  PROVE  Spec => ImplementsDurableLog
<1> DEFINE Inv == TypeOK /\ HandleInv /\ LedgerInv /\ NamesInOrder
<1>1. Init => Inv /\ Durable!Init
  BY InitTypeOK, InitHandleInv, InitLedgerInv, InitNames, InitDurable
<1>2. Inv /\ [Next]_vars => Inv'
  BY NextTypeOK, NextHandleInv, NextLedgerInv, NextNames
<1>3. Inv /\ Inv' /\ [Next]_vars => [Durable!Next]_Durable!vars
  BY NextDurable
<1> HIDE DEF Inv
<1> QED
  BY <1>1, <1>2, <1>3, PTL DEF Spec, ImplementsDurableLog, Durable!Spec

\* So what is on the disk is in the order of the calls, followed by what waits: a file that
\* sorts later never holds an older message.
THEOREM DiskIsInOrder ==
  ASSUME NEW z \in Nat, Zones = {z}
  PROVE  Spec => []InOrder
<1>1. Durable!MaxMsgsAssumption
  BY BoundsAssumption DEF Durable!MaxMsgsAssumption
<1>2. Durable!Spec => []Durable!InOrder
  BY <1>1, Durable!LogStaysInOrder
<1>3. Spec => Durable!Spec
  BY FilesAreOneLog DEF ImplementsDurableLog
<1> QED
  BY <1>2, <1>3, PTL DEF InOrder

-----------------------------------------------------------------------------
(* A clean-up removes no more than the excess. *)

\* Of the archives that are no victims there are as many as are wanted, all newer than any
\* victim: those newer than the newest victim.
LEMMA EnoughStay ==
  ASSUME TypeOK, StampsDiffer, NEW v \in Victims
  PROVE  Cardinality({m \in Tagged \ Victims : archive[m].stamp > archive[v].stamp})
            >= TargetMaxLogFiles
<1> DEFINE Ranks == {Cardinality(Newer(n)) : n \in Victims}
           Stay == {m \in Tagged \ Victims : archive[m].stamp > archive[v].stamp}
<1>0. /\ Victims \subseteq Tagged /\ Tagged \subseteq Names
      /\ \A n \in Names : archive[n].stamp \in Nat
      /\ TargetMaxLogFiles \in Nat
      /\ \A n \in Tagged : Newer(n) \subseteq Tagged
  BY ThresholdsAssumption DEF Victims, Tagged, Archives, Newer, TypeOK
<1>1. \A n \in Tagged : Cardinality(Newer(n)) \in Nat
  BY <1>0, TaggedFinite
<1>2. PICK u \in Victims : \A n \in Victims : Cardinality(Newer(u)) <= Cardinality(Newer(n))
  <2>1. Ranks \in SUBSET Nat /\ Ranks # {}
    BY <1>0, <1>1
  <2>2. PICK r \in Ranks : \A k \in Ranks : r <= k
    <3> HIDE DEF Ranks
    <3> QED
      BY <2>1, Least
  <2> QED
    BY <2>2
<1>3. Cardinality(Newer(u)) >= TargetMaxLogFiles
  BY DEF Victims, Newer
<1>4. archive[v].stamp <= archive[u].stamp
  <2>1. SUFFICES ASSUME archive[v].stamp > archive[u].stamp PROVE FALSE
    BY <1>0
  <2>2. Cardinality(Newer(v)) < Cardinality(Newer(u))
    BY <1>0, <2>1, OlderHasMore
  <2> QED
    BY <1>0, <1>1, <1>2, <2>2
<1>5. Newer(u) \subseteq Stay
  <2> SUFFICES ASSUME NEW m \in Newer(u) PROVE m \in Stay
    OBVIOUS
  <2>1. m \in Tagged /\ archive[m].stamp > archive[u].stamp
    BY DEF Newer
  <2>2. Cardinality(Newer(m)) < Cardinality(Newer(u))
    BY <1>0, <2>1, OlderHasMore
  <2>3. m \notin Victims
    BY <1>0, <1>1, <1>2, <2>1, <2>2
  <2>4. archive[m].stamp > archive[v].stamp
    BY <1>0, <1>4, <2>1
  <2> QED
    BY <2>1, <2>3, <2>4
<1>6. IsFiniteSet(Stay) /\ Cardinality(Stay) \in Nat
  BY TaggedFinite
<1> HIDE DEF Stay
<1>7. Cardinality(Newer(u)) <= Cardinality(Stay)
  BY <1>5, <1>6, FS_Subset
<1>8. Cardinality(Stay) >= TargetMaxLogFiles
  BY <1>0, <1>1, <1>3, <1>6, <1>7
<1> QED
  BY <1>8 DEF Stay

\* Only the end of a rotation and a removal change what a clean-up under way has to do.
LEMMA CleanUpSteps ==
  ASSUME [Next]_vars
  PROVE  \/ UNCHANGED <<archive, pc, victims, faults>>
         \/ RefuseRotation \/ (Reopen /\ EndRotation)
         \/ DeleteArchive
         \/ pc' # "cleanup"
<1>1. CASE Tick \/ Travel \/ Log \/ Fatal
  BY <1>1 DEF Tick, Travel, Log, Fatal, Enqueue, disk, worker
<1>2. CASE WriteLine \/ DropLine
  BY <1>2 DEF WriteLine, DropLine
<1>3. CASE Reopen
  BY <1>3 DEF Reopen
<1>4. CASE StartRotation \/ MoveFile \/ MoveFails \/ TagArchive \/ EndCleanup \/ Attach
  BY <1>4 DEF StartRotation, MoveFile, MoveFails, TagArchive, EndCleanup, Attach, Registered
<1>5. CASE Crash \/ Boot
  BY <1>5 DEF Crash, Boot
<1>6. CASE UNCHANGED vars
  BY <1>6 DEF vars, disk, worker
<1> QED
  BY <1>1, <1>2, <1>3, <1>4, <1>5, <1>6 DEF Next, Worker

\* A removal takes a victim away or leaves one more archive; either way enough stay.
LEMMA NextExcess ==
  ASSUME TypeOK, TypeOK', StampsDiffer, StampsDiffer', ExcessInv, [Next]_vars
  PROVE  ExcessInv'
<1>1. CASE UNCHANGED <<archive, pc, victims, faults>>
  <2>1. Tagged' = Tagged
    BY <1>1 DEF Tagged, Archives
  <2> QED
    BY <1>1, <2>1 DEF ExcessInv
<1>2. CASE RefuseRotation \/ (Reopen /\ EndRotation)
  <2>1. UNCHANGED archive /\ victims' = Victims
    BY <1>2 DEF RefuseRotation, Reopen, EndRotation, disk
  <2>2. Tagged' = Tagged
    BY <2>1 DEF Tagged, Archives
  <2>3. \A v \in Victims :
           Cardinality({m \in Tagged \ Victims : archive[m].stamp > archive[v].stamp})
              >= TargetMaxLogFiles
    BY EnoughStay
  <2>4. Victims \subseteq Tagged
    BY DEF Victims
  <2> QED
    BY <2>1, <2>2, <2>3, <2>4, Zenon DEF ExcessInv
<1>3. CASE DeleteArchive
  <2>1. PICK k \in victims :
           /\ victims' = victims \ {k}
           /\ archive' = [archive EXCEPT ![k] = NoArchive] \/ UNCHANGED archive
    BY <1>3 DEF DeleteArchive
  <2>2. /\ pc = "cleanup" /\ k \in Names /\ victims \subseteq Names
        /\ \A v \in victims :
              /\ v \in Tagged
              /\ Cardinality({m \in Tagged \ victims : archive[m].stamp > archive[v].stamp})
                    >= TargetMaxLogFiles
    BY <1>3 DEF DeleteArchive, TypeOK, ExcessInv
  <2> SUFFICES ASSUME NEW v \in victims'
               PROVE  v \in Tagged' /\ Cardinality({m \in Tagged' \ victims' : archive'[m].stamp > archive'[v].stamp})
                         >= TargetMaxLogFiles
    BY DEF ExcessInv
  <2> DEFINE Stay == {m \in Tagged \ victims : archive[m].stamp > archive[v].stamp}
             Left == {m \in Tagged' \ victims' : archive'[m].stamp > archive'[v].stamp}
  <2>3. \A n \in Names \ {k} : archive'[n] = archive[n]
    BY <2>1, <2>2 DEF TypeOK
  <2>4. \A n \in Names \ {k} : n \in Tagged => n \in Tagged'
    BY <2>3 DEF Tagged, Archives
  <2>5. Stay \subseteq Left
    BY <2>1, <2>2, <2>3, <2>4 DEF Tagged, Archives
  <2>6. IsFiniteSet(Left) /\ Cardinality(Left) \in Nat
    <3>1. Left \subseteq Stamped' /\ IsFiniteSet(Stamped')
      BY DEF Stamped, Tagged, Archives, StampsDiffer
    <3> HIDE DEF Left
    <3> QED
      BY <3>1, FS_Subset, FS_CardinalityType
  <2>7. Cardinality(Stay) \in Nat /\ Cardinality(Stay) >= TargetMaxLogFiles
    <3>1. Cardinality(Stay) \in Nat
      BY TaggedFinite
    <3> QED
      BY <2>1, <2>2, <3>1
  <2> HIDE DEF Stay, Left
  <2>8. Cardinality(Stay) <= Cardinality(Left)
    BY <2>5, <2>6, FS_Subset
  <2>9. Cardinality(Left) >= TargetMaxLogFiles
    BY <2>6, <2>7, <2>8, ThresholdsAssumption
  <2>10. v \in Tagged'
    BY <2>1, <2>2, <2>4
  <2> QED
    BY <2>9, <2>10 DEF Left
<1>4. CASE pc' # "cleanup"
  BY <1>4 DEF ExcessInv
<1> QED
  BY <1>1, <1>2, <1>3, <1>4, CleanUpSteps

\* On a device that keeps its time zone no archive is removed unless targetMaxLogFiles whose
\* names sort later stay, even if the process dies half-way through cleanUpLogFiles or a
\* removal fails.
THEOREM CleanUpSpares ==
  ASSUME NEW z \in Nat, Zones = {z}
  PROVE  Spec => OnlyExcessRemoved
<1> DEFINE Inv == TypeOK /\ HandleInv /\ LedgerInv /\ StampsDiffer /\ ExcessInv /\ NamesInOrder
<1>1. Init => Inv
  BY InitTypeOK, InitHandleInv, InitLedgerInv, InitNames, InitTrim DEF TrimInv, ExcessInv, Init
<1>2. Inv /\ [Next]_vars => Inv'
  BY NextTypeOK, NextHandleInv, NextLedgerInv, NextNames, StampsStayDifferent, NextExcess
<1>3. Inv /\ Inv' /\ [Next]_vars
         => [\A n \in Tagged \ Tagged' : Cardinality({m \in Tagged' : m > n}) >= TargetMaxLogFiles]_vars
  <2> SUFFICES ASSUME Inv, Inv', [Next]_vars, NEW n \in Tagged \ Tagged'
               PROVE  Cardinality({m \in Tagged' : m > n}) >= TargetMaxLogFiles
    OBVIOUS
  <2>1. DeleteArchive
    <3>1. CASE UNCHANGED archive
      BY <3>1 DEF Tagged, Archives
    <3>2. CASE MoveFile
      <4>1. \A k \in Tagged : archive'[k] = archive[k]
        BY <3>2 DEF MoveFile, LedgerInv, Tagged, Archives, TypeOK
      <4> QED
        BY <4>1 DEF Tagged, Archives
    <3>3. CASE TagArchive
      <4>1. \A k \in Tagged : /\ archive'[k].there = archive[k].there
                              /\ archive'[k].stamp > 0
        <5>1. CASE UNCHANGED archive
          BY <5>1 DEF Tagged, Archives, TypeOK
        <5>2. CASE ~UNCHANGED archive
          <6>1. PICK l \in Names : archive' = [archive EXCEPT ![dest].stamp = archive[l].stamp + 1]
            BY <3>3, <5>2 DEF TagArchive
          <6> DEFINE s == archive[l].stamp + 1
          <6>2. s \in Nat /\ s > 0
            <7>1. archive[l].stamp \in Nat
              BY <6>1 DEF TypeOK
            <7> QED
              BY <7>1
          <6>3. archive' = [archive EXCEPT ![dest].stamp = s]
            BY <6>1
          <6> HIDE DEF s
          <6>4. \A k \in Names : archive'[k].there = archive[k].there
                                /\ archive'[k].stamp \in {s, archive[k].stamp}
            BY <6>3 DEF TypeOK
          <6> QED
            BY <6>2, <6>4 DEF Tagged, Archives
        <5> QED
          BY <5>1, <5>2
      <4> QED
        BY <4>1 DEF Tagged, Archives
    <3>4. UNCHANGED archive \/ MoveFile \/ TagArchive \/ DeleteArchive
      BY DEF Next, Worker, vars, Tick, Travel, Log, Fatal, Enqueue, WriteLine, DropLine,
             StartRotation, RefuseRotation, MoveFails, Reopen, EndCleanup, Attach, Crash, Boot, disk
    <3> QED
      BY <3>1, <3>2, <3>3, <3>4
  <2>2. PICK k \in victims : archive' = [archive EXCEPT ![k] = NoArchive] \/ UNCHANGED archive
    BY <2>1 DEF DeleteArchive
  <2>3. k = n /\ n \in victims /\ pc = "cleanup" /\ victims \subseteq Names
    <3>1. \A m \in Names \ {k} : archive'[m] = archive[m]
      BY <2>2 DEF TypeOK
    <3>2. n = k
      BY <3>1 DEF Tagged, Archives
    <3> QED
      BY <2>1, <3>2 DEF DeleteArchive, TypeOK
  <2> DEFINE Stay == {m \in Tagged \ victims : archive[m].stamp > archive[n].stamp}
             Later == {m \in Tagged' : m > n}
  <2>4. Stay \subseteq Later
    <3> SUFFICES ASSUME NEW m \in Stay PROVE m \in Later
      OBVIOUS
    <3>1. m # n /\ m \in Names /\ n \in Names /\ m \in Nat /\ n \in Nat
      BY <2>3, NamesOfZone DEF Tagged, Archives
    <3>2. m \in Tagged'
      BY <2>2, <2>3, <3>1 DEF Tagged, Archives, TypeOK
    <3>3. ~(m < n)
      <4>1. archive[m].stamp \in Nat /\ archive[n].stamp \in Nat
        BY <3>1 DEF TypeOK
      <4> QED
        BY <4>1 DEF NamesInOrder
    <3> QED
      BY <3>1, <3>2, <3>3
  <2>5. IsFiniteSet(Later) /\ Cardinality(Later) \in Nat
    <3>1. Later \subseteq Stamped' /\ IsFiniteSet(Stamped')
      BY DEF Stamped, Tagged, Archives, StampsDiffer
    <3> HIDE DEF Later
    <3> QED
      BY <3>1, FS_Subset, FS_CardinalityType
  <2>6. Cardinality(Stay) \in Nat /\ Cardinality(Stay) >= TargetMaxLogFiles
    <3>1. Cardinality(Stay) \in Nat
      BY TaggedFinite
    <3> QED
      BY <2>3, <3>1 DEF ExcessInv
  <2> HIDE DEF Stay, Later
  <2>7. Cardinality(Stay) <= Cardinality(Later)
    BY <2>4, <2>5, FS_Subset
  <2>8. Cardinality(Later) >= TargetMaxLogFiles
    BY <2>5, <2>6, <2>7, ThresholdsAssumption
  <2> QED
    BY <2>8 DEF Later
<1> HIDE DEF Inv
<1> QED
  BY <1>1, <1>2, <1>3, PTL DEF Spec, OnlyExcessRemoved

-----------------------------------------------------------------------------
(* The size of the current file. *)

\* The last archive is not among those a clean-up under way removes.
LEMMA LastArchiveStays ==
  ASSUME TypeOK, NamesInOrder, ExcessInv, TargetMaxLogFiles > 0, pc = "cleanup",
         NEW z \in Nat, Zones = {z},
         NEW n \in Archives, \A m \in Archives : m <= n
  PROVE  n \notin victims
<1> SUFFICES ASSUME n \in victims PROVE FALSE
  OBVIOUS
<1> DEFINE Ahead == {m \in Tagged \ victims : archive[m].stamp > archive[n].stamp}
<1>1. Cardinality(Ahead) >= TargetMaxLogFiles
  BY DEF ExcessInv
<1>2. n \in Tagged /\ Ahead # {}
  <2>1. Ahead # {}
    <3>1. Cardinality({}) = 0
      BY FS_EmptySet
    <3>2. ~(0 >= TargetMaxLogFiles)
      BY ThresholdsAssumption
    <3> QED
      BY <1>1, <3>1, <3>2, Zenon
  <2> QED
    BY <2>1 DEF ExcessInv
<1>3. PICK m \in Tagged : archive[m].stamp > archive[n].stamp
  BY <1>2
<1>4. m \in Nat /\ n \in Nat /\ m \in Archives
  BY NamesOfZone DEF Tagged, Archives
<1>5. archive[m].stamp \in Nat /\ archive[n].stamp \in Nat
  BY DEF TypeOK, Tagged, Archives
<1>6. m <= n /\ m # n
  BY <1>3, <1>4, <1>5
<1> QED
  BY <1>2, <1>3, <1>4, <1>5, <1>6 DEF NamesInOrder

\* Measured(c) for a file as MeasureInv says it of the current one.
Fits(c) == c.chars <= c.bytes /\ c.bytes <= MaxBytes

\* A line makes a file grow by its characters at most.
LEMMA WrittenFits ==
  ASSUME NEW c \in CurrentFiles, Fits(c), NEW l \in Ids \cup {Note}
  PROVE  Fits(Written(c, l)) /\ Written(c, l).chars <= c.chars + Chars(l)
<1>1. /\ Written(c, l).chars = Capped(c.chars + Chars(l))
      /\ Written(c, l).bytes = Capped(c.bytes + Chars(l) + ExtraBytes)
  BY WrittenIs
<1>2. PICK k \in Nat : k = Chars(l)
  BY CharsType
<1>3. c.chars \in Nat /\ c.bytes \in Nat
  BY DEF CurrentFiles
<1> QED
  BY <1>1, <1>2, <1>3, SizesAssumption DEF Fits, Capped

\* Opening the file adds no more characters than the opening lines have.
LEMMA OpeningFits ==
  ASSUME TypeOK, MeasureInv, NEW c \in Openings
  PROVE  Fits(c) /\ c.chars <= current.chars + NoteChars
<1>1. current \in CurrentFiles /\ NewFile \in CurrentFiles
  BY DEF TypeOK, CurrentFiles, NewFile
<1>2. PICK n \in Nat : n = current.chars
  BY <1>1 DEF CurrentFiles
<1> DEFINE Good(f) == f \in CurrentFiles /\ Fits(f) /\ f.chars = n
<1>3. Good(Created(current)) /\ Good(Opened(current))
  <2>1. CASE current.there
    <3>1. PICK x \in Nat : x = Capped(current.bytes + MarkBytes)
      <4>1. current.bytes + MarkBytes \in Nat
        BY <1>1, SizesAssumption DEF CurrentFiles
      <4> QED
        BY <4>1, CapKeepsOrder
    <3>2. Opened(current) = [current EXCEPT !.bytes = x] /\ Created(current) = current
      BY <1>1, <2>1, <3>1 DEF Opened, Created, Marked, CurrentFiles
    <3>3. current.chars <= x /\ x <= MaxBytes
      BY <1>1, <3>1, SizesAssumption DEF MeasureInv, CurrentFiles, Capped
    <3> QED
      BY <1>1, <1>2, <3>2, <3>3 DEF MeasureInv, Fits, CurrentFiles
  <2>2. CASE ~current.there
    <3>1. Opened(current) = NewFile /\ Created(current) = NewFile
      BY <2>2 DEF Opened, Created, Marked
    <3> QED
      BY <1>1, <1>2, <2>2, <3>1, SizesAssumption DEF MeasureInv, Fits, NewFile
  <2> QED
    BY <2>1, <2>2
<1>4. PICK o \in CurrentFiles : o = Opened(current) /\ Fits(o) /\ o.chars = n
  BY <1>3
<1>5. OpenedWithLines(current) = Written(o, Note) /\ Note \in Ids \cup {Note}
  BY <1>4 DEF OpenedWithLines
<1>6. Fits(Written(o, Note)) /\ Written(o, Note).chars <= n + NoteChars
  BY <1>4, <1>5, WrittenFits DEF Chars
<1> QED
  BY <1>2, <1>3, <1>5, <1>6, SizesAssumption DEF Openings

\* Every step keeps the measures of the current file.
LEMMA NextMeasure ==
  ASSUME TypeOK, HandleInv, MeasureInv, [Next]_vars
  PROVE  MeasureInv'
<1>1. CASE UNCHANGED current
  BY <1>1 DEF MeasureInv
<1>2. CASE current' \in Openings
  BY <1>2, OpeningIs, OpeningFits DEF MeasureInv, Fits
<1>3. CASE current' = NoCurrent
  BY <1>3, SizesAssumption DEF MeasureInv, NoCurrent
<1>4. CASE current' = Written(current, Head(queue)) /\ queue # <<>> /\ handle
  <2>1. PICK l \in Ids \cup {Note} : l = Head(queue)
    BY <1>4, QueueType
  <2>2. Fits(current) /\ current \in CurrentFiles
    BY CurrentIsFile DEF MeasureInv, Fits
  <2>3. Fits(Written(current, l)) /\ Written(current, l).there = current.there
    BY <2>2, WrittenFits, WrittenIs
  <2>4. current.there
    BY <1>4 DEF HandleInv
  <2> QED
    BY <1>4, <2>1, <2>3, <2>4 DEF MeasureInv, Fits
<1> QED
  BY <1>1, <1>2, <1>3, <1>4
  DEF Next, Worker, vars, disk, Tick, Travel, Log, Fatal, Enqueue, WriteLine, DropLine,
      StartRotation, RefuseRotation, MoveFile, MoveFails, TagArchive, Reopen, OpenSucceeds,
      OpenWithLines, OpenFails, Openings, DeleteArchive, EndCleanup, Attach, Crash, Boot

\* A file whose characters are counted is not too large, and one whose are not
\* was created in the second of the archive that stopped its rotation.
LEMMA NextSize ==
  ASSUME NEW z \in Nat, Zones = {z}, TargetMaxLogFiles > 0,
         TypeOK, TypeOK', HandleInv, LedgerInv, NamesInOrder, ExcessInv, SizeInv, [Next]_vars
  PROVE  SizeInv'
<1>m. MeasureInv /\ MeasureInv'
  BY NextMeasure DEF SizeInv
<1> SUFFICES ASSUME faults' = 0 PROVE SizeInv'
  BY <1>m DEF SizeInv
<1>1. faults = 0 /\ zone = z /\ zone' = z
  <2>1. faults \in Nat /\ (faults' = faults \/ faults' = faults + 1)
    <3>1. UNCHANGED faults \/ Fault
      BY DEF Next, Worker, vars, Tick, Travel, Log, Fatal, Enqueue, WriteLine, DropLine,
             StartRotation, RefuseRotation, MoveFile, MoveFails, TagArchive, Reopen, OpenSucceeds,
             OpenWithLines, OpenFails, EndRotation, DeleteArchive, EndCleanup, Attach, Crash, Boot
    <3> QED
      BY <3>1, BoundsAssumption DEF TypeOK, Fault
  <2> QED
    BY <2>1 DEF TypeOK
<1> DEFINE Small(c, sz) == c.chars <= sz + NoteChars
           Excused == current.there /\ current.born + zone \in Archives
<1>0. /\ pc \in {"tag", "reopen"} => ~current.there
      /\ pc \in {"attach", "idle", "cleanup"} =>
              size < MaxFileSize /\ (Small(current, size) \/ Excused)
  BY <1>1 DEF SizeInv
<1>2. size \in Nat /\ MaxFileSize \in Nat \ {0} /\ current \in CurrentFiles
      /\ now \in Nat /\ current.chars \in Nat /\ current.bytes \in Nat /\ current.born \in Nat
      /\ NoteChars \in Nat
  BY ThresholdsAssumption, BoundsAssumption, SizesAssumption DEF TypeOK, Times, CurrentFiles
<1>3. ~current.there => current.chars = 0
  BY <1>m DEF MeasureInv
<1>4. CASE UNCHANGED <<current, archive, size>> /\ (UNCHANGED pc \/ pc' \in {"down", "rotate", "move"})
  BY <1>0, <1>1, <1>4, <1>m DEF SizeInv, Archives
<1>5. CASE WriteLine \/ DropLine
  <2> DEFINE line == Head(queue)
  <2>1. /\ pc = "idle" /\ UNCHANGED archive
        /\ current' \in {current, Written(current, line)}
        /\ size' = size + Chars(line)
        /\ pc' = IF RotationDue(size', start) THEN "rotate" ELSE "idle"
        /\ UNCHANGED current \/ current' = Written(current, line)
    BY <1>5 DEF WriteLine, DropLine, disk
  <2>3. Chars(line) \in Nat /\ size' \in Nat /\ current'.chars \in Nat
    BY CharsType DEF TypeOK
  <2>2. current'.chars <= current.chars + Chars(line)
        /\ current'.there = current.there /\ current'.born = current.born
    <3>1. line \in Ids \cup {Note} /\ Fits(current)
      BY <1>5, <1>m, QueueType DEF WriteLine, DropLine, MeasureInv, Fits
    <3>2. Written(current, line).chars <= current.chars + Chars(line)
      BY <1>2, <3>1, WrittenFits
    <3>3. Written(current, line).there = current.there /\ Written(current, line).born = current.born
      BY <1>2, <3>1, WrittenIs
    <3> HIDE DEF line
    <3> QED
      BY <1>2, <2>1, <2>3, <3>2, <3>3
  <2>4. pc' = "idle" => size' < MaxFileSize
    BY <1>2, <2>1, <2>3 DEF RotationDue
  <2>5. Small(current, size) => Small(current', size')
    BY <1>2, <2>1, <2>2, <2>3
  <2>6. Excused => Excused'
    BY <1>1, <2>1, <2>2 DEF Archives
  <2> QED
    BY <1>0, <1>1, <1>m, <2>1, <2>4, <2>5, <2>6 DEF SizeInv
<1>6. CASE RefuseRotation
  <2>1. pc' = "cleanup" /\ size' = 0 /\ UNCHANGED <<current, archive>> /\ now + zone \in Archives
    BY <1>1, <1>6 DEF RefuseRotation, EndRotation, disk, Archives, Names, TypeOK
  <2>2. current.there => current.born = now
    BY <1>1, <1>2, <2>1 DEF NamesInOrder
  <2> QED
    BY <1>1, <1>2, <1>3, <1>m, <2>1, <2>2 DEF SizeInv, Archives
<1>7. CASE MoveFile \/ MoveFails \/ TagArchive
  <2>1. pc' \in {"tag", "reopen"} /\ ~current'.there
    BY <1>0, <1>1, <1>7 DEF MoveFile, MoveFails, TagArchive, NoCurrent, disk, Fault
  <2> QED
    BY <1>m, <2>1 DEF SizeInv
<1>8. CASE Reopen
  <2>1. current'.chars <= NoteChars
    <3>1. current' \in {current} \cup Openings
      BY <1>8 DEF Reopen, OpenSucceeds, OpenWithLines, OpenFails, Openings
    <3>2. current.chars = 0
      BY <1>0, <1>3, <1>8 DEF Reopen
    <3> QED
      BY <1>2, <1>m, <3>1, <3>2, OpeningFits
  <2>2. pc' = "rotate" \/ (pc' = "cleanup" /\ size' = 0)
    BY <1>8 DEF Reopen, EndRotation
  <2> QED
    BY <1>2, <1>m, <2>1, <2>2 DEF SizeInv
<1>9. CASE DeleteArchive
  <2>1. /\ pc = "cleanup" /\ UNCHANGED <<pc, current, size>>
    BY <1>9 DEF DeleteArchive
  <2>2. PICK n \in victims : archive' = [archive EXCEPT ![n] = NoArchive] \/ UNCHANGED archive
    BY <1>9 DEF DeleteArchive
  <2>3. Excused => Excused'
    <3> SUFFICES ASSUME Excused PROVE Excused'
      OBVIOUS
    <3> DEFINE last == current.born + zone
    <3>1. last \in Archives /\ \A m \in Archives : m <= last
      BY DEF NamesInOrder
    <3>2. last \notin victims
      <4> HIDE DEF last
      <4> QED
        BY <2>1, <3>1, LastArchiveStays
    <3>3. archive'[last] = archive[last]
      BY <2>2, <3>1, <3>2 DEF TypeOK, Archives
    <3> QED
      BY <1>1, <2>1, <3>1, <3>3 DEF Archives
  <2> QED
    BY <1>0, <1>1, <1>m, <2>1, <2>3 DEF SizeInv
<1>10. CASE EndCleanup
  BY <1>0, <1>1, <1>m, <1>10 DEF EndCleanup, Registered, SizeInv, disk, Archives
<1>11. CASE Attach
  <2>1. pc = "attach" /\ UNCHANGED archive /\ size' = size + NoteChars
        /\ current' = OpenedWithLines(current)
    BY <1>1, <1>11 DEF Attach, OpenWithLines, OpenFails, Fault
  <2>2. pc' = "rotate" \/ (pc' = "idle" /\ size' < MaxFileSize)
    BY <1>1, <1>2, <1>11, <2>1 DEF Attach, Registered, RotationDue, OpenFails, Fault
  <2>3. current' \in Openings
    BY <2>1 DEF Openings
  <2>4. Excused => Excused'
    BY <1>1, <2>1, <2>3, OpeningIs DEF Archives
  <2>5. current'.chars <= current.chars + NoteChars /\ current'.chars \in Nat
    BY <1>m, <2>3, OpeningFits, OpeningIs DEF CurrentFiles
  <2>6. Small(current, size) => Small(current', size')
    BY <1>2, <2>1, <2>5
  <2> QED
    BY <1>0, <1>m, <2>1, <2>2, <2>4, <2>6 DEF SizeInv
<1>12. CASE Boot
  <2>1. UNCHANGED current /\ size' = current.bytes
        /\ pc' = IF RotationDue(size', start') THEN "rotate" ELSE "attach"
    BY <1>12 DEF Boot, disk
  <2> QED
    BY <1>2, <1>m, <2>1 DEF SizeInv, RotationDue, MeasureInv
<1>13. \/ UNCHANGED <<current, archive, size>> /\ (UNCHANGED pc \/ pc' \in {"down", "rotate", "move"})
       \/ Crash
       \/ WriteLine \/ DropLine \/ RefuseRotation \/ MoveFile \/ MoveFails
       \/ TagArchive \/ Reopen \/ DeleteArchive \/ EndCleanup \/ Attach \/ Boot
  BY DEF Next, Worker, vars, disk, worker, Tick, Travel, Log, Fatal, Enqueue, StartRotation
<1>14. CASE Crash
  BY <1>14, <1>m DEF Crash, SizeInv
<1> QED
  BY <1>4, <1>5, <1>6, <1>7, <1>8, <1>9, <1>10, <1>11, <1>12, <1>13, <1>14

\* On a device that keeps its time zone, and as long as no file-system call
\* fails, the characters of the lines in the current file are below
\* targetMaxFileSize and the opening lines whenever the worker is idle, over
\* any sequence of rotations, deaths and launches; the one exception is a file
\* created in the second of the archive that stopped its rotation.  With
\* targetMaxLogFiles = 0 that archive could itself be removed.
THEOREM FileStaysSmall ==
  ASSUME NEW z \in Nat, Zones = {z}, TargetMaxLogFiles > 0
  PROVE  Spec => []FileSizeBounded
<1> DEFINE Inv == /\ TypeOK /\ HandleInv /\ LedgerInv /\ StampsDiffer /\ ExcessInv
                  /\ NamesInOrder /\ SizeInv
<1>1. Init => Inv
  BY InitTypeOK, InitHandleInv, InitLedgerInv, InitNames, InitTrim, SizesAssumption
  DEF TrimInv, ExcessInv, SizeInv, MeasureInv, NoCurrent, Init
<1>2. Inv /\ [Next]_vars => Inv'
  BY NextTypeOK, NextHandleInv, NextLedgerInv, NextNames, StampsStayDifferent, NextExcess, NextSize
<1>3. Inv => FileSizeBounded
  <2> SUFFICES ASSUME Inv, faults = 0, pc = "idle", current.chars >= MaxFileSize + NoteChars
               PROVE  \E d \in Zones : archive[current.born + d].there
    BY DEF FileSizeBounded
  <2>1. /\ size \in Nat /\ MaxFileSize \in Nat /\ current.chars \in Nat /\ zone \in Zones
        /\ NoteChars \in Nat
    BY ThresholdsAssumption, SizesAssumption DEF TypeOK
  <2>2. current.born + zone \in Archives
    BY <2>1 DEF SizeInv
  <2> QED
    BY <2>1, <2>2 DEF Archives
<1> QED
  BY <1>1, <1>2, <1>3, PTL DEF Spec
=============================================================================
