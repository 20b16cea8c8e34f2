---------------------------- MODULE CrashFacts_proofs --------------------------
(***************************************************************************)
(* What is proved of the parts that a report takes its facts from: of      *)
(* Rebinding, that a call through any pointer reaches the function, and of *)
(* what a report says of a crash: that the two names it has are of one     *)
(* crash (CrashCodes), that an object that is gone is called by its own    *)
(* class (Zombies), and that the log is what was logged (ConsoleLog).      *)
(***************************************************************************)
EXTENDS MCCrashTools, FiniteSetTheorems, SequenceTheorems, WellFoundedInduction, TLAPS

-----------------------------------------------------------------------------
(* Rebinding: which tool may lead to which. *)

OtherTool(t) == IF t = "sentry" THEN "other" ELSE "sentry"
LoadedOnes   == {rebind_loaded[k] : k \in 1 .. Len(rebind_loaded)}
\* What a tool has saved is set.
Saved(p)     == {t \in Rebind!Tools : p.replaced[t] # "unset"}

PointersTyped(p) ==
    /\ p = [bindings |-> p.bindings, replaced |-> p.replaced, failures |-> p.failures]
    /\ p.bindings = [i \in HookedImages |-> p.bindings[i]]
    /\ \A i \in HookedImages : p.bindings[i] \in [SlotsOf[i] -> Rebind!Pointers]
    /\ p.replaced \in [Rebind!Tools -> Rebind!Pointers] /\ p.failures \in Nat

\* The images of L are loaded; their pointers lead to the function, to a helper or to a tool that
\* has saved something; so does what the tools have saved, that of f to no other tool.
Straight(p, f, L) ==
    /\ \A i \in L : \A s \in SlotsOf[i] : p.bindings[i][s] \in {"function"} \cup L \cup Saved(p)
    /\ \A i \in HookedImages \ L : \A s \in SlotsOf[i] : p.bindings[i][s] = "unset"
    /\ \A t \in Rebind!Tools : p.replaced[t] \in {"unset", "function"} \cup L \cup Saved(p)
    /\ p.replaced[f] \notin Rebind!Tools /\ p.replaced[OtherTool(f)] # OtherTool(f)

\* While tool t rebinds image i: if it is the one that was first, it does not meet the other.
OnTheWay(p, t, i, f, L, x) ==
    /\ PointersTyped(p)
    /\ ~rebind_again =>
         /\ Straight(p, f, L)
         /\ t = f => /\ p.replaced[OtherTool(f)] = x
                     /\ \A s \in SlotsOf[i] : p.bindings[i][s] # OtherTool(f)

\* The two tools.
LEMMA TwoTools ==
  ASSUME NEW t \in Rebind!Tools
  PROVE  OtherTool(t) \in Rebind!Tools /\ OtherTool(t) # t /\ \A u \in Rebind!Tools : u = t \/ u = OtherTool(t)
BY DEF OtherTool, Rebind!Tools

\* The names of images, of tools and of the function are different.
LEMMA NamesDiffer ==
  /\ "unset" \notin HookedImages \cup Rebind!Tools \cup {"function"}
  /\ "function" \notin HookedImages \cup Rebind!Tools
  /\ HookedImages \cap Rebind!Tools = {}
  /\ Rebind!Pointers = {"unset", "function"} \cup Rebind!Tools \cup HookedImages
BY ToolsAssumption DEF Rebind!Tools, Rebind!Pointers, Rebind!Unset, Rebind!Helpers

\* What a pointer is replaced by.
LEMMA ReboundIs ==
  ASSUME NEW p, PointersTyped(p), NEW t \in Rebind!Tools, NEW i \in HookedImages, NEW s \in SlotsOf[i],
         NEW fails \in BOOLEAN, NEW q, q = Rebind!Rebound(p, t, i, s, fails)
  PROVE  /\ PointersTyped(q)
         /\ q.replaced[t] = IF p.bindings[i][s] # t THEN p.bindings[i][s] ELSE p.replaced[t]
         /\ \A u \in Rebind!Tools : u # t => q.replaced[u] = p.replaced[u]
         /\ q.bindings[i][s] = IF fails THEN p.bindings[i][s] ELSE t
         /\ \A r \in SlotsOf[i] : r # s => q.bindings[i][r] = p.bindings[i][r]
         /\ \A j \in HookedImages : j # i => q.bindings[j] = p.bindings[j]
<1> DEFINE x == IF p.bindings[i][s] # t THEN p.bindings[i][s] ELSE p.replaced[t]
           y == IF fails THEN p.bindings[i][s] ELSE t
           n == p.failures + (IF fails THEN 1 ELSE 0)
<1>1. PICK b, r, k : p = [bindings |-> b, replaced |-> r, failures |-> k]
  BY DEF PointersTyped
<1>2. p.bindings = b /\ p.replaced = r /\ p.failures = k
  BY <1>1
<1>3. q = [bindings |-> [b EXCEPT ![i][s] = y], replaced |-> [r EXCEPT ![t] = x], failures |-> n]
  BY <1>1 DEF Rebind!Rebound
<1>4. q.bindings = [b EXCEPT ![i][s] = y] /\ q.replaced = [r EXCEPT ![t] = x] /\ q.failures = n
      /\ q = [bindings |-> q.bindings, replaced |-> q.replaced, failures |-> q.failures]
  BY <1>3
<1>5. /\ b = [j \in HookedImages |-> b[j]] /\ (\A j \in HookedImages : b[j] \in [SlotsOf[j] -> Rebind!Pointers])
      /\ r \in [Rebind!Tools -> Rebind!Pointers] /\ k \in Nat
  BY <1>2 DEF PointersTyped
<1>6. x \in Rebind!Pointers /\ y \in Rebind!Pointers /\ n \in Nat
  <2>1. t \in Rebind!Pointers
    BY DEF Rebind!Pointers
  <2>2. b[i][s] \in Rebind!Pointers /\ r[t] \in Rebind!Pointers
    BY <1>5
  <2> QED
    BY <1>2, <1>5, <2>1, <2>2
<1> HIDE DEF x, y, n
<1>7. /\ q.replaced \in [Rebind!Tools -> Rebind!Pointers] /\ q.replaced[t] = x
      /\ \A u \in Rebind!Tools : u # t => q.replaced[u] = r[u]
  BY <1>4, <1>5, <1>6
<1>8. /\ q.bindings = [j \in HookedImages |-> q.bindings[j]] /\ q.bindings[i] = [b[i] EXCEPT ![s] = y]
      /\ \A j \in HookedImages : j # i => q.bindings[j] = b[j]
  BY <1>4, <1>5
<1>9. /\ q.bindings[i] \in [SlotsOf[i] -> Rebind!Pointers] /\ q.bindings[i][s] = y
      /\ \A v \in SlotsOf[i] : v # s => q.bindings[i][v] = b[i][v]
  BY <1>5, <1>6, <1>8
<1>10. PointersTyped(q)
  <2>1. \A j \in HookedImages : q.bindings[j] \in [SlotsOf[j] -> Rebind!Pointers]
    BY <1>5, <1>8, <1>9
  <2>2. q.failures \in Nat
    BY <1>4, <1>6
  <2> QED
    BY <1>4, <1>7, <1>8, <2>1, <2>2 DEF PointersTyped
<1> QED
  BY <1>2, <1>7, <1>8, <1>9, <1>10 DEF x, y

\* One pointer is rebound.
LEMMA OneRebound ==
  ASSUME NEW p, NEW t \in Rebind!Tools, NEW f \in Rebind!Tools, NEW L \in SUBSET HookedImages, NEW i \in L,
         NEW s \in SlotsOf[i], NEW fails \in BOOLEAN, NEW x, OnTheWay(p, t, i, f, L, x)
  PROVE  OnTheWay(Rebind!Rebound(p, t, i, s, fails), t, i, f, L, x)
<1>0. PICK q : q = Rebind!Rebound(p, t, i, s, fails)
  OBVIOUS
<1>1. PointersTyped(p) /\ i \in HookedImages
  BY DEF OnTheWay
<1>2. /\ PointersTyped(q)
      /\ q.replaced[t] = IF p.bindings[i][s] # t THEN p.bindings[i][s] ELSE p.replaced[t]
      /\ \A u \in Rebind!Tools : u # t => q.replaced[u] = p.replaced[u]
      /\ q.bindings[i][s] = IF fails THEN p.bindings[i][s] ELSE t
      /\ \A r \in SlotsOf[i] : r # s => q.bindings[i][r] = p.bindings[i][r]
      /\ \A j \in HookedImages : j # i => q.bindings[j] = p.bindings[j]
  BY <1>0, <1>1, ReboundIs
<1>3. ASSUME ~rebind_again
      PROVE  /\ Straight(q, f, L)
             /\ t = f => /\ q.replaced[OtherTool(f)] = x
                         /\ \A r \in SlotsOf[i] : q.bindings[i][r] # OtherTool(f)
  <2>1. Straight(p, f, L) /\ (t = f => /\ p.replaced[OtherTool(f)] = x
                                       /\ \A r \in SlotsOf[i] : p.bindings[i][r] # OtherTool(f))
    BY <1>3 DEF OnTheWay
  <2>2. /\ \A j \in L : \A r \in SlotsOf[j] : p.bindings[j][r] \in {"function"} \cup L \cup Saved(p)
        /\ \A j \in HookedImages \ L : \A r \in SlotsOf[j] : p.bindings[j][r] = "unset"
        /\ \A u \in Rebind!Tools : p.replaced[u] \in {"unset", "function"} \cup L \cup Saved(p)
        /\ p.replaced[f] \notin Rebind!Tools /\ p.replaced[OtherTool(f)] # OtherTool(f)
    BY <2>1 DEF Straight
  <2>3. PICK y : y = p.bindings[i][s]
    OBVIOUS
  <2>4. y \in {"function"} \cup L \cup Saved(p)
    BY <2>2, <2>3
  <2>5. q.replaced[t] = (IF y # t THEN y ELSE p.replaced[t]) /\ q.bindings[i][s] = (IF fails THEN y ELSE t)
    BY <1>2, <2>3
  <2>6. t \in Saved(q) /\ Saved(p) \subseteq Saved(q)
    <3>1. y # "unset" /\ (y = t => t \in Saved(p))
      BY <2>4, NamesDiffer DEF Saved
    <3>2. q.replaced[t] # "unset"
      BY <2>5, <3>1 DEF Saved
    <3> QED
      BY <1>2, <3>2 DEF Saved
  <2>7. \A j \in L : \A r \in SlotsOf[j] : q.bindings[j][r] \in {"function"} \cup L \cup Saved(q)
    <3> SUFFICES ASSUME NEW j \in L, NEW r \in SlotsOf[j] PROVE q.bindings[j][r] \in {"function"} \cup L \cup Saved(q)
      OBVIOUS
    <3>1. CASE j = i /\ r = s
      BY <2>4, <2>5, <2>6, <3>1
    <3>2. CASE ~(j = i /\ r = s)
      <4>1. q.bindings[j][r] = p.bindings[j][r]
        BY <1>2, <3>2
      <4> QED
        BY <2>2, <2>6, <4>1
    <3> QED
      BY <3>1, <3>2
  <2>8. \A j \in HookedImages \ L : \A r \in SlotsOf[j] : q.bindings[j][r] = "unset"
    BY <1>2, <2>2
  <2>9. \A u \in Rebind!Tools : q.replaced[u] \in {"unset", "function"} \cup L \cup Saved(q)
    BY <1>2, <2>2, <2>4, <2>5, <2>6
  <2>10. q.replaced[f] \notin Rebind!Tools /\ q.replaced[OtherTool(f)] # OtherTool(f)
    <3>1. CASE t = f
      <4>1. y # OtherTool(f)
        BY <2>1, <2>3, <3>1
      <4>2. y \notin Rebind!Tools \/ y = t
        BY <3>1, <4>1, TwoTools
      <4>3. q.replaced[OtherTool(f)] = p.replaced[OtherTool(f)]
        BY <1>2, <3>1, TwoTools
      <4> QED
        BY <2>2, <2>5, <3>1, <4>2, <4>3
    <3>2. CASE t = OtherTool(f)
      <4>1. q.replaced[f] = p.replaced[f]
        BY <1>2, <3>2, TwoTools
      <4> QED
        BY <2>2, <2>5, <3>2, <4>1
    <3> QED
      BY <3>1, <3>2, TwoTools
  <2>11. Straight(q, f, L)
    BY <2>7, <2>8, <2>9, <2>10 DEF Straight
  <2>12. ASSUME t = f
         PROVE  q.replaced[OtherTool(f)] = x /\ \A r \in SlotsOf[i] : q.bindings[i][r] # OtherTool(f)
    <3>1. OtherTool(f) \in Rebind!Tools /\ OtherTool(f) # t
      BY <2>12, TwoTools
    <3>2. q.replaced[OtherTool(f)] = x
      BY <1>2, <2>1, <2>12, <3>1
    <3>3. \A r \in SlotsOf[i] : q.bindings[i][r] \in {p.bindings[i][r], t}
      BY <1>2
    <3> QED
      BY <2>1, <2>12, <3>1, <3>2, <3>3
  <2> QED
    BY <2>11, <2>12
<1> QED
  BY <1>0, <1>2, <1>3 DEF OnTheWay

\* There are two pointers at most.
LEMMA OrderOfTwo ==
  ASSUME NEW i \in HookedImages, NEW o \in Rebind!Orders(i)
  PROVE  Len(o) \in 0 .. 2 /\ \A j \in 1 .. Len(o) : o[j] \in SlotsOf[i]
<1> DEFINE n == Cardinality(SlotsOf[i])
<1>1. Cardinality({"lazy", "bound"}) <= 2 /\ IsFiniteSet({"lazy", "bound"})
  <2>1. IsFiniteSet({"lazy"}) /\ Cardinality({"lazy"}) = 1
    BY FS_Singleton
  <2>2. {"lazy"} \cup {"bound"} = {"lazy", "bound"} /\ "bound" \notin {"lazy"}
    OBVIOUS
  <2>3. IsFiniteSet({"lazy", "bound"}) /\ Cardinality({"lazy", "bound"}) = Cardinality({"lazy"}) + 1
    BY <2>1, <2>2, FS_AddElement
  <2> QED
    BY <2>1, <2>3
<1>2. IsFiniteSet(SlotsOf[i]) /\ n \in Nat /\ n <= 2
  <2>1. SlotsOf[i] \subseteq {"lazy", "bound"}
    BY ToolsAssumption
  <2>2. IsFiniteSet(SlotsOf[i]) /\ n <= Cardinality({"lazy", "bound"})
    BY <1>1, <2>1, FS_Subset
  <2>3. n \in Nat /\ Cardinality({"lazy", "bound"}) \in Nat
    BY <1>1, <2>2, FS_CardinalityType
  <2> QED
    BY <1>1, <2>2, <2>3
<1>3. o \in [1 .. n -> SlotsOf[i]]
  <2>1. Rebind!Cardinality(SlotsOf[i]) = Cardinality(SlotsOf[i])
    BY Zenon DEF Rebind!Cardinality, Cardinality
  <2> QED
    BY <2>1 DEF Rebind!Orders
<1> HIDE DEF n
<1>4. Len(o) = n
  BY <1>2, <1>3
<1> QED
  BY <1>2, <1>3, <1>4

\* All pointers of an image are rebound.
LEMMA ImageRebound ==
  ASSUME NEW p, NEW t \in Rebind!Tools, NEW f \in Rebind!Tools, NEW L \in SUBSET HookedImages, NEW i \in L,
         NEW o \in Rebind!Orders(i), NEW failing, NEW x, OnTheWay(p, t, i, f, L, x)
  PROVE  OnTheWay(Rebind!OfImage(p, t, i, o, failing), t, i, f, L, x)
<1> DEFINE n == Len(o)
           Next(r, j) == Rebind!Rebound(r, t, i, o[j], o[j] \in failing)
           a == Next(p, 1)
           b == Next(a, 2)
           Def(h) == h = [j \in 0 .. n |-> IF j = 0 THEN p ELSE Next(h[j - 1], j)]
           h == CHOOSE h : Def(h)
           g == [j \in 0 .. n |-> IF j = 0 THEN p ELSE IF j = 1 THEN a ELSE b]
<1>1. n \in 0 .. 2 /\ \A j \in 1 .. n : o[j] \in SlotsOf[i]
  BY OrderOfTwo
<1>2. Rebind!OfImage(p, t, i, o, failing) = h[n]
  BY Zenon DEF Rebind!OfImage
<1>3. ASSUME NEW r, OnTheWay(r, t, i, f, L, x), NEW j \in 1 .. n PROVE OnTheWay(Next(r, j), t, i, f, L, x)
  <2>1. o[j] \in SlotsOf[i] /\ (o[j] \in failing) \in BOOLEAN
    BY <1>1
  <2> QED
    BY <1>3, <2>1, OneRebound
<1> HIDE DEF n, Next
<1>4. Def(g)
  <2>1. ASSUME NEW j \in 0 .. n PROVE g[j] = IF j = 0 THEN p ELSE Next(g[j - 1], j)
    <3>1. CASE j = 0
      BY <3>1
    <3>2. CASE j = 1
      <4>1. j - 1 \in 0 .. n /\ j - 1 = 0
        BY <1>1, <3>2
      <4> QED
        BY <3>2, <4>1
    <3>3. CASE j = 2
      <4>1. j - 1 \in 0 .. n /\ j - 1 = 1
        BY <1>1, <3>3
      <4> QED
        BY <3>3, <4>1
    <3> QED
      BY <1>1, <3>1, <3>2, <3>3
  <2> QED
    BY <2>1
<1>5. Def(h)
  BY <1>4, Zenon
<1> HIDE DEF h, g
<1>6. \A j \in 0 .. n : h[j] = IF j = 0 THEN p ELSE Next(h[j - 1], j)
  BY <1>5, Zenon
<1>7. h[0] = p
  BY <1>1, <1>6
<1>8. CASE n = 0
  BY <1>2, <1>7, <1>8
<1>9. ASSUME 1 \in 1 .. n PROVE OnTheWay(h[1], t, i, f, L, x)
  <2>1. h[1] = Next(p, 1)
    <3>1. 1 \in 0 .. n /\ 1 - 1 = 0
      BY <1>1, <1>9
    <3> QED
      BY <1>6, <1>7, <3>1
  <2> QED
    BY <1>3, <1>9, <2>1
<1>10. CASE n = 1
  BY <1>2, <1>9, <1>10
<1>11. CASE n = 2
  <2>1. h[2] = Next(h[1], 2)
    <3>1. 2 \in 0 .. n /\ 2 - 1 = 1
      BY <1>11
    <3> QED
      BY <1>6, <3>1
  <2>2. OnTheWay(h[1], t, i, f, L, x)
    BY <1>9, <1>11
  <2> QED
    BY <1>2, <1>3, <1>11, <2>1, <2>2
<1> QED
  BY <1>1, <1>8, <1>10, <1>11

\* A call through a pointer: what it leads to, what that one has saved, and so on.
LEMMA ThroughIs ==
  ASSUME NEW i, NEW s, NEW a, a = Rebind!Through(i, s)
  PROVE  /\ a[0] = rebind_bindings[i][s]
         /\ \A n \in 1 .. 3 : a[n] = IF a[n - 1] \in Rebind!Tools THEN rebind_replaced[a[n - 1]] ELSE a[n - 1]
<1> DEFINE Then(x) == IF x \in Rebind!Tools THEN rebind_replaced[x] ELSE x
           x0 == rebind_bindings[i][s]
           Def(h) == h = [n \in 0 .. 3 |-> IF n = 0 THEN x0 ELSE Then(h[n - 1])]
           h == CHOOSE h : Def(h)
           g == [n \in 0 .. 3 |-> IF n = 0 THEN x0 ELSE IF n = 1 THEN Then(x0)
                                  ELSE IF n = 2 THEN Then(Then(x0)) ELSE Then(Then(Then(x0)))]
<1>1. a = h
  BY Zenon DEF Rebind!Through
<1> HIDE DEF Then, x0
<1>2. Def(g)
  <2>1. ASSUME NEW n \in 0 .. 3 PROVE g[n] = IF n = 0 THEN x0 ELSE Then(g[n - 1])
    <3>1. n = 0 \/ n = 1 \/ n = 2 \/ n = 3
      OBVIOUS
    <3>2. 1 - 1 = 0 /\ 2 - 1 = 1 /\ 3 - 1 = 2
      OBVIOUS
    <3> QED
      BY <3>1, <3>2
  <2> QED
    BY <2>1
<1>3. Def(h)
  BY <1>2, Zenon
<1> HIDE DEF h
<1>4. \A n \in 0 .. 3 : h[n] = IF n = 0 THEN x0 ELSE Then(h[n - 1])
  BY <1>3, Zenon
<1>5. h[0] = x0 /\ \A n \in 1 .. 3 : h[n] = Then(h[n - 1])
  BY <1>4
<1> QED
  BY <1>1, <1>5 DEF Then, x0

\* It ends at the function, or at a helper of an image that is loaded.
LEMMA CallEnds ==
  ASSUME NEW f \in Rebind!Tools, NEW L \in SUBSET HookedImages, PointersTyped(Rebind!Now),
         Straight(Rebind!Now, f, L), NEW i \in L, NEW s \in SlotsOf[i]
  PROVE  Rebind!Through(i, s)[3] \in {"function"} \cup L
<1> DEFINE g == OtherTool(f)
<1>1. PICK a : a = Rebind!Through(i, s)
  OBVIOUS
<1>2. /\ a[0] = rebind_bindings[i][s]
      /\ \A n \in 1 .. 3 : a[n] = IF a[n - 1] \in Rebind!Tools THEN rebind_replaced[a[n - 1]] ELSE a[n - 1]
  BY <1>1, ThroughIs
<1>3. /\ Rebind!Now.bindings = rebind_bindings /\ Rebind!Now.replaced = rebind_replaced
  BY DEF Rebind!Now
<1>4. PICK S : S = {t \in Rebind!Tools : rebind_replaced[t] # "unset"}
  OBVIOUS
<1>5. Saved(Rebind!Now) = S
  BY <1>3, <1>4 DEF Saved
<1>6. /\ a[0] \in {"function"} \cup L \cup S
      /\ \A t \in Rebind!Tools : rebind_replaced[t] \in {"unset", "function"} \cup L \cup S
      /\ rebind_replaced[f] \notin Rebind!Tools /\ rebind_replaced[g] # g
  BY <1>2, <1>3, <1>5 DEF Straight
<1>7. /\ a[1] = IF a[0] \in Rebind!Tools THEN rebind_replaced[a[0]] ELSE a[0]
      /\ a[2] = IF a[1] \in Rebind!Tools THEN rebind_replaced[a[1]] ELSE a[1]
      /\ a[3] = IF a[2] \in Rebind!Tools THEN rebind_replaced[a[2]] ELSE a[2]
  <2>1. 1 \in 1 .. 3 /\ 2 \in 1 .. 3 /\ 3 \in 1 .. 3 /\ 1 - 1 = 0 /\ 2 - 1 = 1 /\ 3 - 1 = 2
    OBVIOUS
  <2> QED
    BY <1>2, <2>1
<1> DEFINE E == {"function"} \cup L
<1>8. E \cap Rebind!Tools = {} /\ S \subseteq Rebind!Tools
  BY <1>4, NamesDiffer
<1>9. \A t \in S : rebind_replaced[t] \in E \cup S
  BY <1>4, <1>6
<1>10. f \in S => rebind_replaced[f] \in E
  BY <1>6, <1>8, <1>9
<1>11. \A t \in S : t = f \/ t = g
  BY <1>4, TwoTools
<1>12. g \in S => rebind_replaced[g] \in E \cup (S \cap {f})
  BY <1>6, <1>9, <1>11
<1> HIDE DEF E, g
<1>13. CASE a[0] \in E
  BY <1>1, <1>7, <1>8, <1>13 DEF E
<1>14. CASE f \in S /\ a[0] = f
  <2>1. a[1] \in E
    BY <1>7, <1>8, <1>10, <1>14
  <2> QED
    BY <1>1, <1>7, <1>8, <2>1 DEF E
<1>15. CASE g \in S /\ a[0] = g
  <2>1. a[1] \in E \/ (a[1] = f /\ f \in S)
    BY <1>7, <1>8, <1>12, <1>15
  <2>2. a[2] \in E
    BY <1>7, <1>8, <1>10, <2>1
  <2> QED
    BY <1>1, <1>7, <1>8, <2>2 DEF E
<1> QED
  BY <1>6, <1>11, <1>13, <1>14, <1>15 DEF E

-----------------------------------------------------------------------------
(* Rebinding: the two tools, one after the other. *)

HooksFor(t)  == \E k \in 1 .. Len(rebind_callbacks) : rebind_callbacks[k] = t
LastToHook   == rebind_callbacks[Len(rebind_callbacks)]
SomeTwo == {<<>>} \cup {<<t>> : t \in Rebind!Tools} \cup {<<t, OtherTool(t)>> : t \in Rebind!Tools}

\* Tool f was first: only when it has done all images the other one begins.
OneAfterOther(f) ==
    /\ Straight(Rebind!Now, f, LoadedOnes)
    /\ rebind_callbacks \in {<<>>, <<f>>, <<f, OtherTool(f)>>}
    /\ \A t \in Rebind!Tools : ~HooksFor(t) => rebind_replaced[t] = "unset"
    /\ \A t \in Rebind!Tools : rebind_todo[t] # <<>> => rebind_callbacks # <<>> /\ LastToHook = t

RebindTyped ==
    /\ PointersTyped(Rebind!Now) /\ rebind_failures \in 0 .. MaxFailures
    /\ rebind_loaded \in Seq(HookedImages) /\ rebind_callbacks \in SomeTwo
    /\ rebind_todo \in [Rebind!Tools -> Seq(LoadedOnes)]
    /\ rebind_hooks_installed \in BOOLEAN /\ (rebind_hooks_installed <=> HooksFor("sentry"))
    /\ rebind_again \in BOOLEAN

RebindInv == RebindTyped /\ (~rebind_again => \E f \in Rebind!Tools : OneAfterOther(f))

\* At first nothing is hooked.
LEMMA RebindInit == Rebind!Init => RebindInv
<1> SUFFICES ASSUME Rebind!Init PROVE RebindInv
  OBVIOUS
<1>1. /\ rebind_loaded = <<>> /\ rebind_callbacks = <<>> /\ rebind_todo = [t \in Rebind!Tools |-> <<>>]
      /\ rebind_replaced = [t \in Rebind!Tools |-> "unset"] /\ rebind_failures = 0
      /\ rebind_bindings = [i \in HookedImages |-> [s \in SlotsOf[i] |-> "unset"]]
      /\ rebind_hooks_installed = FALSE /\ rebind_again = FALSE
  BY DEF Rebind!Init, Rebind!Unset
<1>2. LoadedOnes = {} /\ ~HooksFor("sentry") /\ "sentry" \in Rebind!Tools /\ "unset" \in Rebind!Pointers
      /\ ~HooksFor("other")
  BY <1>1 DEF LoadedOnes, HooksFor, Rebind!Tools, Rebind!Pointers, Rebind!Unset
<1>3. /\ Rebind!Now.bindings = rebind_bindings /\ Rebind!Now.replaced = rebind_replaced
      /\ Rebind!Now.failures = 0
      /\ Rebind!Now = [bindings |-> rebind_bindings, replaced |-> rebind_replaced, failures |-> 0]
  BY <1>1 DEF Rebind!Now
<1>4. PointersTyped(Rebind!Now)
  BY <1>1, <1>2, <1>3 DEF PointersTyped
<1>5. RebindTyped
  <2>1. rebind_failures \in 0 .. MaxFailures
    BY <1>1, ToolsAssumption
  <2>2. rebind_callbacks \in SomeTwo
    BY <1>1 DEF SomeTwo
  <2>3. rebind_todo \in [Rebind!Tools -> Seq(LoadedOnes)]
    BY <1>1
  <2>4. rebind_loaded \in Seq(HookedImages)
    BY <1>1
  <2> QED
    BY <1>1, <1>2, <1>4, <2>1, <2>2, <2>3, <2>4 DEF RebindTyped
<1>6. Straight(Rebind!Now, "sentry", {})
  BY <1>1, <1>2, <1>3, NamesDiffer DEF Straight, OtherTool, Rebind!Tools
<1>7. OneAfterOther("sentry")
  BY <1>1, <1>2, <1>6 DEF OneAfterOther
<1> QED
  BY <1>2, <1>5, <1>7 DEF RebindInv

\* Who is hooked.
LEMMA HookedAre ==
  /\ rebind_callbacks = <<>> => \A t \in Rebind!Tools : ~HooksFor(t)
  /\ \A f \in Rebind!Tools :
        /\ rebind_callbacks = <<f>> => LastToHook = f /\ \A t \in Rebind!Tools : HooksFor(t) <=> t = f
        /\ rebind_callbacks = <<f, OtherTool(f)>> =>
              LastToHook = OtherTool(f) /\ \A t \in Rebind!Tools : HooksFor(t)
<1>1. rebind_callbacks = <<>> => \A t \in Rebind!Tools : ~HooksFor(t)
  BY DEF HooksFor
<1>2. ASSUME NEW f \in Rebind!Tools, rebind_callbacks = <<f>>
      PROVE  LastToHook = f /\ \A t \in Rebind!Tools : HooksFor(t) <=> t = f
  <2>1. Len(rebind_callbacks) = 1 /\ rebind_callbacks[1] = f
    BY <1>2
  <2> QED
    BY <2>1 DEF LastToHook, HooksFor
<1>3. ASSUME NEW f \in Rebind!Tools, rebind_callbacks = <<f, OtherTool(f)>>
      PROVE  LastToHook = OtherTool(f) /\ \A t \in Rebind!Tools : HooksFor(t)
  <2>1. Len(rebind_callbacks) = 2 /\ rebind_callbacks[1] = f /\ rebind_callbacks[2] = OtherTool(f)
    BY <1>3
  <2>2. HooksFor(f) /\ HooksFor(OtherTool(f))
    BY <2>1 DEF HooksFor
  <2> QED
    BY <2>1, <2>2, TwoTools DEF LastToHook
<1> QED
  BY <1>1, <1>2, <1>3

\* Two in a row.
LEMMA AppendTo ==
  ASSUME NEW S, NEW x \in S, NEW y \in S
  PROVE  Append(<<x>>, y) = <<x, y>>
<1>1. PICK a : a = <<x>>
  OBVIOUS
<1>2. a \in Seq(S) /\ Len(a) = 1 /\ a[1] = x
  BY <1>1
<1>3. PICK b : b = Append(a, y)
  OBVIOUS
<1>4. b \in Seq(S) /\ Len(b) = Len(a) + 1 /\ b[1] = x /\ b[Len(a) + 1] = y
  <2>0. a \in Seq(S)
    BY <1>2
  <2>1. /\ Append(a, y) \in Seq(S) /\ Len(Append(a, y)) = Len(a) + 1
        /\ \A i \in 1 .. Len(a) : Append(a, y)[i] = a[i]
        /\ Append(a, y)[Len(a) + 1] = y
    BY <2>0, AppendProperties
  <2>2. 1 \in 1 .. Len(a)
    BY <1>2
  <2> QED
    BY <1>2, <1>3, <2>1, <2>2
<1>5. 1 + 1 = 2
  OBVIOUS
<1>6. Len(b) = 2 /\ b[1] = x /\ b[2] = y
  BY <1>2, <1>4, <1>5
<1>7. b = <<x, y>>
  <2>1. PICK c : c = <<x, y>>
    OBVIOUS
  <2>2. c \in Seq(S) /\ Len(c) = 2 /\ c[1] = x /\ c[2] = y
    BY <2>1
  <2>3. \A i \in 1 .. 2 : i = 1 \/ i = 2
    OBVIOUS
  <2>4. Len(b) = Len(c) /\ \A i \in 1 .. Len(b) : b[i] = c[i]
    BY <1>6, <2>2, <2>3
  <2> QED
    BY <1>4, <2>1, <2>2, <2>4, SeqEqual
<1> QED
  BY <1>1, <1>3, <1>7

\* What was hooked before can be hooked again, and what is only hooked once is the second.
LEMMA MoreHooked ==
  ASSUME RebindTyped, NEW t \in Rebind!Tools, ~HooksFor(t)
  PROVE  /\ Append(rebind_callbacks, t) \in SomeTwo
         /\ rebind_callbacks \in {<<>>, <<OtherTool(t)>>}
<1>1. rebind_callbacks \in SomeTwo
  BY DEF RebindTyped
<1>2. CASE rebind_callbacks = <<>>
  BY <1>2 DEF SomeTwo
<1>3. CASE \E f \in Rebind!Tools : rebind_callbacks = <<f>>
  <2>1. PICK f \in Rebind!Tools : rebind_callbacks = <<f>>
    BY <1>3
  <2>2. f # t /\ f = OtherTool(t) /\ t = OtherTool(f)
    BY <2>1, HookedAre, TwoTools DEF Rebind!Tools, OtherTool
  <2>3. Append(rebind_callbacks, t) = <<f, OtherTool(f)>>
    <3>1. Append(<<f>>, t) = <<f, t>>
      BY AppendTo
    <3> QED
      BY <2>1, <2>2, <3>1
  <2> QED
    BY <2>1, <2>2, <2>3 DEF SomeTwo
<1>4. CASE \E f \in Rebind!Tools : rebind_callbacks = <<f, OtherTool(f)>>
  BY <1>4, HookedAre
<1> QED
  BY <1>1, <1>2, <1>3, <1>4 DEF SomeTwo

\* The tools that are hooked, as a sequence.
LEMMA TwoInARow == \A c \in SomeTwo : c \in Seq(Rebind!Tools)
<1> TAKE c \in SomeTwo
<1>1. CASE c = <<>>
  BY <1>1
<1>2. CASE \E t \in Rebind!Tools : c = <<t>>
  BY <1>2
<1>3. CASE \E t \in Rebind!Tools : c = <<t, OtherTool(t)>>
  <2>1. PICK t \in Rebind!Tools : c = <<t, OtherTool(t)>>
    BY <1>3
  <2>2. PICK u \in Rebind!Tools : u = OtherTool(t)
    BY TwoTools
  <2> QED
    BY <2>1, <2>2
<1> QED
  BY <1>1, <1>2, <1>3 DEF SomeTwo

\* A sequence of members.
LEMMA SeqOfMembers ==
  ASSUME NEW S, NEW T, NEW l \in Seq(S), \A k \in 1 .. Len(l) : l[k] \in T
  PROVE  l \in Seq(T)
OBVIOUS

\* What is the same while the pointers stay.
LEMMA PointersStay ==
  ASSUME UNCHANGED <<rebind_loaded, rebind_bindings, rebind_replaced, rebind_failures>>
  PROVE  /\ Rebind!Now' = Rebind!Now /\ LoadedOnes' = LoadedOnes
         /\ PointersTyped(Rebind!Now)' <=> PointersTyped(Rebind!Now)
         /\ \A f : Straight(Rebind!Now, f, LoadedOnes)' <=> Straight(Rebind!Now, f, LoadedOnes)
<1>1. Rebind!Now' = Rebind!Now
  BY DEF Rebind!Now
<1>2. LoadedOnes' = LoadedOnes
  BY DEF LoadedOnes
<1>3. PointersTyped(Rebind!Now)' <=> PointersTyped(Rebind!Now)
  BY <1>1 DEF PointersTyped
<1>4. \A f : Straight(Rebind!Now, f, LoadedOnes)' <=> Straight(Rebind!Now, f, LoadedOnes)
  BY <1>1, <1>2 DEF Straight, Saved
<1> QED
  BY <1>1, <1>2, <1>3, <1>4

\* A tool registers with dyld, and begins with the images that are there.
LEMMA HookBegins ==
  ASSUME RebindInv, NEW t \in Rebind!Tools, ~HooksFor(t), Rebind!DyldIsFree,
         rebind_callbacks' = Append(rebind_callbacks, t), rebind_todo' = [rebind_todo EXCEPT ![t] = rebind_loaded],
         UNCHANGED <<rebind_loaded, rebind_bindings, rebind_replaced, rebind_failures, rebind_again>>,
         rebind_hooks_installed' \in BOOLEAN, (rebind_hooks_installed' <=> HooksFor("sentry")')
  PROVE  RebindInv'
<1>0. RebindTyped
  BY DEF RebindInv
<1>1. rebind_callbacks' \in SomeTwo /\ rebind_callbacks \in {<<>>, <<OtherTool(t)>>}
  BY <1>0, MoreHooked
<1>2. rebind_todo' \in [Rebind!Tools -> Seq(LoadedOnes')]
  <2>1. rebind_loaded \in Seq(LoadedOnes)
    <3>1. rebind_loaded \in Seq(HookedImages) /\ \A k \in 1 .. Len(rebind_loaded) : rebind_loaded[k] \in LoadedOnes
      BY <1>0 DEF RebindTyped, LoadedOnes
    <3> QED
      BY <3>1, SeqOfMembers
  <2>2. LoadedOnes' = LoadedOnes
    BY PointersStay
  <2> QED
    BY <1>0, <2>1, <2>2 DEF RebindTyped
<1>3. RebindTyped'
  BY <1>0, <1>1, <1>2, PointersStay DEF RebindTyped, SomeTwo
<1>4. ASSUME ~rebind_again' PROVE \E f \in Rebind!Tools : OneAfterOther(f)'
  <2>1. PICK f \in Rebind!Tools : OneAfterOther(f)
    BY <1>4 DEF RebindInv
  <2>2. /\ Straight(Rebind!Now, f, LoadedOnes)
        /\ rebind_callbacks \in {<<>>, <<f>>, <<f, OtherTool(f)>>}
        /\ \A u \in Rebind!Tools : ~HooksFor(u) => rebind_replaced[u] = "unset"
    BY <2>1 DEF OneAfterOther
  <2>3. \A u \in Rebind!Tools : u # t => rebind_todo'[u] = <<>>
    <3>1. \A u \in Rebind!Tools : rebind_todo[u] = <<>>
      BY <1>4 DEF Rebind!DyldIsFree, Rebind!Tools
    <3> QED
      BY <1>0, <3>1 DEF RebindTyped
  <2>4. CASE rebind_callbacks = <<>>
    <3>1. \A u \in Rebind!Tools : rebind_replaced[u] = "unset"
      BY <2>2, <2>4, HookedAre
    <3>2. Straight(Rebind!Now, t, LoadedOnes)
      <4>1. Rebind!Now.replaced = rebind_replaced
        BY DEF Rebind!Now
      <4>2. OtherTool(t) \in Rebind!Tools /\ "unset" \notin Rebind!Tools
        BY TwoTools, NamesDiffer
      <4> QED
        BY <2>2, <3>1, <4>1, <4>2 DEF Straight
    <3>3. rebind_callbacks' = <<t>>
      BY <2>4
    <3>4. LastToHook' = t /\ rebind_callbacks' # <<>>
      BY <3>3 DEF LastToHook
    <3>5. OneAfterOther(t)'
      BY <2>3, <3>1, <3>2, <3>3, <3>4, PointersStay DEF OneAfterOther
    <3> QED
      BY <3>5
  <2>5. CASE rebind_callbacks # <<>>
    <3>1. rebind_callbacks = <<OtherTool(t)>> /\ OtherTool(t) \in Rebind!Tools
      BY <1>1, <2>5, TwoTools
    <3>2. f = OtherTool(t) /\ t = OtherTool(f)
      <4>1. rebind_callbacks[1] = OtherTool(t)
        BY <3>1
      <4>2. rebind_callbacks[1] = f
        BY <2>2, <2>5
      <4> QED
        BY <4>1, <4>2 DEF OtherTool, Rebind!Tools
    <3>3. rebind_callbacks' = <<f, t>>
      BY <3>1, <3>2, AppendTo
    <3>4. LastToHook' = t /\ rebind_callbacks' # <<>>
      <4>1. Len(rebind_callbacks') = 2 /\ rebind_callbacks'[2] = t
        BY <3>3
      <4> QED
        BY <3>3, <4>1 DEF LastToHook
    <3>5. \A u \in Rebind!Tools : HooksFor(u)'
      <4>1. Len(rebind_callbacks') = 2 /\ rebind_callbacks'[1] = f /\ rebind_callbacks'[2] = t
        BY <3>3
      <4>2. \A u \in Rebind!Tools : u = f \/ u = t
        BY <3>2, TwoTools
      <4> QED
        BY <4>1, <4>2 DEF HooksFor
    <3>6. OneAfterOther(f)'
      BY <2>2, <2>3, <3>2, <3>3, <3>4, <3>5, PointersStay DEF OneAfterOther
    <3> QED
      BY <3>6
  <2> QED
    BY <2>4, <2>5
<1> QED
  BY <1>3, <1>4 DEF RebindInv

\* Installing and taking off.
LEMMA InstallSteps ==
  ASSUME RebindInv, Rebind!Install \/ Rebind!Deactivate \/ Rebind!OtherInstall
  PROVE  RebindInv'
<1>0. RebindTyped
  BY DEF RebindInv
<1>1. ASSUME UNCHANGED <<rebind_loaded, rebind_bindings, rebind_replaced, rebind_callbacks, rebind_todo,
                         rebind_hooks_installed, rebind_again, rebind_failures>>
      PROVE  RebindInv'
  <2>1. RebindTyped'
    BY <1>0, <1>1, PointersStay DEF RebindTyped, SomeTwo, HooksFor
  <2>2. \A f : OneAfterOther(f) => OneAfterOther(f)'
    BY <1>1, PointersStay DEF OneAfterOther, HooksFor, LastToHook
  <2> QED
    BY <1>1, <2>1, <2>2 DEF RebindInv
<1>2. CASE Rebind!Install
  <2>1. CASE rebind_hooks_installed
    <3>1. rebind_hooks_installed' = rebind_hooks_installed
      BY <1>0, <1>2, <2>1 DEF Rebind!Install, RebindTyped
    <3> QED
      BY <1>1, <1>2, <2>1, <3>1 DEF Rebind!Install
  <2>2. CASE ~rebind_hooks_installed
    <3>1. /\ Rebind!DyldIsFree /\ rebind_callbacks' = Append(rebind_callbacks, "sentry")
          /\ rebind_todo' = [rebind_todo EXCEPT !["sentry"] = rebind_loaded] /\ rebind_hooks_installed' = TRUE
          /\ UNCHANGED <<rebind_loaded, rebind_bindings, rebind_replaced, rebind_failures, rebind_again>>
      BY <1>2, <2>2 DEF Rebind!Install
    <3>2. ~HooksFor("sentry") /\ "sentry" \in Rebind!Tools
      BY <1>0, <2>2 DEF RebindTyped, Rebind!Tools
    <3>3. HooksFor("sentry")'
      <4>1. /\ Len(Append(rebind_callbacks, "sentry")) = Len(rebind_callbacks) + 1
            /\ Append(rebind_callbacks, "sentry")[Len(rebind_callbacks) + 1] = "sentry"
            /\ Len(rebind_callbacks) \in Nat
        <5>1. rebind_callbacks \in Seq(Rebind!Tools)
          BY <1>0, TwoInARow DEF RebindTyped
        <5> QED
          BY <3>2, <5>1, AppendProperties
      <4> QED
        BY <3>1, <4>1 DEF HooksFor
    <3> QED
      BY <3>1, <3>2, <3>3, HookBegins
  <2> QED
    BY <2>1, <2>2
<1>3. CASE Rebind!Deactivate
  BY <1>1, <1>3 DEF Rebind!Deactivate
<1>4. CASE Rebind!OtherInstall
  <2>1. /\ Rebind!DyldIsFree /\ ~rebind_again
        /\ (rebind_again' <=> HooksFor("other")) /\ rebind_again' \in BOOLEAN
        /\ rebind_callbacks' = (IF rebind_again' THEN rebind_callbacks ELSE Append(rebind_callbacks, "other"))
        /\ rebind_todo' = [rebind_todo EXCEPT !["other"] = rebind_loaded]
        /\ UNCHANGED <<rebind_loaded, rebind_bindings, rebind_replaced, rebind_failures, rebind_hooks_installed>>
    <3>1. \A k : k \in DOMAIN rebind_callbacks <=> k \in 1 .. Len(rebind_callbacks)
      BY <1>0, TwoInARow DEF RebindTyped
    <3> QED
      BY <1>4, <3>1 DEF Rebind!OtherInstall, HooksFor
  <2>2. "other" \in Rebind!Tools
    BY DEF Rebind!Tools
  <2>3. CASE rebind_again'
    <3>1. rebind_callbacks' = rebind_callbacks
      BY <2>1, <2>3
    <3>2. rebind_todo' \in [Rebind!Tools -> Seq(LoadedOnes')]
      <4>1. rebind_loaded \in Seq(LoadedOnes)
        <5>1. rebind_loaded \in Seq(HookedImages) /\ \A k \in 1 .. Len(rebind_loaded) : rebind_loaded[k] \in LoadedOnes
          BY <1>0 DEF RebindTyped, LoadedOnes
        <5> QED
          BY <5>1, SeqOfMembers
      <4>2. LoadedOnes' = LoadedOnes
        BY <2>1, PointersStay
      <4> QED
        BY <1>0, <2>1, <4>1, <4>2 DEF RebindTyped
    <3>3. RebindTyped'
      BY <1>0, <2>1, <3>1, <3>2, PointersStay DEF RebindTyped, SomeTwo, HooksFor
    <3> QED
      BY <2>3, <3>3 DEF RebindInv
  <2>4. CASE ~rebind_again'
    <3>1. /\ ~HooksFor("other") /\ UNCHANGED rebind_again
          /\ rebind_callbacks' = Append(rebind_callbacks, "other")
      <4>1. rebind_again' = FALSE /\ rebind_again = FALSE
        BY <1>0, <2>1, <2>4 DEF RebindTyped
      <4> QED
        BY <2>1, <4>1
    <3>2. rebind_hooks_installed' \in BOOLEAN /\ (rebind_hooks_installed' <=> HooksFor("sentry")')
      <4>1. rebind_callbacks \in Seq(Rebind!Tools)
        BY <1>0, TwoInARow DEF RebindTyped
      <4>2. PICK n : n = Len(rebind_callbacks)
        OBVIOUS
      <4>3. PICK c : c = rebind_callbacks'
        OBVIOUS
      <4>4. n \in Nat /\ Len(c) = n + 1 /\ c[n + 1] = "other" /\ \A k \in 1 .. n : c[k] = rebind_callbacks[k]
        <5>1. /\ Len(Append(rebind_callbacks, "other")) = Len(rebind_callbacks) + 1
              /\ Append(rebind_callbacks, "other")[Len(rebind_callbacks) + 1] = "other"
              /\ \A k \in 1 .. Len(rebind_callbacks) : Append(rebind_callbacks, "other")[k] = rebind_callbacks[k]
          BY <2>2, <4>1, AppendProperties
        <5>2. Len(rebind_callbacks) \in Nat
          BY <4>1
        <5> QED
          BY <3>1, <4>2, <4>3, <5>1, <5>2
      <4>5. (\E k \in 1 .. n + 1 : c[k] = "sentry") <=> \E k \in 1 .. n : rebind_callbacks[k] = "sentry"
        <5>1. \A k : k \in 1 .. n + 1 <=> k = n + 1 \/ k \in 1 .. n
          BY <4>4
        <5>2. "other" # "sentry"
          OBVIOUS
        <5> QED
          BY <4>4, <5>1, <5>2
      <4> QED
        BY <1>0, <2>1, <4>2, <4>3, <4>4, <4>5 DEF RebindTyped, HooksFor
    <3> QED
      BY <2>1, <2>2, <3>1, <3>2, HookBegins
  <2> QED
    BY <2>3, <2>4
<1> QED
  BY <1>2, <1>3, <1>4

\* The next image of those that were there.
LEMMA RebindSteps ==
  ASSUME RebindInv, NEW t \in Rebind!Tools, Rebind!RebindNext(t)
  PROVE  RebindInv'
<1>0. RebindTyped
  BY DEF RebindInv
<1>1. PICK i : i = Head(rebind_todo[t])
  OBVIOUS
<1>2. PICK o \in Rebind!Orders(i), failing \in SUBSET SlotsOf[i] :
          LET p == Rebind!OfImage(Rebind!Now, t, i, o, failing)
          IN  Rebind!Becomes(p) /\ p.failures <= MaxFailures
  BY <1>1 DEF Rebind!RebindNext
<1>3. PICK p : p = Rebind!OfImage(Rebind!Now, t, i, o, failing)
  OBVIOUS
<1>4. /\ rebind_bindings' = p.bindings /\ rebind_replaced' = p.replaced /\ rebind_failures' = p.failures
      /\ p.failures <= MaxFailures
  BY <1>2, <1>3 DEF Rebind!Becomes
<1>5. /\ rebind_todo[t] # <<>> /\ rebind_todo' = [rebind_todo EXCEPT ![t] = Tail(rebind_todo[t])]
      /\ UNCHANGED <<rebind_loaded, rebind_callbacks, rebind_hooks_installed, rebind_again>>
  BY DEF Rebind!RebindNext
<1>6. LoadedOnes \subseteq HookedImages /\ LoadedOnes' = LoadedOnes
  BY <1>0, <1>5 DEF LoadedOnes, RebindTyped
<1>7. i \in LoadedOnes /\ i \in HookedImages /\ Tail(rebind_todo[t]) \in Seq(LoadedOnes)
  <2>1. rebind_todo[t] \in Seq(LoadedOnes)
    BY <1>0 DEF RebindTyped
  <2> QED
    BY <1>1, <1>5, <1>6, <2>1
<1>8. PICK f \in Rebind!Tools : ~rebind_again => OneAfterOther(f)
  BY DEF RebindInv, Rebind!Tools
<1>9. PICK x : x = rebind_replaced[OtherTool(f)]
  OBVIOUS
<1>10. ASSUME ~rebind_again, t = f
       PROVE  x = "unset" /\ \A s \in SlotsOf[i] : rebind_bindings[i][s] # OtherTool(f)
  <2>1. OneAfterOther(f)
    BY <1>8, <1>10
  <2>2. LastToHook = f /\ rebind_callbacks # <<>>
    BY <1>5, <1>10, <2>1 DEF OneAfterOther
  <2>3. rebind_callbacks = <<f>>
    BY <2>1, <2>2, HookedAre, TwoTools DEF OneAfterOther
  <2>4. OtherTool(f) \in Rebind!Tools /\ ~HooksFor(OtherTool(f))
    BY <2>3, HookedAre, TwoTools
  <2>5. x = "unset"
    BY <1>9, <2>1, <2>4 DEF OneAfterOther
  <2>6. OtherTool(f) \notin Saved(Rebind!Now)
    BY <1>9, <2>5 DEF Saved, Rebind!Now
  <2>7. \A s \in SlotsOf[i] : rebind_bindings[i][s] \in {"function"} \cup LoadedOnes \cup Saved(Rebind!Now)
    BY <1>7, <2>1 DEF OneAfterOther, Straight, Rebind!Now
  <2>8. OtherTool(f) \notin {"function"} \cup LoadedOnes
    BY <1>6, <2>4, NamesDiffer
  <2> QED
    BY <2>5, <2>6, <2>7, <2>8
<1>11. OnTheWay(Rebind!Now, t, i, f, LoadedOnes, x)
  <2>1. Rebind!Now.bindings = rebind_bindings /\ Rebind!Now.replaced = rebind_replaced
    BY DEF Rebind!Now
  <2>2. PointersTyped(Rebind!Now)
    BY <1>0 DEF RebindTyped
  <2> QED
    BY <1>8, <1>9, <1>10, <2>1, <2>2 DEF OnTheWay, OneAfterOther
<1>12. OnTheWay(p, t, i, f, LoadedOnes, x)
  BY <1>3, <1>6, <1>7, <1>11, ImageRebound
<1>13. PointersTyped(p) /\ Rebind!Now' = p
  <2>1. PointersTyped(p)
    BY <1>12 DEF OnTheWay
  <2>2. p = [bindings |-> p.bindings, replaced |-> p.replaced, failures |-> p.failures]
    BY <2>1 DEF PointersTyped
  <2>3. Rebind!Now' = [bindings |-> rebind_bindings', replaced |-> rebind_replaced', failures |-> rebind_failures']
    BY DEF Rebind!Now
  <2> QED
    BY <1>4, <2>1, <2>2, <2>3
<1>14. RebindTyped'
  <2>1. PointersTyped(Rebind!Now')
    BY <1>13
  <2>2. rebind_failures' \in 0 .. MaxFailures
    BY <1>4, <1>13, ToolsAssumption DEF PointersTyped
  <2>3. rebind_todo' \in [Rebind!Tools -> Seq(LoadedOnes')]
    BY <1>0, <1>5, <1>6, <1>7 DEF RebindTyped
  <2> QED
    BY <1>0, <1>5, <2>1, <2>2, <2>3 DEF RebindTyped, SomeTwo, HooksFor, PointersTyped
<1>15. ASSUME ~rebind_again PROVE OneAfterOther(f)'
  <2>1. OneAfterOther(f)
    BY <1>8, <1>15
  <2>2. Straight(Rebind!Now, f, LoadedOnes)'
    <3>1. Straight(p, f, LoadedOnes)
      BY <1>12, <1>15 DEF OnTheWay
    <3> QED
      BY <1>6, <1>13, <3>1 DEF Straight, Saved
  <2>3. \A u \in Rebind!Tools : ~HooksFor(u) => rebind_replaced'[u] = "unset"
    <3> SUFFICES ASSUME NEW u \in Rebind!Tools, ~HooksFor(u) PROVE rebind_replaced'[u] = "unset"
      OBVIOUS
    <3>1. LastToHook = t /\ rebind_callbacks # <<>>
      BY <1>5, <2>1 DEF OneAfterOther
    <3>2. rebind_callbacks = <<f>> /\ u # f
      BY <2>1, <3>1, HookedAre DEF OneAfterOther
    <3>3. t = f /\ u = OtherTool(f)
      BY <3>1, <3>2, HookedAre, TwoTools
    <3>4. p.replaced[OtherTool(f)] = x /\ x = "unset"
      BY <1>10, <1>12, <1>15, <3>3 DEF OnTheWay
    <3> QED
      BY <1>4, <3>3, <3>4
  <2>4. \A u \in Rebind!Tools : rebind_todo'[u] # <<>> => rebind_todo[u] # <<>>
    BY <1>0, <1>5 DEF RebindTyped
  <2> QED
    BY <1>5, <2>1, <2>2, <2>3, <2>4 DEF OneAfterOther, HooksFor, LastToHook
<1> QED
  BY <1>5, <1>14, <1>15 DEF RebindInv

\* The pointers after all tools that are hooked have rebound image i, one tool after the other.
AfterAll(i, o, failing, start) ==
    LET after[k \in 0 .. Len(rebind_callbacks)] ==
            IF k = 0 THEN start
            ELSE Rebind!OfImage(after[k - 1], rebind_callbacks[k], i, o, failing[rebind_callbacks[k]])
    IN  after[Len(rebind_callbacks)]

\* There are none, one, or two.
LEMMA LoadIs ==
  ASSUME RebindTyped, NEW i, NEW o, NEW failing, NEW start, NEW p, p = AfterAll(i, o, failing, start)
  PROVE  \/ rebind_callbacks = <<>> /\ p = start
         \/ \E t \in Rebind!Tools :
               /\ rebind_callbacks = <<t>>
               /\ p = Rebind!OfImage(start, t, i, o, failing[t])
         \/ \E t \in Rebind!Tools :
               /\ rebind_callbacks = <<t, OtherTool(t)>>
               /\ p = Rebind!OfImage(Rebind!OfImage(start, t, i, o, failing[t]), OtherTool(t), i, o,
                                     failing[OtherTool(t)])
<1> DEFINE c == rebind_callbacks
           n == Len(c)
           By(r, t) == Rebind!OfImage(r, t, i, o, failing[t])
           Def(h) == h = [k \in 0 .. n |-> IF k = 0 THEN start ELSE By(h[k - 1], c[k])]
           h == CHOOSE h : Def(h)
           g == [k \in 0 .. n |-> IF k = 0 THEN start ELSE IF k = 1 THEN By(start, c[1])
                                  ELSE By(By(start, c[1]), c[2])]
<1>1. p = h[n]
  BY Zenon DEF AfterAll
<1>2. /\ n \in 0 .. 2 /\ (n = 0 => c = <<>>)
      /\ n = 1 => \E t \in Rebind!Tools : c = <<t>>
      /\ n = 2 => \E t \in Rebind!Tools : c = <<t, OtherTool(t)>>
  <2>1. c \in SomeTwo
    BY DEF RebindTyped
  <2>2. c = <<>> => n = 0
    OBVIOUS
  <2>3. \A t \in Rebind!Tools : c = <<t>> => n = 1
    OBVIOUS
  <2>4. \A t \in Rebind!Tools : c = <<t, OtherTool(t)>> => n = 2
    OBVIOUS
  <2> HIDE DEF c, n
  <2> QED
    BY <2>1, <2>2, <2>3, <2>4 DEF SomeTwo
<1> HIDE DEF n, By, c
<1>3. Def(g)
  <2>1. ASSUME NEW k \in 0 .. n PROVE g[k] = IF k = 0 THEN start ELSE By(g[k - 1], c[k])
    <3>1. CASE k = 0
      BY <3>1
    <3>2. CASE k = 1
      <4>1. k - 1 \in 0 .. n /\ k - 1 = 0
        BY <1>2, <3>2
      <4> QED
        BY <3>2, <4>1
    <3>3. CASE k = 2
      <4>1. k - 1 \in 0 .. n /\ k - 1 = 1
        BY <1>2, <3>3
      <4> QED
        BY <3>3, <4>1
    <3> QED
      BY <1>2, <3>1, <3>2, <3>3
  <2> QED
    BY <2>1
<1>4. Def(h)
  BY <1>3, Zenon
<1> HIDE DEF h, g
<1>5. \A k \in 0 .. n : h[k] = IF k = 0 THEN start ELSE By(h[k - 1], c[k])
  BY <1>4, Zenon
<1>6. h[0] = start
  BY <1>2, <1>5
<1>7. n \in {1, 2} => h[1] = By(start, c[1])
  <2>1. n \in {1, 2} => 1 \in 0 .. n /\ 1 - 1 = 0
    OBVIOUS
  <2> QED
    BY <1>5, <1>6, <2>1
<1>8. n = 2 => h[2] = By(By(start, c[1]), c[2])
  <2>1. n = 2 => 2 \in 0 .. n /\ 2 - 1 = 1
    OBVIOUS
  <2> QED
    BY <1>5, <1>7, <2>1
<1>9. CASE n = 0
  BY <1>1, <1>2, <1>6, <1>9 DEF c
<1>10. CASE n = 1
  <2>1. PICK t \in Rebind!Tools : c = <<t>>
    BY <1>2, <1>10
  <2>2. c[1] = t
    BY <2>1
  <2>3. p = By(start, t)
    BY <1>1, <1>7, <1>10, <2>2
  <2> QED
    BY <2>1, <2>3 DEF c, By
<1>11. CASE n = 2
  <2>1. PICK t \in Rebind!Tools : c = <<t, OtherTool(t)>>
    BY <1>2, <1>11
  <2>2. c[1] = t /\ c[2] = OtherTool(t)
    BY <2>1
  <2>3. p = By(By(start, t), OtherTool(t))
    BY <1>1, <1>8, <1>11, <2>2
  <2> QED
    BY <2>1, <2>3 DEF c, By
<1> QED
  BY <1>2, <1>9, <1>10, <1>11

\* An image is loaded.
LEMMA LoadSteps ==
  ASSUME RebindInv, NEW i \in HookedImages, Rebind!Load(i)
  PROVE  RebindInv'
<1>0. RebindTyped
  BY DEF RebindInv
<1> DEFINE start == [Rebind!Now EXCEPT !.bindings[i] = Rebind!Fresh(i)]
           L     == LoadedOnes \cup {i}
<1>1. PICK o \in Rebind!Orders(i), failing \in [Rebind!Tools -> SUBSET SlotsOf[i]] :
          /\ Rebind!Becomes(AfterAll(i, o, failing, start))
          /\ AfterAll(i, o, failing, start).failures <= MaxFailures
  BY Zenon DEF Rebind!Load, AfterAll
<1>2. PICK p : p = AfterAll(i, o, failing, start)
  OBVIOUS
<1>3. Rebind!Becomes(p) /\ p.failures <= MaxFailures
  BY <1>1, <1>2
<1>4. \/ rebind_callbacks = <<>> /\ p = start
      \/ \E t \in Rebind!Tools :
            /\ rebind_callbacks = <<t>>
            /\ p = Rebind!OfImage(start, t, i, o, failing[t])
      \/ \E t \in Rebind!Tools :
            /\ rebind_callbacks = <<t, OtherTool(t)>>
            /\ p = Rebind!OfImage(Rebind!OfImage(start, t, i, o, failing[t]), OtherTool(t), i, o,
                                  failing[OtherTool(t)])
  <2> HIDE DEF start
  <2> QED
    BY <1>0, <1>2, LoadIs
<1>5. /\ rebind_bindings' = p.bindings /\ rebind_replaced' = p.replaced /\ rebind_failures' = p.failures
      /\ p.failures <= MaxFailures
  BY <1>3 DEF Rebind!Becomes
<1>6. /\ Rebind!DyldIsFree /\ rebind_loaded' = Append(rebind_loaded, i)
      /\ UNCHANGED <<rebind_callbacks, rebind_todo, rebind_hooks_installed, rebind_again>>
  BY DEF Rebind!Load
<1>7. /\ LoadedOnes' = L /\ LoadedOnes \subseteq L /\ L \subseteq HookedImages
      /\ rebind_loaded' \in Seq(HookedImages) /\ i \in L
  <2>1. /\ rebind_loaded' \in Seq(HookedImages) /\ Len(rebind_loaded') = Len(rebind_loaded) + 1
        /\ rebind_loaded'[Len(rebind_loaded) + 1] = i
        /\ \A k \in 1 .. Len(rebind_loaded) : rebind_loaded'[k] = rebind_loaded[k]
    <3>1. rebind_loaded \in Seq(HookedImages)
      BY <1>0 DEF RebindTyped
    <3> QED
      BY <1>6, <3>1, AppendProperties
  <2>2. rebind_loaded \in Seq(HookedImages) /\ Len(rebind_loaded) \in Nat
    BY <1>0 DEF RebindTyped
  <2>3. \A k : k \in 1 .. Len(rebind_loaded) + 1 <=> k = Len(rebind_loaded) + 1 \/ k \in 1 .. Len(rebind_loaded)
    BY <2>2
  <2>4. LoadedOnes' = L
    BY <2>1, <2>3 DEF LoadedOnes
  <2>5. LoadedOnes \subseteq HookedImages
    BY <2>2 DEF LoadedOnes
  <2> QED
    BY <2>1, <2>4, <2>5
<1>8. /\ PointersTyped(start) /\ start.replaced = rebind_replaced /\ start.bindings[i] = Rebind!Fresh(i)
      /\ \A j \in HookedImages : j # i => start.bindings[j] = rebind_bindings[j]
  <2>1. /\ rebind_bindings = [j \in HookedImages |-> rebind_bindings[j]]
        /\ (\A j \in HookedImages : rebind_bindings[j] \in [SlotsOf[j] -> Rebind!Pointers])
        /\ rebind_replaced \in [Rebind!Tools -> Rebind!Pointers] /\ rebind_failures \in Nat
    BY <1>0 DEF RebindTyped, PointersTyped, Rebind!Now
  <2>2. Rebind!Fresh(i) \in [SlotsOf[i] -> Rebind!Pointers]
    BY DEF Rebind!Fresh, Rebind!Pointers, Rebind!Helpers
  <2>3. start = [bindings |-> [rebind_bindings EXCEPT ![i] = Rebind!Fresh(i)], replaced |-> rebind_replaced,
                 failures |-> rebind_failures]
    BY DEF Rebind!Now
  <2> HIDE DEF start
  <2>4. /\ start.bindings = [rebind_bindings EXCEPT ![i] = Rebind!Fresh(i)]
        /\ start.replaced = rebind_replaced /\ start.failures = rebind_failures
    BY <2>3
  <2>5. /\ start.bindings = [j \in HookedImages |-> start.bindings[j]]
        /\ start.bindings[i] = Rebind!Fresh(i)
        /\ \A j \in HookedImages : j # i => start.bindings[j] = rebind_bindings[j]
    BY <2>1, <2>4
  <2>6. \A j \in HookedImages : start.bindings[j] \in [SlotsOf[j] -> Rebind!Pointers]
    BY <2>1, <2>2, <2>5
  <2>7. start = [bindings |-> start.bindings, replaced |-> start.replaced, failures |-> start.failures]
    BY <2>3, <2>4
  <2> QED
    BY <2>1, <2>4, <2>5, <2>6, <2>7 DEF PointersTyped
<1> HIDE DEF start
<1>9. \A s \in SlotsOf[i] : start.bindings[i][s] \in {"function", i}
  BY <1>8 DEF Rebind!Fresh
<1>10. PICK f \in Rebind!Tools : ~rebind_again => OneAfterOther(f)
  BY DEF RebindInv, Rebind!Tools
<1>11. PICK x : x = rebind_replaced[OtherTool(f)]
  OBVIOUS
<1>12. ASSUME ~rebind_again PROVE Straight(start, f, L)
  <2>1. Straight(Rebind!Now, f, LoadedOnes)
    BY <1>10, <1>12 DEF OneAfterOther
  <2>2. Rebind!Now.bindings = rebind_bindings /\ Rebind!Now.replaced = rebind_replaced
    BY DEF Rebind!Now
  <2>3. Saved(start) = Saved(Rebind!Now)
    BY <1>8, <2>2 DEF Saved
  <2>4. \A j \in L : \A s \in SlotsOf[j] : start.bindings[j][s] \in {"function"} \cup L \cup Saved(start)
    <3> SUFFICES ASSUME NEW j \in L, NEW s \in SlotsOf[j]
                 PROVE  start.bindings[j][s] \in {"function"} \cup L \cup Saved(start)
      OBVIOUS
    <3>1. CASE j = i
      BY <1>7, <1>9, <3>1
    <3>2. CASE j # i
      <4>1. j \in LoadedOnes /\ j \in HookedImages /\ start.bindings[j] = rebind_bindings[j]
        BY <1>7, <1>8, <3>2
      <4> QED
        BY <1>7, <2>1, <2>2, <2>3, <4>1 DEF Straight
    <3> QED
      BY <3>1, <3>2
  <2>5. \A j \in HookedImages \ L : \A s \in SlotsOf[j] : start.bindings[j][s] = "unset"
    BY <1>7, <1>8, <2>1, <2>2 DEF Straight
  <2>6. \A t \in Rebind!Tools : start.replaced[t] \in {"unset", "function"} \cup L \cup Saved(start)
    BY <1>7, <1>8, <2>1, <2>2, <2>3 DEF Straight
  <2>7. start.replaced[f] \notin Rebind!Tools /\ start.replaced[OtherTool(f)] # OtherTool(f)
    BY <1>8, <2>1, <2>2 DEF Straight
  <2> QED
    BY <2>4, <2>5, <2>6, <2>7 DEF Straight
<1>13. \A t : OnTheWay(start, t, i, f, L, x)
  <2>1. \A s \in SlotsOf[i] : start.bindings[i][s] # OtherTool(f)
    BY <1>7, <1>9, NamesDiffer, TwoTools
  <2> QED
    BY <1>8, <1>11, <1>12, <2>1 DEF OnTheWay
<1>14. ~rebind_again => rebind_callbacks \in {<<>>, <<f>>, <<f, OtherTool(f)>>}
  BY <1>10 DEF OneAfterOther
<1> DEFINE AllIsWell ==
             /\ PointersTyped(p)
             /\ ~rebind_again => Straight(p, f, L)
             /\ ~rebind_again => \A u \in Rebind!Tools : ~HooksFor(u) => p.replaced[u] = "unset"
<1>15. AllIsWell
  <2>1. CASE rebind_callbacks = <<>> /\ p = start
    <3>1. ~rebind_again => \A u \in Rebind!Tools : ~HooksFor(u) => p.replaced[u] = "unset"
      BY <1>8, <1>10, <2>1 DEF OneAfterOther
    <3> QED
      BY <1>8, <1>12, <2>1, <3>1
  <2>2. ASSUME NEW t \in Rebind!Tools, rebind_callbacks = <<t>>, p = Rebind!OfImage(start, t, i, o, failing[t])
        PROVE  AllIsWell
    <3>1. OnTheWay(p, t, i, f, L, x)
      BY <1>7, <1>13, <2>2, ImageRebound
    <3>2. ASSUME ~rebind_again, NEW u \in Rebind!Tools, ~HooksFor(u) PROVE p.replaced[u] = "unset"
      <4>1. t = f
        <5>1. rebind_callbacks[1] = t /\ rebind_callbacks # <<>>
          BY <2>2
        <5>2. rebind_callbacks[1] = f
          BY <1>14, <3>2, <5>1
        <5> QED
          BY <5>1, <5>2
      <4>2. u = OtherTool(f)
        BY <2>2, <3>2, <4>1, HookedAre, TwoTools
      <4>3. x = "unset"
        BY <1>10, <1>11, <3>2, <4>2 DEF OneAfterOther
      <4> QED
        BY <3>1, <3>2, <4>1, <4>2, <4>3 DEF OnTheWay
    <3> QED
      BY <3>1, <3>2 DEF OnTheWay
  <2>3. ASSUME NEW t \in Rebind!Tools, rebind_callbacks = <<t, OtherTool(t)>>,
               p = Rebind!OfImage(Rebind!OfImage(start, t, i, o, failing[t]), OtherTool(t), i, o, failing[OtherTool(t)])
        PROVE  AllIsWell
    <3>1. PICK q : q = Rebind!OfImage(start, t, i, o, failing[t])
      OBVIOUS
    <3>2. OnTheWay(q, t, i, f, L, x)
      BY <1>7, <1>13, <3>1, ImageRebound
    <3>3. OnTheWay(q, OtherTool(t), i, f, L, x)
      <4>1. ~rebind_again => t = f
        <5>1. rebind_callbacks[1] = t /\ rebind_callbacks # <<>>
          BY <2>3
        <5>2. ~rebind_again => rebind_callbacks[1] = f
          BY <1>14, <5>1
        <5> QED
          BY <5>1, <5>2
      <4>2. OtherTool(t) # t
        BY TwoTools
      <4> QED
        BY <3>2, <4>1, <4>2 DEF OnTheWay
    <3>4. OtherTool(t) \in Rebind!Tools /\ p = Rebind!OfImage(q, OtherTool(t), i, o, failing[OtherTool(t)])
      BY <2>3, <3>1, TwoTools
    <3>5. OnTheWay(p, OtherTool(t), i, f, L, x)
      BY <1>7, <3>3, <3>4, ImageRebound
    <3>6. \A u \in Rebind!Tools : HooksFor(u)
      BY <2>3, HookedAre
    <3> QED
      BY <3>5, <3>6 DEF OnTheWay
  <2> QED
    BY <1>4, <2>1, <2>2, <2>3
<1>16. Rebind!Now' = p
  <2>1. p = [bindings |-> p.bindings, replaced |-> p.replaced, failures |-> p.failures]
    BY <1>15 DEF PointersTyped
  <2>2. Rebind!Now' = [bindings |-> rebind_bindings', replaced |-> rebind_replaced', failures |-> rebind_failures']
    BY DEF Rebind!Now
  <2> QED
    BY <1>5, <2>1, <2>2
<1>17. RebindTyped'
  <2>1. PointersTyped(Rebind!Now')
    BY <1>15, <1>16
  <2>2. rebind_failures' \in 0 .. MaxFailures
    BY <1>5, <1>15, ToolsAssumption DEF PointersTyped
  <2>3. rebind_todo' \in [Rebind!Tools -> Seq(LoadedOnes')]
    <3>1. Seq(LoadedOnes) \subseteq Seq(L)
      BY <1>7
    <3> QED
      BY <1>0, <1>6, <1>7, <3>1 DEF RebindTyped
  <2> QED
    BY <1>0, <1>6, <1>7, <2>1, <2>2, <2>3 DEF RebindTyped, SomeTwo, HooksFor, PointersTyped
<1>18. ASSUME ~rebind_again PROVE OneAfterOther(f)'
  <2>1. Straight(Rebind!Now, f, LoadedOnes)'
    BY <1>7, <1>15, <1>16, <1>18 DEF Straight, Saved
  <2>2. \A u \in Rebind!Tools : ~HooksFor(u) => rebind_replaced'[u] = "unset"
    BY <1>5, <1>15, <1>18
  <2> QED
    BY <1>6, <1>10, <1>18, <2>1, <2>2 DEF OneAfterOther, HooksFor, LastToHook
<1> QED
  BY <1>6, <1>17, <1>18 DEF RebindInv

\* A call; a helper binds the lazy pointer of its image.
LEMMA CallSteps ==
  ASSUME RebindInv, NEW i \in HookedImages, NEW s \in SlotsOf[i], Rebind!Call(i, s)
  PROVE  RebindInv'
<1>0. RebindTyped
  BY DEF RebindInv
<1>1. PICK h : h = Rebind!Through(i, s)[3]
  OBVIOUS
<1>2. /\ rebind_bindings[i][s] # "unset"
      /\ rebind_bindings' = [j \in HookedImages |->
             IF h = j THEN [rebind_bindings[j] EXCEPT !["lazy"] = "function"] ELSE rebind_bindings[j]]
      /\ UNCHANGED <<rebind_loaded, rebind_replaced, rebind_callbacks, rebind_todo, rebind_hooks_active,
                     rebind_hooks_installed, rebind_again, rebind_failures>>
  BY <1>1 DEF Rebind!Call, Rebind!Unset
<1>3. /\ rebind_bindings = [j \in HookedImages |-> rebind_bindings[j]]
      /\ (\A j \in HookedImages : rebind_bindings[j] \in [SlotsOf[j] -> Rebind!Pointers])
      /\ rebind_replaced \in [Rebind!Tools -> Rebind!Pointers] /\ rebind_failures \in Nat
  BY <1>0 DEF RebindTyped, PointersTyped, Rebind!Now
<1>4. \A j \in HookedImages :
         /\ rebind_bindings'[j] \in [SlotsOf[j] -> Rebind!Pointers]
         /\ h # j => rebind_bindings'[j] = rebind_bindings[j]
         /\ \A r \in SlotsOf[j] : rebind_bindings'[j][r] \in {rebind_bindings[j][r], "function"}
  <2> SUFFICES ASSUME NEW j \in HookedImages
               PROVE  /\ rebind_bindings'[j] \in [SlotsOf[j] -> Rebind!Pointers]
                      /\ h # j => rebind_bindings'[j] = rebind_bindings[j]
                      /\ \A r \in SlotsOf[j] : rebind_bindings'[j][r] \in {rebind_bindings[j][r], "function"}
    OBVIOUS
  <2>1. "function" \in Rebind!Pointers
    BY DEF Rebind!Pointers
  <2>2. PICK b : b = rebind_bindings[j]
    OBVIOUS
  <2>3. b \in [SlotsOf[j] -> Rebind!Pointers]
    BY <1>3, <2>2
  <2>4. rebind_bindings'[j] = IF h = j THEN [b EXCEPT !["lazy"] = "function"] ELSE b
    BY <1>2, <2>2
  <2> QED
    BY <2>1, <2>2, <2>3, <2>4
<1>5. PointersTyped(Rebind!Now')
  <2>1. /\ Rebind!Now' = [bindings |-> rebind_bindings', replaced |-> rebind_replaced, failures |-> rebind_failures]
        /\ Rebind!Now'.bindings = rebind_bindings' /\ Rebind!Now'.replaced = rebind_replaced
        /\ Rebind!Now'.failures = rebind_failures
    BY <1>2 DEF Rebind!Now
  <2>2. rebind_bindings' = [j \in HookedImages |-> rebind_bindings'[j]]
    BY <1>2
  <2> QED
    BY <1>3, <1>4, <2>1, <2>2 DEF PointersTyped
<1>6. LoadedOnes' = LoadedOnes /\ LoadedOnes \subseteq HookedImages
  BY <1>0, <1>2 DEF LoadedOnes, RebindTyped
<1>7. RebindTyped'
  BY <1>0, <1>2, <1>5, <1>6 DEF RebindTyped, SomeTwo, HooksFor, PointersTyped
<1>8. ASSUME NEW f \in Rebind!Tools, OneAfterOther(f) PROVE OneAfterOther(f)'
  <2>1. Straight(Rebind!Now, f, LoadedOnes)
    BY <1>8 DEF OneAfterOther
  <2>2. Rebind!Now.bindings = rebind_bindings /\ Rebind!Now.replaced = rebind_replaced
    BY DEF Rebind!Now
  <2>3. i \in LoadedOnes
    BY <1>2, <2>1, <2>2 DEF Straight
  <2>4. h \in {"function"} \cup LoadedOnes
    <3>1. PointersTyped(Rebind!Now)
      BY <1>0 DEF RebindTyped
    <3> QED
      BY <1>1, <1>6, <2>1, <2>3, <3>1, CallEnds
  <2>5. Rebind!Now'.bindings = rebind_bindings' /\ Rebind!Now'.replaced = rebind_replaced
    BY <1>2 DEF Rebind!Now
  <2>6. Saved(Rebind!Now)' = Saved(Rebind!Now)
    BY <2>2, <2>5 DEF Saved
  <2>7. \A j \in LoadedOnes : \A r \in SlotsOf[j] :
            rebind_bindings'[j][r] \in {"function"} \cup LoadedOnes \cup Saved(Rebind!Now)
    <3>1. \A j \in LoadedOnes : \A r \in SlotsOf[j] :
              rebind_bindings[j][r] \in {"function"} \cup LoadedOnes \cup Saved(Rebind!Now)
      BY <2>1, <2>2 DEF Straight
    <3> QED
      BY <1>4, <1>6, <3>1
  <2>8. \A j \in HookedImages \ LoadedOnes : \A r \in SlotsOf[j] : rebind_bindings'[j][r] = "unset"
    <3>1. \A j \in HookedImages \ LoadedOnes : h # j
      BY <2>4, NamesDiffer
    <3>2. \A j \in HookedImages \ LoadedOnes : \A r \in SlotsOf[j] : rebind_bindings[j][r] = "unset"
      BY <2>1, <2>2 DEF Straight
    <3> QED
      BY <1>4, <3>1, <3>2
  <2>9. Straight(Rebind!Now, f, LoadedOnes)'
    BY <1>6, <2>1, <2>2, <2>5, <2>6, <2>7, <2>8 DEF Straight
  <2> QED
    BY <1>2, <1>8, <2>9 DEF OneAfterOther, HooksFor, LastToHook
<1> QED
  BY <1>2, <1>7, <1>8 DEF RebindInv

\* Each step keeps it.
LEMMA RebindNextKeeps == RebindInv /\ [Rebind!Next]_rebindVars => RebindInv'
<1> SUFFICES ASSUME RebindInv, [Rebind!Next]_rebindVars PROVE RebindInv'
  OBVIOUS
<1>1. CASE UNCHANGED rebindVars
  <2>1. RebindTyped /\ RebindTyped'
    BY <1>1, PointersStay DEF RebindInv, RebindTyped, SomeTwo, HooksFor, rebindVars
  <2>2. \A f : OneAfterOther(f) => OneAfterOther(f)'
    BY <1>1, PointersStay DEF OneAfterOther, HooksFor, LastToHook, rebindVars
  <2> QED
    BY <1>1, <2>1, <2>2 DEF RebindInv, rebindVars
<1>2. CASE Rebind!Install \/ Rebind!Deactivate \/ Rebind!OtherInstall
  BY <1>2, InstallSteps
<1>3. CASE \E t \in Rebind!Tools : Rebind!RebindNext(t)
  BY <1>3, RebindSteps
<1>4. CASE \E i \in HookedImages : Rebind!Load(i)
  BY <1>4, LoadSteps
<1>5. CASE \E i \in HookedImages : \E s \in SlotsOf[i] : Rebind!Call(i, s)
  BY <1>5, CallSteps
<1> QED
  BY <1>1, <1>2, <1>3, <1>4, <1>5 DEF Rebind!Next

\* What the invariant gives.
LEMMA RebindGoals == RebindInv => Rebind!TypeOK /\ Rebind!CallsReachTheFunction
<1> SUFFICES ASSUME RebindInv PROVE Rebind!TypeOK /\ Rebind!CallsReachTheFunction
  OBVIOUS
<1>1. RebindTyped
  BY DEF RebindInv
<1>2. Rebind!TypeOK
  BY <1>1 DEF RebindTyped, PointersTyped, Rebind!TypeOK, Rebind!Now
<1>3. ASSUME ~rebind_again, NEW i \in HookedImages, Rebind!IsLoaded(i), NEW s \in SlotsOf[i]
      PROVE  Rebind!Reaches(i, s)
  <2>1. PICK f \in Rebind!Tools : OneAfterOther(f)
    BY <1>3 DEF RebindInv
  <2>2. i \in LoadedOnes /\ LoadedOnes \subseteq HookedImages
    <3>1. rebind_loaded \in Seq(HookedImages)
      BY <1>1 DEF RebindTyped
    <3>2. PICK k \in DOMAIN rebind_loaded : rebind_loaded[k] = i
      BY <1>3 DEF Rebind!IsLoaded
    <3>3. k \in 1 .. Len(rebind_loaded)
      BY <3>1, <3>2
    <3> QED
      BY <3>1, <3>2, <3>3 DEF LoadedOnes
  <2>3. Rebind!Through(i, s)[3] \in {"function"} \cup LoadedOnes
    BY <1>1, <2>1, <2>2, CallEnds DEF OneAfterOther, RebindTyped
  <2> QED
    BY <2>2, <2>3 DEF Rebind!Reaches, Rebind!Helpers
<1> QED
  BY <1>2, <1>3 DEF Rebind!CallsReachTheFunction

\* Unless the other tool rebinds again, a call by any pointer of any image that is loaded ends at
\* the function, or at the helper that finds it, at any time: for any images, whether they have
\* lazy pointers or others, in any order, and whatever pages can not be written.
THEOREM FunctionIsReached == MCSpec => []CallsReachTheFunction
<1> DEFINE Inv == part = "rebind" => RebindInv
<1>1. MCInit => Inv
  BY RebindInit DEF MCInit
<1>2. Inv /\ [MCNext]_allVars => Inv'
  <2> SUFFICES ASSUME Inv, [MCNext]_allVars, part' = "rebind" PROVE RebindInv'
    OBVIOUS
  <2>1. part = "rebind" /\ [Rebind!Next]_rebindVars
    BY DEF MCNext, RunIntro, RunCached, RunHooks, RunWalk, RunLoaded, RunRebind, RunHandlers, RunCodes,
           RunZombie, RunConsole, allVars
  <2> QED
    BY <2>1, RebindNextKeeps
<1>3. Inv => CallsReachTheFunction
  BY RebindGoals DEF CallsReachTheFunction
<1> QED
  BY <1>1, <1>2, <1>3, PTL DEF MCSpec

-----------------------------------------------------------------------------
(* CrashCodes: what is known of a crash at each step. *)

\* A Mach exception comes with its signal; a signal and an exception of the language are given the
\* exception, and the latter the signal, of a monitor that is enabled, once it has had its turn.
CodesInv ==
    /\ codes_step \in {"captured", "mach", "signal", "written"}
    /\ \/ /\ codes_crash.type = "mach" /\ codes_crash.exception \in Codes!Mask
          /\ codes_crash.signal = Codes!SignalFor(codes_crash.exception, codes_crash.code)
       \/ /\ codes_crash.type = "signal" /\ codes_crash.signal \in Codes!FatalSignals
          /\ codes_crash.exception = IF codes_step # "captured" /\ "mach" \in codes_enabled
                                     THEN Codes!ExceptionFor(codes_crash.signal) ELSE "none"
       \/ /\ codes_crash.type = "exception"
          /\ codes_crash.exception = IF codes_step # "captured" /\ "mach" \in codes_enabled THEN "EXC_CRASH" ELSE "none"
          /\ codes_crash.signal = IF codes_step \in {"signal", "written"} /\ "signal" \in codes_enabled
                                  THEN "SIGABRT" ELSE "none"
    /\ codes_crash = [type |-> codes_crash.type, exception |-> codes_crash.exception, code |-> codes_crash.code,
                      signal |-> codes_crash.signal, sigcode |-> codes_crash.sigcode]

\* When the crash is captured.
LEMMA CodesInit == Codes!Init => CodesInv
<1> SUFFICES ASSUME Codes!Init PROVE CodesInv
  OBVIOUS
<1>1. codes_step = "captured"
  BY DEF Codes!Init
<1>2. CASE \E e \in Codes!Mask, c \in MachCodes :
             codes_crash = [type |-> "mach", exception |-> e, code |-> Codes!Corrected(c),
                            signal |-> Codes!SignalFor(e, Codes!Corrected(c)), sigcode |-> "0"]
  <2>1. PICK e \in Codes!Mask, c \in MachCodes :
             codes_crash = [type |-> "mach", exception |-> e, code |-> Codes!Corrected(c),
                            signal |-> Codes!SignalFor(e, Codes!Corrected(c)), sigcode |-> "0"]
    BY <1>2
  <2> QED
    BY <1>1, <2>1 DEF CodesInv
<1>3. CASE \E s \in Codes!FatalSignals, c \in Codes!Sigcodes :
             codes_crash = [type |-> "signal", exception |-> "none", code |-> "0", signal |-> s, sigcode |-> c]
  BY <1>1, <1>3 DEF CodesInv
<1>4. CASE codes_crash = [type |-> "exception", exception |-> "none", code |-> "0", signal |-> "none", sigcode |-> "0"]
  BY <1>1, <1>4 DEF CodesInv
<1> QED
  BY <1>2, <1>3, <1>4 DEF Codes!Init, Codes!None

\* Each monitor adds what it knows.
LEMMA CodesNext == CodesInv /\ [Codes!Next]_codesVars => CodesInv'
<1> SUFFICES ASSUME CodesInv, [Codes!Next]_codesVars PROVE CodesInv'
  OBVIOUS
<1>1. CASE UNCHANGED codesVars
  BY <1>1 DEF CodesInv, codesVars
<1>2. PICK a, b, c, d, e : codes_crash = [type |-> a, exception |-> b, code |-> c, signal |-> d, sigcode |-> e]
  BY DEF CodesInv
<1>3. CASE Codes!AddMach
  <2>1. codes_step = "captured" /\ codes_step' = "mach" /\ codes_enabled' = codes_enabled
    BY <1>3 DEF Codes!AddMach
  <2>2. codes_crash' = IF "mach" \notin codes_enabled \/ a = "mach" THEN codes_crash
                       ELSE [type |-> a, exception |-> IF a = "signal" THEN Codes!ExceptionFor(d) ELSE "EXC_CRASH",
                             code |-> c, signal |-> d, sigcode |-> e]
    BY <1>2, <1>3 DEF Codes!AddMach
  <2> QED
    BY <1>2, <2>1, <2>2 DEF CodesInv
<1>4. CASE Codes!AddSignal
  <2>1. codes_step = "mach" /\ codes_step' = "signal" /\ codes_enabled' = codes_enabled
    BY <1>4 DEF Codes!AddSignal
  <2>2. codes_crash' = IF "signal" \notin codes_enabled \/ a # "exception" THEN codes_crash
                       ELSE [type |-> a, exception |-> b, code |-> c, signal |-> "SIGABRT", sigcode |-> e]
    BY <1>2, <1>4 DEF Codes!AddSignal
  <2> QED
    BY <1>2, <2>1, <2>2 DEF CodesInv
<1>5. CASE Codes!Write
  BY <1>5 DEF Codes!Write, CodesInv
<1> QED
  BY <1>1, <1>3, <1>4, <1>5 DEF Codes!Next

\* What it gives.
LEMMA CodesGoals == CodesInv => Codes!TypeOK /\ Codes!BothTellTheSame
<1> SUFFICES ASSUME CodesInv PROVE Codes!TypeOK /\ Codes!BothTellTheSame
  OBVIOUS
<1>1. CASE /\ codes_crash.type = "mach" /\ codes_crash.exception \in Codes!Mask
           /\ codes_crash.signal = Codes!SignalFor(codes_crash.exception, codes_crash.code)
  <2>1. PICK x, k : x = codes_crash.exception /\ k = codes_crash.code
    OBVIOUS
  <2>2. x \in {"EXC_BAD_ACCESS", "EXC_BAD_INSTRUCTION", "EXC_ARITHMETIC", "EXC_SOFTWARE", "EXC_BREAKPOINT"}
    BY <1>1, <2>1 DEF Codes!Mask
  <2>3. Codes!SignalFor(x, k) # "" /\ (x # "EXC_SOFTWARE" => x = Codes!ExceptionFor(Codes!SignalFor(x, k)))
    <3>1. CASE x = "EXC_BAD_ACCESS"
      <4>1. Codes!SignalFor(x, k) \in {"SIGSEGV", "SIGBUS"}
        BY <3>1 DEF Codes!SignalFor
      <4>2. \A s \in {"SIGSEGV", "SIGBUS"} : s # "" /\ Codes!ExceptionFor(s) = "EXC_BAD_ACCESS"
        BY DEF Codes!ExceptionFor
      <4> QED
        BY <3>1, <4>1, <4>2
    <3>2. CASE x = "EXC_BAD_INSTRUCTION"
      BY <3>2 DEF Codes!SignalFor, Codes!ExceptionFor
    <3>3. CASE x = "EXC_ARITHMETIC"
      BY <3>3 DEF Codes!SignalFor, Codes!ExceptionFor
    <3>4. CASE x = "EXC_BREAKPOINT"
      BY <3>4 DEF Codes!SignalFor, Codes!ExceptionFor
    <3>5. CASE x = "EXC_SOFTWARE"
      <4>1. Codes!SignalFor(x, k) # ""
        BY <3>5 DEF Codes!SignalFor, Codes!None
      <4> QED
        BY <3>5, <4>1
    <3> QED
      BY <2>2, <3>1, <3>2, <3>3, <3>4, <3>5
  <2>4. x # ""
    BY <2>2
  <2>5. Codes!TypeOK
    BY <1>1, <2>1, <2>3, <2>4 DEF CodesInv, Codes!TypeOK
  <2> QED
    BY <1>1, <2>1, <2>3, <2>5 DEF Codes!BothTellTheSame
<1>2. CASE /\ codes_crash.type = "signal" /\ codes_crash.signal \in Codes!FatalSignals
           /\ codes_crash.exception = IF codes_step # "captured" /\ "mach" \in codes_enabled
                                      THEN Codes!ExceptionFor(codes_crash.signal) ELSE "none"
  <2>1. \A s \in Codes!FatalSignals : s # "" /\ Codes!ExceptionFor(s) # ""
    BY DEF Codes!FatalSignals, Codes!ExceptionFor, Codes!None
  <2> QED
    BY <1>2, <2>1 DEF CodesInv, Codes!TypeOK, Codes!BothTellTheSame
<1>3. CASE /\ codes_crash.type = "exception"
           /\ codes_crash.exception = IF codes_step # "captured" /\ "mach" \in codes_enabled THEN "EXC_CRASH" ELSE "none"
           /\ codes_crash.signal = IF codes_step \in {"signal", "written"} /\ "signal" \in codes_enabled
                                   THEN "SIGABRT" ELSE "none"
  <2>1. Codes!ExceptionFor("SIGABRT") = "EXC_CRASH"
    BY DEF Codes!ExceptionFor
  <2> QED
    BY <1>3, <2>1 DEF CodesInv, Codes!TypeOK, Codes!BothTellTheSame
<1> QED
  BY <1>1, <1>2, <1>3 DEF CodesInv

-----------------------------------------------------------------------------
(* Zombies: the object a thread releases, and what was stored of it. *)

Releases(t) == zombies_pc[t].step # "idle"
Whose(t)    == zombies_pc[t].at
ThrowsOut(t) == Releases(t) /\ zombies_live[Whose(t)].class \in Exceptions
ObjectRecords == [class : Classes, id : Nat \ {0}, readable : BOOLEAN]
ReleaseSteps == {"idle", "object", "name", "address", "text", "free"}

\* A thread releases an object that is there, no other thread releases the same, and its class
\* is noted; what belongs to exceptions is done for exceptions.
ZombiesTyped ==
    /\ zombies_pc \in [Releasers -> [step : ReleaseSteps, at : Addresses \cup {"none"}]]
    /\ zombies_cache \in [Zombie!Slots -> [object : Addresses \cup {"none"}, name : Classes \cup {"none"}]]
    /\ zombies_live \in [Addresses -> {Zombie!Gone} \cup ObjectRecords] /\ zombies_made \in Nat
    /\ zombies_freed \in [Addresses -> Classes \cup {"none"}]
    /\ zombies_last \in [address : Addresses \cup {"none"}, id : Nat, name : Nat]
    /\ \A t \in Releasers :
          /\ ~Releases(t) => zombies_pc[t] = Zombie!Idle
          /\ Releases(t) => /\ Whose(t) \in Addresses /\ zombies_live[Whose(t)] \in ObjectRecords
                            /\ zombies_freed[Whose(t)] = zombies_live[Whose(t)].class
          /\ zombies_pc[t].step \in {"address", "text"} => zombies_live[Whose(t)].class \in Exceptions
    /\ \A t, u \in Releasers : Releases(t) /\ Releases(u) /\ Whose(t) = Whose(u) => t = u

\* In a slot that two have not been in at once, the name is of the object that was stored, once
\* it was.
SlotHasName(s) ==
    /\ \A t, u \in Releasers : Releases(t) /\ Releases(u) /\ SlotAt(Whose(t)) = s /\ SlotAt(Whose(u)) = s => t = u
    /\ \A t \in Releasers : Releases(t) /\ SlotAt(Whose(t)) = s =>
          /\ zombies_pc[t].step # "object" => zombies_cache[s].object = Whose(t)
          /\ zombies_pc[t].step \in {"address", "text", "free"} =>
                zombies_cache[s].name = zombies_freed[Whose(t)]
    /\ Zombie!Quiet(s) => \A a \in Addresses :
          SlotAt(a) = s /\ zombies_cache[s].object = a => zombies_cache[s].name = zombies_freed[a]
SlotsHaveNames == \A s \in Zombie!Slots : s \notin zombies_mixed => SlotHasName(s)

\* Until two exceptions have gone at once, the one that goes is the one that was noted.
LastIsReleased ==
    "exception" \notin zombies_mixed =>
        /\ \A t, u \in Releasers : ThrowsOut(t) /\ ThrowsOut(u) => t = u
        /\ \A t \in Releasers : ThrowsOut(t) =>
              /\ zombies_released = zombies_live[Whose(t)]
              /\ zombies_pc[t].step = "text" =>
                    zombies_last.address = Whose(t) /\ zombies_last.id = zombies_released.id
        /\ (\A t \in Releasers : ThrowsOut(t) => zombies_pc[t].step = "free") =>
              /\ Zombie!LastException = zombies_released.id
              /\ zombies_released.readable => zombies_last.name = zombies_released.id

ZombiesInv == ZombiesTyped /\ SlotsHaveNames /\ LastIsReleased

\* At first nothing was released.
LEMMA ZombiesInit == Zombie!Init => ZombiesInv
<1> SUFFICES ASSUME Zombie!Init PROVE ZombiesInv
  OBVIOUS
<1>1. /\ zombies_live = [a \in Addresses |-> Zombie!Gone] /\ zombies_made = 0
      /\ zombies_pc = [t \in Releasers |-> Zombie!Idle]
      /\ zombies_cache = [s \in Zombie!Slots |-> [object |-> "none", name |-> "none"]]
      /\ zombies_last = [address |-> "none", id |-> 0, name |-> 0]
      /\ zombies_freed = [a \in Addresses |-> "none"] /\ zombies_released = Zombie!Gone /\ zombies_mixed = {}
  BY DEF Zombie!Init, Zombie!None
<1>2. \A t \in Releasers : ~Releases(t) /\ zombies_pc[t] = Zombie!Idle /\ zombies_pc[t].step = "idle"
  BY <1>1 DEF Releases, Zombie!Idle
<1>3. ZombiesTyped
  <2>1. zombies_pc \in [Releasers -> [step : ReleaseSteps, at : Addresses \cup {"none"}]]
    BY <1>1 DEF Zombie!Idle, Zombie!None, ReleaseSteps
  <2> QED
    BY <1>1, <1>2, <2>1 DEF ZombiesTyped
<1>4. SlotsHaveNames
  <2>1. \A s \in Zombie!Slots : zombies_cache[s].object \notin Addresses
    BY <1>1, ToolsAssumption
  <2> QED
    BY <1>2, <2>1 DEF SlotsHaveNames, SlotHasName
<1>5. LastIsReleased
  <2>1. Zombie!LastException = 0 /\ zombies_released.id = 0 /\ ~zombies_released.readable
    BY <1>1 DEF Zombie!LastException, Zombie!None, Zombie!Gone
  <2> QED
    BY <1>2, <2>1 DEF LastIsReleased, ThrowsOut
<1> QED
  BY <1>3, <1>4, <1>5 DEF ZombiesInv

\* Who releases is in a slot, and that is the slot of a place.
LEMMA PlaceOfRelease ==
  ASSUME ZombiesTyped, NEW t \in Releasers, Releases(t)
  PROVE  /\ Whose(t) \in Addresses /\ zombies_live[Whose(t)] \in ObjectRecords
         /\ SlotAt(Whose(t)) \in Zombie!Slots /\ Whose(t) # "none"
         /\ zombies_freed[Whose(t)] = zombies_live[Whose(t)].class
BY ToolsAssumption DEF ZombiesTyped, Zombie!Slots

\* An object is made.
LEMMA AllocStep ==
  ASSUME ZombiesInv, NEW a \in Addresses, NEW c \in Classes, Zombie!Alloc(a, c)
  PROVE  ZombiesInv'
<1>1. /\ zombies_live[a] = Zombie!Gone /\ \A t \in Releasers : zombies_pc[t].at # a
      /\ zombies_made' = zombies_made + 1 /\ zombies_pc' = zombies_pc /\ zombies_cache' = zombies_cache
      /\ zombies_last' = zombies_last /\ zombies_freed' = zombies_freed
      /\ zombies_released' = zombies_released /\ zombies_mixed' = zombies_mixed
  BY DEF Zombie!Alloc
<1>2. PICK r \in BOOLEAN :
           zombies_live' = [zombies_live EXCEPT ![a] = [class |-> c, id |-> zombies_made + 1, readable |-> r]]
  BY DEF Zombie!Alloc
<1>3. zombies_made + 1 \in Nat \ {0} /\ zombies_live \in [Addresses -> {Zombie!Gone} \cup ObjectRecords]
  BY DEF ZombiesInv, ZombiesTyped
<1>4. [class |-> c, id |-> zombies_made + 1, readable |-> r] \in ObjectRecords
  BY <1>3 DEF ObjectRecords
<1>5. zombies_live' \in [Addresses -> {Zombie!Gone} \cup ObjectRecords]
      /\ \A b \in Addresses : b # a => zombies_live'[b] = zombies_live[b]
  BY <1>2, <1>3, <1>4
<1>6. \A t \in Releasers : /\ Releases(t)' <=> Releases(t)
                           /\ Whose(t)' = Whose(t) /\ Whose(t) # a
                           /\ Releases(t) => zombies_live'[Whose(t)] = zombies_live[Whose(t)]
  BY <1>1, <1>5, PlaceOfRelease DEF ZombiesInv, Releases, Whose
<1>7. ZombiesTyped'
  BY <1>1, <1>3, <1>5, <1>6 DEF ZombiesInv, ZombiesTyped, Releases, Whose
<1>8. SlotsHaveNames'
  BY <1>1, <1>6 DEF ZombiesInv, SlotsHaveNames, SlotHasName, Releases, Whose, Zombie!Quiet, Zombie!Slots
<1>9. \A t \in Releasers : ThrowsOut(t)' <=> ThrowsOut(t)
  BY <1>6 DEF ThrowsOut, Whose, Releases
<1>10. LastIsReleased'
  BY <1>1, <1>6, <1>9 DEF ZombiesInv, LastIsReleased, ThrowsOut, Whose, Zombie!LastException, Zombie!Gone, Zombie!None
<1> QED
  BY <1>7, <1>8, <1>10 DEF ZombiesInv

\* An object begins to go.
LEMMA DeallocStep ==
  ASSUME ZombiesInv, NEW t \in Releasers, NEW a \in Addresses, Zombie!Dealloc(t, a)
  PROVE  ZombiesInv'
<1> DEFINE Throws == zombies_live[a].class \in Exceptions
<1>1. /\ zombies_pc[t] = Zombie!Idle /\ zombies_live[a] # Zombie!Gone
      /\ \A u \in Releasers : zombies_pc[u].at # a
      /\ zombies_pc' = [zombies_pc EXCEPT ![t] = [step |-> "object", at |-> a]]
      /\ zombies_freed' = [zombies_freed EXCEPT ![a] = zombies_live[a].class]
      /\ zombies_released' = IF Throws THEN zombies_live[a] ELSE zombies_released
      /\ zombies_live' = zombies_live /\ zombies_made' = zombies_made /\ zombies_cache' = zombies_cache
      /\ zombies_last' = zombies_last
  BY DEF Zombie!Dealloc, Zombie!IsException
<1>2. /\ zombies_mixed \subseteq zombies_mixed'
      /\ Zombie!Others(t, SlotAt(a)) => SlotAt(a) \in zombies_mixed'
      /\ Throws /\ (\E u \in Releasers : zombies_pc[u].step # "idle" /\ zombies_live[zombies_pc[u].at].class \in Exceptions)
            => "exception" \in zombies_mixed'
  BY DEF Zombie!Dealloc, Zombie!IsException, Zombie!In
<1>3. /\ zombies_live[a] \in ObjectRecords /\ zombies_live[a].class \in Classes
      /\ zombies_pc \in [Releasers -> [step : ReleaseSteps, at : Addresses \cup {"none"}]]
      /\ zombies_freed \in [Addresses -> Classes \cup {"none"}]
  BY <1>1 DEF ZombiesInv, ZombiesTyped, ObjectRecords
<1>4. /\ zombies_pc' \in [Releasers -> [step : ReleaseSteps, at : Addresses \cup {"none"}]]
      /\ zombies_freed' \in [Addresses -> Classes \cup {"none"}]
      /\ zombies_pc'[t] = [step |-> "object", at |-> a] /\ zombies_freed'[a] = zombies_live[a].class
      /\ \A u \in Releasers : u # t => zombies_pc'[u] = zombies_pc[u]
      /\ \A b \in Addresses : b # a => zombies_freed'[b] = zombies_freed[b]
  BY <1>1, <1>3 DEF ReleaseSteps
<1>5. /\ Releases(t)' /\ Whose(t)' = a /\ ~Releases(t)
      /\ \A u \in Releasers : u # t => (Releases(u)' <=> Releases(u)) /\ Whose(u)' = Whose(u) /\ Whose(u) # a
  BY <1>1, <1>4 DEF Releases, Whose, Zombie!Idle
<1>6. ZombiesTyped'
  <2>1. \A u \in Releasers :
            /\ ~Releases(u)' => zombies_pc'[u] = Zombie!Idle
            /\ Releases(u)' => /\ Whose(u)' \in Addresses /\ zombies_live'[Whose(u)'] \in ObjectRecords
                               /\ zombies_freed'[Whose(u)'] = zombies_live'[Whose(u)'].class
            /\ zombies_pc'[u].step \in {"address", "text"} => zombies_live'[Whose(u)'].class \in Exceptions
    <3> SUFFICES ASSUME NEW u \in Releasers
                 PROVE  /\ ~Releases(u)' => zombies_pc'[u] = Zombie!Idle
                        /\ Releases(u)' => /\ Whose(u)' \in Addresses /\ zombies_live'[Whose(u)'] \in ObjectRecords
                                           /\ zombies_freed'[Whose(u)'] = zombies_live'[Whose(u)'].class
                        /\ zombies_pc'[u].step \in {"address", "text"} => zombies_live'[Whose(u)'].class \in Exceptions
      OBVIOUS
    <3>1. CASE u = t
      BY <1>1, <1>3, <1>4, <1>5, <3>1
    <3>2. CASE u # t
      BY <1>1, <1>4, <1>5, <3>2 DEF ZombiesInv, ZombiesTyped
    <3> QED
      BY <3>1, <3>2
  <2>2. \A u, v \in Releasers : Releases(u)' /\ Releases(v)' /\ Whose(u)' = Whose(v)' => u = v
    BY <1>5 DEF ZombiesInv, ZombiesTyped
  <2> QED
    BY <1>1, <1>4, <2>1, <2>2 DEF ZombiesInv, ZombiesTyped, Releases, Whose, Zombie!Idle
<1>7. SlotsHaveNames'
  <2> SUFFICES ASSUME NEW s \in Zombie!Slots, s \notin zombies_mixed'
               PROVE  SlotHasName(s)'
    BY DEF SlotsHaveNames, Zombie!Slots
  <2>1. SlotHasName(s)
    BY <1>2 DEF ZombiesInv, SlotsHaveNames
  <2>2. CASE s = SlotAt(a)
    <3>1. \A u \in Releasers : u # t => ~(Releases(u) /\ SlotAt(Whose(u)) = s)
      BY <1>2, <2>2 DEF Zombie!Others, Releases, Whose
    <3>2. \A u \in Releasers : Releases(u)' /\ SlotAt(Whose(u)') = s => u = t
      BY <1>5, <3>1
    <3>3. ~Zombie!Quiet(s)'
      BY <1>4, <2>2 DEF Zombie!Quiet
    <3>4. zombies_pc'[t].step = "object"
      BY <1>4
    <3> QED
      BY <3>2, <3>3, <3>4 DEF SlotHasName, Whose, Releases
  <2>3. CASE s # SlotAt(a)
    <3>1. \A u \in Releasers : Releases(u)' /\ SlotAt(Whose(u)') = s =>
              Releases(u) /\ SlotAt(Whose(u)) = s /\ Whose(u)' = Whose(u) /\ zombies_pc'[u] = zombies_pc[u]
              /\ zombies_freed'[Whose(u)] = zombies_freed[Whose(u)]
      BY <1>4, <1>5, <2>3, PlaceOfRelease DEF ZombiesInv
    <3>2. Zombie!Quiet(s)' => Zombie!Quiet(s)
      BY <1>1, <1>4 DEF Zombie!Quiet, Zombie!Idle
    <3>3. \A b \in Addresses : SlotAt(b) = s => zombies_freed'[b] = zombies_freed[b]
      BY <1>4, <2>3
    <3>4. \A u, v \in Releasers :
              Releases(u)' /\ Releases(v)' /\ SlotAt(Whose(u)') = s /\ SlotAt(Whose(v)') = s => u = v
      BY <2>1, <3>1 DEF SlotHasName
    <3>5. \A u \in Releasers : Releases(u)' /\ SlotAt(Whose(u)') = s =>
              /\ zombies_pc'[u].step # "object" => zombies_cache'[s].object = Whose(u)'
              /\ zombies_pc'[u].step \in {"address", "text", "free"} =>
                    zombies_cache'[s].name = zombies_freed'[Whose(u)']
      BY <1>1, <2>1, <3>1 DEF SlotHasName
    <3> QED
      BY <1>1, <2>1, <3>2, <3>3, <3>4, <3>5 DEF SlotHasName, Releases, Whose
  <2> QED
    BY <2>2, <2>3
<1>8. LastIsReleased'
  <2> SUFFICES ASSUME "exception" \notin zombies_mixed' PROVE LastIsReleased'
    BY DEF LastIsReleased
  <2>1. /\ ThrowsOut(t)' <=> Throws
        /\ \A u \in Releasers : u # t => (ThrowsOut(u)' <=> ThrowsOut(u))
        /\ ~ThrowsOut(t) /\ zombies_pc'[t].step = "object"
    BY <1>1, <1>4, <1>5 DEF ThrowsOut, Releases, Whose
  <2>2. CASE Throws
    <3>1. \A u \in Releasers : ~ThrowsOut(u)
      BY <1>2, <2>2 DEF ThrowsOut, Releases, Whose
    <3>2. \A u \in Releasers : ThrowsOut(u)' => u = t
      BY <2>1, <3>1
    <3>3. ThrowsOut(t)' /\ zombies_released' = zombies_live'[Whose(t)']
      BY <1>1, <1>5, <2>1, <2>2
    <3> QED
      BY <2>1, <3>2, <3>3 DEF LastIsReleased, ThrowsOut, Releases, Whose
  <2>3. CASE ~Throws
    <3>1. \A u \in Releasers : ThrowsOut(u)' => ThrowsOut(u) /\ zombies_pc'[u] = zombies_pc[u] /\ Whose(u)' = Whose(u)
      BY <1>4, <1>5, <2>1, <2>3
    <3>2. \A u \in Releasers : ThrowsOut(u) => ThrowsOut(u)' /\ zombies_pc'[u] = zombies_pc[u]
      BY <1>4, <2>1
    <3>3. zombies_released' = zombies_released /\ "exception" \notin zombies_mixed
      BY <1>1, <1>2, <2>3
    <3>4. Zombie!LastException' = Zombie!LastException
      BY <1>1 DEF Zombie!LastException, Zombie!Gone, Zombie!None
    <3>5. /\ \A u, v \in Releasers : ThrowsOut(u) /\ ThrowsOut(v) => u = v
          /\ \A u \in Releasers : ThrowsOut(u) =>
                /\ zombies_released = zombies_live[Whose(u)]
                /\ zombies_pc[u].step = "text" =>
                      zombies_last.address = Whose(u) /\ zombies_last.id = zombies_released.id
          /\ (\A u \in Releasers : ThrowsOut(u) => zombies_pc[u].step = "free") =>
                /\ Zombie!LastException = zombies_released.id
                /\ zombies_released.readable => zombies_last.name = zombies_released.id
      BY <3>3 DEF ZombiesInv, LastIsReleased
    <3>6. \A u, v \in Releasers : ThrowsOut(u)' /\ ThrowsOut(v)' => u = v
      BY <3>1, <3>5
    <3>7. \A u \in Releasers : ThrowsOut(u)' =>
                /\ zombies_released' = zombies_live'[Whose(u)']
                /\ zombies_pc'[u].step = "text" =>
                      zombies_last'.address = Whose(u)' /\ zombies_last'.id = zombies_released'.id
      BY <1>1, <3>1, <3>3, <3>5
    <3>8. (\A u \in Releasers : ThrowsOut(u)' => zombies_pc'[u].step = "free") =>
                /\ Zombie!LastException' = zombies_released'.id
                /\ zombies_released'.readable => zombies_last'.name = zombies_released'.id
      BY <1>1, <3>2, <3>3, <3>4, <3>5
    <3> QED
      BY <3>6, <3>7, <3>8 DEF LastIsReleased
  <2> QED
    BY <2>2, <2>3
<1> QED
  BY <1>6, <1>7, <1>8 DEF ZombiesInv

\* A step of a release that is on its way: who releases what stays.
LEMMA OnItsWay ==
  ASSUME ZombiesInv, NEW t \in Releasers, Releases(t), NEW q \in ReleaseSteps \ {"idle"},
         zombies_pc' = [zombies_pc EXCEPT ![t].step = q],
         UNCHANGED <<zombies_live, zombies_made, zombies_freed, zombies_released, zombies_mixed>>,
         q \in {"address", "text"} => ThrowsOut(t),
         zombies_cache' \in [Zombie!Slots -> [object : Addresses \cup {"none"}, name : Classes \cup {"none"}]],
         zombies_last' \in [address : Addresses \cup {"none"}, id : Nat, name : Nat]
  PROVE  /\ ZombiesTyped'
         /\ zombies_pc'[t].step = q /\ \A u \in Releasers : u # t => zombies_pc'[u] = zombies_pc[u]
         /\ \A u \in Releasers : (Releases(u)' <=> Releases(u)) /\ Whose(u)' = Whose(u) /\ (ThrowsOut(u)' <=> ThrowsOut(u))
         /\ \A s : Zombie!Quiet(s)' => Zombie!Quiet(s)
<1>1. zombies_pc \in [Releasers -> [step : ReleaseSteps, at : Addresses \cup {"none"}]]
  BY DEF ZombiesInv, ZombiesTyped
<1>2. /\ zombies_pc' \in [Releasers -> [step : ReleaseSteps, at : Addresses \cup {"none"}]]
      /\ zombies_pc'[t].step = q /\ zombies_pc'[t].at = zombies_pc[t].at
      /\ \A u \in Releasers : u # t => zombies_pc'[u] = zombies_pc[u]
  BY <1>1
<1>3. \A u \in Releasers : (Releases(u)' <=> Releases(u)) /\ Whose(u)' = Whose(u)
  BY <1>2 DEF Releases, Whose
<1>4. \A u \in Releasers : ThrowsOut(u)' <=> ThrowsOut(u)
  BY <1>3 DEF ThrowsOut
<1>5. \A s : Zombie!Quiet(s)' => Zombie!Quiet(s)
  BY <1>2, <1>3 DEF Zombie!Quiet, Releases, Whose
<1>6. \A u \in Releasers :
          /\ ~Releases(u)' => zombies_pc'[u] = Zombie!Idle
          /\ zombies_pc'[u].step \in {"address", "text"} => zombies_live'[Whose(u)'].class \in Exceptions
  <2> SUFFICES ASSUME NEW u \in Releasers
               PROVE  /\ ~Releases(u)' => zombies_pc'[u] = Zombie!Idle
                      /\ zombies_pc'[u].step \in {"address", "text"} => zombies_live'[Whose(u)'].class \in Exceptions
    OBVIOUS
  <2>1. CASE u = t
    BY <1>2, <1>3, <2>1 DEF ThrowsOut
  <2>2. CASE u # t
    BY <1>2, <1>3, <2>2 DEF ZombiesInv, ZombiesTyped
  <2> QED
    BY <2>1, <2>2
<1>7. \A u \in Releasers : Releases(u)' =>
          /\ Whose(u)' \in Addresses /\ zombies_live'[Whose(u)'] \in ObjectRecords
          /\ zombies_freed'[Whose(u)'] = zombies_live'[Whose(u)'].class
  BY <1>3, PlaceOfRelease DEF ZombiesInv
<1>8. \A u, v \in Releasers : Releases(u)' /\ Releases(v)' /\ Whose(u)' = Whose(v)' => u = v
  BY <1>3 DEF ZombiesInv, ZombiesTyped
<1>9. zombies_live' \in [Addresses -> {Zombie!Gone} \cup ObjectRecords] /\ zombies_made' \in Nat
      /\ zombies_freed' \in [Addresses -> Classes \cup {"none"}]
  BY DEF ZombiesInv, ZombiesTyped
<1>10. ZombiesTyped'
  <2>1. zombies_cache' \in [Zombie!Slots -> [object : Addresses \cup {"none"}, name : Classes \cup {"none"}]]'
    BY DEF Zombie!Slots
  <2> QED
    BY <1>2, <1>6, <1>7, <1>8, <1>9, <2>1 DEF ZombiesTyped, Releases, Whose, Zombie!Idle, Zombie!Slots
<1> QED
  BY <1>2, <1>3, <1>4, <1>5, <1>10

\* The name of an object in its slot, as long as it goes alone there.
LEMMA StoreSteps ==
  ASSUME ZombiesInv, NEW t \in Releasers, Zombie!StoreObject(t) \/ Zombie!StoreName(t)
  PROVE  ZombiesInv'
<1> DEFINE a == Whose(t)
           q == IF zombies_pc[t].step = "object" THEN "name"
                ELSE IF zombies_live[a].class \in Exceptions THEN "address" ELSE "free"
<1>1. Releases(t) /\ zombies_pc[t].step \in {"object", "name"} /\ q \in ReleaseSteps \ {"idle"}
      /\ (q = "address" => ThrowsOut(t))
  BY DEF Zombie!StoreObject, Zombie!StoreName, Releases, ReleaseSteps, ThrowsOut
<1>2. /\ zombies_pc' = [zombies_pc EXCEPT ![t].step = q]
      /\ UNCHANGED <<zombies_live, zombies_made, zombies_last, zombies_freed, zombies_released, zombies_mixed>>
  BY DEF Zombie!StoreObject, Zombie!StoreName, Zombie!At, Zombie!In, Zombie!IsException, Whose
<1>3. /\ a \in Addresses /\ zombies_live[a] \in ObjectRecords /\ SlotAt(a) \in Zombie!Slots
      /\ zombies_freed[a] = zombies_live[a].class /\ zombies_live[a].class \in Classes
  BY <1>1, PlaceOfRelease DEF ZombiesInv, ObjectRecords
<1>4. zombies_cache \in [Zombie!Slots -> [object : Addresses \cup {"none"}, name : Classes \cup {"none"}]]
      /\ zombies_last \in [address : Addresses \cup {"none"}, id : Nat, name : Nat]
  BY DEF ZombiesInv, ZombiesTyped
<1>5. zombies_cache' = IF zombies_pc[t].step = "object"
                       THEN [zombies_cache EXCEPT ![SlotAt(a)].object = a]
                       ELSE [zombies_cache EXCEPT ![SlotAt(a)].name = zombies_live[a].class]
  BY DEF Zombie!StoreObject, Zombie!StoreName, Zombie!In, Whose
<1>6. /\ zombies_cache' \in [Zombie!Slots -> [object : Addresses \cup {"none"}, name : Classes \cup {"none"}]]
      /\ \A s \in Zombie!Slots : s # SlotAt(a) => zombies_cache'[s] = zombies_cache[s]
      /\ zombies_pc[t].step = "object" => zombies_cache'[SlotAt(a)].object = a
      /\ zombies_pc[t].step = "name" => /\ zombies_cache'[SlotAt(a)].name = zombies_live[a].class
                                        /\ zombies_cache'[SlotAt(a)].object = zombies_cache[SlotAt(a)].object
  BY <1>3, <1>4, <1>5
<1> HIDE DEF q
<1>7. /\ ZombiesTyped'
      /\ zombies_pc'[t].step = q /\ \A u \in Releasers : u # t => zombies_pc'[u] = zombies_pc[u]
      /\ \A u \in Releasers : (Releases(u)' <=> Releases(u)) /\ Whose(u)' = Whose(u) /\ (ThrowsOut(u)' <=> ThrowsOut(u))
      /\ \A s : Zombie!Quiet(s)' => Zombie!Quiet(s)
  <2>1. q \in {"address", "text"} => ThrowsOut(t)
    BY <1>1 DEF q
  <2> QED
    BY <1>1, <1>2, <1>4, <1>6, <2>1, OnItsWay
<1>8. SlotsHaveNames'
  <2> SUFFICES ASSUME NEW s \in Zombie!Slots, s \notin zombies_mixed
               PROVE  SlotHasName(s)'
    BY <1>2 DEF SlotsHaveNames, Zombie!Slots
  <2>1. SlotHasName(s)
    BY DEF ZombiesInv, SlotsHaveNames
  <2>2. \A u, v \in Releasers :
            Releases(u)' /\ Releases(v)' /\ SlotAt(Whose(u)') = s /\ SlotAt(Whose(v)') = s => u = v
    BY <1>7, <2>1 DEF SlotHasName
  <2>3. CASE s = SlotAt(a)
    <3>1. ~Zombie!Quiet(s) /\ ~Zombie!Quiet(s)'
      BY <1>1, <1>7, <2>3 DEF Zombie!Quiet, Releases, Whose
    <3>2. \A u \in Releasers : Releases(u)' /\ SlotAt(Whose(u)') = s => u = t
      BY <1>1, <1>7, <2>1, <2>3 DEF SlotHasName
    <3>3. zombies_cache'[s].object = a
      BY <1>1, <1>6, <2>1, <2>3 DEF SlotHasName
    <3>4. q \in {"address", "text", "free"} => zombies_cache'[s].name = zombies_freed'[a]
      <4>1. q \in {"address", "text", "free"} => zombies_pc[t].step = "name"
        BY <1>1 DEF q
      <4> QED
        BY <1>2, <1>3, <1>6, <2>3, <4>1
    <3>5. \A u \in Releasers : Releases(u)' /\ SlotAt(Whose(u)') = s =>
              /\ zombies_pc'[u].step # "object" => zombies_cache'[s].object = Whose(u)'
              /\ zombies_pc'[u].step \in {"address", "text", "free"} =>
                    zombies_cache'[s].name = zombies_freed'[Whose(u)']
      BY <1>7, <3>2, <3>3, <3>4
    <3> QED
      BY <2>2, <3>1, <3>5 DEF SlotHasName, Releases, Whose
  <2>4. CASE s # SlotAt(a)
    <3>1. \A u \in Releasers : Releases(u)' /\ SlotAt(Whose(u)') = s => u # t
      BY <1>7, <2>4
    <3>2. \A u \in Releasers : Releases(u)' /\ SlotAt(Whose(u)') = s =>
              /\ zombies_pc'[u].step # "object" => zombies_cache'[s].object = Whose(u)'
              /\ zombies_pc'[u].step \in {"address", "text", "free"} =>
                    zombies_cache'[s].name = zombies_freed'[Whose(u)']
      BY <1>2, <1>6, <1>7, <2>1, <2>4, <3>1 DEF SlotHasName
    <3>3. zombies_cache'[s] = zombies_cache[s] /\ zombies_freed' = zombies_freed
      BY <1>2, <1>6, <2>4
    <3>4. Zombie!Quiet(s)' => \A b \in Addresses :
              SlotAt(b) = s /\ zombies_cache'[s].object = b => zombies_cache'[s].name = zombies_freed'[b]
      BY <1>7, <2>1, <3>3 DEF SlotHasName
    <3> QED
      BY <2>2, <3>2, <3>4 DEF SlotHasName, Releases, Whose
  <2> QED
    BY <2>3, <2>4
<1>9. LastIsReleased'
  <2> SUFFICES ASSUME "exception" \notin zombies_mixed PROVE LastIsReleased'
    BY <1>2 DEF LastIsReleased
  <2>1. \A u, v \in Releasers : ThrowsOut(u)' /\ ThrowsOut(v)' => u = v
    BY <1>7 DEF ZombiesInv, LastIsReleased
  <2>2. \A u \in Releasers : ThrowsOut(u)' => zombies_released' = zombies_live'[Whose(u)']
    BY <1>2, <1>7 DEF ZombiesInv, LastIsReleased
  <2>3. \A u \in Releasers : ThrowsOut(u)' /\ zombies_pc'[u].step = "text" =>
            zombies_last'.address = Whose(u)' /\ zombies_last'.id = zombies_released'.id
    <3>1. zombies_pc'[t].step # "text"
      BY <1>7 DEF q
    <3> QED
      BY <1>2, <1>7, <3>1 DEF ZombiesInv, LastIsReleased
  <2>4. (\A u \in Releasers : ThrowsOut(u)' => zombies_pc'[u].step = "free") =>
            \A u \in Releasers : ThrowsOut(u) => zombies_pc[u].step = "free"
    <3>1. ThrowsOut(t) => zombies_pc'[t].step # "free"
      BY <1>1, <1>7 DEF ThrowsOut, q
    <3> QED
      BY <1>7, <3>1
  <2>5. Zombie!LastException' = Zombie!LastException
    BY <1>2 DEF Zombie!LastException, Zombie!Gone, Zombie!None
  <2>6. (\A u \in Releasers : ThrowsOut(u)' => zombies_pc'[u].step = "free") =>
            /\ Zombie!LastException' = zombies_released'.id
            /\ zombies_released'.readable => zombies_last'.name = zombies_released'.id
    BY <1>2, <2>4, <2>5 DEF ZombiesInv, LastIsReleased
  <2> QED
    BY <2>1, <2>2, <2>3, <2>6 DEF LastIsReleased
<1> QED
  BY <1>7, <1>8, <1>9 DEF ZombiesInv

\* What is noted of an exception is of the one that goes, as long as it goes alone.
LEMMA ExceptionSteps ==
  ASSUME ZombiesInv, NEW t \in Releasers, Zombie!StoreAddress(t) \/ Zombie!StoreText(t)
  PROVE  ZombiesInv'
<1> DEFINE a == Whose(t)
           q == IF zombies_pc[t].step = "address" THEN "text" ELSE "free"
<1>1. Releases(t) /\ zombies_pc[t].step \in {"address", "text"} /\ q \in ReleaseSteps \ {"idle"}
  BY DEF Zombie!StoreAddress, Zombie!StoreText, Releases, ReleaseSteps
<1>2. /\ zombies_pc' = [zombies_pc EXCEPT ![t].step = q]
      /\ UNCHANGED <<zombies_live, zombies_made, zombies_cache, zombies_freed, zombies_released, zombies_mixed>>
  BY DEF Zombie!StoreAddress, Zombie!StoreText, Zombie!At
<1>3. /\ a \in Addresses /\ zombies_live[a] \in ObjectRecords /\ SlotAt(a) \in Zombie!Slots /\ ThrowsOut(t)
      /\ zombies_live[a].id \in Nat
  <2>1. zombies_live[a].class \in Exceptions
    BY <1>1 DEF ZombiesInv, ZombiesTyped
  <2> QED
    BY <1>1, <2>1, PlaceOfRelease DEF ZombiesInv, ObjectRecords, ThrowsOut
<1>4. zombies_cache \in [Zombie!Slots -> [object : Addresses \cup {"none"}, name : Classes \cup {"none"}]]
      /\ zombies_last \in [address : Addresses \cup {"none"}, id : Nat, name : Nat]
  BY DEF ZombiesInv, ZombiesTyped
<1>5. zombies_last' = IF zombies_pc[t].step = "address"
                      THEN [zombies_last EXCEPT !.address = a, !.id = zombies_live[a].id]
                      ELSE IF zombies_live[a].readable THEN [zombies_last EXCEPT !.name = zombies_live[a].id]
                      ELSE zombies_last
  BY DEF Zombie!StoreAddress, Zombie!StoreText, Zombie!In, Whose
<1>6. /\ zombies_last' \in [address : Addresses \cup {"none"}, id : Nat, name : Nat]
      /\ zombies_pc[t].step = "address" => zombies_last'.address = a /\ zombies_last'.id = zombies_live[a].id
      /\ zombies_pc[t].step = "text" =>
            /\ zombies_last'.address = zombies_last.address /\ zombies_last'.id = zombies_last.id
            /\ zombies_live[a].readable => zombies_last'.name = zombies_live[a].id
  BY <1>3, <1>4, <1>5
<1> HIDE DEF q
<1>7. /\ ZombiesTyped'
      /\ zombies_pc'[t].step = q /\ \A u \in Releasers : u # t => zombies_pc'[u] = zombies_pc[u]
      /\ \A u \in Releasers : (Releases(u)' <=> Releases(u)) /\ Whose(u)' = Whose(u) /\ (ThrowsOut(u)' <=> ThrowsOut(u))
      /\ \A s : Zombie!Quiet(s)' => Zombie!Quiet(s)
  BY <1>1, <1>2, <1>3, <1>4, <1>6, OnItsWay
<1>8. SlotsHaveNames'
  <2> SUFFICES ASSUME NEW s \in Zombie!Slots, s \notin zombies_mixed
               PROVE  SlotHasName(s)'
    BY <1>2 DEF SlotsHaveNames, Zombie!Slots
  <2>1. SlotHasName(s)
    BY DEF ZombiesInv, SlotsHaveNames
  <2>2. \A u, v \in Releasers :
            Releases(u)' /\ Releases(v)' /\ SlotAt(Whose(u)') = s /\ SlotAt(Whose(v)') = s => u = v
    BY <1>7, <2>1 DEF SlotHasName
  <2>3. \A u \in Releasers : Releases(u)' /\ SlotAt(Whose(u)') = s =>
            /\ zombies_pc'[u].step # "object" => zombies_cache'[s].object = Whose(u)'
            /\ zombies_pc'[u].step \in {"address", "text", "free"} =>
                  zombies_cache'[s].name = zombies_freed'[Whose(u)']
    <3> SUFFICES ASSUME NEW u \in Releasers, Releases(u), SlotAt(Whose(u)) = s
                 PROVE  /\ zombies_pc'[u].step # "object" => zombies_cache[s].object = Whose(u)
                        /\ zombies_pc'[u].step \in {"address", "text", "free"} =>
                              zombies_cache[s].name = zombies_freed[Whose(u)]
      BY <1>2, <1>7
    <3>1. /\ zombies_pc[u].step # "object" => zombies_cache[s].object = Whose(u)
          /\ zombies_pc[u].step \in {"address", "text", "free"} => zombies_cache[s].name = zombies_freed[Whose(u)]
      BY <2>1 DEF SlotHasName
    <3>2. CASE u = t
      BY <1>1, <3>1, <3>2
    <3>3. CASE u # t
      BY <1>7, <3>1, <3>3
    <3> QED
      BY <3>2, <3>3
  <2>4. Zombie!Quiet(s)' => \A b \in Addresses :
            SlotAt(b) = s /\ zombies_cache'[s].object = b => zombies_cache'[s].name = zombies_freed'[b]
    BY <1>2, <1>7, <2>1 DEF SlotHasName
  <2> QED
    BY <2>2, <2>3, <2>4 DEF SlotHasName, Releases, Whose
<1>9. LastIsReleased'
  <2> SUFFICES ASSUME "exception" \notin zombies_mixed PROVE LastIsReleased'
    BY <1>2 DEF LastIsReleased
  <2>1. \A u \in Releasers : ThrowsOut(u)' <=> u = t
    BY <1>3, <1>7 DEF ZombiesInv, LastIsReleased
  <2>2. zombies_released = zombies_live[a] /\ zombies_released' = zombies_released /\ zombies_live' = zombies_live
    BY <1>2, <1>3 DEF ZombiesInv, LastIsReleased
  <2>3. zombies_pc[t].step = "text" => zombies_last.address = a /\ zombies_last.id = zombies_live[a].id
    BY <1>3, <2>2 DEF ZombiesInv, LastIsReleased
  <2>4. zombies_last'.address = a /\ zombies_last'.id = zombies_live[a].id /\ a # "none"
    BY <1>1, <1>3, <1>6, <2>3, ToolsAssumption
  <2>5. zombies_pc'[t].step = "free" => zombies_pc[t].step = "text"
    BY <1>1, <1>7 DEF q
  <2>6. Zombie!LastException' = zombies_live[a].id
    BY <2>4 DEF Zombie!LastException, Zombie!None
  <2>7. Whose(t)' = a
    BY <1>7
  <2>8. \A u \in Releasers : ThrowsOut(u)' =>
            /\ zombies_released' = zombies_live'[Whose(u)']
            /\ zombies_pc'[u].step = "text" =>
                  zombies_last'.address = Whose(u)' /\ zombies_last'.id = zombies_released'.id
    BY <2>1, <2>2, <2>4, <2>7
  <2>9. (\A u \in Releasers : ThrowsOut(u)' => zombies_pc'[u].step = "free") =>
            /\ Zombie!LastException' = zombies_released'.id
            /\ zombies_released'.readable => zombies_last'.name = zombies_released'.id
    <3> SUFFICES ASSUME \A u \in Releasers : ThrowsOut(u)' => zombies_pc'[u].step = "free"
                 PROVE  /\ Zombie!LastException' = zombies_released'.id
                        /\ zombies_released'.readable => zombies_last'.name = zombies_released'.id
      OBVIOUS
    <3>1. zombies_pc[t].step = "text"
      BY <2>1, <2>5
    <3> QED
      BY <1>6, <2>2, <2>6, <3>1
  <2>10. \A u, v \in Releasers : ThrowsOut(u)' /\ ThrowsOut(v)' => u = v
    BY <2>1
  <2> QED
    BY <2>8, <2>9, <2>10 DEF LastIsReleased
<1> QED
  BY <1>7, <1>8, <1>9 DEF ZombiesInv

\* An object is gone.
LEMMA FreeStep ==
  ASSUME ZombiesInv, NEW t \in Releasers, Zombie!Free(t)
  PROVE  ZombiesInv'
<1> DEFINE a == Whose(t)
<1>1. /\ zombies_pc[t].step = "free" /\ zombies_pc' = [zombies_pc EXCEPT ![t] = Zombie!Idle]
      /\ zombies_live' = [zombies_live EXCEPT ![a] = Zombie!Gone]
      /\ UNCHANGED <<zombies_made, zombies_cache, zombies_last, zombies_freed, zombies_released, zombies_mixed>>
      /\ Releases(t)
  BY DEF Zombie!Free, Whose, Releases
<1>2. /\ a \in Addresses /\ SlotAt(a) \in Zombie!Slots
      /\ zombies_pc \in [Releasers -> [step : ReleaseSteps, at : Addresses \cup {"none"}]]
      /\ zombies_live \in [Addresses -> {Zombie!Gone} \cup ObjectRecords]
  BY <1>1, PlaceOfRelease DEF ZombiesInv, ZombiesTyped
<1>3. Zombie!Idle \in [step : ReleaseSteps, at : Addresses \cup {"none"}] /\ Zombie!Idle.step = "idle"
  BY DEF Zombie!Idle, ReleaseSteps, Zombie!None
<1>4. /\ zombies_pc' \in [Releasers -> [step : ReleaseSteps, at : Addresses \cup {"none"}]]
      /\ zombies_live' \in [Addresses -> {Zombie!Gone} \cup ObjectRecords]
      /\ zombies_pc'[t] = Zombie!Idle
      /\ \A u \in Releasers : u # t => zombies_pc'[u] = zombies_pc[u]
      /\ \A b \in Addresses : b # a => zombies_live'[b] = zombies_live[b]
  BY <1>1, <1>2, <1>3
<1>5. ~Releases(t)'
  BY <1>3, <1>4 DEF Releases
<1>6. \A u \in Releasers : Releases(u)' =>
          /\ u # t /\ Releases(u) /\ Whose(u)' = Whose(u) /\ zombies_pc'[u] = zombies_pc[u]
          /\ Whose(u) \in Addresses /\ Whose(u) # a /\ zombies_live'[Whose(u)] = zombies_live[Whose(u)]
  <2> SUFFICES ASSUME NEW u \in Releasers, Releases(u)'
               PROVE  /\ u # t /\ Releases(u) /\ Whose(u)' = Whose(u) /\ zombies_pc'[u] = zombies_pc[u]
                      /\ Whose(u) \in Addresses /\ Whose(u) # a /\ zombies_live'[Whose(u)] = zombies_live[Whose(u)]
    OBVIOUS
  <2>1. u # t /\ Releases(u) /\ Whose(u)' = Whose(u) /\ zombies_pc'[u] = zombies_pc[u]
    BY <1>4, <1>5 DEF Releases, Whose
  <2>2. Whose(u) \in Addresses /\ Whose(u) # a
    BY <1>1, <2>1, PlaceOfRelease DEF ZombiesInv, ZombiesTyped
  <2> QED
    BY <1>4, <2>1, <2>2
<1>7. \A u \in Releasers : Releases(u) /\ u # t => Releases(u)'
  BY <1>4 DEF Releases
<1>8. \A u \in Releasers : ThrowsOut(u)' <=> u # t /\ ThrowsOut(u)
  BY <1>6, <1>7 DEF ThrowsOut
<1>9. ZombiesTyped'
  <2>1. \A u \in Releasers :
            /\ ~Releases(u)' => zombies_pc'[u] = Zombie!Idle
            /\ Releases(u)' => /\ Whose(u)' \in Addresses /\ zombies_live'[Whose(u)'] \in ObjectRecords
                               /\ zombies_freed'[Whose(u)'] = zombies_live'[Whose(u)'].class
            /\ zombies_pc'[u].step \in {"address", "text"} => zombies_live'[Whose(u)'].class \in Exceptions
    <3> SUFFICES ASSUME NEW u \in Releasers
                 PROVE  /\ ~Releases(u)' => zombies_pc'[u] = Zombie!Idle
                        /\ Releases(u)' => /\ Whose(u)' \in Addresses /\ zombies_live'[Whose(u)'] \in ObjectRecords
                                           /\ zombies_freed'[Whose(u)'] = zombies_live'[Whose(u)'].class
                        /\ zombies_pc'[u].step \in {"address", "text"} => zombies_live'[Whose(u)'].class \in Exceptions
      OBVIOUS
    <3>1. CASE u = t
      BY <1>3, <1>4, <1>5, <3>1
    <3>2. CASE u # t
      <4>1. CASE Releases(u)
        BY <1>1, <1>6, <1>7, <3>2, <4>1 DEF ZombiesInv, ZombiesTyped
      <4>2. CASE ~Releases(u)
        BY <1>3, <1>4, <1>6, <3>2, <4>2 DEF ZombiesInv, ZombiesTyped
      <4> QED
        BY <4>1, <4>2
    <3> QED
      BY <3>1, <3>2
  <2>2. \A u, v \in Releasers : Releases(u)' /\ Releases(v)' /\ Whose(u)' = Whose(v)' => u = v
    BY <1>6 DEF ZombiesInv, ZombiesTyped
  <2> QED
    BY <1>1, <1>4, <2>1, <2>2 DEF ZombiesInv, ZombiesTyped, Releases, Whose, Zombie!Idle, Zombie!Slots
<1>10. SlotsHaveNames'
  <2> SUFFICES ASSUME NEW s \in Zombie!Slots, s \notin zombies_mixed
               PROVE  SlotHasName(s)'
    BY <1>1 DEF SlotsHaveNames, Zombie!Slots
  <2>1. SlotHasName(s)
    BY DEF ZombiesInv, SlotsHaveNames
  <2>2. \A u, v \in Releasers :
            Releases(u)' /\ Releases(v)' /\ SlotAt(Whose(u)') = s /\ SlotAt(Whose(v)') = s => u = v
    BY <1>6, <2>1 DEF SlotHasName
  <2>3. \A u \in Releasers : Releases(u)' /\ SlotAt(Whose(u)') = s =>
            /\ zombies_pc'[u].step # "object" => zombies_cache'[s].object = Whose(u)'
            /\ zombies_pc'[u].step \in {"address", "text", "free"} =>
                  zombies_cache'[s].name = zombies_freed'[Whose(u)']
    BY <1>1, <1>6, <2>1 DEF SlotHasName
  <2>4. CASE s = SlotAt(a)
    <3>1. zombies_cache[s].object = a /\ zombies_cache[s].name = zombies_freed[a]
      BY <1>1, <2>1, <2>4 DEF SlotHasName
    <3> QED
      BY <1>1, <2>2, <2>3, <3>1 DEF SlotHasName, Releases, Whose
  <2>5. CASE s # SlotAt(a)
    <3>1. Zombie!Quiet(s)' => Zombie!Quiet(s)
      BY <1>4, <2>5 DEF Zombie!Quiet, Whose
    <3> QED
      BY <1>1, <2>1, <2>2, <2>3, <3>1 DEF SlotHasName, Releases, Whose
  <2> QED
    BY <2>4, <2>5
<1>11. LastIsReleased'
  <2> SUFFICES ASSUME "exception" \notin zombies_mixed PROVE LastIsReleased'
    BY <1>1 DEF LastIsReleased
  <2>1. \A u, v \in Releasers : ThrowsOut(u)' /\ ThrowsOut(v)' => u = v
    BY <1>8 DEF ZombiesInv, LastIsReleased
  <2>2. \A u \in Releasers : ThrowsOut(u)' =>
            /\ zombies_released' = zombies_live'[Whose(u)']
            /\ zombies_pc'[u].step = "text" =>
                  zombies_last'.address = Whose(u)' /\ zombies_last'.id = zombies_released'.id
    <3> SUFFICES ASSUME NEW u \in Releasers, ThrowsOut(u)'
                 PROVE  /\ zombies_released' = zombies_live'[Whose(u)']
                        /\ zombies_pc'[u].step = "text" =>
                              zombies_last'.address = Whose(u)' /\ zombies_last'.id = zombies_released'.id
      OBVIOUS
    <3>1. Releases(u)' /\ ThrowsOut(u)
      BY <1>8 DEF ThrowsOut
    <3> QED
      BY <1>1, <1>6, <3>1 DEF ZombiesInv, LastIsReleased
  <2>3. (\A u \in Releasers : ThrowsOut(u)' => zombies_pc'[u].step = "free") =>
            \A u \in Releasers : ThrowsOut(u) => zombies_pc[u].step = "free"
    BY <1>1, <1>4, <1>8
  <2>4. Zombie!LastException' = Zombie!LastException
    BY <1>1 DEF Zombie!LastException, Zombie!Gone, Zombie!None
  <2>5. (\A u \in Releasers : ThrowsOut(u)' => zombies_pc'[u].step = "free") =>
            /\ Zombie!LastException' = zombies_released'.id
            /\ zombies_released'.readable => zombies_last'.name = zombies_released'.id
    BY <1>1, <2>3, <2>4 DEF ZombiesInv, LastIsReleased
  <2> QED
    BY <2>1, <2>2, <2>5 DEF LastIsReleased
<1> QED
  BY <1>9, <1>10, <1>11 DEF ZombiesInv

\* Every step keeps it.
LEMMA ZombiesNext == ZombiesInv /\ [Zombie!Next]_zombiesVars => ZombiesInv'
<1> SUFFICES ASSUME ZombiesInv, [Zombie!Next]_zombiesVars PROVE ZombiesInv'
  OBVIOUS
<1>1. CASE UNCHANGED zombiesVars
  BY <1>1 DEF zombiesVars, ZombiesInv, ZombiesTyped, SlotsHaveNames, SlotHasName, LastIsReleased, Releases, Whose,
              ThrowsOut, Zombie!Quiet, Zombie!LastException, Zombie!Gone, Zombie!None, Zombie!Slots, Zombie!Idle
<1>2. CASE Zombie!Next
  BY <1>2, AllocStep, DeallocStep, StoreSteps, ExceptionSteps, FreeStep DEF Zombie!Next
<1> QED
  BY <1>1, <1>2

\* What it gives.
LEMMA ZombiesGoals == ZombiesInv => Zombie!TypeOK /\ Zombie!ZombieHasItsClass /\ Zombie!ExceptionIsTheLast
<1> SUFFICES ASSUME ZombiesInv PROVE Zombie!TypeOK /\ Zombie!ZombieHasItsClass /\ Zombie!ExceptionIsTheLast
  OBVIOUS
<1>1. Zombie!TypeOK
  BY DEF ZombiesInv, ZombiesTyped, Zombie!TypeOK, ReleaseSteps, Zombie!None
<1>2. Zombie!ZombieHasItsClass
  <2> SUFFICES ASSUME NEW a \in Addresses, Zombie!ZombieAt(a) # "none", Zombie!Quiet(SlotAt(a)),
                      SlotAt(a) \notin zombies_mixed
               PROVE  Zombie!ZombieAt(a) = zombies_freed[a]
    BY DEF Zombie!ZombieHasItsClass, Zombie!None
  <2>1. SlotAt(a) \in Zombie!Slots
    BY DEF Zombie!Slots
  <2>2. zombies_cache[SlotAt(a)].object = a /\ Zombie!ZombieAt(a) = zombies_cache[SlotAt(a)].name
    BY DEF Zombie!ZombieAt, Zombie!ClassName, Zombie!None
  <2> QED
    BY <2>1, <2>2 DEF ZombiesInv, SlotsHaveNames, SlotHasName
<1>3. Zombie!ExceptionIsTheLast
  <2> SUFFICES ASSUME "exception" \notin zombies_mixed,
                      \A t \in Releasers : zombies_pc[t].step \notin {"object", "name", "address", "text"}
               PROVE  Zombie!LastException = zombies_released.id
                      /\ (zombies_released.readable => zombies_last.name = zombies_released.id)
    BY DEF Zombie!ExceptionIsTheLast
  <2>1. \A t \in Releasers : zombies_pc[t].step \in ReleaseSteps
    BY DEF ZombiesInv, ZombiesTyped
  <2>2. \A t \in Releasers : ThrowsOut(t) => zombies_pc[t].step = "free"
    BY <2>1 DEF ThrowsOut, Releases, ReleaseSteps
  <2> QED
    BY <2>2 DEF ZombiesInv, LastIsReleased
<1> QED
  BY <1>1, <1>2, <1>3

-----------------------------------------------------------------------------
(* ConsoleLog: what is in the file, and where the next piece will be written. *)

\* A set of natural numbers that is not empty has a least element.
LEMMA Least ==
  ASSUME NEW T \in SUBSET Nat, T # {}
  PROVE  \E m \in T : \A k \in T : m <= k
<1> DEFINE R == OpToRel(<, Nat)
<1>1. IsWellFoundedOn(R, Nat)
  BY NatLessThanWellFounded
<1>2. PICK m \in T : \A k \in T : ~ (<<k, m>> \in R)
  BY <1>1, WFMin
<1>3. \A k \in T : ~ (k < m)
  BY <1>2 DEF OpToRel
<1> QED
  BY <1>3

Began(t) == console_pc[t].step \in {"close", "assign"}
BegunAt(n) == n \in Numbers /\ console_fds[n] = [to |-> "log", at |-> 0] /\ console_file = <<>>

\* Until two cross, one thread at a time begins the log anew, none writes meanwhile, and what is
\* written is written to the descriptor in the global, at the end of the file.
LogInv ==
    ~console_crossed =>
        /\ console_file \in Seq(Loggers \X (0..4)) /\ console_file = console_since
        /\ \A t, u \in Loggers : Began(t) /\ Began(u) => t = u
        /\ \A t, u \in Loggers : ~(Began(t) /\ console_pc[u].step = "write")
        /\ \A t \in Loggers : console_pc[t].step = "write" => console_pc[t].fd = console_gFd
        /\ (\A t \in Loggers : ~Began(t)) =>
              /\ console_gFd \in Numbers
              /\ console_fds[console_gFd] = [to |-> "log", at |-> Len(console_file)]
        /\ \A t \in Loggers :
              /\ console_pc[t].step = "close" =>
                    BegunAt(console_opened) /\ console_gFd \in Numbers /\ console_gFd # console_opened
              /\ console_pc[t].step = "assign" => BegunAt(console_pc[t].fd)
ConsoleInv == Console!TypeOK /\ LogInv
LogSteps == {"idle", "log", "write", "read", "open", "close", "assign"}
LogPlaces == [step : LogSteps, piece : 0..4, fd : Numbers \cup {0}]

\* What is known of the types.
LEMMA LogTypes ==
  ASSUME Console!TypeOK
  PROVE  /\ console_pc \in [Loggers -> LogPlaces]
         /\ console_fds \in [Numbers -> [to : {"closed", "log", "other"}, at : Nat]]
         /\ console_gFd \in Numbers \cup {0} /\ console_opened \in Numbers \cup {0} /\ console_crossed \in BOOLEAN
         /\ 0 \notin Numbers
         /\ [step |-> "idle", piece |-> 0, fd |-> 0] \in LogPlaces
         /\ Console!Closed \in [to : {"closed", "log", "other"}, at : Nat]
<1>1. console_pc \in [Loggers -> LogPlaces]
  BY DEF Console!TypeOK, Console!Failure, LogPlaces, LogSteps
<1>2. 0 \notin Numbers
  BY ToolsAssumption
<1> QED
  BY <1>1, <1>2 DEF Console!TypeOK, LogPlaces, LogSteps, Console!Closed

\* The least descriptor that is closed.
LEMMA LowestIsClosed ==
  ASSUME \E n \in Numbers : console_fds[n] = Console!Closed
  PROVE  Console!Lowest \in Numbers /\ console_fds[Console!Lowest] = Console!Closed
<1> DEFINE C == {n \in Numbers : console_fds[n] = Console!Closed}
<1>1. C \in SUBSET Nat /\ C # {}
  BY ToolsAssumption
<1>2. PICK m \in C : \A k \in C : m <= k
  BY <1>1, Least
<1>3. m \in Numbers /\ console_fds[m] = Console!Closed
      /\ \A k \in Numbers : console_fds[k] = Console!Closed => m <= k
  BY <1>2
<1> QED
  BY <1>3 DEF Console!Lowest

\* A piece at the end of the file.
LEMMA AtTheEnd ==
  ASSUME NEW S, NEW f \in Seq(S), NEW x \in S
  PROVE  Console!At(f, Len(f), x) = Append(f, x)
<1> DEFINE g == Console!At(f, Len(f), x)
<1>1. Len(f) \in Nat /\ ~(Len(f) < Len(f))
  OBVIOUS
<1>2. g = [i \in 1 .. (Len(f) + 1) |-> IF i = Len(f) + 1 THEN x ELSE IF i <= Len(f) THEN f[i] ELSE Console!Hole]
  BY <1>1 DEF Console!At
<1>3. \A i \in 1 .. (Len(f) + 1) : g[i] \in S /\ g[i] = IF i = Len(f) + 1 THEN x ELSE f[i]
  BY <1>1, <1>2
<1> HIDE DEF g
<1>4. g \in Seq(S) /\ Len(g) = Len(f) + 1
  <2>1. g \in [1 .. (Len(f) + 1) -> S]
    BY <1>2, <1>3
  <2>2. Len(f) + 1 \in Nat
    BY <1>1
  <2>3. g \in Seq(S)
    BY <2>1, <2>2
  <2>4. DOMAIN g = 1 .. (Len(f) + 1)
    BY <1>2
  <2> QED
    BY <2>2, <2>3, <2>4, LenProperties
<1>5. PICK h : h = Append(f, x)
  OBVIOUS
<1>6. h \in Seq(S) /\ Len(h) = Len(f) + 1 /\ \A i \in 1 .. (Len(f) + 1) : h[i] = IF i = Len(f) + 1 THEN x ELSE f[i]
  <2>1. /\ Append(f, x) \in Seq(S) /\ Len(Append(f, x)) = Len(f) + 1
        /\ \A i \in 1 .. Len(f) : Append(f, x)[i] = f[i]
        /\ Append(f, x)[Len(f) + 1] = x
    BY AppendProperties
  <2> QED
    BY <1>1, <1>5, <2>1
<1>7. g = h
  BY <1>3, <1>4, <1>6, SeqEqual
<1> QED
  BY <1>5, <1>7 DEF g

\* The log is begun when the crash reporter is installed.
LEMMA ConsoleInit == Console!Init => ConsoleInv
<1> SUFFICES ASSUME Console!Init PROVE ConsoleInv
  OBVIOUS
<1>1. PICK n \in Numbers :
          /\ console_file = <<>> /\ console_since = <<>> /\ console_crossed = FALSE
          /\ console_fds = [m \in Numbers |-> IF m = n THEN [to |-> "log", at |-> 0] ELSE Console!Closed]
          /\ console_gFd = n /\ console_opened = n
          /\ console_pc = [t \in Loggers |-> Console!Idle]
  BY DEF Console!Init
<1>2. \A t \in Loggers : console_pc[t].step = "idle" /\ ~Began(t)
  BY <1>1 DEF Console!Idle, Began
<1>3. Console!TypeOK
  <2>1. \A m \in Numbers : console_fds[m] \in [to : {"closed", "log", "other"}, at : Nat]
    BY <1>1 DEF Console!Closed
  <2>2. console_fds \in [Numbers -> [to : {"closed", "log", "other"}, at : Nat]]
    BY <1>1, <2>1
  <2>3. console_pc \in [Loggers -> [step : LogSteps, piece : 0..4, fd : Numbers \cup {0}]]
    BY <1>1 DEF Console!Idle, LogSteps
  <2>4. console_crossed \in BOOLEAN
    BY <1>1
  <2> QED
    BY <1>1, <2>2, <2>3, <2>4 DEF Console!TypeOK, LogSteps, Console!Failure
<1>4. console_file \in Seq(Loggers \X (0..4)) /\ Len(console_file) = 0
  BY <1>1
<1>5. console_fds[console_gFd] = [to |-> "log", at |-> Len(console_file)]
  BY <1>1, <1>4
<1>6. LogInv
  BY <1>1, <1>2, <1>4, <1>5 DEF LogInv
<1> QED
  BY <1>3, <1>6 DEF ConsoleInv

\* A thread begins a line, and sees where to write.
LEMMA LineSteps ==
  ASSUME ConsoleInv, NEW t \in Loggers, Console!Log(t) \/ Console!Load(t)
  PROVE  ConsoleInv'
<1> DEFINE q == IF console_pc[t].step = "log" THEN "write" ELSE "log"
<1>1. /\ console_pc[t].step \in {"idle", "log"}
      /\ UNCHANGED <<console_file, console_fds, console_gFd, console_opened, console_since>>
      /\ console_crossed' \in BOOLEAN /\ (console_crossed => console_crossed')
      /\ console_pc[t].step = "log" /\ Console!Beginning(t) => console_crossed'
  <2>1. CASE Console!Log(t)
    <3>1. console_pc[t].step = "idle"
      BY <2>1 DEF Console!Log, Console!Idle
    <3> QED
      BY <2>1, <3>1, LogTypes DEF ConsoleInv, Console!Log
  <2>2. CASE Console!Load(t)
    <3>1. console_crossed' = (console_crossed \/ Console!Beginning(t))
      BY <2>2 DEF Console!Load
    <3>2. console_crossed' \in BOOLEAN
      BY <3>1
    <3> QED
      BY <2>2, <3>1, <3>2 DEF Console!Load
  <2> QED
    BY <2>1, <2>2
<1>2. console_pc' = IF console_pc[t].step = "log"
                    THEN [console_pc EXCEPT ![t].step = "write", ![t].fd = console_gFd]
                    ELSE [console_pc EXCEPT ![t] = [step |-> "log", piece |-> 1, fd |-> 0]]
  <2>1. CASE Console!Log(t)
    <3>1. console_pc[t].step = "idle"
      BY <2>1 DEF Console!Log, Console!Idle
    <3>2. [Console!Idle EXCEPT !.step = "log", !.piece = 1] = [step |-> "log", piece |-> 1, fd |-> 0]
      <4>1. [Console!Idle EXCEPT !.step = "log"] = [step |-> "log", piece |-> 0, fd |-> 0]
        BY DEF Console!Idle
      <4>2. [[step |-> "log", piece |-> 0, fd |-> 0] EXCEPT !.piece = 1] = [step |-> "log", piece |-> 1, fd |-> 0]
        OBVIOUS
      <4> QED
        BY <4>1, <4>2
    <3> QED
      BY <2>1, <3>1, <3>2 DEF Console!Log
  <2>2. CASE Console!Load(t)
    BY <2>2 DEF Console!Load
  <2> QED
    BY <2>1, <2>2
<1>3. /\ console_pc' \in [Loggers -> LogPlaces]
      /\ console_pc'[t].step = q /\ (q = "write" => console_pc'[t].fd = console_gFd)
      /\ \A u \in Loggers : u # t => console_pc'[u] = console_pc[u]
  <2>1. [step |-> "log", piece |-> 1, fd |-> 0] \in LogPlaces
    BY DEF LogPlaces, LogSteps
  <2> QED
    BY <1>2, <2>1, LogTypes DEF ConsoleInv, LogPlaces, LogSteps
<1>4. Console!TypeOK'
  BY <1>1, <1>3 DEF ConsoleInv, Console!TypeOK, LogPlaces, LogSteps, Console!Failure
<1>5. \A u \in Loggers : (Began(u)' <=> Began(u)) /\ (Began(u) => u # t)
  BY <1>1, <1>3 DEF Began
<1>6. LogInv'
  <2> SUFFICES ASSUME ~console_crossed' PROVE LogInv'
    BY DEF LogInv
  <2>1. ~console_crossed
    BY <1>1
  <2>2. \A u, v \in Loggers : ~(Began(u)' /\ console_pc'[v].step = "write")
    <3> SUFFICES ASSUME NEW u \in Loggers, NEW v \in Loggers, Began(u)', console_pc'[v].step = "write" PROVE FALSE
      OBVIOUS
    <3>1. CASE v = t
      <4>1. q = "write" /\ u # t /\ Began(u)
        BY <1>3, <1>5, <3>1
      <4>2. Console!Beginning(t)
        BY <4>1 DEF Console!Beginning, Began
      <4> QED
        BY <1>1, <4>1, <4>2
    <3>2. CASE v # t
      BY <1>3, <1>5, <2>1, <3>2 DEF ConsoleInv, LogInv
    <3> QED
      BY <3>1, <3>2
  <2>3. \A u \in Loggers : console_pc'[u].step = "write" => console_pc'[u].fd = console_gFd'
    BY <1>1, <1>3, <2>1 DEF ConsoleInv, LogInv
  <2>4. \A u \in Loggers :
            /\ console_pc'[u].step = "close" =>
                  BegunAt(console_opened') /\ console_gFd' \in Numbers /\ console_gFd' # console_opened'
            /\ console_pc'[u].step = "assign" => BegunAt(console_pc'[u].fd)
    BY <1>1, <1>3, <2>1 DEF ConsoleInv, LogInv
  <2>5. /\ console_file' \in Seq(Loggers \X (0..4)) /\ console_file' = console_since'
        /\ \A u, v \in Loggers : Began(u)' /\ Began(v)' => u = v
        /\ (\A u \in Loggers : ~Began(u)') =>
              /\ console_gFd' \in Numbers
              /\ console_fds'[console_gFd'] = [to |-> "log", at |-> Len(console_file')]
    BY <1>1, <1>5, <2>1 DEF ConsoleInv, LogInv
  <2> QED
    BY <1>1, <2>2, <2>3, <2>4, <2>5 DEF LogInv, BegunAt, Began
<1> QED
  BY <1>4, <1>6 DEF ConsoleInv

\* After a piece comes the next, or the line is at its end.
LEMMA AfterAPiece ==
  ASSUME ConsoleInv, NEW t \in Loggers,
         console_pc' = [console_pc EXCEPT ![t] = Console!AfterPiece(@.piece)]
  PROVE  /\ console_pc' \in [Loggers -> LogPlaces] /\ console_pc'[t].step \in {"idle", "log"}
         /\ \A u \in Loggers : u # t => console_pc'[u] = console_pc[u]
<1>1. console_pc \in [Loggers -> LogPlaces] /\ console_pc[t].piece \in 0..4
  BY LogTypes DEF ConsoleInv, LogPlaces
<1>2. Console!Idle \in LogPlaces /\ Console!Idle.step = "idle"
  BY DEF Console!Idle, LogPlaces, LogSteps
<1>3. console_pc[t].piece < 3 => [step |-> "log", piece |-> console_pc[t].piece + 1, fd |-> 0] \in LogPlaces
  <2>1. console_pc[t].piece < 3 => console_pc[t].piece + 1 \in 0..4
    BY <1>1
  <2> QED
    BY <2>1 DEF LogPlaces, LogSteps
<1>4. PICK r \in LogPlaces : r.step \in {"idle", "log"} /\ console_pc' = [console_pc EXCEPT ![t] = r]
  <2>1. CASE console_pc[t].piece < 3
    BY <1>3, <2>1 DEF Console!AfterPiece, Console!Pieces
  <2>2. CASE ~(console_pc[t].piece < 3)
    BY <1>2, <2>2 DEF Console!AfterPiece, Console!Pieces
  <2> QED
    BY <2>1, <2>2
<1> QED
  BY <1>1, <1>4

\* A piece is written.
LEMMA WriteStep ==
  ASSUME ConsoleInv, NEW t \in Loggers, Console!Write(t)
  PROVE  ConsoleInv'
<1> DEFINE n == console_pc[t].fd
           piece == <<t, console_pc[t].piece>>
           open == n # 0 /\ console_fds[n].to # "closed"
<1>1. /\ console_pc[t].step = "write"
      /\ UNCHANGED <<console_gFd, console_opened>>
      /\ console_crossed' = (console_crossed \/ Console!Beginning(t))
      /\ console_since' = Append(console_since, piece)
      /\ console_pc' = [console_pc EXCEPT ![t] = Console!AfterPiece(@.piece)]
  BY DEF Console!Write
<1>2. /\ open => console_fds' = [console_fds EXCEPT ![n].at = @ + 1]
      /\ open /\ console_fds[n].to = "log" => console_file' = Console!At(console_file, console_fds[n].at, piece)
      /\ ~open => console_fds' = console_fds
  BY DEF Console!Write
<1>3. /\ console_pc \in [Loggers -> LogPlaces] /\ n \in Numbers \cup {0} /\ console_pc[t].piece \in 0..4
      /\ console_fds \in [Numbers -> [to : {"closed", "log", "other"}, at : Nat]]
  BY LogTypes DEF ConsoleInv, LogPlaces
<1>4. /\ console_pc' \in [Loggers -> LogPlaces] /\ console_pc'[t].step \in {"idle", "log"}
      /\ \A u \in Loggers : u # t => console_pc'[u] = console_pc[u]
  BY <1>1, AfterAPiece
<1>5. /\ console_fds' \in [Numbers -> [to : {"closed", "log", "other"}, at : Nat]]
      /\ open => console_fds'[n] = [to |-> console_fds[n].to, at |-> console_fds[n].at + 1]
  BY <1>2, <1>3
<1>6. Console!TypeOK'
  <2>1. console_crossed' \in BOOLEAN
    BY <1>1
  <2> QED
    BY <1>1, <1>4, <1>5, <2>1 DEF ConsoleInv, Console!TypeOK, LogPlaces, LogSteps, Console!Failure
<1>7. LogInv'
  <2> SUFFICES ASSUME ~console_crossed' PROVE LogInv'
    BY DEF LogInv
  <2>1. ~console_crossed /\ ~Console!Beginning(t)
    BY <1>1
  <2>2. \A u \in Loggers : ~Began(u)
    BY <1>1, <2>1 DEF ConsoleInv, LogInv
  <2>3. \A u \in Loggers : ~Began(u)' /\ console_pc'[u].step \notin {"close", "assign"}
    BY <1>4, <2>2 DEF Began
  <2>4. /\ console_gFd \in Numbers /\ n = console_gFd /\ n # 0
        /\ console_fds[n] = [to |-> "log", at |-> Len(console_file)]
        /\ console_file \in Seq(Loggers \X (0..4)) /\ console_file = console_since
    BY <1>1, <2>1, <2>2, ToolsAssumption DEF ConsoleInv, LogInv
  <2>5. open /\ console_fds[n].to = "log" /\ console_fds[n].at = Len(console_file)
    BY <2>4
  <2>6. piece \in Loggers \X (0..4)
    BY <1>3
  <2>7. console_file' = Append(console_file, piece)
    <3> HIDE DEF piece
    <3>1. console_file' = Console!At(console_file, Len(console_file), piece)
      BY <1>2, <2>5
    <3>2. Console!At(console_file, Len(console_file), piece) = Append(console_file, piece)
      BY <2>4, <2>6, AtTheEnd
    <3> QED
      BY <3>1, <3>2
  <2>8. console_file' \in Seq(Loggers \X (0..4)) /\ Len(console_file') = Len(console_file) + 1
    <3> HIDE DEF piece
    <3> QED
      BY <2>4, <2>6, <2>7, AppendProperties
  <2>9. console_file' = console_since'
    BY <1>1, <2>4, <2>7
  <2>10. console_fds'[console_gFd'] = [to |-> "log", at |-> Len(console_file')]
    BY <1>1, <1>5, <2>4, <2>5, <2>8
  <2>11. \A u \in Loggers : console_pc'[u].step = "write" => console_pc'[u].fd = console_gFd'
    BY <1>1, <1>4, <2>1 DEF ConsoleInv, LogInv
  <2> QED
    BY <1>1, <2>3, <2>4, <2>8, <2>9, <2>10, <2>11 DEF LogInv
<1> QED
  BY <1>6, <1>7 DEF ConsoleInv

\* A piece cannot be written: nothing is in the file, and nothing is missed in it.
LEMMA WriteFailsStep ==
  ASSUME ConsoleInv, NEW t \in Loggers, Console!WriteFails(t)
  PROVE  ConsoleInv'
<1>1. /\ console_pc' = [console_pc EXCEPT ![t] = Console!AfterPiece(@.piece)]
      /\ console_crossed' = (console_crossed \/ Console!Beginning(t))
      /\ console_pc[t].step = "write"
      /\ UNCHANGED <<console_file, console_fds, console_gFd, console_opened, console_since>>
  BY DEF Console!WriteFails
<1>2. /\ console_pc' \in [Loggers -> LogPlaces] /\ console_pc'[t].step \in {"idle", "log"}
      /\ \A u \in Loggers : u # t => console_pc'[u] = console_pc[u]
  BY <1>1, AfterAPiece
<1>3. Console!TypeOK'
  <2>1. console_crossed' \in BOOLEAN
    BY <1>1
  <2> QED
    BY <1>1, <1>2, <2>1 DEF ConsoleInv, Console!TypeOK, LogPlaces, LogSteps, Console!Failure
<1>4. \A u \in Loggers : (Began(u)' <=> Began(u)) /\ (console_pc'[u].step \in {"write", "close", "assign"} => u # t)
  BY <1>1, <1>2 DEF Began
<1>5. LogInv'
  <2> SUFFICES ASSUME ~console_crossed' PROVE LogInv'
    BY DEF LogInv
  <2>1. ~console_crossed
    BY <1>1
  <2> QED
    BY <1>1, <1>2, <1>4, <2>1 DEF ConsoleInv, LogInv, BegunAt, Began
<1> QED
  BY <1>3, <1>5 DEF ConsoleInv

\* A report is written, another part of the program opens a file.
LEMMA AsideSteps ==
  ASSUME ConsoleInv, (\E t \in Loggers : Console!Report(t)) \/ Console!OpenOther
  PROVE  ConsoleInv'
<1>1. CASE \E t \in Loggers : Console!Report(t)
  <2>1. PICK t \in Loggers : Console!Report(t)
    BY <1>1
  <2>2. /\ console_pc[t].step = "idle" /\ console_pc' = [console_pc EXCEPT ![t].step = "open"]
        /\ UNCHANGED <<console_file, console_fds, console_gFd, console_opened, console_since, console_crossed>>
    BY <2>1 DEF Console!Report, Console!Idle
  <2>3. /\ console_pc' \in [Loggers -> LogPlaces] /\ console_pc'[t].step = "open"
        /\ \A u \in Loggers : u # t => console_pc'[u] = console_pc[u]
    BY <2>2, LogTypes DEF ConsoleInv, LogPlaces, LogSteps
  <2>4. Console!TypeOK'
    BY <2>2, <2>3 DEF ConsoleInv, Console!TypeOK, LogPlaces, LogSteps, Console!Failure
  <2>5. \A u \in Loggers : (Began(u)' <=> Began(u)) /\ (console_pc'[u].step \in {"write", "close", "assign"} => u # t)
    BY <2>2, <2>3 DEF Began
  <2>6. LogInv'
    BY <2>2, <2>3, <2>5 DEF ConsoleInv, LogInv, BegunAt, Began
  <2> QED
    BY <2>4, <2>6 DEF ConsoleInv
<1>2. CASE Console!OpenOther
  <2>1. /\ \E n \in Numbers : console_fds[n] = Console!Closed
        /\ console_fds' = [console_fds EXCEPT ![Console!Lowest] = [to |-> "other", at |-> 0]]
        /\ UNCHANGED <<console_file, console_gFd, console_opened, console_pc, console_since, console_crossed>>
    BY <1>2 DEF Console!OpenOther
  <2>2. Console!Lowest \in Numbers /\ console_fds[Console!Lowest] = Console!Closed
    BY <2>1, LowestIsClosed
  <2>3. /\ console_fds' \in [Numbers -> [to : {"closed", "log", "other"}, at : Nat]]
        /\ \A n \in Numbers : console_fds[n].to = "log" => console_fds'[n] = console_fds[n]
    <3> DEFINE m == Console!Lowest
    <3>1. m \in Numbers /\ console_fds[m].to # "log"
      BY <2>2 DEF Console!Closed
    <3>2. console_fds' = [console_fds EXCEPT ![m] = [to |-> "other", at |-> 0]]
      BY <2>1
    <3> HIDE DEF m
    <3> QED
      BY <3>1, <3>2, LogTypes DEF ConsoleInv
  <2>4. Console!TypeOK'
    BY <2>1, <2>3 DEF ConsoleInv, Console!TypeOK
  <2>5. \A u \in Loggers : Began(u)' <=> Began(u)
    BY <2>1 DEF Began
  <2>6. LogInv'
    <3> SUFFICES ASSUME ~console_crossed' PROVE LogInv'
      BY DEF LogInv
    <3>1. ~console_crossed
      BY <2>1
    <3>2. (\A u \in Loggers : ~Began(u)') =>
              /\ console_gFd' \in Numbers
              /\ console_fds'[console_gFd'] = [to |-> "log", at |-> Len(console_file')]
      BY <2>1, <2>3, <2>5, <3>1 DEF ConsoleInv, LogInv
    <3>3. \A u \in Loggers :
              /\ console_pc'[u].step = "close" =>
                    BegunAt(console_opened)' /\ console_gFd' \in Numbers /\ console_gFd' # console_opened'
              /\ console_pc'[u].step = "assign" => BegunAt(console_pc[u].fd)'
      <4> SUFFICES ASSUME NEW u \in Loggers
                   PROVE  /\ console_pc'[u].step = "close" =>
                                BegunAt(console_opened)' /\ console_gFd' \in Numbers /\ console_gFd' # console_opened'
                          /\ console_pc'[u].step = "assign" => BegunAt(console_pc[u].fd)'
        OBVIOUS
      <4>1. /\ console_pc[u].step = "close" =>
                  BegunAt(console_opened) /\ console_gFd \in Numbers /\ console_gFd # console_opened
            /\ console_pc[u].step = "assign" => BegunAt(console_pc[u].fd)
        BY <3>1 DEF ConsoleInv, LogInv
      <4>2. (BegunAt(console_opened) => BegunAt(console_opened)')
            /\ (BegunAt(console_pc[u].fd) => BegunAt(console_pc[u].fd)')
        BY <2>1, <2>3 DEF BegunAt
      <4> QED
        BY <2>1, <4>1, <4>2
    <3>4. /\ console_file' \in Seq(Loggers \X (0..4)) /\ console_file' = console_since'
          /\ \A u, v \in Loggers : Began(u)' /\ Began(v)' => u = v
          /\ \A u, v \in Loggers : ~(Began(u)' /\ console_pc'[v].step = "write")
          /\ \A u \in Loggers : console_pc'[u].step = "write" => console_pc'[u].fd = console_gFd'
      BY <2>1, <2>5, <3>1 DEF ConsoleInv, LogInv
    <3> QED
      BY <3>2, <3>3, <3>4 DEF LogInv, Began, BegunAt
  <2> QED
    BY <2>4, <2>6 DEF ConsoleInv
<1> QED
  BY <1>1, <1>2

\* The file is opened once more, and emptied.
LEMMA OpenStep ==
  ASSUME ConsoleInv, NEW t \in Loggers, Console!Open(t)
  PROVE  ConsoleInv'
<1>0. console_pc[t].step = "open" /\ UNCHANGED console_gFd /\ \E n \in Numbers : console_fds[n] = Console!Closed
  BY DEF Console!Open
<1> DEFINE m == Console!Lowest
<1>1. /\ console_fds' = [console_fds EXCEPT ![m] = [to |-> "log", at |-> 0]] /\ console_opened' = m
      /\ console_file' = <<>> /\ console_since' = <<>>
      /\ console_pc' = [console_pc EXCEPT ![t].step = "close"]
      /\ console_crossed' = (console_crossed \/ Console!Beginning(t) \/ Console!Writing(t))
  BY DEF Console!Open, Console!Truncated
<1>2. m \in Numbers /\ console_fds[m] = Console!Closed
  BY <1>0, LowestIsClosed
<1> HIDE DEF m
<1>3. /\ console_pc' \in [Loggers -> LogPlaces] /\ console_pc'[t].step = "close"
      /\ \A u \in Loggers : u # t => console_pc'[u] = console_pc[u]
  BY <1>1, LogTypes DEF ConsoleInv, LogPlaces, LogSteps
<1>4. /\ console_fds' \in [Numbers -> [to : {"closed", "log", "other"}, at : Nat]]
      /\ console_fds'[m] = [to |-> "log", at |-> 0]
  BY <1>1, <1>2, LogTypes DEF ConsoleInv
<1>5. Console!TypeOK'
  <2>1. console_crossed' \in BOOLEAN
    BY <1>1
  <2> QED
    BY <1>0, <1>1, <1>2, <1>3, <1>4, <2>1 DEF ConsoleInv, Console!TypeOK, LogPlaces, LogSteps, Console!Failure
<1>6. LogInv'
  <2> SUFFICES ASSUME ~console_crossed' PROVE LogInv'
    BY DEF LogInv
  <2>1. ~console_crossed /\ ~Console!Beginning(t) /\ ~Console!Writing(t)
    BY <1>1
  <2>2. \A u \in Loggers : u # t => ~Began(u) /\ console_pc[u].step # "write"
    BY <2>1 DEF Console!Beginning, Console!Writing, Began
  <2>3. \A u \in Loggers : ~Began(u)
    BY <1>0, <2>2 DEF Began
  <2>4. console_gFd \in Numbers /\ console_fds[console_gFd].to = "log"
    BY <2>1, <2>3 DEF ConsoleInv, LogInv
  <2>5. m # console_gFd
    BY <1>2, <2>4 DEF Console!Closed
  <2>6. \A u \in Loggers : u # t => /\ ~Began(u)' /\ console_pc'[u].step # "write"
                                     /\ console_pc'[u].step \notin {"close", "assign"}
    BY <1>3, <2>2 DEF Began
  <2>7. Began(t)'
    BY <1>3 DEF Began
  <2>8. \A u \in Loggers : console_pc'[u].step \notin {"write", "assign"} /\ (console_pc'[u].step = "close" => u = t)
    BY <1>3, <2>6
  <2>9. console_file' \in Seq(Loggers \X (0..4)) /\ console_file' = console_since'
    BY <1>1
  <2>10. BegunAt(console_opened)' /\ console_gFd' \in Numbers /\ console_gFd' # console_opened'
    BY <1>0, <1>1, <1>2, <1>4, <2>4, <2>5 DEF BegunAt
  <2> QED
    BY <2>6, <2>7, <2>8, <2>9, <2>10 DEF LogInv, BegunAt
<1> QED
  BY <1>5, <1>6 DEF ConsoleInv

\* It cannot be opened.
LEMMA OpenFailsStep ==
  ASSUME ConsoleInv, NEW t \in Loggers, Console!OpenFails(t)
  PROVE  ConsoleInv'
<1> DEFINE r == [step |-> "log", piece |-> Console!Failure, fd |-> 0]
<1>1. /\ console_pc[t].step = "open" /\ console_opened' = 0
      /\ console_pc' = [console_pc EXCEPT ![t] = r]
      /\ console_crossed' = (console_crossed \/ Console!Beginning(t))
      /\ UNCHANGED <<console_file, console_fds, console_gFd, console_since>>
  BY DEF Console!OpenFails
<1>2. r \in LogPlaces /\ r.step = "log"
  <2>1. 4 \in 0..4 /\ "log" \in LogSteps
    BY DEF LogSteps
  <2> QED
    BY <2>1 DEF LogPlaces, Console!Failure
<1> HIDE DEF r
<1>3. /\ console_pc' \in [Loggers -> LogPlaces] /\ console_pc'[t].step = "log"
      /\ \A u \in Loggers : u # t => console_pc'[u] = console_pc[u]
  BY <1>1, <1>2, LogTypes DEF ConsoleInv
<1>4. Console!TypeOK'
  <2>1. console_crossed' \in BOOLEAN /\ console_opened' \in Numbers \cup {0}
    BY <1>1
  <2> QED
    BY <1>1, <1>3, <2>1 DEF ConsoleInv, Console!TypeOK, LogPlaces, LogSteps, Console!Failure
<1>5. LogInv'
  <2> SUFFICES ASSUME ~console_crossed' PROVE LogInv'
    BY DEF LogInv
  <2>1. ~console_crossed /\ ~Console!Beginning(t)
    BY <1>1
  <2>2. \A u \in Loggers : ~Began(u)
    BY <1>1, <2>1 DEF Console!Beginning, Began
  <2>3. \A u \in Loggers : ~Began(u)' /\ console_pc'[u].step \notin {"close", "assign"}
                           /\ (console_pc'[u].step = "write" => u # t)
    BY <1>3, <2>2 DEF Began
  <2> QED
    BY <1>1, <1>3, <2>1, <2>2, <2>3 DEF ConsoleInv, LogInv
<1> QED
  BY <1>4, <1>5 DEF ConsoleInv

\* The old descriptor is closed.
LEMMA CloseStep ==
  ASSUME ConsoleInv, NEW t \in Loggers, Console!Close(t)
  PROVE  ConsoleInv'
<1>1. /\ console_pc[t].step = "close"
      /\ console_fds' = IF console_gFd = 0 THEN console_fds ELSE [console_fds EXCEPT ![console_gFd] = Console!Closed]
      /\ console_pc' = [console_pc EXCEPT ![t].step = "assign", ![t].fd = console_opened]
      /\ console_crossed' = (console_crossed \/ Console!Beginning(t) \/ Console!Writing(t))
      /\ UNCHANGED <<console_file, console_gFd, console_opened, console_since>>
  BY DEF Console!Close
<1>2. /\ console_pc' \in [Loggers -> LogPlaces]
      /\ console_pc'[t].step = "assign" /\ console_pc'[t].fd = console_opened
      /\ \A u \in Loggers : u # t => console_pc'[u] = console_pc[u]
  BY <1>1, LogTypes DEF ConsoleInv, LogPlaces, LogSteps
<1>3. /\ console_fds' \in [Numbers -> [to : {"closed", "log", "other"}, at : Nat]]
      /\ \A n \in Numbers : n # console_gFd => console_fds'[n] = console_fds[n]
  BY <1>1, LogTypes DEF ConsoleInv
<1>4. Console!TypeOK'
  <2>1. console_crossed' \in BOOLEAN
    BY <1>1
  <2> QED
    BY <1>1, <1>2, <1>3, <2>1 DEF ConsoleInv, Console!TypeOK, LogPlaces, LogSteps, Console!Failure
<1>5. LogInv'
  <2> SUFFICES ASSUME ~console_crossed' PROVE LogInv'
    BY DEF LogInv
  <2>1. ~console_crossed /\ ~Console!Beginning(t) /\ ~Console!Writing(t)
    BY <1>1
  <2>2. \A u \in Loggers : u # t => /\ ~Began(u)' /\ console_pc'[u].step # "write"
                                     /\ console_pc'[u].step \notin {"close", "assign"}
    BY <1>2, <2>1 DEF Console!Beginning, Console!Writing, Began
  <2>3. Began(t)' /\ console_pc'[t].step \notin {"write", "close"}
    BY <1>2 DEF Began
  <2>4. BegunAt(console_opened) /\ console_opened # console_gFd
    BY <1>1, <2>1 DEF ConsoleInv, LogInv
  <2>5. BegunAt(console_opened)'
    BY <1>1, <1>3, <2>4 DEF BegunAt
  <2>6. BegunAt(console_pc[t].fd)'
    BY <1>1, <1>2, <2>5 DEF BegunAt
  <2>7. console_file' \in Seq(Loggers \X (0..4)) /\ console_file' = console_since'
    BY <1>1, <2>1 DEF ConsoleInv, LogInv
  <2> QED
    BY <2>2, <2>3, <2>6, <2>7 DEF LogInv, BegunAt
<1> QED
  BY <1>4, <1>5 DEF ConsoleInv

\* The new one is put in the global.
LEMMA AssignStep ==
  ASSUME ConsoleInv, NEW t \in Loggers, Console!Assign(t)
  PROVE  ConsoleInv'
<1>1. /\ console_pc[t].step = "assign" /\ console_gFd' = console_pc[t].fd
      /\ console_pc' = [console_pc EXCEPT ![t] = Console!Idle]
      /\ console_crossed' = (console_crossed \/ Console!Beginning(t) \/ Console!Writing(t))
      /\ UNCHANGED <<console_file, console_fds, console_opened, console_since>>
  BY DEF Console!Assign
<1>2. /\ console_pc' \in [Loggers -> LogPlaces] /\ console_pc'[t].step = "idle"
      /\ \A u \in Loggers : u # t => console_pc'[u] = console_pc[u]
      /\ console_pc[t].fd \in Numbers \cup {0}
  <2>1. Console!Idle \in LogPlaces /\ Console!Idle.step = "idle"
    BY DEF Console!Idle, LogPlaces, LogSteps
  <2> QED
    BY <1>1, <2>1, LogTypes DEF ConsoleInv, LogPlaces
<1>3. Console!TypeOK'
  <2>1. console_crossed' \in BOOLEAN
    BY <1>1
  <2> QED
    BY <1>1, <1>2, <2>1 DEF ConsoleInv, Console!TypeOK, LogPlaces, LogSteps, Console!Failure
<1>4. LogInv'
  <2> SUFFICES ASSUME ~console_crossed' PROVE LogInv'
    BY DEF LogInv
  <2>1. ~console_crossed /\ ~Console!Beginning(t) /\ ~Console!Writing(t)
    BY <1>1
  <2>2. \A u \in Loggers : ~Began(u)' /\ console_pc'[u].step \notin {"write", "close", "assign"}
    BY <1>2, <2>1 DEF Console!Beginning, Console!Writing, Began
  <2>3. BegunAt(console_pc[t].fd)
    BY <1>1, <2>1 DEF ConsoleInv, LogInv
  <2>4. console_file' \in Seq(Loggers \X (0..4)) /\ console_file' = console_since'
    BY <1>1, <2>1 DEF ConsoleInv, LogInv
  <2>5. console_gFd' \in Numbers /\ console_fds'[console_gFd'] = [to |-> "log", at |-> Len(console_file')]
    <3>1. Len(console_file') = 0
      BY <1>1, <2>3 DEF BegunAt
    <3> QED
      BY <1>1, <2>3, <3>1 DEF BegunAt
  <2> QED
    BY <2>2, <2>4, <2>5 DEF LogInv
<1> QED
  BY <1>3, <1>4 DEF ConsoleInv

\* Every step keeps it.
LEMMA ConsoleNext == ConsoleInv /\ [Console!Next]_consoleVars => ConsoleInv'
<1> SUFFICES ASSUME ConsoleInv, [Console!Next]_consoleVars PROVE ConsoleInv'
  OBVIOUS
<1>1. CASE UNCHANGED consoleVars
  BY <1>1 DEF consoleVars, ConsoleInv, LogInv, Began, BegunAt, Console!TypeOK
<1>2. CASE Console!Next
  BY <1>2, LineSteps, WriteStep, WriteFailsStep, AsideSteps, OpenStep, OpenFailsStep, CloseStep, AssignStep
     DEF Console!Next
<1> QED
  BY <1>1, <1>2

\* What a report says of a crash is right: the two names it has are of one crash; what is known of
\* an object that is gone is of that object, as long as threads do not release in one slot at once;
\* and the log holds what was logged since it was begun, but for the writes that fail, as long as no
\* thread writes, or fails to open the log, while another begins it.
\* For any codes, threads, objects, addresses and their slots, descriptors and lines.
THEOREM CrashDescribed == MCSpec => []CrashIsDescribed
<1> DEFINE Inv == /\ part = "codes" => CodesInv
                  /\ part = "zombies" => ZombiesInv
                  /\ part = "console" => ConsoleInv
<1>1. MCInit => Inv
  BY CodesInit, ZombiesInit, ConsoleInit DEF MCInit
<1>2. Inv /\ [MCNext]_allVars => Inv'
  <2> SUFFICES ASSUME Inv, [MCNext]_allVars PROVE Inv'
    OBVIOUS
  <2>1. /\ part' = part
        /\ part = "codes" => [Codes!Next]_codesVars
        /\ part = "zombies" => [Zombie!Next]_zombiesVars
        /\ part = "console" => [Console!Next]_consoleVars
    BY DEF MCNext, RunIntro, RunCached, RunHooks, RunWalk, RunLoaded, RunRebind, RunHandlers, RunCodes,
           RunZombie, RunConsole, allVars
  <2> QED
    BY <2>1, CodesNext, ZombiesNext, ConsoleNext
<1>3. Inv => CrashIsDescribed
  <2>1. ConsoleInv => Console!TypeOK /\ Console!LogIsWhatWasLogged
    BY DEF ConsoleInv, LogInv, Console!LogIsWhatWasLogged, Began
  <2> QED
    BY <2>1, CodesGoals, ZombiesGoals DEF CrashIsDescribed
<1> QED
  BY <1>1, <1>2, <1>3, PTL DEF MCSpec
=============================================================================
