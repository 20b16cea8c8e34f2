------------------------- MODULE LogDispatch_proofs -------------------------
(***************************************************************************)
(* Theorems about LogDispatch for any threads, scenarios and length of the *)
(* breadcrumb trail.                                                       *)
(***************************************************************************)
EXTENDS LogDispatch, FiniteSetTheorems, TLAPS

-----------------------------------------------------------------------------
(* Lemmas about the operators the actions are built from. *)

\* The set of the destinations.
LEMMA DestinationSet == ToSet(Destinations) = {"sentry", "file", "system"}
BY DEF ToSet, Destinations

\* The sequences the code goes through are sequences of destinations.
LEMMA DestinationSeqs ==
  /\ Destinations \in Seq(ToSet(Destinations)) /\ DidSetOrder \in Seq(ToSet(Destinations))
  /\ <<"sentry", "system">> \in Seq(ToSet(Destinations))
  /\ "sentry" \in ToSet(Destinations)
BY DestinationSet DEF Destinations, DidSetOrder

\* What a sequence has is its head, or is in its tail.
LEMMA HeadOrTail ==
  ASSUME NEW S, NEW s \in Seq(S), NEW x \in ToSet(s), s # <<>>
  PROVE  x = Head(s) \/ x \in ToSet(Tail(s))
<1>1. PICK i \in 1 .. Len(s) : x = s[i]
  BY DEF ToSet
<1>2. CASE i = 1
  BY <1>1, <1>2
<1>3. CASE i > 1
  <2>1. /\ DOMAIN Tail(s) = 1 .. Len(s) - 1
        /\ \A j \in 1 .. Len(s) - 1 : Tail(s)[j] = s[j + 1]
    OBVIOUS
  <2>2. PICK j \in 1 .. Len(s) - 1 : i = j + 1
    BY <1>1, <1>3
  <2>3. j \in DOMAIN Tail(s) /\ x = Tail(s)[j]
    BY <1>1, <2>1, <2>2
  <2> QED
    BY <2>3 DEF ToSet
<1> QED
  BY <1>1, <1>2, <1>3

\* What is appended is in the longer sequence, with all that was in the shorter one.
LEMMA AppendedSet ==
  ASSUME NEW S, NEW s \in Seq(S), NEW y \in S
  PROVE  ToSet(Append(s, y)) = ToSet(s) \cup {y}
<1> DEFINE longer == Append(s, y)
<1>1. /\ DOMAIN longer = 1 .. Len(s) + 1 /\ DOMAIN s = 1 .. Len(s)
      /\ \A i \in 1 .. Len(s) : longer[i] = s[i]
      /\ longer[Len(s) + 1] = y
  OBVIOUS
<1>2. ASSUME NEW x \in ToSet(longer)
      PROVE  x \in ToSet(s) \cup {y}
  <2>1. PICK i \in 1 .. Len(s) + 1 : x = longer[i]
    BY <1>1 DEF ToSet
  <2>2. i \in 1 .. Len(s) \/ i = Len(s) + 1
    OBVIOUS
  <2> QED
    BY <1>1, <2>1, <2>2 DEF ToSet
<1>3. ASSUME NEW x \in ToSet(s) \cup {y}
      PROVE  x \in ToSet(longer)
  <2>1. CASE x = y
    <3>1. Len(s) + 1 \in DOMAIN longer
      BY <1>1
    <3> QED
      BY <1>1, <2>1, <3>1 DEF ToSet
  <2>2. CASE x \in ToSet(s)
    <3>1. PICK i \in 1 .. Len(s) : x = s[i]
      BY <1>1, <2>2 DEF ToSet
    <3>2. i \in DOMAIN longer /\ x = longer[i]
      BY <1>1, <3>1
    <3> QED
      BY <3>2 DEF ToSet
  <2> QED
    BY <1>3, <2>1, <2>2
<1> QED
  BY <1>2, <1>3

\* The lines of a call are lines of its own; the first of two is that of the details.
LEMMA LinesAreLines ==
  ASSUME NEW c \in 1 .. scenario.calls, NEW k \in Kind, NEW details \in BOOLEAN
  PROVE  LET lines == LinesOf(c, k, details)
         IN  /\ lines \in Seq(LineType) /\ lines # <<>>
             /\ \A i \in DOMAIN lines : lines[i].call = c /\ lines[i].part # "rotation"
             /\ \/ Len(lines) = 2 /\ lines[1] = DetailsLine(c, k) /\ lines[2] = Line(c, k, details)
                \/ Len(lines) = 1 /\ ~lines[1].detailed
<1>1. /\ Line(c, k, details) \in LineType /\ Line(c, k, details).call = c
      /\ Line(c, k, details).part # "rotation"
  BY DEF Line, LineType, Kind, LogLevel, Detailed
<1>2. /\ DetailsLine(c, k) \in LineType /\ DetailsLine(c, k).call = c
      /\ DetailsLine(c, k).part # "rotation"
  BY DEF DetailsLine, LineType, LogLevel
<1>3. <<Line(c, k, details)>> \in Seq(LineType) /\ <<DetailsLine(c, k)>> \in Seq(LineType)
  BY <1>1, <1>2
<1>4. CASE Detailed(k, details)
  <2>1. LinesOf(c, k, details) = <<DetailsLine(c, k)>> \o <<Line(c, k, details)>>
    BY <1>4 DEF LinesOf
  <2> QED
    BY <1>1, <1>2, <1>3, <2>1
<1>5. CASE ~Detailed(k, details)
  <2>1. LinesOf(c, k, details) = <<>> \o <<Line(c, k, details)>>
    BY <1>5 DEF LinesOf
  <2>2. ~Line(c, k, details).detailed
    BY <1>5 DEF Line
  <2> QED
    BY <1>1, <1>3, <2>1, <2>2
<1> QED
  BY <1>4, <1>5

\* The line of a failed rotation is a line.
LEMMA RotationLineType ==
  ASSUME scenario \in Scenarios
  PROVE  /\ RotationLine \in LineType /\ [RotationLine EXCEPT !.level = "warn"] \in LineType
         /\ RotationLine.call = 0 /\ ~RotationLine.detailed /\ RotationLine.part = "rotation"
<1>1. 0 \in 0 .. scenario.calls
  BY ScenariosAssumption
<1>2. RotationLine \in LineType
  BY <1>1 DEF RotationLine, LineType, LogLevel
<1>3. [RotationLine EXCEPT !.level = "warn"] \in LineType
  BY <1>2 DEF LineType, LogLevel
<1> QED
  BY <1>2, <1>3 DEF RotationLine

\* The trail stays a trail of lines that is not too long.
LEMMA TrailType ==
  ASSUME NEW trail \in Seq(LineType), Len(trail) <= MaxBreadcrumbs, NEW line \in LineType
  PROVE  /\ AddBreadcrumb(trail, line) \in Seq(LineType)
         /\ Len(AddBreadcrumb(trail, line)) <= MaxBreadcrumbs
<1>1. Append(trail, line) \in Seq(LineType) /\ Len(Append(trail, line)) = Len(trail) + 1
  OBVIOUS
<1>2. CASE Len(trail) + 1 > MaxBreadcrumbs
  BY <1>1, <1>2, BreadcrumbsAssumption DEF AddBreadcrumb
<1>3. CASE Len(trail) + 1 <= MaxBreadcrumbs
  BY <1>1, <1>3, BreadcrumbsAssumption DEF AddBreadcrumb
<1> QED
  BY <1>2, <1>3, BreadcrumbsAssumption

\* Head and tail of a sequence that is not empty.
LEMMA HeadAndTail ==
  ASSUME NEW S, NEW s \in Seq(S), s # <<>>
  PROVE  /\ Head(s) \in S /\ Head(s) = s[1] /\ Tail(s) \in Seq(S)
         /\ Len(s) \in Nat \ {0} /\ 1 \in DOMAIN s /\ Len(Tail(s)) = Len(s) - 1
         /\ \A i \in DOMAIN Tail(s) : i + 1 \in DOMAIN s /\ Tail(s)[i] = s[i + 1]
OBVIOUS

\* The tail of a sequence has nothing new; of one or two it is nothing or the second.
LEMMA TailSet ==
  ASSUME NEW S, NEW s \in Seq(S), s # <<>>
  PROVE  ToSet(Tail(s)) \subseteq ToSet(s)
<1> SUFFICES ASSUME NEW x \in ToSet(Tail(s)) PROVE x \in ToSet(s)
  OBVIOUS
<1>1. PICK i \in DOMAIN Tail(s) : x = Tail(s)[i]
  BY DEF ToSet
<1>2. i + 1 \in DOMAIN s /\ x = s[i + 1]
  BY <1>1, HeadAndTail
<1> QED
  BY <1>2 DEF ToSet

LEMMA ShortTail ==
  ASSUME NEW S, NEW s \in Seq(S), s # <<>>
  PROVE  /\ Len(s) <= 1 => Tail(s) = <<>>
         /\ Len(s) = 2 => Len(Tail(s)) = 1 /\ Tail(s)[1] = s[2]
OBVIOUS

-----------------------------------------------------------------------------
(* The inductive invariant: types, and what orders the lines. *)

\* The lines a thread has still to log are those of a call that has not returned and that
\* no other thread has made.
CallsInProgress ==
    \A t \in Threads : \A i \in DOMAIN todo[t] :
        /\ todo[t][i].call \in 1 .. Len(after) /\ todo[t][i].call \notin returned
        /\ todo[t][i].part # "rotation"
        /\ \A u \in Threads \ {t} : \A j \in DOMAIN todo[u] : todo[u][j].call # todo[t][i].call

\* Destinations are tested and chosen for a line only.
ScansHaveLines == \A t \in Threads : scan[t] # <<>> \/ enabled[t] # <<>> => todo[t] # <<>>

\* A call began after calls that have returned.
ReturnedBefore ==
    /\ returned \subseteq 1 .. Len(after)
    /\ \A c \in DOMAIN after : after[c] \subseteq returned

\* Lines that were logged are those of calls, or of rotations.
LoggedCalls ==
    \A d \in ToSet(Destinations) : \A i \in DOMAIN out[d] : out[d][i].call \in 0 .. Len(after)

Inv == /\ TypeOK /\ Len(after) <= scenario.calls
       /\ CallsInProgress /\ ScansHaveLines /\ ReturnedBefore /\ LoggedCalls /\ LinesInCallOrder

\* The invariant holds at first.
LEMMA InitInv == Init => Inv
<1> SUFFICES ASSUME Init PROVE Inv
  OBVIOUS
<1>1. /\ scenario \in Scenarios /\ preset \in Preset /\ scenario.calls \in Nat
      /\ scenario.failures \in Nat /\ scenario.changes \in Nat
  BY ScenariosAssumption DEF Init
<1>2. level \in [ToSet(Destinations) -> LogLevel]
  BY <1>1, DestinationSet DEF Init, LevelFor, remote, disk, console, LogLevel, Preset
<1>3. TypeOK
  <2>1. /\ todo \in [Threads -> Seq(LineType)]
        /\ scan \in [Threads -> Seq(ToSet(Destinations))]
        /\ enabled \in [Threads -> Seq(ToSet(Destinations))]
        /\ steady \in [Threads -> BOOLEAN]
        /\ out \in [ToSet(Destinations) -> Seq(LineType)]
    BY DEF Init
  <2>2. /\ after \in Seq(SUBSET (1 .. scenario.calls)) /\ returned \subseteq 1 .. scenario.calls
        /\ crumbs \in Seq(LineType) /\ Len(crumbs) <= MaxBreadcrumbs
        /\ report \in Seq(ToSet(Destinations)) /\ setting \in Seq(ToSet(Destinations))
    BY BreadcrumbsAssumption DEF Init
  <2>3. failures = 0 /\ changes = 0 /\ dead = FALSE
    BY DEF Init
  <2>4. failures \in 0 .. scenario.failures /\ changes \in 0 .. scenario.changes
    <3>1. 0 \in 0 .. scenario.failures /\ 0 \in 0 .. scenario.changes
      BY <1>1
    <3> QED
      BY <2>3, <3>1
  <2> QED
    BY <1>1, <1>2, <2>1, <2>2, <2>3, <2>4 DEF TypeOK
<1>4. /\ CallsInProgress /\ ScansHaveLines /\ ReturnedBefore
  BY DEF Init, CallsInProgress, ScansHaveLines, ReturnedBefore
<1>5. LoggedCalls /\ LinesInCallOrder
  BY DEF Init, LoggedCalls, LinesInCallOrder
<1>6. Len(after) <= scenario.calls
  BY <1>1 DEF Init
<1> QED
  BY <1>3, <1>4, <1>5, <1>6 DEF Inv

\* What one more line at a destination changes: the types stay, and if its call has not
\* returned the order does.
LEMMA OutputInv ==
  ASSUME Inv, NEW d \in ToSet(Destinations), NEW line \in LineType, NEW s \in BOOLEAN,
         Output(d, line, s), line = RotationLine \/ line.part # "rotation",
         line.call \in 0 .. Len(after), line.call \notin returned,
         UNCHANGED <<scenario, after>>
  PROVE  /\ out' \in [ToSet(Destinations) -> Seq(LineType)]
         /\ crumbs' \in Seq(LineType) /\ Len(crumbs') <= MaxBreadcrumbs
         /\ LoggedCalls' /\ LinesInCallOrder'
<1>1. /\ out \in [ToSet(Destinations) -> Seq(LineType)]
      /\ crumbs \in Seq(LineType) /\ Len(crumbs) <= MaxBreadcrumbs
      /\ scenario \in Scenarios
  BY DEF Inv, TypeOK
<1>2. out' = [out EXCEPT ![d] = Append(@, line)]
  BY DEF Output, Handed
<1>3. out' \in [ToSet(Destinations) -> Seq(LineType)]
  BY <1>1, <1>2
<1>4. crumbs' \in Seq(LineType) /\ Len(crumbs') <= MaxBreadcrumbs
  <2>1. CASE d # "sentry"
    BY <1>1, <2>1 DEF Output
  <2>2. CASE d = "sentry" /\ line.part = "rotation"
    <3>1. crumbs' = AddBreadcrumb(crumbs, [RotationLine EXCEPT !.level = "warn"])
      BY <2>2 DEF Output, SentryOutput
    <3> QED
      BY <1>1, <3>1, RotationLineType, TrailType
  <2>3. CASE d = "sentry" /\ line.part # "rotation"
    <3>1. crumbs' = AddBreadcrumb(crumbs, line)
      BY <2>3 DEF Output, SentryOutput
    <3> QED
      BY <1>1, <3>1, TrailType
  <2> QED
    BY <2>1, <2>2, <2>3
<1>5. ASSUME NEW e \in ToSet(Destinations)
      PROVE  /\ out[e] \in Seq(LineType)
             /\ \A i \in DOMAIN out[e] : i \in DOMAIN out'[e] /\ out'[e][i] = out[e][i]
             /\ \A i \in DOMAIN out'[e] : \/ i \in DOMAIN out[e]
                                          \/ i = Len(out[e]) + 1 /\ out'[e][i] = line
  BY <1>1, <1>2
<1>6. LoggedCalls'
  BY <1>5 DEF LoggedCalls, Inv
<1>7. LinesInCallOrder'
  <2> SUFFICES ASSUME NEW e \in ToSet(Destinations), NEW i \in DOMAIN out'[e], NEW j \in DOMAIN out'[e],
                      i < j, out'[e][i].call # 0
               PROVE  out'[e][j].call \notin after[out'[e][i].call]
    BY DEF LinesInCallOrder
  <2>1. i \in Nat /\ j \in Nat /\ DOMAIN out[e] = 1 .. Len(out[e]) /\ Len(out[e]) \in Nat
    BY <1>3, <1>5
  <2>2. i \in DOMAIN out[e] /\ out'[e][i] = out[e][i]
    <3>1. i # Len(out[e]) + 1
      BY <1>5, <2>1
    <3> QED
      BY <1>5, <3>1
  <2>3. CASE j \in DOMAIN out[e]
    <3>1. out'[e][j] = out[e][j]
      BY <1>5, <2>3
    <3> QED
      BY <2>2, <2>3, <3>1 DEF Inv, LinesInCallOrder
  <2>4. CASE j \notin DOMAIN out[e]
    <3>1. out'[e][j] = line
      BY <1>5, <2>4
    <3>2. out[e][i].call \in 1 .. Len(after)
      BY <2>2 DEF Inv, LoggedCalls
    <3>3. DOMAIN after = 1 .. Len(after)
      BY DEF Inv, TypeOK
    <3>4. after[out[e][i].call] \subseteq returned
      BY <3>2, <3>3 DEF Inv, ReturnedBefore
    <3> QED
      BY <2>2, <3>1, <3>4
  <2> QED
    BY <2>3, <2>4
<1> QED
  BY <1>3, <1>4, <1>6, <1>7

-----------------------------------------------------------------------------
(* Each action keeps the invariant. *)

\* What the types say of a thread.
LEMMA ThreadTypes ==
  ASSUME Inv, NEW t \in Threads
  PROVE  /\ todo[t] \in Seq(LineType) /\ scan[t] \in Seq(ToSet(Destinations))
         /\ enabled[t] \in Seq(ToSet(Destinations)) /\ steady[t] \in BOOLEAN
         /\ after \in Seq(SUBSET (1 .. scenario.calls)) /\ DOMAIN after = 1 .. Len(after)
         /\ Len(after) \in Nat /\ scenario \in Scenarios
BY DEF Inv, TypeOK

\* A call begins with the calls that have returned behind it.
LEMMA CallInv ==
  ASSUME Inv, NEW t \in Threads, Call(t)
  PROVE  Inv'
<1> DEFINE c == Len(after) + 1
<1>1. PICK k \in scenario.kinds, details \in BOOLEAN :
          todo' = [todo EXCEPT ![t] = LinesOf(c, k, details)]
  BY DEF Call
<1>2. /\ k \in Kind /\ c \in 1 .. scenario.calls
      /\ after \in Seq(SUBSET (1 .. scenario.calls)) /\ returned \subseteq 1 .. scenario.calls
  <2>1. scenario \in Scenarios /\ returned \subseteq 1 .. scenario.calls
    BY DEF Inv, TypeOK
  <2>2. scenario.kinds \subseteq Kind /\ scenario.calls \in Nat
    BY <2>1, ScenariosAssumption
  <2>3. Len(after) < scenario.calls
    BY DEF Call
  <2>4. Len(after) \in Nat /\ after \in Seq(SUBSET (1 .. scenario.calls))
    BY ThreadTypes
  <2> QED
    BY <2>1, <2>2, <2>3, <2>4
<1> DEFINE lines == LinesOf(c, k, details)
<1>3. /\ lines \in Seq(LineType) /\ lines # <<>>
      /\ \A i \in DOMAIN lines : lines[i].call = c /\ lines[i].part # "rotation"
  BY <1>2, LinesAreLines
<1>4. /\ todo \in [Threads -> Seq(LineType)] /\ todo' \in [Threads -> Seq(LineType)]
      /\ todo'[t] = lines /\ \A u \in Threads \ {t} : todo'[u] = todo[u]
  BY <1>1, <1>3 DEF Inv, TypeOK
<1>5. /\ after' = Append(after, returned) /\ after' \in Seq(SUBSET (1 .. scenario.calls))
      /\ Len(after') = c /\ \A i \in 1 .. Len(after) : after'[i] = after[i]
      /\ after'[c] = returned /\ DOMAIN after' = 1 .. c /\ Len(after) \in Nat
  BY <1>2 DEF Call
<1>6. TypeOK'
  <2>1. scan' \in [Threads -> Seq(ToSet(Destinations))] /\ steady' \in [Threads -> BOOLEAN]
    BY DestinationSeqs DEF Call, Inv, TypeOK
  <2> QED
    BY <1>4, <1>5, <2>1 DEF Call, Inv, TypeOK, LineType, config, received, rotation
<1>7. CallsInProgress'
  <2> SUFFICES ASSUME NEW u \in Threads, NEW i \in DOMAIN todo'[u]
               PROVE  /\ todo'[u][i].call \in 1 .. Len(after') /\ todo'[u][i].call \notin returned'
                      /\ todo'[u][i].part # "rotation"
                      /\ \A v \in Threads \ {u} : \A j \in DOMAIN todo'[v] :
                            todo'[v][j].call # todo'[u][i].call
    BY DEF CallsInProgress
  <2>1. returned' = returned /\ c \notin returned
    BY <1>5 DEF Call, Inv, ReturnedBefore
  <2>2. ASSUME NEW v \in Threads \ {t}, NEW j \in DOMAIN todo'[v]
        PROVE  /\ todo'[v][j].call \in 1 .. Len(after) /\ todo'[v][j].call \notin returned
               /\ todo'[v][j].part # "rotation"
    BY <1>4 DEF Inv, CallsInProgress
  <2>3. CASE u = t
    <3>1. todo'[u][i].call = c /\ todo'[u][i].part # "rotation"
      BY <1>3, <1>4, <2>3
    <3> QED
      BY <1>5, <2>1, <2>2, <2>3, <3>1
  <2>4. CASE u # t
    <3>1. \A v \in Threads \ {u, t} : \A j \in DOMAIN todo'[v] : todo'[v][j].call # todo'[u][i].call
      BY <1>4, <2>4 DEF Inv, CallsInProgress
    <3>2. \A j \in DOMAIN todo'[t] : todo'[t][j].call # todo'[u][i].call
      BY <1>3, <1>4, <1>5, <2>2, <2>4
    <3> QED
      BY <1>5, <2>1, <2>2, <2>4, <3>1, <3>2
  <2> QED
    BY <2>3, <2>4
<1>8. ScansHaveLines'
  BY <1>3, <1>4 DEF Call, Inv, ScansHaveLines, TypeOK
<1>9. ReturnedBefore' /\ LoggedCalls'
  <2>1. returned' = returned /\ out' = out
    BY DEF Call, received
  <2>2. ASSUME NEW b \in DOMAIN after'
        PROVE  after'[b] \subseteq returned
    <3>1. b = c \/ b \in 1 .. Len(after)
      BY <1>5
    <3> QED
      BY <1>5, <3>1 DEF Inv, ReturnedBefore
  <2> QED
    BY <1>5, <2>1, <2>2 DEF Inv, ReturnedBefore, LoggedCalls
<1>10. LinesInCallOrder'
  <2>1. out' = out
    BY DEF Call, received
  <2>2. ASSUME NEW d \in ToSet(Destinations), NEW i \in DOMAIN out[d], out[d][i].call # 0
        PROVE  out[d][i].call \in 1 .. Len(after)
    BY <2>2 DEF Inv, LoggedCalls
  <2> QED
    BY <1>5, <2>1, <2>2 DEF Inv, LinesInCallOrder
<1>11. Len(after') <= scenario'.calls
  BY <1>2, <1>5 DEF Call
<1> QED
  BY <1>6, <1>7, <1>8, <1>9, <1>10, <1>11 DEF Inv

\* Testing a destination changes no line.
LEMMA FilterInv ==
  ASSUME Inv, NEW t \in Threads, Filter(t)
  PROVE  Inv'
<1>1. /\ Head(scan[t]) \in ToSet(Destinations) /\ Tail(scan[t]) \in Seq(ToSet(Destinations))
      /\ Append(enabled[t], Head(scan[t])) \in Seq(ToSet(Destinations))
  BY ThreadTypes, HeadAndTail DEF Filter
<1>2. /\ scan' \in [Threads -> Seq(ToSet(Destinations))]
      /\ enabled' \in [Threads -> Seq(ToSet(Destinations))]
  BY <1>1 DEF Filter, Inv, TypeOK
<1>3. TypeOK'
  BY <1>2 DEF Filter, Inv, TypeOK, LineType, config, received, rotation
<1>4. ScansHaveLines'
  BY DEF Filter, Inv, ScansHaveLines, TypeOK
<1> QED
  BY <1>3, <1>4 DEF Filter, Inv, CallsInProgress, ReturnedBefore, LoggedCalls, LinesInCallOrder, received

\* A line reaches a destination.
LEMMA DeliverInv ==
  ASSUME Inv, NEW t \in Threads, Deliver(t)
  PROVE  Inv'
<1> DEFINE d == Head(enabled[t])  line == Head(todo[t])
<1>1. todo[t] # <<>>
  BY DEF Deliver, Inv, ScansHaveLines
<1>2. /\ d \in ToSet(Destinations) /\ Tail(enabled[t]) \in Seq(ToSet(Destinations))
      /\ line \in LineType /\ line = todo[t][1] /\ 1 \in DOMAIN todo[t]
  BY <1>1, ThreadTypes, HeadAndTail DEF Deliver
<1>3. line.call \in 1 .. Len(after) /\ line.call \notin returned
  BY <1>2 DEF Inv, CallsInProgress
<1>4. Output(d, line, steady[t]) /\ steady[t] \in BOOLEAN /\ UNCHANGED <<scenario, after>>
  BY ThreadTypes DEF Deliver
<1>5. line.part # "rotation"
  BY <1>2 DEF Inv, CallsInProgress
<1>6. /\ out' \in [ToSet(Destinations) -> Seq(LineType)]
      /\ crumbs' \in Seq(LineType) /\ Len(crumbs') <= MaxBreadcrumbs
      /\ LoggedCalls' /\ LinesInCallOrder'
  BY <1>2, <1>3, <1>4, <1>5, OutputInv
<1>7. enabled' \in [Threads -> Seq(ToSet(Destinations))]
  BY <1>2 DEF Deliver, Inv, TypeOK
<1>8. TypeOK'
  BY <1>6, <1>7 DEF Deliver, Inv, TypeOK, LineType, config, rotation
<1>9. ScansHaveLines'
  BY <1>1 DEF Deliver, Inv, ScansHaveLines, TypeOK
<1> QED
  BY <1>6, <1>8, <1>9 DEF Deliver, Inv, CallsInProgress, ReturnedBefore

\* A line has been given to all its destinations; after its last one the call returns.
LEMMA EndLineInv ==
  ASSUME Inv, NEW t \in Threads, EndLine(t)
  PROVE  Inv'
<1> DEFINE line == Head(todo[t])
<1>1. /\ line \in LineType /\ line = todo[t][1] /\ 1 \in DOMAIN todo[t]
      /\ Tail(todo[t]) \in Seq(LineType) /\ Len(todo[t]) \in Nat \ {0}
      /\ Len(Tail(todo[t])) = Len(todo[t]) - 1
      /\ \A i \in DOMAIN Tail(todo[t]) :
            i + 1 \in DOMAIN todo[t] /\ Tail(todo[t])[i] = todo[t][i + 1]
  BY ThreadTypes, HeadAndTail DEF EndLine
<1>2. /\ todo' \in [Threads -> Seq(LineType)] /\ todo'[t] = Tail(todo[t])
      /\ \A u \in Threads \ {t} : todo'[u] = todo[u]
  BY <1>1 DEF EndLine, Inv, TypeOK
<1>3. /\ line.call \in 1 .. Len(after) /\ line.call \notin returned
      /\ \A u \in Threads \ {t} : \A j \in DOMAIN todo[u] : todo[u][j].call # line.call
  BY <1>1 DEF Inv, CallsInProgress
<1>4. ASSUME NEW u \in Threads, NEW i \in DOMAIN todo'[u]
      PROVE  \E j \in DOMAIN todo[u] : todo'[u][i] = todo[u][j]
  <2>1. CASE u = t
    BY <1>1, <1>2, <1>4, <2>1
  <2>2. CASE u # t
    BY <1>2, <1>4, <2>2
  <2> QED
    BY <2>1, <2>2
<1>5. /\ UNCHANGED <<scenario, config, enabled, steady, after, received, rotation>>
      /\ \/ /\ Tail(todo[t]) # <<>> /\ scan' = [scan EXCEPT ![t] = Destinations]
            /\ returned' = returned
         \/ /\ Tail(todo[t]) = <<>> /\ returned' = returned \cup {line.call}
            /\ scan' = scan
  <2>1. Len(todo[t]) > 1 <=> Tail(todo[t]) # <<>>
    <3>1. ASSUME NEW n \in Nat \ {0}, NEW m \in Nat, m = n - 1
          PROVE  n > 1 <=> m # 0
      BY <3>1
    <3>2. Tail(todo[t]) = <<>> <=> Len(Tail(todo[t])) = 0
      <4>1. \A s \in Seq(LineType) : s = <<>> <=> Len(s) = 0
        OBVIOUS
      <4> QED
        BY <1>1, <4>1
    <3>3. Len(Tail(todo[t])) \in Nat
      BY <1>1
    <3> QED
      BY <1>1, <3>1, <3>2, <3>3
  <2> QED
    BY <2>1 DEF EndLine
<1>6. scan' \in [Threads -> Seq(ToSet(Destinations))]
  BY <1>5, DestinationSeqs DEF Inv, TypeOK
<1>7. returned' \subseteq 1 .. Len(after) /\ returned \subseteq returned'
  BY <1>3, <1>5 DEF Inv, ReturnedBefore
<1>8. Len(after) \in Nat /\ scenario.calls \in Nat /\ Len(after) <= scenario.calls
  BY ThreadTypes, ScenariosAssumption DEF Inv
<1>9. TypeOK'
  <2>1. returned' \subseteq 1 .. scenario.calls
    BY <1>7, <1>8
  <2>2. dead' \in BOOLEAN
    <3>1. CASE Len(todo[t]) > 1
      BY <3>1 DEF EndLine, Inv, TypeOK
    <3>2. CASE ~(Len(todo[t]) > 1)
      <4>1. dead' = (Head(todo[t]).kind = "fatal")
        BY <3>2 DEF EndLine
      <4> QED
        BY <4>1, Zenon
    <3> QED
      BY <3>1, <3>2
  <2> QED
    BY <1>2, <1>5, <1>6, <2>1, <2>2 DEF Inv, TypeOK, LineType, config, received, rotation
<1>10. CallsInProgress'
  <2> SUFFICES ASSUME NEW u \in Threads, NEW i \in DOMAIN todo'[u]
               PROVE  /\ todo'[u][i].call \in 1 .. Len(after') /\ todo'[u][i].call \notin returned'
                      /\ todo'[u][i].part # "rotation"
                      /\ \A v \in Threads \ {u} : \A j \in DOMAIN todo'[v] :
                            todo'[v][j].call # todo'[u][i].call
    BY DEF CallsInProgress
  <2>1. PICK k \in DOMAIN todo[u] : todo'[u][i] = todo[u][k]
    BY <1>4
  <2>2. /\ todo[u][k].call \in 1 .. Len(after) /\ todo[u][k].call \notin returned
        /\ todo[u][k].part # "rotation"
        /\ \A v \in Threads \ {u} : \A j \in DOMAIN todo[v] : todo[v][j].call # todo[u][k].call
    BY DEF Inv, CallsInProgress
  <2>3. todo[u][k].call \notin returned'
    <3>1. CASE u = t
      <4>1. Tail(todo[t]) # <<>>
        BY <1>1, <1>2, <3>1, SMTT(30)
      <4>2. returned' = returned
        BY <1>5, <4>1
      <4> QED
        BY <2>2, <4>2
    <3>2. CASE u # t
      <4>1. todo[u][k].call # line.call
        BY <1>3, <3>2
      <4> QED
        BY <1>5, <2>2, <4>1
    <3> QED
      BY <3>1, <3>2
  <2>4. \A v \in Threads \ {u} : \A j \in DOMAIN todo'[v] : todo'[v][j].call # todo[u][k].call
    BY <1>4, <2>2
  <2> QED
    BY <1>5, <2>1, <2>2, <2>3, <2>4
<1>11. ScansHaveLines'
  <2> SUFFICES ASSUME NEW u \in Threads, scan'[u] # <<>> \/ enabled'[u] # <<>>
               PROVE  todo'[u] # <<>>
    BY DEF ScansHaveLines
  <2>1. CASE u # t
    <3>1. scan'[u] = scan[u] /\ enabled'[u] = enabled[u]
      BY <1>5, <2>1 DEF Inv, TypeOK
    <3> QED
      BY <1>2, <2>1, <3>1 DEF Inv, ScansHaveLines
  <2>2. CASE u = t
    <3>1. enabled'[t] = <<>> /\ scan[t] = <<>>
      BY <1>5 DEF EndLine
    <3>2. Tail(todo[t]) # <<>>
      BY <1>5, <2>2, <3>1
    <3> QED
      BY <1>2, <2>2, <3>2
  <2> QED
    BY <2>1, <2>2
<1>12. ReturnedBefore' /\ LoggedCalls' /\ LinesInCallOrder'
  BY <1>5, <1>7 DEF Inv, ReturnedBefore, LoggedCalls, LinesInCallOrder, received
<1> QED
  BY <1>5, <1>8, <1>9, <1>10, <1>11, <1>12 DEF Inv

\* A failed rotation is reported to the other destinations, one by one.
LEMMA RotationFailsInv ==
  ASSUME Inv, RotationFails
  PROVE  Inv'
<1>1. scenario.failures \in Nat /\ failures \in 0 .. scenario.failures
  BY ScenariosAssumption DEF Inv, TypeOK
<1>2. failures' = failures + 1 /\ failures < scenario.failures /\ scenario' = scenario
  BY DEF RotationFails
<1>3. failures' \in 0 .. scenario.failures
  BY <1>1, <1>2
<1>4. report' \in Seq(ToSet(Destinations))
  BY DestinationSeqs DEF RotationFails
<1>5. TypeOK'
  BY <1>3, <1>4 DEF RotationFails, Inv, TypeOK, LineType, config, calls, received
<1> QED
  BY <1>5 DEF RotationFails, Inv, CallsInProgress, ScansHaveLines, ReturnedBefore, LoggedCalls,
              LinesInCallOrder, calls, received

LEMMA ReportRotationInv ==
  ASSUME Inv, ReportRotation
  PROVE  Inv'
<1> DEFINE d == Head(report)
<1>1. d \in ToSet(Destinations) /\ Tail(report) \in Seq(ToSet(Destinations))
  BY HeadAndTail DEF ReportRotation, Inv, TypeOK
<1>2. /\ UNCHANGED <<scenario, config, calls, failures, dead>> /\ report' = Tail(report)
      /\ Output(d, RotationLine, FALSE) \/ UNCHANGED received
  BY DEF ReportRotation
<1>3. /\ RotationLine \in LineType /\ RotationLine.call = 0 /\ 0 \in 0 .. Len(after)
      /\ 0 \notin returned
  BY RotationLineType DEF Inv, TypeOK, ReturnedBefore
<1>4. /\ out' \in [ToSet(Destinations) -> Seq(LineType)]
      /\ crumbs' \in Seq(LineType) /\ Len(crumbs') <= MaxBreadcrumbs
      /\ LoggedCalls' /\ LinesInCallOrder'
  <2>1. CASE Output(d, RotationLine, FALSE)
    <3>1. UNCHANGED <<scenario, after>>
      BY <1>2 DEF calls
    <3>2. FALSE \in BOOLEAN
      OBVIOUS
    <3> QED
      BY <1>1, <1>3, <2>1, <3>1, <3>2, OutputInv
  <2>2. CASE UNCHANGED received
    BY <1>2, <2>2 DEF Inv, TypeOK, LoggedCalls, LinesInCallOrder, calls, received
  <2> QED
    BY <1>2, <2>1, <2>2
<1>5. TypeOK'
  BY <1>1, <1>2, <1>4 DEF Inv, TypeOK, LineType, config, calls
<1> QED
  BY <1>2, <1>4, <1>5 DEF Inv, CallsInProgress, ScansHaveLines, ReturnedBefore, calls

\* Assigning config moves levels, and no line.
LEMMA ConfigInv ==
  ASSUME Inv, AssignConfig \/ DidSet
  PROVE  Inv'
<1>1. UNCHANGED <<scenario, todo, scan, enabled, after, returned, received, rotation, dead>>
  BY DEF AssignConfig, DidSet, calls
<1>2. /\ preset' \in Preset /\ setting' \in Seq(ToSet(Destinations))
      /\ level' \in [ToSet(Destinations) -> LogLevel]
      /\ steady' \in [Threads -> BOOLEAN] /\ changes' \in 0 .. scenario.changes
  <2>1. CASE AssignConfig
    <3>1. scenario \in Scenarios /\ changes \in 0 .. scenario.changes
      BY DEF Inv, TypeOK
    <3>2. scenario.presets \subseteq Preset /\ scenario.changes \in Nat
      BY <3>1, ScenariosAssumption
    <3>3. changes' \in 0 .. scenario.changes
      <4>1. changes' = changes + 1 /\ changes < scenario.changes
        BY <2>1 DEF AssignConfig
      <4> QED
        BY <3>1, <3>2, <4>1
    <3> QED
      BY <2>1, <3>2, <3>3, DestinationSeqs DEF AssignConfig, Inv, TypeOK
  <2>2. CASE DidSet
    <3>1. Head(setting) \in ToSet(Destinations) /\ Tail(setting) \in Seq(ToSet(Destinations))
      BY <2>2, HeadAndTail DEF DidSet, Inv, TypeOK
    <3>2. LevelFor(preset) \in [ToSet(Destinations) -> LogLevel]
      BY DestinationSet DEF Inv, TypeOK, LevelFor, remote, disk, console, LogLevel, Preset
    <3> QED
      BY <2>2, <3>1, <3>2 DEF DidSet, Inv, TypeOK, calls
  <2> QED
    BY <2>1, <2>2
<1>3. TypeOK'
  BY <1>1, <1>2 DEF Inv, TypeOK, LineType, received, rotation
<1> QED
  BY <1>1, <1>3 DEF Inv, CallsInProgress, ScansHaveLines, ReturnedBefore, LoggedCalls,
                    LinesInCallOrder, received

\* Every step keeps the invariant.
LEMMA NextInv == Inv /\ [Next]_vars => Inv'
<1> SUFFICES ASSUME Inv, [Next]_vars PROVE Inv'
  OBVIOUS
<1>1. CASE \E t \in Threads : Call(t) \/ Filter(t) \/ Deliver(t) \/ EndLine(t)
  BY <1>1, CallInv, FilterInv, DeliverInv, EndLineInv
<1>2. CASE RotationFails \/ ReportRotation
  BY <1>2, RotationFailsInv, ReportRotationInv
<1>3. CASE AssignConfig \/ DidSet
  BY <1>3, ConfigInv
<1>4. CASE UNCHANGED vars
  <2>1. TypeOK'
    BY <1>4 DEF vars, config, calls, received, rotation, Inv, TypeOK, LineType
  <2>2. UNCHANGED <<scenario, todo, scan, enabled, after, returned, out>>
    BY <1>4 DEF vars, calls, received
  <2> QED
    BY <2>1, <2>2 DEF Inv, CallsInProgress, ScansHaveLines, ReturnedBefore, LoggedCalls,
                      LinesInCallOrder
<1> QED
  BY <1>1, <1>2, <1>3, <1>4 DEF Next

-----------------------------------------------------------------------------
(* The details of an error: what the trail keeps of them while the call runs. *)

\* A trail has the details of a call, or is full of lines, some of them newer.
Kept(trail, c) ==
    \/ \E i \in DOMAIN trail : trail[i].call = c /\ trail[i].part = "details"
    \/ Len(trail) = MaxBreadcrumbs

\* No assignment to config is under way while a call is steady.
SteadyMeansSet == \A t \in Threads : steady[t] => setting = <<>>

\* Whatever the preset, Sentry takes the details, which are of level info, or nothing.
DetailsOrNothing == level["sentry"] \in {"none", "info", "debug"}

\* A call has one line, or the details and then the message.
DetailsFirst ==
    \A t \in Threads :
        /\ \A i \in DOMAIN todo[t] : todo[t][i].part = "details" => todo[t][i].level = "info"
        /\ Len(todo[t]) <= 1 \/ /\ Len(todo[t]) = 2 /\ todo[t][1].detailed
                                /\ todo[t][2].call = todo[t][1].call

\* The line of a steady call that Sentry is to be given passes its level.
EnabledPasses ==
    \A t \in Threads : steady[t] /\ "sentry" \in ToSet(enabled[t])
        => Passes(todo[t][1].level, level["sentry"])

\* The details of a steady call are in the trail, or Sentry is still to be given them.
DetailsKept ==
    \A t \in Threads :
        todo[t] # <<>> /\ todo[t][1].detailed /\ steady[t] /\ Passes("info", level["sentry"])
          => \/ Kept(crumbs, todo[t][1].call)
             \/ /\ todo[t][1].part = "details"
                /\ "sentry" \in ToSet(scan[t]) \cup ToSet(enabled[t])

DetailsInv == /\ SteadyMeansSet /\ DetailsOrNothing /\ DetailsFirst /\ EnabledPasses
              /\ DetailsKept /\ EventHasItsDetails

\* A breadcrumb pushes no details out of the trail, unless it is full then.
LEMMA BreadcrumbKeeps ==
  ASSUME NEW trail \in Seq(LineType), Len(trail) <= MaxBreadcrumbs, NEW line \in LineType, NEW c
  PROVE  LET longer == AddBreadcrumb(trail, line)
         IN  /\ Kept(trail, c) => Kept(longer, c)
             /\ line.part = "details" => Kept(longer, line.call)
<1> DEFINE longer == Append(trail, line)
<1>1. /\ longer \in Seq(LineType) /\ Len(longer) = Len(trail) + 1 /\ Len(trail) \in Nat
      /\ DOMAIN trail = 1 .. Len(trail) /\ DOMAIN longer = 1 .. Len(trail) + 1
      /\ \A i \in DOMAIN trail : longer[i] = trail[i] /\ i \in DOMAIN longer
      /\ longer[Len(trail) + 1] = line /\ Len(trail) + 1 \in DOMAIN longer
  OBVIOUS
<1>2. CASE Len(trail) = MaxBreadcrumbs
  <2>1. AddBreadcrumb(trail, line) = Tail(longer)
    BY <1>1, <1>2, BreadcrumbsAssumption DEF AddBreadcrumb
  <2>2. Len(Tail(longer)) = MaxBreadcrumbs
    BY <1>1, <1>2
  <2> QED
    BY <2>1, <2>2 DEF Kept
<1>3. CASE Len(trail) # MaxBreadcrumbs
  <2>1. AddBreadcrumb(trail, line) = longer
    <3>1. ASSUME NEW n \in Nat, NEW m \in Nat, n <= m, n # m
          PROVE  ~(n + 1 > m)
      BY <3>1
    <3>2. ~(Len(longer) > MaxBreadcrumbs)
      BY <1>1, <1>3, <3>1, BreadcrumbsAssumption
    <3> QED
      BY <3>2 DEF AddBreadcrumb
  <2>2. Kept(trail, c) => Kept(longer, c)
    BY <1>1, <1>3 DEF Kept
  <2>3. line.part = "details" => Kept(longer, line.call)
    BY <1>1 DEF Kept
  <2> QED
    BY <2>1, <2>2, <2>3
<1> QED
  BY <1>2, <1>3

\* So a line that reaches a destination takes no details away, and an event of it has them
\* if the trail had.
LEMMA OutputKeeps ==
  ASSUME Inv, NEW d \in ToSet(Destinations), NEW line \in LineType, NEW s \in BOOLEAN,
         Output(d, line, s), EventHasItsDetails,
         \/ line = RotationLine /\ s = FALSE
         \/ /\ line.part # "rotation"
            /\ d = "sentry" /\ line.level = "error" /\ line.detailed /\ s => Kept(crumbs, line.call)
  PROVE  /\ \A c : Kept(crumbs, c) => Kept(crumbs', c)
         /\ d = "sentry" /\ line.part = "details" => Kept(crumbs', line.call)
         /\ EventHasItsDetails'
<1>1. crumbs \in Seq(LineType) /\ Len(crumbs) <= MaxBreadcrumbs /\ scenario \in Scenarios
  BY DEF Inv, TypeOK
<1>2. CASE d # "sentry"
  <2>1. UNCHANGED <<crumbs, events>>
    BY <1>2 DEF Output
  <2> QED
    BY <1>2, <2>1 DEF EventHasItsDetails
<1>3. CASE d = "sentry" /\ line.part = "rotation"
  <2>1. line = RotationLine /\ s = FALSE
    BY <1>3
  <2>2. /\ crumbs' = AddBreadcrumb(crumbs, [RotationLine EXCEPT !.level = "warn"])
        /\ events' = events \cup {Captured(RotationLine, crumbs', FALSE)}
    BY <1>3, <2>1 DEF Output, SentryOutput
  <2>3. \A c : Kept(crumbs, c) => Kept(crumbs', c)
    BY <1>1, <2>2, RotationLineType, BreadcrumbKeeps
  <2>4. ~Captured(RotationLine, crumbs', FALSE).steady
    BY DEF Captured
  <2>5. EventHasItsDetails'
    BY <2>2, <2>4 DEF EventHasItsDetails
  <2> QED
    BY <1>3, <2>3, <2>5
<1>4. CASE d = "sentry" /\ line.part # "rotation"
  <2>1. line # RotationLine
    BY <1>4 DEF RotationLine
  <2>2. line.level = "error" /\ line.detailed /\ s => Kept(crumbs, line.call)
    BY <1>4, <2>1
  <2>3. /\ crumbs' = AddBreadcrumb(crumbs, line)
        /\ events' = IF line.level = "error" THEN events \cup {Captured(line, crumbs, s)}
                                             ELSE events
    BY <1>4 DEF Output, SentryOutput
  <2>4. /\ \A c : Kept(crumbs, c) => Kept(crumbs', c)
        /\ line.part = "details" => Kept(crumbs', line.call)
    BY <1>1, <2>3, BreadcrumbKeeps
  <2>5. ASSUME NEW e \in events', e.steady /\ e.line.detailed
        PROVE  Kept(e.trail, e.line.call)
    <3>1. CASE e \in events
      BY <2>5, <3>1 DEF EventHasItsDetails, Kept
    <3>2. CASE e \notin events
      <4>1. line.level = "error" /\ e = Captured(line, crumbs, s)
        BY <2>3, <2>5, <3>2
      <4>2. e.steady = s /\ e.line = line /\ e.trail = crumbs
        BY <4>1 DEF Captured
      <4> QED
        BY <2>2, <2>5, <4>1, <4>2
    <3> QED
      BY <3>1, <3>2
  <2>6. EventHasItsDetails'
    BY <2>5 DEF EventHasItsDetails, Kept
  <2> QED
    BY <2>4, <2>6
<1> QED
  BY <1>2, <1>3, <1>4

\* At first no thread logs, and Sentry has the level of the preset.
LEMMA InitDetails == Init => DetailsInv
<1> SUFFICES ASSUME Init PROVE DetailsInv
  OBVIOUS
<1>1. preset \in Preset
  BY InitInv DEF Inv, TypeOK
<1>2. DetailsOrNothing
  BY <1>1 DEF DetailsOrNothing, Init, LevelFor, remote, Preset
<1>3. /\ \A t \in Threads : todo[t] = <<>> /\ enabled[t] = <<>>
      /\ setting = <<>> /\ events = {}
  BY DEF Init
<1>4. DetailsFirst /\ EnabledPasses
  BY <1>3 DEF DetailsFirst, EnabledPasses, ToSet
<1> QED
  BY <1>2, <1>3, <1>4 DEF DetailsInv, SteadyMeansSet, DetailsKept, EventHasItsDetails

\* A step that gives no thread another line and no destination another level, and takes
\* nothing from the trail, is one that tests destinations or logs what is no call's line.
LEMMA SameLines ==
  ASSUME Inv, DetailsInv, UNCHANGED <<setting, level, todo, steady>>,
         \A c : Kept(crumbs, c) => Kept(crumbs', c), EventHasItsDetails',
         UNCHANGED <<scan, enabled>>
  PROVE  DetailsInv'
<1>1. SteadyMeansSet' /\ DetailsOrNothing'
  BY DEF DetailsInv, SteadyMeansSet, DetailsOrNothing
<1>2. DetailsFirst' /\ EnabledPasses'
  BY DEF DetailsInv, DetailsFirst, EnabledPasses
<1>3. DetailsKept'
  BY DEF DetailsInv, DetailsKept
<1> QED
  BY <1>1, <1>2, <1>3 DEF DetailsInv

\* A call is steady while config is not assigned; Sentry is still to be tested for it.
LEMMA CallDetails ==
  ASSUME Inv, DetailsInv, NEW t \in Threads, Call(t)
  PROVE  DetailsInv'
<1> DEFINE c == Len(after) + 1
<1>1. PICK k \in scenario.kinds, details \in BOOLEAN :
          todo' = [todo EXCEPT ![t] = LinesOf(c, k, details)]
  BY DEF Call
<1>2. k \in Kind /\ c \in 1 .. scenario.calls
  <2>1. /\ scenario \in Scenarios /\ scenario.kinds \subseteq Kind /\ scenario.calls \in Nat
        /\ Len(after) \in Nat /\ Len(after) < scenario.calls
    BY ThreadTypes, ScenariosAssumption DEF Call
  <2> QED
    BY <2>1
<1> DEFINE lines == LinesOf(c, k, details)
<1>3. /\ lines \in Seq(LineType)
      /\ \/ Len(lines) = 2 /\ lines[1] = DetailsLine(c, k) /\ lines[2] = Line(c, k, details)
         \/ Len(lines) = 1 /\ ~lines[1].detailed /\ lines[1].part = "message"
  <2>1. /\ lines \in Seq(LineType)
        /\ \/ Len(lines) = 2 /\ lines[1] = DetailsLine(c, k) /\ lines[2] = Line(c, k, details)
           \/ Len(lines) = 1 /\ ~lines[1].detailed
    BY <1>2, LinesAreLines
  <2>2. ~Detailed(k, details) => lines = <<Line(c, k, details)>>
    BY DEF LinesOf
  <2>3. Detailed(k, details) => Len(lines) = 2
    BY DEF LinesOf
  <2>4. Line(c, k, details).part = "message"
    BY DEF Line
  <2> QED
    BY <2>1, <2>2, <2>3, <2>4
<1>4. /\ todo'[t] = lines /\ scan'[t] = Destinations /\ steady'[t] = (setting = <<>>)
      /\ \A u \in Threads \ {t} : /\ todo'[u] = todo[u] /\ scan'[u] = scan[u]
                                  /\ steady'[u] = steady[u]
      /\ UNCHANGED <<setting, level, enabled, crumbs, events>>
  <2>1. todo'[t] = lines /\ \A u \in Threads \ {t} : todo'[u] = todo[u]
    BY <1>1 DEF Inv, TypeOK
  <2>2. scan'[t] = Destinations /\ \A u \in Threads \ {t} : scan'[u] = scan[u]
    BY DEF Call, Inv, TypeOK
  <2>3. steady'[t] = (setting = <<>>) /\ \A u \in Threads \ {t} : steady'[u] = steady[u]
    BY Zenon DEF Call, Inv, TypeOK
  <2> QED
    BY <2>1, <2>2, <2>3 DEF Call, config, received
<1>5. enabled[t] = <<>>
  BY DEF Call, Inv, ScansHaveLines
<1>6. SteadyMeansSet'
  BY <1>4 DEF DetailsInv, SteadyMeansSet
<1>7. DetailsFirst'
  <2>1. \A i \in DOMAIN lines : lines[i].part = "details" => lines[i].level = "info"
    <3>1. DOMAIN lines = 1 .. Len(lines)
      BY <1>3
    <3> QED
      BY <1>3, <3>1 DEF DetailsLine, Line
  <2>2. \/ Len(lines) <= 1
        \/ Len(lines) = 2 /\ lines[1].detailed /\ lines[2].call = lines[1].call
    <3>1. /\ DetailsLine(c, k).detailed
          /\ Line(c, k, details).call = DetailsLine(c, k).call
      BY Zenon DEF DetailsLine, Line
    <3>2. CASE Len(lines) = 2 /\ lines[1] = DetailsLine(c, k) /\ lines[2] = Line(c, k, details)
      BY <3>1, <3>2
    <3>3. CASE Len(lines) = 1
      <4>1. Len(lines) \in Nat /\ \A n \in Nat : n = 1 => n <= 1
        BY <1>3
      <4> QED
        BY <3>3, <4>1
    <3> QED
      BY <1>3, <3>2, <3>3
  <2> QED
    BY <1>4, <2>1, <2>2 DEF DetailsInv, DetailsFirst
<1>8. EnabledPasses'
  <2> SUFFICES ASSUME NEW u \in Threads, steady'[u], "sentry" \in ToSet(enabled[u])
               PROVE  Passes(todo'[u][1].level, level["sentry"])
    BY <1>4 DEF EnabledPasses
  <2>1. u # t
    BY <1>5 DEF ToSet
  <2> QED
    BY <1>4, <2>1 DEF DetailsInv, EnabledPasses
<1>9. DetailsKept'
  <2> SUFFICES ASSUME NEW u \in Threads, todo'[u] # <<>>, todo'[u][1].detailed, steady'[u],
                      Passes("info", level["sentry"])
               PROVE  \/ Kept(crumbs, todo'[u][1].call)
                      \/ /\ todo'[u][1].part = "details"
                         /\ "sentry" \in ToSet(scan'[u]) \cup ToSet(enabled[u])
    BY <1>4 DEF DetailsKept
  <2>1. CASE u = t
    <3>1. todo'[t][1].part = "details"
      BY <1>3, <1>4, <2>1 DEF DetailsLine
    <3> QED
      BY <1>4, <2>1, <3>1, DestinationSeqs
  <2>2. CASE u # t
    BY <1>4, <2>2 DEF DetailsInv, DetailsKept
  <2> QED
    BY <2>1, <2>2
<1>10. DetailsOrNothing' /\ EventHasItsDetails'
  BY <1>4 DEF DetailsInv, DetailsOrNothing, EventHasItsDetails
<1> QED
  BY <1>6, <1>7, <1>8, <1>9, <1>10 DEF DetailsInv

\* Sentry is enabled for the details if it takes any.
LEMMA FilterDetails ==
  ASSUME Inv, DetailsInv, NEW t \in Threads, Filter(t)
  PROVE  DetailsInv'
<1> DEFINE d == Head(scan[t])
<1>1. UNCHANGED <<setting, level, todo, steady, crumbs, events>>
  BY DEF Filter, config, received
<1>2. /\ scan[t] \in Seq(ToSet(Destinations)) /\ d \in ToSet(Destinations)
      /\ enabled[t] \in Seq(ToSet(Destinations)) /\ scan[t] # <<>> /\ todo[t] # <<>>
  BY ThreadTypes, HeadAndTail DEF Filter, Inv, ScansHaveLines
<1>3. Head(todo[t]) = todo[t][1]
  BY <1>2, ThreadTypes, HeadAndTail
<1>4. /\ scan'[t] = Tail(scan[t]) /\ \A u \in Threads \ {t} : scan'[u] = scan[u]
  BY DEF Filter, Inv, TypeOK
<1>5. /\ \A u \in Threads \ {t} : enabled'[u] = enabled[u]
      /\ \/ /\ Passes(todo[t][1].level, level[d])
            /\ ToSet(enabled'[t]) = ToSet(enabled[t]) \cup {d}
         \/ ~Passes(todo[t][1].level, level[d]) /\ enabled'[t] = enabled[t]
  <2>1. CASE Passes(todo[t][1].level, level[d])
    <3>1. enabled' = [enabled EXCEPT ![t] = Append(@, d)]
      BY <1>3, <2>1 DEF Filter
    <3>2. enabled'[t] = Append(enabled[t], d) /\ \A u \in Threads \ {t} : enabled'[u] = enabled[u]
      BY <3>1 DEF Inv, TypeOK
    <3> QED
      BY <1>2, <2>1, <3>2, AppendedSet
  <2>2. CASE ~Passes(todo[t][1].level, level[d])
    BY <1>3, <2>2 DEF Filter
  <2> QED
    BY <2>1, <2>2
<1>6. EnabledPasses'
  <2> SUFFICES ASSUME NEW u \in Threads, steady[u], "sentry" \in ToSet(enabled'[u])
               PROVE  Passes(todo[u][1].level, level["sentry"])
    BY <1>1 DEF EnabledPasses
  <2> QED
    BY <1>5 DEF DetailsInv, EnabledPasses
<1>7. DetailsKept'
  <2> SUFFICES ASSUME NEW u \in Threads, todo[u] # <<>>, todo[u][1].detailed, steady[u],
                      Passes("info", level["sentry"]), ~Kept(crumbs, todo[u][1].call)
               PROVE  /\ todo[u][1].part = "details"
                      /\ "sentry" \in ToSet(scan'[u]) \cup ToSet(enabled'[u])
    BY <1>1 DEF DetailsKept
  <2>1. /\ todo[u][1].part = "details"
        /\ "sentry" \in ToSet(scan[u]) \cup ToSet(enabled[u])
    BY DEF DetailsInv, DetailsKept
  <2>2. CASE u # t
    BY <1>4, <1>5, <2>1, <2>2
  <2>3. CASE u = t
    <3>1. ToSet(enabled[t]) \subseteq ToSet(enabled'[t])
      BY <1>5
    <3>2. CASE "sentry" \in ToSet(scan[t]) /\ d # "sentry"
      BY <1>2, <1>4, <2>1, <2>3, <3>2, HeadOrTail
    <3>3. CASE d = "sentry"
      <4>1. todo[t][1].level = "info"
        <5>1. 1 \in DOMAIN todo[t]
          BY <1>2, ThreadTypes, HeadAndTail
        <5> QED
          BY <2>1, <2>3, <5>1 DEF DetailsInv, DetailsFirst
      <4> QED
        BY <1>5, <2>1, <2>3, <3>3, <4>1
    <3> QED
      BY <2>1, <2>3, <3>1, <3>2, <3>3
  <2> QED
    BY <2>2, <2>3
<1>8. SteadyMeansSet' /\ DetailsOrNothing' /\ DetailsFirst' /\ EventHasItsDetails'
  BY <1>1 DEF DetailsInv, SteadyMeansSet, DetailsOrNothing, DetailsFirst, EventHasItsDetails
<1> QED
  BY <1>6, <1>7, <1>8 DEF DetailsInv

\* What Sentry is given is the details, which the trail keeps, or a message whose details
\* it was given before.
LEMMA DeliverDetails ==
  ASSUME Inv, DetailsInv, NEW t \in Threads, Deliver(t)
  PROVE  DetailsInv'
<1> DEFINE d == Head(enabled[t])  line == todo[t][1]
<1>1. todo[t] # <<>>
  BY DEF Deliver, Inv, ScansHaveLines
<1>2. /\ d \in ToSet(Destinations) /\ enabled[t] \in Seq(ToSet(Destinations)) /\ enabled[t] # <<>>
      /\ line \in LineType /\ line = Head(todo[t]) /\ 1 \in DOMAIN todo[t] /\ d \in ToSet(enabled[t])
  <2>1. /\ d \in ToSet(Destinations) /\ enabled[t] \in Seq(ToSet(Destinations)) /\ enabled[t] # <<>>
        /\ d = enabled[t][1] /\ 1 \in DOMAIN enabled[t]
    BY ThreadTypes, HeadAndTail DEF Deliver
  <2>2. line \in LineType /\ line = Head(todo[t]) /\ 1 \in DOMAIN todo[t]
    BY <1>1, ThreadTypes, HeadAndTail
  <2> QED
    BY <2>1, <2>2 DEF ToSet
<1>3. line.part # "rotation"
  BY <1>2 DEF Inv, CallsInProgress
<1>4. Output(d, line, steady[t]) /\ steady[t] \in BOOLEAN
  BY <1>2, ThreadTypes DEF Deliver
<1>5. UNCHANGED <<setting, level, todo, steady, scan>>
  BY DEF Deliver, config
<1>6. /\ \A u \in Threads \ {t} : enabled'[u] = enabled[u]
      /\ enabled'[t] = Tail(enabled[t])
  BY DEF Deliver, Inv, TypeOK
<1>7. ASSUME d = "sentry", line.level = "error", line.detailed, steady[t]
      PROVE  Kept(crumbs, line.call)
  <2>1. Passes("error", level["sentry"])
    BY <1>2, <1>7 DEF DetailsInv, EnabledPasses
  <2>2. Passes("info", level["sentry"])
    BY <2>1 DEF DetailsInv, DetailsOrNothing, Passes, xcgLevel
  <2>3. line.part # "details"
    BY <1>2, <1>7 DEF DetailsInv, DetailsFirst
  <2> QED
    BY <1>1, <1>7, <2>2, <2>3 DEF DetailsInv, DetailsKept
<1>8. /\ \A c : Kept(crumbs, c) => Kept(crumbs', c)
      /\ d = "sentry" /\ line.part = "details" => Kept(crumbs', line.call)
      /\ EventHasItsDetails'
  BY <1>2, <1>3, <1>4, <1>7, OutputKeeps DEF DetailsInv
<1>9. EnabledPasses'
  <2> SUFFICES ASSUME NEW u \in Threads, steady[u], "sentry" \in ToSet(enabled'[u])
               PROVE  Passes(todo[u][1].level, level["sentry"])
    BY <1>5 DEF EnabledPasses
  <2>1. ToSet(enabled'[u]) \subseteq ToSet(enabled[u])
    <3>1. CASE u = t
      BY <1>2, <1>6, <3>1, TailSet
    <3>2. CASE u # t
      BY <1>6, <3>2
    <3> QED
      BY <3>1, <3>2
  <2> QED
    BY <2>1 DEF DetailsInv, EnabledPasses
<1>10. DetailsKept'
  <2> SUFFICES ASSUME NEW u \in Threads, todo[u] # <<>>, todo[u][1].detailed, steady[u],
                      Passes("info", level["sentry"]), ~Kept(crumbs', todo[u][1].call)
               PROVE  /\ todo[u][1].part = "details"
                      /\ "sentry" \in ToSet(scan[u]) \cup ToSet(enabled'[u])
    BY <1>5 DEF DetailsKept
  <2>1. /\ todo[u][1].part = "details"
        /\ "sentry" \in ToSet(scan[u]) \cup ToSet(enabled[u])
    BY <1>8 DEF DetailsInv, DetailsKept
  <2>2. CASE u # t
    BY <1>6, <2>1, <2>2
  <2>3. CASE u = t
    <3>1. d # "sentry"
      BY <1>8, <2>1, <2>3
    <3>2. "sentry" \in ToSet(enabled[t]) => "sentry" \in ToSet(Tail(enabled[t]))
      BY <1>2, <3>1, HeadOrTail
    <3> QED
      BY <1>6, <2>1, <2>3, <3>2
  <2> QED
    BY <2>2, <2>3
<1>11. SteadyMeansSet' /\ DetailsOrNothing' /\ DetailsFirst'
  BY <1>5 DEF DetailsInv, SteadyMeansSet, DetailsOrNothing, DetailsFirst
<1> QED
  BY <1>8, <1>9, <1>10, <1>11 DEF DetailsInv

\* The message comes after the details have been given to all that take them.
LEMMA EndLineDetails ==
  ASSUME Inv, DetailsInv, NEW t \in Threads, EndLine(t)
  PROVE  DetailsInv'
<1>1. /\ UNCHANGED <<setting, level, enabled, steady, crumbs, events>>
      /\ todo[t] # <<>> /\ scan[t] = <<>> /\ enabled[t] = <<>>
      /\ todo' = [todo EXCEPT ![t] = Tail(@)]
  BY DEF EndLine, config, received
<1>2. /\ todo'[t] = Tail(todo[t]) /\ Tail(todo[t]) \in Seq(LineType) /\ Len(todo[t]) \in Nat \ {0}
      /\ Len(Tail(todo[t])) = Len(todo[t]) - 1
      /\ \A i \in DOMAIN Tail(todo[t]) :
            i + 1 \in DOMAIN todo[t] /\ Tail(todo[t])[i] = todo[t][i + 1]
      /\ \A u \in Threads \ {t} : todo'[u] = todo[u]
  <2>1. todo'[t] = Tail(todo[t]) /\ \A u \in Threads \ {t} : todo'[u] = todo[u]
    BY <1>1 DEF Inv, TypeOK
  <2> QED
    BY <1>1, <2>1, ThreadTypes, HeadAndTail
<1>3. \A u \in Threads \ {t} : scan'[u] = scan[u]
  BY DEF EndLine, Inv, TypeOK
<1>4. /\ Len(Tail(todo[t])) <= 1
      /\ Tail(todo[t]) # <<>> => /\ todo[t][1].detailed
                                 /\ Tail(todo[t])[1].call = todo[t][1].call
  <2>1. \/ Len(todo[t]) <= 1
        \/ Len(todo[t]) = 2 /\ todo[t][1].detailed /\ todo[t][2].call = todo[t][1].call
    BY DEF DetailsInv, DetailsFirst
  <2>2. /\ Len(todo[t]) <= 1 => Tail(todo[t]) = <<>>
        /\ Len(todo[t]) = 2 => Len(Tail(todo[t])) = 1 /\ Tail(todo[t])[1] = todo[t][2]
    BY <1>1, ThreadTypes, ShortTail
  <2>3. CASE Len(todo[t]) <= 1
    <3>1. Tail(todo[t]) = <<>>
      BY <2>2, <2>3
    <3>2. Len(Tail(todo[t])) <= 1
      BY <3>1
    <3> QED
      BY <3>1, <3>2
  <2>4. CASE Len(todo[t]) = 2 /\ todo[t][1].detailed /\ todo[t][2].call = todo[t][1].call
    <3>1. Len(Tail(todo[t])) = 1 /\ Tail(todo[t])[1] = todo[t][2]
      BY <2>2, <2>4
    <3>2. Len(Tail(todo[t])) <= 1
      <4>1. \A n \in Nat : n = 1 => n <= 1
        OBVIOUS
      <4>2. Len(Tail(todo[t])) \in Nat
        BY <1>2
      <4> QED
        BY <3>1, <4>1, <4>2
    <3> QED
      BY <2>4, <3>1, <3>2
  <2> QED
    BY <2>1, <2>3, <2>4
<1>5. DetailsFirst'
  <2> SUFFICES ASSUME NEW u \in Threads
               PROVE  /\ \A i \in DOMAIN todo'[u] :
                            todo'[u][i].part = "details" => todo'[u][i].level = "info"
                      /\ Len(todo'[u]) <= 1 \/ /\ Len(todo'[u]) = 2 /\ todo'[u][1].detailed
                                               /\ todo'[u][2].call = todo'[u][1].call
    BY DEF DetailsFirst
  <2>1. CASE u = t
    <3>1. Len(todo'[t]) <= 1
      BY <1>2, <1>4
    <3>2. \A i \in DOMAIN Tail(todo[t]) :
             Tail(todo[t])[i].part = "details" => Tail(todo[t])[i].level = "info"
      BY <1>2 DEF DetailsInv, DetailsFirst
    <3> QED
      BY <1>2, <2>1, <3>1, <3>2
  <2>2. CASE u # t
    BY <1>2, <2>2 DEF DetailsInv, DetailsFirst
  <2> QED
    BY <2>1, <2>2
<1>6. EnabledPasses'
  <2> SUFFICES ASSUME NEW u \in Threads, steady[u], "sentry" \in ToSet(enabled[u])
               PROVE  Passes(todo'[u][1].level, level["sentry"])
    BY <1>1 DEF EnabledPasses
  <2>1. u # t
    BY <1>1 DEF ToSet
  <2> QED
    BY <1>2, <2>1 DEF DetailsInv, EnabledPasses
<1>7. DetailsKept'
  <2> SUFFICES ASSUME NEW u \in Threads, todo'[u] # <<>>, todo'[u][1].detailed, steady[u],
                      Passes("info", level["sentry"]), ~Kept(crumbs, todo'[u][1].call)
               PROVE  /\ todo'[u][1].part = "details"
                      /\ "sentry" \in ToSet(scan'[u]) \cup ToSet(enabled[u])
    BY <1>1 DEF DetailsKept
  <2>1. CASE u # t
    BY <1>2, <1>3, <2>1 DEF DetailsInv, DetailsKept
  <2>2. CASE u = t
    <3>1. todo[t][1].detailed /\ ~Kept(crumbs, todo[t][1].call)
      BY <1>2, <1>4, <2>2
    <3>2. "sentry" \in ToSet(scan[t]) \cup ToSet(enabled[t])
      BY <1>1, <2>2, <3>1 DEF DetailsInv, DetailsKept
    <3>3. ToSet(scan[t]) = {} /\ ToSet(enabled[t]) = {}
      BY <1>1 DEF ToSet
    <3> QED
      BY <3>2, <3>3
  <2> QED
    BY <2>1, <2>2
<1>8. SteadyMeansSet' /\ DetailsOrNothing' /\ EventHasItsDetails'
  BY <1>1 DEF DetailsInv, SteadyMeansSet, DetailsOrNothing, EventHasItsDetails
<1> QED
  BY <1>5, <1>6, <1>7, <1>8 DEF DetailsInv

\* A failed rotation is an event without details, and one more breadcrumb.
LEMMA RotationDetails ==
  ASSUME Inv, DetailsInv, RotationFails \/ ReportRotation
  PROVE  DetailsInv'
<1>1. UNCHANGED <<setting, level, todo, steady, scan, enabled>>
  BY DEF RotationFails, ReportRotation, config, calls
<1>2. (\A c : Kept(crumbs, c) => Kept(crumbs', c)) /\ EventHasItsDetails'
  <2>1. CASE UNCHANGED <<crumbs, events>>
    BY <2>1 DEF DetailsInv, EventHasItsDetails
  <2>2. CASE report # <<>> /\ Output(Head(report), RotationLine, FALSE)
    <3>1. Head(report) \in ToSet(Destinations)
      BY <2>2, HeadAndTail DEF Inv, TypeOK
    <3>2. RotationLine \in LineType
      BY RotationLineType DEF Inv, TypeOK
    <3>3. FALSE \in BOOLEAN
      OBVIOUS
    <3> QED
      BY <2>2, <3>1, <3>2, <3>3, OutputKeeps DEF DetailsInv
  <2> QED
    BY <2>1, <2>2 DEF RotationFails, ReportRotation, received
<1> QED
  BY <1>1, <1>2, SameLines

\* While config is assigned no call is steady.
LEMMA SteadyNever ==
  ASSUME Inv, DetailsInv, AssignConfig \/ DidSet
  PROVE  \A t \in Threads : ~steady'[t]
<1>1. CASE AssignConfig
  BY <1>1 DEF AssignConfig
<1>2. CASE DidSet
  <2>1. setting # <<>> /\ steady' = steady
    BY <1>2 DEF DidSet, calls
  <2> QED
    BY <2>1 DEF DetailsInv, SteadyMeansSet
<1> QED
  BY <1>1, <1>2

\* Sentry's level is always that of a preset.
LEMMA ConfigDetails ==
  ASSUME Inv, DetailsInv, AssignConfig \/ DidSet
  PROVE  DetailsInv'
<1>1. UNCHANGED <<todo, scan, enabled, crumbs, events>>
  BY DEF AssignConfig, DidSet, calls, received
<1>2. \A t \in Threads : ~steady'[t]
  BY SteadyNever
<1>3. DetailsOrNothing'
  <2>1. CASE AssignConfig
    BY <2>1 DEF AssignConfig, DetailsInv, DetailsOrNothing
  <2>2. CASE DidSet
    <3>1. preset \in Preset /\ level \in [ToSet(Destinations) -> LogLevel]
      BY DEF Inv, TypeOK
    <3>2. LevelFor(preset)["sentry"] \in {"none", "info", "debug"}
      BY <3>1 DEF LevelFor, remote, Preset
    <3>3. level' = [level EXCEPT ![Head(setting)] = LevelFor(preset)[Head(setting)]]
      BY <2>2 DEF DidSet
    <3>4. level'["sentry"] \in {level["sentry"], LevelFor(preset)["sentry"]}
      BY <3>1, <3>3, DestinationSet
    <3> QED
      BY <3>2, <3>4 DEF DetailsInv, DetailsOrNothing
  <2> QED
    BY <2>1, <2>2
<1>4. DetailsFirst' /\ EventHasItsDetails'
  BY <1>1 DEF DetailsInv, DetailsFirst, EventHasItsDetails
<1> QED
  BY <1>2, <1>3, <1>4 DEF DetailsInv, SteadyMeansSet, EnabledPasses, DetailsKept

\* Every step keeps what the trail has of the details.
LEMMA NextDetails == Inv /\ DetailsInv /\ [Next]_vars => DetailsInv'
<1> SUFFICES ASSUME Inv, DetailsInv, [Next]_vars PROVE DetailsInv'
  OBVIOUS
<1>1. CASE \E t \in Threads : Call(t) \/ Filter(t) \/ Deliver(t) \/ EndLine(t)
  BY <1>1, CallDetails, FilterDetails, DeliverDetails, EndLineDetails
<1>2. CASE RotationFails \/ ReportRotation
  BY <1>2, RotationDetails
<1>3. CASE AssignConfig \/ DidSet
  BY <1>3, ConfigDetails
<1>4. CASE UNCHANGED vars
  <2>1. UNCHANGED <<setting, level, todo, steady, scan, enabled, crumbs, events>>
    BY <1>4 DEF vars, config, calls, received
  <2>2. EventHasItsDetails'
    BY <2>1 DEF DetailsInv, EventHasItsDetails
  <2> QED
    BY <2>1, <2>2, SameLines
<1> QED
  BY <1>1, <1>2, <1>3, <1>4 DEF Next

-----------------------------------------------------------------------------
(* Which destinations have a line, while its call runs. *)

\* A line is not among some lines, or once.
Absent(lines, line)    == \A i \in DOMAIN lines : lines[i] # line
GivenOnce(lines, line) == \E i \in DOMAIN lines :
    lines[i] = line /\ \A j \in DOMAIN lines : lines[j] = line => j = i

NoRepeats(s) == \A i, j \in DOMAIN s : s[i] = s[j] => i = j

\* The levels are those of the preset, but for the assignments to come.
LevelsSettle ==
    \A d \in ToSet(Destinations) : d \in ToSet(setting) \/ level[d] = LevelFor(preset)[d]

\* The lines of a call differ, and no destination is tested or enabled twice for one.
ChosenOnce ==
    \A t \in Threads : /\ NoRepeats(todo[t]) /\ NoRepeats(scan[t]) /\ NoRepeats(enabled[t])
                       /\ ToSet(scan[t]) \cap ToSet(enabled[t]) = {}

\* A destination that is to be tested or given a line does not have it, and none has the
\* lines that follow.
StillAbsent ==
    \A t \in Threads : \A d \in ToSet(Destinations) : \A k \in DOMAIN todo[t] :
        k # 1 \/ d \in ToSet(scan[t]) \cup ToSet(enabled[t]) => Absent(out[d], todo[t][k])

\* In a steady call those are enabled that the line passes, and those have it that were.
GivenAsEnabled ==
    \A t \in Threads : \A d \in ToSet(Destinations) :
        todo[t] # <<>> /\ steady[t] =>
            /\ d \in ToSet(enabled[t]) => Passes(todo[t][1].level, level[d])
            /\ d \notin ToSet(scan[t]) \cup ToSet(enabled[t])
                 => \/ Passes(todo[t][1].level, level[d]) /\ GivenOnce(out[d], todo[t][1])
                    \/ ~Passes(todo[t][1].level, level[d]) /\ Absent(out[d], todo[t][1])

SharesInv == LevelsSettle /\ ChosenOnce /\ StillAbsent /\ GivenAsEnabled

\* One more line changes nothing for the other lines; a line that was absent is there once.
LEMMA AppendedLine ==
  ASSUME NEW S, NEW s \in Seq(S), NEW y \in S, NEW x
  PROVE  LET longer == Append(s, y)
         IN  /\ x # y /\ Absent(s, x) => Absent(longer, x)
             /\ x # y /\ GivenOnce(s, x) => GivenOnce(longer, x)
             /\ Absent(s, y) => GivenOnce(longer, y)
<1> DEFINE longer == Append(s, y)
<1>1. /\ DOMAIN longer = 1 .. Len(s) + 1 /\ DOMAIN s = 1 .. Len(s) /\ Len(s) \in Nat
      /\ \A i \in 1 .. Len(s) : longer[i] = s[i]
      /\ longer[Len(s) + 1] = y
  OBVIOUS
<1>2. \A i \in DOMAIN longer : i \in DOMAIN s \/ i = Len(s) + 1
  BY <1>1
<1>3. /\ DOMAIN s \subseteq DOMAIN longer /\ Len(s) + 1 \in DOMAIN longer
      /\ \A i \in DOMAIN s : longer[i] = s[i]
  BY <1>1
<1> HIDE DEF longer
<1>4. x # y /\ Absent(s, x) => Absent(longer, x)
  BY <1>1, <1>2, <1>3 DEF Absent
<1>5. x # y /\ GivenOnce(s, x) => GivenOnce(longer, x)
  BY <1>1, <1>2, <1>3 DEF GivenOnce
<1>6. Absent(s, y) => GivenOnce(longer, y)
  BY <1>1, <1>2, <1>3 DEF Absent, GivenOnce
<1> QED
  BY <1>4, <1>5, <1>6 DEF longer

\* The head of a sequence without repeats is not in its tail, which has none either.
LEMMA TailNoRepeats ==
  ASSUME NEW S, NEW s \in Seq(S), s # <<>>, NoRepeats(s)
  PROVE  NoRepeats(Tail(s)) /\ Head(s) \notin ToSet(Tail(s)) /\ Head(s) \in ToSet(s)
<1>1. /\ Head(s) = s[1] /\ 1 \in DOMAIN s /\ DOMAIN Tail(s) \subseteq Nat \ {0}
      /\ \A i \in DOMAIN Tail(s) : i + 1 \in DOMAIN s /\ Tail(s)[i] = s[i + 1]
  OBVIOUS
<1>2. NoRepeats(Tail(s))
  BY <1>1 DEF NoRepeats
<1>3. \A i \in DOMAIN Tail(s) : Tail(s)[i] # Head(s)
  BY <1>1 DEF NoRepeats
<1> QED
  BY <1>1, <1>2, <1>3 DEF ToSet

\* What is appended to a sequence without repeats and is new leaves it without any.
LEMMA AppendNoRepeats ==
  ASSUME NEW S, NEW s \in Seq(S), NEW y \in S, NoRepeats(s), y \notin ToSet(s)
  PROVE  NoRepeats(Append(s, y))
<1> DEFINE longer == Append(s, y)
<1>1. /\ \A i \in DOMAIN longer : i \in DOMAIN s \/ i = Len(s) + 1
      /\ \A i \in DOMAIN s : longer[i] = s[i]
      /\ longer[Len(s) + 1] = y
  OBVIOUS
<1>2. \A i \in DOMAIN s : s[i] # y
  BY DEF ToSet
<1> QED
  BY <1>1, <1>2 DEF NoRepeats

\* SteamcLog.init adds each destination once, didSet sets each level once.
LEMMA DestinationsDiffer ==
  /\ NoRepeats(Destinations) /\ ToSet(DidSetOrder) = ToSet(Destinations)
  /\ NoRepeats(<<>>) /\ ToSet(<<>>) = {}
BY DEF NoRepeats, Destinations, DidSetOrder, ToSet

\* At first no thread logs.
LEMMA InitShares == Init => SharesInv
<1> SUFFICES ASSUME Init PROVE SharesInv
  OBVIOUS
<1>1. /\ \A t \in Threads : todo[t] = <<>> /\ scan[t] = <<>> /\ enabled[t] = <<>>
      /\ level = LevelFor(preset)
  BY DEF Init
<1>2. LevelsSettle /\ ChosenOnce
  BY <1>1, DestinationsDiffer DEF LevelsSettle, ChosenOnce
<1>3. StillAbsent /\ GivenAsEnabled
  BY <1>1 DEF StillAbsent, GivenAsEnabled
<1> QED
  BY <1>2, <1>3 DEF SharesInv

\* What a line at a destination means for the lines of the threads that it is not from.
LEMMA OthersGiven ==
  ASSUME Inv, SharesInv, NEW d \in ToSet(Destinations), NEW line \in LineType, NEW s,
         Output(d, line, s), UNCHANGED <<todo, scan, level, steady>>,
         NEW u \in Threads, \A k \in DOMAIN todo[u] : todo[u][k] # line,
         enabled'[u] = enabled[u], NEW e \in ToSet(Destinations)
  PROVE  /\ \A k \in DOMAIN todo[u] :
               k # 1 \/ e \in ToSet(scan[u]) \cup ToSet(enabled'[u]) => Absent(out'[e], todo[u][k])
         /\ todo[u] # <<>> /\ steady[u] =>
               /\ e \in ToSet(enabled'[u]) => Passes(todo[u][1].level, level[e])
               /\ e \notin ToSet(scan[u]) \cup ToSet(enabled'[u])
                    => \/ Passes(todo[u][1].level, level[e]) /\ GivenOnce(out'[e], todo[u][1])
                       \/ ~Passes(todo[u][1].level, level[e]) /\ Absent(out'[e], todo[u][1])
<1>1. out[e] \in Seq(LineType) /\ (out'[e] = out[e] \/ out'[e] = Append(out[e], line))
  BY DEF Output, Handed, Inv, TypeOK
<1>2. ASSUME NEW k \in DOMAIN todo[u]
      PROVE  /\ Absent(out[e], todo[u][k]) => Absent(out'[e], todo[u][k])
             /\ GivenOnce(out[e], todo[u][k]) => GivenOnce(out'[e], todo[u][k])
  <2>1. CASE out'[e] = out[e]
    BY <2>1
  <2>2. CASE out'[e] = Append(out[e], line)
    <3>1. todo[u][k] # line
      OBVIOUS
    <3>2. /\ Absent(out[e], todo[u][k]) => Absent(Append(out[e], line), todo[u][k])
          /\ GivenOnce(out[e], todo[u][k]) => GivenOnce(Append(out[e], line), todo[u][k])
      BY <1>1, <3>1, AppendedLine
    <3> QED
      BY <2>2, <3>2
  <2> QED
    BY <1>1, <2>1, <2>2
<1>3. todo[u] # <<>> => 1 \in DOMAIN todo[u]
  BY ThreadTypes, HeadAndTail
<1>4. ASSUME NEW k \in DOMAIN todo[u], k # 1 \/ e \in ToSet(scan[u]) \cup ToSet(enabled'[u])
      PROVE  Absent(out'[e], todo[u][k])
  BY <1>2, <1>4 DEF SharesInv, StillAbsent
<1>5. ASSUME todo[u] # <<>>, steady[u]
      PROVE  /\ e \in ToSet(enabled'[u]) => Passes(todo[u][1].level, level[e])
             /\ e \notin ToSet(scan[u]) \cup ToSet(enabled'[u])
                  => \/ Passes(todo[u][1].level, level[e]) /\ GivenOnce(out'[e], todo[u][1])
                     \/ ~Passes(todo[u][1].level, level[e]) /\ Absent(out'[e], todo[u][1])
  BY <1>2, <1>3, <1>5 DEF SharesInv, GivenAsEnabled
<1> QED
  BY <1>4, <1>5

\* Nobody has the lines of a new call.
LEMMA CallShares ==
  ASSUME Inv, DetailsInv, SharesInv, NEW t \in Threads, Call(t)
  PROVE  SharesInv'
<1> DEFINE c == Len(after) + 1
<1>1. PICK k \in scenario.kinds, details \in BOOLEAN :
          todo' = [todo EXCEPT ![t] = LinesOf(c, k, details)]
  BY DEF Call
<1>2. k \in Kind /\ c \in 1 .. scenario.calls /\ c \notin 0 .. Len(after)
  <2>1. /\ scenario \in Scenarios /\ scenario.kinds \subseteq Kind /\ scenario.calls \in Nat
        /\ Len(after) \in Nat /\ Len(after) < scenario.calls
    BY ThreadTypes, ScenariosAssumption DEF Call
  <2> QED
    BY <2>1
<1> DEFINE lines == LinesOf(c, k, details)
<1>3. /\ lines \in Seq(LineType) /\ \A i \in DOMAIN lines : lines[i].call = c
      /\ \/ Len(lines) = 2 /\ lines[1] = DetailsLine(c, k) /\ lines[2] = Line(c, k, details)
         \/ Len(lines) = 1
  BY <1>2, LinesAreLines
<1>4. NoRepeats(lines)
  <2>1. DetailsLine(c, k) # Line(c, k, details)
    <3>1. DetailsLine(c, k).part # Line(c, k, details).part
      BY DEF DetailsLine, Line
    <3> QED
      BY <3>1
  <2>2. DOMAIN lines = 1 .. Len(lines)
    BY <1>3
  <2>3. CASE Len(lines) = 1
    BY <2>2, <2>3 DEF NoRepeats
  <2>4. CASE Len(lines) = 2 /\ lines[1] # lines[2]
    <3>1. \A i \in DOMAIN lines : i = 1 \/ i = 2
      BY <2>2, <2>4
    <3> QED
      BY <2>4, <3>1 DEF NoRepeats
  <2> QED
    BY <1>3, <2>1, <2>3, <2>4
<1>5. /\ todo'[t] = lines /\ scan'[t] = Destinations
      /\ \A u \in Threads \ {t} : /\ todo'[u] = todo[u] /\ scan'[u] = scan[u]
                                  /\ steady'[u] = steady[u]
      /\ UNCHANGED <<preset, setting, level, enabled, out>>
  <2>1. todo'[t] = lines /\ \A u \in Threads \ {t} : todo'[u] = todo[u]
    BY <1>1 DEF Inv, TypeOK
  <2>2. scan'[t] = Destinations /\ \A u \in Threads \ {t} : scan'[u] = scan[u]
    BY DEF Call, Inv, TypeOK
  <2>3. \A u \in Threads \ {t} : steady'[u] = steady[u]
    BY Zenon DEF Call, Inv, TypeOK
  <2> QED
    BY <2>1, <2>2, <2>3 DEF Call, config, received
<1>6. enabled[t] = <<>>
  BY DEF Call, Inv, ScansHaveLines
<1>7. LevelsSettle'
  BY <1>5 DEF SharesInv, LevelsSettle
<1>8. ChosenOnce'
  BY <1>4, <1>5, <1>6, DestinationsDiffer DEF SharesInv, ChosenOnce
<1>9. StillAbsent'
  <2>1. ASSUME NEW d \in ToSet(Destinations), NEW i \in DOMAIN lines
        PROVE  Absent(out[d], lines[i])
    BY <1>2, <1>3 DEF Absent, Inv, LoggedCalls
  <2> QED
    BY <1>5, <2>1 DEF SharesInv, StillAbsent
<1>10. GivenAsEnabled'
  <2> SUFFICES ASSUME NEW u \in Threads, NEW d \in ToSet(Destinations), todo'[u] # <<>>, steady'[u]
               PROVE  /\ d \in ToSet(enabled'[u]) => Passes(todo'[u][1].level, level'[d])
                      /\ d \notin ToSet(scan'[u]) \cup ToSet(enabled'[u])
                         => \/ Passes(todo'[u][1].level, level'[d]) /\ GivenOnce(out'[d], todo'[u][1])
                            \/ ~Passes(todo'[u][1].level, level'[d]) /\ Absent(out'[d], todo'[u][1])
    BY DEF GivenAsEnabled
  <2>1. CASE u = t
    BY <1>5, <1>6, <2>1, DestinationsDiffer
  <2>2. CASE u # t
    BY <1>5, <2>2 DEF SharesInv, GivenAsEnabled
  <2> QED
    BY <2>1, <2>2
<1> QED
  BY <1>7, <1>8, <1>9, <1>10 DEF SharesInv

\* A destination that is tested becomes enabled, or does not have the line.
LEMMA FilterShares ==
  ASSUME Inv, DetailsInv, SharesInv, NEW t \in Threads, Filter(t)
  PROVE  SharesInv'
<1> DEFINE d == Head(scan[t])
<1>1. UNCHANGED <<preset, setting, level, todo, steady, out>>
  BY DEF Filter, config, received
<1>2. /\ scan[t] \in Seq(ToSet(Destinations)) /\ d \in ToSet(Destinations) /\ scan[t] # <<>>
      /\ enabled[t] \in Seq(ToSet(Destinations)) /\ todo[t] # <<>>
      /\ Head(todo[t]) = todo[t][1] /\ 1 \in DOMAIN todo[t]
  BY ThreadTypes, HeadAndTail DEF Filter, Inv, ScansHaveLines
<1>3. /\ NoRepeats(scan[t]) /\ NoRepeats(enabled[t])
      /\ ToSet(scan[t]) \cap ToSet(enabled[t]) = {}
  BY DEF SharesInv, ChosenOnce
<1>4. /\ scan'[t] = Tail(scan[t]) /\ \A u \in Threads \ {t} : scan'[u] = scan[u]
      /\ NoRepeats(scan'[t]) /\ d \in ToSet(scan[t]) /\ d \notin ToSet(scan'[t])
      /\ ToSet(scan'[t]) \subseteq ToSet(scan[t])
      /\ \A e \in ToSet(scan[t]) : e = d \/ e \in ToSet(scan'[t])
  <2>1. scan'[t] = Tail(scan[t]) /\ \A u \in Threads \ {t} : scan'[u] = scan[u]
    BY DEF Filter, Inv, TypeOK
  <2> QED
    BY <1>2, <1>3, <2>1, TailNoRepeats, TailSet, HeadOrTail
<1>5. /\ \A u \in Threads \ {t} : enabled'[u] = enabled[u]
      /\ NoRepeats(enabled'[t])
      /\ \/ /\ Passes(todo[t][1].level, level[d])
            /\ ToSet(enabled'[t]) = ToSet(enabled[t]) \cup {d}
         \/ ~Passes(todo[t][1].level, level[d]) /\ enabled'[t] = enabled[t]
  <2>1. CASE Passes(todo[t][1].level, level[d])
    <3>1. enabled' = [enabled EXCEPT ![t] = Append(@, d)]
      BY <1>2, <2>1 DEF Filter
    <3>2. enabled'[t] = Append(enabled[t], d) /\ \A u \in Threads \ {t} : enabled'[u] = enabled[u]
      BY <3>1 DEF Inv, TypeOK
    <3>3. d \notin ToSet(enabled[t])
      BY <1>3, <1>4
    <3> QED
      BY <1>2, <1>3, <2>1, <3>2, <3>3, AppendedSet, AppendNoRepeats
  <2>2. CASE ~Passes(todo[t][1].level, level[d])
    BY <1>2, <1>3, <2>2 DEF Filter
  <2> QED
    BY <2>1, <2>2
<1>6. /\ ToSet(scan'[t]) \cup ToSet(enabled'[t]) \subseteq ToSet(scan[t]) \cup ToSet(enabled[t])
      /\ ToSet(scan'[t]) \cap ToSet(enabled'[t]) = {}
  BY <1>3, <1>4, <1>5
<1>7. LevelsSettle' /\ ChosenOnce'
  <2>1. LevelsSettle'
    BY <1>1 DEF SharesInv, LevelsSettle
  <2>2. ChosenOnce'
    BY <1>1, <1>4, <1>5, <1>6 DEF SharesInv, ChosenOnce
  <2> QED
    BY <2>1, <2>2
<1>8. StillAbsent'
  <2> SUFFICES ASSUME NEW u \in Threads, NEW e \in ToSet(Destinations), NEW k \in DOMAIN todo[u],
                      k # 1 \/ e \in ToSet(scan'[u]) \cup ToSet(enabled'[u])
               PROVE  Absent(out[e], todo[u][k])
    BY <1>1 DEF StillAbsent
  <2>1. k # 1 \/ e \in ToSet(scan[u]) \cup ToSet(enabled[u])
    BY <1>4, <1>5, <1>6
  <2> QED
    BY <2>1 DEF SharesInv, StillAbsent
<1>9. GivenAsEnabled'
  <2> SUFFICES ASSUME NEW u \in Threads, NEW e \in ToSet(Destinations), todo[u] # <<>>, steady[u]
               PROVE  /\ e \in ToSet(enabled'[u]) => Passes(todo[u][1].level, level[e])
                      /\ e \notin ToSet(scan'[u]) \cup ToSet(enabled'[u])
                         => \/ Passes(todo[u][1].level, level[e]) /\ GivenOnce(out[e], todo[u][1])
                            \/ ~Passes(todo[u][1].level, level[e]) /\ Absent(out[e], todo[u][1])
    BY <1>1 DEF GivenAsEnabled
  <2>1. CASE u # t
    BY <1>4, <1>5, <2>1 DEF SharesInv, GivenAsEnabled
  <2>2. CASE u = t
    <3>1. e \in ToSet(enabled'[t]) => Passes(todo[t][1].level, level[e])
      BY <1>5, <2>2 DEF SharesInv, GivenAsEnabled
    <3>2. CASE e \notin ToSet(scan[t]) \cup ToSet(enabled[t])
      BY <2>2, <3>1, <3>2 DEF SharesInv, GivenAsEnabled
    <3>3. CASE e = d /\ ~Passes(todo[t][1].level, level[d])
      <4>1. Absent(out[d], todo[t][1])
        BY <1>2, <1>4 DEF SharesInv, StillAbsent
      <4> QED
        BY <2>2, <3>1, <3>3, <4>1
    <3>4. CASE e \in ToSet(scan'[t]) \cup ToSet(enabled'[t])
      BY <2>2, <3>1, <3>4
    <3>5. \/ e \notin ToSet(scan[t]) \cup ToSet(enabled[t])
          \/ e = d /\ ~Passes(todo[t][1].level, level[d])
          \/ e \in ToSet(scan'[t]) \cup ToSet(enabled'[t])
      BY <1>4, <1>5
    <3> QED
      BY <3>2, <3>3, <3>4, <3>5
  <2> QED
    BY <2>1, <2>2
<1> QED
  BY <1>7, <1>8, <1>9 DEF SharesInv

\* A destination is given a line that it did not have.
LEMMA DeliverShares ==
  ASSUME Inv, DetailsInv, SharesInv, NEW t \in Threads, Deliver(t)
  PROVE  SharesInv'
<1> DEFINE d == Head(enabled[t])  line == todo[t][1]
<1>1. todo[t] # <<>>
  BY DEF Deliver, Inv, ScansHaveLines
<1>2. /\ d \in ToSet(Destinations) /\ enabled[t] \in Seq(ToSet(Destinations)) /\ enabled[t] # <<>>
      /\ line \in LineType /\ line = Head(todo[t]) /\ 1 \in DOMAIN todo[t]
  <2>1. d \in ToSet(Destinations) /\ enabled[t] \in Seq(ToSet(Destinations)) /\ enabled[t] # <<>>
    BY ThreadTypes, HeadAndTail DEF Deliver
  <2> QED
    BY <1>1, <2>1, ThreadTypes, HeadAndTail
<1>3. Output(d, line, steady[t])
  BY <1>2 DEF Deliver
<1>4. UNCHANGED <<preset, setting, level, todo, steady, scan>>
  BY DEF Deliver, config
<1>5. /\ NoRepeats(todo[t]) /\ NoRepeats(enabled[t])
      /\ ToSet(scan[t]) \cap ToSet(enabled[t]) = {}
  BY DEF SharesInv, ChosenOnce
<1>6. /\ \A u \in Threads \ {t} : enabled'[u] = enabled[u]
      /\ enabled'[t] = Tail(enabled[t]) /\ NoRepeats(enabled'[t])
      /\ d \in ToSet(enabled[t]) /\ d \notin ToSet(enabled'[t])
      /\ ToSet(enabled'[t]) \subseteq ToSet(enabled[t])
      /\ \A e \in ToSet(enabled[t]) : e = d \/ e \in ToSet(enabled'[t])
  <2>1. /\ \A u \in Threads \ {t} : enabled'[u] = enabled[u]
        /\ enabled'[t] = Tail(enabled[t])
    BY DEF Deliver, Inv, TypeOK
  <2> QED
    BY <1>2, <1>5, <2>1, TailNoRepeats, TailSet, HeadOrTail
<1>7. /\ out \in [ToSet(Destinations) -> Seq(LineType)] /\ out'[d] = Append(out[d], line)
      /\ \A e \in ToSet(Destinations) \ {d} : out'[e] = out[e]
  <2>1. out' = [out EXCEPT ![d] = Append(@, line)]
    BY <1>3 DEF Output, Handed
  <2>2. out \in [ToSet(Destinations) -> Seq(LineType)]
    BY DEF Inv, TypeOK
  <2> QED
    BY <1>2, <2>1, <2>2
<1>8. LevelsSettle' /\ ChosenOnce'
  <2>1. LevelsSettle'
    BY <1>4 DEF SharesInv, LevelsSettle
  <2>2. ToSet(scan[t]) \cap ToSet(enabled'[t]) = {}
    BY <1>5, <1>6
  <2>3. ChosenOnce'
    BY <1>4, <1>6, <2>2 DEF SharesInv, ChosenOnce
  <2> QED
    BY <2>1, <2>3
<1>9. ASSUME NEW u \in Threads \ {t}, NEW k \in DOMAIN todo[u]
      PROVE  todo[u][k] # line
  BY <1>2 DEF Inv, CallsInProgress
<1>10. StillAbsent'
  <2> SUFFICES ASSUME NEW u \in Threads, NEW e \in ToSet(Destinations), NEW k \in DOMAIN todo[u],
                      k # 1 \/ e \in ToSet(scan[u]) \cup ToSet(enabled'[u])
               PROVE  Absent(out'[e], todo[u][k])
    BY <1>4 DEF StillAbsent
  <2>1. CASE u # t
    BY <1>2, <1>3, <1>4, <1>6, <1>9, <2>1, OthersGiven
  <2>2. CASE u = t
    <3>1. Absent(out[e], todo[t][k])
      BY <1>6, <2>2 DEF SharesInv, StillAbsent
    <3>2. CASE e # d
      BY <1>7, <2>2, <3>1, <3>2
    <3>3. CASE e = d
      <4>1. d \notin ToSet(scan[t]) \cup ToSet(enabled'[t])
        BY <1>5, <1>6
      <4>2. todo[t][k] # line
        BY <1>2, <1>5, <2>2, <3>3, <4>1 DEF NoRepeats
      <4>3. Absent(Append(out[d], line), todo[t][k])
        <5>1. out[d] \in Seq(LineType) /\ Absent(out[d], todo[t][k])
          BY <1>2, <1>7, <3>1, <3>3
        <5> QED
          BY <1>2, <4>2, <5>1, AppendedLine
      <4> QED
        BY <1>7, <2>2, <3>3, <4>3
    <3> QED
      BY <3>2, <3>3
  <2> QED
    BY <2>1, <2>2
<1>11. GivenAsEnabled'
  <2> SUFFICES ASSUME NEW u \in Threads, NEW e \in ToSet(Destinations), todo[u] # <<>>, steady[u]
               PROVE  /\ e \in ToSet(enabled'[u]) => Passes(todo[u][1].level, level[e])
                      /\ e \notin ToSet(scan[u]) \cup ToSet(enabled'[u])
                         => \/ Passes(todo[u][1].level, level[e]) /\ GivenOnce(out'[e], todo[u][1])
                            \/ ~Passes(todo[u][1].level, level[e]) /\ Absent(out'[e], todo[u][1])
    BY <1>4 DEF GivenAsEnabled
  <2>1. CASE u # t
    BY <1>2, <1>3, <1>4, <1>6, <1>9, <2>1, OthersGiven
  <2>2. CASE u = t
    <3>1. e \in ToSet(enabled'[t]) => Passes(line.level, level[e])
      BY <1>6, <2>2 DEF SharesInv, GivenAsEnabled
    <3>2. CASE e = d
      <4>1. Passes(line.level, level[d])
        BY <1>1, <1>2, <1>6, <2>2 DEF SharesInv, GivenAsEnabled
      <4>2. Absent(out[d], line)
        BY <1>2, <1>6 DEF SharesInv, StillAbsent
      <4>3. GivenOnce(out'[d], line)
        <5>1. out[d] \in Seq(LineType)
          BY <1>2, <1>7
        <5>2. GivenOnce(Append(out[d], line), line)
          BY <1>2, <4>2, <5>1, AppendedLine
        <5> QED
          BY <1>7, <5>2
      <4> QED
        BY <2>2, <3>1, <3>2, <4>1, <4>3
    <3>3. CASE e # d
      <4>1. e \notin ToSet(scan[t]) \cup ToSet(enabled'[t])
              => e \notin ToSet(scan[t]) \cup ToSet(enabled[t])
        BY <1>6, <3>3
      <4> QED
        BY <1>1, <1>7, <2>2, <3>1, <3>3, <4>1 DEF SharesInv, GivenAsEnabled
    <3> QED
      BY <3>2, <3>3
  <2> QED
    BY <2>1, <2>2
<1> QED
  BY <1>8, <1>10, <1>11 DEF SharesInv

\* The next line of a call is new to all destinations.
LEMMA EndLineShares ==
  ASSUME Inv, DetailsInv, SharesInv, NEW t \in Threads, EndLine(t)
  PROVE  SharesInv'
<1>1. /\ UNCHANGED <<preset, setting, level, enabled, steady, out>>
      /\ todo[t] # <<>> /\ scan[t] = <<>> /\ enabled[t] = <<>>
      /\ todo' = [todo EXCEPT ![t] = Tail(@)]
      /\ Len(todo[t]) > 1 => scan' = [scan EXCEPT ![t] = Destinations]
      /\ ~(Len(todo[t]) > 1) => scan' = scan
  BY DEF EndLine, config, received
<1>2. /\ todo'[t] = Tail(todo[t]) /\ Tail(todo[t]) \in Seq(LineType) /\ Len(todo[t]) \in Nat \ {0}
      /\ \A i \in DOMAIN Tail(todo[t]) :
            i + 1 \in DOMAIN todo[t] /\ Tail(todo[t])[i] = todo[t][i + 1]
      /\ NoRepeats(Tail(todo[t]))
      /\ \A u \in Threads \ {t} : todo'[u] = todo[u]
  <2>1. todo'[t] = Tail(todo[t]) /\ \A u \in Threads \ {t} : todo'[u] = todo[u]
    BY <1>1 DEF Inv, TypeOK
  <2>2. NoRepeats(todo[t])
    BY DEF SharesInv, ChosenOnce
  <2> QED
    BY <1>1, <2>1, <2>2, ThreadTypes, HeadAndTail, TailNoRepeats
<1>3. /\ \A u \in Threads \ {t} : scan'[u] = scan[u]
      /\ \/ scan'[t] = Destinations
         \/ scan'[t] = <<>> /\ Tail(todo[t]) = <<>>
  <2>1. CASE Len(todo[t]) > 1
    BY <1>1, <2>1 DEF Inv, TypeOK
  <2>2. CASE ~(Len(todo[t]) > 1)
    <3>1. Len(todo[t]) <= 1
      BY <1>2, <2>2
    <3>2. Tail(todo[t]) = <<>>
      BY <1>1, <3>1, ThreadTypes, ShortTail
    <3> QED
      BY <1>1, <2>2, <3>2
  <2> QED
    BY <2>1, <2>2
<1>4. ASSUME NEW d \in ToSet(Destinations), NEW i \in DOMAIN Tail(todo[t])
      PROVE  Absent(out[d], Tail(todo[t])[i])
  <2>1. i + 1 # 1
    <3>1. i \in Nat \ {0}
      BY <1>2
    <3> QED
      BY <3>1
  <2> QED
    BY <1>2, <2>1 DEF SharesInv, StillAbsent
<1>5. LevelsSettle'
  BY <1>1 DEF SharesInv, LevelsSettle
<1>6. ChosenOnce'
  BY <1>1, <1>2, <1>3, DestinationsDiffer DEF SharesInv, ChosenOnce
<1>7. StillAbsent'
  BY <1>1, <1>2, <1>3, <1>4 DEF SharesInv, StillAbsent
<1>8. GivenAsEnabled'
  <2> SUFFICES ASSUME NEW u \in Threads, NEW d \in ToSet(Destinations), todo'[u] # <<>>, steady[u]
               PROVE  /\ d \in ToSet(enabled[u]) => Passes(todo'[u][1].level, level[d])
                      /\ d \notin ToSet(scan'[u]) \cup ToSet(enabled[u])
                         => \/ Passes(todo'[u][1].level, level[d]) /\ GivenOnce(out[d], todo'[u][1])
                            \/ ~Passes(todo'[u][1].level, level[d]) /\ Absent(out[d], todo'[u][1])
    BY <1>1 DEF GivenAsEnabled
  <2>1. CASE u = t
    BY <1>1, <1>2, <1>3, <2>1, DestinationsDiffer
  <2>2. CASE u # t
    BY <1>1, <1>2, <1>3, <2>2 DEF SharesInv, GivenAsEnabled
  <2> QED
    BY <2>1, <2>2
<1> QED
  BY <1>5, <1>6, <1>7, <1>8 DEF SharesInv

\* The line of a failed rotation is no call's.
LEMMA RotationShares ==
  ASSUME Inv, DetailsInv, SharesInv, RotationFails \/ ReportRotation
  PROVE  SharesInv'
<1>1. UNCHANGED <<preset, setting, level, todo, steady, scan, enabled>>
  BY DEF RotationFails, ReportRotation, config, calls
<1>2. LevelsSettle' /\ ChosenOnce'
  BY <1>1 DEF SharesInv, LevelsSettle, ChosenOnce
<1>3. CASE UNCHANGED out
  BY <1>1, <1>2, <1>3 DEF SharesInv, StillAbsent, GivenAsEnabled
<1>4. CASE report # <<>> /\ Output(Head(report), RotationLine, FALSE)
  <2>1. Head(report) \in ToSet(Destinations)
    BY <1>4, HeadAndTail DEF Inv, TypeOK
  <2>2. RotationLine \in LineType /\ RotationLine.call = 0
    BY RotationLineType DEF Inv, TypeOK
  <2>3. \A u \in Threads : \A k \in DOMAIN todo[u] : todo[u][k] # RotationLine
    BY <2>2 DEF Inv, CallsInProgress
  <2>4. StillAbsent'
    BY <1>1, <1>4, <2>1, <2>2, <2>3, OthersGiven DEF StillAbsent
  <2>5. GivenAsEnabled'
    <3> SUFFICES ASSUME NEW u \in Threads, NEW e \in ToSet(Destinations), todo[u] # <<>>, steady[u]
                 PROVE  /\ e \in ToSet(enabled[u]) => Passes(todo[u][1].level, level[e])
                        /\ e \notin ToSet(scan[u]) \cup ToSet(enabled[u])
                             => \/ Passes(todo[u][1].level, level[e]) /\ GivenOnce(out'[e], todo[u][1])
                                \/ ~Passes(todo[u][1].level, level[e]) /\ Absent(out'[e], todo[u][1])
      BY <1>1 DEF GivenAsEnabled
    <3> QED
      BY <1>1, <1>4, <2>1, <2>2, <2>3, OthersGiven
  <2> QED
    BY <1>2, <2>4, <2>5 DEF SharesInv
<1> QED
  BY <1>3, <1>4 DEF RotationFails, ReportRotation, received

\* Each level that is assigned is that of the new preset; no call is steady meanwhile.
LEMMA ConfigShares ==
  ASSUME Inv, DetailsInv, SharesInv, AssignConfig \/ DidSet
  PROVE  SharesInv'
<1>1. UNCHANGED <<todo, scan, enabled, out>>
  BY DEF AssignConfig, DidSet, calls, received
<1>2. \A t \in Threads : ~steady'[t]
  BY SteadyNever
<1>3. LevelsSettle'
  <2>1. CASE AssignConfig
    BY <2>1, DestinationsDiffer DEF AssignConfig, LevelsSettle
  <2>2. CASE DidSet
    <3>1. /\ level' = [level EXCEPT ![Head(setting)] = LevelFor(preset)[Head(setting)]]
          /\ preset' = preset /\ setting' = Tail(setting) /\ setting # <<>>
          /\ level \in [ToSet(Destinations) -> LogLevel] /\ setting \in Seq(ToSet(Destinations))
      BY <2>2 DEF DidSet, Inv, TypeOK
    <3>2. ASSUME NEW d \in ToSet(Destinations), d \notin ToSet(Tail(setting))
          PROVE  level'[d] = LevelFor(preset)[d]
      <4>1. CASE d = Head(setting)
        BY <3>1, <4>1
      <4>2. CASE d # Head(setting)
        <5>1. d \notin ToSet(setting)
          BY <3>1, <3>2, <4>2, HeadOrTail
        <5> QED
          BY <3>1, <4>2, <5>1 DEF SharesInv, LevelsSettle
      <4> QED
        BY <4>1, <4>2
    <3> QED
      BY <3>1, <3>2 DEF LevelsSettle
  <2> QED
    BY <2>1, <2>2
<1>4. ChosenOnce' /\ StillAbsent'
  BY <1>1 DEF SharesInv, ChosenOnce, StillAbsent
<1>5. GivenAsEnabled'
  BY <1>2 DEF GivenAsEnabled
<1> QED
  BY <1>3, <1>4, <1>5 DEF SharesInv

\* Every step keeps who has which line.
LEMMA NextShares == Inv /\ DetailsInv /\ SharesInv /\ [Next]_vars => SharesInv'
<1> SUFFICES ASSUME Inv, DetailsInv, SharesInv, [Next]_vars PROVE SharesInv'
  OBVIOUS
<1>1. CASE \E t \in Threads : Call(t) \/ Filter(t) \/ Deliver(t) \/ EndLine(t)
  BY <1>1, CallShares, FilterShares, DeliverShares, EndLineShares
<1>2. CASE RotationFails \/ ReportRotation
  BY <1>2, RotationShares
<1>3. CASE AssignConfig \/ DidSet
  BY <1>3, ConfigShares
<1>4. CASE UNCHANGED vars
  <2>1. UNCHANGED <<preset, setting, level, todo, steady, scan, enabled, out>>
    BY <1>4 DEF vars, config, calls, received
  <2> QED
    BY <2>1 DEF SharesInv, LevelsSettle, ChosenOnce, StillAbsent, GivenAsEnabled
<1> QED
  BY <1>1, <1>2, <1>3, <1>4 DEF Next

\* How often a line was given, as a number.
LEMMA TimesGiven ==
  ASSUME NEW lines, NEW line
  PROVE  /\ Absent(lines, line) => Cardinality({i \in DOMAIN lines : lines[i] = line}) = 0
         /\ GivenOnce(lines, line) => Cardinality({i \in DOMAIN lines : lines[i] = line}) = 1
<1>1. ASSUME Absent(lines, line)
      PROVE  Cardinality({i \in DOMAIN lines : lines[i] = line}) = 0
  <2>1. {i \in DOMAIN lines : lines[i] = line} = {}
    BY <1>1 DEF Absent
  <2> QED
    BY <2>1, FS_EmptySet
<1>2. ASSUME GivenOnce(lines, line)
      PROVE  Cardinality({i \in DOMAIN lines : lines[i] = line}) = 1
  <2>1. PICK i \in DOMAIN lines :
            lines[i] = line /\ \A j \in DOMAIN lines : lines[j] = line => j = i
    BY <1>2 DEF GivenOnce
  <2>2. {j \in DOMAIN lines : lines[j] = line} = {i}
    BY <2>1
  <2> QED
    BY <2>2, FS_Singleton
<1> QED
  BY <1>1, <1>2

\* A line that is done was given to those that its preset names.
LEMMA LineDelivered ==
  ASSUME Inv, DetailsInv, SharesInv, [Next]_vars, NEW t \in Threads,
         Len(todo'[t]) < Len(todo[t]), steady[t], NEW d \in ToSet(Destinations)
  PROVE  Cardinality({i \in DOMAIN out[d] : out[d][i] = Head(todo[t])})
           = IF Passes(Head(todo[t]).level, LevelFor(preset)[d]) THEN 1 ELSE 0
<1>1. EndLine(t)
  <2>1. todo'[t] # todo[t] /\ Len(todo[t]) \in Nat
    <3>1. Len(todo[t]) \in Nat
      BY ThreadTypes
    <3> QED
      BY <3>1
  <2>2. ASSUME NEW u \in Threads, Call(u)
        PROVE  FALSE
    <3>1. u = t
      BY <2>1, <2>2 DEF Call, Inv, TypeOK
    <3>2. Len(todo[t]) = 0
      BY <2>2, <3>1 DEF Call
    <3>3. PICK k \in scenario.kinds, details \in BOOLEAN :
              todo' = [todo EXCEPT ![t] = LinesOf(Len(after) + 1, k, details)]
      BY <2>2, <3>1 DEF Call
    <3>4. Len(todo'[t]) \in Nat
      <4>1. Inv'
        BY <2>2, CallInv
      <4>2. todo'[t] \in Seq(LineType')
        BY <4>1 DEF Inv, TypeOK
      <4> QED
        BY <4>2
    <3> QED
      BY <3>2, <3>4
  <2>3. ASSUME NEW u \in Threads, EndLine(u)
        PROVE  u = t
    BY <2>1, <2>3 DEF EndLine, Inv, TypeOK
  <2>4. ASSUME UNCHANGED todo
        PROVE  FALSE
    BY <2>1, <2>4
  <2>5. \/ \E u \in Threads : Call(u) \/ EndLine(u)
        \/ UNCHANGED todo
    BY DEF Next, Filter, Deliver, RotationFails, ReportRotation, AssignConfig, DidSet, calls, vars
  <2> QED
    BY <2>2, <2>3, <2>4, <2>5
<1>2. /\ todo[t] # <<>> /\ scan[t] = <<>> /\ enabled[t] = <<>>
      /\ Head(todo[t]) = todo[t][1]
  BY <1>1, ThreadTypes, HeadAndTail DEF EndLine
<1>3. level[d] = LevelFor(preset)[d]
  <2>1. setting = <<>>
    BY DEF DetailsInv, SteadyMeansSet
  <2> QED
    BY <2>1, DestinationsDiffer DEF SharesInv, LevelsSettle
<1>4. \/ Passes(todo[t][1].level, level[d]) /\ GivenOnce(out[d], todo[t][1])
      \/ ~Passes(todo[t][1].level, level[d]) /\ Absent(out[d], todo[t][1])
  BY <1>2, DestinationsDiffer DEF SharesInv, GivenAsEnabled
<1>5. CASE Passes(todo[t][1].level, level[d]) /\ GivenOnce(out[d], todo[t][1])
  <2>1. Cardinality({i \in DOMAIN out[d] : out[d][i] = todo[t][1]}) = 1
    BY <1>5, TimesGiven
  <2> QED
    BY <1>2, <1>3, <1>5, <2>1
<1>6. CASE ~Passes(todo[t][1].level, level[d]) /\ Absent(out[d], todo[t][1])
  <2>1. Cardinality({i \in DOMAIN out[d] : out[d][i] = todo[t][1]}) = 0
    BY <1>6, TimesGiven
  <2> QED
    BY <1>2, <1>3, <1>6, <2>1
<1> QED
  BY <1>4, <1>5, <1>6

-----------------------------------------------------------------------------
(* The theorems. *)

LEMMA AlwaysInv == Spec => []Inv
  BY InitInv, NextInv, PTL DEF Spec

\* Every variable has its type in every state, whichever threads log, config is
\* assigned and rotations fail: in particular the breadcrumb trail that
\* SentryScope.addBreadcrumb keeps never exceeds its limit.
THEOREM TypeCorrect == Spec => []TypeOK
<1>1. Inv => TypeOK
  BY DEF Inv
<1> QED
  BY <1>1, AlwaysInv, PTL

\* Calls that follow one another are logged in that order at every destination,
\* for any number of threads and calls, although logln takes no lock.
THEOREM CallOrder == Spec => []LinesInCallOrder
<1>1. Inv => LinesInCallOrder
  BY DEF Inv
<1> QED
  BY <1>1, AlwaysInv, PTL

\* Whatever the threads log in between, an error that Sentry captures while config stays
\* as it was carries its details, unless newer breadcrumbs fill the whole trail: the
\* details go first, and nothing is captured from a line that Sentry took no details of.
THEOREM EventDetails == Spec => []EventHasItsDetails
<1>1. DetailsInv => EventHasItsDetails
  BY DEF DetailsInv
<1> QED
  BY <1>1, AlwaysInv, InitDetails, NextDetails, PTL DEF Spec

\* A line whose call met no change of config is given once to each destination whose level
\* in the preset it passes, and to no other, however many threads log at once: each logln
\* tests and processes its own list of destinations.
THEOREM DeliveryAsConfigured == Spec => DeliveredAsConfigured
<1>1. Inv /\ DetailsInv /\ SharesInv /\ [Next]_vars
        => [\A t \in Threads :
              Len(todo'[t]) < Len(todo[t]) /\ steady[t]
                => \A d \in ToSet(Destinations) :
                      Cardinality({i \in DOMAIN out[d] : out[d][i] = Head(todo[t])})
                        = IF Passes(Head(todo[t]).level, LevelFor(preset)[d])
                            THEN 1 ELSE 0]_vars
  BY LineDelivered
<1> QED
  BY <1>1, AlwaysInv, InitDetails, NextDetails, InitShares, NextShares, PTL
     DEF Spec, DeliveredAsConfigured
=============================================================================
