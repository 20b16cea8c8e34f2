------------------------ MODULE CrashHandling_proofs ------------------------
(***************************************************************************)
(* Theorems about CrashHandling for any threads and any number of events   *)
(* and of faults inside handlers: types, what is noted before it is        *)
(* written, the suspend counts of the threads, and what becomes of the     *)
(* report of a crash that comes alone.                                     *)
(***************************************************************************)
EXTENDS CrashHandling, FiniteSetTheorems, TLAPS

-----------------------------------------------------------------------------
(* The inductive invariant: what handlers write comes after the note.      *)

\* Where a handler has chosen a path, and where it has a file open.
HasFile == {"embedding", "removing", "writing", "closing"}
Reporting == HasFile \cup {"opening"}

Labels == Idle \cup FaultPoints \cup
          {"blocked", "signalled", "entered", "suspending", "announcing", "flagging",
           "activating", "ending", "resuming", "leaving"}
Kinds  == EventKinds \cup {"none", "mach", "signal", "nsexc"}
Item   == {"part", "all"} \X Nat \X Kinds

ReportTypes ==
    /\ pc \in [Actors -> Labels] /\ kind \in [Actors -> Kinds] /\ inode \in [Actors -> Nat]
    /\ content \in Seq(SUBSET Item)

\* Names are of files that were created, and so is what a handler has open.
FilesExist ==
    /\ \A n \in DOMAIN files : files[n] \in DOMAIN content
    /\ \A a \in Actors : pc[a] \in HasFile => inode[a] \in DOMAIN content

\* A handler of a crash has noted it before it opens a file, and whatever files hold of a
\* crash, linked or not, was noted.
NotedFirst ==
    /\ \A a \in Actors : pc[a] \in Reporting /\ kind[a] # "snapshot" => noted
    /\ \A f \in DOMAIN content : \A item \in content[f] : item[3] # "snapshot" => noted

NInv == ReportTypes /\ FilesExist /\ NotedFirst

\* The invariant holds at first: no file was created.
LEMMA InitNoted == Init => NInv
<1> SUFFICES ASSUME Init PROVE NInv
  OBVIOUS
<1>1. /\ pc \in [Actors -> {"waiting", "parked", "app"}] /\ kind \in [Actors -> Kinds]
      /\ inode \in [Actors -> Nat] /\ content = << >> /\ files = << >>
  BY DEF Init, Kinds
<1>2. \A a \in Actors : pc[a] \in {"waiting", "parked", "app"}
  BY <1>1
<1>3. ReportTypes
  BY <1>1, <1>2 DEF ReportTypes, Labels, Idle
<1>4. FilesExist /\ NotedFirst
  BY <1>1, <1>2 DEF FilesExist, NotedFirst, HasFile, Reporting
<1> QED
  BY <1>3, <1>4 DEF NInv

\* A step that writes nothing and takes nobody to where reports are written keeps it.
LEMMA Elsewhere ==
  ASSUME NInv, UNCHANGED <<files, content, noted, inode>>,
         pc' \in [Actors -> Labels], kind' \in [Actors -> Kinds],
         \A b \in Actors : pc'[b] \in Reporting => pc'[b] = pc[b] /\ kind'[b] = kind[b]
  PROVE  NInv'
<1>1. ReportTypes' /\ FilesExist'
  BY DEF NInv, ReportTypes, FilesExist, Reporting
<1>2. NotedFirst'
  BY DEF NInv, NotedFirst
<1> QED
  BY <1>1, <1>2 DEF NInv

\* One handler moves on to another label where no report is written.
LEMMA Moves ==
  ASSUME NInv, NEW a \in Actors, NEW label \in Labels \ Reporting, Goto(a, label),
         UNCHANGED <<files, content, noted, inode>>,
         \/ kind' = kind \/ \E k \in Kinds : kind' = [kind EXCEPT ![a] = k]
  PROVE  NInv'
<1>1. /\ pc' \in [Actors -> Labels] /\ pc'[a] = label
      /\ \A b \in Actors \ {a} : pc'[b] = pc[b]
  BY DEF NInv, ReportTypes, Goto
<1>2. kind' \in [Actors -> Kinds] /\ \A b \in Actors \ {a} : kind'[b] = kind[b]
  BY DEF NInv, ReportTypes
<1> QED
  BY <1>1, <1>2, Elsewhere

\* Disarming the monitors stops exception threads and moves the one who does it.
LEMMA Disarms ==
  ASSUME NInv, NEW a \in Actors, NEW next \in Labels \ Reporting, Disarm(a, next),
         UNCHANGED <<files, content, noted, inode, kind>>
  PROVE  NInv'
<1>1. PICK stopped : pc' = [b \in Actors |-> IF b = a THEN next
                               ELSE IF b \in stopped /\ machBusy THEN "gone" ELSE pc[b]]
  BY DEF Disarm
<1>2. "gone" \in Labels \ Reporting
  BY DEF Labels, Idle, Reporting, HasFile
<1>3. /\ pc' \in [Actors -> Labels]
      /\ \A b \in Actors : pc'[b] \in Reporting => pc'[b] = pc[b]
  BY <1>1, <1>2 DEF NInv, ReportTypes
<1> QED
  BY <1>3, Elsewhere DEF NInv, ReportTypes

\* The labels where no report is written.
LEMMA OtherLabels ==
  /\ Idle \cup {"blocked", "signalled", "entered", "suspending", "announcing", "flagging",
                "activating", "informing", "ending", "resuming", "leaving"} = Labels \ Reporting
  /\ Reporting \subseteq Labels /\ HasFile \subseteq Reporting
BY DEF Labels, Idle, FaultPoints, Reporting, HasFile

-----------------------------------------------------------------------------
(* Each action keeps the invariant. *)

\* Events, signals, exceptions, and faults take a thread to where it is handled.
LEMMA EventsNoted ==
  ASSUME NInv, NEW a \in Actors, Event(a) \/ TakeSignal(a) \/ Receive(a) \/ HandlerFault(a)
  PROVE  NInv'
<1>1. UNCHANGED <<files, content, noted, inode>>
  BY DEF Event, TakeSignal, Receive, HandlerFault, diskVars
<1>2. /\ {"blocked", "signalled", "entered"} \subseteq Labels \ Reporting
  BY OtherLabels
<1>3. CASE Event(a)
  <2>1. PICK k \in budget.kinds :
           \/ k = "fault" /\ RaiseException(a) /\ UNCHANGED kind
           \/ Goto(a, "signalled") /\ UNCHANGED kind
           \/ k \in {"cpp", "objc"} \cup UserKinds \cup {"snapshot"} /\ Enter(a, k)
    BY <1>3 DEF Event
  <2>2. CASE RaiseException(a) /\ UNCHANGED kind
    BY <1>1, <1>2, <2>2, Moves DEF RaiseException
  <2>3. CASE Goto(a, "signalled") /\ UNCHANGED kind
    BY <1>1, <1>2, <2>3, Moves
  <2>4. CASE k \in {"cpp", "objc"} \cup UserKinds \cup {"snapshot"} /\ Enter(a, k)
    <3>1. k \in Kinds
      BY <2>4 DEF Kinds, EventKinds, UserKinds
    <3> QED
      BY <1>1, <1>2, <2>4, <3>1, Moves DEF Enter
  <2> QED
    BY <2>1, <2>2, <2>3, <2>4
<1>4. CASE TakeSignal(a)
  <2>1. CASE Enter(a, "signal")
    <3>1. "signal" \in Kinds
      BY DEF Kinds
    <3> QED
      BY <1>1, <1>2, <2>1, <3>1, Moves DEF Enter
  <2>2. CASE UNCHANGED <<pc, kind>>
    BY <1>1, <2>2, Elsewhere DEF NInv, ReportTypes
  <2> QED
    BY <1>4, <2>1, <2>2 DEF TakeSignal
<1>5. CASE Receive(a)
  <2>1. Enter(a, "mach") /\ "mach" \in Kinds
    BY <1>5 DEF Receive, Kinds
  <2> QED
    BY <1>1, <1>2, <2>1, Moves DEF Enter
<1>6. CASE HandlerFault(a)
  <2>1. RaiseException(a) /\ UNCHANGED kind
    BY <1>6 DEF HandlerFault
  <2> QED
    BY <1>1, <1>2, <2>1, Moves DEF RaiseException
<1> QED
  BY <1>3, <1>4, <1>5, <1>6

\* Suspending and resuming threads writes nothing.
LEMMA SuspensionNoted ==
  ASSUME NInv, NEW a \in Actors,
         \/ Check(a) \/ Suspended(a) \/ Resumed(a) \/ DoSuspend(a)
         \/ \E b \in AppThreads : CallSuspend(a, b) \/ ResumeOne(a, b)
  PROVE  NInv'
<1>1. {"app", "leaving", "suspending", "announcing", "resuming"} \subseteq Labels \ Reporting
  BY OtherLabels DEF Idle
<1>2. CASE Check(a)
  <2>1. \E label \in {"app", "leaving", "suspending", "announcing"} : Goto(a, label)
    BY <1>2 DEF Check
  <2>2. UNCHANGED <<files, content, noted, inode, kind>>
    BY <1>2 DEF Check, diskVars
  <2> QED
    BY <1>1, <2>1, <2>2, Moves
<1>3. CASE Suspended(a) \/ Resumed(a)
  <2>1. \E label \in {"resuming", "announcing", "leaving"} : Goto(a, label)
    BY <1>3 DEF Suspended, Resumed
  <2>2. UNCHANGED <<files, content, noted, inode, kind>>
    BY <1>3 DEF Suspended, Resumed, diskVars
  <2> QED
    BY <1>1, <2>1, <2>2, Moves
<1>4. CASE DoSuspend(a) \/ \E b \in AppThreads : CallSuspend(a, b) \/ ResumeOne(a, b)
  <2>1. UNCHANGED <<pc, kind, files, content, noted, inode>>
    BY <1>4 DEF DoSuspend, CallSuspend, ResumeOne, actorVars, diskVars
  <2> QED
    BY <2>1, Elsewhere DEF NInv, ReportTypes
<1> QED
  BY <1>2, <1>3, <1>4

\* Announcing the crash and disarming the monitors write nothing.
LEMMA AnnouncementNoted ==
  ASSUME NInv, NEW a \in Actors, Announce(a) \/ Flag(a) \/ Activate(a)
  PROVE  NInv'
<1>1. {"flagging", "informing", "activating", "waiting"} \subseteq Labels \ Reporting
  BY OtherLabels DEF Idle
<1>2. UNCHANGED <<files, content, noted, inode, kind>>
  BY DEF Announce, Flag, Activate, diskVars
<1>3. CASE Announce(a)
  BY <1>1, <1>2, <1>3, Moves DEF Announce
<1>4. CASE Flag(a)
  <2>1. \E label \in {"activating", "informing"} : Disarm(a, label) \/ Goto(a, label)
    BY <1>4 DEF Flag
  <2> QED
    BY <1>1, <1>2, <2>1, Moves, Disarms
<1>5. CASE Activate(a)
  <2>1. CASE Goto(a, "informing")
    BY <1>1, <1>2, <2>1, Moves
  <2>2. CASE \E label \in {"waiting", pc[Secondary]} :
                a = Primary /\ pc' = [pc EXCEPT ![a] = "informing", ![Secondary] = label]
    <3>1. Secondary \in Actors /\ a # Secondary
      BY <2>2, ActorsAssumption DEF Actors
    <3>2. /\ pc' \in [Actors -> Labels]
          /\ pc'[a] = "informing" /\ \A b \in Actors \ {a} : pc'[b] \in {"waiting", pc[b]}
      BY <1>1, <2>2, <3>1 DEF NInv, ReportTypes
    <3> QED
      BY <1>1, <1>2, <3>2, Elsewhere DEF NInv, ReportTypes
  <2>3. ASSUME a = Primary,
               pc' = [pc EXCEPT ![a] = "informing",
                                ![Secondary] = IF Secondary \in known /\ @ = "parked"
                                               THEN "waiting" ELSE @]
        PROVE  \E label \in {"waiting", pc[Secondary]} :
                  pc' = [pc EXCEPT ![a] = "informing", ![Secondary] = label]
    <3>1. a # Secondary
      BY <2>3, ActorsAssumption
    <3>2. pc \in [Actors -> Labels] /\ Secondary \in Actors
      BY DEF NInv, ReportTypes, Actors
    <3>3. CASE Secondary \in known /\ pc[Secondary] = "parked"
      BY <2>3, <3>1, <3>2, <3>3
    <3>4. CASE ~(Secondary \in known /\ pc[Secondary] = "parked")
      BY <2>3, <3>1, <3>2, <3>4
    <3> QED
      BY <3>3, <3>4
  <2> QED
    BY <1>5, <2>1, <2>2, <2>3 DEF Activate
<1> QED
  BY <1>3, <1>4, <1>5

\* The crash is noted before the path is chosen.
LEMMA BeginNoted ==
  ASSUME NInv, NEW a \in Actors, BeginReport(a)
  PROVE  NInv'
<1>1. /\ UNCHANGED <<files, content, inode, kind>> /\ Goto(a, "opening")
      /\ noted' = (noted \/ kind[a] # "snapshot")
  BY DEF BeginReport
<1>2. /\ noted => noted'
      /\ kind[a] # "snapshot" => noted'
  BY <1>1, Zenon
<1>3. /\ pc' \in [Actors -> Labels] /\ pc'[a] = "opening"
      /\ \A b \in Actors \ {a} : pc'[b] = pc[b]
  BY <1>1, OtherLabels DEF NInv, ReportTypes, Goto, Reporting
<1>4. ReportTypes'
  BY <1>1, <1>3 DEF NInv, ReportTypes
<1>5. FilesExist'
  BY <1>1, <1>3 DEF NInv, FilesExist, HasFile
<1>6. NotedFirst'
  BY <1>1, <1>2, <1>3 DEF NInv, NotedFirst
<1> QED
  BY <1>4, <1>5, <1>6 DEF NInv

\* A new file is empty; a report that is moved aside keeps its file.
LEMMA OpenNoted ==
  ASSUME NInv, NEW a \in Actors, OpenReport(a)
  PROVE  NInv'
<1> DEFINE renamed == IF recrash[a] /\ Json(a) \in DOMAIN files
                      THEN [n \in (DOMAIN files \ {Json(a)}) \cup {Old(a)} |->
                               files[IF n = Old(a) THEN Json(a) ELSE n]]
                      ELSE files
           new == Len(content) + 1
<1>1. \A n \in DOMAIN renamed : renamed[n] \in DOMAIN content
  BY DEF NInv, FilesExist
<1>2. UNCHANGED <<kind, noted>> /\ pc[a] = "opening" /\ ReportTypes
  BY DEF OpenReport, At, NInv
<1> HIDE DEF renamed
<1>3. CASE Goto(a, "ending") /\ files' = renamed /\ UNCHANGED <<content, inode>>
  <2>1. /\ pc' \in [Actors -> Labels] /\ pc'[a] = "ending" /\ "ending" \notin Reporting
        /\ \A b \in Actors \ {a} : pc'[b] = pc[b]
    BY <1>3, OtherLabels DEF NInv, ReportTypes, Goto
  <2>2. ReportTypes'
    BY <1>2, <1>3, <2>1 DEF ReportTypes
  <2>3. FilesExist'
    BY <1>1, <1>3, <2>1 DEF NInv, FilesExist, Reporting
  <2>4. NotedFirst'
    BY <1>2, <1>3, <2>1 DEF NInv, NotedFirst
  <2> QED
    BY <2>2, <2>3, <2>4 DEF NInv
<1>4. ASSUME NEW label \in {"embedding", "writing"}, Goto(a, label),
             files' = [n \in DOMAIN renamed \cup {Json(a)} |->
                          IF n = Json(a) THEN new ELSE renamed[n]],
             content' = Append(content, {}), inode' = [inode EXCEPT ![a] = new]
      PROVE  NInv'
  <2>1. /\ pc' \in [Actors -> Labels] /\ pc'[a] = label /\ label \in Reporting
        /\ \A b \in Actors \ {a} : pc'[b] = pc[b]
    BY <1>2, <1>4, OtherLabels DEF ReportTypes, Goto, Reporting, HasFile
  <2>2. /\ content' \in Seq(SUBSET Item) /\ DOMAIN content' = DOMAIN content \cup {new}
        /\ content'[new] = {} /\ \A f \in DOMAIN content : content'[f] = content[f]
        /\ new \in Nat
    <3>1. content \in Seq(SUBSET Item) /\ {} \in SUBSET Item
      BY <1>2 DEF ReportTypes
    <3> HIDE DEF Item
    <3> QED
      BY <1>4, <3>1
  <2>3. /\ inode' \in [Actors -> Nat] /\ inode'[a] = new
        /\ \A b \in Actors \ {a} : inode'[b] = inode[b]
    BY <1>2, <1>4, <2>2 DEF ReportTypes
  <2>4. ReportTypes'
    BY <1>2, <2>1, <2>2, <2>3 DEF ReportTypes
  <2>5. FilesExist'
    BY <1>1, <1>4, <2>1, <2>2, <2>3 DEF NInv, FilesExist
  <2>6. NotedFirst'
    <3>1. \A b \in Actors : pc'[b] \in Reporting /\ kind'[b] # "snapshot" => noted'
      BY <1>2, <2>1 DEF NInv, NotedFirst, Reporting
    <3>2. \A f \in DOMAIN content' : \A item \in content'[f] : item[3] # "snapshot" => noted'
      BY <1>2, <2>2 DEF NInv, NotedFirst
    <3> QED
      BY <3>1, <3>2 DEF NotedFirst
  <2> QED
    BY <2>4, <2>5, <2>6 DEF NInv
<1>5. \/ Goto(a, "ending") /\ files' = renamed /\ UNCHANGED <<content, inode>>
      \/ /\ \E label \in {"embedding", "writing"} : Goto(a, label)
         /\ files' = [n \in DOMAIN renamed \cup {Json(a)} |->
                         IF n = Json(a) THEN new ELSE renamed[n]]
         /\ content' = Append(content, {}) /\ inode' = [inode EXCEPT ![a] = new]
  BY DEF OpenReport, renamed
<1> QED
  BY <1>3, <1>4, <1>5

\* A handler that adds to the file it has open adds what was noted.
LEMMA Adds ==
  ASSUME NInv, NEW a \in Actors, pc[a] \in HasFile, NEW items \in SUBSET Item,
         NEW label \in Labels, label \in HasFile \/ label \notin Reporting, Goto(a, label),
         content' = [content EXCEPT ![inode[a]] = @ \cup items],
         \A item \in items : item[3] # "snapshot" => noted,
         UNCHANGED <<kind, inode, noted, files>>
  PROVE  NInv'
<1>1. /\ pc' \in [Actors -> Labels] /\ pc'[a] = label
      /\ \A b \in Actors \ {a} : pc'[b] = pc[b]
  BY DEF NInv, ReportTypes, Goto
<1>2. content \in Seq(SUBSET Item) /\ inode[a] \in DOMAIN content
  BY DEF NInv, ReportTypes, FilesExist
<1>3. /\ content' \in Seq(SUBSET Item) /\ DOMAIN content' = DOMAIN content
      /\ \A f \in DOMAIN content : content'[f] \in {content[f], content[f] \cup items}
  <2>1. content[inode[a]] \cup items \in SUBSET Item
    <3>1. content[inode[a]] \in SUBSET Item
      BY <1>2
    <3> QED
      BY <3>1
  <2> HIDE DEF Item
  <2>2. content' = [content EXCEPT ![inode[a]] = content[inode[a]] \cup items]
    OBVIOUS
  <2> QED
    BY <1>2, <2>1, <2>2
<1>4. ReportTypes'
  BY <1>1, <1>3 DEF NInv, ReportTypes
<1>5. FilesExist'
  BY <1>1, <1>3, OtherLabels DEF NInv, FilesExist
<1>6. NotedFirst'
  <2>1. \A b \in Actors : pc'[b] \in Reporting /\ kind'[b] # "snapshot" => noted'
    BY <1>1, OtherLabels DEF NInv, NotedFirst
  <2>2. \A f \in DOMAIN content' : \A item \in content'[f] : item[3] # "snapshot" => noted'
    BY <1>3 DEF NInv, NotedFirst
  <2> QED
    BY <2>1, <2>2 DEF NotedFirst
<1> QED
  BY <1>4, <1>5, <1>6 DEF NInv

\* What the old report holds was noted when it was written.
LEMMA EmbedNoted ==
  ASSUME NInv, NEW a \in Actors, Embed(a)
  PROVE  NInv'
<1>1. /\ UNCHANGED <<kind, inode, noted, files>> /\ Goto(a, "removing")
      /\ pc[a] \in HasFile /\ "removing" \in Labels /\ "removing" \in HasFile
  BY OtherLabels DEF Embed, At, HasFile, Reporting
<1>2. CASE Old(a) \in DOMAIN files
  <2>1. content' = [content EXCEPT ![inode[a]] = @ \cup content[files[Old(a)]]]
    BY <1>2 DEF Embed
  <2>2. /\ content[files[Old(a)]] \in SUBSET Item
        /\ \A item \in content[files[Old(a)]] : item[3] # "snapshot" => noted
    BY <1>2 DEF NInv, ReportTypes, FilesExist, NotedFirst
  <2> HIDE DEF Item
  <2> QED
    BY <1>1, <2>1, <2>2, Adds
<1>3. CASE Old(a) \notin DOMAIN files
  <2>1. content' = content
    BY <1>3 DEF Embed
  <2>2. content' = [content EXCEPT ![inode[a]] = @ \cup {}]
    <3>1. content \in Seq(SUBSET Item) /\ inode[a] \in DOMAIN content
      BY <1>1 DEF NInv, ReportTypes, FilesExist
    <3> QED
      BY <2>1, <3>1
  <2>3. {} \in SUBSET Item
    OBVIOUS
  <2> HIDE DEF Item
  <2> QED
    BY <1>1, <2>2, <2>3, Adds
<1> QED
  BY <1>2, <1>3

\* The old report's name is removed, its file stays as it is.
LEMMA RemoveNoted ==
  ASSUME NInv, NEW a \in Actors, RemoveOld(a)
  PROVE  NInv'
<1>1. /\ UNCHANGED <<kind, inode, noted, content>> /\ pc[a] = "removing"
      /\ files' = [n \in DOMAIN files \ {Old(a)} |-> files[n]]
      /\ {"removing", "writing"} \subseteq HasFile \cap Labels
  BY OtherLabels DEF RemoveOld, At, HasFile, Reporting
<1>2. /\ pc' \in [Actors -> Labels] /\ pc'[a] = "writing"
      /\ \A b \in Actors \ {a} : pc'[b] = pc[b]
  BY <1>1 DEF RemoveOld, NInv, ReportTypes, Goto
<1>3. ReportTypes'
  BY <1>1, <1>2 DEF NInv, ReportTypes
<1>4. FilesExist'
  BY <1>1, <1>2 DEF NInv, FilesExist
<1>5. NotedFirst'
  BY <1>1, <1>2, OtherLabels DEF NInv, NotedFirst
<1> QED
  BY <1>3, <1>4, <1>5 DEF NInv

\* A handler writes sections of its own kind.
LEMMA WriteNoted ==
  ASSUME NInv, NEW a \in Actors, Write(a)
  PROVE  NInv'
<1>1. /\ UNCHANGED <<kind, inode, noted, files>> /\ pc[a] \in HasFile /\ pc[a] \in Reporting
      /\ \E label \in {"closing", "ending"} : Goto(a, label)
  BY OtherLabels DEF Write, HasFile
<1>2. PICK part \in {"part", "all"} :
         content' = [content EXCEPT ![inode[a]] = @ \cup {<<part, inode[a], kind[a]>>}]
  BY DEF Write
<1>3. <<part, inode[a], kind[a]>> \in Item
  BY DEF NInv, ReportTypes, Item
<1>4. \A item \in {<<part, inode[a], kind[a]>>} : item[3] # "snapshot" => noted
  BY <1>1 DEF NInv, NotedFirst
<1>5. {"closing", "ending"} \subseteq Labels /\ "closing" \in HasFile /\ "ending" \notin Reporting
  BY OtherLabels DEF HasFile, Labels, FaultPoints
<1> HIDE DEF Item
<1>6. {<<part, inode[a], kind[a]>>} \in SUBSET Item
  BY <1>3
<1> QED
  BY <1>1, <1>2, <1>4, <1>5, <1>6, Adds

\* The end of a handler, and what follows it.
LEMMA LeavingNoted ==
  ASSUME NInv, NEW a \in Actors, End(a) \/ Leave(a) \/ CloseSDK(a) \/ StartSDK(a)
  PROVE  NInv'
<1>1. UNCHANGED <<files, content, noted, inode>>
  BY DEF End, Leave, CloseSDK, StartSDK, actorVars, diskVars
<1>2. {"resuming", "leaving", "signalled", "app", "entered", "gone"} \subseteq Labels \ Reporting
  BY OtherLabels DEF Idle
<1>3. CASE End(a)
  <2>1. kind' = kind
    BY <1>3 DEF End
  <2>2. \E label \in {"resuming", "leaving"} : Disarm(a, label) \/ Goto(a, label)
    BY <1>3 DEF End
  <2> QED
    BY <1>1, <1>2, <2>1, <2>2, Moves, Disarms
<1>4. CASE Leave(a)
  <2>1. CASE \E label \in {"signalled", "app"} : Goto(a, label) /\ UNCHANGED kind
    BY <1>1, <1>2, <2>1, Moves
  <2>2. CASE Enter(a, "nsexc")
    <3>1. "nsexc" \in Kinds
      BY DEF Kinds
    <3> QED
      BY <1>1, <1>2, <2>2, <3>1, Moves DEF Enter
  <2>3. CASE pc' = [pc EXCEPT ![a] = "gone", ![sender[a]] = "signalled"] /\ UNCHANGED kind
    <3>1. pc' \in [Actors -> Labels] /\ \A b \in Actors : pc'[b] \in {"gone", "signalled", pc[b]}
      BY <1>2, <2>3 DEF NInv, ReportTypes
    <3>2. \A b \in Actors : pc'[b] \in Reporting => pc'[b] = pc[b]
      BY <1>2, <3>1
    <3> QED
      BY <1>1, <2>3, <3>1, <3>2, Elsewhere DEF NInv, ReportTypes
  <2> QED
    BY <1>4, <2>1, <2>2, <2>3 DEF Leave
<1>5. CASE CloseSDK(a)
  <2>1. Disarm(a, "app") /\ kind' = kind
    BY <1>5 DEF CloseSDK
  <2> QED
    BY <1>1, <1>2, <2>1, Disarms
<1>6. CASE StartSDK(a)
  <2>1. UNCHANGED <<pc, kind>>
    BY <1>6 DEF StartSDK, actorVars
  <2> QED
    BY <1>1, <2>1, Elsewhere DEF NInv, ReportTypes
<1> QED
  BY <1>3, <1>4, <1>5, <1>6

\* Every step keeps the invariant.
LEMMA NextNoted == NInv /\ [Next]_vars => NInv'
<1> SUFFICES ASSUME NInv, [Next]_vars PROVE NInv'
  OBVIOUS
<1>1. CASE \E a \in Actors : Step(a) \/ HandlerFault(a)
  BY <1>1, EventsNoted, SuspensionNoted, AnnouncementNoted, BeginNoted, OpenNoted, EmbedNoted,
     RemoveNoted, WriteNoted, LeavingNoted DEF Step
<1>2. CASE \E t \in AppThreads : Event(t) \/ CloseSDK(t) \/ StartSDK(t)
  <2>1. AppThreads \subseteq Actors
    BY DEF Actors
  <2> QED
    BY <1>2, <2>1, EventsNoted, LeavingNoted
<1>3. CASE UNCHANGED vars
  <2>1. UNCHANGED <<pc, kind, files, content, noted, inode>>
    BY <1>3 DEF vars, actorVars, diskVars
  <2> QED
    BY <2>1, Elsewhere DEF NInv, ReportTypes
<1> QED
  BY <1>1, <1>2, <1>3 DEF Next

-----------------------------------------------------------------------------
(* The theorem on the note. *)

\* Whatever is on disk of a report of a crash or of a user report, the app state says that
\* this launch crashed, for any number of threads that crash at once and of faults inside
\* their handlers: onCrash notes the crash before it chooses a path for the report.
THEOREM NotedBeforeWritten == Spec => []ReportImpliesNoted
<1>1. NInv => ReportImpliesNoted
  BY DEF NInv, FilesExist, NotedFirst, ReportImpliesNoted, OnDisk
<1>2. Spec => []NInv
  BY InitNoted, NextNoted, PTL DEF Spec
<1> QED
  BY <1>1, <1>2, PTL

-----------------------------------------------------------------------------
(* Types. *)

\* Threads of the app are actors, and so are the two exception threads.
LEMMA ActorsAre ==
  /\ AppThreads \subseteq Actors /\ {Primary, Secondary} \subseteq Actors
  /\ Actors = AppThreads \cup {Primary, Secondary} /\ Nobody \notin Actors
  /\ \A a \in Actors : OtherThreads(a) \subseteq AppThreads /\ a \notin OtherThreads(a)
  /\ Primary # Secondary /\ {Primary, Secondary} \cap AppThreads = {}
BY ActorsAssumption DEF Actors, OtherThreads

\* Bounds are numbers.
LEMMA BudgetType ==
  ASSUME NEW b \in Budgets
  PROVE  b.events \in Nat /\ b.faults \in Nat /\ b.kinds \subseteq EventKinds
BY BudgetsAssumption

\* The types hold at first.
LEMMA InitTypeOK == Init => TypeOK
<1> SUFFICES ASSUME Init PROVE TypeOK
  OBVIOUS
<1>1. budget \in Budgets /\ budget.events \in Nat /\ budget.faults \in Nat
  BY BudgetType DEF Init
<1>2. /\ pc \in [Actors -> Labels] /\ kind \in [Actors -> Kinds]
      /\ susp \in [Actors -> Nat] /\ todo \in [Actors -> SUBSET AppThreads]
      /\ calling \in [Actors -> AppThreads \cup {Nobody}]
      /\ recrash \in [Actors -> BOOLEAN]
      /\ path \in [Actors -> Nat] /\ inode \in [Actors -> Nat]
      /\ sender \in [Actors -> Actors \cup {Nobody}]
  BY DEF Init, Labels, Kinds, Idle
<1>3. inbox \in Seq(Actors)
  BY DEF Init
<1>4. /\ armed \subseteq Monitors /\ port \in {"ours", "previous"}
      /\ known \subseteq {Primary, Secondary}
      /\ {machBusy, handling, crashedDuring, noted, alive} \subseteq BOOLEAN
      /\ lastPath \in Nat /\ nextReport \in Nat
      /\ sdk \in {"started", "closed", "restarted"}
  BY DEF Init
<1>5. events \in 0 .. budget.events /\ faults \in 0 .. budget.faults
  BY <1>1 DEF Init
<1> QED
  BY <1>1, <1>2, <1>3, <1>4, <1>5 DEF TypeOK, Labels, Kinds

\* Moving to another label, and into a handler.
LEMMA GotoType ==
  ASSUME TypeOK, NEW a \in Actors
  PROVE  /\ \A label \in Labels : Goto(a, label) => pc' \in [Actors -> Labels]
         /\ \A k \in Kinds : Enter(a, k) => pc' \in [Actors -> Labels] /\ kind' \in [Actors -> Kinds]
<1>1. pc \in [Actors -> Labels] /\ kind \in [Actors -> Kinds] /\ "entered" \in Labels
  BY DEF TypeOK, Labels, Kinds
<1> QED
  BY <1>1 DEF Goto, Enter

\* A fault goes to the port or becomes a signal.
LEMMA RaiseType ==
  ASSUME TypeOK, NEW a \in Actors, RaiseException(a)
  PROVE  pc' \in [Actors -> Labels] /\ inbox' \in Seq(Actors)
<1>1. "blocked" \in Labels /\ "signalled" \in Labels
  BY DEF Labels
<1>2. inbox \in Seq(Actors)
  BY DEF TypeOK
<1> QED
  BY <1>1, <1>2, GotoType DEF RaiseException

\* Disarming.
LEMMA DisarmType ==
  ASSUME TypeOK, NEW a \in Actors, NEW next \in Labels, Disarm(a, next)
  PROVE  /\ armed' \subseteq Monitors /\ port' \in {"ours", "previous"}
         /\ known' \subseteq {Primary, Secondary} /\ pc' \in [Actors -> Labels]
<1>1. "gone" \in Labels /\ pc \in [Actors -> Labels]
  BY DEF Labels, Idle, TypeOK
<1> QED
  BY <1>1 DEF Disarm, TypeOK

\* Every step keeps the types.
LEMMA NextTypeOK == TypeOK /\ [Next]_vars => TypeOK'
<1> SUFFICES ASSUME TypeOK, [Next]_vars PROVE TypeOK'
  OBVIOUS
<1> DEFINE T == /\ pc \in [Actors -> Labels] /\ kind \in [Actors -> Kinds]
                /\ inbox \in Seq(Actors)
<1>0. T /\ budget.events \in Nat /\ budget.faults \in Nat /\ budget \in Budgets
  BY BudgetType DEF TypeOK, Labels, Kinds
<1>1. ASSUME NEW t \in AppThreads, Event(t) PROVE TypeOK'
  <2>1. t \in Actors /\ {"signalled"} \subseteq Labels
    BY <1>1, ActorsAre DEF Labels
  <2>2. PICK k \in budget.kinds :
           \/ k = "fault" /\ RaiseException(t) /\ UNCHANGED kind
           \/ Goto(t, "signalled") /\ UNCHANGED <<kind, inbox>>
           \/ k \in {"cpp", "objc"} \cup UserKinds \cup {"snapshot"} /\ Enter(t, k) /\ UNCHANGED inbox
    BY <1>1 DEF Event
  <2>3. T'
    <3>1. k \in Kinds
      BY <1>0, BudgetType DEF Kinds
    <3> QED
      BY <1>0, <2>1, <2>2, <3>1, GotoType, RaiseType
  <2>4. events' \in 0 .. budget.events
    BY <1>0, <1>1 DEF Event, TypeOK
  <2> QED
    BY <1>1, <2>3, <2>4 DEF TypeOK, Event, flagVars, threadVars, diskVars, T, Labels, Kinds
<1>2. ASSUME NEW a \in Actors, TakeSignal(a) \/ Receive(a) \/ HandlerFault(a) PROVE TypeOK'
  <2>1. {"mach", "signal"} \subseteq Kinds
    BY DEF Kinds
  <2>2. CASE TakeSignal(a)
    <3>1. T' /\ alive' \in BOOLEAN
      BY <1>0, <2>1, <2>2, GotoType DEF TakeSignal, monitorVars, TypeOK
    <3> QED
      BY <2>2, <3>1 DEF TypeOK, TakeSignal, monitorVars, flagVars, threadVars, diskVars, T, Labels, Kinds
  <2>3. CASE Receive(a)
    <3>1. T'
      BY <1>0, <2>1, <2>3, GotoType DEF Receive
    <3>2. sender' \in [Actors -> Actors \cup {Nobody}]
      <4>1. Head(inbox) \in Actors
        BY <1>0, <2>3 DEF Receive
      <4> QED
        BY <4>1, <2>3 DEF Receive, TypeOK
    <3> QED
      BY <2>3, <3>1, <3>2 DEF TypeOK, Receive, flagVars, threadVars, diskVars, processVars, T, Labels, Kinds
  <2>4. CASE HandlerFault(a)
    <3>1. T'
      BY <1>0, <2>4, RaiseType DEF HandlerFault
    <3>2. faults' \in 0 .. budget.faults
      BY <1>0, <2>4 DEF HandlerFault, TypeOK
    <3> QED
      BY <2>4, <3>1, <3>2 DEF TypeOK, HandlerFault, flagVars, threadVars, diskVars, T, Labels, Kinds
  <2> QED
    BY <1>2, <2>2, <2>3, <2>4
<1>3. ASSUME NEW a \in Actors, Check(a) PROVE TypeOK'
  <2>1. {"app", "leaving", "suspending", "announcing"} \subseteq Labels
    BY DEF Labels, Idle
  <2>2. pc' \in [Actors -> Labels]
    BY <1>3, <2>1, GotoType DEF Check
  <2>3. todo' \in [Actors -> SUBSET AppThreads]
    BY <1>3, ActorsAre DEF Check, TypeOK
  <2> QED
    BY <1>3, <2>2, <2>3 DEF TypeOK, Check, monitorVars, flagVars, diskVars, processVars, Labels
<1>4. ASSUME NEW a \in Actors, NEW b \in AppThreads, CallSuspend(a, b) \/ ResumeOne(a, b) PROVE TypeOK'
  <2>1. CASE CallSuspend(a, b)
    BY <2>1 DEF TypeOK, CallSuspend, monitorVars, flagVars, actorVars, diskVars, processVars
  <2>2. CASE ResumeOne(a, b)
    <3>1. b \in Actors
      BY ActorsAre
    <3>2. susp' \in [Actors -> Nat] /\ todo' \in [Actors -> SUBSET AppThreads]
      BY <2>2, <3>1 DEF TypeOK, ResumeOne
    <3> QED
      BY <2>2, <3>2 DEF TypeOK, ResumeOne, monitorVars, flagVars, actorVars, diskVars, processVars
  <2> QED
    BY <1>4, <2>1, <2>2
<1>5. ASSUME NEW a \in Actors, DoSuspend(a) PROVE TypeOK'
  <2>1. susp' \in [Actors -> Nat] /\ todo' \in [Actors -> SUBSET AppThreads]
        /\ calling' \in [Actors -> AppThreads \cup {Nobody}]
    BY <1>5, ActorsAre DEF TypeOK, DoSuspend
  <2> QED
    BY <1>5, <2>1 DEF TypeOK, DoSuspend, monitorVars, flagVars, actorVars, diskVars, processVars
<1>6. ASSUME NEW a \in Actors, Suspended(a) \/ Resumed(a) PROVE TypeOK'
  <2>1. {"resuming", "announcing", "leaving"} \subseteq Labels
    BY DEF Labels
  <2>2. pc' \in [Actors -> Labels]
    BY <1>6, <2>1, GotoType DEF Suspended, Resumed
  <2>3. todo' \in [Actors -> SUBSET AppThreads] /\ machBusy' \in BOOLEAN
    <3>1. todo' \in [Actors -> SUBSET AppThreads]
      BY <1>6, ActorsAre DEF Suspended, Resumed, TypeOK, threadVars
    <3>2. machBusy \in BOOLEAN
      BY DEF TypeOK
    <3>3. machBusy' \in {machBusy, TRUE}
      <4>1. CASE Suspended(a)
        <5>1. machBusy' = (machBusy \/ kind[a] = "mach")
          BY <4>1 DEF Suspended
        <5> QED
          BY <3>2, <5>1
      <4>2. CASE Resumed(a)
        BY <4>2 DEF Resumed, monitorVars
      <4> QED
        BY <1>6, <4>1, <4>2
    <3> QED
      BY <3>1, <3>2, <3>3
  <2> QED
    BY <1>6, <2>2, <2>3 DEF TypeOK, Suspended, Resumed, monitorVars, threadVars, flagVars, diskVars, processVars, Labels
<1>7. ASSUME NEW a \in Actors, Announce(a) PROVE TypeOK'
  <2>1. {"flagging", "informing"} \subseteq Labels
    BY DEF Labels, FaultPoints
  <2>2. pc' \in [Actors -> Labels] /\ crashedDuring' \in BOOLEAN
    BY <1>7, <2>1, GotoType DEF Announce, TypeOK
  <2> QED
    BY <1>7, <2>2 DEF TypeOK, Announce, monitorVars, threadVars, diskVars, processVars, Labels
<1>8. ASSUME NEW a \in Actors, Flag(a) PROVE TypeOK'
  <2>1. {"activating", "informing"} \subseteq Labels
    BY DEF Labels, FaultPoints
  <2>2. /\ armed' \subseteq Monitors /\ port' \in {"ours", "previous"}
        /\ known' \subseteq {Primary, Secondary} /\ pc' \in [Actors -> Labels]
    BY <1>8, <2>1, GotoType, DisarmType DEF Flag, TypeOK
  <2> QED
    BY <1>8, <2>2 DEF TypeOK, Flag, threadVars, diskVars, processVars, Labels
<1>9. ASSUME NEW a \in Actors, Activate(a) PROVE TypeOK'
  <2>1. "informing" \in Labels /\ "waiting" \in Labels
    BY DEF Labels, FaultPoints, Idle
  <2>2. pc' \in [Actors -> Labels] /\ port' \in {"ours", "previous"}
    <3>1. CASE a = Primary /\ a \in known
      <4>1. PICK label \in Labels : pc' = [pc EXCEPT ![a] = "informing", ![Secondary] = label]
        <5>1. pc[Secondary] \in Labels /\ a # Secondary
          BY <1>0, <3>1, ActorsAre
        <5>2. CASE Secondary \in known /\ pc[Secondary] = "parked"
          BY <1>9, <2>1, <3>1, <5>1, <5>2 DEF Activate
        <5>3. CASE ~(Secondary \in known /\ pc[Secondary] = "parked")
          BY <1>9, <2>1, <3>1, <5>1, <5>3 DEF Activate
        <5> QED
          BY <5>2, <5>3
      <4> QED
        BY <1>0, <1>9, <2>1, <3>1, <4>1 DEF Activate
    <3>2. CASE ~(a = Primary /\ a \in known)
      BY <1>9, <2>1, <3>2, GotoType DEF Activate, TypeOK
    <3> QED
      BY <3>1, <3>2
  <2> QED
    BY <1>9, <2>2 DEF TypeOK, Activate, flagVars, threadVars, diskVars, processVars, Labels
<1>10. ASSUME NEW a \in Actors, BeginReport(a) PROVE TypeOK'
  <2>1. pc' \in [Actors -> Labels]
    <3>1. "opening" \in Labels
      BY DEF Labels, FaultPoints
    <3> QED
      BY <1>10, <3>1, GotoType DEF BeginReport
  <2>2. PICK chosen \in {lastPath, nextReport} : path' = [path EXCEPT ![a] = chosen] /\ lastPath' = chosen
    BY <1>10 DEF BeginReport
  <2>3. path' \in [Actors -> Nat] /\ lastPath' \in Nat
    BY <2>2 DEF TypeOK
  <2>4. recrash' \in [Actors -> BOOLEAN] /\ noted' \in BOOLEAN /\ nextReport' \in Nat
    BY <1>10 DEF BeginReport, TypeOK
  <2> QED
    BY <1>10, <2>1, <2>3, <2>4 DEF TypeOK, BeginReport, monitorVars, flagVars, threadVars, processVars, Labels
<1>11. ASSUME NEW a \in Actors, OpenReport(a) PROVE TypeOK'
  <2>1. {"ending", "embedding", "writing"} \subseteq Labels
    BY DEF Labels, FaultPoints
  <2>2. \/ Goto(a, "ending") /\ UNCHANGED inode
        \/ /\ \E label \in {"embedding", "writing"} : Goto(a, label)
           /\ inode' = [inode EXCEPT ![a] = Len(content) + 1] /\ content' = Append(content, {})
    BY <1>11 DEF OpenReport
  <2>3. pc' \in [Actors -> Labels]
    BY <2>1, <2>2, GotoType
  <2> QED
    BY <1>11, <2>2, <2>3 DEF TypeOK, OpenReport, monitorVars, flagVars, threadVars, processVars, Labels
<1>12. ASSUME NEW a \in Actors, Embed(a) \/ RemoveOld(a) \/ Write(a) PROVE TypeOK'
  <2>1. {"removing", "writing", "closing", "ending"} \subseteq Labels
    BY DEF Labels, FaultPoints
  <2>2. pc' \in [Actors -> Labels]
    BY <1>12, <2>1, GotoType DEF Embed, RemoveOld, Write
  <2> QED
    BY <1>12, <2>2 DEF TypeOK, Embed, RemoveOld, Write, monitorVars, flagVars, threadVars, processVars, Labels
<1>13. ASSUME NEW a \in Actors, End(a) PROVE TypeOK'
  <2>1. {"resuming", "leaving"} \subseteq Labels
    BY DEF Labels
  <2>2. /\ armed' \subseteq Monitors /\ port' \in {"ours", "previous"}
        /\ known' \subseteq {Primary, Secondary} /\ pc' \in [Actors -> Labels]
    BY <1>13, <2>1, GotoType, DisarmType DEF End, TypeOK
  <2>3. handling' \in BOOLEAN /\ machBusy' \in BOOLEAN
    BY <1>13 DEF End
  <2>4. todo' \in [Actors -> SUBSET AppThreads]
    BY <1>13, ActorsAre DEF End, TypeOK
  <2> QED
    BY <1>13, <2>2, <2>3, <2>4 DEF TypeOK, End, diskVars, processVars, Labels
<1>14. ASSUME NEW a \in Actors, Leave(a) PROVE TypeOK'
  <2>1. {"signalled", "app", "gone"} \subseteq Labels /\ "nsexc" \in Kinds
    BY DEF Labels, Kinds, Idle
  <2>2. \/ \E label \in {"signalled", "app"} : Goto(a, label) /\ UNCHANGED kind
        \/ Enter(a, "nsexc")
        \/ pc' = [pc EXCEPT ![a] = "gone", ![sender[a]] = "signalled"] /\ UNCHANGED kind
    BY <1>14 DEF Leave
  <2>3. pc' \in [Actors -> Labels] /\ kind' \in [Actors -> Kinds]
    BY <1>0, <2>1, <2>2, GotoType
  <2> QED
    BY <1>14, <2>3 DEF TypeOK, Leave, monitorVars, flagVars, threadVars, diskVars, processVars, Labels, Kinds
<1>15. ASSUME NEW t \in AppThreads, CloseSDK(t) \/ StartSDK(t) PROVE TypeOK'
  <2>1. "app" \in Labels /\ t \in Actors
    BY ActorsAre DEF Labels, Idle
  <2>2. /\ armed' \subseteq Monitors /\ port' \in {"ours", "previous"}
        /\ known' \subseteq {Primary, Secondary} /\ pc' \in [Actors -> Labels]
    BY <1>0, <1>15, <2>1, DisarmType DEF CloseSDK, StartSDK, TypeOK, monitorVars, actorVars
  <2> QED
    BY <1>15, <2>2 DEF TypeOK, CloseSDK, StartSDK, monitorVars, actorVars, flagVars, threadVars, diskVars, Labels
<1>16. CASE UNCHANGED vars
  BY <1>16 DEF TypeOK, vars, monitorVars, actorVars, flagVars, threadVars, diskVars, processVars
<1> QED
  BY <1>1, <1>2, <1>3, <1>4, <1>5, <1>6, <1>7, <1>8, <1>9, <1>10, <1>11, <1>12, <1>13, <1>14, <1>15,
     <1>16 DEF Next, Step

\* Every reachable state has the types.
THEOREM TypeCorrect == Spec => []TypeOK
BY InitTypeOK, NextTypeOK, PTL DEF Spec

-----------------------------------------------------------------------------
(* Who holds whom suspended. *)

\* A thread of the app that comes here does not return to the app: its signal
\* is raised again until the process dies.
Lost(t) ==
    \/ pc[t] \in {"blocked", "signalled"}
    \/ pc[t] \notin Idle /\ kind[t] \in {"signal", "cpp", "objc", "nsexc"}
    \/ pc[t] \notin Idle \cup {"entered"} /\ kind[t] \in {"userTerm", "userAllTerm"}

\* Between suspending the others and resuming them.
Middle == FaultPoints \cup {"announcing", "flagging", "activating", "ending"}

\* a has suspended b and not yet resumed it.
Holds(a, b) ==
    /\ a # b
    /\ \/ pc[a] = "suspending" /\ b \notin todo[a]
       \/ pc[a] \in Middle /\ Suspends(kind[a])
       \/ pc[a] = "resuming" /\ b \in todo[a]
Holders(b) == {a \in AppThreads : Holds(a, b)}

\* What the handler of a user report or of a snapshot looks like.
Shape(a) ==
    /\ calling[a] # Nobody => pc[a] = "suspending" /\ calling[a] \in todo[a]
    /\ pc[a] \in {"suspending", "resuming"} => Suspends(kind[a]) /\ todo[a] \subseteq OtherThreads(a)
    /\ pc[a] \notin Idle => kind[a] \in UserKinds \cup {"snapshot"}

\* As long as no thread is lost the exception threads rest, and a thread is
\* suspended once for each handler that holds it.
Quiet ==
    /\ inbox = << >>
    /\ \A e \in {Primary, Secondary} : pc[e] \in Idle /\ calling[e] = Nobody
    /\ \A a \in AppThreads : Shape(a)
    /\ \A b \in AppThreads : susp[b] = Cardinality(Holders(b))

Calm == \A t \in AppThreads : ~Lost(t)

SuspInv ==
    /\ \A e \in {Primary, Secondary} : susp[e] = 0
    /\ Calm => Quiet

\* How a step moves the thread that takes it.
LEMMA MovesOfSteps ==
  ASSUME TypeOK, NEW a \in Actors,
         Step(a) \/ HandlerFault(a) \/ (a \in AppThreads /\ (Event(a) \/ CloseSDK(a) \/ StartSDK(a)))
  PROVE  \/ UNCHANGED <<pc, kind>>
         \/ \E label \in Labels : Goto(a, label) /\ UNCHANGED kind
         \/ \E k \in Kinds : Enter(a, k)
         \/ \E label \in Labels : Disarm(a, label) /\ UNCHANGED kind
         \/ Activate(a) \/ Leave(a)
<1>1. /\ {"signal", "mach"} \subseteq Kinds
      /\ Labels = Idle \cup FaultPoints \cup
            {"blocked", "signalled", "entered", "suspending", "announcing", "flagging",
             "activating", "ending", "resuming", "leaving"}
      /\ Idle = {"app", "waiting", "parked", "gone"}
      /\ FaultPoints = {"informing", "opening", "embedding", "removing", "writing", "closing"}
  BY DEF Kinds, Labels, Idle, FaultPoints
<1>2. CASE a \in AppThreads /\ Event(a)
  <2>1. PICK k \in budget.kinds :
           \/ k = "fault" /\ RaiseException(a) /\ UNCHANGED kind
           \/ Goto(a, "signalled") /\ UNCHANGED <<kind, inbox>>
           \/ k \in {"cpp", "objc"} \cup UserKinds \cup {"snapshot"} /\ Enter(a, k) /\ UNCHANGED inbox
    BY <1>2 DEF Event
  <2>2. k \in Kinds
    BY BudgetType DEF TypeOK, Kinds
  <2> QED
    BY <1>1, <2>1, <2>2 DEF RaiseException
<1>3. CASE TakeSignal(a) \/ Receive(a) \/ HandlerFault(a)
  BY <1>1, <1>3 DEF TakeSignal, Receive, HandlerFault, RaiseException
<1>4. CASE \/ Check(a) \/ DoSuspend(a) \/ Suspended(a) \/ Resumed(a)
           \/ \E b \in AppThreads : CallSuspend(a, b) \/ ResumeOne(a, b)
  BY <1>1, <1>4 DEF Check, DoSuspend, Suspended, Resumed, CallSuspend, ResumeOne, actorVars
<1>5. CASE Announce(a) \/ Flag(a) \/ End(a)
  BY <1>1, <1>5 DEF Announce, Flag, End
<1>6. CASE BeginReport(a) \/ OpenReport(a) \/ Embed(a) \/ RemoveOld(a) \/ Write(a)
  BY <1>1, <1>6 DEF BeginReport, OpenReport, Embed, RemoveOld, Write
<1>7. CASE CloseSDK(a) \/ StartSDK(a)
  BY <1>1, <1>7 DEF CloseSDK, StartSDK, actorVars
<1> QED
  BY <1>2, <1>3, <1>4, <1>5, <1>6, <1>7 DEF Step

\* The steps of a thread leave where the other threads of the app are, except
\* that the kernel raises the signal of the thread whose exception a handled.
LEMMA OthersStay ==
  ASSUME TypeOK, NEW a \in Actors, NEW t \in AppThreads, t # a,
         Step(a) \/ HandlerFault(a) \/ (a \in AppThreads /\ (Event(a) \/ CloseSDK(a) \/ StartSDK(a)))
  PROVE  /\ kind'[t] = kind[t] /\ pc'[t] \in {pc[t], "signalled"}
         /\ ~Leave(a) => pc'[t] = pc[t]
<1>0. /\ t \in Actors /\ t \notin known /\ t # Secondary
      /\ pc \in [Actors -> Labels] /\ kind \in [Actors -> Kinds]
  BY ActorsAre DEF TypeOK, Labels, Kinds
<1>1. CASE \/ UNCHANGED <<pc, kind>> \/ (\E l \in Labels : Goto(a, l) /\ UNCHANGED kind)
           \/ (\E k \in Kinds : Enter(a, k))
  BY <1>0, <1>1 DEF Goto, Enter
<1>2. CASE \E l \in Labels : Disarm(a, l) /\ UNCHANGED kind
  BY <1>0, <1>2 DEF Disarm
<1>3. CASE Activate(a)
  BY <1>0, <1>3, Zenon DEF Activate, Goto
<1>4. CASE Leave(a)
  BY <1>0, <1>4 DEF Leave, Goto, Enter
<1> QED
  BY <1>1, <1>2, <1>3, <1>4, MovesOfSteps

\* A step is of a thread inside a handler, of the app, or none.
LEMMA WhoSteps ==
  ASSUME [Next]_vars
  PROVE  \/ UNCHANGED vars
         \/ \E a \in Actors : Step(a) \/ HandlerFault(a)
         \/ \E t \in AppThreads : Event(t) \/ CloseSDK(t) \/ StartSDK(t)
BY DEF Next

\* A lost thread stays lost.
LEMMA LostStays ==
  ASSUME TypeOK, NEW t \in AppThreads, Lost(t), [Next]_vars
  PROVE  Lost(t)'
<1>0. t \in Actors /\ pc \in [Actors -> Labels] /\ kind \in [Actors -> Kinds]
  BY ActorsAre DEF TypeOK, Labels, Kinds
<1>1. Lost(t) => pc[t] \notin Idle
  BY DEF Lost, Idle
<1>2. ASSUME NEW a \in Actors, a # t,
             Step(a) \/ HandlerFault(a) \/ (a \in AppThreads /\ (Event(a) \/ CloseSDK(a) \/ StartSDK(a)))
      PROVE  Lost(t)'
  BY <1>2, OthersStay DEF Lost
<1>3. ASSUME Event(t) \/ CloseSDK(t) \/ StartSDK(t) PROVE FALSE
  BY <1>1, <1>3 DEF Event, CloseSDK, StartSDK, At, Idle
<1>4. CASE TakeSignal(t) \/ HandlerFault(t)
  BY <1>0, <1>4 DEF TakeSignal, HandlerFault, RaiseException, Goto, Enter, Lost, Idle
<1>5. ~Receive(t)
  BY ActorsAre DEF Receive
<1>6. CASE Check(t)
  BY <1>0, <1>6 DEF Check, At, Goto, Lost, Idle, UserKinds, MonitorOf
<1>7. CASE DoSuspend(t) \/ \E b \in AppThreads : CallSuspend(t, b) \/ ResumeOne(t, b)
  BY <1>7 DEF DoSuspend, CallSuspend, ResumeOne, actorVars, Lost
<1>8. CASE Suspended(t) \/ Resumed(t) \/ Announce(t)
  BY <1>0, <1>8 DEF Suspended, Resumed, Announce, At, Goto, Lost, Idle
<1>9. CASE Flag(t) \/ End(t)
  <2>1. PICK label \in {"activating", "informing", "resuming", "leaving"} : pc'[t] = label
    BY <1>0, <1>9 DEF Flag, End, Goto, Disarm
  <2>2. pc[t] \in {"flagging", "ending"} /\ kind' = kind
    BY <1>9 DEF Flag, End, At
  <2> QED
    BY <2>1, <2>2 DEF Lost, Idle
<1>10. CASE Activate(t)
  <2>1. t # Primary
    BY ActorsAre
  <2> QED
    BY <1>0, <1>10, <2>1 DEF Activate, At, Goto, Lost, Idle
<1>11. CASE BeginReport(t) \/ OpenReport(t) \/ Embed(t) \/ RemoveOld(t) \/ Write(t)
  BY <1>0, <1>11 DEF BeginReport, OpenReport, Embed, RemoveOld, Write, At, Goto, Lost, Idle
<1>12. CASE Leave(t)
  BY <1>0, <1>12 DEF Leave, At, Goto, Enter, Lost, Idle, UserKinds
<1>13. CASE UNCHANGED vars
  BY <1>13 DEF vars, actorVars, Lost
<1> QED
  BY <1>2, <1>3, <1>4, <1>5, <1>6, <1>7, <1>8, <1>9, <1>10, <1>11, <1>12, <1>13, ActorsAre DEF Next, Step

\* Finitely many threads hold another.
LEMMA HoldersFinite ==
  ASSUME NEW S \in SUBSET AppThreads
  PROVE  IsFiniteSet(S) /\ Cardinality(S) \in Nat
BY ActorsAssumption, FS_Subset, FS_CardinalityType

\* A step of a handler that neither suspends nor resumes a thread.
LEMMA HoldsSame ==
  ASSUME TypeOK, Quiet, NEW a \in AppThreads, inbox' = << >>, UNCHANGED susp,
         \A e \in {Primary, Secondary} : pc'[e] \in Idle /\ calling'[e] = Nobody,
         \A t \in AppThreads \ {a} : /\ pc'[t] = pc[t] /\ kind'[t] = kind[t]
                                     /\ todo'[t] = todo[t] /\ calling'[t] = calling[t],
         Shape(a)', \A b \in AppThreads : (Holds(a, b)' <=> Holds(a, b))
  PROVE  Quiet'
<1>1. \A t \in AppThreads \ {a} : Shape(t)'
  BY DEF Quiet, Shape
<1>2. \A t, b \in AppThreads : Holds(t, b)' <=> Holds(t, b)
  BY DEF Holds
<1>3. \A b \in AppThreads : Holders(b)' = Holders(b)
  BY <1>2 DEF Holders
<1> QED
  BY <1>1, <1>3 DEF Quiet

\* A step after which no thread is lost keeps the suspend counts equal to the
\* numbers of holders: a handler that comes to hold a thread has suspended it, one that
\* resumes it held it.
LEMMA NextQuiet ==
  ASSUME TypeOK, TypeOK', Calm, Calm', Quiet, [Next]_vars
  PROVE  Quiet'
<1>0. pc \in [Actors -> Labels] /\ kind \in [Actors -> Kinds] /\ AppThreads \subseteq Actors
      /\ calling \in [Actors -> AppThreads \cup {Nobody}] /\ todo \in [Actors -> SUBSET AppThreads]
      /\ susp \in [Actors -> Nat] /\ \A a \in AppThreads : Nobody # a
  BY ActorsAre DEF TypeOK, Labels, Kinds
<1>a. \A a \in AppThreads : /\ pc[a] \notin {"blocked", "signalled"} /\ pc'[a] \notin {"blocked", "signalled"}
                            /\ Shape(a)
                            /\ pc[a] \notin Idle => kind[a] \in {"user", "userAll", "userTerm", "userAllTerm", "snapshot"}
                            /\ pc[a] \notin Idle \cup {"entered"} => kind[a] \in {"user", "userAll", "snapshot"}
  BY DEF Calm, Lost, Quiet, Shape, UserKinds
<1>b. \A e \in {Primary, Secondary} : pc[e] \in Idle /\ calling[e] = Nobody /\ e \in Actors
  BY ActorsAre DEF Quiet
<1>c. Idle = {"app", "waiting", "parked", "gone"}
  BY DEF Idle
<1>1. ASSUME NEW a \in Actors, Step(a) \/ HandlerFault(a) PROVE a \in AppThreads
  <2> SUFFICES ASSUME a \in {Primary, Secondary} PROVE FALSE
    BY ActorsAre
  <2>1. pc[a] \in Idle /\ calling[a] = Nobody /\ inbox = << >>
    BY <1>b DEF Quiet
  <2> QED
    BY <1>1, <1>c, <2>1 DEF Step, HandlerFault, TakeSignal, Receive, Check, CallSuspend, ResumeOne, DoSuspend, Suspended,
       Resumed, Announce, Flag, Activate, BeginReport, OpenReport, Embed, RemoveOld, Write, End, Leave, At, FaultPoints
<1>2. ASSUME NEW a \in AppThreads, Step(a) \/ HandlerFault(a) \/ Event(a) \/ CloseSDK(a) \/ StartSDK(a)
      PROVE  /\ \A t \in AppThreads \ {a} : pc'[t] = pc[t] /\ kind'[t] = kind[t]
             /\ \A e \in {Primary, Secondary} : pc'[e] \in Idle
  <2>1. a \in Actors /\ a \notin {Primary, Secondary}
    BY ActorsAre
  <2>2. \A t \in AppThreads \ {a} : pc'[t] = pc[t] /\ kind'[t] = kind[t]
    BY <1>2, <1>a, <2>1, OthersStay
  <2>3. \A e \in {Primary, Secondary} : pc'[e] \in {pc[e], "gone", "waiting"}
    <3>1. CASE \/ UNCHANGED <<pc, kind>> \/ (\E l \in Labels : Goto(a, l) /\ UNCHANGED kind)
               \/ (\E k \in Kinds : Enter(a, k))
      BY <1>0, <1>b, <2>1, <3>1 DEF Goto, Enter
    <3>2. CASE \E l \in Labels : Disarm(a, l) /\ UNCHANGED kind
      BY <1>0, <1>b, <2>1, <3>2 DEF Disarm
    <3>3. CASE Activate(a)
      BY <1>0, <1>b, <2>1, <3>3 DEF Activate, Goto
    <3>4. CASE Leave(a)
      <4>1. kind[a] # "mach"
        BY <1>a, <1>c, <3>4 DEF Leave, At
      <4> QED
        BY <1>0, <1>b, <2>1, <3>4, <4>1 DEF Leave, Goto, Enter
    <3> QED
      BY <1>2, <2>1, <3>1, <3>2, <3>3, <3>4, MovesOfSteps
  <2> QED
    BY <1>b, <1>c, <2>2, <2>3
<1>3. ASSUME NEW a \in AppThreads, Event(a) PROVE Quiet'
  <2>1. UNCHANGED <<susp, todo, calling>> /\ pc[a] \in Idle
    BY <1>3 DEF Event, threadVars, At, Idle
  <2>2. inbox' = inbox /\ pc'[a] = "entered" /\ kind'[a] \in UserKinds \cup {"snapshot"}
    <3>1. PICK k \in budget.kinds :
             \/ k = "fault" /\ RaiseException(a)
             \/ Goto(a, "signalled")
             \/ k \in {"cpp", "objc"} /\ Enter(a, k)
             \/ k \in UserKinds \cup {"snapshot"} /\ Enter(a, k) /\ UNCHANGED inbox
      BY <1>3 DEF Event
    <3>2. ~Goto(a, "signalled") /\ ~RaiseException(a)
      BY <1>0, <1>a DEF RaiseException, Goto
    <3>3. ~(k \in {"cpp", "objc"} /\ Enter(a, k))
      <4>1. ~Lost(a)'
        BY DEF Calm
      <4> QED
        BY <1>0, <1>c, <4>1 DEF Enter, Goto, Lost
    <3> QED
      BY <1>0, <3>1, <3>2, <3>3 DEF Enter, Goto
  <2>3. calling[a] = Nobody
    BY <1>a, <1>c, <2>1 DEF Shape
  <2>4. Shape(a)' /\ \A b \in AppThreads : (Holds(a, b)' <=> Holds(a, b))
    <3>1. Shape(a)'
      BY <2>1, <2>2, <2>3 DEF Shape
    <3>2. \A b \in AppThreads : ~Holds(a, b) /\ ~Holds(a, b)'
      BY <1>c, <2>1, <2>2 DEF Holds, Middle, FaultPoints
    <3> QED
      BY <3>1, <3>2
  <2> QED
    BY <1>b, <1>2, <1>3, <2>1, <2>2, <2>4, HoldsSame DEF Quiet
<1>4. ASSUME NEW a \in AppThreads, TakeSignal(a) \/ Receive(a) \/ HandlerFault(a) PROVE FALSE
  BY <1>0, <1>a, <1>4, ActorsAre DEF TakeSignal, Receive, HandlerFault, RaiseException, Goto, At
<1>5. ASSUME NEW a \in AppThreads, Check(a) PROVE Quiet'
  <2>1. UNCHANGED <<susp, calling, kind, inbox>> /\ pc[a] = "entered" /\ calling[a] = Nobody
        /\ \A t \in AppThreads \ {a} : todo'[t] = todo[t]
    BY <1>0, <1>5, <1>a DEF Check, At, Shape, monitorVars
  <2>2. \/ pc'[a] \in {"app", "leaving"}
        \/ pc'[a] = "suspending" /\ Suspends(kind[a]) /\ todo'[a] = OtherThreads(a)
        \/ pc'[a] = "announcing" /\ ~Suspends(kind[a])
    BY <1>0, <1>5 DEF Check, Goto
  <2>3. \A b \in AppThreads : ~Holds(a, b) /\ ~Holds(a, b)'
    BY <2>1, <2>2 DEF Holds, Middle, FaultPoints, OtherThreads
  <2>4. Shape(a)'
    BY <1>a, <1>c, <2>1, <2>2 DEF Shape
  <2>5. Step(a)
    BY <1>5 DEF Step
  <2> QED
    BY <1>b, <1>2, <2>1, <2>3, <2>4, <2>5, HoldsSame DEF Quiet
<1>6. ASSUME NEW a \in AppThreads, NEW b \in AppThreads, CallSuspend(a, b) PROVE Quiet'
  <2>1. UNCHANGED <<susp, todo, kind, pc, inbox>> /\ pc[a] = "suspending" /\ b \in todo[a]
        /\ calling' = [calling EXCEPT ![a] = b]
    BY <1>6 DEF CallSuspend, At, monitorVars, actorVars
  <2>2. calling'[a] = b /\ (\A t \in AppThreads \ {a} : calling'[t] = calling[t])
        /\ \A e \in {Primary, Secondary} : calling'[e] = Nobody
    BY <1>0, <1>b, <2>1, ActorsAre
  <2>3. Shape(a)' /\ \A c \in AppThreads : (Holds(a, c)' <=> Holds(a, c))
    <3>1. Shape(a)'
      BY <1>a, <2>1, <2>2 DEF Shape
    <3>2. \A c \in AppThreads : (Holds(a, c)' <=> Holds(a, c))
      BY <2>1 DEF Holds
    <3> QED
      BY <3>1, <3>2
  <2> QED
    BY <1>b, <2>1, <2>2, <2>3, HoldsSame DEF Quiet
<1>7. ASSUME NEW a \in AppThreads, DoSuspend(a) PROVE Quiet'
  <2>0. calling[a] \in AppThreads
    BY <1>0, <1>7 DEF DoSuspend
  <2> PICK b \in AppThreads : b = calling[a]
    BY <2>0
  <2>1. /\ UNCHANGED <<kind, pc, inbox>> /\ b # Nobody
        /\ susp' = [susp EXCEPT ![b] = @ + 1] /\ todo' = [todo EXCEPT ![a] = @ \ {b}]
        /\ calling' = [calling EXCEPT ![a] = Nobody]
    BY <1>7 DEF DoSuspend, monitorVars, actorVars
  <2>2. b \in AppThreads /\ pc[a] = "suspending" /\ b \in todo[a] /\ b # a
    BY <1>0, <1>a, <2>1 DEF Shape, OtherThreads
  <2>3. /\ todo'[a] = todo[a] \ {b} /\ calling'[a] = Nobody
        /\ \A t \in AppThreads \ {a} : todo'[t] = todo[t] /\ calling'[t] = calling[t]
        /\ \A e \in {Primary, Secondary} : calling'[e] = Nobody
    BY <1>0, <1>b, <2>1, ActorsAre
  <2>4. \A c \in AppThreads : susp'[c] = IF c = b THEN susp[c] + 1 ELSE susp[c]
    BY <1>0, <2>1, <2>2
  <2>5. \A t \in AppThreads : Shape(t)'
    BY <1>a, <2>1, <2>3 DEF Shape
  <2>6. \A t, c \in AppThreads : Holds(t, c)' <=> (Holds(t, c) \/ (t = a /\ c = b))
    BY <2>1, <2>2, <2>3 DEF Holds
  <2>7. ~Holds(a, b)
    BY <2>2 DEF Holds, Middle, FaultPoints
  <2>8. Holders(b)' = Holders(b) \cup {a} /\ a \notin Holders(b)
    BY <2>2, <2>6, <2>7 DEF Holders
  <2>9. \A c \in AppThreads \ {b} : Holders(c)' = Holders(c)
    BY <2>6 DEF Holders
  <2>10. Cardinality(Holders(b)') = Cardinality(Holders(b)) + 1
    <3>1. IsFiniteSet(Holders(b))
      BY HoldersFinite DEF Holders
    <3> QED
      BY <2>8, <3>1, FS_AddElement
  <2>11. \A c \in AppThreads : susp'[c] = Cardinality(Holders(c)')
    BY <2>4, <2>9, <2>10 DEF Quiet
  <2> QED
    BY <1>b, <2>1, <2>3, <2>5, <2>11 DEF Quiet
<1>8. ASSUME NEW a \in AppThreads, Suspended(a) \/ Resumed(a) PROVE Quiet'
  <2>1. UNCHANGED <<susp, calling, kind, inbox>> /\ pc[a] \in {"suspending", "resuming"}
        /\ todo[a] = {} /\ (\A t \in AppThreads \ {a} : todo'[t] = todo[t])
    BY <1>0, <1>8 DEF Suspended, Resumed, At, monitorVars, threadVars
  <2>2. Suspends(kind[a]) /\ calling[a] = Nobody
    BY <1>a, <2>1 DEF Shape
  <2>3. \/ pc[a] = "suspending" /\ pc'[a] = "announcing"
        \/ pc[a] = "resuming" /\ pc'[a] = "leaving"
    BY <1>0, <1>8, <1>a, <1>c DEF Suspended, Resumed, At, Goto
  <2>4. \A b \in AppThreads : Holds(a, b)' <=> Holds(a, b)
    BY <2>1, <2>2, <2>3 DEF Holds, Middle, FaultPoints
  <2>5. Shape(a)'
    BY <1>a, <1>c, <2>1, <2>2, <2>3 DEF Shape
  <2>6. Step(a)
    BY <1>8 DEF Step
  <2> QED
    BY <1>b, <1>2, <2>1, <2>4, <2>5, <2>6, HoldsSame DEF Quiet
<1>9. ASSUME NEW a \in AppThreads, NEW b \in AppThreads, ResumeOne(a, b) PROVE Quiet'
  <2>1. /\ UNCHANGED <<kind, pc, inbox, calling>> /\ pc[a] = "resuming" /\ b \in todo[a]
        /\ susp' = [susp EXCEPT ![b] = IF @ > 0 THEN @ - 1 ELSE 0] /\ todo' = [todo EXCEPT ![a] = @ \ {b}]
    BY <1>9 DEF ResumeOne, monitorVars, actorVars, At
  <2>2. b # a /\ Holds(a, b)
    BY <1>a, <2>1 DEF Shape, OtherThreads, Holds
  <2>3. /\ todo'[a] = todo[a] \ {b} /\ \A t \in AppThreads \ {a} : todo'[t] = todo[t]
    BY <1>0, <2>1
  <2>4. \A t \in AppThreads : Shape(t)'
    BY <1>a, <2>1, <2>3 DEF Shape
  <2>5. \A t, c \in AppThreads : Holds(t, c)' <=> (Holds(t, c) /\ ~(t = a /\ c = b))
    BY <2>1, <2>2, <2>3 DEF Holds, Middle, FaultPoints
  <2>6. Holders(b)' = Holders(b) \ {a} /\ a \in Holders(b)
    BY <2>2, <2>5 DEF Holders
  <2>7. \A c \in AppThreads \ {b} : Holders(c)' = Holders(c)
    BY <2>5 DEF Holders
  <2>8. Cardinality(Holders(b)') = Cardinality(Holders(b)) - 1 /\ Cardinality(Holders(b)) \in Nat \ {0}
    <3>1. IsFiniteSet(Holders(b)) /\ Cardinality(Holders(b)) \in Nat
      BY HoldersFinite DEF Holders
    <3>2. Cardinality(Holders(b)) # 0
      BY <2>6, <3>1, FS_EmptySet
    <3> QED
      BY <2>6, <3>1, <3>2, FS_RemoveElement
  <2>9. \A c \in AppThreads \ {b} : susp'[c] = susp[c]
    BY <1>0, <2>1
  <2>10. susp'[b] = susp[b] - 1
    <3>1. susp[b] = Cardinality(Holders(b))
      BY DEF Quiet
    <3>2. susp[b] > 0
      BY <2>8, <3>1
    <3> QED
      BY <1>0, <2>1, <3>2
  <2>11. \A c \in AppThreads : susp'[c] = Cardinality(Holders(c)')
    BY <2>7, <2>8, <2>9, <2>10 DEF Quiet
  <2> QED
    BY <1>b, <2>1, <2>4, <2>11 DEF Quiet
<1>10. ASSUME NEW a \in AppThreads,
              \/ Announce(a) \/ Flag(a) \/ Activate(a)
              \/ BeginReport(a) \/ OpenReport(a) \/ Embed(a) \/ RemoveOld(a) \/ Write(a)
       PROVE  Quiet'
  <2>1. UNCHANGED <<susp, calling, todo, kind, inbox>>
    BY <1>10 DEF Announce, Flag, Activate, BeginReport, OpenReport, Embed, RemoveOld, Write, threadVars, monitorVars
  <2>2. pc[a] \in Middle /\ pc'[a] \in Middle
    <3>1. CASE Announce(a) \/ BeginReport(a) \/ OpenReport(a) \/ Embed(a) \/ RemoveOld(a) \/ Write(a)
      BY <1>0, <3>1 DEF Announce, BeginReport, OpenReport, Embed, RemoveOld, Write, At, Goto, Middle, FaultPoints
    <3>2. CASE Flag(a)
      BY <1>0, <3>2 DEF Flag, At, Goto, Disarm, Middle, FaultPoints
    <3>3. CASE Activate(a)
      <4>1. a # Primary
        BY ActorsAre
      <4> QED
        BY <1>0, <3>3, <4>1 DEF Activate, At, Goto, Middle, FaultPoints
    <3> QED
      BY <1>10, <3>1, <3>2, <3>3
  <2>3. /\ Middle \cap {"suspending", "resuming"} = {} /\ Middle \cap Idle = {}
    BY <1>c DEF Middle, FaultPoints
  <2>4. \A b \in AppThreads : Holds(a, b)' <=> Holds(a, b)
    BY <2>1, <2>2, <2>3 DEF Holds
  <2>5. Shape(a)'
    BY <1>a, <2>1, <2>2, <2>3 DEF Shape
  <2>6. Step(a)
    BY <1>10 DEF Step
  <2> QED
    BY <1>b, <1>2, <2>1, <2>4, <2>5, <2>6, HoldsSame DEF Quiet
<1>11. ASSUME NEW a \in AppThreads, End(a) PROVE Quiet'
  <2>1. UNCHANGED <<susp, calling, kind, inbox>> /\ pc[a] = "ending"
        /\ todo' = [todo EXCEPT ![a] = OtherThreads(a)]
    BY <1>11 DEF End, At
  <2>2. todo'[a] = OtherThreads(a) /\ \A t \in AppThreads \ {a} : todo'[t] = todo[t]
    BY <1>0, <2>1
  <2>3. pc'[a] = IF Suspends(kind[a]) THEN "resuming" ELSE "leaving"
    <3>1. kind[a] # "nsexc"
      BY <1>a, <1>c, <2>1
    <3> QED
      BY <1>0, <1>11, <3>1 DEF End, Resumes, Goto, Disarm
  <2>4. \A b \in AppThreads : Holds(a, b)' <=> Holds(a, b)
    BY <2>1, <2>2, <2>3 DEF Holds, Middle, FaultPoints, OtherThreads
  <2>5. Shape(a)'
    BY <1>a, <1>c, <2>1, <2>2, <2>3 DEF Shape
  <2>6. Step(a)
    BY <1>11 DEF Step
  <2> QED
    BY <1>b, <1>2, <2>1, <2>2, <2>4, <2>5, <2>6, HoldsSame DEF Quiet
<1>12. ASSUME NEW a \in AppThreads, Leave(a) PROVE Quiet'
  <2>1. UNCHANGED <<susp, calling, todo, inbox>> /\ pc[a] = "leaving" /\ kind[a] \in {"user", "userAll", "snapshot"}
    BY <1>12, <1>a, <1>c DEF Leave, At, threadVars, monitorVars
  <2>2. pc'[a] = "app" /\ kind' = kind
    BY <1>0, <1>12, <2>1 DEF Leave, Goto
  <2>3. \A b \in AppThreads : Holds(a, b)' <=> Holds(a, b)
    BY <2>1, <2>2 DEF Holds, Middle, FaultPoints
  <2>4. Shape(a)'
    BY <1>a, <1>c, <2>1, <2>2 DEF Shape
  <2>5. Step(a)
    BY <1>12 DEF Step
  <2> QED
    BY <1>b, <1>2, <2>1, <2>3, <2>4, <2>5, HoldsSame DEF Quiet
<1>13. ASSUME NEW a \in AppThreads, CloseSDK(a) \/ StartSDK(a) PROVE Quiet'
  <2>1. UNCHANGED <<susp, calling, todo, inbox, kind>> /\ pc[a] = "app"
    BY <1>13 DEF CloseSDK, StartSDK, At, threadVars, monitorVars, actorVars
  <2>2. pc'[a] = "app"
    BY <1>0, <1>13, <2>1 DEF CloseSDK, StartSDK, Disarm, actorVars
  <2>3. \A b \in AppThreads : Holds(a, b)' <=> Holds(a, b)
    BY <2>1, <2>2 DEF Holds, Middle, FaultPoints
  <2>4. Shape(a)'
    BY <1>a, <1>c, <2>1, <2>2 DEF Shape
  <2> QED
    BY <1>b, <1>2, <1>13, <2>1, <2>3, <2>4, HoldsSame DEF Quiet
<1>14. CASE UNCHANGED vars
  <2>1. UNCHANGED <<susp, calling, todo, inbox, kind, pc>>
    BY <1>14 DEF vars, threadVars, monitorVars, actorVars
  <2>2. \A t \in AppThreads : Shape(t)' /\ Holders(t)' = Holders(t)
    BY <1>a, <2>1 DEF Shape, Holders, Holds
  <2> QED
    BY <2>1, <2>2 DEF Quiet
<1> QED
  BY <1>1, <1>3, <1>4, <1>5, <1>6, <1>7, <1>8, <1>9, <1>10, <1>11, <1>12, <1>13, <1>14 DEF Next, Step

\* The invariant of suspension: at first nobody holds anybody.
LEMMA InitSusp == Init => SuspInv
<1> SUFFICES ASSUME Init PROVE SuspInv
  OBVIOUS
<1>1. /\ inbox = << >> /\ Actors = AppThreads \cup {Primary, Secondary}
      /\ pc \in [Actors -> Idle] /\ \A a \in Actors : susp[a] = 0 /\ calling[a] = Nobody
  BY DEF Init, Idle, Actors
<1>2. \A a \in Actors : pc[a] \in Idle
  BY <1>1
<1>3. \A a, b \in AppThreads : ~Holds(a, b)
  BY <1>1, <1>2 DEF Holds, Idle, Middle, FaultPoints
<1>4. \A b \in AppThreads : Holders(b) = {}
  BY <1>3 DEF Holders
<1>5. \A a \in AppThreads : Shape(a)
  BY <1>1, <1>2 DEF Shape, Idle
<1> QED
  BY <1>1, <1>2, <1>4, <1>5, FS_EmptySet DEF SuspInv, Quiet

\* Every step keeps the counts.
LEMMA NextSusp == TypeOK /\ TypeOK' /\ SuspInv /\ [Next]_vars => SuspInv'
<1> SUFFICES ASSUME TypeOK, TypeOK', SuspInv, [Next]_vars PROVE SuspInv'
  OBVIOUS
<1>1. Calm' => Calm
  BY LostStays DEF Calm
<1>2. Calm' => Quiet'
  BY <1>1, NextQuiet DEF SuspInv
<1>3. \A e \in {Primary, Secondary} : susp'[e] = susp[e]
  <2>1. CASE UNCHANGED susp
    BY <2>1
  <2>2. CASE \E a \in Actors : DoSuspend(a)
    <3>1. PICK b \in AppThreads : susp' = [susp EXCEPT ![b] = @ + 1]
      BY <2>2, ActorsAre DEF DoSuspend, TypeOK
    <3> QED
      BY <3>1, ActorsAre DEF TypeOK
  <2>3. CASE \E a \in Actors, b \in AppThreads : ResumeOne(a, b)
    <3>1. PICK b \in AppThreads : susp' = [susp EXCEPT ![b] = IF @ > 0 THEN @ - 1 ELSE 0]
      BY <2>3 DEF ResumeOne
    <3> QED
      BY <3>1, ActorsAre DEF TypeOK
  <2> QED
    <3>1. ASSUME NEW a \in Actors, Step(a) \/ HandlerFault(a)
          PROVE  susp' = susp \/ DoSuspend(a) \/ \E b \in AppThreads : ResumeOne(a, b)
      BY <3>1 DEF Step, threadVars, HandlerFault, TakeSignal, Receive, Check, CallSuspend, Suspended, Resumed, Announce,
         Flag, Activate, BeginReport, OpenReport, Embed, RemoveOld, Write, End, Leave
    <3>2. ASSUME NEW t \in AppThreads, Event(t) \/ CloseSDK(t) \/ StartSDK(t) PROVE susp' = susp
      BY <3>2 DEF Event, CloseSDK, StartSDK, threadVars
    <3>3. UNCHANGED vars => susp' = susp
      BY DEF vars, threadVars
    <3> QED
      BY <2>1, <2>2, <2>3, <3>1, <3>2, <3>3, WhoSteps
<1> QED
  BY <1>2, <1>3 DEF SuspInv

\* Once no thread is inside a handler, none is left suspended, for any number of
\* threads that report and crash at once: what suspend counts add up to is the
\* number of handlers that are still to resume.
THEOREM NobodyStaysSuspended == Spec => []NobodyLeftSuspended
<1>1. TypeOK /\ SuspInv => NobodyLeftSuspended
  <2> SUFFICES ASSUME TypeOK, SuspInv, \A a \in Actors : pc[a] \in Idle, NEW b \in Actors
               PROVE  susp[b] = 0
    BY DEF NobodyLeftSuspended
  <2>1. CASE b \in {Primary, Secondary}
    BY <2>1 DEF SuspInv
  <2>2. CASE b \in AppThreads
    <3>1. Calm
      BY ActorsAre DEF Calm, Lost, Idle
    <3>2. Holders(b) = {}
      BY ActorsAre DEF Holders, Holds, Idle, Middle, FaultPoints
    <3> QED
      BY <2>2, <3>1, <3>2, FS_EmptySet DEF SuspInv, Quiet
  <2> QED
    BY <2>1, <2>2, ActorsAre
<1> QED
  BY <1>1, InitTypeOK, NextTypeOK, InitSusp, NextSusp, PTL DEF Spec

-----------------------------------------------------------------------------
(* One event: its handler, and what faults inside handlers lead to. *)

\* Not at rest, and not waiting for an exception thread to handle its fault.
Busy(a) == pc[a] \notin Idle \cup {"blocked"}

\* Before a handler has announced itself.
Before == {"entered", "suspending", "announcing"}
OldExists == \E n \in DOMAIN files : n[2] = "old"

\* Of the thread that is inside a handler.  The first handler runs with clear flags; one
\* that starts over after a fault is a signal or Mach handler, and the last: it
\* finds the monitors disarmed.
Local(a) ==
    /\ pc[a] \in Before \/ (pc[a] \in {"resuming", "leaving"} /\ kind[a] = "objc") =>
          ~crashedDuring /\ (kind[a] \notin {"mach", "signal"} => ~handling)
    /\ pc[a] \in Middle => kind[a] # "objc"
    /\ crashedDuring => pc[a] = "signalled" \/ kind[a] \in {"mach", "signal"}
    /\ handling /\ faults = 0 =>
          pc[a] \notin Before /\ (pc[a] \in {"resuming", "leaving", "signalled"} => armed = {})
    /\ pc[a] \in Reporting =>
          /\ recrash[a] = crashedDuring /\ path[a] = lastPath
          /\ ~crashedDuring => lastPath # 0
    /\ pc[a] = "opening" /\ ~crashedDuring => Json(a) \notin DOMAIN files
    /\ OldExists => pc[a] \notin {"flagging", "activating", "informing", "opening"}
    /\ pc[a] \in HasFile => Json(a) \in DOMAIN files /\ files[Json(a)] = inode[a]
    /\ pc[a] = "removing" /\ Old(a) \in DOMAIN files =>
          content[files[Old(a)]] \subseteq content[inode[a]]

\* At most one thread is inside a handler, or its fault is in the inbox.
OneAtATime ==
    /\ \A a, b \in Actors : Busy(a) /\ Busy(b) => a = b
    /\ inbox # << >> => Len(inbox) = 1 /\ \A a \in Actors : ~Busy(a)
    /\ events = 0 => inbox = << >> /\ ~handling /\ ~crashedDuring /\ \A a \in Actors : ~Busy(a)

\* Of what the handlers share.
Shared ==
    /\ armed \in {Monitors, {}} /\ (armed = {} => port = "previous")
    /\ crashedDuring => /\ inbox = << >> /\ faults >= 1
                        /\ armed = {} \/ \E a \in Actors : pc[a] = "flagging"
    /\ handling /\ faults = 0 => inbox = << >>
    /\ lastPath < nextReport
    /\ \A n \in DOMAIN files : n \in Nat \X {"json", "old"} /\ n[1] < nextReport
    /\ OldExists => crashedDuring

Chain == OneAtATime /\ Shared /\ \A a \in Actors : Busy(a) => Local(a)

\* A complete report can be found; or none can ever be, for the handler
\* that started over was preceded by a fault before a path was chosen.
Reported  == \E item \in OnDisk : item[1] = "all"
Unwritten == crashedDuring /\ lastPath = 0
\* From the disarming of the monitors to the last section of the report.
Going == HasFile \cup {"activating", "informing", "opening"}

Outcome ==
    /\ ~alive => armed = {} /\ \E a \in Actors : pc[a] = "signalled"
    /\ \A a \in Actors : pc[a] = "ending" => Reported \/ Unwritten
    /\ sdk = "started" /\ armed = {} =>
          \/ Reported \/ Unwritten \/ faults >= 2
          \/ crashedDuring /\ \E a \in Actors : pc[a] \in Going

LoneInv == events <= 1 => Chain /\ Outcome

\* What Chain says of the only thread that may be inside a handler.
LEMMA OnlyOne ==
  ASSUME Chain, NEW a \in Actors, Busy(a)
  PROVE  Local(a) /\ inbox = << >> /\ events # 0 /\ \A b \in Actors \ {a} : ~Busy(b)
BY DEF Chain, OneAtATime

\* The facts to check after a step that leaves at most one thread c inside a handler.
LEMMA OneLeft ==
  ASSUME NEW c \in Actors, \A b \in Actors \ {c} : ~Busy(b)', Busy(c)' => Local(c)', Shared',
         inbox' # << >> => Len(inbox') = 1 /\ ~Busy(c)', events' # 0
  PROVE  Chain'
<1>1. OneAtATime'
  BY DEF OneAtATime
<1>2. \A a \in Actors : Busy(a)' => Local(a)'
  OBVIOUS
<1> QED
  BY <1>1, <1>2 DEF Chain

\* A step of the thread that is inside a handler takes no other into one, but
\* for the thread whose exception it handled.
LEMMA Alone ==
  ASSUME TypeOK, NEW a \in Actors, \A b \in Actors \ {a} : ~Busy(b),
         Step(a) \/ HandlerFault(a) \/ (a \in AppThreads /\ (Event(a) \/ CloseSDK(a) \/ StartSDK(a))),
         ~(Leave(a) /\ kind[a] = "mach")
  PROVE  \A b \in Actors \ {a} : ~Busy(b)'
<1>0. /\ pc \in [Actors -> Labels] /\ kind \in [Actors -> Kinds]
      /\ {"gone", "waiting"} \subseteq Idle
  BY DEF TypeOK, Labels, Kinds, Idle
<1>1. CASE \/ UNCHANGED <<pc, kind>> \/ (\E l \in Labels : Goto(a, l) /\ UNCHANGED kind)
           \/ (\E k \in Kinds : Enter(a, k))
  BY <1>0, <1>1 DEF Goto, Enter, Busy
<1>2. CASE \E l \in Labels : Disarm(a, l) /\ UNCHANGED kind
  BY <1>0, <1>2 DEF Disarm, Busy
<1>3. CASE Activate(a)
  <2>1. CASE Goto(a, "informing")
    BY <1>0, <2>1 DEF Goto, Busy
  <2>2. CASE a = Primary /\ a \in known
    BY <1>0, <1>3, <2>2, ActorsAre DEF Activate, Busy
  <2> QED
    BY <1>3, <2>1, <2>2 DEF Activate
<1>4. CASE Leave(a) /\ kind[a] # "mach"
  BY <1>0, <1>4 DEF Leave, Goto, Enter, Busy
<1> QED
  BY <1>1, <1>2, <1>3, <1>4, MovesOfSteps

\* At rest, everything is as at the start.
LEMMA InitChain == Init => Chain
<1> SUFFICES ASSUME Init PROVE Chain
  OBVIOUS
<1>1. \A a \in Actors : ~Busy(a)
  BY DEF Init, Busy, Idle
<1>2. OneAtATime
  BY <1>1 DEF Init, OneAtATime
<1>3. Shared
  <2>1. DOMAIN files = {} /\ armed = Monitors /\ ~crashedDuring /\ ~handling /\ lastPath < nextReport
    BY DEF Init
  <2> QED
    BY <2>1 DEF Shared, OldExists, Monitors
<1> QED
  BY <1>1, <1>2, <1>3 DEF Chain

\* Steps that change nothing the chain is about.
LEMMA SameChain ==
  ASSUME Chain, UNCHANGED <<events, faults, armed, port, inbox, flagVars, pc, kind, recrash, path,
                            inode, files, content, lastPath, nextReport>>
  PROVE  Chain'
<1>1. UNCHANGED <<handling, crashedDuring>> /\ (OldExists' <=> OldExists)
  BY DEF flagVars, OldExists
<1>2. \A a \in Actors : (Busy(a)' <=> Busy(a)) /\ (Local(a)' <=> Local(a))
  BY <1>1 DEF Busy, Local, Json, Old
<1>3. OneAtATime' /\ Shared'
  BY <1>1, <1>2 DEF Chain, OneAtATime, Shared
<1> QED
  BY <1>2, <1>3 DEF Chain

\* The event: nothing was going on before.
LEMMA EventChain ==
  ASSUME TypeOK, Chain, NEW t \in AppThreads, Event(t), events' <= 1
  PROVE  Chain'
<1>0. t \in Actors /\ pc \in [Actors -> Labels] /\ kind \in [Actors -> Kinds] /\ budget.events \in Nat
  BY ActorsAre, BudgetType DEF TypeOK, Labels, Kinds
<1>1. events = 0 /\ events' = 1
  BY <1>0 DEF Event, TypeOK
<1>2. inbox = << >> /\ ~handling /\ ~crashedDuring /\ \A a \in Actors : ~Busy(a)
  BY <1>1 DEF Chain, OneAtATime
<1>3. /\ UNCHANGED <<armed, port, handling, crashedDuring, faults, files, lastPath, nextReport>>
      /\ \/ pc'[t] = "blocked" /\ inbox' = Append(inbox, t)
         \/ pc'[t] \in {"signalled", "entered"} /\ inbox' = inbox
      /\ \A b \in Actors \ {t} : pc'[b] = pc[b]
  BY <1>0 DEF Event, flagVars, diskVars, RaiseException, Goto, Enter
<1>4. Shared' /\ ~OldExists'
  BY <1>2, <1>3 DEF Chain, Shared, OldExists
<1>5. Busy(t)' => Local(t)'
  BY <1>2, <1>3, <1>4 DEF Busy, Local, Before, Middle, FaultPoints, Reporting, HasFile
<1>6. \A b \in Actors \ {t} : ~Busy(b)'
  BY <1>2, <1>3 DEF Busy
<1>7. inbox' # << >> => Len(inbox') = 1 /\ ~Busy(t)'
  BY <1>0, <1>2, <1>3 DEF Busy
<1> QED
  BY <1>0, <1>1, <1>4, <1>5, <1>6, <1>7, OneLeft

\* An exception thread takes the one fault there is from the inbox.
LEMMA ReceiveChain ==
  ASSUME TypeOK, Chain, NEW a \in Actors, Receive(a)
  PROVE  Chain'
<1>0. pc \in [Actors -> Labels] /\ kind \in [Actors -> Kinds]
  BY DEF TypeOK, Labels, Kinds
<1>1. inbox # << >> /\ Len(inbox) = 1 /\ inbox \in Seq(Actors) /\ \A b \in Actors : ~Busy(b)
  BY DEF Receive, Chain, OneAtATime, TypeOK
<1>2. inbox' = << >>
  BY <1>1 DEF Receive
<1>3. ~crashedDuring /\ ~OldExists /\ ~(handling /\ faults = 0) /\ events # 0
  BY <1>1 DEF Chain, Shared, OneAtATime
<1>4. /\ UNCHANGED <<armed, port, handling, crashedDuring, events, faults, files, lastPath, nextReport>>
      /\ pc'[a] = "entered" /\ kind'[a] = "mach" /\ \A b \in Actors \ {a} : pc'[b] = pc[b]
  BY <1>0 DEF Receive, flagVars, diskVars, processVars, Goto, Enter
<1>5. Shared' /\ ~OldExists'
  BY <1>2, <1>3, <1>4 DEF Chain, Shared, OldExists
<1>6. Local(a)'
  BY <1>3, <1>4, <1>5 DEF Local, Before, Middle, FaultPoints, Reporting, HasFile
<1>7. \A b \in Actors \ {a} : ~Busy(b)'
  BY <1>1, <1>4 DEF Busy
<1> QED
  BY <1>2, <1>3, <1>4, <1>5, <1>6, <1>7, OneLeft

\* Closing the SDK disarms the monitors, and may stop an exception thread.
LEMMA CloseChain ==
  ASSUME TypeOK, Chain, NEW t \in AppThreads, CloseSDK(t)
  PROVE  Chain'
<1>0. t \in Actors /\ pc \in [Actors -> Labels] /\ pc[t] = "app" /\ {"gone", "app"} \subseteq Idle
  BY ActorsAre DEF TypeOK, Labels, CloseSDK, At, Idle
<1>1. /\ UNCHANGED <<inbox, handling, crashedDuring, kind, recrash, path, inode, events, faults,
                     files, content, lastPath, nextReport>>
      /\ armed' = {} /\ port' = IF "mach" \in armed THEN "previous" ELSE port
      /\ \A b \in Actors : pc'[b] = pc[b] \/ pc'[b] = "gone"
  BY <1>0 DEF CloseSDK, flagVars, diskVars, Disarm
<1>2. OldExists' <=> OldExists
  BY <1>1 DEF OldExists
<1>3. \A b \in Actors : Busy(b)' => Busy(b) /\ pc'[b] = pc[b]
  BY <1>0, <1>1 DEF Busy
<1>4. \A b \in Actors : Busy(b)' => Local(b)'
  <2> SUFFICES ASSUME NEW b \in Actors, Busy(b)' PROVE Local(b)'
    OBVIOUS
  <2>1. pc'[b] = pc[b] /\ Local(b)
    BY <1>3 DEF Chain
  <2> QED
    BY <1>1, <1>2, <2>1 DEF Local, Json, Old
<1>5. OneAtATime'
  BY <1>1, <1>3 DEF Chain, OneAtATime
<1>6. Shared'
  BY <1>1, <1>2 DEF Chain, Shared, Monitors
<1> QED
  BY <1>4, <1>5, <1>6 DEF Chain

\* A step of the handler that moves only the thread itself, and files nothing.
LEMMA ControlChain ==
  ASSUME Chain, TypeOK, NEW a \in Actors, Busy(a), Step(a) \/ HandlerFault(a), ~Leave(a),
         UNCHANGED <<path, recrash, inode, files, content, lastPath, nextReport, events>>,
         inbox' # << >> => Len(inbox') = 1 /\ ~Busy(a)',
         Shared',
         Busy(a)' => pc'[a] \notin Reporting /\ Local(a)'
  PROVE  Chain'
<1>1. \A b \in Actors \ {a} : ~Busy(b)'
  BY Alone, OnlyOne
<1> QED
  BY <1>1, OnlyOne, OneLeft

\* A signal is handled only while the monitors are armed, so by the first handler
\* or after a fault that is not in the crash handling itself.
LEMMA SignalChain ==
  ASSUME Chain, TypeOK, NEW a \in Actors, TakeSignal(a)
  PROVE  Chain'
<1>0. /\ pc \in [Actors -> Labels] /\ kind \in [Actors -> Kinds] /\ pc[a] = "signalled" /\ Busy(a)
  BY DEF TypeOK, Labels, Kinds, TakeSignal, At, Busy, Idle
<1>1. /\ UNCHANGED <<inbox, handling, crashedDuring, path, recrash, inode, files, content, armed, port,
                     lastPath, nextReport, events, faults>>
      /\ \/ UNCHANGED <<pc, kind>>
         \/ "signal" \in armed /\ Enter(a, "signal")
  BY DEF TakeSignal, monitorVars, flagVars, diskVars
<1>2. CASE UNCHANGED <<pc, kind>>
  BY <1>1, <1>2, SameChain DEF flagVars
<1>3. CASE "signal" \in armed /\ Enter(a, "signal")
  <2>1. ~crashedDuring /\ ~(handling /\ faults = 0) /\ inbox = << >>
    <3>1. \A b \in Actors : pc[b] # "flagging"
      BY <1>0, OnlyOne DEF Busy, Idle
    <3> QED
      BY <1>0, <1>3, <3>1, OnlyOne DEF Chain, Shared, Local
  <2>2. pc'[a] = "entered" /\ kind'[a] = "signal"
    BY <1>0, <1>3 DEF Enter, Goto
  <2>3. Shared' /\ (OldExists' <=> OldExists) /\ ~OldExists
    BY <1>1, <2>1 DEF Chain, Shared, OldExists
  <2>4. Local(a)' /\ pc'[a] \notin Reporting
    BY <1>1, <2>1, <2>2, <2>3 DEF Local, Before, Middle, FaultPoints, Reporting, HasFile
  <2>5. ~Leave(a) /\ Step(a)
    BY <1>0 DEF Leave, At, Step
  <2> QED
    BY <1>0, <1>1, <2>1, <2>3, <2>4, <2>5, ControlChain
<1> QED
  BY <1>1, <1>2, <1>3

\* A fault ends a handler: the thread waits for the exception thread, or takes a signal.
LEMMA FaultChain ==
  ASSUME Chain, TypeOK, NEW a \in Actors, HandlerFault(a)
  PROVE  Chain'
<1>0. /\ pc \in [Actors -> Labels] /\ kind \in [Actors -> Kinds] /\ pc[a] \in FaultPoints /\ Busy(a)
      /\ faults \in Nat
  BY BudgetType DEF TypeOK, Labels, Kinds, HandlerFault, Busy, Idle, FaultPoints
<1>1. /\ UNCHANGED <<handling, crashedDuring, kind, path, recrash, inode, files, content, armed, port,
                     lastPath, nextReport, events>>
      /\ faults' = faults + 1 /\ RaiseException(a)
  BY DEF HandlerFault, flagVars, diskVars
<1>2. inbox = << >> /\ Local(a) /\ \A b \in Actors : pc[b] # "flagging"
  BY <1>0, OnlyOne DEF Busy, Idle, FaultPoints
<1>3. crashedDuring => armed = {} /\ port = "previous"
  BY <1>2 DEF Chain, Shared
<1>4. \/ port = "ours" /\ inbox' = Append(inbox, a) /\ pc'[a] = "blocked"
      \/ inbox' = inbox /\ pc'[a] = "signalled"
  BY <1>0, <1>1 DEF RaiseException, Goto
<1>5. inbox' # << >> => Len(inbox') = 1 /\ ~Busy(a)' /\ ~crashedDuring
  BY <1>2, <1>3, <1>4 DEF Busy
<1>6. faults' # 0 /\ faults' >= 1
  BY <1>0, <1>1
<1>7. Shared' /\ (OldExists' <=> OldExists)
  BY <1>1, <1>2, <1>3, <1>5, <1>6 DEF Chain, Shared, OldExists
<1>8. Busy(a)' => pc'[a] \notin Reporting /\ Local(a)'
  BY <1>1, <1>4, <1>6 DEF Busy, Local, Before, Middle, FaultPoints, Reporting, HasFile
<1>9. ~Leave(a)
  BY <1>0 DEF Leave, At, FaultPoints
<1> QED
  BY <1>0, <1>1, <1>5, <1>7, <1>8, <1>9, ControlChain

\* Suspending and resuming moves only the handler.
LEMMA SuspensionChain ==
  ASSUME Chain, TypeOK, NEW a \in Actors, Check(a) \/ Suspended(a) \/ Resumed(a)
  PROVE  Chain'
<1>0. /\ pc \in [Actors -> Labels] /\ pc[a] \in {"entered", "suspending", "resuming"} /\ Busy(a)
  BY DEF TypeOK, Labels, Check, Suspended, Resumed, At, Busy, Idle
<1>1. /\ UNCHANGED <<handling, crashedDuring, kind, path, recrash, inode, files, content, armed, port, inbox,
                     lastPath, nextReport, events, faults>>
  BY DEF Check, Suspended, Resumed, monitorVars, flagVars, diskVars, processVars
<1>2. \/ pc[a] = "entered" /\ pc'[a] \in {"app", "suspending", "announcing"}
      \/ pc[a] = "entered" /\ pc'[a] = "leaving"
      \/ pc[a] = "suspending" /\ pc'[a] = IF kind[a] = "objc" THEN "resuming" ELSE "announcing"
      \/ pc[a] = "resuming" /\ pc'[a] = "leaving"
  BY <1>0 DEF Check, Suspended, Resumed, At, Goto
<1>3. pc[a] = "entered" /\ pc'[a] = "announcing" => kind[a] # "objc"
  BY <1>0 DEF Check, Suspended, Resumed, At, Goto, Suspends
<1>4. pc[a] # "flagging" /\ Local(a) /\ inbox = << >>
  BY <1>0, OnlyOne
<1>5. Shared' /\ (OldExists' <=> OldExists)
  <2>1. \A b \in Actors \ {a} : ~Busy(b)
    BY <1>0, OnlyOne
  <2>2. crashedDuring => armed = {}
    BY <1>4, <2>1 DEF Chain, Shared, Busy, Idle
  <2> QED
    BY <1>1, <1>4, <2>2 DEF Chain, Shared, OldExists
<1>6. Busy(a)' => pc'[a] \notin Reporting /\ Local(a)'
  BY <1>1, <1>2, <1>3, <1>4, <1>5 DEF Busy, Local, Before, Middle, FaultPoints, Reporting, HasFile
<1>7. ~Leave(a) /\ Step(a)
  BY <1>0 DEF Leave, At, Step
<1> QED
  BY <1>0, <1>1, <1>4, <1>5, <1>6, <1>7, ControlChain

\* A handler is the second to announce a crash only after the first one faulted.
LEMMA AnnounceChain ==
  ASSUME Chain, TypeOK, NEW a \in Actors, Announce(a)
  PROVE  Chain'
<1>0. /\ pc \in [Actors -> Labels] /\ pc[a] = "announcing" /\ Busy(a) /\ faults \in Nat
      /\ crashedDuring \in BOOLEAN /\ handling \in BOOLEAN
  BY BudgetType DEF TypeOK, Labels, Announce, At, Busy, Idle
<1>1. /\ UNCHANGED <<handling, kind, path, recrash, inode, files, content, armed, port, inbox,
                     lastPath, nextReport, events, faults>>
  BY DEF Announce, monitorVars, diskVars, processVars
<1>2. Local(a) /\ inbox = << >> /\ ~crashedDuring /\ ~OldExists
  BY <1>0, OnlyOne DEF Local, Before, Chain, Shared
<1>3. \/ pc'[a] = "flagging" /\ crashedDuring' = handling
      \/ pc'[a] = "informing" /\ ~crashedDuring'
  BY <1>0, <1>2 DEF Announce, Goto
<1>4. crashedDuring' => faults >= 1 /\ kind[a] \in {"mach", "signal"} /\ pc'[a] = "flagging"
  <2>1. handling => faults # 0 /\ kind[a] \in {"mach", "signal"}
    BY <1>0, <1>2 DEF Local, Before
  <2>2. faults # 0 => faults >= 1
    BY <1>0
  <2> QED
    BY <1>0, <1>3, <2>1, <2>2
<1>5. Shared' /\ ~OldExists'
  BY <1>1, <1>2, <1>3, <1>4 DEF Chain, Shared, OldExists
<1>6. Busy(a)' => pc'[a] \notin Reporting /\ Local(a)'
  <2>1. kind'[a] # "objc" /\ pc'[a] \in {"flagging", "informing"}
    BY <1>0, <1>1, <1>2, <1>3 DEF Local, Middle
  <2>2. pc'[a] \notin Before \cup Reporting \cup {"resuming", "leaving", "signalled"}
    BY <2>1 DEF Before, Reporting, HasFile
  <2> QED
    BY <1>1, <1>4, <1>5, <2>1, <2>2 DEF Local, Reporting, HasFile
<1>7. ~Leave(a) /\ Step(a)
  BY <1>0 DEF Leave, At, Step
<1> QED
  BY <1>0, <1>1, <1>2, <1>5, <1>6, <1>7, ControlChain

\* Disarming leaves nothing armed, and the exceptions to the previous ports.
LEMMA DisarmChain ==
  ASSUME TypeOK, Chain, NEW a \in Actors, NEW next \in Labels, Disarm(a, next)
  PROVE  armed' = {} /\ port' = "previous" /\ pc'[a] = next
<1>1. armed = {} \/ "mach" \in armed
  BY DEF Chain, Shared, Monitors
<1> QED
  BY <1>1 DEF Disarm, Chain, Shared

\* A handler that starts over disarms the monitors before it reports.
LEMMA FlagChain ==
  ASSUME Chain, TypeOK, NEW a \in Actors, Flag(a) \/ Activate(a)
  PROVE  Chain'
<1>0. /\ pc \in [Actors -> Labels] /\ pc[a] \in {"flagging", "activating"} /\ Busy(a)
      /\ {"activating", "informing"} \subseteq Labels /\ Secondary \in Actors
  BY ActorsAre DEF TypeOK, Labels, FaultPoints, Flag, Activate, At, Busy, Idle
<1>1. /\ UNCHANGED <<crashedDuring, kind, path, recrash, inode, files, content, inbox,
                     lastPath, nextReport, events, faults>>
  BY DEF Flag, Activate, flagVars, diskVars, processVars
<1>2. Local(a) /\ inbox = << >> /\ ~OldExists /\ kind[a] # "objc" /\ \A b \in Actors \ {a} : pc[b] # "flagging"
  BY <1>0, OnlyOne DEF Local, Busy, Idle, Middle
<1>3. /\ pc'[a] \in {"activating", "informing"}
      /\ \/ UNCHANGED <<armed, port>> /\ (pc[a] = "flagging" => ~crashedDuring)
         \/ armed' = {} /\ port' = "previous"
         \/ armed' = armed /\ port' = "previous" /\ pc[a] = "activating"
  <2>1. CASE Flag(a)
    BY <1>0, <2>1, DisarmChain DEF Flag, Goto
  <2>2. CASE Activate(a)
    BY <1>0, <2>2, ActorsAre DEF Activate, At, Goto
  <2> QED
    BY <2>1, <2>2
<1>4. crashedDuring => armed' = {}
  BY <1>0, <1>2, <1>3 DEF Chain, Shared
<1>5. Shared' /\ ~OldExists'
  BY <1>1, <1>2, <1>3, <1>4 DEF Chain, Shared, OldExists
<1>6. Busy(a)' => pc'[a] \notin Reporting /\ Local(a)'
  <2>1. pc'[a] \notin Before \cup Reporting \cup {"resuming", "leaving", "signalled"}
    BY <1>3 DEF Before, Reporting, HasFile
  <2>2. crashedDuring' => kind'[a] \in {"mach", "signal"}
    BY <1>0, <1>1, <1>2 DEF Local
  <2> QED
    BY <1>1, <1>2, <1>3, <1>5, <2>1, <2>2 DEF Local, Reporting, HasFile
<1>7. ~Leave(a) /\ Step(a)
  BY <1>0 DEF Leave, At, Step
<1> QED
  BY <1>0, <1>1, <1>2, <1>5, <1>6, <1>7, ControlChain

\* A handler that announced a crash has disarmed the monitors when it is over.
LEMMA EndChain ==
  ASSUME Chain, TypeOK, NEW a \in Actors, End(a)
  PROVE  Chain'
<1>0. /\ pc \in [Actors -> Labels] /\ pc[a] = "ending" /\ Busy(a)
      /\ {"resuming", "leaving"} \subseteq Labels
      /\ crashedDuring \in BOOLEAN /\ handling \in BOOLEAN
  BY DEF TypeOK, Labels, End, At, Busy, Idle
<1>1. /\ UNCHANGED <<crashedDuring, kind, path, recrash, inode, files, content, inbox,
                     lastPath, nextReport, events, faults>>
  BY DEF End, diskVars, processVars
<1>2. Local(a) /\ inbox = << >> /\ kind[a] # "objc" /\ \A b \in Actors : pc[b] # "flagging"
  BY <1>0, OnlyOne DEF Local, Busy, Idle, Middle
<1>3. /\ pc'[a] \in {"resuming", "leaving"} /\ (handling' => handling /\ kind[a] # "snapshot")
      /\ \/ UNCHANGED <<armed, port>> /\ ~(kind[a] # "snapshot" /\ handling /\ ~crashedDuring)
         \/ armed' = {} /\ port' = "previous"
  <2>1. PICK next \in {"resuming", "leaving"} :
           IF kind[a] # "snapshot" /\ handling /\ ~crashedDuring
           THEN Disarm(a, next)
           ELSE Goto(a, next) /\ UNCHANGED <<armed, port, known>>
    BY DEF End
  <2>2. handling' => handling /\ kind[a] # "snapshot"
    BY DEF End
  <2> QED
    BY <1>0, <2>1, <2>2, DisarmChain DEF Goto
<1>4. crashedDuring => armed = {} /\ armed' = {} /\ faults # 0
  <2>1. crashedDuring => armed = {} /\ faults >= 1
    BY <1>2 DEF Chain, Shared
  <2> QED
    BY <1>3, <2>1
<1>5. Shared' /\ (OldExists' <=> OldExists)
  BY <1>1, <1>2, <1>3, <1>4 DEF Chain, Shared, OldExists
<1>6. Busy(a)' => pc'[a] \notin Reporting /\ Local(a)'
  <2>1. pc'[a] \notin Before \cup Reporting \cup Middle /\ pc'[a] # "signalled"
    BY <1>3 DEF Before, Reporting, HasFile, Middle, FaultPoints
  <2>2. crashedDuring' => kind'[a] \in {"mach", "signal"}
    BY <1>0, <1>1, <1>2 DEF Local
  <2>3. handling' /\ faults' = 0 => armed' = {}
    BY <1>1, <1>3, <1>4
  <2> QED
    BY <1>1, <1>2, <1>3, <1>5, <2>1, <2>2, <2>3 DEF Local, Reporting, HasFile, Middle, FaultPoints
<1>7. ~Leave(a) /\ Step(a)
  BY <1>0 DEF Leave, At, Step
<1> QED
  BY <1>0, <1>1, <1>2, <1>5, <1>6, <1>7, ControlChain

\* What a handler returns to: the app, a signal, the handler for uncaught
\* exceptions, or the signal of the thread whose exception it handled.
LEMMA LeaveChain ==
  ASSUME Chain, TypeOK, NEW a \in Actors, Leave(a)
  PROVE  Chain'
<1>0. /\ pc \in [Actors -> Labels] /\ kind \in [Actors -> Kinds] /\ pc[a] = "leaving" /\ Busy(a)
  BY DEF TypeOK, Labels, Kinds, Leave, At, Busy, Idle
<1>1. /\ UNCHANGED <<handling, crashedDuring, path, recrash, inode, files, content, armed, port, inbox,
                     lastPath, nextReport, events, faults>>
  BY DEF Leave, monitorVars, flagVars, diskVars, processVars
<1>2. /\ Local(a) /\ inbox = << >> /\ events # 0 /\ \A b \in Actors \ {a} : ~Busy(b)
      /\ \A b \in Actors : pc[b] # "flagging"
  BY <1>0, OnlyOne DEF Busy, Idle
<1>3. Shared' /\ (OldExists' <=> OldExists)
  BY <1>1, <1>2 DEF Chain, Shared, OldExists
<1>4. crashedDuring => kind[a] \in {"mach", "signal"}
  BY <1>0, <1>2 DEF Local
<1>5. handling /\ faults = 0 => armed = {}
  BY <1>0, <1>2 DEF Local
<1>6. CASE kind[a] # "mach"
  <2>1. \A b \in Actors \ {a} : ~Busy(b)'
    <3>1. Step(a)
      BY DEF Step
    <3> QED
      BY <1>2, <1>6, <3>1, Alone
  <2>2. \/ pc'[a] \in {"signalled", "app"} /\ kind' = kind
        \/ pc'[a] = "entered" /\ kind'[a] = "nsexc" /\ kind[a] = "objc"
    BY <1>0, <1>6 DEF Leave, Goto, Enter
  <2>3. Busy(a)' => Local(a)'
    <3>1. CASE pc'[a] \in {"signalled", "app"} /\ kind' = kind
      BY <1>1, <1>3, <1>4, <1>5, <3>1 DEF Busy, Idle, Local, Before, Middle, FaultPoints, Reporting, HasFile
    <3>2. CASE pc'[a] = "entered" /\ kind'[a] = "nsexc" /\ kind[a] = "objc"
      <4>1. ~crashedDuring /\ ~handling
        BY <1>0, <1>2, <3>2 DEF Local
      <4> QED
        BY <1>1, <1>3, <3>2, <4>1 DEF Local, Before, Middle, FaultPoints, Reporting, HasFile
    <3> QED
      BY <2>2, <3>1, <3>2
  <2> QED
    BY <1>1, <1>2, <1>3, <2>1, <2>3, OneLeft
<1>7. CASE kind[a] = "mach"
  <2>1. pc' = [pc EXCEPT ![a] = "gone", ![sender[a]] = "signalled"] /\ kind' = kind
    BY <1>7 DEF Leave
  <2>2. PICK c \in Actors : /\ \A b \in Actors \ {c} : pc'[b] \in {pc[b], "gone"} /\ (b = a => pc'[b] = "gone")
                            /\ pc'[c] = "signalled" \/ (c = a /\ pc'[c] = "gone")
    <3>1. CASE sender[a] \in Actors
      BY <1>0, <2>1, <3>1
    <3>2. CASE sender[a] \notin Actors
      BY <1>0, <2>1, <3>2
    <3> QED
      BY <3>1, <3>2
  <2>3. \A b \in Actors \ {c} : ~Busy(b)'
    BY <1>2, <2>2 DEF Busy, Idle
  <2>4. Busy(c)' => Local(c)'
    <3>1. Busy(c)' => pc'[c] = "signalled"
      BY <2>2 DEF Busy, Idle
    <3> QED
      BY <1>1, <1>3, <1>5, <3>1 DEF Local, Before, Middle, FaultPoints, Reporting, HasFile
  <2> QED
    BY <1>1, <1>2, <1>3, <2>3, <2>4, OneLeft
<1> QED
  BY <1>6, <1>7

\* The facts that the writing of a report keeps.
LEMMA ReportChain ==
  ASSUME Chain, TypeOK, NEW a \in Actors, Busy(a), Step(a), pc[a] \in FaultPoints,
         UNCHANGED <<armed, port, inbox, handling, crashedDuring, kind, events, faults>>,
         pc'[a] \in FaultPoints \cup {"ending"},
         lastPath' < nextReport',
         \A n \in DOMAIN files' : n \in Nat \X {"json", "old"} /\ n[1] < nextReport',
         OldExists' => crashedDuring,
         OldExists' => pc'[a] \notin {"informing", "opening"},
         pc'[a] \in Reporting => recrash'[a] = crashedDuring /\ path'[a] = lastPath' /\ (~crashedDuring => lastPath' # 0),
         pc'[a] = "opening" /\ ~crashedDuring => Json(a)' \notin DOMAIN files',
         pc'[a] \in HasFile => Json(a)' \in DOMAIN files' /\ files'[Json(a)'] = inode'[a],
         pc'[a] = "removing" /\ Old(a)' \in DOMAIN files' =>
            content'[files'[Old(a)']] \subseteq content'[inode'[a]]
  PROVE  Chain'
<1>1. /\ Local(a) /\ inbox = << >> /\ events # 0 /\ \A b \in Actors \ {a} : ~Busy(b)
      /\ \A b \in Actors : pc[b] # "flagging"
  BY OnlyOne DEF Busy, Idle, FaultPoints
<1>2. \A b \in Actors \ {a} : ~Busy(b)'
  <2>1. ~Leave(a)
    BY DEF Leave, At, FaultPoints
  <2> QED
    BY <1>1, <2>1, Alone
<1>3. Shared'
  BY <1>1 DEF Chain, Shared
<1>4. Local(a)'
  <2>1. kind[a] # "objc" /\ (crashedDuring => kind[a] \in {"mach", "signal"})
    BY <1>1 DEF Local, Middle, FaultPoints
  <2>2. /\ pc'[a] \notin Before \cup {"resuming", "leaving", "signalled", "flagging", "activating"}
        /\ crashedDuring' = crashedDuring /\ kind'[a] = kind[a]
    BY DEF Before, FaultPoints
  <2> QED
    BY <2>1, <2>2 DEF Local
<1> QED
  BY <1>1, <1>2, <1>3, <1>4, OneLeft

\* The path of a first report is fresh.
LEMMA BeginChain ==
  ASSUME Chain, TypeOK, NEW a \in Actors, BeginReport(a)
  PROVE  Chain'
<1>0. /\ pc[a] = "informing" /\ pc'[a] = "opening" /\ Busy(a) /\ Step(a)
      /\ lastPath \in Nat /\ nextReport \in Nat
  BY DEF TypeOK, BeginReport, At, Goto, Busy, Idle, Step
<1>1. /\ UNCHANGED <<armed, port, inbox, handling, crashedDuring, kind, events, faults, files, content>>
      /\ recrash'[a] = crashedDuring /\ path'[a] = lastPath'
      /\ \/ crashedDuring /\ UNCHANGED <<lastPath, nextReport>>
         \/ ~crashedDuring /\ lastPath' = nextReport /\ nextReport' = nextReport + 1
  BY DEF TypeOK, BeginReport, monitorVars, flagVars, processVars
<1>2. /\ lastPath < nextReport /\ ~OldExists
      /\ \A n \in DOMAIN files : n \in Nat \X {"json", "old"} /\ n[1] < nextReport
  BY <1>0, OnlyOne DEF Chain, Shared, Local
<1>3. \A n \in DOMAIN files' : n \in Nat \X {"json", "old"} /\ n[1] < nextReport' /\ (~crashedDuring => n[1] < lastPath')
  BY <1>0, <1>1, <1>2
<1>4. /\ lastPath' < nextReport' /\ (~crashedDuring => lastPath' # 0) /\ ~OldExists'
  BY <1>0, <1>1, <1>2 DEF OldExists
<1>5. ~crashedDuring => Json(a)' \notin DOMAIN files'
  BY <1>0, <1>1, <1>3 DEF Json
<1>6. pc'[a] \notin HasFile /\ pc[a] \in FaultPoints /\ pc'[a] \in FaultPoints
  BY <1>0 DEF HasFile, FaultPoints
<1> QED
  BY <1>0, <1>1, <1>3, <1>4, <1>5, <1>6, ReportChain

\* A report is moved aside only by a handler that starts over.
LEMMA OpenChain ==
  ASSUME Chain, TypeOK, NEW a \in Actors, OpenReport(a)
  PROVE  Chain'
<1> DEFINE renamed == IF recrash[a] /\ Json(a) \in DOMAIN files
                      THEN [n \in (DOMAIN files \ {Json(a)}) \cup {Old(a)} |->
                               files[IF n = Old(a) THEN Json(a) ELSE n]]
                      ELSE files
<1>0. /\ pc[a] = "opening" /\ Busy(a) /\ Step(a) /\ path[a] \in Nat
  BY DEF TypeOK, OpenReport, At, Busy, Idle, Step
<1>1. /\ UNCHANGED <<armed, port, inbox, handling, crashedDuring, kind, recrash, path, events, faults,
                     lastPath, nextReport>>
  BY DEF OpenReport, monitorVars, flagVars, processVars
<1>2. /\ lastPath < nextReport /\ ~OldExists
      /\ \A n \in DOMAIN files : n \in Nat \X {"json", "old"} /\ n[1] < nextReport
      /\ recrash[a] = crashedDuring /\ path[a] = lastPath /\ (~crashedDuring => lastPath # 0)
  BY <1>0, OnlyOne DEF Chain, Shared, Local, Reporting
<1>3. /\ \A n \in DOMAIN renamed : n \in DOMAIN files \/ (n = Old(a) /\ crashedDuring)
  BY <1>2
<1> HIDE DEF renamed
<1>4. /\ pc'[a] \in {"ending", "embedding", "writing"}
      /\ \A n \in DOMAIN files' : n \in DOMAIN renamed \/ n = Json(a)
      /\ pc'[a] \in HasFile => Json(a) \in DOMAIN files' /\ files'[Json(a)] = inode'[a]
  <2>1. inode \in [Actors -> Nat] /\ pc \in [Actors -> Labels]
    BY DEF TypeOK, Labels
  <2>2. CASE Goto(a, "ending") /\ files' = renamed
    BY <2>1, <2>2 DEF Goto, HasFile
  <2>3. CASE /\ \E label \in {"embedding", "writing"} : Goto(a, label)
             /\ files' = [n \in DOMAIN renamed \cup {Json(a)} |->
                           IF n = Json(a) THEN Len(content) + 1 ELSE renamed[n]]
             /\ inode' = [inode EXCEPT ![a] = Len(content) + 1]
    BY <2>1, <2>3 DEF Goto, HasFile
  <2> QED
    BY <2>2, <2>3 DEF OpenReport, renamed
<1>5. /\ \A n \in DOMAIN files' : n \in Nat \X {"json", "old"} /\ n[1] < nextReport'
      /\ OldExists' => crashedDuring
  BY <1>0, <1>1, <1>2, <1>3, <1>4 DEF Json, Old, OldExists
<1>6. /\ pc[a] \in FaultPoints /\ pc'[a] \in FaultPoints \cup {"ending"}
      /\ pc'[a] \notin {"opening", "informing", "removing"}
      /\ Json(a)' = Json(a)
  BY <1>0, <1>1, <1>4 DEF FaultPoints, Json
<1> QED
  BY <1>0, <1>1, <1>2, <1>4, <1>5, <1>6, ReportChain

\* What was moved aside is in the new report before it is removed.
LEMMA EmbedChain ==
  ASSUME Chain, TypeOK, NInv, NEW a \in Actors, Embed(a) \/ RemoveOld(a) \/ Write(a)
  PROVE  Chain'
<1>0. /\ pc[a] \in HasFile /\ Busy(a) /\ Step(a) /\ path[a] \in Nat
      /\ pc \in [Actors -> Labels]
  BY DEF TypeOK, Labels, Embed, RemoveOld, Write, At, Busy, Idle, HasFile, Step
<1>1. /\ UNCHANGED <<armed, port, inbox, handling, crashedDuring, kind, recrash, path, inode, events, faults,
                     lastPath, nextReport>>
  BY DEF Embed, RemoveOld, Write, monitorVars, flagVars, processVars
<1>2. /\ lastPath < nextReport /\ (OldExists => crashedDuring)
      /\ \A n \in DOMAIN files : n \in Nat \X {"json", "old"} /\ n[1] < nextReport
      /\ recrash[a] = crashedDuring /\ path[a] = lastPath /\ (~crashedDuring => lastPath # 0)
      /\ Json(a) \in DOMAIN files /\ files[Json(a)] = inode[a]
  BY <1>0, OnlyOne DEF Chain, Shared, Local, Reporting
<1>3. /\ pc'[a] \in {"removing", "writing", "closing", "ending"}
      /\ pc'[a] = "removing" => Embed(a)
  BY <1>0 DEF Embed, RemoveOld, Write, Goto
<1>4. /\ \A n \in DOMAIN files' : n \in DOMAIN files
      /\ Json(a) \in DOMAIN files' /\ files'[Json(a)] = files[Json(a)]
  BY <1>2 DEF Embed, RemoveOld, Write, Json, Old
<1>5. OldExists' => OldExists
  BY <1>4 DEF OldExists
<1>6. Embed(a) /\ Old(a) \in DOMAIN files => content'[files[Old(a)]] \subseteq content'[inode[a]]
  <2> SUFFICES ASSUME Embed(a), Old(a) \in DOMAIN files
               PROVE  content'[files[Old(a)]] \subseteq content'[inode[a]]
    OBVIOUS
  <2>1. /\ inode[a] \in DOMAIN content
        /\ content' = [content EXCEPT ![inode[a]] = content[inode[a]] \cup content[files[Old(a)]]]
    BY <1>0 DEF Embed, NInv, FilesExist
  <2> QED
    BY <2>1
<1>7. Embed(a) => files' = files
  BY DEF Embed
<1>8. /\ pc[a] \in FaultPoints /\ pc'[a] \in FaultPoints \cup {"ending"}
      /\ pc'[a] \notin {"opening", "informing"}
      /\ Json(a)' = Json(a) /\ Old(a)' = Old(a)
  BY <1>0, <1>1, <1>3 DEF FaultPoints, HasFile, Json, Old
<1>9. pc'[a] = "removing" /\ Old(a) \in DOMAIN files' => content'[files'[Old(a)]] \subseteq content'[inode[a]]
  BY <1>3, <1>6, <1>7
<1> QED
  BY <1>0, <1>1, <1>2, <1>4, <1>5, <1>8, <1>9, ReportChain

\* As long as there was no second event, one handler follows the other.
LEMMA NextChain ==
  ASSUME Chain, TypeOK, NInv, [Next]_vars, events' <= 1
  PROVE  Chain'
<1>1. ASSUME NEW a \in Actors, Step(a) \/ HandlerFault(a) PROVE Chain'
  <2>1. CASE DoSuspend(a) \/ \E b \in AppThreads : CallSuspend(a, b) \/ ResumeOne(a, b)
    BY <2>1, SameChain DEF DoSuspend, CallSuspend, ResumeOne, monitorVars, actorVars, diskVars, processVars
  <2> QED
    BY <1>1, <2>1, SignalChain, ReceiveChain, SuspensionChain, AnnounceChain, FlagChain, BeginChain, OpenChain,
       EmbedChain, EndChain, LeaveChain, FaultChain DEF Step
<1>2. ASSUME NEW t \in AppThreads, Event(t) \/ CloseSDK(t) \/ StartSDK(t) PROVE Chain'
  <2>1. CASE StartSDK(t)
    BY <2>1, SameChain DEF StartSDK, monitorVars, actorVars, diskVars
  <2> QED
    BY <1>2, <2>1, EventChain, CloseChain
<1>3. CASE UNCHANGED vars
  BY <1>3, SameChain DEF vars, monitorVars, actorVars, diskVars, processVars
<1> QED
  BY <1>1, <1>2, <1>3 DEF Next

-----------------------------------------------------------------------------
(* What is on disk, and what the process has reported when it dies. *)

\* No step takes what is on disk from it, unless a second event met the handling of the first.
LEMMA NothingLost ==
  ASSUME Chain, TypeOK, NInv, [Next]_vars
  PROVE  OnDisk \subseteq OnDisk'
<1>1. CASE UNCHANGED <<files, content>>
  BY <1>1 DEF OnDisk
<1>2. ASSUME NEW a \in Actors, OpenReport(a) PROVE OnDisk \subseteq OnDisk'
  <2>1. ~OldExists /\ content \in Seq(SUBSET Item)
    <3>1. pc[a] = "opening" /\ Busy(a)
      BY <1>2 DEF OpenReport, At, Busy, Idle
    <3> QED
      BY <3>1, OnlyOne DEF Local, NInv, ReportTypes
  <2>2. \A n \in DOMAIN files : \E m \in DOMAIN files' : files'[m] = files[n]
    <3> DEFINE renamed == IF recrash[a] /\ Json(a) \in DOMAIN files
                          THEN [n \in (DOMAIN files \ {Json(a)}) \cup {Old(a)} |->
                                   files[IF n = Old(a) THEN Json(a) ELSE n]]
                          ELSE files
    <3>1. \A n \in DOMAIN files : \E m \in DOMAIN renamed : renamed[m] = files[n]
      <4> SUFFICES ASSUME NEW n \in DOMAIN files PROVE \E m \in DOMAIN renamed : renamed[m] = files[n]
        OBVIOUS
      <4>1. n # Old(a)
        BY <2>1 DEF OldExists, Old
      <4>2. CASE n = Json(a) /\ recrash[a]
        BY <4>2
      <4>3. CASE ~(n = Json(a) /\ recrash[a])
        BY <4>1, <4>3
      <4> QED
        BY <4>2, <4>3
    <3> HIDE DEF renamed
    <3>2. \/ files' = renamed
          \/ Json(a) \notin DOMAIN renamed /\
             files' = [n \in DOMAIN renamed \cup {Json(a)} |->
                           IF n = Json(a) THEN Len(content) + 1 ELSE renamed[n]]
      BY <1>2 DEF OpenReport, renamed
    <3> QED
      BY <3>1, <3>2
  <2>3. \A f \in DOMAIN content : content'[f] = content[f]
    <3>1. CASE content' = content
      BY <3>1
    <3>2. CASE content' = Append(content, {})
      <4> HIDE DEF Item
      <4> QED
        BY <2>1, <3>2
    <3> QED
      BY <1>2, <3>1, <3>2 DEF OpenReport
  <2> QED
    BY <2>2, <2>3 DEF OnDisk, NInv, FilesExist
<1>3. ASSUME NEW a \in Actors, Embed(a) \/ Write(a) PROVE OnDisk \subseteq OnDisk'
  <2>1. files' = files
    BY <1>3 DEF Embed, Write
  <2>2. pc[a] \in HasFile
    BY <1>3 DEF Embed, Write, At, HasFile
  <2>3. inode[a] \in DOMAIN content
    BY <2>2 DEF NInv, FilesExist
  <2>4. \/ content' = content
        \/ \E items : content' = [content EXCEPT ![inode[a]] = content[inode[a]] \cup items]
    BY <1>3 DEF Embed, Write
  <2>5. \A f \in DOMAIN content : content[f] \subseteq content'[f]
    BY <2>3, <2>4
  <2> QED
    BY <2>1, <2>5 DEF OnDisk, NInv, FilesExist
<1>4. ASSUME NEW a \in Actors, RemoveOld(a) PROVE OnDisk \subseteq OnDisk'
  <2>1. pc[a] = "removing" /\ Busy(a) /\ pc[a] \in HasFile
    BY <1>4 DEF RemoveOld, At, Busy, Idle, HasFile
  <2>2. /\ Json(a) \in DOMAIN files /\ files[Json(a)] = inode[a]
        /\ Old(a) \in DOMAIN files => content[files[Old(a)]] \subseteq content[inode[a]]
    BY <2>1, OnlyOne DEF Local
  <2>3. /\ files' = [n \in DOMAIN files \ {Old(a)} |-> files[n]] /\ content' = content
        /\ Json(a) # Old(a)
    BY <1>4 DEF RemoveOld, Json, Old
  <2> SUFFICES ASSUME NEW n \in DOMAIN files, NEW item \in content[files[n]]
               PROVE  \E m \in DOMAIN files' : item \in content'[files'[m]]
    BY DEF OnDisk
  <2>4. CASE n = Old(a)
    BY <2>2, <2>3, <2>4
  <2>5. CASE n # Old(a)
    BY <2>3, <2>5
  <2> QED
    BY <2>4, <2>5
<1>5. ASSUME NEW a \in Actors, Step(a) \/ HandlerFault(a),
             ~(OpenReport(a) \/ Embed(a) \/ Write(a) \/ RemoveOld(a))
      PROVE  UNCHANGED <<files, content>>
  BY <1>5 DEF Step, diskVars, actorVars, HandlerFault, TakeSignal, Receive, Check, CallSuspend, DoSuspend, ResumeOne,
     Suspended, Resumed, Announce, Flag, Activate, BeginReport, End, Leave
<1>6. ASSUME NEW t \in AppThreads, Event(t) \/ CloseSDK(t) \/ StartSDK(t) PROVE UNCHANGED <<files, content>>
  BY <1>6 DEF Event, CloseSDK, StartSDK, diskVars
<1>7. CASE UNCHANGED vars
  BY <1>1, <1>7 DEF vars, diskVars
<1> QED
  BY <1>1, <1>2, <1>3, <1>4, <1>5, <1>6, <1>7, WhoSteps

\* What no step takes back: events and faults are only counted up, the SDK that has
\* been closed is not as it was started, the flag for a crash inside the crash handling
\* stays and with it the path, and a dead process takes no step.
LEMMA NoWayBack ==
  ASSUME [Next]_vars
  PROVE  /\ events' = events \/ events' = events + 1
         /\ faults' = faults \/ faults' = faults + 1
         /\ sdk' = "started" => sdk = "started"
         /\ crashedDuring => crashedDuring' /\ lastPath' = lastPath
         /\ ~alive => UNCHANGED vars
<1>1. ASSUME NEW a \in Actors, Step(a) \/ HandlerFault(a)
      PROVE  alive /\ UNCHANGED <<sdk, events>> /\ (faults' = faults \/ faults' = faults + 1)
  <2>1. CASE HandlerFault(a)
    BY <2>1 DEF HandlerFault, Runnable
  <2>2. CASE TakeSignal(a) \/ Receive(a) \/ Check(a) \/ DoSuspend(a) \/ Suspended(a) \/ Resumed(a)
    BY <2>2 DEF TakeSignal, Receive, Check, DoSuspend, Suspended, Resumed, At, Runnable, processVars
  <2>3. CASE \E b \in AppThreads : CallSuspend(a, b) \/ ResumeOne(a, b)
    BY <2>3 DEF CallSuspend, ResumeOne, At, Runnable, processVars
  <2>4. CASE Announce(a) \/ Flag(a) \/ Activate(a) \/ BeginReport(a) \/ OpenReport(a)
    BY <2>4 DEF Announce, Flag, Activate, BeginReport, OpenReport, At, Runnable, processVars
  <2>5. CASE Embed(a) \/ RemoveOld(a) \/ Write(a) \/ End(a) \/ Leave(a)
    BY <2>5 DEF Embed, RemoveOld, Write, End, Leave, At, Runnable, processVars
  <2> QED
    BY <1>1, <2>1, <2>2, <2>3, <2>4, <2>5 DEF Step
<1>2. ASSUME NEW a \in Actors, Step(a) \/ HandlerFault(a), crashedDuring
      PROVE  crashedDuring' /\ lastPath' = lastPath
  <2>1. CASE HandlerFault(a) \/ TakeSignal(a) \/ Receive(a) \/ Check(a) \/ DoSuspend(a) \/ Suspended(a) \/ Resumed(a)
    BY <1>2, <2>1 DEF HandlerFault, TakeSignal, Receive, Check, DoSuspend, Suspended, Resumed, flagVars, diskVars
  <2>2. CASE \E b \in AppThreads : CallSuspend(a, b) \/ ResumeOne(a, b)
    BY <1>2, <2>2 DEF CallSuspend, ResumeOne, flagVars, diskVars
  <2>3. CASE Announce(a) \/ Flag(a) \/ Activate(a) \/ BeginReport(a) \/ OpenReport(a)
    BY <1>2, <2>3 DEF Announce, Flag, Activate, BeginReport, OpenReport, flagVars, diskVars
  <2>4. CASE Embed(a) \/ RemoveOld(a) \/ Write(a) \/ End(a) \/ Leave(a)
    BY <1>2, <2>4 DEF Embed, RemoveOld, Write, End, Leave, flagVars, diskVars
  <2> QED
    BY <1>2, <2>1, <2>2, <2>3, <2>4 DEF Step
<1>3. ASSUME NEW t \in AppThreads, Event(t) \/ CloseSDK(t) \/ StartSDK(t)
      PROVE  /\ alive /\ UNCHANGED <<faults, crashedDuring, lastPath>>
             /\ sdk' = "started" => sdk = "started"
             /\ events' = events \/ events' = events + 1
  BY <1>3 DEF Event, CloseSDK, StartSDK, At, Runnable, flagVars, diskVars
<1>4. UNCHANGED vars => UNCHANGED <<events, faults, sdk, crashedDuring, lastPath>>
  BY DEF vars, flagVars, diskVars, processVars
<1>5. CASE UNCHANGED vars
  BY <1>4, <1>5
<1>6. CASE \E a \in Actors : Step(a) \/ HandlerFault(a)
  <2>1. PICK a \in Actors : Step(a) \/ HandlerFault(a)
    BY <1>6
  <2>2. alive /\ UNCHANGED <<sdk, events>> /\ (faults' = faults \/ faults' = faults + 1)
    BY <1>1, <2>1
  <2>3. crashedDuring => crashedDuring' /\ lastPath' = lastPath
    BY <1>2, <2>1
  <2> QED
    BY <2>2, <2>3
<1>7. CASE \E t \in AppThreads : Event(t) \/ CloseSDK(t) \/ StartSDK(t)
  <2>1. PICK t \in AppThreads : Event(t) \/ CloseSDK(t) \/ StartSDK(t)
    BY <1>7
  <2>2. alive /\ UNCHANGED <<faults, crashedDuring, lastPath>>
    BY <1>3, <2>1
  <2>3. (sdk' = "started" => sdk = "started") /\ (events' = events \/ events' = events + 1)
    BY <1>3, <2>1
  <2>4. crashedDuring => crashedDuring' /\ lastPath' = lastPath
    BY <2>2
  <2> QED
    BY <2>2, <2>3, <2>4
<1> QED
  BY <1>5, <1>6, <1>7, WhoSteps

\* Events are only counted up.
LEMMA EventsGrow ==
  ASSUME TypeOK, [Next]_vars, events' <= 1
  PROVE  events <= 1
<1>1. events \in Nat
  BY BudgetType DEF TypeOK
<1> QED
  BY <1>1, NoWayBack

\* As long as there was one event, one handler follows the other.
LEMMA ChainHolds == Spec => [](events <= 1 => Chain)
<1>1. TypeOK /\ NInv /\ (events <= 1 => Chain) /\ [Next]_vars => (events <= 1 => Chain)'
  BY EventsGrow, NextChain
<1> QED
  BY <1>1, InitChain, InitTypeOK, NextTypeOK, InitNoted, NextNoted, PTL DEF Spec

\* Whatever part of a report has reached the disk stays readable, in every
\* behaviour in which one thing brings the process down, however often the handlers of
\* it fault: the report that is moved aside is copied into the one that replaces it
\* before it is removed, and there is never a second one to move over it.
THEOREM NothingIsLost == Spec /\ [](events <= 1) => NothingOnDiskIsLost
<1>1. TypeOK /\ NInv /\ Chain /\ [Next]_vars => [OnDisk \subseteq OnDisk']_vars
  BY NothingLost
<1>2. Spec => []TypeOK /\ []NInv
  BY InitTypeOK, NextTypeOK, InitNoted, NextNoted, PTL DEF Spec
<1> QED
  BY <1>1, <1>2, ChainHolds, PTL DEF Spec, NothingOnDiskIsLost

\* Nothing is due at first.
LEMMA InitOutcome == Init => Outcome
<1> SUFFICES ASSUME Init PROVE Outcome
  OBVIOUS
<1>1. alive /\ armed = Monitors /\ \A a \in Actors : pc[a] \in Idle
  BY DEF Init, Idle
<1>2. armed # {}
  BY <1>1 DEF Monitors
<1> QED
  BY <1>1, <1>2 DEF Outcome, Idle

\* What was reported stays reported, and what can not be written stays unwritten.
LEMMA DoneStays ==
  ASSUME Chain, TypeOK, NInv, [Next]_vars, Reported \/ Unwritten
  PROVE  Reported' \/ Unwritten'
<1>1. CASE Reported
  BY <1>1, NothingLost DEF Reported
<1>2. CASE Unwritten
  <2>1. crashedDuring' /\ lastPath' = lastPath
    BY <1>2, NoWayBack DEF Unwritten
  <2> QED
    BY <1>2, <2>1 DEF Unwritten
<1> QED
  BY <1>1, <1>2

\* A handler ends with a complete report, or without a path.
LEMMA EndsWithReport ==
  ASSUME Chain, TypeOK, NInv, NEW a \in Actors, OpenReport(a) \/ Write(a), pc'[a] = "ending"
  PROVE  Reported' \/ Unwritten'
<1>0. pc \in [Actors -> Labels]
  BY DEF TypeOK, Labels
<1>1. CASE OpenReport(a)
  <2>1. pc[a] = "opening" /\ Busy(a) /\ Local(a)
    BY <1>1, OnlyOne DEF OpenReport, At, Busy, Idle
  <2>2. /\ recrash[a] = crashedDuring /\ path[a] = lastPath
        /\ ~crashedDuring => lastPath # 0 /\ Json(a) \notin DOMAIN files
    BY <2>1 DEF Local, Reporting
  <2>3. Json(a) # Old(a) /\ UNCHANGED <<crashedDuring, lastPath>>
    BY <1>1 DEF Json, Old, OpenReport, flagVars
  <2> DEFINE renamed == IF recrash[a] /\ Json(a) \in DOMAIN files
                        THEN [n \in (DOMAIN files \ {Json(a)}) \cup {Old(a)} |->
                                 files[IF n = Old(a) THEN Json(a) ELSE n]]
                        ELSE files
  <2>4. crashedDuring \/ Json(a) \notin DOMAIN renamed
    BY <2>2
  <2>5. crashedDuring => Json(a) \notin DOMAIN renamed
    BY <2>2, <2>3
  <2>6. path[a] = 0 \/ Json(a) \in DOMAIN renamed
    BY <1>0, <1>1 DEF OpenReport, Goto
  <2>7. path[a] = 0
    BY <2>4, <2>5, <2>6
  <2> QED
    BY <2>2, <2>3, <2>7 DEF Unwritten
<1>2. CASE Write(a)
  <2>1. pc[a] = "closing"
    BY <1>0, <1>2 DEF Write, Goto
  <2>2. Busy(a) /\ pc[a] \in HasFile
    BY <2>1 DEF Busy, Idle, HasFile
  <2>3. inode[a] \in DOMAIN content /\ Json(a) \in DOMAIN files /\ files[Json(a)] = inode[a]
    BY <2>2, OnlyOne DEF Local, NInv, FilesExist
  <2>4. content' = [content EXCEPT ![inode[a]] = content[inode[a]] \cup {<<"all", inode[a], kind[a]>>}] /\ files' = files
    BY <1>2, <2>1 DEF Write
  <2>5. <<"all", inode[a], kind[a]>> \in content'[files'[Json(a)]]
    BY <2>3, <2>4
  <2> QED
    BY <2>3, <2>4, <2>5 DEF Reported, OnDisk
<1> QED
  BY <1>1, <1>2

\* How the handler goes on from the disarming of the monitors to the end of the report.
LEMMA GoesOn ==
  ASSUME Chain, TypeOK, NInv, [Next]_vars, events' <= 1, sdk' = "started",
         crashedDuring, NEW c \in Actors, pc[c] \in Going
  PROVE  pc'[c] \in Going \/ Reported' \/ Unwritten' \/ faults' >= 2
<1>0. /\ pc \in [Actors -> Labels] /\ Busy(c) /\ faults \in Nat
      /\ Going = {"embedding", "removing", "writing", "closing", "activating", "informing", "opening"}
  BY BudgetType DEF TypeOK, Labels, Busy, Idle, Going, HasFile
<1>1. /\ inbox = << >> /\ events # 0 /\ \A b \in Actors \ {c} : pc[b] \in Idle \cup {"blocked"}
  BY <1>0, OnlyOne DEF Busy
<1>2. ASSUME NEW a \in Actors, Step(a) \/ HandlerFault(a), a # c PROVE pc'[c] = pc[c]
  <2>1. pc[a] \in Idle \cup {"blocked"}
    BY <1>1, <1>2
  <2>2. DoSuspend(a)
    BY <1>1, <1>2, <2>1 DEF Idle, Step, HandlerFault, TakeSignal, Receive, Check, CallSuspend,
       ResumeOne, Suspended, Resumed, Announce, Flag, Activate, BeginReport, OpenReport, Embed, RemoveOld, Write,
       End, Leave, At, FaultPoints
  <2> QED
    BY <2>2 DEF DoSuspend, actorVars
<1>3. CASE HandlerFault(c)
  <2>1. faults >= 1
    BY DEF Chain, Shared
  <2> QED
    BY <1>0, <1>3, <2>1 DEF HandlerFault
<1>4. CASE Step(c)
  <2>1. CASE DoSuspend(c)
    BY <2>1 DEF DoSuspend, actorVars
  <2>2. CASE OpenReport(c) \/ Write(c)
    <3>1. pc'[c] \in {"embedding", "writing", "closing", "ending"}
      BY <1>0, <2>2 DEF OpenReport, Write, Goto
    <3> QED
      BY <1>0, <2>2, <3>1, EndsWithReport
  <2>3. CASE Activate(c) \/ BeginReport(c) \/ Embed(c) \/ RemoveOld(c)
    <3>1. pc'[c] \in {"informing", "opening", "removing", "writing"}
      <4>1. CASE Activate(c)
        BY <1>0, <4>1, ActorsAre DEF Activate, Goto
      <4>2. CASE BeginReport(c) \/ Embed(c) \/ RemoveOld(c)
        BY <1>0, <4>2 DEF BeginReport, Embed, RemoveOld, Goto
      <4> QED
        BY <2>3, <4>1, <4>2
    <3> QED
      BY <1>0, <3>1
  <2> QED
    BY <1>0, <1>4, <2>1, <2>2, <2>3 DEF Step, TakeSignal, Receive, Check, CallSuspend,
       ResumeOne, Suspended, Resumed, Announce, Flag, End, Leave, At, Idle
<1>5. CASE \E t \in AppThreads : Event(t) \/ CloseSDK(t) \/ StartSDK(t)
  <2>1. CASE \E t \in AppThreads : Event(t)
    <3>1. events \in Nat
      BY BudgetType DEF TypeOK
    <3> QED
      BY <1>1, <2>1, <3>1 DEF Event
  <2> QED
    BY <1>5, <2>1 DEF CloseSDK, StartSDK
<1>6. CASE UNCHANGED vars
  BY <1>6 DEF vars, actorVars
<1> QED
  BY <1>0, <1>2, <1>3, <1>4, <1>5, <1>6 DEF Next

\* What disarms the monitors is a handler that starts over, or the end of one.
LEMMA Disarmed ==
  ASSUME Chain, TypeOK, [Next]_vars, sdk' = "started", armed # {}, armed' = {}
  PROVE  \/ \E a \in Actors : Flag(a) /\ crashedDuring /\ pc'[a] \in {"activating", "informing"}
         \/ \E a \in Actors : pc[a] = "ending"
<1>1. ASSUME NEW a \in Actors, Flag(a)
      PROVE  crashedDuring /\ pc'[a] \in {"activating", "informing"}
  <2>1. crashedDuring
    BY <1>1 DEF Flag
  <2> QED
    BY <1>1, <2>1 DEF Flag, Disarm
<1>2. ASSUME NEW a \in Actors, Step(a) \/ HandlerFault(a)
      PROVE  armed' = armed \/ Flag(a) \/ End(a)
  BY <1>2 DEF Step, monitorVars, HandlerFault, TakeSignal, Receive, Check, CallSuspend, DoSuspend,
     ResumeOne, Suspended, Resumed, Announce, Activate, BeginReport, OpenReport, Embed, RemoveOld, Write, Leave
<1>3. ASSUME NEW a \in AppThreads, Event(a) \/ CloseSDK(a) \/ StartSDK(a)
      PROVE  armed' = armed
  BY <1>3 DEF Event, CloseSDK, StartSDK, monitorVars
<1>4. CASE UNCHANGED vars
  BY <1>4 DEF vars, monitorVars
<1> QED
  BY <1>1, <1>2, <1>3, <1>4 DEF Next, End, At

\* The thread that comes to the end of a handler has written a report.
LEMMA EndingStep ==
  ASSUME TypeOK, [Next]_vars, NEW a \in Actors, pc'[a] = "ending", pc[a] # "ending"
  PROVE  OpenReport(a) \/ Write(a)
<1>0. pc \in [Actors -> Labels]
  BY DEF TypeOK, Labels
<1>1. ASSUME NEW b \in Actors, Step(b) \/ HandlerFault(b) \/ (b \in AppThreads /\ (Event(b) \/ CloseSDK(b) \/ StartSDK(b)))
      PROVE  b = a
  <2>1. CASE \/ UNCHANGED <<pc, kind>> \/ (\E l \in Labels : Goto(b, l) /\ UNCHANGED kind)
             \/ (\E k \in Kinds : Enter(b, k))
    BY <1>0, <2>1 DEF Goto, Enter
  <2>2. CASE \E l \in Labels : Disarm(b, l) /\ UNCHANGED kind
    BY <1>0, <2>2 DEF Disarm
  <2>3. CASE Activate(b)
    BY <1>0, <2>3 DEF Activate, Goto
  <2>4. CASE Leave(b)
    BY <1>0, <2>4 DEF Leave, Goto, Enter
  <2> QED
    BY <1>1, <2>1, <2>2, <2>3, <2>4, MovesOfSteps
<1>2. CASE Event(a) \/ CloseSDK(a) \/ StartSDK(a) \/ HandlerFault(a) \/ TakeSignal(a) \/ Receive(a)
  BY <1>0, <1>2 DEF Event, CloseSDK, StartSDK, HandlerFault, TakeSignal, Receive, RaiseException, Goto, Enter, Disarm, actorVars
<1>3. CASE \/ Check(a) \/ DoSuspend(a) \/ Suspended(a) \/ Resumed(a)
           \/ \E b \in AppThreads : CallSuspend(a, b) \/ ResumeOne(a, b)
  BY <1>0, <1>3 DEF Check, DoSuspend, Suspended, Resumed, CallSuspend, ResumeOne, actorVars, Goto
<1>4. CASE Announce(a) \/ Flag(a) \/ End(a) \/ BeginReport(a) \/ Embed(a) \/ RemoveOld(a)
  BY <1>0, <1>4 DEF Announce, Flag, End, BeginReport, Embed, RemoveOld, Disarm, Goto
<1>5. CASE Activate(a) \/ Leave(a)
  BY <1>0, <1>5 DEF Activate, Leave, Goto, Enter
<1> QED
  BY <1>1, <1>2, <1>3, <1>4, <1>5, ActorsAre DEF Next, Step, vars, actorVars

\* Every step keeps it, as long as there is one event.
LEMMA NextOutcome ==
  ASSUME Chain, TypeOK, NInv, Outcome, [Next]_vars, events' <= 1
  PROVE  Outcome'
<1>1. CASE ~alive
  <2>1. UNCHANGED <<alive, armed, pc, sdk, files, content, crashedDuring, lastPath, faults>>
    BY <1>1, NoWayBack DEF vars, monitorVars, flagVars, actorVars, diskVars, processVars
  <2>2. (Reported' <=> Reported) /\ (Unwritten' <=> Unwritten)
    BY <2>1 DEF Reported, OnDisk, Unwritten
  <2> QED
    BY <2>1, <2>2 DEF Outcome
<1>2. CASE alive
  <2>1. ~alive' => armed' = {} /\ \E a \in Actors : pc'[a] = "signalled"
    <3>1. ~alive' => \E a \in Actors : TakeSignal(a) /\ "signal" \notin armed /\ UNCHANGED pc
      <4>1. ASSUME NEW a \in Actors, Step(a) \/ HandlerFault(a), ~TakeSignal(a) PROVE alive' = alive
        BY <4>1 DEF Step, processVars, HandlerFault, Receive, Check, CallSuspend, DoSuspend,
           ResumeOne, Suspended, Resumed, Announce, Flag, Activate, BeginReport, OpenReport, Embed, RemoveOld, Write,
           End, Leave
      <4>2. ASSUME NEW t \in AppThreads, Event(t) \/ CloseSDK(t) \/ StartSDK(t) PROVE alive' = alive
        BY <4>2 DEF Event, CloseSDK, StartSDK
      <4>3. UNCHANGED vars => alive' = alive
        BY DEF vars, processVars
      <4> QED
        BY <1>2, <4>1, <4>2, <4>3, WhoSteps DEF TakeSignal
    <3>2. "signal" \notin armed => armed = {}
      BY DEF Chain, Shared, Monitors
    <3> QED
      BY <3>1, <3>2 DEF TakeSignal, At, monitorVars
  <2>2. \A a \in Actors : pc'[a] = "ending" => Reported' \/ Unwritten'
    <3> SUFFICES ASSUME NEW a \in Actors, pc'[a] = "ending" PROVE Reported' \/ Unwritten'
      OBVIOUS
    <3>1. CASE pc[a] = "ending"
      BY <3>1, DoneStays DEF Outcome
    <3>2. CASE pc[a] # "ending"
      BY <3>2, EndingStep, EndsWithReport
    <3> QED
      BY <3>1, <3>2
  <2>3. ASSUME sdk' = "started", armed' = {}
        PROVE  \/ Reported' \/ Unwritten' \/ faults' >= 2
               \/ crashedDuring' /\ \E a \in Actors : pc'[a] \in Going
    <3>1. CASE armed # {}
      <4>1. CASE \E a \in Actors : pc[a] = "ending"
        BY <4>1, DoneStays DEF Outcome
      <4>2. CASE \E a \in Actors : Flag(a) /\ crashedDuring /\ pc'[a] \in {"activating", "informing"}
        BY <4>2 DEF Flag, Going
      <4> QED
        BY <2>3, <3>1, <4>1, <4>2, Disarmed
    <3>2. CASE armed = {}
      <4>0. sdk = "started"
        BY <2>3, NoWayBack
      <4>1. CASE Reported \/ Unwritten
        BY <4>1, DoneStays
      <4>2. CASE faults >= 2
        <5>1. faults \in Nat
          BY BudgetType DEF TypeOK
        <5> QED
          BY <4>2, <5>1, NoWayBack
      <4>3. CASE crashedDuring /\ \E a \in Actors : pc[a] \in Going
        <5>1. crashedDuring'
          BY <4>3, NoWayBack
        <5> QED
          BY <2>3, <4>3, <5>1, GoesOn
      <4> QED
        BY <3>2, <4>0, <4>1, <4>2, <4>3 DEF Outcome
    <3> QED
      BY <3>1, <3>2
  <2> QED
    BY <2>1, <2>2, <2>3 DEF Outcome
<1> QED
  BY <1>1, <1>2

\* The crash that comes alone is reported, also when the handler faults once after it
\* has chosen a path, for any number of threads and of further faults that may
\* have been possible: when the process dies, its monitors are disarmed, and what
\* disarmed them is the end of a handler or one that starts over, and that one
\* writes its report to the end.
THEOREM LoneCrashReported == Spec => []LoneCrashIsReported
<1>1. TypeOK /\ NInv /\ (events <= 1 => Chain /\ Outcome) /\ [Next]_vars => (events <= 1 => Chain /\ Outcome)'
  <2> SUFFICES ASSUME TypeOK, NInv, events <= 1 => Chain /\ Outcome, [Next]_vars, events' <= 1
               PROVE  (Chain /\ Outcome)'
    OBVIOUS
  <2>1. events <= 1
    BY EventsGrow
  <2> QED
    BY <2>1, NextChain, NextOutcome
<1>2. TypeOK /\ (events <= 1 => Chain /\ Outcome) => LoneCrashIsReported
  <2> SUFFICES ASSUME TypeOK, events <= 1 => Chain /\ Outcome, ~alive, events = 1, sdk = "started",
                      faults = 0 \/ (faults = 1 /\ lastPath # 0)
               PROVE  Reported
    BY DEF LoneCrashIsReported, Reported
  <2>1. Chain /\ Outcome
    OBVIOUS
  <2>2. PICK a \in Actors : pc[a] = "signalled" /\ armed = {}
    BY <2>1 DEF Outcome
  <2>3. ~Unwritten /\ ~(faults >= 2)
    BY <2>1 DEF Unwritten, Chain, Shared
  <2>4. \A b \in Actors : pc[b] \notin Going
    BY <2>1, <2>2 DEF Chain, OneAtATime, Busy, Idle, Going, HasFile
  <2> QED
    BY <2>1, <2>2, <2>3, <2>4 DEF Outcome
<1> QED
  BY <1>1, <1>2, InitChain, InitOutcome, InitTypeOK, NextTypeOK, InitNoted, NextNoted, PTL DEF Spec
=============================================================================
