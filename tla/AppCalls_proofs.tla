-------------------------- MODULE AppCalls_proofs --------------------------
(***************************************************************************)
(* What is proved of the application's calls: of Redaction, which calls    *)
(* print more than what is declared safe; of Registry, that a destination  *)
(* is with its owner only and is given each line once, as long as one is   *)
(* attached at a time, whichever threads log meanwhile; of UserReport,     *)
(* that a report carries the log; and of ReportData, the data that crash   *)
(* reports read, that wherever the threads are stopped no text is read     *)
(* after it was freed, that the locks keep each text from being freed      *)
(* twice, and that after calls that did not overlap, with values that JSON *)
(* can hold, the copy a handler reads is what the scope is.                *)
(***************************************************************************)
EXTENDS MCAppCalls, RotatingLogFile_proofs

-----------------------------------------------------------------------------
(* Redaction: the parts of a value a call may print. *)

\* When redaction is required an overload prints what is safe, or a Redacted type's own description.
LEMMA ShownIsSafe ==
  ASSUME NEW level, NEW c, c.requireRedacted, NEW v \in Printing!Values,
         NEW overload \in {"encodable", "redacted", "error"} \cap v
  PROVE  LET shownText == Printing!Shown(level, overload, c, v)
         IN  shownText # "whole" /\ (shownText = "own" => "redacted" \in v)
BY DEF Printing!Shown, Printing!Guarded, Printing!Interpolated, Printing!Encoded

\* Nor does Netable's adapter, whatever config it goes by.
LEMMA NetableIsSafe ==
  ASSUME NEW c, NEW v \in Printing!Values
  PROVE  LET shownText == Printing!ShownByNetable(c, v)
         IN  shownText # "whole" /\ (shownText = "own" => "redacted" \in v)
BY DEF Printing!ShownByNetable, Printing!Shown, Printing!Guarded, Printing!Interpolated,
   Printing!Encoded

\* With requireRedacted an object is printed beyond its safe properties in two cases only, by a
\* Redacted type's own description and by track, and Netable's adapter never prints all of a
\* request's result, for any number of calls and assignments of config.
THEOREM RedactionKept == MCSpec => []RedactionIsRequired
<1> USE DEF Printing!RequireRedactedHolds, Printing!StaleCopyIsSafe, Printing!Exposed
<1>1. MCInit => RedactionIsRequired
  <2> SUFFICES ASSUME MCInit, part = "printing"
               PROVE  Printing!RequireRedactedHolds /\ Printing!StaleCopyIsSafe
    BY DEF RedactionIsRequired
  <2>1. shown = Printing!None
    BY DEF MCInit, Printing!Init
  <2> QED
    BY <2>1 DEF Printing!None
<1>2. RedactionIsRequired /\ [MCNext]_allVars => RedactionIsRequired'
  <2> SUFFICES ASSUME RedactionIsRequired, [MCNext]_allVars,
                      part' = "printing"
               PROVE  (Printing!RequireRedactedHolds /\ Printing!StaleCopyIsSafe)'
    BY DEF RedactionIsRequired
  <2>1. CASE UNCHANGED shown /\ part = part'
    BY <2>1 DEF RedactionIsRequired
  <2>2. CASE Printing!Call
    <3>1. PICK v \in Printing!Values, level \in Printing!Levels :
             \E overload \in Printing!Overloads(level) \cap v :
                Printing!Printed(level, v, config["original"],
                                 Printing!Shown(level, overload, config["original"], v))
      BY <2>2 DEF Printing!Call
    <3>2. PICK overload \in Printing!Overloads(level) \cap v :
             Printing!Printed(level, v, config["original"],
                              Printing!Shown(level, overload, config["original"], v))
      BY <3>1
    <3>3. overload \in {"encodable", "redacted", "error"} \cap v /\ level # "netable"
      BY DEF Printing!Overloads, Printing!Levels
    <3> QED
      BY <3>2, <3>3, ShownIsSafe DEF Printing!Printed
  <2>3. CASE Printing!Track
    BY <2>3 DEF Printing!Track, Printing!Printed, Printing!ShownByTrack
  <2>4. CASE Printing!RequestSuccess
    BY <2>4, NetableIsSafe DEF Printing!RequestSuccess, Printing!Printed
  <2>5. CASE Printing!RequestEvent
    BY <2>5 DEF Printing!RequestEvent, Printing!Printed
  <2>6. part = "printing" /\ (UNCHANGED shown \/ Printing!Next)
    BY DEF MCNext, RunReports, RunPrinting, RunData, RunRegistry, allVars, printVars
  <2> QED
    BY <2>1, <2>2, <2>3, <2>4, <2>5, <2>6 DEF Printing!Next, Printing!MakeAdapter, Printing!AssignConfig
<1> QED
  BY <1>1, <1>2, PTL DEF MCSpec

-----------------------------------------------------------------------------
(* Registry: where the destinations are. *)

\* The instance has its own copies of the library's operators on sequences.
LEMMA SameFlattening == \A s : Reg!FlattenSeq(s) = FlattenSeq(s)
BY Zenon DEF Reg!FlattenSeq, FlattenSeq

\* A destination is with its owner and nowhere else.
Alone(d) == \A l \in Loggers : d \in ToSet(reg_list[l]) <=> reg_owner[d] = l

\* It is with no logger.
Nowhere(d) == \A l \in Loggers : d \notin ToSet(reg_list[l])

\* What holds of a destination on the move, from what its thread is about to do.
Placed(k) ==
    LET d == k.target
        free == k.at # "find" => ~Reg!Has(reg_list[k.logger], Id[d])
    IN  /\ free
        /\ k.at \in {"find", "leave"} => Alone(d)
        /\ k.at = "leave"  => reg_owner[d] # Reg!None
        /\ k.at = "own"    => reg_owner[d] = Reg!None /\ Nowhere(d)
        /\ k.at = "append" => reg_owner[d] = k.logger /\ Nowhere(d)
        /\ k.at = "filter" =>
              reg_owner[d] = Reg!None
              /\ \A l \in Loggers : d \in ToSet(reg_list[l]) => l = k.previous
        /\ k.at = "store"  => Distinct(Id, k.array)
        /\ k.at = "store" /\ k.next = "own" =>
              /\ reg_owner[d] = Reg!None
              /\ \A l \in Loggers : d \in ToSet(reg_list[l]) => l = k.into
              /\ \A e \in Reg!Targets :
                    e \in ToSet(k.array) <=> e \in ToSet(reg_list[k.into]) /\ e # d
        /\ k.at = "store" /\ k.next = "idle" =>
              /\ k.into = k.logger /\ reg_owner[d] = k.logger /\ Nowhere(d)
              /\ \A e \in Reg!Targets :
                    e \in ToSet(k.array) <=> e \in ToSet(reg_list[k.into]) \/ e = d

OneMover == \A t, u \in Threads : Reg!Attaching(t) /\ Reg!Attaching(u) => t = u

Owned ==
    /\ OneMover
    /\ \A l \in Loggers : Distinct(Id, reg_list[l])
    /\ \A d \in Reg!Targets \ Reg!Moving : Alone(d)
    /\ \A t \in Threads : Reg!Attaching(t) => Placed(reg_task[t])

OwnInv == ~reg_overlapped => Owned

Busy == {"find", "leave", "filter", "own", "append", "store"}

\* What a thread is in the middle of has the fields its kind says.
LEMMA TaskKinds ==
  ASSUME NEW k \in Reg!Tasks
  PROVE  /\ k.at \in {"idle", "log"} \cup Busy
         /\ k.at = "idle" => k = Reg!Idle
         /\ k.at \in {"find", "leave", "own", "append"} =>
               k \in Reg!Asking
         /\ k.at = "filter" => k \in Reg!Removing
         /\ k.at = "store" => k \in Reg!Storing
         /\ k.at = "log" => k \in Reg!Logging
         /\ k.at \in Busy => k.logger \in Loggers /\ k.target \in Reg!Targets
BY DEF Reg!Tasks, Reg!Asking, Reg!Removing, Reg!Storing, Reg!Logging, Reg!Idle, Busy

\* In what follows the fields of each kind are known.
USE DEF Reg!Asking, Reg!Removing, Reg!Storing, Reg!Logging

\* An array without some of its destinations.
LEMMA ChosenOnes ==
  ASSUME NEW array \in Seq(Reg!Targets), NEW keep
  PROVE  /\ Reg!Chosen(array, keep) \in Seq(Reg!Targets)
         /\ \A d : d \in ToSet(Reg!Chosen(array, keep)) <=> d \in ToSet(array) /\ d \in keep
         /\ Distinct(Id, array) => Distinct(Id, Reg!Chosen(array, keep))
<1>1. PICK c : c = Reg!Chosen(array, keep)
  OBVIOUS
<1>0. PICK p : p = Picks(array, keep)
  OBVIOUS
<1>2. c = FlattenSeq(p)
  BY <1>0, <1>1, SameFlattening DEF Reg!Chosen, Picks
<1>3. /\ c \in Seq(Reg!Targets) /\ \A d : d \in ToSet(c) <=> d \in ToSet(array) /\ d \in keep
      /\ Distinct(Id, array) => Distinct(Id, c)
  BY <1>0, <1>2, Choosing
<1> QED
  BY <1>1, <1>3

\* An array with one more destination.
LEMMA OneMore ==
  ASSUME NEW array \in Seq(Reg!Targets), NEW d \in Reg!Targets
  PROVE  /\ Append(array, d) \in Seq(Reg!Targets)
         /\ \A e : e \in ToSet(Append(array, d)) <=> e \in ToSet(array) \/ e = d
         /\ Distinct(Id, array) /\ ~Reg!Has(array, Id[d]) => Distinct(Id, Append(array, d))
<1>1. PICK c : c = Append(array, d)
  OBVIOUS
<1>2. /\ c \in Seq(Reg!Targets) /\ c[Len(array) + 1] = d
      /\ DOMAIN c = DOMAIN array \cup {Len(array) + 1}
      /\ \A i \in DOMAIN array : c[i] = array[i]
  BY <1>1
<1>3. \A e : e \in ToSet(c) <=> e \in ToSet(array) \/ e = d
  BY <1>2 DEF ToSet
<1>4. Distinct(Id, array) /\ ~Reg!Has(array, Id[d]) => Distinct(Id, c)
  BY <1>2 DEF Distinct, Reg!Has
<1> QED
  BY <1>1, <1>2, <1>3, <1>4

\* An identifier is taken by what the array holds.
LEMMA HasIt ==
  ASSUME NEW array, NEW id
  PROVE  Reg!Has(array, id) <=> \E e \in ToSet(array) : Id[e] = id
BY DEF Reg!Has, ToSet

-----------------------------------------------------------------------------
(* Types. *)

\* The types hold at first.
LEMMA TypedInit == Reg!Init => Reg!TypeOK
<1> SUFFICES ASSUME Reg!Init PROVE Reg!TypeOK
  OBVIOUS
<1>1. reg_list \in [Loggers -> Seq(Reg!Targets)]
  BY DEF Reg!Init
<1>2. /\ reg_owner \in [Reg!Targets -> Loggers \cup {Reg!None}]
      /\ reg_hears \in [Reg!Targets -> BOOLEAN]
  BY DEF Reg!Init
<1>3. reg_task \in [Threads -> Reg!Tasks]
  BY DEF Reg!Init, Reg!Tasks
<1>4. reg_attaches \in 0 .. MaxAttaches
  BY AppCallsAssumption DEF Reg!None, Reg!Init
<1>5. reg_overlapped \in BOOLEAN /\ reg_dead \in BOOLEAN
  BY DEF Reg!Init
<1> QED
  BY <1>1, <1>2, <1>3, <1>4, <1>5 DEF Reg!TypeOK

\* A step that only changes what thread t is in the middle of keeps the types.
LEMMA TypedGo ==
  ASSUME Reg!TypeOK, NEW t \in Threads, reg_task' = [reg_task EXCEPT ![t] = reg_task'[t]],
         reg_task'[t] \in Reg!Tasks
  PROVE  reg_task' \in [Threads -> Reg!Tasks]
BY DEF Reg!TypeOK

\* The types hold for ever.
LEMMA TypedNext == Reg!TypeOK /\ [Reg!Next]_registryVars => Reg!TypeOK'
<1> SUFFICES ASSUME Reg!TypeOK, [Reg!Next]_registryVars PROVE Reg!TypeOK'
  OBVIOUS
<1>1. CASE UNCHANGED registryVars
  BY <1>1 DEF registryVars, Reg!TypeOK
<1>2. ASSUME NEW t \in Threads, Reg!Attach(t) PROVE Reg!TypeOK'
  <2>1. PICK l \in Loggers, d \in Reg!Targets, on \in BOOLEAN :
          /\ reg_hears' = [reg_hears EXCEPT ![d] = on]
          /\ reg_task' = [u \in Threads |->
                        IF u = t THEN [at |-> "find", logger |-> l, target |-> d]
                        ELSE IF reg_task[u].at = "log" THEN [reg_task[u] EXCEPT !.due = @ \ {d}]
                        ELSE reg_task[u]]
    BY <1>2 DEF Reg!Attach
  <2>2. [at |-> "find", logger |-> l, target |-> d] \in Reg!Tasks
    BY DEF Reg!Tasks
  <2>3. ASSUME NEW u \in Threads, reg_task[u].at = "log"
        PROVE  [reg_task[u] EXCEPT !.due = @ \ {d}] \in Reg!Tasks
    <3>1. reg_task[u] \in Reg!Logging
      BY <2>3, TaskKinds DEF Reg!TypeOK
    <3>2. [reg_task[u] EXCEPT !.due = @ \ {d}] \in
             Reg!Logging
      BY <3>1
    <3> QED
      BY <3>2 DEF Reg!Tasks
  <2>4. reg_task' \in [Threads -> Reg!Tasks]
    BY <2>1, <2>2, <2>3 DEF Reg!TypeOK
  <2>5. /\ reg_hears' \in [Reg!Targets -> BOOLEAN]
        /\ reg_attaches' \in 0 .. MaxAttaches /\ reg_overlapped' \in BOOLEAN
    <3>1. reg_attaches' \in 0 .. MaxAttaches
      BY <1>2, AppCallsAssumption DEF Reg!None, Reg!TypeOK, Reg!Attach
    <3>2. reg_overlapped' \in BOOLEAN
      BY <1>2 DEF Reg!TypeOK, Reg!Attach
    <3> QED
      BY <2>1, <3>1, <3>2 DEF Reg!TypeOK
  <2> QED
    BY <1>2, <2>4, <2>5 DEF Reg!TypeOK, Reg!Attach
<1>3. ASSUME NEW t \in Threads, Reg!Find(t) PROVE Reg!TypeOK'
  <2>1. reg_task[t] \in Reg!Asking
    BY <1>3, TaskKinds DEF Reg!TypeOK, Reg!Find
  <2>2. reg_task'[t] \in Reg!Tasks
    BY <1>3, <2>1 DEF Reg!TypeOK, Reg!Find, Reg!Go, Reg!AfterFind, Reg!Tasks
  <2>3. reg_task' \in [Threads -> Reg!Tasks]
    BY <1>3, <2>2 DEF Reg!TypeOK, Reg!Find, Reg!Go
  <2> QED
    BY <1>3, <2>3 DEF Reg!TypeOK, Reg!Find
<1>4. ASSUME NEW t \in Threads, Reg!Leave(t) PROVE Reg!TypeOK'
  <2>1. reg_task[t] \in Reg!Asking
    BY <1>4, TaskKinds DEF Reg!TypeOK, Reg!Leave
  <2>2. reg_owner[reg_task[t].target] \in Loggers \cup {Reg!None}
    BY <2>1 DEF Reg!TypeOK
  <2>3. reg_task'[t] \in Reg!Tasks
    BY <1>4, <2>1, <2>2 DEF Reg!TypeOK, Reg!Leave, Reg!Go, Reg!Tasks
  <2>4. reg_task' \in [Threads -> Reg!Tasks]
    BY <1>4, <2>3 DEF Reg!TypeOK, Reg!Leave, Reg!Go
  <2>5. reg_owner' \in [Reg!Targets -> Loggers \cup {Reg!None}]
    BY <1>4, <2>1 DEF Reg!TypeOK, Reg!Leave
  <2> QED
    BY <1>4, <2>4, <2>5 DEF Reg!TypeOK, Reg!Leave
<1>5. ASSUME NEW t \in Threads, Reg!Filter(t) PROVE Reg!TypeOK'
  <2>1. reg_task[t] \in Reg!Removing
    BY <1>5, TaskKinds DEF Reg!TypeOK, Reg!Filter
  <2>2. reg_list[reg_task[t].previous] \in Seq(Reg!Targets)
    BY <2>1 DEF Reg!TypeOK
  <2>3. Reg!WithoutOwnerless(reg_list[reg_task[t].previous]) \in Seq(Reg!Targets)
    BY <2>2, ChosenOnes DEF Reg!WithoutOwnerless
  <2>4. reg_task'[t] \in Reg!Tasks
    BY <1>5, <2>1, <2>3 DEF Reg!TypeOK, Reg!Filter, Reg!Go, Reg!Tasks
  <2>5. reg_task' \in [Threads -> Reg!Tasks]
    BY <1>5, <2>4 DEF Reg!TypeOK, Reg!Filter, Reg!Go
  <2> QED
    BY <1>5, <2>5 DEF Reg!TypeOK, Reg!Filter
<1>6. ASSUME NEW t \in Threads, Reg!Own(t) PROVE Reg!TypeOK'
  <2>1. reg_task[t] \in Reg!Asking
    BY <1>6, TaskKinds DEF Reg!TypeOK, Reg!Own
  <2>2. reg_task'[t] \in Reg!Tasks
    BY <1>6, <2>1 DEF Reg!TypeOK, Reg!Own, Reg!Go, Reg!Tasks
  <2>3. reg_task' \in [Threads -> Reg!Tasks]
    BY <1>6, <2>2 DEF Reg!TypeOK, Reg!Own, Reg!Go
  <2>4. reg_owner' \in [Reg!Targets -> Loggers \cup {Reg!None}]
    BY <1>6, <2>1 DEF Reg!TypeOK, Reg!Own
  <2> QED
    BY <1>6, <2>3, <2>4 DEF Reg!TypeOK, Reg!Own
<1>7. ASSUME NEW t \in Threads, Reg!AppendTarget(t) PROVE Reg!TypeOK'
  <2>1. reg_task[t] \in Reg!Asking
    BY <1>7, TaskKinds DEF Reg!TypeOK, Reg!AppendTarget
  <2>2. reg_list[reg_task[t].logger] \in Seq(Reg!Targets) /\ reg_task[t].target \in Reg!Targets
    BY <2>1 DEF Reg!TypeOK
  <2>3. Append(reg_list[reg_task[t].logger], reg_task[t].target) \in Seq(Reg!Targets)
    BY <2>2, OneMore
  <2>4. reg_task'[t] \in Reg!Tasks
    BY <1>7, <2>1, <2>3 DEF Reg!TypeOK, Reg!AppendTarget, Reg!Go, Reg!Tasks
  <2>5. reg_task' \in [Threads -> Reg!Tasks]
    BY <1>7, <2>4 DEF Reg!TypeOK, Reg!AppendTarget, Reg!Go
  <2> QED
    BY <1>7, <2>5 DEF Reg!TypeOK, Reg!AppendTarget
<1>8. ASSUME NEW t \in Threads, Reg!Store(t) PROVE Reg!TypeOK'
  <2>1. reg_task[t] \in Reg!Storing
    BY <1>8, TaskKinds DEF Reg!TypeOK, Reg!Store
  <2>2. reg_task'[t] \in Reg!Tasks
    BY <1>8, <2>1 DEF Reg!TypeOK, Reg!Store, Reg!Go, Reg!Tasks
  <2>3. reg_task' \in [Threads -> Reg!Tasks]
    BY <1>8, <2>2 DEF Reg!TypeOK, Reg!Store, Reg!Go
  <2>4. reg_list' \in [Loggers -> Seq(Reg!Targets)]
    BY <1>8, <2>1 DEF Reg!TypeOK, Reg!Store
  <2> QED
    BY <1>8, <2>3, <2>4 DEF Reg!TypeOK, Reg!Store
<1>9. ASSUME NEW t \in Threads, Reg!Log(t) PROVE Reg!TypeOK'
  <2>1. PICK l \in Loggers :
           LET enabled == Reg!Chosen(reg_list[l], {d \in Reg!Targets : reg_hears[d]})
           IN  Reg!Go(t, [at |-> "log", logger |-> l, enabled |-> enabled, given |-> <<>>,
                      due |-> {d \in Reg!Targets \ Reg!Moving : reg_owner[d] = l /\ reg_hears[d]}])
    BY <1>9 DEF Reg!Log
  <2>2. Reg!Chosen(reg_list[l], {d \in Reg!Targets : reg_hears[d]}) \in Seq(Reg!Targets)
    BY ChosenOnes DEF Reg!TypeOK
  <2>3. /\ <<>> \in Seq(Reg!Targets)
        /\ {d \in Reg!Targets \ Reg!Moving : reg_owner[d] = l /\ reg_hears[d]} \in SUBSET Reg!Targets
    OBVIOUS
  <2>4. reg_task'[t] \in Reg!Logging
    BY <2>1, <2>2, <2>3 DEF Reg!TypeOK, Reg!Go
  <2>5. reg_task' \in [Threads -> Reg!Tasks]
    BY <2>1, <2>4 DEF Reg!TypeOK, Reg!Tasks, Reg!Go
  <2> QED
    BY <1>9, <2>5 DEF Reg!TypeOK, Reg!Log
<1>10. ASSUME NEW t \in Threads, Reg!Deliver(t) PROVE Reg!TypeOK'
  <2>1. reg_task[t] \in Reg!Logging
    BY <1>10, TaskKinds DEF Reg!TypeOK, Reg!Deliver
  <2>2. /\ Tail(reg_task[t].enabled) \in Seq(Reg!Targets)
        /\ Append(reg_task[t].given, Head(reg_task[t].enabled)) \in Seq(Reg!Targets)
    BY <1>10, <2>1 DEF Reg!Deliver
  <2>3. reg_task'[t] \in Reg!Logging
    BY <1>10, <2>1, <2>2 DEF Reg!TypeOK, Reg!Deliver, Reg!Go
  <2>4. reg_task' \in [Threads -> Reg!Tasks]
    BY <1>10, <2>3 DEF Reg!TypeOK, Reg!Tasks, Reg!Deliver, Reg!Go
  <2> QED
    BY <1>10, <2>4 DEF Reg!TypeOK, Reg!Deliver
<1>11. ASSUME NEW t \in Threads, Reg!EndLog(t) \/ Reg!Torn(t) PROVE Reg!TypeOK'
  <2>1. CASE Reg!EndLog(t)
    <3>1. reg_task' \in [Threads -> Reg!Tasks]
      BY <2>1 DEF Reg!TypeOK, Reg!Tasks, Reg!EndLog, Reg!Go
    <3> QED
      BY <2>1, <3>1 DEF Reg!TypeOK, Reg!EndLog
  <2> QED
    BY <1>11, <2>1 DEF Reg!TypeOK, Reg!Torn
<1> QED
  BY <1>1, <1>2, <1>3, <1>4, <1>5, <1>6, <1>7, <1>8, <1>9, <1>10, <1>11 DEF Reg!Next
-----------------------------------------------------------------------------
(* Who owns what. *)

\* What the process has before anything is attached.
LEMMA OwnedInit == Reg!Init => OwnInv
<1> SUFFICES ASSUME Reg!Init PROVE Owned
  BY DEF OwnInv
<1>1. \A t \in Threads : ~Reg!Attaching(t)
  BY DEF Reg!Init, Reg!Attaching, Reg!Idle
<1>2. \A l \in Loggers : reg_list[l] = <<>> /\ Distinct(Id, reg_list[l])
  BY DEF Reg!Init, Distinct
<1>3. \A d \in Reg!Targets : Alone(d)
  BY <1>2, AppCallsAssumption DEF Reg!Init, Alone, ToSet, Reg!None
<1> QED
  BY <1>1, <1>2, <1>3 DEF Owned, OneMover, Reg!Moving

\* While one destination is attached, it alone is on the move.
LEMMA TheMover ==
  ASSUME OneMover, NEW t \in Threads, Reg!Attaching(t)
  PROVE  Reg!Moving = {reg_task[t].target}
BY DEF OneMover, Reg!Moving

\* A step that leaves the arrays, the owners and whoever attaches alone.
LEMMA OwnedQuiet ==
  ASSUME OwnInv, UNCHANGED <<reg_list, reg_owner, reg_overlapped>>,
         \A t \in Threads : /\ Reg!Attaching(t)' <=> Reg!Attaching(t)
                            /\ Reg!Attaching(t) => reg_task'[t] = reg_task[t]
  PROVE  OwnInv'
<1> SUFFICES ASSUME Owned PROVE Owned'
  BY DEF OwnInv
<1>1. OneMover'
  BY DEF Owned, OneMover
<1>2. Reg!Moving' = Reg!Moving
  BY DEF Reg!Moving
<1>3. \A l \in Loggers : Distinct(Id, reg_list'[l])
  BY DEF Owned
<1>4. \A d \in Reg!Targets \ Reg!Moving' : Alone(d)'
  BY <1>2 DEF Owned, Alone
<1>5. \A t \in Threads : Reg!Attaching(t)' => Placed(reg_task[t])'
  BY DEF Owned, Placed, Alone, Nowhere
<1> QED
  BY <1>1, <1>3, <1>4, <1>5 DEF Owned

\* A step of the thread that attaches: it places its destination, and moves no other.
LEMMA OwnedMove ==
  ASSUME Reg!TypeOK, Owned, NEW t \in Threads, Reg!Attaching(t),
         NEW d \in Reg!Targets, d = reg_task[t].target,
         reg_task' = [reg_task EXCEPT ![t] = reg_task'[t]],
         reg_task'[t] # Reg!Idle => reg_task'[t].at \in Busy /\ reg_task'[t].target = d,
         \A l \in Loggers : Distinct(Id, reg_list'[l]),
         \A e \in Reg!Targets : e # d => Alone(e)',
         reg_task'[t] = Reg!Idle => Alone(d)',
         reg_task'[t] # Reg!Idle => Placed(reg_task[t])'
  PROVE  Owned'
<1>1. \A u \in Threads \ {t} : reg_task'[u] = reg_task[u] /\ ~Reg!Attaching(u) /\ ~Reg!Attaching(u)'
  BY DEF Owned, OneMover, Reg!TypeOK, Reg!Attaching
<1>2. OneMover'
  BY <1>1 DEF OneMover
<1>3. Reg!Attaching(t)' <=> reg_task'[t] # Reg!Idle
  BY DEF Reg!Attaching, Reg!Idle, Busy
<1>4. \A e \in Reg!Targets \ Reg!Moving' : Alone(e)'
  <2>1. CASE reg_task'[t] = Reg!Idle
    BY <2>1
  <2>2. CASE reg_task'[t] # Reg!Idle
    <3>1. d \in Reg!Moving'
      BY <1>3, <2>2 DEF Reg!Moving, Reg!Idle
    <3> QED
      BY <3>1
  <2> QED
    BY <2>1, <2>2
<1>5. \A u \in Threads : Reg!Attaching(u)' => Placed(reg_task[u])'
  BY <1>1, <1>3
<1> QED
  BY <1>2, <1>4, <1>5 DEF Owned

\* A destination is put on the move where it is.
LEMMA OwnedAttach ==
  ASSUME Reg!TypeOK, OwnInv, NEW t \in Threads, Reg!Attach(t)
  PROVE  OwnInv'
<1> SUFFICES ASSUME ~reg_overlapped' PROVE Owned'
  BY DEF OwnInv
<1>1. Owned /\ \A u \in Threads : ~Reg!Attaching(u)
  BY DEF Reg!Attach, OwnInv
<1>2. PICK l \in Loggers, d \in Reg!Targets :
          reg_task' = [u \in Threads |->
                     IF u = t THEN [at |-> "find", logger |-> l, target |-> d]
                     ELSE IF reg_task[u].at = "log" THEN [reg_task[u] EXCEPT !.due = @ \ {d}]
                     ELSE reg_task[u]]
  BY DEF Reg!Attach
<1>3. ASSUME NEW u \in Threads, u # t PROVE ~Reg!Attaching(u)'
  <2>1. reg_task'[u] = IF reg_task[u].at = "log" THEN [reg_task[u] EXCEPT !.due = @ \ {d}]
                                         ELSE reg_task[u]
    BY <1>2, <1>3
  <2>2. CASE reg_task[u].at = "log"
    <3>1. reg_task[u] \in Reg!Logging
      BY <2>2, TaskKinds DEF Reg!TypeOK
    <3>2. reg_task'[u].at = "log"
      BY <2>1, <2>2, <3>1
    <3> QED
      BY <3>2 DEF Reg!Attaching
  <2> QED
    BY <1>1, <2>1, <2>2 DEF Reg!Attaching
<1>4. \A e \in Reg!Targets : Alone(e)'
  <2>1. Reg!Moving = {}
    BY <1>1 DEF Reg!Moving
  <2> QED
    BY <1>1, <2>1 DEF Owned, Alone, Reg!Attach
<1>5. OneMover'
  BY <1>3 DEF OneMover
<1>6. Placed(reg_task[t])'
  BY <1>2, <1>4 DEF Placed
<1>7. \A m \in Loggers : Distinct(Id, reg_list'[m])
  BY <1>1 DEF Owned, Reg!Attach
<1>8. \A u \in Threads : Reg!Attaching(u)' => Placed(reg_task[u])'
  BY <1>3, <1>6
<1> QED
  BY <1>4, <1>5, <1>7, <1>8 DEF Owned

\* The destination is refused, or goes on from the logger it is with.
LEMMA OwnedFind ==
  ASSUME Reg!TypeOK, OwnInv, NEW t \in Threads, Reg!Find(t)
  PROVE  OwnInv'
<1> SUFFICES ASSUME Owned PROVE Owned'
  BY DEF OwnInv, Reg!Find
<1>1. PICK k : k = reg_task[t]
  OBVIOUS
<1>2. /\ k \in Reg!Asking
      /\ Reg!Attaching(t) /\ k.at = "find"
  BY <1>1, TaskKinds DEF Reg!TypeOK, Reg!Find, Reg!Attaching
<1>3. Placed(k)
  BY <1>1, <1>2 DEF Owned
<1>4. PICK d \in Reg!Targets : d = k.target
  BY <1>2
<1>5. Alone(d)
  BY <1>2, <1>3, <1>4 DEF Placed
<1>6. UNCHANGED <<reg_list, reg_owner, reg_overlapped>>
  BY DEF Reg!Find
<1>7. Reg!Moving = {d}
  BY <1>1, <1>2, <1>4, TheMover DEF Owned
<1>8. \A e \in Reg!Targets : Alone(e)'
  BY <1>5, <1>6, <1>7 DEF Owned, Alone
<1>9. \A l \in Loggers : Distinct(Id, reg_list'[l])
  BY <1>6 DEF Owned
<1>10. /\ reg_task' = [reg_task EXCEPT ![t] = reg_task'[t]]
       /\ Reg!Taken(k) => reg_task'[t] = Reg!Idle
       /\ ~Reg!Taken(k) => reg_task'[t] = [k EXCEPT !.at = Reg!AfterFind(k)]
  BY <1>1 DEF Reg!Find, Reg!Go, Reg!TypeOK
<1>11. CASE Reg!Taken(k)
  BY <1>1, <1>2, <1>4, <1>8, <1>9, <1>10, <1>11, OwnedMove
<1>12. CASE ~Reg!Taken(k)
  <2>1. PICK n : n = reg_task'[t]
    OBVIOUS
  <2>2. /\ n.logger = k.logger /\ n.target = d /\ n.at \in {"own", "leave"}
        /\ n.at = "own" => reg_owner[d] = Reg!None
        /\ n.at = "leave" => reg_owner[d] # Reg!None
    BY <1>2, <1>4, <1>10, <1>12, <2>1 DEF Reg!AfterFind
  <2>3. ~Reg!Has(reg_list[k.logger], Id[d])
    BY <1>4, <1>12 DEF Reg!Taken
  <2>4. reg_owner[d] = Reg!None => Nowhere(d)
    BY <1>5, AppCallsAssumption DEF Reg!None, Alone, Nowhere
  <2>5. Placed(n)
    BY <1>5, <2>2, <2>3, <2>4 DEF Placed
  <2>6. Placed(reg_task[t])'
    BY <1>6, <2>1, <2>5 DEF Placed, Alone, Nowhere
  <2>7. n # Reg!Idle /\ n.at \in Busy
    BY <2>2 DEF Reg!Idle, Busy
  <2> QED
    BY <1>1, <1>2, <1>4, <1>8, <1>9, <1>10, <2>1, <2>2, <2>6, <2>7, OwnedMove
<1> QED
  BY <1>11, <1>12

\* The owner is cleared: the destination is on the array of the previous one only.
LEMMA OwnedLeave ==
  ASSUME Reg!TypeOK, OwnInv, NEW t \in Threads, Reg!Leave(t)
  PROVE  OwnInv'
<1> SUFFICES ASSUME Owned PROVE Owned'
  BY DEF OwnInv, Reg!Leave
<1>1. PICK k : k = reg_task[t]
  OBVIOUS
<1>2. /\ k \in Reg!Asking
      /\ Reg!Attaching(t) /\ k.at = "leave"
  BY <1>1, TaskKinds DEF Reg!TypeOK, Reg!Leave, Reg!Attaching
<1>3. Placed(k)
  BY <1>1, <1>2 DEF Owned
<1>4. PICK d \in Reg!Targets : d = k.target
  BY <1>2
<1>5. Alone(d) /\ reg_owner[d] # Reg!None /\ ~Reg!Has(reg_list[k.logger], Id[d])
  BY <1>2, <1>3, <1>4 DEF Placed
<1>6. PICK previous \in Loggers : previous = reg_owner[d]
  BY <1>5 DEF Reg!TypeOK
<1>7. Reg!Has(reg_list[previous], Id[d])
  BY <1>5, <1>6, HasIt DEF Alone
<1>8. /\ reg_owner' = [reg_owner EXCEPT ![d] = Reg!None]
      /\ Reg!Go(t, [at |-> "filter", logger |-> k.logger, target |-> d, previous |-> previous])
      /\ UNCHANGED <<reg_list, reg_overlapped>>
  BY <1>1, <1>4, <1>5, <1>6, <1>7 DEF Reg!Leave
<1>9. /\ reg_task' = [reg_task EXCEPT ![t] = reg_task'[t]]
      /\ reg_task'[t] = [at |-> "filter", logger |-> k.logger, target |-> d, previous |-> previous]
  BY <1>8 DEF Reg!Go, Reg!TypeOK
<1>10. Reg!Moving = {d}
  BY <1>1, <1>2, <1>4, TheMover DEF Owned
<1>11. \A e \in Reg!Targets : e # d => Alone(e)'
  BY <1>8, <1>10 DEF Owned, Alone, Reg!TypeOK
<1>12. \A l \in Loggers : Distinct(Id, reg_list'[l])
  BY <1>8 DEF Owned
<1>13. reg_owner'[d] = Reg!None /\ \A l \in Loggers : d \in ToSet(reg_list'[l]) => l = previous
  BY <1>5, <1>6, <1>8 DEF Alone, Reg!TypeOK
<1>14. ~Reg!Has(reg_list'[k.logger], Id[d])
  BY <1>5, <1>8
<1>15. Placed(reg_task[t])'
  BY <1>9, <1>13, <1>14 DEF Placed
<1>16. reg_task'[t] # Reg!Idle /\ reg_task'[t].at \in Busy /\ reg_task'[t].target = d
  BY <1>9 DEF Reg!Idle, Busy
<1> QED
  BY <1>1, <1>2, <1>4, <1>9, <1>11, <1>12, <1>15, <1>16, OwnedMove

\* The array made without what has no owner is the one there is, without the destination.
LEMMA OwnedFilter ==
  ASSUME Reg!TypeOK, OwnInv, NEW t \in Threads, Reg!Filter(t)
  PROVE  OwnInv'
<1> SUFFICES ASSUME Owned PROVE Owned'
  BY DEF OwnInv, Reg!Filter
<1>1. PICK k : k = reg_task[t]
  OBVIOUS
<1>2. /\ k \in Reg!Removing
      /\ Reg!Attaching(t) /\ k.at = "filter"
  BY <1>1, TaskKinds DEF Reg!TypeOK, Reg!Filter, Reg!Attaching
<1>3. Placed(k)
  BY <1>1, <1>2 DEF Owned
<1>4. PICK d \in Reg!Targets : d = k.target
  BY <1>2
<1>5. /\ reg_owner[d] = Reg!None /\ ~Reg!Has(reg_list[k.logger], Id[d])
      /\ \A l \in Loggers : d \in ToSet(reg_list[l]) => l = k.previous
  BY <1>2, <1>3, <1>4 DEF Placed
<1>6. PICK c : c = Reg!WithoutOwnerless(reg_list[k.previous])
  OBVIOUS
<1>7. /\ reg_task' = [reg_task EXCEPT ![t] = reg_task'[t]]
      /\ UNCHANGED <<reg_list, reg_owner, reg_overlapped>>
      /\ reg_task'[t] = [at |-> "store", logger |-> k.logger, target |-> d, next |-> "own",
                     into |-> k.previous, array |-> c]
  BY <1>1, <1>4, <1>6 DEF Reg!Filter, Reg!Go, Reg!TypeOK
<1>8. Reg!Moving = {d}
  BY <1>1, <1>2, <1>4, TheMover DEF Owned
<1>9. reg_list[k.previous] \in Seq(Reg!Targets) /\ Distinct(Id, reg_list[k.previous])
  BY <1>2 DEF Reg!TypeOK, Owned
<1>10. /\ \A e : e \in ToSet(c) <=>
                  e \in ToSet(reg_list[k.previous]) /\
                  e \in {x \in Reg!Targets : reg_owner[x] # Reg!None}
       /\ Distinct(Id, c)
  BY <1>6, <1>9, ChosenOnes DEF Reg!WithoutOwnerless
<1>11. \A e \in Reg!Targets : e # d /\ e \in ToSet(reg_list[k.previous]) => reg_owner[e] # Reg!None
  BY <1>2, <1>8, AppCallsAssumption DEF Reg!None, Owned, Alone
<1>12. \A e \in Reg!Targets : e \in ToSet(c) <=> e \in ToSet(reg_list[k.previous]) /\ e # d
  BY <1>5, <1>10, <1>11
<1>13. Placed(reg_task[t])'
  BY <1>5, <1>7, <1>10, <1>12 DEF Placed
<1>14. \A e \in Reg!Targets : e # d => Alone(e)'
  BY <1>7, <1>8 DEF Owned, Alone
<1>15. \A l \in Loggers : Distinct(Id, reg_list'[l])
  BY <1>7 DEF Owned
<1>16. reg_task'[t] # Reg!Idle /\ reg_task'[t].at \in Busy /\ reg_task'[t].target = d
  BY <1>7 DEF Reg!Idle, Busy
<1> QED
  BY <1>1, <1>2, <1>4, <1>7, <1>13, <1>14, <1>15, <1>16, OwnedMove

\* The new owner is set before its array has the destination.
LEMMA OwnedOwn ==
  ASSUME Reg!TypeOK, OwnInv, NEW t \in Threads, Reg!Own(t)
  PROVE  OwnInv'
<1> SUFFICES ASSUME Owned PROVE Owned'
  BY DEF OwnInv, Reg!Own
<1>1. PICK k : k = reg_task[t]
  OBVIOUS
<1>2. /\ k \in Reg!Asking
      /\ Reg!Attaching(t) /\ k.at = "own"
  BY <1>1, TaskKinds DEF Reg!TypeOK, Reg!Own, Reg!Attaching
<1>3. Placed(k)
  BY <1>1, <1>2 DEF Owned
<1>4. PICK d \in Reg!Targets : d = k.target
  BY <1>2
<1>5. Nowhere(d) /\ ~Reg!Has(reg_list[k.logger], Id[d])
  BY <1>2, <1>3, <1>4 DEF Placed
<1>6. /\ reg_task' = [reg_task EXCEPT ![t] = reg_task'[t]] /\ UNCHANGED <<reg_list, reg_overlapped>>
      /\ reg_task'[t] = [k EXCEPT !.at = "append"]
      /\ reg_owner' = [reg_owner EXCEPT ![d] = k.logger]
  BY <1>1, <1>4 DEF Reg!Own, Reg!Go, Reg!TypeOK
<1>7. Reg!Moving = {d}
  BY <1>1, <1>2, <1>4, TheMover DEF Owned
<1>8. reg_task'[t].at = "append" /\ reg_task'[t].target = d /\ reg_task'[t].logger = k.logger
  BY <1>2, <1>4, <1>6
<1>9. reg_owner'[d] = k.logger
  BY <1>6 DEF Reg!TypeOK
<1>10. Placed(reg_task[t])'
  BY <1>5, <1>6, <1>8, <1>9 DEF Placed, Nowhere
<1>11. \A e \in Reg!Targets : e # d => Alone(e)'
  BY <1>6, <1>7 DEF Owned, Alone, Reg!TypeOK
<1>12. \A l \in Loggers : Distinct(Id, reg_list'[l])
  BY <1>6 DEF Owned
<1>13. reg_task'[t] # Reg!Idle /\ reg_task'[t].at \in Busy
  BY <1>8 DEF Reg!Idle, Busy
<1> QED
  BY <1>1, <1>2, <1>4, <1>6, <1>8, <1>10, <1>11, <1>12, <1>13, OwnedMove

\* The array made is the one there is with the destination, whose identifier is free.
LEMMA OwnedAppend ==
  ASSUME Reg!TypeOK, OwnInv, NEW t \in Threads, Reg!AppendTarget(t)
  PROVE  OwnInv'
<1> SUFFICES ASSUME Owned PROVE Owned'
  BY DEF OwnInv, Reg!AppendTarget
<1>1. PICK k : k = reg_task[t]
  OBVIOUS
<1>2. /\ k \in Reg!Asking
      /\ Reg!Attaching(t) /\ k.at = "append"
  BY <1>1, TaskKinds DEF Reg!TypeOK, Reg!AppendTarget, Reg!Attaching
<1>3. Placed(k)
  BY <1>1, <1>2 DEF Owned
<1>4. PICK d \in Reg!Targets : d = k.target
  BY <1>2
<1>5. Nowhere(d) /\ reg_owner[d] = k.logger /\ ~Reg!Has(reg_list[k.logger], Id[d])
  BY <1>2, <1>3, <1>4 DEF Placed
<1>6. PICK c : c = Append(reg_list[k.logger], d)
  OBVIOUS
<1>7. /\ reg_task' = [reg_task EXCEPT ![t] = reg_task'[t]]
      /\ UNCHANGED <<reg_list, reg_owner, reg_overlapped>>
      /\ reg_task'[t] = [at |-> "store", logger |-> k.logger, target |-> d, next |-> "idle",
                     into |-> k.logger, array |-> c]
  BY <1>1, <1>4, <1>6 DEF Reg!AppendTarget, Reg!Go, Reg!TypeOK
<1>8. Reg!Moving = {d}
  BY <1>1, <1>2, <1>4, TheMover DEF Owned
<1>9. reg_list[k.logger] \in Seq(Reg!Targets) /\ Distinct(Id, reg_list[k.logger])
  BY <1>2 DEF Reg!TypeOK, Owned
<1>10. (\A e : e \in ToSet(c) <=> e \in ToSet(reg_list[k.logger]) \/ e = d) /\ Distinct(Id, c)
  BY <1>5, <1>6, <1>9, OneMore
<1>11. Placed(reg_task[t])'
  BY <1>5, <1>7, <1>10 DEF Placed, Nowhere
<1>12. \A e \in Reg!Targets : e # d => Alone(e)'
  BY <1>7, <1>8 DEF Owned, Alone
<1>13. \A l \in Loggers : Distinct(Id, reg_list'[l])
  BY <1>7 DEF Owned
<1>14. reg_task'[t] # Reg!Idle /\ reg_task'[t].at \in Busy /\ reg_task'[t].target = d
  BY <1>7 DEF Reg!Idle, Busy
<1> QED
  BY <1>1, <1>2, <1>4, <1>7, <1>11, <1>12, <1>13, <1>14, OwnedMove

\* The array that is stored has the others where they were.
LEMMA OwnedStore ==
  ASSUME Reg!TypeOK, OwnInv, NEW t \in Threads, Reg!Store(t)
  PROVE  OwnInv'
<1> SUFFICES ASSUME Owned PROVE Owned'
  BY DEF OwnInv, Reg!Store
<1>1. PICK k : k = reg_task[t]
  OBVIOUS
<1>2. /\ k \in Reg!Storing
      /\ Reg!Attaching(t) /\ k.at = "store"
  BY <1>1, TaskKinds DEF Reg!TypeOK, Reg!Store, Reg!Attaching
<1>3. Placed(k)
  BY <1>1, <1>2 DEF Owned
<1>4. PICK d \in Reg!Targets : d = k.target
  BY <1>2
<1>5. Distinct(Id, k.array) /\ ~Reg!Has(reg_list[k.logger], Id[d])
  BY <1>2, <1>3, <1>4 DEF Placed
<1>6. /\ reg_task' = [reg_task EXCEPT ![t] = reg_task'[t]]
      /\ UNCHANGED <<reg_owner, reg_overlapped>>
      /\ k.next = "idle" => reg_task'[t] = Reg!Idle
      /\ k.next # "idle" => reg_task'[t] = [at |-> "own", logger |-> k.logger, target |-> d]
      /\ reg_list' = [reg_list EXCEPT ![k.into] = k.array]
  BY <1>1, <1>4 DEF Reg!Store, Reg!Go, Reg!TypeOK
<1>7. Reg!Moving = {d}
  BY <1>1, <1>2, <1>4, TheMover DEF Owned
<1>8. \A l \in Loggers : reg_list'[l] = IF l = k.into THEN k.array ELSE reg_list[l]
  BY <1>6 DEF Reg!TypeOK
<1>9. \A l \in Loggers : Distinct(Id, reg_list'[l])
  BY <1>5, <1>8 DEF Owned
<1>10. CASE k.next = "own"
  <2>1. /\ reg_owner[d] = Reg!None /\ \A l \in Loggers : d \in ToSet(reg_list[l]) => l = k.into
        /\ \A e \in Reg!Targets : e \in ToSet(k.array) <=> e \in ToSet(reg_list[k.into]) /\ e # d
    BY <1>2, <1>3, <1>4, <1>10 DEF Placed
  <2>2. \A l \in Loggers : \A e \in Reg!Targets :
           e \in ToSet(reg_list'[l]) <=> e \in ToSet(reg_list[l]) /\ e # d
    BY <1>8, <2>1
  <2>3. \A e \in Reg!Targets : e # d => Alone(e)'
    BY <1>6, <1>7, <2>2 DEF Owned, Alone
  <2>4. Nowhere(d)'
    BY <2>2 DEF Nowhere
  <2>5. ~Reg!Has(reg_list'[k.logger], Id[d])
    <3>1. CASE k.logger = k.into
      <4>1. \A e \in ToSet(k.array) : e \in ToSet(reg_list[k.logger])
        <5>1. \A e \in ToSet(k.array) : e \in Reg!Targets
          BY <1>2 DEF ToSet
        <5> QED
          BY <2>1, <3>1, <5>1
      <4>2. reg_list'[k.logger] = k.array
        BY <1>2, <1>8, <3>1
      <4> QED
        BY <1>5, <4>1, <4>2, HasIt
    <3>2. CASE k.logger # k.into
      <4>1. reg_list'[k.logger] = reg_list[k.logger]
        BY <1>2, <1>8, <3>2
      <4> QED
        BY <1>5, <4>1
    <3> QED
      BY <3>1, <3>2
  <2>6. reg_task'[t] = [at |-> "own", logger |-> k.logger, target |-> d]
    BY <1>6, <1>10
  <2>7. Placed(reg_task[t])'
    BY <1>6, <2>1, <2>4, <2>5, <2>6 DEF Placed
  <2>8. reg_task'[t] # Reg!Idle /\ reg_task'[t].at \in Busy /\ reg_task'[t].target = d
    BY <2>6 DEF Reg!Idle, Busy
  <2> QED
    BY <1>1, <1>2, <1>4, <1>6, <1>9, <2>3, <2>7, <2>8, OwnedMove
<1>11. CASE k.next = "idle"
  <2>1. /\ k.into = k.logger /\ reg_owner[d] = k.logger /\ Nowhere(d)
        /\ \A e \in Reg!Targets : e \in ToSet(k.array) <=> e \in ToSet(reg_list[k.into]) \/ e = d
    BY <1>2, <1>3, <1>4, <1>11 DEF Placed
  <2>2. \A e \in Reg!Targets : e # d => Alone(e)'
    <3>1. \A l \in Loggers : \A e \in Reg!Targets :
             e # d => (e \in ToSet(reg_list'[l]) <=> e \in ToSet(reg_list[l]))
      BY <1>8, <2>1
    <3> QED
      BY <1>6, <1>7, <3>1 DEF Owned, Alone
  <2>3. Alone(d)'
    BY <1>2, <1>6, <1>8, <2>1 DEF Alone, Nowhere
  <2>4. reg_task'[t] = Reg!Idle
    BY <1>6, <1>11
  <2> QED
    BY <1>1, <1>2, <1>4, <1>6, <1>9, <2>2, <2>3, <2>4, OwnedMove
<1> QED
  BY <1>2, <1>10, <1>11

\* What a logger has is with its owner only, in every step.
LEMMA OwnedNext == Reg!TypeOK /\ OwnInv /\ [Reg!Next]_registryVars => OwnInv'
<1> SUFFICES ASSUME Reg!TypeOK, OwnInv, [Reg!Next]_registryVars PROVE OwnInv'
  OBVIOUS
<1>1. ASSUME UNCHANGED <<reg_list, reg_owner, reg_task, reg_overlapped>> PROVE OwnInv'
  BY <1>1, OwnedQuiet DEF Reg!Attaching
<1>2. ASSUME NEW t \in Threads, Reg!Log(t) \/ Reg!Deliver(t) \/ Reg!EndLog(t) PROVE OwnInv'
  <2>1. ~Reg!Attaching(t)
    BY <1>2 DEF Reg!Log, Reg!Deliver, Reg!EndLog, Reg!Attaching, Reg!Idle
  <2>2. UNCHANGED <<reg_list, reg_owner, reg_overlapped>>
    BY <1>2 DEF Reg!Log, Reg!Deliver, Reg!EndLog
  <2>3. \A u \in Threads : u # t => reg_task'[u] = reg_task[u]
    BY <1>2 DEF Reg!Log, Reg!Deliver, Reg!EndLog, Reg!Go, Reg!TypeOK
  <2>4. ~Reg!Attaching(t)'
    <3>1. CASE Reg!Log(t)
      <4>1. reg_task'[t].at = "log"
        BY <3>1 DEF Reg!Log, Reg!Go, Reg!TypeOK
      <4> QED
        BY <4>1 DEF Reg!Attaching
    <3>2. CASE Reg!Deliver(t)
      <4>1. reg_task[t] \in Reg!Logging
        BY <3>2, TaskKinds DEF Reg!TypeOK, Reg!Deliver
      <4>2. reg_task'[t].at = "log"
        BY <3>2, <4>1 DEF Reg!Deliver, Reg!Go, Reg!TypeOK
      <4> QED
        BY <4>2 DEF Reg!Attaching
    <3>3. CASE Reg!EndLog(t)
      BY <3>3 DEF Reg!EndLog, Reg!Go, Reg!TypeOK, Reg!Attaching, Reg!Idle
    <3> QED
      BY <1>2, <3>1, <3>2, <3>3
  <2>5. \A u \in Threads : /\ Reg!Attaching(u)' <=> Reg!Attaching(u)
                           /\ Reg!Attaching(u) => reg_task'[u] = reg_task[u]
    BY <2>1, <2>3, <2>4 DEF Reg!Attaching
  <2> QED
    BY <2>2, <2>5, OwnedQuiet
<1>3. ASSUME NEW t \in Threads, Reg!Torn(t) PROVE OwnInv'
  BY <1>1, <1>3 DEF Reg!Torn
<1> QED
  BY <1>1, <1>2, <1>3, OwnedAttach, OwnedFind, OwnedLeave, OwnedFilter, OwnedOwn, OwnedAppend,
     OwnedStore
     DEF Reg!Next, registryVars

-----------------------------------------------------------------------------
(* What a line is given to. *)

\* No two elements are the same.
Unrepeated(c) == \A i, j \in DOMAIN c : c[i] = c[j] => i = j

\* A call that has given its line to k.given, and will give it to k.enabled.
Served(k) ==
    \A c : c = k.given \o k.enabled => Unrepeated(c) /\ k.due \subseteq ToSet(c)

GivenInv == ~reg_overlapped => \A t \in Threads : reg_task[t].at = "log" => Served(reg_task[t])

\* A call starts with the array of the logger, and owes the line to those on it.
LEMMA GivenLog ==
  ASSUME Reg!TypeOK, Owned, NEW t \in Threads, Reg!Log(t)
  PROVE  Served(reg_task'[t])
<1>1. PICK l \in Loggers :
         LET enabled == Reg!Chosen(reg_list[l], {d \in Reg!Targets : reg_hears[d]})
         IN  Reg!Go(t, [at |-> "log", logger |-> l, enabled |-> enabled, given |-> <<>>,
                    due |-> {d \in Reg!Targets \ Reg!Moving : reg_owner[d] = l /\ reg_hears[d]}])
  BY DEF Reg!Log
<1>2. PICK c : c = Reg!Chosen(reg_list[l], {d \in Reg!Targets : reg_hears[d]})
  OBVIOUS
<1>3. /\ reg_task'[t].given = <<>> /\ reg_task'[t].enabled = c
      /\ reg_task'[t].due = {d \in Reg!Targets \ Reg!Moving : reg_owner[d] = l /\ reg_hears[d]}
  BY <1>1, <1>2 DEF Reg!Go, Reg!TypeOK
<1>4. reg_list[l] \in Seq(Reg!Targets) /\ Distinct(Id, reg_list[l])
  BY DEF Reg!TypeOK, Owned
<1>5. /\ c \in Seq(Reg!Targets) /\ Distinct(Id, c)
      /\ \A d : d \in ToSet(c) <=>
               d \in ToSet(reg_list[l]) /\ d \in {x \in Reg!Targets : reg_hears[x]}
  BY <1>2, <1>4, ChosenOnes
<1>6. <<>> \o c = c
  BY <1>5
<1>7. Unrepeated(c)
  BY <1>5 DEF Distinct, Unrepeated
<1>8. reg_task'[t].due \subseteq ToSet(c)
  BY <1>3, <1>5 DEF Owned, Alone
<1> QED
  BY <1>3, <1>6, <1>7, <1>8 DEF Served

\* What is given a line has been next, and nothing else changes.
LEMMA GivenDeliver ==
  ASSUME Reg!TypeOK, NEW t \in Threads, Reg!Deliver(t), Served(reg_task[t])
  PROVE  Served(reg_task'[t])
<1>1. PICK k : k = reg_task[t]
  OBVIOUS
<1>2. k \in Reg!Logging
  BY <1>1, TaskKinds DEF Reg!TypeOK, Reg!Deliver
<1>3. PICK g \in Seq(Reg!Targets), e \in Seq(Reg!Targets) : g = k.given /\ e = k.enabled /\ e # <<>>
  BY <1>1, <1>2 DEF Reg!Deliver
<1>4. /\ reg_task'[t].given = Append(g, Head(e)) /\ reg_task'[t].enabled = Tail(e)
      /\ reg_task'[t].due = k.due
  BY <1>1, <1>2, <1>3 DEF Reg!Deliver, Reg!Go, Reg!TypeOK
<1>5. Append(g, Head(e)) \o Tail(e) = g \o e
  <2>1. /\ Head(e) \in Reg!Targets
        /\ Tail(e) \in Seq(Reg!Targets) /\ <<Head(e)>> \in Seq(Reg!Targets)
        /\ <<Head(e)>> \o Tail(e) = e
    BY <1>3
  <2>2. Append(g, Head(e)) = g \o <<Head(e)>>
    BY <2>1, AppendIsConcat
  <2> QED
    BY <2>1, <2>2, ConcatAssociative
<1> QED
  BY <1>1, <1>3, <1>4, <1>5 DEF Served

\* A line is given once to every destination it is owed, in every step.
LEMMA GivenNext == Reg!TypeOK /\ OwnInv /\ GivenInv /\ [Reg!Next]_registryVars => GivenInv'
<1> SUFFICES ASSUME Reg!TypeOK, OwnInv, GivenInv, [Reg!Next]_registryVars, ~reg_overlapped' PROVE
       \A u \in Threads : reg_task'[u].at = "log" => Served(reg_task'[u])
  BY DEF GivenInv
<1>1. ~reg_overlapped
  BY DEF Reg!Next, registryVars, Reg!Attach, Reg!Find, Reg!Leave, Reg!Filter, Reg!Own,
     Reg!AppendTarget, Reg!Store, Reg!Log, Reg!Deliver, Reg!EndLog, Reg!Torn
<1>2. SUFFICES ASSUME NEW u \in Threads, reg_task'[u].at = "log" PROVE Served(reg_task'[u])
  OBVIOUS
<1>3. CASE reg_task'[u] = reg_task[u]
  BY <1>1, <1>2, <1>3 DEF GivenInv
<1>4. ASSUME NEW t \in Threads, Reg!Attach(t) PROVE Served(reg_task'[u])
  <2>1. PICK l \in Loggers, d \in Reg!Targets :
          reg_task' = [v \in Threads |->
                     IF v = t THEN [at |-> "find", logger |-> l, target |-> d]
                     ELSE IF reg_task[v].at = "log" THEN [reg_task[v] EXCEPT !.due = @ \ {d}]
                     ELSE reg_task[v]]
    BY <1>4 DEF Reg!Attach
  <2>2. u # t
    BY <1>2, <2>1
  <2>3. CASE reg_task[u].at = "log"
    <3>1. reg_task[u] \in Reg!Logging
      BY <2>3, TaskKinds DEF Reg!TypeOK
    <3>2. reg_task'[u] = [reg_task[u] EXCEPT !.due = @ \ {d}]
      BY <2>1, <2>2, <2>3
    <3>3. /\ reg_task'[u].given = reg_task[u].given /\ reg_task'[u].enabled = reg_task[u].enabled
          /\ reg_task'[u].due \subseteq reg_task[u].due
      BY <3>1, <3>2
    <3>4. Served(reg_task[u])
      BY <1>1, <2>3 DEF GivenInv
    <3> QED
      BY <3>3, <3>4 DEF Served
  <2>4. CASE reg_task[u].at # "log"
    BY <1>3, <2>1, <2>2, <2>4
  <2> QED
    BY <2>3, <2>4
<1>5. ASSUME NEW t \in Threads,
             Reg!Find(t) \/ Reg!Leave(t) \/ Reg!Filter(t) \/ Reg!Own(t) \/
             Reg!AppendTarget(t) \/ Reg!Store(t)
      PROVE  Served(reg_task'[u])
  <2>1. CASE u # t
    BY <1>3, <1>5, <2>1 DEF Reg!Find, Reg!Leave, Reg!Filter, Reg!Own, Reg!AppendTarget, Reg!Store,
       Reg!Go, Reg!TypeOK
  <2>2. CASE u = t
    <3>1. CASE Reg!Find(t)
      <4>1. reg_task[t] \in Reg!Asking
        BY <3>1, TaskKinds DEF Reg!TypeOK, Reg!Find
      <4> QED
        BY <1>2, <2>2, <3>1, <4>1 DEF Reg!Find, Reg!Go, Reg!TypeOK, Reg!Idle, Reg!AfterFind
    <3>2. CASE Reg!Leave(t)
      <4>1. reg_task[t] \in Reg!Asking
        BY <3>2, TaskKinds DEF Reg!TypeOK, Reg!Leave
      <4>2. reg_task'[t].at = "filter" \/ reg_task'[t].at = "own"
        BY <3>2, <4>1 DEF Reg!Leave, Reg!Go, Reg!TypeOK
      <4> QED
        BY <1>2, <2>2, <4>2
    <3>3. CASE Reg!Filter(t) \/ Reg!AppendTarget(t)
      BY <1>2, <2>2, <3>3 DEF Reg!Filter, Reg!AppendTarget, Reg!Go, Reg!TypeOK
    <3>4. CASE Reg!Own(t)
      <4>1. reg_task[t] \in Reg!Asking
        BY <3>4, TaskKinds DEF Reg!TypeOK, Reg!Own
      <4> QED
        BY <1>2, <2>2, <3>4, <4>1 DEF Reg!Own, Reg!Go, Reg!TypeOK
    <3>5. CASE Reg!Store(t)
      BY <1>2, <2>2, <3>5 DEF Reg!Store, Reg!Go, Reg!TypeOK, Reg!Idle
    <3> QED
      BY <1>5, <3>1, <3>2, <3>3, <3>4, <3>5
  <2> QED
    BY <2>1, <2>2
<1>6. ASSUME NEW t \in Threads, Reg!Log(t) \/ Reg!Deliver(t) \/ Reg!EndLog(t)
      PROVE  Served(reg_task'[u])
  <2>1. CASE u # t
    BY <1>3, <1>6, <2>1 DEF Reg!Log, Reg!Deliver, Reg!EndLog, Reg!Go, Reg!TypeOK
  <2>2. CASE u = t
    <3>1. CASE Reg!Log(t)
      BY <1>1, <2>2, <3>1, GivenLog DEF OwnInv
    <3>2. CASE Reg!Deliver(t)
      <4>1. Served(reg_task[t])
        BY <1>1, <3>2 DEF GivenInv, Reg!Deliver
      <4> QED
        BY <2>2, <3>2, <4>1, GivenDeliver
    <3>3. CASE Reg!EndLog(t)
      BY <1>2, <2>2, <3>3 DEF Reg!EndLog, Reg!Go, Reg!TypeOK, Reg!Idle
    <3> QED
      BY <1>6, <3>1, <3>2, <3>3
  <2> QED
    BY <2>1, <2>2
<1>7. ASSUME NEW t \in Threads, Reg!Torn(t) PROVE Served(reg_task'[u])
  BY <1>3, <1>7 DEF Reg!Torn
<1> QED
  BY <1>3, <1>4, <1>5, <1>6, <1>7 DEF Reg!Next, registryVars

\* What the invariants say of each logger and each line.
LEMMA OwnedGoals ==
  ASSUME Reg!TypeOK, OwnInv, GivenInv
  PROVE  Reg!OwnedOnce /\ Reg!GivenAsOwned
<1>1. Reg!OwnedOnce
  <2> SUFFICES ASSUME Owned
               PROVE  /\ \A l \in Loggers :
                            /\ \A i, j \in DOMAIN reg_list[l] :
                                  Id[reg_list[l][i]] = Id[reg_list[l][j]] => i = j
                            /\ \A d \in ToSet(reg_list[l]) \ Reg!Moving : reg_owner[d] = l
                      /\ \A d \in Reg!Targets \ Reg!Moving :
                            reg_owner[d] # Reg!None => d \in ToSet(reg_list[reg_owner[d]])
    BY DEF OwnInv, Reg!OwnedOnce, Reg!ToSet, ToSet
  <2>1. \A l \in Loggers : \A d \in ToSet(reg_list[l]) : d \in Reg!Targets
    BY DEF Reg!TypeOK, ToSet
  <2>2. \A d \in Reg!Targets : reg_owner[d] # Reg!None => reg_owner[d] \in Loggers
    BY DEF Reg!TypeOK
  <2> QED
    BY <2>1, <2>2 DEF Owned, Alone, Distinct
<1>2. Reg!GivenAsOwned
  BY DEF GivenInv, Reg!GivenAsOwned, Served, Unrepeated, Reg!IsInjective, Reg!ToSet, ToSet
<1> QED
  BY <1>1, <1>2

\* While one destination is attached at a time, each is with its owner only, an identifier is
\* taken once, and a line is given once to whatever was there during the whole call: for any
\* number of threads, loggers and destinations.
THEOREM DestinationsKept == MCSpec => []DestinationsAreOwned
<1> DEFINE Inv == part = "registry" => Reg!TypeOK /\ OwnInv /\ GivenInv
<1>1. MCInit => Inv
  <2> SUFFICES ASSUME Reg!Init PROVE Reg!TypeOK /\ OwnInv /\ GivenInv
    BY DEF MCInit
  <2>1. GivenInv
    BY DEF Reg!Init, GivenInv, Reg!Idle
  <2> QED
    BY <2>1, TypedInit, OwnedInit
<1>2. Inv /\ [MCNext]_allVars => Inv'
  <2> SUFFICES ASSUME Inv, [MCNext]_allVars,
                      part' = "registry"
               PROVE  (Reg!TypeOK /\ OwnInv /\ GivenInv)'
    OBVIOUS
  <2>1. part = "registry" /\ [Reg!Next]_registryVars
    BY DEF MCNext, RunReports, RunPrinting, RunData, RunRegistry, allVars
  <2> QED
    BY <2>1, TypedNext, OwnedNext, GivenNext
<1>3. Inv => DestinationsAreOwned
  BY OwnedGoals DEF DestinationsAreOwned
<1> QED
  BY <1>1, <1>2, <1>3, PTL DEF MCSpec

-----------------------------------------------------------------------------
(* The order of the files, and of what is joined from them. *)

\* Joined to what is in front and behind, a part keeps its elements, in place.
LEMMA PartInPlace ==
  ASSUME NEW S, NEW b \in Seq(S), NEW x \in Seq(S), NEW e \in Seq(S), NEW i \in 1 .. Len(x)
  PROVE  /\ Len(b) + i \in 1 .. Len((b \o x) \o e)
         /\ ((b \o x) \o e)[Len(b) + i] = x[i]
<1> DEFINE f == b \o x
<1>1. /\ f \in Seq(S) /\ Len(b) \in Nat /\ Len(x) \in Nat /\ Len(f) = Len(b) + Len(x)
      /\ f[Len(b) + i] = x[i]
  OBVIOUS
<1> HIDE DEF f
<1>2. /\ Len(b) + i \in 1 .. Len(f \o e) /\ (f \o e)[Len(b) + i] = f[Len(b) + i]
  BY <1>1
<1> QED
  BY <1>1, <1>2 DEF f

\* Elements of a concatenation are elements of its parts, and it rises if they do, one behind
\* the other.
LEMMA JoinRises ==
  ASSUME NEW S \in SUBSET Nat, NEW a \in Seq(S), NEW b \in Seq(S)
  PROVE  /\ ToSet(a \o b) = ToSet(a) \cup ToSet(b)
         /\ Rises(a) /\ Rises(b) /\ (\A x \in ToSet(a), y \in ToSet(b) : x < y) => Rises(a \o b)
<1> DEFINE c == a \o b
<1>1. /\ Len(a) \in Nat /\ Len(b) \in Nat /\ Len(c) = Len(a) + Len(b)
      /\ DOMAIN a = 1 .. Len(a) /\ DOMAIN b = 1 .. Len(b) /\ DOMAIN c = 1 .. Len(c)
      /\ \A i \in 1 .. Len(a) : c[i] = a[i]
      /\ \A i \in 1 .. Len(b) : c[Len(a) + i] = b[i]
  OBVIOUS
<1> HIDE DEF c
<1>2. ASSUME NEW i \in 1 .. Len(c)
      PROVE  \/ i \in 1 .. Len(a) /\ c[i] = a[i] /\ a[i] \in ToSet(a)
             \/ /\ i > Len(a) /\ i - Len(a) \in 1 .. Len(b) /\ c[i] = b[i - Len(a)]
                /\ b[i - Len(a)] \in ToSet(b)
  <2>1. CASE i <= Len(a)
    <3>1. i \in 1 .. Len(a)
      BY <1>1, <2>1
    <3> QED
      BY <1>1, <3>1 DEF ToSet
  <2>2. CASE i > Len(a)
    <3>1. i - Len(a) \in 1 .. Len(b) /\ Len(a) + (i - Len(a)) = i
      BY <1>1, <2>2
    <3>2. c[i] = b[i - Len(a)]
      BY <1>1, <3>1, Zenon
    <3> QED
      BY <1>1, <2>2, <3>1, <3>2 DEF ToSet
  <2> QED
    BY <1>1, <2>1, <2>2
<1>3. ToSet(c) = ToSet(a) \cup ToSet(b)
  <2>1. ToSet(c) \subseteq ToSet(a) \cup ToSet(b)
    BY <1>1, <1>2 DEF ToSet
  <2>2. ToSet(a) \subseteq ToSet(c)
    <3>1. \A i \in 1 .. Len(a) : i \in 1 .. Len(c)
      BY <1>1
    <3> QED
      BY <1>1, <3>1, Zenon DEF ToSet
  <2>3. ToSet(b) \subseteq ToSet(c)
    <3>1. \A i \in 1 .. Len(b) : Len(a) + i \in 1 .. Len(c)
      BY <1>1
    <3> QED
      BY <1>1, <3>1, Zenon DEF ToSet
  <2> QED
    BY <2>1, <2>2, <2>3
<1>4. ASSUME Rises(a), Rises(b), \A x \in ToSet(a), y \in ToSet(b) : x < y,
             NEW i \in 1 .. Len(c), NEW j \in 1 .. Len(c), i < j
      PROVE  c[i] < c[j]
  <2>1. CASE i \in 1 .. Len(a) /\ j \in 1 .. Len(a)
    BY <1>1, <1>4, <2>1 DEF Rises
  <2>2. CASE i \in 1 .. Len(a) /\ j > Len(a)
    BY <1>1, <1>2, <1>4, <2>2
  <2>3. CASE i > Len(a) /\ j > Len(a)
    <3>1. /\ i - Len(a) \in 1 .. Len(b) /\ j - Len(a) \in 1 .. Len(b) /\ i - Len(a) < j - Len(a)
      BY <1>1, <1>4, <2>3
    <3>2. c[i] = b[i - Len(a)] /\ c[j] = b[j - Len(a)]
      BY <1>1, <1>2, <2>3
    <3> QED
      BY <1>4, <3>1, <3>2, Zenon DEF Rises
  <2> QED
    BY <1>1, <1>2, <1>4, <2>1, <2>2, <2>3
<1> QED
  BY <1>3, <1>4 DEF c, Rises

\* The lines of the files are in the order of the files, and in each in the order of the calls.
LEMMA FilesAreInOrder ==
  ASSUME TypeOK, InOrder, NEW z \in Nat, Zones = {z}
  PROVE  /\ Rises(current.lines) /\ \A n \in Names : Rises(archive[n].lines)
         /\ \A n \in Names : \A x \in Lines(n), y \in ToSet(current.lines) : x < y
         /\ \A m, n \in Names : m < n => \A x \in Lines(m), y \in Lines(n) : x < y
<1> DEFINE old == FlattenSeq(LinesByName(archive))  c == current.lines  all == Retained
           p == LinesByName(archive)  l == MaxTime + z + 1
<1>1. /\ all = old \o c /\ old \in Seq(Ids) /\ c \in Seq(Ids) /\ archive \in [Names -> Files]
  BY OnTheDisk
<1>2. /\ p \in Seq(Seq(Ids)) /\ Len(p) = l
      /\ \A n \in Names : n + 1 \in 1 .. l /\ p[n + 1] = archive[n].lines
  BY <1>1, LinesByNameType
<1>3. \A i, j \in 1 .. Len(all) : i < j => all[i] < all[j]
  BY DEF InOrder, Durable!InOrder, Durable!Increasing
<1>4. \A n \in Names : archive[n].lines \in Seq(Ids)
  BY DEF TypeOK
<1> HIDE DEF old, c, all, p, l
<1>5. /\ Len(old) \in Nat /\ Len(c) \in Nat /\ Len(all) = Len(old) + Len(c)
      /\ \A i \in 1 .. Len(old) : all[i] = old[i]
      /\ \A i \in 1 .. Len(c) : all[Len(old) + i] = c[i]
  BY <1>1
<1>6. \A x, y : Before(old, x, y) => x < y
  <2> SUFFICES ASSUME NEW u \in 1 .. Len(old), NEW v \in 1 .. Len(old), u < v PROVE old[u] < old[v]
    BY Zenon DEF Before
  <2>1. u \in 1 .. Len(all) /\ v \in 1 .. Len(all)
    BY <1>5
  <2> QED
    BY <1>3, <1>5, <2>1
<1>7. \A i, j \in 1 .. l : \A a \in 1 .. Len(p[i]), b \in 1 .. Len(p[j]) :
         i < j \/ (i = j /\ a < b) => p[i][a] < p[j][b]
  BY <1>2, <1>6, PartsInOrder, Zenon DEF old, p
<1>8. \A n \in Names : n \in Nat /\ Lines(n) = {archive[n].lines[i] : i \in 1 .. Len(archive[n].lines)}
  BY <1>4, NamesOfZone DEF Lines, ToSet
<1>9. ASSUME NEW n \in Names PROVE Rises(archive[n].lines)
  BY <1>2, <1>7, Zenon DEF Rises
<1>10. ASSUME NEW m \in Names, NEW n \in Names, m < n,
              NEW a \in 1 .. Len(archive[m].lines), NEW b \in 1 .. Len(archive[n].lines)
       PROVE  archive[m].lines[a] < archive[n].lines[b]
  <2>1. m + 1 < n + 1
    BY <1>8, <1>10
  <2> QED
    BY <1>2, <1>7, <2>1, Zenon
<1>11. ASSUME NEW i \in 1 .. Len(c), NEW j \in 1 .. Len(c), i < j PROVE c[i] < c[j]
  <2>1. Len(old) + i \in 1 .. Len(all) /\ Len(old) + j \in 1 .. Len(all) /\ Len(old) + i < Len(old) + j
    BY <1>5, <1>11
  <2> QED
    BY <1>3, <1>5, <2>1, Zenon
<1>12. \A u \in 1 .. Len(old), j \in 1 .. Len(c) : old[u] < c[j]
  <2> SUFFICES ASSUME NEW u \in 1 .. Len(old), NEW j \in 1 .. Len(c) PROVE old[u] < c[j]
    OBVIOUS
  <2>1. u \in 1 .. Len(all) /\ Len(old) + j \in 1 .. Len(all) /\ u < Len(old) + j
    BY <1>5
  <2> QED
    BY <1>3, <1>5, <2>1, Zenon
<1>13. ASSUME NEW n \in Names, NEW a \in 1 .. Len(archive[n].lines)
       PROVE  \E u \in 1 .. Len(old) : old[u] = archive[n].lines[a]
  <2>1. PICK before \in Seq(Ids), behind \in Seq(Ids) : old = (before \o archive[n].lines) \o behind
    BY <1>1, ArchiveInPlace DEF old
  <2> DEFINE x == archive[n].lines
  <2>2. x \in Seq(Ids)
    BY <1>4
  <2> HIDE DEF x
  <2>4. a \in 1 .. Len(x)
    BY <1>13 DEF x
  <2>5. before \in Seq(Ids) /\ behind \in Seq(Ids)
    OBVIOUS
  <2>6. old = (before \o x) \o behind
    BY <2>1 DEF x
  <2> HIDE DEF old
  <2>3. /\ Len(before) + a \in 1 .. Len(old) /\ old[Len(before) + a] = x[a]
    BY <2>2, <2>4, <2>5, <2>6, PartInPlace
  <2> QED
    BY <2>3 DEF x
<1>14. ASSUME NEW n \in Names, NEW x \in Lines(n), NEW j \in 1 .. Len(c) PROVE x < c[j]
  <2>1. PICK a \in 1 .. Len(archive[n].lines) : x = archive[n].lines[a]
    BY <1>8
  <2>2. PICK u \in 1 .. Len(old) : old[u] = x
    BY <1>13, <2>1
  <2> QED
    BY <1>12, <2>2
<1>15. ASSUME NEW y \in ToSet(c) PROVE \E i \in 1 .. Len(c) : y = c[i]
  <2>1. DOMAIN c = 1 .. Len(c)
    BY <1>1
  <2> QED
    BY <2>1 DEF ToSet
<1>16. ASSUME NEW m \in Names, NEW n \in Names, m < n, NEW x \in Lines(m), NEW y \in Lines(n)
       PROVE  x < y
  <2>1. PICK a \in 1 .. Len(archive[m].lines) : x = archive[m].lines[a]
    BY <1>8
  <2>2. PICK b \in 1 .. Len(archive[n].lines) : y = archive[n].lines[b]
    BY <1>8
  <2> QED
    BY <1>10, <1>16, <2>1, <2>2
<1>17. ASSUME NEW n \in Names, NEW x \in Lines(n), NEW y \in ToSet(c) PROVE x < y
  BY <1>14, <1>15
<1> QED
  BY <1>9, <1>11, <1>16, <1>17 DEF Rises, c

-----------------------------------------------------------------------------
(* What the log does to the archives a report has in hand. *)

\* What is known of the log whatever a reader does.
LogInv == /\ TypeOK /\ HandleInv /\ LedgerInv /\ StampsDiffer /\ ExcessInv /\ NamesInOrder
          /\ FileToMove

\* The files change only in a rotation, in its tagging and in a clean-up.
LEMMA ArchiveSteps ==
  [Next]_vars => UNCHANGED archive \/ MoveFile \/ TagArchive \/ DeleteArchive
BY DEF Next, Worker, vars, Tick, Travel, Log, Fatal, Enqueue, WriteLine, DropLine,
       StartRotation, RefuseRotation, MoveFails, Reopen, EndCleanup, Attach, Crash, Boot, disk

\* A rotation starts with an open file, and no call fails before it is moved.
LEMMA NextFileToMove ==
  ASSUME TypeOK, HandleInv, FileToMove, [Next]_vars
  PROVE  FileToMove'
<1> SUFFICES ASSUME faults' = 0, owner' = "added", pc' = "move" PROVE current'.there
  BY DEF FileToMove
<1>1. faults = 0
  <2>1. UNCHANGED faults \/ Fault
    BY DEF Next, Worker, vars, Tick, Travel, Log, Fatal, Enqueue, WriteLine, DropLine,
           StartRotation, RefuseRotation, MoveFile, MoveFails, TagArchive, Reopen, OpenSucceeds,
           OpenWithLines, OpenFails, EndRotation, DeleteArchive, EndCleanup, Attach, Crash, Boot
  <2>2. faults \in Nat
    BY BoundsAssumption DEF TypeOK
  <2> QED
    BY <2>1, <2>2 DEF Fault
<1>2. CASE StartRotation
  BY <1>1, <1>2 DEF StartRotation, HandleInv, disk
<1>3. CASE UNCHANGED <<pc, owner, current>>
  BY <1>1, <1>3 DEF FileToMove
<1>4. UNCHANGED <<pc, owner, current>> \/ StartRotation
  BY DEF Next, Worker, vars, disk, worker, Tick, Travel, Log, Fatal, Enqueue, WriteLine, DropLine,
         RefuseRotation, EndRotation, MoveFile, MoveFails, TagArchive, Reopen, DeleteArchive,
         EndCleanup, Registered, Attach, Crash, Boot
<1> QED
  BY <1>2, <1>3, <1>4

\* Without a failing call, a registered destination has its file but for the rename.
LEMMA MissingOnlyWhileMoved == TypeOK /\ HandleInv /\ FileToMove => LogIsMissingOnlyWhileMoved
BY DEF TypeOK, HandleInv, FileToMove, LogIsMissingOnlyWhileMoved

\* A name that is past stays so: what a clean-up removes is older than something.
LEMMA NameStaysPast ==
  ASSUME NEW z \in Nat, Zones = {z}, TargetMaxLogFiles > 0,
         TypeOK, TypeOK', NamesInOrder, NamesInOrder', ExcessInv, [Next]_vars,
         NEW n, NameIsPast(n)
  PROVE  NameIsPast(n)'
<1>1. /\ zone = z /\ zone' = z /\ n \in Names /\ n \in Nat /\ n <= now + z
      /\ now \in Nat /\ now' \in Nat /\ now <= now'
  <2>0. now \in Nat /\ now' \in Nat
    BY BoundsAssumption DEF TypeOK, Times
  <2>1. now' = now \/ now' = now + 1
    BY DEF Next, Worker, vars, clock, Tick, Travel, Log, Fatal, Enqueue, WriteLine,
           DropLine, StartRotation, RefuseRotation, MoveFile, MoveFails, TagArchive, Reopen,
           DeleteArchive, EndCleanup, Attach, Crash, Boot
  <2>2. n \in Names /\ n \in Nat
    BY NamesOfZone DEF NameIsPast
  <2>3. zone = z /\ zone' = z
    BY DEF TypeOK
  <2> QED
    BY <2>0, <2>1, <2>2, <2>3 DEF NameIsPast
<1>a. \A a, b, c, d \in Nat : b <= d => (a <= b + c => a <= d + c) /\ (a < b + c => a < d + c)
  OBVIOUS
<1>b. (n <= now + z => n <= now' + z) /\ (n < now + z => n < now' + z)
  BY <1>1, <1>a
<1>2. ASSUME archive[n].there, ~archive'[n].there PROVE n < now + z
  <2>1. DeleteArchive
    <3>1. CASE MoveFile
      BY <1>1, <1>2, <3>1 DEF MoveFile, TypeOK
    <3>2. CASE TagArchive
      <4>1. PICK s : archive' = [archive EXCEPT ![dest].stamp = s]
        <5>1. CASE UNCHANGED archive
          BY <1>2, <5>1
        <5>2. CASE ~UNCHANGED archive
          BY <3>2, <5>2 DEF TagArchive
        <5> QED
          BY <5>1, <5>2
      <4> QED
        BY <1>1, <1>2, <4>1 DEF TypeOK
    <3> QED
      BY <1>2, <3>1, <3>2, ArchiveSteps
  <2>2. PICK v \in victims : archive' = [archive EXCEPT ![v] = NoArchive] \/ UNCHANGED archive
    BY <2>1 DEF DeleteArchive
  <2>3. n \in victims /\ pc = "cleanup" /\ n \in Archives
    <3>1. n = v
      BY <1>1, <1>2, <2>2 DEF TypeOK
    <3> QED
      BY <1>1, <1>2, <2>1, <3>1 DEF DeleteArchive, Archives
  <2>4. PICK m \in Archives : ~(m <= n)
    BY <2>3, LastArchiveStays
  <2>5. m \in Nat /\ m <= now + z
    BY <1>1, NamesOfZone DEF NamesInOrder, Archives
  <2> QED
    BY <1>1, <2>4, <2>5
<1>3. ~archive'[n].there => n < now' + z
  <2>1. ~archive'[n].there => n < now + z
    BY <1>1, <1>2 DEF NameIsPast
  <2> QED
    BY <1>b, <2>1, Zenon
<1>4. pc' = "move" => n < dest'
  <2>1. CASE StartRotation
    <3>1. dest' = now + z /\ ~archive[now + z].there
      BY <1>1, <2>1 DEF StartRotation
    <3>2. n < now + z
      <4>1. n # now + z \/ ~archive[n].there
        BY <3>1
      <4> QED
        BY <1>1, <4>1 DEF NameIsPast
    <3> QED
      BY <3>1, <3>2
  <2>2. CASE ~StartRotation
    <3>1. pc' = "move" => pc = "move" /\ dest' = dest
      BY <2>2 DEF Next, Worker, vars, worker, Tick, Travel, Log, Fatal, Enqueue, WriteLine, DropLine,
             RefuseRotation, EndRotation, MoveFile, MoveFails, TagArchive, Reopen, DeleteArchive,
             EndCleanup, Registered, Attach, Crash, Boot
    <3> QED
      BY <3>1 DEF NameIsPast
  <2> QED
    BY <2>1, <2>2
<1>5. n <= now' + z
  BY <1>1, <1>b, Zenon
<1> QED
  BY <1>1, <1>3, <1>4, <1>5 DEF NameIsPast

\* An archive whose name is past gets no new lines.
LEMMA LinesStay ==
  ASSUME NEW z \in Nat, Zones = {z}, TypeOK, [Next]_vars, NEW n, NameIsPast(n)
  PROVE  Lines(n)' \subseteq Lines(n)
<1>1. n \in Names /\ n \in Nat
  BY NamesOfZone DEF NameIsPast
<1>2. archive'[n].lines = archive[n].lines \/ archive'[n].lines = <<>>
  <2>1. CASE UNCHANGED archive
    BY <2>1
  <2>2. CASE MoveFile
    <3>1. n # dest
      BY <1>1, <2>2 DEF MoveFile, NameIsPast
    <3> QED
      BY <1>1, <2>2, <3>1 DEF MoveFile, TypeOK
  <2>3. CASE TagArchive
    <3>1. UNCHANGED archive \/ \E s : archive' = [archive EXCEPT ![dest].stamp = s]
      BY <2>3 DEF TagArchive
    <3> QED
      BY <1>1, <3>1 DEF TypeOK
  <2>4. CASE DeleteArchive
    <3>1. PICK v \in victims : archive' = [archive EXCEPT ![v] = NoArchive] \/ UNCHANGED archive
      BY <2>4 DEF DeleteArchive
    <3> QED
      BY <1>1, <3>1 DEF TypeOK, NoArchive
  <2> QED
    BY <2>1, <2>2, <2>3, <2>4, ArchiveSteps
<1> QED
  BY <1>2 DEF Lines, ToSet

\* Unless an archive comes, goes or changes, what is on the disk stays there.
LEMMA DiskGrows ==
  ASSUME TypeOK, HandleInv, LedgerInv, [Next]_vars,
         \A n \in Names : archive'[n].lines = archive[n].lines /\ archive'[n].there = archive[n].there
  PROVE  /\ OnDisk \subseteq OnDisk' /\ ToSet(current.lines) \subseteq ToSet(current'.lines)
         /\ Archives' = Archives /\ \A n \in Names : Lines(n)' = Lines(n)
<1>1. \A n \in Names : Lines(n)' = Lines(n)
  BY DEF Lines, ToSet
<1>2. current' \in {current} \cup Openings \/ (WriteLine /\ handle)
  <2>1. ~MoveFile
    BY DEF MoveFile, LedgerInv, TypeOK
  <2> QED
    BY <2>1 DEF Next, Worker, vars, disk, Tick, Travel, Log, Fatal, Enqueue, WriteLine, DropLine,
         StartRotation, RefuseRotation, MoveFails, TagArchive, Reopen, OpenSucceeds, OpenWithLines,
         OpenFails, Openings, DeleteArchive, EndCleanup, Attach, Crash, Boot
<1>3. ToSet(current.lines) \subseteq ToSet(current'.lines)
  <2>1. CASE current' = current
    BY <2>1
  <2>2. CASE current' \in Openings
    <3>1. ~current.there => ToSet(current.lines) = {}
      BY DEF LedgerInv, ToSet
    <3>2. current.there => current'.lines = current.lines
      BY <2>2, OpeningIs
    <3> QED
      BY <3>1, <3>2
  <2>3. CASE WriteLine
    <3>1. Head(queue) \in Ids \cup {Note} /\ current' = Written(current, Head(queue))
      BY <2>3, QueueType DEF WriteLine
    <3>2. current.lines \in Seq(Ids)
      BY DEF TypeOK
    <3>3. current'.lines = IF Head(queue) = Note THEN current.lines ELSE Append(current.lines, Head(queue))
      BY <3>1, WrittenIs, CurrentIsFile
    <3>4. CASE Head(queue) = Note
      BY <3>3, <3>4
    <3>5. CASE Head(queue) # Note
      <4>1. Head(queue) \in Ids
        BY <3>1, <3>5
      <4> QED
        BY <3>2, <3>3, <3>5, <4>1, ToSetAppend
    <3> QED
      BY <3>4, <3>5
  <2> QED
    BY <1>2, <2>1, <2>2, <2>3
<1>4. Archives' = Archives
  BY DEF Archives
<1> QED
  BY <1>1, <1>3, <1>4 DEF OnDisk

-----------------------------------------------------------------------------
(* The steps of a report. *)

\* The report under way, as a value.
Reports == [at : {"idle", "attach", "log"}, paths : Seq(Names \cup {Current}),
            attached : Seq(Ids), seen : SUBSET Ids, named : SUBSET Ids, moved : BOOLEAN]

\* An archive's name is past.
LEMMA ArchiveIsPast ==
  ASSUME NamesInOrder, NEW n \in Archives
  PROVE  NameIsPast(n)
BY DEF NamesInOrder, NameIsPast, Archives

\* previousLogFilePath finds the archive whose name sorts last.
LEMMA PreviousIsLast ==
  ASSUME TypeOK, NEW z \in Nat, Zones = {z}
  PROVE  \/ Archives = {} /\ PreviousLogFilePath = <<>>
         \/ \E n \in Archives : PreviousLogFilePath = <<n>> /\ \A m \in Archives : m <= n
<1> SUFFICES ASSUME Archives # {}
             PROVE  \E n \in Archives : PreviousLogFilePath = <<n>> /\ \A m \in Archives : m <= n
  BY DEF PreviousLogFilePath
<1> DEFINE top == MaxTime + z
           Away == {top - n : n \in Archives}
<1>1. top \in Nat /\ \A n \in Archives : n \in Nat /\ n <= top
  BY NamesOfZone DEF Archives
<1>2. Away \subseteq Nat /\ Away # {}
  BY <1>1
<1>3. PICK d \in Away : \A k \in Away : d <= k
  <2> HIDE DEF Away
  <2> QED
    BY <1>2, Least
<1>4. PICK n \in Archives : d = top - n
  OBVIOUS
<1>5. \A m \in Archives : m <= n
  <2> TAKE m \in Archives
  <2>1. top - n <= top - m
    BY <1>3, <1>4
  <2> QED
    BY <1>1, <2>1
<1> QED
  BY <1>5 DEF PreviousLogFilePath

\* previousLogFilePath is a path of a file.
LEMMA PathsType ==
  ASSUME TypeOK, NEW z \in Nat, Zones = {z}
  PROVE  <<Current>> \o PreviousLogFilePath \in Seq(Names \cup {Current})
<1>1. <<Current>> \in Seq(Names \cup {Current})
  OBVIOUS
<1>2. PreviousLogFilePath \in Seq(Names \cup {Current})
  <2>1. CASE PreviousLogFilePath = <<>>
    BY <2>1
  <2>2. CASE \E n \in Archives : PreviousLogFilePath = <<n>>
    <3>1. PICK n \in Names : PreviousLogFilePath = <<n>>
      BY <2>2 DEF Archives
    <3> QED
      BY <3>1
  <2> QED
    BY <2>1, <2>2, PreviousIsLast
<1> QED
  BY <1>1, <1>2, ConcatProperties

\* What files hold is messages.
LEMMA UnderType ==
  ASSUME TypeOK, NEW p \in Seq(Names \cup {Current})
  PROVE  Under(p) \subseteq Ids
<1> SUFFICES ASSUME NEW path \in ToSet(p) PROVE ToSet(FileAt(path).lines) \subseteq Ids
  BY DEF Under
<1>1. path \in Names \cup {Current}
  BY ToSetType
<1>2. FileAt(path).lines \in Seq(Ids)
  BY <1>1 DEF FileAt, TypeOK
<1> QED
  BY <1>2, ToSetType

\* A report begins with the current file and the last archive.
LEMMA ReportBegins ==
  ASSUME NEW z \in Nat, Zones = {z}, LogInv, BeginReport
  PROVE  reader' \in Reports /\ ReaderInv'
<1>0. PICK held : held = Under(<<Current>> \o PreviousLogFilePath)
  OBVIOUS
<1>1. /\ TypeOK /\ NamesInOrder /\ UNCHANGED vars
      /\ reader' = [at |-> "attach", paths |-> <<Current>> \o PreviousLogFilePath,
                    attached |-> <<>>, seen |-> OnDisk, named |-> held, moved |-> FALSE]
  BY <1>0 DEF LogInv, BeginReport
<1>2. OnDisk \subseteq Ids /\ held \subseteq Ids
  <2>1. \A n \in Names : Lines(n) \subseteq Ids
    BY <1>1, ToSetType DEF Lines, TypeOK
  <2>2. ToSet(current.lines) \subseteq Ids
    BY <1>1, ToSetType DEF TypeOK
  <2>3. held \subseteq Ids
    BY <1>0, <1>1, PathsType, UnderType
  <2> QED
    BY <2>1, <2>2, <2>3 DEF OnDisk
<1>3. UNCHANGED <<Archives, OnDisk>> /\ \A n : NameIsPast(n)' <=> NameIsPast(n)
  <2>1. UNCHANGED <<archive, current, now, zone, pc, dest>>
    BY <1>1 DEF vars, disk, clock, worker
  <2> QED
    BY <2>1 DEF Archives, OnDisk, NameIsPast, Lines
<1>4. CASE Archives = {} /\ PreviousLogFilePath = <<>>
  <2>1. reader' = [at |-> "attach", paths |-> <<Current>>, attached |-> <<>>, seen |-> OnDisk,
                   named |-> held, moved |-> FALSE]
    BY <1>1, <1>4
  <2>2. <<Current>> \in Seq(Names \cup {Current}) /\ <<>> \in Seq(Ids)
    OBVIOUS
  <2>3. reader' \in Reports
    BY <1>2, <2>1, <2>2 DEF Reports
  <2> QED
    BY <1>3, <1>4, <2>1, <2>3 DEF ReaderInv, Starting, LastIs
<1>5. ASSUME NEW n \in Archives, PreviousLogFilePath = <<n>>, \A m \in Archives : m <= n
      PROVE  reader' \in Reports /\ ReaderInv'
  <2>1. reader' = [at |-> "attach", paths |-> <<Current, n>>, attached |-> <<>>, seen |-> OnDisk,
                   named |-> held, moved |-> FALSE]
    <3>1. <<Current>> \o <<n>> = <<Current, n>>
      <4>1. <<Current>> \o <<n>> = Append(<<Current>>, n)
        BY AppendIsConcat
      <4>2. Append(<<Current>>, n) = <<Current, n>>
        <5> DEFINE a == Append(<<Current>>, n)  b == <<Current, n>>
        <5>1. a \in Seq({Current, n}) /\ Len(a) = 2 /\ a[1] = Current /\ a[2] = n
          OBVIOUS
        <5>2. b \in Seq({Current, n}) /\ Len(b) = 2 /\ b[1] = Current /\ b[2] = n
          OBVIOUS
        <5> HIDE DEF a, b
        <5>3. \A i \in 1 .. 2 : i = 1 \/ i = 2
          OBVIOUS
        <5>4. \A i \in 1 .. Len(a) : a[i] = b[i]
          BY <5>1, <5>2, <5>3
        <5>5. a = b
          BY <5>1, <5>2, <5>4, SeqEqual
        <5> QED
          BY <5>5 DEF a, b
      <4> QED
        BY <4>1, <4>2
    <3> QED
      BY <1>1, <1>5, <3>1
  <2>2. n \in Names /\ <<Current, n>> \in Seq(Names \cup {Current}) /\ <<>> \in Seq(Ids)
    BY DEF Archives
  <2>3. reader' \in Reports
    BY <1>2, <2>1, <2>2 DEF Reports
  <2>4. NameIsPast(n)'
    BY <1>1, <1>3, ArchiveIsPast
  <2>5. reader'.paths = <<Current, n>> /\ reader'.paths[2] = n
    BY <2>1
  <2>6. Starting(reader)'
    <3>1. LastIs(reader.paths)'
      BY <1>3, <1>5, <2>5 DEF LastIs
    <3>2. NameIsPast(reader.paths[2])'
      BY <2>4, <2>5 DEF NameIsPast
    <3> QED
      BY <1>3, <2>1, <2>5, <3>1, <3>2 DEF Starting
  <2> QED
    BY <2>1, <2>3, <2>6 DEF ReaderInv
<1> QED
  BY <1>1, <1>4, <1>5, PreviousIsLast

\* Reading a file leaves a report.
LEMMA ReportStays ==
  ASSUME NEW r \in Reports, r.paths # <<>>, NEW a \in Seq(Ids), NEW at \in {"log", "attach"}
  PROVE  /\ [r EXCEPT !.paths = Tail(r.paths), !.attached = a, !.at = at] \in Reports
         /\ [r EXCEPT !.paths = Tail(r.paths), !.attached = a, !.at = at].attached = a
<1>1. Tail(r.paths) \in Seq(Names \cup {Current})
  BY DEF Reports
<1> QED
  BY <1>1 DEF Reports

\* The current file is read first: all of it, there or not; the archive after it, and the two
\* are in their order.
LEMMA ReportAttaches ==
  ASSUME NEW z \in Nat, Zones = {z}, LogInv, InOrder, reader \in Reports, ReaderInv, Attach1
  PROVE  reader' \in Reports /\ ReaderInv'
<1> DEFINE path == Head(reader.paths)
<1>1. TypeOK /\ LedgerInv /\ reader.at = "attach" /\ UNCHANGED vars
      /\ reader' = [reader EXCEPT
           !.paths = Tail(@),
           !.attached = IF FileAt(path).there THEN FileAt(path).lines \o @ ELSE @,
           !.at = IF Len(reader.paths) = 1 THEN "log" ELSE "attach"]
  BY DEF LogInv, Attach1
<1>2. /\ UNCHANGED <<Archives, OnDisk>>
      /\ \A n : (NameIsPast(n)' <=> NameIsPast(n)) /\ Lines(n)' = Lines(n)
  <2>1. UNCHANGED <<archive, current, now, zone, pc, dest>>
    BY <1>1 DEF vars, disk, clock, worker
  <2> QED
    BY <2>1 DEF Archives, OnDisk, NameIsPast, Lines
<1>3. /\ Rises(current.lines) /\ \A n \in Names : Rises(archive[n].lines)
      /\ \A n \in Names : \A x \in Lines(n), y \in ToSet(current.lines) : x < y
      /\ \A m, n \in Names : m < n => \A x \in Lines(m), y \in Lines(n) : x < y
  BY <1>1, FilesAreInOrder
<1>4. /\ current.lines \in Seq(Ids) /\ (~current.there => current.lines = <<>>)
      /\ \A n \in Names : archive[n].lines \in Seq(Ids)
                         /\ (~archive[n].there => archive[n].lines = <<>>)
  BY <1>1 DEF TypeOK, LedgerInv
<1>5. /\ reader.paths \in Seq(Names \cup {Current}) /\ reader.attached \in Seq(Ids)
      /\ \A n \in Names : n \in Nat /\ n # Current
  BY NamesOfZone DEF Reports, Current
<1>6. ASSUME reader.paths # <<>>, reader'.attached \in Seq(Ids) PROVE reader' \in Reports
  <2> DEFINE a == IF FileAt(path).there THEN FileAt(path).lines \o reader.attached ELSE reader.attached
             at == IF Len(reader.paths) = 1 THEN "log" ELSE "attach"
  <2>1. reader' = [reader EXCEPT !.paths = Tail(reader.paths), !.attached = a, !.at = at]
    BY <1>1
  <2>2. reader'.attached = a
    BY <1>1 DEF Reports
  <2>3. at \in {"log", "attach"}
    OBVIOUS
  <2> HIDE DEF a, at
  <2> QED
    BY <1>6, <2>1, <2>2, <2>3, ReportStays
<1>7. CASE reader.paths[1] = Current
  <2>1. Starting(reader)
    BY <1>1, <1>7 DEF ReaderInv
  <2>2. path = Current /\ reader.paths # <<>>
    BY <1>5, <1>7, <2>1 DEF Starting
  <2>3. reader'.attached = current.lines
    <3>1. FileAt(path) = current
      BY <2>2 DEF FileAt
    <3>2. current.lines \o <<>> = current.lines
      BY <1>4
    <3> QED
      BY <1>1, <1>4, <2>1, <3>1, <3>2 DEF Starting, Reports
  <2>4. reader'.moved = reader.moved /\ reader'.seen = reader.seen
    BY <1>1 DEF Reports
  <2>5. reader' \in Reports
    BY <1>4, <1>6, <2>2, <2>3
  <2>6. CASE Len(reader.paths) = 1
    <3>1. reader'.at = "log"
      BY <1>1, <2>6 DEF Reports
    <3>2. ~reader.moved => reader.seen \subseteq ToSet(current.lines)
      <4>1. Archives = {} => \A n \in Names : Lines(n) = {}
        BY <1>4 DEF Archives, Lines, ToSet
      <4> QED
        BY <2>1, <2>6, <4>1 DEF Starting, LastIs, OnDisk
    <3> QED
      BY <1>3, <2>3, <2>4, <2>5, <3>1, <3>2 DEF ReaderInv, Ends
  <2>7. ASSUME Len(reader.paths) = 2, NEW n, n = reader.paths[2]
        PROVE  ReaderInv'
    <3>1. n \in Names /\ NameIsPast(n) /\ n # Current
      <4>1. NameIsPast(n)
        <5>1. Len(reader.paths) # 1
          BY <2>7
        <5> QED
          BY <2>1, <2>7, <5>1, Zenon DEF Starting
      <4> QED
        BY <1>5, <4>1 DEF NameIsPast
    <3>2. reader'.at = "attach" /\ Len(reader'.paths) = 1 /\ reader'.paths[1] = n
      <4>1. Len(Tail(reader.paths)) = 1 /\ Tail(reader.paths)[1] = n
        BY <1>5, <2>7
      <4> QED
        BY <1>1, <2>7, <4>1 DEF Reports
    <3>3. ASSUME ~reader.moved PROVE Ends(Lines(n) \cup ToSet(current.lines), reader.seen)
      <4>1. n \in Archives /\ \A m \in Archives : m <= n
        BY <2>1, <2>7, <3>3 DEF Starting, LastIs
      <4>2. ASSUME NEW line \in reader.seen, line \notin Lines(n) \cup ToSet(current.lines)
            PROVE  \A l \in Lines(n) \cup ToSet(current.lines) : line < l
        <5>1. PICK m \in Names : line \in Lines(m)
          BY <2>1, <3>3, <4>2 DEF Starting, OnDisk
        <5>2. m \in Archives
          BY <1>4, <5>1 DEF Archives, Lines, ToSet
        <5>3. m < n
          BY <1>5, <3>1, <4>1, <4>2, <5>1, <5>2
        <5> QED
          BY <1>3, <3>1, <5>1, <5>3
      <4> QED
        BY <4>2 DEF Ends
    <3>4. Halfway(reader)'
      <4>1. NameIsPast(n)' /\ Lines(n)' = Lines(n)
        BY <1>2, <3>1
      <4>2. NameIsPast(reader.paths[1])' /\ Lines(reader.paths[1])' = Lines(n)
        BY <3>2, <4>1 DEF NameIsPast, Lines
      <4>3. \A x \in Lines(n), y \in ToSet(current.lines) : x < y
        BY <1>3, <3>1
      <4> QED
        BY <1>3, <2>3, <2>4, <3>2, <3>3, <4>2, <4>3 DEF Halfway
    <3> QED
      BY <3>1, <3>2, <3>4 DEF ReaderInv
  <2> QED
    BY <2>1, <2>5, <2>6, <2>7 DEF Starting
<1>8. CASE reader.paths[1] # Current
  <2> DEFINE n == reader.paths[1]
  <2>1. Halfway(reader)
    BY <1>1, <1>8 DEF ReaderInv
  <2>2. path = n /\ n \in Names /\ reader.paths # <<>>
    BY <1>5, <1>8, <2>1 DEF Halfway
  <2>3. reader'.attached = archive[n].lines \o reader.attached
    <3>1. FileAt(path) = archive[n]
      BY <1>8, <2>2 DEF FileAt
    <3>2. <<>> \o reader.attached = reader.attached
      BY <1>5
    <3> QED
      BY <1>1, <1>4, <2>2, <3>1, <3>2 DEF Reports
  <2>4. reader'.moved = reader.moved /\ reader'.seen = reader.seen /\ reader'.at = "log"
    BY <1>1, <2>1 DEF Reports, Halfway
  <2>5. archive[n].lines \in Seq(Ids) /\ Rises(archive[n].lines) /\ Ids \in SUBSET Nat
    BY <1>3, <1>4, <2>2 DEF Ids
  <2>6. reader' \in Reports
    <3>1. reader'.attached \in Seq(Ids)
      BY <1>5, <2>3, <2>5
    <3> QED
      BY <1>6, <2>2, <3>1
  <2>7. /\ Rises(reader'.attached)
        /\ ToSet(reader'.attached) = Lines(n) \cup ToSet(reader.attached)
    BY <1>5, <2>1, <2>3, <2>5, JoinRises DEF Halfway, Lines
  <2> QED
    BY <2>1, <2>4, <2>6, <2>7 DEF ReaderInv, Halfway
<1> QED
  BY <1>7, <1>8

\* While the log goes on, a report under way stays the end of the log, up to what moves.
LEMMA ReportGoesOn ==
  ASSUME NEW z \in Nat, Zones = {z}, TargetMaxLogFiles > 0,
         LogInv, LogInv', reader \in Reports, ReaderInv, LogStep
  PROVE  reader' \in Reports /\ ReaderInv'
<1> DEFINE Changed == \E n \in Names : \/ archive'[n].lines # archive[n].lines
                                       \/ archive'[n].there # archive[n].there
<1>1. Next /\ TypeOK /\ TypeOK' /\ NamesInOrder /\ NamesInOrder' /\ ExcessInv /\ HandleInv /\ LedgerInv
  BY DEF LogInv, LogStep
<1>2. CASE reader' = NoReport
  <2>1. <<>> \in Seq(Names \cup {Current}) /\ <<>> \in Seq(Ids)
    OBVIOUS
  <2> QED
    BY <1>2, <2>1 DEF NoReport, Reports, ReaderInv
<1>3. CASE reader.at = "idle" /\ reader' = reader
  BY <1>3 DEF ReaderInv
<1>4. CASE reader' = [reader EXCEPT !.moved = @ \/ Changed]
  <2> HIDE DEF Changed
  <2>1. /\ reader'.at = reader.at /\ reader'.paths = reader.paths /\ reader'.seen = reader.seen
        /\ reader'.attached = reader.attached
        /\ ~reader'.moved => ~reader.moved /\ ~Changed
        /\ reader' \in Reports
    <3>1. Changed \in BOOLEAN /\ reader.moved \in BOOLEAN
      BY DEF Changed, Reports
    <3>2. (reader.moved \/ Changed) \in BOOLEAN
      OBVIOUS
    <3> QED
      BY <1>4, <3>2 DEF Reports
  <2>2. ~reader'.moved => /\ ~reader.moved /\ OnDisk \subseteq OnDisk' /\ Archives' = Archives
                          /\ \A n \in Names : Lines(n)' = Lines(n)
    BY <1>1, <2>1, DiskGrows DEF Changed
  <2>3. ASSUME NEW n, NameIsPast(n) PROVE NameIsPast(n)' /\ Lines(n)' \subseteq Lines(n) /\ n \in Names
    <3>1. NameIsPast(n)'
      BY <1>1, <2>3, NameStaysPast
    <3>2. Lines(n)' \subseteq Lines(n)
      BY <1>1, <2>3, LinesStay
    <3> QED
      BY <2>3, <3>1, <3>2 DEF NameIsPast
  <2>4. ASSUME Starting(reader) PROVE Starting(reader)'
    <3>1. Len(reader.paths) = 1 \/ (Len(reader.paths) = 2 /\ NameIsPast(reader.paths[2])')
      <4>1. ASSUME NEW n, n = reader.paths[2], NameIsPast(n) PROVE NameIsPast(reader.paths[2])'
        <5>1. NameIsPast(n)' /\ n = reader'.paths[2]
          BY <2>1, <2>3, <4>1
        <5> QED
          BY <5>1 DEF NameIsPast
      <4> QED
        BY <2>4, <4>1 DEF Starting
    <3>2. ~reader'.moved => reader'.seen \subseteq OnDisk' /\ LastIs(reader.paths)'
      BY <2>1, <2>2, <2>4 DEF Starting, LastIs
    <3> QED
      BY <2>1, <2>4, <3>1, <3>2 DEF Starting
  <2>5. ASSUME Halfway(reader), NEW n, n = reader.paths[1] PROVE Halfway(reader)'
    <3>1. NameIsPast(n) /\ NameIsPast(n)' /\ Lines(n)' \subseteq Lines(n) /\ n \in Names
      BY <2>3, <2>5 DEF Halfway
    <3>2. NameIsPast(reader.paths[1])' /\ Lines(reader.paths[1])' = Lines(n)'
      BY <2>1, <2>5, <3>1 DEF NameIsPast, Lines
    <3>3. \A x \in Lines(n)', y \in ToSet(reader.attached) : x < y
      BY <2>5, <3>1 DEF Halfway
    <3>4. ~reader'.moved => Ends(Lines(n)' \cup ToSet(reader.attached), reader.seen)
      BY <2>1, <2>2, <2>5, <3>1 DEF Halfway
    <3> QED
      BY <2>1, <2>5, <3>2, <3>3, <3>4 DEF Halfway
  <2> QED
    BY <2>1, <2>4, <2>5 DEF ReaderInv
<1> QED
  BY <1>2, <1>3, <1>4 DEF LogStep

\* A step that leaves the report, the files and the clock alone.
LEMMA ReportIsSame ==
  ASSUME reader \in Reports, ReaderInv, UNCHANGED <<reader, clock, disk, pc, dest>>
  PROVE  reader' \in Reports /\ ReaderInv'
BY DEF clock, disk, ReaderInv, Starting, Halfway, LastIs, NameIsPast, Lines, OnDisk, Archives,
       Reports

\* Nothing a reader does is a step of the log, but for the lines it logs.
LEMMA ReadersOnlyLog == [ReadNext]_<<vars, readVars>> => [Next]_vars
BY DEF ReadNext, readVars, BeginReport, Attach1, LogReport, Export, LogStep, Next

\* Every step keeps a report the end of the log.
LEMMA NextReader ==
  ASSUME NEW z \in Nat, Zones = {z}, TargetMaxLogFiles > 0, LogInv, LogInv', InOrder,
         reader \in Reports, ReaderInv, [ReadNext]_<<vars, readVars>>
  PROVE  reader' \in Reports /\ ReaderInv'
<1>1. CASE BeginReport
  BY <1>1, ReportBegins
<1>2. CASE Attach1
  BY <1>2, ReportAttaches
<1>3. CASE LogReport
  <2>1. reader' = NoReport
    BY <1>3 DEF LogReport
  <2>2. <<>> \in Seq(Names \cup {Current}) /\ <<>> \in Seq(Ids)
    OBVIOUS
  <2> QED
    BY <2>1, <2>2 DEF NoReport, Reports, ReaderInv
<1>4. CASE Export \/ UNCHANGED <<vars, readVars>>
  <2>1. UNCHANGED <<reader, clock, disk, pc, dest>>
    BY <1>4 DEF Export, Log, Enqueue, vars, readVars, worker
  <2> QED
    BY <2>1, ReportIsSame
<1>5. CASE LogStep
  BY <1>5, ReportGoesOn
<1> QED
  BY <1>1, <1>2, <1>3, <1>4, <1>5 DEF ReadNext

\* What a report names at the call is in the files it has to read ...
LEMMA NamedAtCall == BeginReport => NamedInv'
<1> SUFFICES ASSUME BeginReport PROVE NamedInv'
  OBVIOUS
<1>1. /\ reader'.at = "attach" /\ reader'.paths = <<Current>> \o PreviousLogFilePath
      /\ reader'.named = Under(<<Current>> \o PreviousLogFilePath)
  BY DEF BeginReport
<1>2. UNCHANGED <<current, archive>>
  BY DEF BeginReport, vars, disk
<1>3. \A p : Under(p)' = Under(p)
  BY <1>2 DEF Under, FileAt
<1>4. Under(reader.paths)' = Under(reader'.paths)
  BY <1>2 DEF Under, FileAt
<1> QED
  BY <1>1, <1>4 DEF NamedInv

\* ... and in the report once they are read ...
LEMMA NamedWhenRead ==
  ASSUME LogInv, reader \in Reports, ReaderInv, NamedInv, Attach1
  PROVE  NamedInv'
<1> DEFINE path == Head(reader.paths)
<1>1. /\ TypeOK /\ LedgerInv /\ reader.at = "attach" /\ UNCHANGED <<current, archive>>
      /\ reader' = [reader EXCEPT
           !.paths = Tail(@),
           !.attached = IF FileAt(path).there THEN FileAt(path).lines \o @ ELSE @,
           !.at = IF Len(reader.paths) = 1 THEN "log" ELSE "attach"]
  BY DEF LogInv, Attach1, vars, disk
<1>2. reader.paths \in Seq(Names \cup {Current}) /\ reader.attached \in Seq(Ids)
  BY DEF Reports
<1>3. reader.paths # <<>>
  BY <1>1, <1>2 DEF ReaderInv, Starting, Halfway
<1>4. path \in Names \cup {Current}
  BY <1>2, <1>3
<1>5. FileAt(path).lines \in Seq(Ids) /\ (~FileAt(path).there => FileAt(path).lines = <<>>)
  BY <1>1, <1>4 DEF FileAt, TypeOK, LedgerInv
<1>6. /\ reader'.paths = Tail(reader.paths) /\ reader'.named = reader.named
      /\ reader'.moved = reader.moved
      /\ reader'.attached = IF FileAt(path).there THEN FileAt(path).lines \o reader.attached
                                                  ELSE reader.attached
      /\ reader'.at = "log" => Len(reader.paths) = 1
      /\ reader'.at # "idle"
  BY <1>1 DEF Reports
<1>7. ToSet(reader'.attached) = ToSet(FileAt(path).lines) \cup ToSet(reader.attached)
  <2>1. CASE FileAt(path).there
    <3>1. Ids \in SUBSET Nat
      BY DEF Ids
    <3> QED
      BY <1>2, <1>5, <1>6, <2>1, <3>1, JoinRises
  <2>2. CASE ~FileAt(path).there
    <3>1. ToSet(FileAt(path).lines) = {}
      BY <1>5, <2>2 DEF ToSet
    <3> QED
      BY <1>6, <2>2, <3>1
  <2> QED
    BY <2>1, <2>2
<1>8. Under(reader.paths) = ToSet(FileAt(path).lines) \cup Under(reader'.paths)
  <2>1. ToSet(reader.paths) = {path} \cup ToSet(Tail(reader.paths))
    BY <1>2, <1>3, ToSetTail
  <2> HIDE DEF path
  <2> QED
    BY <1>6, <2>1 DEF Under
<1>9. Under(reader.paths)' = Under(reader'.paths)
  BY <1>1 DEF Under, FileAt
<1>10. Len(reader.paths) = 1 => Tail(reader.paths) = <<>>
  <2>1. Tail(reader.paths) \in Seq(Names \cup {Current}) /\ Len(Tail(reader.paths)) = Len(reader.paths) - 1
    BY <1>2, <1>3
  <2>2. ASSUME NEW q \in Seq(Names \cup {Current}), Len(q) = 0 PROVE q = <<>>
    BY <2>2, EmptySeq
  <2>3. Len(reader.paths) = 1 => Len(Tail(reader.paths)) = 0
    BY <2>1
  <2> QED
    BY <2>1, <2>2, <2>3
<1> HIDE DEF path
<1>11. ~reader'.moved => reader'.named \subseteq Under(reader.paths)' \cup ToSet(reader'.attached)
  BY <1>6, <1>7, <1>8, <1>9 DEF NamedInv
<1> QED
  BY <1>6, <1>10, <1>11 DEF NamedInv

\* ... unless an archive comes, goes or changes in between.
LEMMA NamedMeanwhile ==
  ASSUME LogInv, reader \in Reports, NamedInv, LogStep
  PROVE  NamedInv'
<1> DEFINE Changed == \E n \in Names : \/ archive'[n].lines # archive[n].lines
                                       \/ archive'[n].there # archive[n].there
<1>1. Next /\ TypeOK /\ HandleInv /\ LedgerInv
  BY DEF LogInv, LogStep
<1>2. CASE reader' = NoReport
  <2>1. reader'.at = "idle" /\ reader'.named = {}
    BY <1>2 DEF NoReport
  <2> QED
    BY <2>1 DEF NamedInv
<1>3. CASE reader' # NoReport
  <2>1. reader' = reader \/ reader' = [reader EXCEPT !.moved = @ \/ Changed]
    BY <1>3 DEF LogStep
  <2>2. /\ reader'.at = reader.at /\ reader'.paths = reader.paths /\ reader'.named = reader.named
        /\ reader'.attached = reader.attached
    <3>1. CASE reader' = reader
      BY <3>1
    <3>2. CASE reader' = [reader EXCEPT !.moved = @ \/ Changed]
      <4>1. PICK b : reader' = [reader EXCEPT !.moved = b]
        BY <3>2
      <4> HIDE DEF Changed
      <4>2. reader'.at = reader.at
        BY <4>1 DEF Reports
      <4>3. reader'.paths = reader.paths
        BY <4>1 DEF Reports
      <4>4. reader'.named = reader.named
        BY <4>1 DEF Reports
      <4>5. reader'.attached = reader.attached
        BY <4>1 DEF Reports
      <4> QED
        BY <4>2, <4>3, <4>4, <4>5
    <3> QED
      BY <2>1, <3>1, <3>2
  <2>3. reader.paths \in Seq(Names \cup {Current})
    BY DEF Reports
  <2>4. CASE reader.at = "idle"
    <3>1. reader' = reader
      BY <1>3, <2>4 DEF LogStep
    <3> QED
      BY <2>4, <3>1 DEF NamedInv
  <2>5. CASE reader.at # "idle" /\ ~reader'.moved
    <3>1. ~reader.moved /\ ~Changed
      <4>1. reader' = [reader EXCEPT !.moved = @ \/ Changed]
        BY <1>3, <2>5 DEF LogStep
      <4>2. reader.moved \in BOOLEAN /\ Changed \in BOOLEAN
        BY DEF Reports
      <4> HIDE DEF Changed
      <4>3. reader'.moved = (reader.moved \/ Changed)
        BY <4>1 DEF Reports
      <4> QED
        BY <2>5, <4>2, <4>3
    <3>2. /\ ToSet(current.lines) \subseteq ToSet(current'.lines)
          /\ \A n \in Names : archive'[n].lines = archive[n].lines
      BY <1>1, <3>1, DiskGrows
    <3>3. ASSUME NEW path \in ToSet(reader.paths)
          PROVE  ToSet(FileAt(path).lines) \subseteq ToSet(FileAt(path)'.lines)
      <4>1. path \in Names \cup {Current}
        BY <2>3, ToSetType
      <4> QED
        BY <3>2, <4>1 DEF FileAt
    <3>4. Under(reader.paths) \subseteq Under(reader.paths)'
      BY <2>2, <3>3 DEF Under, FileAt
    <3> QED
      BY <2>2, <3>1, <3>4 DEF NamedInv
  <2>6. CASE reader.at # "idle" /\ reader'.moved
    BY <2>2, <2>6 DEF NamedInv
  <2> QED
    BY <2>4, <2>5, <2>6
<1> QED
  BY <1>2, <1>3

\* Every step keeps it.
LEMMA NextNamed ==
  ASSUME LogInv, reader \in Reports, ReaderInv, NamedInv, [ReadNext]_<<vars, readVars>>
  PROVE  NamedInv'
<1>1. CASE BeginReport
  BY <1>1, NamedAtCall
<1>2. CASE Attach1
  BY <1>2, NamedWhenRead
<1>3. CASE LogReport
  <2>1. reader'.at = "idle" /\ reader'.named = {}
    BY <1>3 DEF LogReport, NoReport
  <2> QED
    BY <2>1 DEF NamedInv
<1>4. CASE Export \/ UNCHANGED <<vars, readVars>>
  <2>1. UNCHANGED <<reader, current, archive>>
    BY <1>4 DEF Export, Log, Enqueue, vars, readVars, disk
  <2> QED
    BY <2>1 DEF NamedInv, Under, FileAt
<1>5. CASE LogStep
  BY <1>5, NamedMeanwhile
<1> QED
  BY <1>1, <1>2, <1>3, <1>4, <1>5 DEF ReadNext

\* Every step keeps what is known of the log.
LEMMA NextLogInv ==
  ASSUME NEW z \in Nat, Zones = {z}, LogInv, [Next]_vars
  PROVE  LogInv'
BY NextTypeOK, NextHandleInv, NextLedgerInv, NextNames, StampsStayDifferent, NextExcess,
   NextFileToMove DEF LogInv

\* On a device that keeps its time zone, what internalUserReport attaches is in the order of the
\* calls whatever is rotated, removed or written while Sentry reads it; if nothing was, it is the
\* end of the log, with all that its two files held at the call; and without a failing call getLogFileContents misses the current file only
\* while a rotation has it under its new name.
THEOREM ReadersSeeTheLog ==
  ASSUME NEW z \in Nat, Zones = {z}, TargetMaxLogFiles > 0
  PROVE  ReadSpec => [](ReportCarriesTheLog /\ LogIsMissingOnlyWhileMoved)
<1> DEFINE Inv == LogInv /\ reader \in Reports /\ ReaderInv /\ NamedInv
<1>1. ReadInit => Init /\ Inv
  <2> SUFFICES ASSUME ReadInit PROVE Init /\ Inv
    OBVIOUS
  <2>1. LogInv
    BY InitTypeOK, InitHandleInv, InitLedgerInv, InitNames, InitTrim
    DEF ReadInit, LogInv, TrimInv, ExcessInv, FileToMove, Init
  <2>2. <<>> \in Seq(Names \cup {Current}) /\ <<>> \in Seq(Ids)
    OBVIOUS
  <2> QED
    BY <2>1, <2>2 DEF ReadInit, NoReport, Reports, ReaderInv, NamedInv
<1>2. [ReadNext]_<<vars, readVars>> => [Next]_vars
  BY ReadersOnlyLog
<1>3. Inv /\ InOrder /\ [ReadNext]_<<vars, readVars>> => Inv'
  BY <1>2, NextLogInv, NextReader, NextNamed
<1>4. Inv => ReportCarriesTheLog /\ LogIsMissingOnlyWhileMoved
  <2> SUFFICES ASSUME Inv PROVE ReportCarriesTheLog
    BY MissingOnlyWhileMoved DEF LogInv
  <2>1. reader.at = "log" /\ ~reader.moved => reader.named \subseteq ToSet(reader.attached)
    <3>1. Under(<<>>) = {}
      BY DEF Under, ToSet
    <3> QED
      BY <3>1 DEF NamedInv
  <2> QED
    BY <2>1 DEF ReaderInv, ReportCarriesTheLog, NothingLeftOut, Rises, Ends, ToSet, Reports
<1>5. Init /\ [][Next]_vars => []InOrder
  BY DiskIsInOrder DEF Spec
<1> HIDE DEF Inv
<1> QED
  BY <1>1, <1>2, <1>3, <1>4, <1>5, PTL DEF ReadSpec
-----------------------------------------------------------------------------
(* Readers of the log. *)

\* On a device that keeps its time zone, what a user report attaches is in the order of the
\* calls, and, if nothing was rotated or removed while it was read, the end of the log with all
\* that its two files held at the call; and without a failing call an export misses the current file only while a rotation has it under its new
\* name: for any number of messages, reports, rotations, deaths and launches.
THEOREM LogWithReports ==
  ASSUME NEW z \in Nat, Zones = {z}, TargetMaxLogFiles > 0
  PROVE  MCSpec => []LogGoesWithReports
<1>1. MCInit => ReadInit
  BY DEF MCInit
<1>2. [MCNext]_allVars => [ReadNext]_<<vars, readVars>>
  BY DEF MCNext, RunReports, RunPrinting, RunData, RunRegistry, allVars
<1>3. ReadSpec => [](ReportCarriesTheLog /\ LogIsMissingOnlyWhileMoved)
  BY ReadersSeeTheLog
<1>4. ReportCarriesTheLog /\ LogIsMissingOnlyWhileMoved => LogGoesWithReports
  BY DEF LogGoesWithReports
<1> QED
  BY <1>1, <1>2, <1>3, <1>4, PTL DEF MCSpec, ReadSpec

-----------------------------------------------------------------------------
(* ReportData.  First what the calls and their steps are, without the      *)
(* sequences they are kept in; then one invariant after the other, kept by *)
(* a call that begins and by each step; last the ring of crumbs and the    *)
(* theorem.  The steps of the calls: what a call of each kind may have     *)
(* left to do.                                                             *)

\* The slots of the ring, and with the fields all that a text can be the copy of.
RingPlaces  == {Data!Slot(i) : i \in 0 .. MaxCrumbs - 1}
FieldPlaces == {Data!Field(f) : f \in Data!Fields}
Places == FieldPlaces \cup RingPlaces

OnPlace == {"load", "drop", "store"}

\* The calls that work on a place.
CallsOn(p) ==
    IF p \in RingPlaces THEN {"crumb", "clearCrumbs", "clear"}
    ELSE {p.of, "clear"} \cup {c \in {"removeContext"} : p.of = "extra"}

CallKinds == {"idle", "removeContext", "crumb", "clearCrumbs", "clear", "configure", "userInfo",
              "classes"} \cup Data!Fields

\* The lock a call holds until it is done.
LockOf(op) ==
    CASE op \in Data!Locked -> op
      [] op = "removeContext" -> "context"
      [] op \in {"crumb", "clearCrumbs"} -> "crumbs"
      [] op = "userInfo" -> "userInfo"
      [] OTHER -> "none"

\* The steps of each kind of call.
StepsOn(op) == {s \in OnPlace \X Places \X Nat :
                    op \in CallsOn(s[2]) /\ (op \in {"clear", "clearCrumbs"} /\ s[1] # "drop" => s[3] = 0)}
StepsOf(op) ==
    StepsOn(op)
      \cup {s \in {<<"unlock", LockOf(op)>>} : LockOf(op) # "none"}
      \cup {s \in {"crumb"} \X Nat : op = "crumb"}
      \cup {s \in {<<"advance">>} : op = "crumb"}
      \cup {s \in {<<"crumbs?", Data!ClearSlots>>} : op \in {"clear", "clearCrumbs"}}
      \cup {s \in {<<"rewind">>} : op \in {"clear", "clearCrumbs", "configure"}}
      \cup {s \in {<<"freeArray">>, <<"malloc">>, <<"memset">>} : op = "configure"}
      \cup {s \in {<<"freeUser">>} : op = "userInfo"}
      \cup {s \in {"storeUser"} \X (Nat \ {0}) : op = "userInfo"}
      \cup {s \in {"classes", "count"} \X (0 .. 2) : op = "classes"}

\* The number of the call whose text a step brings to where it is kept.
Brings(s) ==
    CASE s[1] \in {"load", "store"} -> s[3]
      [] s[1] \in {"crumb", "storeUser"} -> s[2]
      [] OTHER -> 0

\* What was read is freed next, and then the text is stored; an unlock is last; one text at most
\* is brought.
InTurn(d) ==
    /\ \A i \in 1 .. Len(d) : d[i][1] = "drop" =>
          i = 1 /\ 1 < Len(d) /\ d[2][1] = "store" /\ d[2][2] = d[1][2]
    /\ \A i \in 1 .. Len(d) : d[i][1] = "store" => i = 1 \/ (i = 2 /\ d[1][1] = "drop")
    /\ \A i, j \in 1 .. Len(d) : i < j =>
          /\ d[i][1] # "unlock" /\ (Brings(d[i]) = 0 \/ Brings(d[j]) = 0)
          /\ d[i][1] \in {"crumb", "advance"} => d[j][1] = "unlock"

Left(op) == {d \in Seq(StepsOf(op)) : InTurn(d)}
Among(d) == {d[i] : i \in 1 .. Len(d)}

Op(t) == data_call[t].op
Todo(t) == data_call[t].todo
Pending(t) == Among(Todo(t))

\* What a step says of its call.
LEMMA StepKinds ==
  ASSUME NEW op \in CallKinds, NEW s \in StepsOf(op)
  PROVE  /\ s[1] \in OnPlace => /\ s[2] \in Places /\ s[3] \in Nat /\ s = <<s[1], s[2], s[3]>>
                                /\ op \in CallsOn(s[2])
                                /\ op \in {"clear", "clearCrumbs"} /\ s[1] # "drop" => s[3] = 0
         /\ s[1] = "unlock" => LockOf(op) # "none" /\ s[2] = LockOf(op)
         /\ s[1] = "crumb" => op = "crumb" /\ s[2] \in Nat
         /\ s[1] = "advance" => op = "crumb"
         /\ s[1] = "crumbs?" => op \in {"clear", "clearCrumbs"} /\ s[2] = Data!ClearSlots
         /\ s[1] = "rewind" => op \in {"clear", "clearCrumbs", "configure"}
         /\ s[1] \in {"freeArray", "malloc", "memset"} => op = "configure"
         /\ s[1] = "freeUser" => op = "userInfo"
         /\ s[1] = "storeUser" => op = "userInfo" /\ s[2] \in Nat \ {0}
         /\ s[1] \in {"classes", "count"} => op = "classes"
         /\ Brings(s) \in Nat
BY DEF StepsOf, StepsOn, OnPlace, Brings

\* Nothing is left to do of a call that does nothing.
LEMMA IdleSteps == StepsOf("idle") = {}
BY DEF StepsOf, StepsOn, CallsOn, LockOf, RingPlaces, FieldPlaces, Places, Data!Fields, Data!Locked,
   Data!Unlocked, Data!Field, Data!Slot

\* The first step is taken.
LEMMA FirstTaken ==
  ASSUME NEW op, NEW d \in Left(op), d # <<>>, NEW e, e = Tail(d)
  PROVE  /\ e \in Left(op) /\ d[1] = Head(d) /\ d[1] \in StepsOf(op) /\ Among(d) = {d[1]} \cup Among(e)
         /\ \A s \in Among(e) : Brings(d[1]) = 0 \/ Brings(s) = 0
         /\ d[1][1] = "unlock" => e = <<>>
         /\ d[1][1] \in {"crumb", "advance"} => \A s \in Among(e) : s[1] = "unlock"
         /\ d[1][1] = "drop" => e # <<>> /\ Head(e)[1] = "store" /\ Head(e)[2] = d[1][2]
         /\ e # <<>> /\ d[1][1] # "drop" => Head(e)[1] # "store"
         /\ \A s \in Among(e) : s[1] # "drop" /\ (s[1] = "store" => d[1][1] = "drop")
<1>1. /\ d \in Seq(StepsOf(op)) /\ InTurn(d) /\ Len(d) \in Nat /\ 0 < Len(d) /\ 1 \in 1 .. Len(d)
      /\ d[1] = Head(d) /\ d[1] \in StepsOf(op)
  BY DEF Left
<1>2. /\ e \in Seq(StepsOf(op)) /\ Len(e) \in Nat /\ Len(d) = Len(e) + 1
      /\ \A i \in 1 .. Len(e) : i + 1 \in 1 .. Len(d) /\ e[i] = d[i + 1]
      /\ e # <<>> => 1 \in 1 .. Len(e) /\ Head(e) = e[1] /\ e[1] = d[2]
  BY <1>1
<1>3. \A i \in 1 .. Len(d) : i = 1 \/ (i - 1 \in 1 .. Len(e) /\ d[i] = e[i - 1])
  <2> SUFFICES ASSUME NEW i \in 1 .. Len(d), i # 1 PROVE i - 1 \in 1 .. Len(e) /\ d[i] = e[i - 1]
    OBVIOUS
  <2>1. i - 1 \in 1 .. Len(e) /\ (i - 1) + 1 = i
    BY <1>2
  <2> QED
    BY <1>2, <2>1
<1>4. Among(d) = {d[1]} \cup Among(e)
  <2>1. ASSUME NEW s \in Among(d) PROVE s = d[1] \/ s \in Among(e)
    <3>1. PICK i \in 1 .. Len(d) : s = d[i]
      BY DEF Among
    <3> QED
      BY <1>3, <3>1 DEF Among
  <2>2. d[1] \in Among(d)
    BY <1>1 DEF Among
  <2>3. ASSUME NEW s \in Among(e) PROVE s \in Among(d)
    BY <1>2 DEF Among
  <2> QED
    BY <2>1, <2>2, <2>3
<1>5. InTurn(e)
  <2>1. \A i, j \in 1 .. Len(e) : i < j =>
          /\ e[i][1] # "unlock" /\ (Brings(e[i]) = 0 \/ Brings(e[j]) = 0)
          /\ e[i][1] \in {"crumb", "advance"} => e[j][1] = "unlock"
    <3> SUFFICES ASSUME NEW i \in 1 .. Len(e), NEW j \in 1 .. Len(e), i < j
                 PROVE  /\ e[i][1] # "unlock" /\ (Brings(e[i]) = 0 \/ Brings(e[j]) = 0)
                        /\ e[i][1] \in {"crumb", "advance"} => e[j][1] = "unlock"
      OBVIOUS
    <3>1. i + 1 < j + 1 /\ i + 1 \in 1 .. Len(d) /\ j + 1 \in 1 .. Len(d)
          /\ e[i] = d[i + 1] /\ e[j] = d[j + 1]
      BY <1>2
    <3> QED
      BY <1>1, <3>1 DEF InTurn
  <2>2. \A i \in 1 .. Len(e) : e[i][1] # "drop" /\ (e[i][1] = "store" => i = 1)
    <3> SUFFICES ASSUME NEW i \in 1 .. Len(e) PROVE e[i][1] # "drop" /\ (e[i][1] = "store" => i = 1)
      OBVIOUS
    <3>1. i + 1 \in 1 .. Len(d) /\ i + 1 # 1 /\ e[i] = d[i + 1] /\ (i + 1 = 2 => i = 1)
      BY <1>2
    <3> QED
      BY <1>1, <3>1 DEF InTurn
  <2> QED
    BY <2>1, <2>2 DEF InTurn
<1>6. \A s \in Among(e) : \E i \in 1 .. Len(d) : 1 < i /\ s = d[i]
  BY <1>2 DEF Among
<1>7. \A s \in Among(e) : /\ Brings(d[1]) = 0 \/ Brings(s) = 0
                          /\ d[1][1] \in {"crumb", "advance"} => s[1] = "unlock"
                          /\ d[1][1] # "unlock"
                          /\ s[1] # "drop" /\ (s[1] = "store" => d[1][1] = "drop")
  BY <1>1, <1>6 DEF InTurn
<1>8. d[1][1] = "unlock" => e = <<>>
  <2>1. e # <<>> => e[1] \in Among(e)
    BY <1>2 DEF Among
  <2> QED
    BY <1>7, <2>1
<1>9. d[1][1] = "drop" => e # <<>> /\ Head(e)[1] = "store" /\ Head(e)[2] = d[1][2]
  <2> SUFFICES ASSUME d[1][1] = "drop" PROVE e # <<>> /\ Head(e)[1] = "store" /\ Head(e)[2] = d[1][2]
    OBVIOUS
  <2>1. 1 < Len(d) /\ d[2][1] = "store" /\ d[2][2] = d[1][2]
    BY <1>1 DEF InTurn
  <2>2. Len(e) # 0
    BY <1>2, <2>1
  <2>3. e # <<>>
    BY <2>2
  <2> QED
    BY <1>2, <2>1, <2>3
<1>10. e # <<>> /\ d[1][1] # "drop" => Head(e)[1] # "store"
  <2>1. e # <<>> => e[1] \in Among(e)
    BY <1>2 DEF Among
  <2> QED
    BY <1>2, <1>7, <2>1
<1> QED
  BY <1>1, <1>2, <1>4, <1>5, <1>7, <1>8, <1>9, <1>10 DEF Left

\* Steps that can be put before others.
Precedes(a, b) ==
    /\ \A s \in Among(b) : s[1] \notin {"drop", "store"}
    /\ \A s \in Among(a) : s[1] \notin {"unlock", "crumb"}
    /\ (\A s \in Among(a) : Brings(s) = 0) \/ (\A s \in Among(b) : Brings(s) = 0)
    /\ (\A s \in Among(a) : s[1] # "advance") \/ (\A s \in Among(b) : s[1] = "unlock")

\* Steps put before others.
LEMMA PutBefore ==
  \A op, a, b, e : a \in Left(op) /\ b \in Left(op) /\ Precedes(a, b) /\ e = a \o b =>
      /\ e \in Left(op) /\ Among(e) = Among(a) \cup Among(b)
      /\ a # <<>> => e # <<>> /\ Head(e) = a[1]
<1> SUFFICES ASSUME NEW op, NEW a \in Left(op), NEW b \in Left(op), Precedes(a, b), NEW e, e = a \o b
             PROVE  /\ e \in Left(op) /\ Among(e) = Among(a) \cup Among(b)
                    /\ a # <<>> => e # <<>> /\ Head(e) = a[1]
  OBVIOUS
<1> USE DEF Precedes
<1> DEFINE m == Len(a)  n == Len(b)
<1>1. /\ a \in Seq(StepsOf(op)) /\ b \in Seq(StepsOf(op)) /\ InTurn(a) /\ InTurn(b)
  BY DEF Left
<1>2. /\ m \in Nat /\ n \in Nat /\ e \in Seq(StepsOf(op)) /\ Len(e) = m + n
      /\ \A i \in 1 .. m + n : e[i] = IF i <= m THEN a[i] ELSE b[i - m]
  BY <1>1
<1> HIDE DEF m, n
<1>3. /\ \A i \in 1 .. m : i \in 1 .. m + n /\ e[i] = a[i] /\ a[i] \in Among(a)
      /\ \A i \in 1 .. m + n : i \notin 1 .. m => i - m \in 1 .. n /\ e[i] = b[i - m] /\ b[i - m] \in Among(b)
      /\ \A i \in 1 .. n : i + m \in 1 .. m + n /\ e[i + m] = b[i]
  <2>1. \A i \in 1 .. m : i \in 1 .. m + n /\ i <= m /\ a[i] \in Among(a)
    BY <1>2 DEF Among, m
  <2>2. \A i \in 1 .. m + n : i \notin 1 .. m => i - m \in 1 .. n /\ ~(i <= m)
    BY <1>2
  <2>3. \A j \in 1 .. n : b[j] \in Among(b)
    BY DEF Among, n
  <2>4. \A i \in 1 .. n : i + m \in 1 .. m + n /\ ~(i + m <= m) /\ (i + m) - m = i
    BY <1>2
  <2> QED
    BY <1>2, <2>1, <2>2, <2>3, <2>4
<1>4. Among(e) = Among(a) \cup Among(b)
  <2>1. ASSUME NEW s \in Among(e) PROVE s \in Among(a) \cup Among(b)
    <3>1. PICK i \in 1 .. m + n : s = e[i]
      BY <1>2 DEF Among
    <3> QED
      BY <1>3, <3>1
  <2>2. ASSUME NEW s \in Among(a) PROVE s \in Among(e)
    <3>1. PICK i \in 1 .. m : s = a[i]
      BY DEF Among, m
    <3> QED
      BY <1>2, <1>3, <3>1 DEF Among
  <2>3. ASSUME NEW s \in Among(b) PROVE s \in Among(e)
    <3>1. PICK i \in 1 .. n : s = b[i]
      BY DEF Among, n
    <3>2. i + m \in 1 .. Len(e) /\ s = e[i + m]
      BY <1>2, <1>3, <3>1
    <3> QED
      BY <3>2 DEF Among
  <2> QED
    BY <2>1, <2>2, <2>3
<1>5. InTurn(e)
  <2>1. ASSUME NEW i \in 1 .. m + n, e[i][1] = "drop"
        PROVE  i = 1 /\ 1 < m + n /\ e[2][1] = "store" /\ e[2][2] = e[1][2]
    <3>1. i \in 1 .. m /\ e[i] = a[i]
      BY <1>3, <2>1
    <3>2. i = 1 /\ 1 < m /\ a[2][1] = "store" /\ a[2][2] = a[1][2]
      BY <1>1, <2>1, <3>1 DEF InTurn, m
    <3>3. 2 \in 1 .. m /\ 1 \in 1 .. m /\ 1 < m + n
      BY <1>2, <3>2
    <3> QED
      BY <1>3, <3>2, <3>3
  <2>2. ASSUME NEW i \in 1 .. m + n, e[i][1] = "store" PROVE i = 1 \/ (i = 2 /\ e[1][1] = "drop")
    <3>1. i \in 1 .. m /\ e[i] = a[i]
      BY <1>3, <2>2
    <3>2. i = 1 \/ (i = 2 /\ a[1][1] = "drop")
      BY <1>1, <2>2, <3>1 DEF InTurn, m
    <3>3. 1 \in 1 .. m
      BY <1>2, <3>1
    <3> QED
      BY <1>3, <3>2, <3>3
  <2>3. ASSUME NEW i \in 1 .. m + n, NEW j \in 1 .. m + n, i < j
        PROVE  /\ e[i][1] # "unlock" /\ (Brings(e[i]) = 0 \/ Brings(e[j]) = 0)
               /\ e[i][1] \in {"crumb", "advance"} => e[j][1] = "unlock"
    <3>1. CASE i \in 1 .. m /\ j \in 1 .. m
      BY <1>1, <1>3, <2>3, <3>1 DEF InTurn, m
    <3>2. CASE i \in 1 .. m /\ j \notin 1 .. m
      BY <1>3, <3>2
    <3>3. CASE i \notin 1 .. m
      <4>1. j \notin 1 .. m /\ i - m < j - m
        BY <1>2, <2>3, <3>3
      <4>2. i - m \in 1 .. n /\ j - m \in 1 .. n /\ e[i] = b[i - m] /\ e[j] = b[j - m]
        BY <1>3, <3>3, <4>1
      <4> QED
        BY <1>1, <4>1, <4>2 DEF InTurn, n
    <3> QED
      BY <3>1, <3>2, <3>3
  <2> QED
    BY <1>2, <2>1, <2>2, <2>3 DEF InTurn
<1>6. a # <<>> => e # <<>> /\ Head(e) = a[1]
  <2> SUFFICES ASSUME a # <<>> PROVE e # <<>> /\ Head(e) = a[1]
    OBVIOUS
  <2>1. m # 0
    BY <1>1 DEF m
  <2>2. 1 \in 1 .. m /\ Len(e) # 0
    BY <1>2, <2>1
  <2>3. e # <<>>
    BY <2>2
  <2> QED
    BY <1>2, <1>3, <2>2, <2>3
<1> QED
  BY <1>2, <1>4, <1>5, <1>6 DEF Left

\* One step is in turn, whatever it is but a drop.
LEMMA OneStep ==
  ASSUME NEW op, NEW s \in StepsOf(op), s[1] # "drop", NEW e, e = <<s>>
  PROVE  e \in Left(op) /\ Among(e) = {s} /\ e # <<>> /\ e[1] = s /\ Head(e) = s
<1>1. e \in Seq(StepsOf(op)) /\ Len(e) = 1 /\ e[1] = s /\ Head(e) = s /\ e # <<>>
  OBVIOUS
<1>2. \A i \in 1 .. Len(e) : i = 1
  BY <1>1
<1>3. InTurn(e)
  BY <1>1, <1>2 DEF InTurn
<1>4. Among(e) = {s}
  BY <1>1, <1>2 DEF Among
<1> QED
  BY <1>1, <1>3, <1>4 DEF Left

\* Two steps that are made one of before the other.
LEMMA TwoSteps ==
  ASSUME NEW op, NEW s \in StepsOf(op), NEW r \in StepsOf(op), NEW e, e = <<s, r>>,
         s[1] \notin {"unlock", "crumb", "advance"}, r[1] # "drop", Brings(s) = 0 \/ Brings(r) = 0,
         s[1] = "drop" => r[1] = "store" /\ r[2] = s[2],
         r[1] = "store" => s[1] = "drop"
  PROVE  e \in Left(op) /\ Among(e) = {s, r} /\ e # <<>> /\ e[1] = s /\ Head(e) = s
<1>1. e \in Seq(StepsOf(op)) /\ Len(e) = 2 /\ e[1] = s /\ e[2] = r /\ Head(e) = s /\ e # <<>>
  OBVIOUS
<1>2. 1 .. Len(e) = {1, 2}
  BY <1>1
<1>3. InTurn(e)
  <2>1. \A i, j \in 1 .. Len(e) : i < j => i = 1 /\ j = 2
    BY <1>2
  <2> QED
    BY <1>1, <1>2, <2>1 DEF InTurn
<1>4. Among(e) = {s, r}
  BY <1>1, <1>2 DEF Among
<1> QED
  BY <1>1, <1>3, <1>4 DEF Left

\* A sequence of loads of nothing is in turn.
LEMMA OnlyLoads ==
  ASSUME NEW op, NEW a \in Seq(StepsOf(op)), \A i \in 1 .. Len(a) : a[i][1] = "load" /\ a[i][3] = 0
  PROVE  a \in Left(op) /\ \A s \in Among(a) : s[1] = "load" /\ Brings(s) = 0
<1>1. \A i \in 1 .. Len(a) : Brings(a[i]) = 0
  BY DEF Brings
<1>2. InTurn(a)
  BY <1>1 DEF InTurn
<1> QED
  BY <1>1, <1>2 DEF Left, Among

EmptyingOf(p) == <<"load", p, 0>>

\* A place is emptied by the calls that clear it.
LEMMA EmptyingIsAStep ==
  ASSUME NEW p \in Places, NEW op \in CallsOn(p)
  PROVE  EmptyingOf(p) \in StepsOf(op) /\ EmptyingOf(p)[1] = "load" /\ EmptyingOf(p)[2] = p /\ EmptyingOf(p)[3] = 0
BY DEF EmptyingOf, StepsOf, StepsOn, OnPlace

\* What clears the ring empties each slot.
LEMMA SlotsAreCleared ==
  ASSUME NEW op \in {"clear", "clearCrumbs"}
  PROVE  /\ Data!ClearSlots \in Left(op) /\ Data!ClearSlots # <<>> /\ Data!ClearSlots[1][1] = "load"
         /\ Among(Data!ClearSlots) = {EmptyingOf(p) : p \in RingPlaces} \cup {<<"rewind">>}
<1> DEFINE a == [i \in 1 .. MaxCrumbs |-> <<"load", Data!Slot(i - 1), 0>>]
           b == <<<<"rewind">>>>
<1>0. MaxCrumbs \in Nat /\ MaxCrumbs # 0
  BY AppCallsAssumption
<1>1. Data!ClearSlots = a \o b
  BY DEF Data!ClearSlots, Data!Nil
<1>2. \A i \in 1 .. MaxCrumbs : /\ Data!Slot(i - 1) \in RingPlaces /\ a[i] = EmptyingOf(Data!Slot(i - 1))
                                /\ a[i] \in StepsOf(op) /\ a[i][1] = "load" /\ a[i][3] = 0
  <2> SUFFICES ASSUME NEW i \in 1 .. MaxCrumbs
               PROVE  /\ Data!Slot(i - 1) \in RingPlaces /\ a[i] = EmptyingOf(Data!Slot(i - 1))
                      /\ a[i] \in StepsOf(op) /\ a[i][1] = "load" /\ a[i][3] = 0
    OBVIOUS
  <2>1. i - 1 \in 0 .. MaxCrumbs - 1
    BY <1>0
  <2>2. Data!Slot(i - 1) \in RingPlaces /\ a[i] = EmptyingOf(Data!Slot(i - 1))
    BY <2>1 DEF RingPlaces, EmptyingOf
  <2>3. op \in CallsOn(Data!Slot(i - 1)) /\ Data!Slot(i - 1) \in Places
    BY <2>2 DEF CallsOn, Places
  <2> QED
    BY <2>2, <2>3, EmptyingIsAStep
<1>3. a \in Seq(StepsOf(op)) /\ Len(a) = MaxCrumbs /\ a # <<>>
  <2>1. a \in [1 .. MaxCrumbs -> StepsOf(op)]
    BY <1>2
  <2>2. a \in Seq(StepsOf(op)) /\ Len(a) = MaxCrumbs
    BY <1>0, <2>1
  <2> QED
    BY <1>0, <2>2
<1>4. a \in Left(op) /\ \A s \in Among(a) : s[1] = "load" /\ Brings(s) = 0
  <2> HIDE DEF a
  <2> QED
    BY <1>2, <1>3, OnlyLoads
<1>5. Among(a) = {EmptyingOf(p) : p \in RingPlaces}
  <2>1. ASSUME NEW s \in Among(a) PROVE s \in {EmptyingOf(p) : p \in RingPlaces}
    <3>1. PICK i \in 1 .. MaxCrumbs : s = a[i]
      BY <1>3 DEF Among
    <3> QED
      BY <1>2, <3>1
  <2>2. ASSUME NEW p \in RingPlaces PROVE EmptyingOf(p) \in Among(a)
    <3>1. PICK j \in 0 .. MaxCrumbs - 1 : p = Data!Slot(j)
      BY DEF RingPlaces
    <3>2. j + 1 \in 1 .. MaxCrumbs /\ (j + 1) - 1 = j
      BY <1>0
    <3>3. a[j + 1] = EmptyingOf(p)
      BY <1>2, <3>1, <3>2
    <3> QED
      BY <1>3, <3>2, <3>3 DEF Among
  <2> QED
    BY <2>1, <2>2
<1>6. <<"rewind">> \in StepsOf(op)
  BY DEF StepsOf
<1>7. b \in Left(op) /\ Among(b) = {<<"rewind">>}
  BY <1>6, OneStep
<1>8. /\ \A s \in Among(b) : s[1] \notin {"drop", "store"}
      /\ \A s \in Among(a) : s[1] \notin {"unlock", "crumb"}
      /\ (\A s \in Among(a) : Brings(s) = 0) \/ (\A s \in Among(b) : Brings(s) = 0)
      /\ (\A s \in Among(a) : s[1] # "advance") \/ (\A s \in Among(b) : s[1] = "unlock")
  BY <1>4, <1>7
<1>8a. Precedes(a, b)
  BY <1>8, Zenon DEF Precedes
<1>9. PICK e : e = a \o b
  OBVIOUS
<1> HIDE DEF a, b
<1>10. /\ e \in Left(op) /\ Among(e) = Among(a) \cup Among(b)
       /\ e # <<>> /\ Head(e) = a[1]
  <2>1. a \in Left(op)
    BY <1>4
  <2>2. b \in Left(op)
    BY <1>7
  <2>3. a # <<>>
    BY <1>3
  <2>4. e \in Left(op) /\ Among(e) = Among(a) \cup Among(b) /\ (a # <<>> => e # <<>> /\ Head(e) = a[1])
    BY <1>8a, <1>9, <2>1, <2>2, PutBefore
  <2> QED
    BY <2>3, <2>4
<1>11. e[1] = Head(e) /\ a[1][1] = "load"
  <2>1. 1 \in 1 .. MaxCrumbs
    BY <1>0
  <2>2. e \in Seq(StepsOf(op))
    BY <1>10 DEF Left
  <2> QED
    BY <1>2, <1>10, <2>1, <2>2
<1> QED
  BY <1>1, <1>5, <1>7, <1>9, <1>10, <1>11

\* What clears the fields.
Clearing == Data!SetToSeq({<<"load", Data!Field(f), Data!Nil>> : f \in Data!Fields})

\* The instance has its own copies of the library's operators on finite sets.
LEMMA SameCounting == \A S : Data!Cardinality(S) = Cardinality(S)
BY Zenon DEF Data!Cardinality, Cardinality

\* Each field is emptied.
LEMMA FieldsAreCleared ==
  /\ Clearing \in Left("clear") /\ Clearing # <<>> /\ Clearing[1][1] = "load"
  /\ Among(Clearing) = {EmptyingOf(p) : p \in FieldPlaces}
<1> DEFINE x == EmptyingOf(Data!Field("extra"))
           y == EmptyingOf(Data!Field("context"))
           z == EmptyingOf(Data!Field("user"))
           S == {x, y, z}
<1>1. x # y /\ x # z /\ y # z
  BY DEF EmptyingOf, Data!Field
<1>2. Data!Fields = {"extra", "context", "user"}
  BY DEF Data!Fields, Data!Locked, Data!Unlocked
<1>3. /\ {<<"load", Data!Field(f), Data!Nil>> : f \in Data!Fields} = S
      /\ {EmptyingOf(p) : p \in FieldPlaces} = S
  BY <1>2 DEF EmptyingOf, Data!Nil, FieldPlaces
<1>4. \A s \in S : s \in StepsOf("clear") /\ s[1] = "load" /\ s[3] = 0
  <2>1. \A f \in Data!Fields : Data!Field(f) \in Places /\ "clear" \in CallsOn(Data!Field(f))
    BY DEF Places, FieldPlaces, CallsOn
  <2>2. \A p \in Places : "clear" \in CallsOn(p) =>
           /\ EmptyingOf(p) \in StepsOf("clear") /\ EmptyingOf(p)[1] = "load" /\ EmptyingOf(p)[3] = 0
    BY EmptyingIsAStep
  <2> QED
    BY <1>2, <2>1, <2>2
<1> HIDE DEF x, y, z
<1>5. Cardinality(S) = 3
  <2>1. Cardinality({}) = 0 /\ IsFiniteSet({})
    BY FS_EmptySet
  <2>2. Cardinality({x}) = 1 /\ IsFiniteSet({x})
    BY FS_Singleton
  <2>3. IsFiniteSet({x} \cup {y}) /\ Cardinality({x} \cup {y}) = 2
    BY <1>1, <2>2, FS_AddElement
  <2>4. IsFiniteSet(({x} \cup {y}) \cup {z}) /\ Cardinality(({x} \cup {y}) \cup {z}) = 3
    BY <1>1, <2>3, FS_AddElement
  <2>5. ({x} \cup {y}) \cup {z} = S
    OBVIOUS
  <2> QED
    BY <2>4, <2>5
<1>6. PICK g : g = Clearing
  OBVIOUS
<1>7. g \in [1 .. 3 -> S] /\ \A i, j \in 1 .. 3 : g[i] = g[j] => i = j
  <2> DEFINE one == <<x, y, z>>
  <2>1. one \in [1 .. 3 -> S] /\ Data!IsInjective(one)
    BY <1>1 DEF Data!IsInjective
  <2>2. g = CHOOSE f \in [1 .. Data!Cardinality(S) -> S] : Data!IsInjective(f)
    BY <1>3, <1>6, Zenon DEF Clearing, Data!SetToSeq
  <2>3. g = CHOOSE f \in [1 .. 3 -> S] : Data!IsInjective(f)
    BY <1>5, <2>2, SameCounting, Zenon
  <2>4. g \in [1 .. 3 -> S] /\ Data!IsInjective(g)
    BY <2>1, <2>3, Zenon
  <2>5. DOMAIN g = 1 .. 3
    BY <2>4
  <2> QED
    BY <2>4, <2>5 DEF Data!IsInjective
<1>8. g \in Seq(StepsOf("clear")) /\ Len(g) = 3 /\ g # <<>>
  <2>1. g \in Seq(S) /\ Len(g) = 3 /\ g # <<>>
    <3>1. ASSUME NEW n \in Nat, n # 0, NEW T, g \in [1 .. n -> T]
          PROVE  g \in Seq(T) /\ Len(g) = n /\ g # <<>>
      BY <3>1
    <3>2. 3 \in Nat /\ 3 # 0
      OBVIOUS
    <3> QED
      BY <1>7, <3>1, <3>2, Zenon
  <2>2. S \subseteq StepsOf("clear")
    BY <1>4
  <2> QED
    BY <2>1, <2>2
<1>9. \A i \in 1 .. 3 : g[i] \in S
  BY <1>7
<1>10. S = {g[i] : i \in 1 .. 3}
  <2>1. 1 \in 1 .. 3 /\ 2 \in 1 .. 3 /\ 3 \in 1 .. 3
    OBVIOUS
  <2>2. g[1] # g[2] /\ g[1] # g[3] /\ g[2] # g[3] /\ g[1] \in S /\ g[2] \in S /\ g[3] \in S
    BY <1>7, <2>1
  <2> QED
    BY <2>1, <2>2, <1>9
<1>11. Among(g) = S
  BY <1>8, <1>10 DEF Among
<1>12. \A i \in 1 .. Len(g) : g[i][1] = "load" /\ g[i][3] = 0
  BY <1>4, <1>8, <1>9
<1>13. g \in Left("clear") /\ g[1][1] = "load"
  BY <1>8, <1>12, OnlyLoads
<1> QED
  BY <1>3, <1>6, <1>8, <1>11, <1>13

-----------------------------------------------------------------------------
(* The threads: each is in the middle of one call, and takes its steps in turn. *)

\* What a thread is in the middle of.
CallsInTurn ==
    /\ data_call = [t \in Threads |-> [op |-> Op(t), todo |-> Todo(t)]]
    /\ \A t \in Threads :
          Op(t) \in CallKinds /\ Todo(t) \in Left(Op(t)) /\ (Op(t) = "idle" <=> Todo(t) = <<>>)

\* The data are of the kinds they are used as.
DataKinds ==
    /\ data_scope \in [Data!Fields -> Nat] /\ data_text \in [Data!Fields -> Nat]
    /\ data_ring \in [0 .. MaxCrumbs - 1 -> Nat] /\ data_current \in 0 .. MaxCrumbs - 1
    /\ data_crumbs \in Seq(Nat \ {0}) /\ Len(data_crumbs) <= MaxCrumbs
    /\ data_array \in {"null", "ready", "freed", "garbage"} /\ data_user \in Nat
    /\ data_lock \in [Data!Locks -> Threads \cup {Data!Free_}]

CallsAreCounted ==
    /\ data_calls \in 0 .. MaxCalls /\ Len(data_history) = data_calls
    /\ data_history \in Seq([op : CallKinds \cup {"unencoded"}, alone : BOOLEAN])

\* Thread t goes on with e, the others stay where they are.
GoesOn(t, op, e) ==
    /\ Todo(t)' = e /\ Op(t)' = IF e = <<>> THEN "idle" ELSE op
    /\ \A u \in Threads : u # t => Todo(u)' = Todo(u) /\ Op(u)' = Op(u)

\* A step of a call leaves the thread with the steps that follow.
LEMMA StepGoesOn ==
  ASSUME CallsInTurn, NEW t \in Threads, NEW op, op = Op(t), NEW e \in Left(op), Data!Continue(t, e)
  PROVE  GoesOn(t, op, e) /\ CallsInTurn'
<1> DEFINE c == IF e = <<>> THEN [op |-> "idle", todo |-> <<>>] ELSE [op |-> op, todo |-> e]
<1>1. data_call' = [data_call EXCEPT ![t] = c]
  <2>1. data_call[t] = [op |-> op, todo |-> Todo(t)]
    BY DEF CallsInTurn
  <2>2. [data_call[t] EXCEPT !.todo = e] = [op |-> op, todo |-> e]
    BY <2>1
  <2> QED
    BY <2>2, Zenon DEF Data!Continue, Data!Idle
<1>2. c.op = (IF e = <<>> THEN "idle" ELSE op) /\ c.todo = e /\ c = [op |-> c.op, todo |-> c.todo]
  OBVIOUS
<1> HIDE DEF c
<1>3. DOMAIN data_call = Threads
  BY DEF CallsInTurn
<1>4. /\ data_call'[t] = c /\ DOMAIN data_call' = Threads
      /\ \A u \in Threads : u # t => data_call'[u] = data_call[u]
  BY <1>1, <1>3
<1>5. GoesOn(t, op, e)
  BY <1>2, <1>4 DEF GoesOn, Op, Todo
<1>6. \A u \in Threads : data_call'[u] = [op |-> Op(u)', todo |-> Todo(u)']
  <2>1. ASSUME NEW u \in Threads, u # t PROVE data_call'[u] = [op |-> Op(u)', todo |-> Todo(u)']
    <3>1. data_call[u] = [op |-> Op(u), todo |-> Todo(u)]
      BY DEF CallsInTurn
    <3> QED
      BY <1>4, <2>1, <3>1 DEF Op, Todo
  <2>2. data_call'[t] = [op |-> Op(t)', todo |-> Todo(t)']
    BY <1>2, <1>4 DEF Op, Todo
  <2> QED
    BY <2>1, <2>2
<1>7. data_call' = [u \in Threads |-> [op |-> Op(u)', todo |-> Todo(u)']]
  <2>1. data_call' = [u \in Threads |-> data_call'[u]]
    BY <1>1, <1>3
  <2> QED
    BY <1>6, <2>1
<1>8. \A u \in Threads : Op(u)' \in CallKinds /\ Todo(u)' \in Left(Op(u)') /\ (Op(u)' = "idle" <=> Todo(u)' = <<>>)
  <2>1. ASSUME NEW u \in Threads, u # t
        PROVE Op(u)' \in CallKinds /\ Todo(u)' \in Left(Op(u)') /\ (Op(u)' = "idle" <=> Todo(u)' = <<>>)
    <3>1. Op(u)' = Op(u) /\ Todo(u)' = Todo(u)
      BY <1>5, <2>1 DEF GoesOn
    <3>2. Op(u) \in CallKinds /\ Todo(u) \in Left(Op(u)) /\ (Op(u) = "idle" <=> Todo(u) = <<>>)
      BY DEF CallsInTurn
    <3> QED
      BY <3>1, <3>2
  <2>2. CASE e = <<>>
    <3>1. Op(t)' = "idle" /\ Todo(t)' = <<>>
      BY <1>5, <2>2 DEF GoesOn
    <3>2. <<>> \in Left("idle")
      BY DEF Left, InTurn
    <3>3. "idle" \in CallKinds
      BY DEF CallKinds
    <3> QED
      BY <2>1, <3>1, <3>2, <3>3
  <2>3. CASE e # <<>>
    <3>1. Op(t)' = op /\ Todo(t)' = e
      BY <1>5, <2>3 DEF GoesOn
    <3>2. op \in CallKinds /\ op # "idle"
      <4>1. op \in CallKinds
        BY DEF CallsInTurn
      <4>2. op = "idle" => e \in Seq({})
        BY IdleSteps DEF Left
      <4>3. e \in Seq({}) => e = <<>>
        OBVIOUS
      <4> QED
        BY <2>3, <4>1, <4>2, <4>3
    <3> QED
      BY <2>1, <2>3, <3>1, <3>2
  <2> QED
    BY <2>2, <2>3
<1> QED
  BY <1>5, <1>7, <1>8 DEF CallsInTurn

\* A call begins.
LEMMA CallBegins ==
  ASSUME CallsInTurn, CallsAreCounted, NEW t \in Threads, NEW op \in CallKinds \ {"idle"},
         NEW e \in Left(op), e # <<>>, Data!Begin(t, op, e)
  PROVE  /\ GoesOn(t, op, e) /\ CallsInTurn' /\ CallsAreCounted' /\ Op(t) = "idle" /\ Todo(t) = <<>>
         /\ data_calls' = data_calls + 1
         /\ data_history' = Append(data_history, [op |-> op, alone |-> Data!Quiet])
         /\ \A u \in Threads : Op(u) # "configure"
<1> DEFINE c == [op |-> op, todo |-> e]
<1>1. data_call' = [data_call EXCEPT ![t] = c]
  BY DEF Data!Begin
<1>2. c.op = op /\ c.todo = e /\ c = [op |-> c.op, todo |-> c.todo]
  OBVIOUS
<1> HIDE DEF c
<1>3. DOMAIN data_call = Threads
  BY DEF CallsInTurn
<1>4. /\ data_call'[t] = c /\ DOMAIN data_call' = Threads
      /\ \A u \in Threads : u # t => data_call'[u] = data_call[u]
  BY <1>1, <1>3
<1>5. GoesOn(t, op, e)
  BY <1>2, <1>4 DEF GoesOn, Op, Todo
<1>6. \A u \in Threads : data_call'[u] = [op |-> Op(u)', todo |-> Todo(u)']
  <2>1. ASSUME NEW u \in Threads, u # t PROVE data_call'[u] = [op |-> Op(u)', todo |-> Todo(u)']
    <3>1. data_call[u] = [op |-> Op(u), todo |-> Todo(u)]
      BY DEF CallsInTurn
    <3> QED
      BY <1>4, <2>1, <3>1 DEF Op, Todo
  <2>2. data_call'[t] = [op |-> Op(t)', todo |-> Todo(t)']
    BY <1>2, <1>4 DEF Op, Todo
  <2> QED
    BY <2>1, <2>2
<1>7. data_call' = [u \in Threads |-> [op |-> Op(u)', todo |-> Todo(u)']]
  <2>1. data_call' = [u \in Threads |-> data_call'[u]]
    BY <1>1, <1>3
  <2> QED
    BY <1>6, <2>1
<1>8. \A u \in Threads : Op(u)' \in CallKinds /\ Todo(u)' \in Left(Op(u)') /\ (Op(u)' = "idle" <=> Todo(u)' = <<>>)
  <2>1. ASSUME NEW u \in Threads, u # t
        PROVE Op(u)' \in CallKinds /\ Todo(u)' \in Left(Op(u)') /\ (Op(u)' = "idle" <=> Todo(u)' = <<>>)
    <3>1. Op(u)' = Op(u) /\ Todo(u)' = Todo(u)
      BY <1>5, <2>1 DEF GoesOn
    <3>2. Op(u) \in CallKinds /\ Todo(u) \in Left(Op(u)) /\ (Op(u) = "idle" <=> Todo(u) = <<>>)
      BY DEF CallsInTurn
    <3> QED
      BY <3>1, <3>2
  <2>2. Op(t)' = op /\ Todo(t)' = e
    BY <1>5 DEF GoesOn
  <2> QED
    BY <2>1, <2>2
<1>9. CallsInTurn'
  BY <1>7, <1>8 DEF CallsInTurn
<1>10. CallsAreCounted'
  <2>1. data_calls' = data_calls + 1 /\ data_calls < MaxCalls /\ data_calls' \in 0 .. MaxCalls
    BY AppCallsAssumption DEF Data!Begin, CallsAreCounted
  <2>2. PICK q \in BOOLEAN : q <=> Data!Quiet
    OBVIOUS
  <2>3. data_history' = Append(data_history, [op |-> op, alone |-> q])
    <3>1. Data!Quiet \in BOOLEAN
      BY DEF Data!Quiet
    <3>2. Data!Quiet = q
      BY <2>2, <3>1
    <3> QED
      BY <3>2 DEF Data!Begin
  <2>4. [op |-> op, alone |-> q] \in [op : CallKinds \cup {"unencoded"}, alone : BOOLEAN]
    OBVIOUS
  <2> QED
    BY <2>1, <2>3, <2>4 DEF CallsAreCounted
<1>11. Op(t) = "idle" /\ Todo(t) = <<>>
  BY DEF Data!Begin, Data!Idle, Op, Todo
<1>12. /\ data_calls' = data_calls + 1
       /\ data_history' = Append(data_history, [op |-> op, alone |-> Data!Quiet])
  BY DEF Data!Begin
<1>13. \A u \in Threads : Op(u) # "configure"
  BY DEF Data!Begin, Data!Doing, Op
<1> QED
  BY <1>5, <1>9, <1>10, <1>11, <1>12, <1>13

\* Something is put in one place, and nowhere else.
LEMMA PutThere ==
  ASSUME DataKinds, NEW p \in Places, NEW x \in Nat, Data!Put(p, x)
  PROVE  /\ Data!At(p)' = x /\ \A q \in Places : q # p => Data!At(q)' = Data!At(q)
         /\ data_text' \in [Data!Fields -> Nat] /\ data_ring' \in [0 .. MaxCrumbs - 1 -> Nat]
         /\ p \in RingPlaces => UNCHANGED data_text
         /\ p \in FieldPlaces => UNCHANGED data_ring
<1>1. CASE p \in RingPlaces
  <2>1. PICK i \in 0 .. MaxCrumbs - 1 : p = [of |-> "ring", at |-> i]
    BY <1>1 DEF RingPlaces, Data!Slot
  <2>2. p.of = "ring" /\ p.at = i
    BY <2>1
  <2>3. data_ring' = [data_ring EXCEPT ![i] = x] /\ UNCHANGED data_text
    BY <2>2 DEF Data!Put
  <2>4. data_ring \in [0 .. MaxCrumbs - 1 -> Nat] /\ data_text \in [Data!Fields -> Nat]
    BY DEF DataKinds
  <2>5. data_ring'[i] = x /\ data_ring' \in [0 .. MaxCrumbs - 1 -> Nat]
        /\ \A j \in 0 .. MaxCrumbs - 1 : j # i => data_ring'[j] = data_ring[j]
    BY <2>3, <2>4
  <2>6. Data!At(p)' = x
    BY <2>2, <2>5 DEF Data!At
  <2>7. ASSUME NEW q \in Places, q # p PROVE Data!At(q)' = Data!At(q)
    <3>1. CASE q \in FieldPlaces
      BY <2>3, <3>1 DEF FieldPlaces, Data!Field, Data!At, Data!Fields, Data!Locked, Data!Unlocked
    <3>2. CASE q \in RingPlaces
      <4>1. PICK j \in 0 .. MaxCrumbs - 1 : q = [of |-> "ring", at |-> j]
        BY <3>2 DEF RingPlaces, Data!Slot
      <4>2. j # i /\ q.of = "ring" /\ q.at = j
        BY <2>1, <2>7, <4>1
      <4> QED
        BY <2>5, <4>2 DEF Data!At
    <3> QED
      BY <3>1, <3>2 DEF Places
  <2>8. p \notin FieldPlaces
    BY <2>2 DEF FieldPlaces, Data!Field, Data!Fields, Data!Locked, Data!Unlocked
  <2> QED
    BY <2>3, <2>4, <2>5, <2>6, <2>7, <2>8
<1>2. CASE p \in FieldPlaces
  <2>1. PICK f \in Data!Fields : p = [of |-> f, at |-> 0]
    BY <1>2 DEF FieldPlaces, Data!Field
  <2>2. p.of = f /\ f # "ring"
    BY <2>1 DEF Data!Fields, Data!Locked, Data!Unlocked
  <2>3. data_text' = [data_text EXCEPT ![f] = x] /\ UNCHANGED data_ring
    BY <2>2 DEF Data!Put
  <2>4. data_ring \in [0 .. MaxCrumbs - 1 -> Nat] /\ data_text \in [Data!Fields -> Nat]
    BY DEF DataKinds
  <2>5. data_text'[f] = x /\ data_text' \in [Data!Fields -> Nat]
        /\ \A g \in Data!Fields : g # f => data_text'[g] = data_text[g]
    BY <2>3, <2>4
  <2>6. Data!At(p)' = x
    BY <2>2, <2>5 DEF Data!At
  <2>7. ASSUME NEW q \in Places, q # p PROVE Data!At(q)' = Data!At(q)
    <3>1. CASE q \in FieldPlaces
      <4>1. PICK g \in Data!Fields : q = [of |-> g, at |-> 0]
        BY <3>1 DEF FieldPlaces, Data!Field
      <4>2. g # f /\ q.of = g /\ g # "ring"
        BY <2>1, <2>7, <4>1 DEF Data!Fields, Data!Locked, Data!Unlocked
      <4> QED
        BY <2>5, <4>2 DEF Data!At
    <3>2. CASE q \in RingPlaces
      BY <2>3, <3>2 DEF RingPlaces, Data!Slot, Data!At
    <3> QED
      BY <3>1, <3>2 DEF Places
  <2>8. p \notin RingPlaces
    BY <2>2 DEF RingPlaces, Data!Slot
  <2> QED
    BY <2>3, <2>4, <2>5, <2>6, <2>7, <2>8
<1> QED
  BY <1>1, <1>2 DEF Places

\* A text is what is at a field, a slot's what is at it.
LEMMA AtPlaces ==
  /\ \A f \in Data!Fields : Data!Field(f) \in FieldPlaces /\ Data!At(Data!Field(f)) = data_text[f]
  /\ \A i \in 0 .. MaxCrumbs - 1 : Data!Slot(i) \in RingPlaces /\ Data!At(Data!Slot(i)) = data_ring[i]
  /\ \A p \in FieldPlaces : p.of \in Data!Fields /\ p = Data!Field(p.of) /\ p \notin RingPlaces
  /\ \A p \in RingPlaces : p.of = "ring" /\ p.at \in 0 .. MaxCrumbs - 1 /\ p = Data!Slot(p.at)
  /\ "ring" \notin Data!Fields
BY DEF FieldPlaces, RingPlaces, Data!Field, Data!Slot, Data!At, Data!Fields, Data!Locked, Data!Unlocked

\* A place holds a number.
LEMMA AtIsNat == DataKinds => \A p \in Places : Data!At(p) \in Nat
<1> SUFFICES ASSUME DataKinds, NEW p \in Places PROVE Data!At(p) \in Nat
  OBVIOUS
<1>1. CASE p \in FieldPlaces
  <2>1. p.of \in Data!Fields /\ p = Data!Field(p.of) /\ Data!At(Data!Field(p.of)) = data_text[p.of]
    BY <1>1, AtPlaces
  <2> QED
    BY <2>1 DEF DataKinds
<1>2. CASE p \in RingPlaces
  <2>1. p.at \in 0 .. MaxCrumbs - 1 /\ p = Data!Slot(p.at) /\ Data!At(Data!Slot(p.at)) = data_ring[p.at]
    BY <1>2, AtPlaces
  <2> QED
    BY <2>1 DEF DataKinds
<1> QED
  BY <1>1, <1>2 DEF Places

\* What follows a step that is taken.
Follows(h, r) ==
    /\ \A s \in Among(r) : Brings(h) = 0 \/ Brings(s) = 0
    /\ h[1] = "unlock" => r = <<>>
    /\ h[1] \in {"crumb", "advance"} => \A s \in Among(r) : s[1] = "unlock"
    /\ h[1] = "drop" => r # <<>> /\ Head(r)[1] = "store" /\ Head(r)[2] = h[2]
    /\ r # <<>> /\ h[1] # "drop" => Head(r)[1] # "store"
    /\ \A s \in Among(r) : s[1] # "drop" /\ (s[1] = "store" => h[1] = "drop")
    /\ r # <<>> => Head(r) \in Among(r)

\* Thread t takes step h of its call, e is left to do.
Takes(t, op, h, r, e) ==
    /\ op = Op(t) /\ op \in CallKinds \ {"idle"} /\ h \in StepsOf(op) /\ r \in Left(op) /\ e \in Left(op)
    /\ Todo(t) # <<>> /\ h = Head(Todo(t)) /\ Pending(t) = {h} \cup Among(r) /\ Follows(h, r)
    /\ GoesOn(t, op, e) /\ Among(e) = Pending(t)'
    /\ UNCHANGED <<data_scope, data_crumbs, data_calls, data_history>>

\* A thread that takes a step, and what that leaves.
LEMMA StepTaken ==
  ASSUME CallsInTurn, NEW t \in Threads, NEW k, Data!Step(t, k), NEW r, r = Data!Rest(t)
  PROVE  \E op, h : /\ op = Op(t) /\ op \in CallKinds \ {"idle"} /\ h \in StepsOf(op) /\ r \in Left(op)
                    /\ Todo(t) # <<>> /\ h = Head(data_call[t].todo) /\ h = Head(Todo(t)) /\ h[1] = k
                    /\ Pending(t) = {h} \cup Among(r) /\ Follows(h, r)
<1>1. PICK d : d = Todo(t)
  OBVIOUS
<1>2. PICK op : op = Op(t)
  OBVIOUS
<1>3. d \in Left(op) /\ op \in CallKinds \ {"idle"} /\ d # <<>> /\ Head(d)[1] = k /\ r = Tail(d)
  BY <1>1, <1>2 DEF CallsInTurn, Data!Step, Data!Rest, Todo
<1>4. /\ r \in Left(op) /\ d[1] = Head(d) /\ d[1] \in StepsOf(op) /\ Among(d) = {d[1]} \cup Among(r)
      /\ \A s \in Among(r) : Brings(d[1]) = 0 \/ Brings(s) = 0
      /\ d[1][1] = "unlock" => r = <<>>
      /\ d[1][1] \in {"crumb", "advance"} => \A s \in Among(r) : s[1] = "unlock"
      /\ d[1][1] = "drop" => r # <<>> /\ Head(r)[1] = "store" /\ Head(r)[2] = d[1][2]
      /\ r # <<>> /\ d[1][1] # "drop" => Head(r)[1] # "store"
      /\ \A s \in Among(r) : s[1] # "drop" /\ (s[1] = "store" => d[1][1] = "drop")
  BY <1>3, FirstTaken
<1>5. r # <<>> => Head(r) \in Among(r)
  <2>1. r \in Seq(StepsOf(op))
    BY <1>4 DEF Left
  <2>2. r # <<>> => Head(r) = r[1] /\ 1 \in 1 .. Len(r)
    BY <2>1
  <2> QED
    BY <2>2 DEF Among
<1>6. Follows(d[1], r)
  BY <1>4, <1>5 DEF Follows
<1> QED
  BY <1>1, <1>2, <1>3, <1>4, <1>6 DEF Pending, Todo

\* A step that is done when it is taken.
LEMMA StepDone ==
  ASSUME CallsInTurn, NEW t \in Threads, NEW k, Data!Step(t, k), Data!Continue(t, Data!Rest(t)),
         UNCHANGED <<data_scope, data_crumbs, data_calls, data_history>>
  PROVE  CallsInTurn' /\ \E op, h, r : Takes(t, op, h, r, r) /\ h = Head(data_call[t].todo) /\ h[1] = k
<1>1. PICK r : r = Data!Rest(t)
  OBVIOUS
<1>2. PICK op, h : /\ op = Op(t) /\ op \in CallKinds \ {"idle"} /\ h \in StepsOf(op) /\ r \in Left(op)
                   /\ Todo(t) # <<>> /\ h = Head(data_call[t].todo) /\ h = Head(Todo(t)) /\ h[1] = k
                   /\ Pending(t) = {h} \cup Among(r) /\ Follows(h, r)
  BY <1>1, StepTaken
<1>3. Data!Continue(t, r)
  BY <1>1
<1>4. GoesOn(t, op, r) /\ CallsInTurn'
  BY <1>2, <1>3, StepGoesOn
<1>5. Pending(t)' = Among(r)
  BY <1>4 DEF GoesOn, Pending
<1> QED
  BY <1>2, <1>4, <1>5 DEF Takes

\* A step that puts others in its place.
LEMMA StepReplaced ==
  ASSUME CallsInTurn, NEW t \in Threads, NEW k, Data!Step(t, k), NEW op, NEW h, NEW r, NEW e \in Left(op),
         op = Op(t), op \in CallKinds \ {"idle"}, h \in StepsOf(op), r \in Left(op),
         Todo(t) # <<>>, h = Head(Todo(t)), Pending(t) = {h} \cup Among(r), Follows(h, r),
         Data!Continue(t, e), UNCHANGED <<data_scope, data_crumbs, data_calls, data_history>>
  PROVE  CallsInTurn' /\ Takes(t, op, h, r, e)
<1>1. GoesOn(t, op, e) /\ CallsInTurn'
  BY StepGoesOn
<1>2. Pending(t)' = Among(e)
  BY <1>1 DEF GoesOn, Pending
<1> QED
  BY <1>1, <1>2 DEF Takes

\* What a place held is read: it will be freed, and the text stored.
LEMMA LoadTaken ==
  ASSUME CallsInTurn, DataKinds, NEW t \in Threads, Data!Load(t)
  PROVE  CallsInTurn' /\ \E op, h, r, e : \E p \in Places, n \in Nat, x \in Nat :
            /\ Takes(t, op, h, r, e) /\ h = <<"load", p, n>> /\ x = Data!At(p) /\ op \in CallsOn(p)
            /\ Among(e) = {<<"drop", p, x>>, <<"store", p, n>>} \cup Among(r) /\ e # <<>>
            /\ Head(e)[1] = "drop"
<1>1. PICK r : r = Data!Rest(t)
  OBVIOUS
<1>2. PICK op, h : /\ op = Op(t) /\ op \in CallKinds \ {"idle"} /\ h \in StepsOf(op) /\ r \in Left(op)
                   /\ Todo(t) # <<>> /\ h = Head(data_call[t].todo) /\ h = Head(Todo(t)) /\ h[1] = "load"
                   /\ Pending(t) = {h} \cup Among(r) /\ Follows(h, r)
  BY <1>1, StepTaken DEF Data!Load
<1>3. PICK p \in Places, n \in Nat : h = <<"load", p, n>> /\ op \in CallsOn(p)
                                     /\ (op \in {"clear", "clearCrumbs"} => n = 0)
  <2>1. h[1] \in OnPlace
    BY <1>2 DEF OnPlace
  <2>2. /\ h[2] \in Places /\ h[3] \in Nat /\ h = <<h[1], h[2], h[3]>> /\ op \in CallsOn(h[2])
        /\ (op \in {"clear", "clearCrumbs"} /\ h[1] # "drop" => h[3] = 0)
    BY <1>2, <2>1, StepKinds
  <2> QED
    BY <1>2, <2>2
<1>4. PICK x \in Nat : x = Data!At(p)
  BY AtIsNat
<1> DEFINE drop == <<"drop", p, x>>
           store == <<"store", p, n>>
<1>5. PICK e : e = <<drop, store>> \o r
  OBVIOUS
<1>6. drop \in StepsOf(op) /\ store \in StepsOf(op)
  BY <1>3, <1>4 DEF StepsOf, StepsOn, OnPlace
<1>7. /\ drop[1] = "drop" /\ store[1] = "store" /\ store[2] = drop[2] /\ Brings(drop) = 0
      /\ Brings(store) = n /\ Brings(h) = n
  BY <1>3 DEF Brings
<1> HIDE DEF drop, store
<1>8. PICK a : a = <<drop, store>>
  OBVIOUS
<1>9. a \in Left(op) /\ Among(a) = {drop, store} /\ a # <<>> /\ a[1] = drop
  BY <1>6, <1>7, <1>8, TwoSteps
<1>10. Precedes(a, r)
  <2>1. \A s \in Among(r) : s[1] \notin {"drop", "store"} /\ (n = 0 \/ Brings(s) = 0)
    BY <1>2, <1>7 DEF Follows
  <2>2. \A s \in Among(a) : s[1] \notin {"unlock", "crumb"} /\ s[1] # "advance"
    BY <1>7, <1>9
  <2>3. (\A s \in Among(a) : Brings(s) = 0) \/ (\A s \in Among(r) : Brings(s) = 0)
    BY <1>7, <1>9, <2>1
  <2> QED
    BY <2>1, <2>2, <2>3 DEF Precedes
<1>11. e \in Left(op) /\ Among(e) = Among(a) \cup Among(r) /\ e # <<>> /\ Head(e) = drop
  <2>1. e = a \o r
    BY <1>5, <1>8
  <2>2. e \in Left(op) /\ Among(e) = Among(a) \cup Among(r) /\ (a # <<>> => e # <<>> /\ Head(e) = a[1])
    <3>1. a \in Left(op) /\ r \in Left(op)
      BY <1>2, <1>9
    <3> QED
      BY <1>10, <2>1, <3>1, PutBefore, Zenon
  <2> QED
    BY <1>9, <2>2
<1>12. Data!Continue(t, e) /\ UNCHANGED <<data_scope, data_crumbs, data_calls, data_history>>
  <2>1. Data!Continue(t, <<<<"drop", h[2], Data!At(h[2])>>, <<"store", h[2], h[3]>>>> \o r)
    BY <1>1, <1>2 DEF Data!Load
  <2>2. h[2] = p /\ h[3] = n /\ Data!At(h[2]) = x
    BY <1>3, <1>4
  <2>3. <<<<"drop", h[2], Data!At(h[2])>>, <<"store", h[2], h[3]>>>> = <<drop, store>>
    BY <2>2 DEF drop, store
  <2>4. Data!Continue(t, e)
    BY <1>5, <2>1, <2>3
  <2> QED
    BY <2>4 DEF Data!Load, Data!Frame
<1>13. Data!Step(t, "load")
  BY DEF Data!Load
<1>14. CallsInTurn' /\ Takes(t, op, h, r, e)
  BY <1>2, <1>11, <1>12, <1>13, StepReplaced
<1>15. Among(e) = {<<"drop", p, x>>, <<"store", p, n>>} \cup Among(r)
  BY <1>9, <1>11 DEF drop, store
<1> QED
  BY <1>3, <1>4, <1>7, <1>11, <1>14, <1>15

\* One step before another.
LEMMA OneAndOne == \A x, y : <<x>> \o <<y>> = <<x, y>>
<1> SUFFICES ASSUME NEW x, NEW y PROVE <<x>> \o <<y>> = <<x, y>>
  OBVIOUS
<1>1. PICK p : p = <<x>> \o <<y>>
  OBVIOUS
<1>2. PICK q : q = <<x, y>>
  OBVIOUS
<1>3. <<x>> \in Seq({x, y}) /\ <<y>> \in Seq({x, y}) /\ Len(<<x>>) = 1 /\ Len(<<y>>) = 1
  OBVIOUS
<1>4. p \in Seq({x, y}) /\ Len(p) = 2 /\ p[1] = x /\ p[2] = y
  BY <1>1, <1>3
<1>5. q \in Seq({x, y}) /\ Len(q) = 2 /\ q[1] = x /\ q[2] = y
  BY <1>2
<1>6. \A i \in 1 .. Len(p) : p[i] = q[i]
  BY <1>4, <1>5
<1>7. p = q
  BY <1>4, <1>5, <1>6, SeqEqual
<1> QED
  BY <1>1, <1>2, <1>7

\* A crumb is to be put into the slot that is current, if there is a ring.
LEMMA CrumbTaken ==
  ASSUME CallsInTurn, DataKinds, NEW t \in Threads, Data!Crumb(t)
  PROVE  CallsInTurn' /\ \E h, r, e : \E n \in Nat :
            /\ Takes(t, "crumb", h, r, e) /\ h = <<"crumb", n>> /\ \A s \in Among(r) : s[1] = "unlock"
            /\ IF data_array = "null" THEN e = r
               ELSE /\ Among(e) = {<<"load", Data!Slot(data_current), n>>, <<"advance">>} \cup Among(r)
                    /\ e # <<>> /\ Head(e)[1] = "load"
<1>1. PICK r : r = Data!Rest(t)
  OBVIOUS
<1>2. PICK op, h : /\ op = Op(t) /\ op \in CallKinds \ {"idle"} /\ h \in StepsOf(op) /\ r \in Left(op)
                   /\ Todo(t) # <<>> /\ h = Head(data_call[t].todo) /\ h = Head(Todo(t)) /\ h[1] = "crumb"
                   /\ Pending(t) = {h} \cup Among(r) /\ Follows(h, r)
  BY <1>1, StepTaken DEF Data!Crumb
<1>3. op = "crumb" /\ \E n \in Nat : h = <<"crumb", n>>
  BY <1>2 DEF StepsOf, StepsOn, OnPlace
<1>4. PICK n \in Nat : h = <<"crumb", n>>
  BY <1>3
<1>5. \A s \in Among(r) : s[1] = "unlock"
  BY <1>2 DEF Follows
<1>6. /\ Data!Continue(t, (IF data_array = "null" THEN <<>>
                           ELSE Data!SetField(Data!Slot(data_current), n) \o <<<<"advance">>>>) \o r)
      /\ UNCHANGED <<data_scope, data_crumbs, data_calls, data_history>>
      /\ Data!Step(t, "crumb")
  BY <1>1, <1>2, <1>4 DEF Data!Crumb, Data!Frame
<1>7. CASE data_array = "null"
  <2>1. <<>> \o r = r
    BY <1>2 DEF Left
  <2>2. Data!Continue(t, r)
    BY <1>6, <1>7, <2>1
  <2>3. CallsInTurn' /\ Takes(t, op, h, r, r)
    BY <1>2, <1>6, <2>2, StepReplaced
  <2> QED
    BY <1>3, <1>4, <1>5, <1>7, <2>3
<1>8. CASE data_array # "null"
  <2> DEFINE load == <<"load", Data!Slot(data_current), n>>
             adv == <<"advance">>
  <2>1. PICK a : a = <<load, adv>>
    OBVIOUS
  <2> HIDE DEF load, adv
  <2>2. load \in StepsOf(op) /\ adv \in StepsOf(op)
    <3>1. Data!Slot(data_current) \in RingPlaces
      BY DEF DataKinds, RingPlaces
    <3> QED
      BY <1>3, <3>1 DEF StepsOf, StepsOn, OnPlace, CallsOn, Places, load, adv
  <2>3. load[1] = "load" /\ adv[1] = "advance" /\ Brings(adv) = 0 /\ Brings(load) = n /\ Brings(h) = n
    BY <1>4 DEF Brings, load, adv
  <2>4. Data!SetField(Data!Slot(data_current), n) \o <<<<"advance">>>> = a
    BY <2>1, OneAndOne DEF Data!SetField, load, adv
  <2>5. a \in Left(op) /\ Among(a) = {load, adv} /\ a # <<>> /\ a[1] = load
    BY <2>1, <2>2, <2>3, TwoSteps
  <2>6. Precedes(a, r)
    <3>1. \A s \in Among(r) : s[1] \notin {"drop", "store"} /\ Brings(s) = 0
      BY <1>5 DEF Brings
    <3>2. \A s \in Among(a) : s[1] \notin {"unlock", "crumb"}
      BY <2>3, <2>5
    <3> QED
      BY <1>5, <3>1, <3>2 DEF Precedes
  <2>7. PICK e : e = a \o r
    OBVIOUS
  <2>8. e \in Left(op) /\ Among(e) = Among(a) \cup Among(r) /\ e # <<>> /\ Head(e) = load
    <3>1. a \in Left(op) /\ r \in Left(op)
      BY <1>2, <2>5
    <3>2. e \in Left(op) /\ Among(e) = Among(a) \cup Among(r) /\ (a # <<>> => e # <<>> /\ Head(e) = a[1])
      BY <2>6, <2>7, <3>1, PutBefore
    <3> QED
      BY <2>5, <3>2
  <2>9. Data!Continue(t, e)
    BY <1>6, <1>8, <2>4, <2>7
  <2>10. CallsInTurn' /\ Takes(t, op, h, r, e)
    BY <1>2, <1>6, <2>8, <2>9, StepReplaced
  <2>11. Among(e) = {<<"load", Data!Slot(data_current), n>>, <<"advance">>} \cup Among(r)
    BY <2>5, <2>8 DEF load, adv
  <2> QED
    BY <1>3, <1>4, <1>5, <1>8, <2>3, <2>8, <2>10, <2>11
<1> QED
  BY <1>7, <1>8

\* The ring is to be emptied, if there is one.
LEMMA MayClearTaken ==
  ASSUME CallsInTurn, NEW t \in Threads, Data!MayClear(t)
  PROVE  CallsInTurn' /\ \E op, h, r, e :
            /\ Takes(t, op, h, r, e) /\ h[1] = "crumbs?" /\ op \in {"clear", "clearCrumbs"}
            /\ IF data_array = "null" THEN e = r
               ELSE /\ Among(e) = ({EmptyingOf(p) : p \in RingPlaces} \cup {<<"rewind">>}) \cup Among(r)
                    /\ e # <<>> /\ Head(e)[1] = "load"
<1>1. PICK r : r = Data!Rest(t)
  OBVIOUS
<1>2. PICK op, h : /\ op = Op(t) /\ op \in CallKinds \ {"idle"} /\ h \in StepsOf(op) /\ r \in Left(op)
                   /\ Todo(t) # <<>> /\ h = Head(data_call[t].todo) /\ h = Head(Todo(t)) /\ h[1] = "crumbs?"
                   /\ Pending(t) = {h} \cup Among(r) /\ Follows(h, r)
  BY <1>1, StepTaken DEF Data!MayClear
<1>3. op \in {"clear", "clearCrumbs"} /\ h[2] = Data!ClearSlots
  BY <1>2, StepKinds
<1>6. /\ Data!Continue(t, (IF data_array = "null" THEN <<>> ELSE Data!ClearSlots) \o r)
      /\ UNCHANGED <<data_scope, data_crumbs, data_calls, data_history>>
      /\ Data!Step(t, "crumbs?")
  BY <1>1, <1>2, <1>3 DEF Data!MayClear, Data!Frame
<1>7. CASE data_array = "null"
  <2>1. <<>> \o r = r
    BY <1>2 DEF Left
  <2>2. Data!Continue(t, r)
    BY <1>6, <1>7, <2>1
  <2>3. CallsInTurn' /\ Takes(t, op, h, r, r)
    BY <1>2, <1>6, <2>2, StepReplaced
  <2> QED
    BY <1>2, <1>3, <1>7, <2>3
<1>8. CASE data_array # "null"
  <2>1. PICK a : a = Data!ClearSlots
    OBVIOUS
  <2>5. a \in Left(op) /\ a # <<>> /\ a[1][1] = "load"
        /\ Among(a) = {EmptyingOf(p) : p \in RingPlaces} \cup {<<"rewind">>}
    BY <1>3, <2>1, SlotsAreCleared
  <2>6. Precedes(a, r)
    <3>1. \A s \in Among(r) : s[1] \notin {"drop", "store"}
      BY <1>2 DEF Follows
    <3>2. \A s \in Among(a) : s[1] \notin {"unlock", "crumb", "advance"} /\ Brings(s) = 0
      BY <2>5 DEF EmptyingOf, Brings
    <3> QED
      BY <3>1, <3>2 DEF Precedes
  <2>7. PICK e : e = a \o r
    OBVIOUS
  <2>8. e \in Left(op) /\ Among(e) = Among(a) \cup Among(r) /\ e # <<>> /\ Head(e) = a[1]
    <3>1. a \in Left(op) /\ r \in Left(op)
      BY <1>2, <2>5
    <3>2. e \in Left(op) /\ Among(e) = Among(a) \cup Among(r) /\ (a # <<>> => e # <<>> /\ Head(e) = a[1])
      BY <2>6, <2>7, <3>1, PutBefore
    <3> QED
      BY <2>5, <3>2
  <2>9. Data!Continue(t, e)
    BY <1>6, <1>8, <2>1, <2>7
  <2>10. CallsInTurn' /\ Takes(t, op, h, r, e)
    BY <1>2, <1>6, <2>8, <2>9, StepReplaced
  <2> QED
    BY <1>2, <1>3, <1>8, <2>5, <2>8, <2>10
<1> QED
  BY <1>7, <1>8

\* Steps that are done as they are taken.
Done(t, kinds) == \E op, h, r : Takes(t, op, h, r, r) /\ h = Head(data_call[t].todo) /\ h[1] \in kinds

\* The steps that only leave what follows them.
LEMMA StepsDone ==
  ASSUME CallsInTurn, NEW t \in Threads
  PROVE  /\ Data!Drop(t) => CallsInTurn' /\ Done(t, {"drop"})
         /\ Data!Store(t) => CallsInTurn' /\ Done(t, {"store"})
         /\ Data!Advance(t) => CallsInTurn' /\ Done(t, {"advance"})
         /\ Data!Rewind(t) => CallsInTurn' /\ Done(t, {"rewind"})
         /\ Data!NewArray(t) => CallsInTurn' /\ Done(t, {"freeArray", "malloc", "memset"})
         /\ Data!UserInfo(t) => CallsInTurn' /\ Done(t, {"freeUser", "storeUser"})
         /\ Data!Classes(t) => CallsInTurn' /\ Done(t, {"classes", "count"})
         /\ Data!Unlock(t) => CallsInTurn' /\ Done(t, {"unlock"})
<1>1. ASSUME NEW k, NEW kinds, k \in kinds, Data!Step(t, k), Data!Continue(t, Data!Rest(t)), UNCHANGED Data!Frame
      PROVE  CallsInTurn' /\ Done(t, kinds)
  <2>1. UNCHANGED <<data_scope, data_crumbs, data_calls, data_history>>
    BY <1>1 DEF Data!Frame
  <2>2. CallsInTurn' /\ \E op, h, r : Takes(t, op, h, r, r) /\ h = Head(data_call[t].todo) /\ h[1] = k
    BY <1>1, <2>1, StepDone
  <2> QED
    BY <1>1, <2>2 DEF Done
<1>2. ASSUME NEW kinds, \E k \in kinds : Data!Step(t, k), Data!Continue(t, Data!Rest(t)), UNCHANGED Data!Frame
      PROVE  CallsInTurn' /\ Done(t, kinds)
  BY <1>1, <1>2
<1>3. Data!Drop(t) => CallsInTurn' /\ Done(t, {"drop"})
  BY <1>2, Zenon DEF Data!Drop
<1>4. Data!Store(t) => CallsInTurn' /\ Done(t, {"store"})
  BY <1>2, Zenon DEF Data!Store
<1>5. Data!Advance(t) => CallsInTurn' /\ Done(t, {"advance"})
  BY <1>2, Zenon DEF Data!Advance
<1>6. Data!Rewind(t) => CallsInTurn' /\ Done(t, {"rewind"})
  BY <1>2, Zenon DEF Data!Rewind
<1>7. Data!NewArray(t) => CallsInTurn' /\ Done(t, {"freeArray", "malloc", "memset"})
  BY <1>2, Zenon DEF Data!NewArray
<1>8. Data!UserInfo(t) => CallsInTurn' /\ Done(t, {"freeUser", "storeUser"})
  BY <1>2, Zenon DEF Data!UserInfo
<1>9. Data!Classes(t) => CallsInTurn' /\ Done(t, {"classes", "count"})
  BY <1>2, Zenon DEF Data!Classes
<1>10. Data!Unlock(t) => CallsInTurn' /\ Done(t, {"unlock"})
  BY <1>2, Zenon DEF Data!Unlock
<1> QED
  BY <1>3, <1>4, <1>5, <1>6, <1>7, <1>8, <1>9, <1>10

-----------------------------------------------------------------------------
(* The calls that begin. *)

\* Thread t begins a call and has e to do.
Begun(t, op, e) ==
    /\ op \in CallKinds \ {"idle"} /\ e \in Left(op) /\ e # <<>>
    /\ Op(t) = "idle" /\ Pending(t) = {} /\ GoesOn(t, op, e) /\ Pending(t)' = Among(e)
    /\ data_calls' = data_calls + 1
    /\ data_history' = Append(data_history, [op |-> op, alone |-> Data!Quiet])
    /\ \A u \in Threads : Op(u) # "configure"
    /\ op \in {"configure"} => Data!Quiet
    /\ \A s \in Among(e) : s[1] \notin {"drop", "store", "advance"} /\ Brings(s) \in {0, data_calls + 1}
    /\ Head(e)[1] # "store"
    /\ UNCHANGED <<data_text, data_ring, data_current, data_array, data_user, data_live, data_twice>>
    /\ \/ LockOf(op) = "none" /\ UNCHANGED data_lock
       \/ /\ LockOf(op) # "none" /\ data_lock[LockOf(op)] = Data!Free_
          /\ data_lock' = [data_lock EXCEPT ![LockOf(op)] = t]

\* What the call does to the scope, and what it has to do to the copy.
BeginsAs(op, e) ==
    \/ /\ op \in Data!Fields /\ UNCHANGED data_crumbs
       /\ \E n \in Nat : /\ data_scope' = [data_scope EXCEPT ![op] = n]
                         /\ <<"load", Data!Field(op), n>> \in Among(e)
                         /\ \A s \in Among(e) : s = <<"load", Data!Field(op), n>> \/ s[1] = "unlock"
    \/ /\ op = "removeContext" /\ UNCHANGED data_crumbs /\ data_scope' \in [Data!Fields -> Nat]
       /\ \A s \in Among(e) : s[1] \in {"load", "unlock"}
    \/ /\ op = "crumb" /\ UNCHANGED data_scope
       /\ data_crumbs' = LET all == Append(data_crumbs, data_calls + 1)
                         IN  IF Len(all) > MaxCrumbs THEN Tail(all) ELSE all
       /\ Among(e) = {<<"crumb", data_calls + 1>>, <<"unlock", "crumbs">>}
    \/ /\ op = "clearCrumbs" /\ UNCHANGED data_scope /\ data_crumbs' = <<>>
       /\ Among(e) = {<<"crumbs?", Data!ClearSlots>>, <<"unlock", "crumbs">>}
    \/ /\ op = "clear" /\ data_scope' = [f \in Data!Fields |-> 0] /\ data_crumbs' = <<>>
       /\ Among(e) = {EmptyingOf(p) : p \in FieldPlaces} \cup {<<"crumbs?", Data!ClearSlots>>}
    \/ /\ op \in {"configure", "userInfo", "classes"} /\ UNCHANGED <<data_scope, data_crumbs>>
       /\ \A s \in Among(e) : s[1] \notin {"load", "crumb", "crumbs?"}

\* A few steps that are in turn.
Few(e, n) ==
    /\ \A i \in 1 .. n : e[i][1] \notin {"drop", "store", "crumb", "advance"}
    /\ \A i, j \in 1 .. n : i < j => e[i][1] # "unlock" /\ (Brings(e[i]) = 0 \/ Brings(e[j]) = 0)

\* They are what a call may have left.
LEMMA FewSteps ==
  ASSUME NEW op, NEW e \in Seq(StepsOf(op)), Len(e) # 0, Few(e, Len(e))
  PROVE  e \in Left(op) /\ e # <<>> /\ Head(e) = e[1]
<1>1. InTurn(e)
  BY DEF Few, InTurn
<1> QED
  BY <1>1 DEF Left

\* Up to four.
LEMMA UpToFour ==
  ASSUME NEW op, NEW a \in StepsOf(op), NEW b \in StepsOf(op), NEW c \in StepsOf(op), NEW d \in StepsOf(op)
  PROVE  /\ \A e : e = <<a, b>> => e \in Seq(StepsOf(op)) /\ Len(e) = 2 /\ Among(e) = {a, b} /\ e[1] = a /\ e[2] = b
         /\ \A e : e = <<a, b, c>> => e \in Seq(StepsOf(op)) /\ Len(e) = 3 /\ Among(e) = {a, b, c}
                                      /\ e[1] = a /\ e[2] = b /\ e[3] = c
         /\ \A e : e = <<a, b, c, d>> => e \in Seq(StepsOf(op)) /\ Len(e) = 4 /\ Among(e) = {a, b, c, d}
                                         /\ e[1] = a /\ e[2] = b /\ e[3] = c /\ e[4] = d
<1>1. ASSUME NEW e, e = <<a, b>>
      PROVE  e \in Seq(StepsOf(op)) /\ Len(e) = 2 /\ Among(e) = {a, b} /\ e[1] = a /\ e[2] = b
  <2>1. e \in Seq(StepsOf(op)) /\ Len(e) = 2 /\ e[1] = a /\ e[2] = b
    BY <1>1
  <2>2. 1 .. Len(e) = {1, 2}
    BY <2>1
  <2>3. Among(e) = {a, b}
    BY <2>1, <2>2 DEF Among
  <2> QED
    BY <2>1, <2>3
<1>2. ASSUME NEW e, e = <<a, b, c>>
      PROVE  e \in Seq(StepsOf(op)) /\ Len(e) = 3 /\ Among(e) = {a, b, c} /\ e[1] = a /\ e[2] = b /\ e[3] = c
  <2>1. e \in Seq(StepsOf(op)) /\ Len(e) = 3 /\ e[1] = a /\ e[2] = b /\ e[3] = c
    BY <1>2
  <2>2. 1 .. Len(e) = {1, 2, 3}
    BY <2>1
  <2>3. Among(e) = {a, b, c}
    BY <2>1, <2>2 DEF Among
  <2> QED
    BY <2>1, <2>3
<1>3. ASSUME NEW e, e = <<a, b, c, d>>
      PROVE  e \in Seq(StepsOf(op)) /\ Len(e) = 4 /\ Among(e) = {a, b, c, d}
             /\ e[1] = a /\ e[2] = b /\ e[3] = c /\ e[4] = d
  <2>1. e \in Seq(StepsOf(op)) /\ Len(e) = 4 /\ e[1] = a /\ e[2] = b /\ e[3] = c /\ e[4] = d
    BY <1>3
  <2>2. 1 .. Len(e) = {1, 2, 3, 4}
    BY <2>1
  <2>3. Among(e) = {a, b, c, d}
    BY <2>1, <2>2 DEF Among
  <2> QED
    BY <2>1, <2>3
<1> QED
  BY <1>1, <1>2, <1>3

\* The locks of the calls.
LEMMA LocksAre ==
  /\ LockOf("removeContext") = "context" /\ LockOf("crumb") = "crumbs" /\ LockOf("clearCrumbs") = "crumbs"
  /\ LockOf("userInfo") = "userInfo" /\ \A f \in Data!Locked : LockOf(f) = f /\ f # "none"
  /\ \A op \in Data!Unlocked \cup {"idle", "clear", "configure", "classes"} : LockOf(op) = "none"
  /\ \A op \in CallKinds : LockOf(op) \in Data!Locks \cup {"none"}
  /\ "none" \notin Data!Locks
BY DEF LockOf, Data!Locked, Data!Unlocked, Data!Locks, CallKinds, Data!Fields

\* Work on a field under a lock.
WorkUnder(l, f, n) == Data!SetField(Data!Field(f), n) \o <<<<"unlock", l>>>>

\* What each call has to do is in turn.
LEMMA NewSteps ==
  ASSUME NEW n \in Nat
  PROVE  /\ \A f \in Data!Unlocked : \A e : e = Data!SetField(Data!Field(f), n) =>
                e \in Left(f) /\ e # <<>> /\ Among(e) = {<<"load", Data!Field(f), n>>} /\ Head(e)[1] = "load"
         /\ \A f \in Data!Locked : \A e : e = WorkUnder(f, f, n) =>
                e \in Left(f) /\ e # <<>> /\ Among(e) = {<<"load", Data!Field(f), n>>, <<"unlock", f>>} /\ Head(e)[1] = "load"
         /\ \A e : e = WorkUnder("context", "extra", n) =>
                /\ e \in Left("removeContext") /\ e # <<>> /\ Head(e)[1] = "load"
                /\ Among(e) = {<<"load", Data!Field("extra"), n>>, <<"unlock", "context">>}
         /\ \A e : e = <<<<"crumb", n>>, <<"unlock", "crumbs">>>> =>
                e \in Left("crumb") /\ e # <<>> /\ Among(e) = {<<"crumb", n>>, <<"unlock", "crumbs">>} /\ Head(e)[1] = "crumb"
         /\ \A e : e = <<<<"crumbs?", Data!ClearSlots>>, <<"unlock", "crumbs">>>> =>
                e \in Left("clearCrumbs") /\ e # <<>> /\ Head(e)[1] = "crumbs?"
                /\ Among(e) = {<<"crumbs?", Data!ClearSlots>>, <<"unlock", "crumbs">>}
         /\ \A e : e = Clearing \o <<<<"crumbs?", Data!ClearSlots>>>> =>
                /\ e \in Left("clear") /\ e # <<>> /\ Head(e)[1] = "load"
                /\ Among(e) = {EmptyingOf(p) : p \in FieldPlaces} \cup {<<"crumbs?", Data!ClearSlots>>}
         /\ \A e : e = <<<<"rewind">>, <<"freeArray">>, <<"malloc">>, <<"memset">>>> =>
                e \in Left("configure") /\ e # <<>> /\ Head(e)[1] = "rewind"
                /\ Among(e) = {<<"rewind">>, <<"freeArray">>, <<"malloc">>, <<"memset">>}
         /\ n # 0 => \A e : e = <<<<"freeUser">>, <<"storeUser", n>>, <<"unlock", "userInfo">>>> =>
                e \in Left("userInfo") /\ e # <<>> /\ Head(e)[1] = "freeUser"
                /\ Among(e) = {<<"freeUser">>, <<"storeUser", n>>, <<"unlock", "userInfo">>}
         /\ n \in 0 .. 2 => \A e : e = <<<<"classes", n>>, <<"count", n>>>> =>
                e \in Left("classes") /\ e # <<>> /\ Among(e) = {<<"classes", n>>, <<"count", n>>} /\ Head(e)[1] = "classes"
<1>0. \A f \in Data!Fields : <<"load", Data!Field(f), n>> \in StepsOf(f) /\ <<"load", Data!Field(f), n>>[1] = "load"
  <2> SUFFICES ASSUME NEW f \in Data!Fields PROVE <<"load", Data!Field(f), n>> \in StepsOf(f)
    OBVIOUS
  <2>1. Data!Field(f) \in FieldPlaces /\ Data!Field(f) \notin RingPlaces /\ Data!Field(f).of = f
    BY AtPlaces DEF Data!Field
  <2>2. f \notin {"clear", "clearCrumbs"}
    BY DEF Data!Fields, Data!Locked, Data!Unlocked
  <2> QED
    BY <2>1, <2>2 DEF StepsOf, StepsOn, OnPlace, Places, CallsOn
<1>1. ASSUME NEW f \in Data!Unlocked, NEW e, e = Data!SetField(Data!Field(f), n)
      PROVE  e \in Left(f) /\ e # <<>> /\ Among(e) = {<<"load", Data!Field(f), n>>} /\ Head(e)[1] = "load"
  <2>1. f \in Data!Fields
    BY DEF Data!Fields
  <2>2. PICK s \in StepsOf(f) : s = <<"load", Data!Field(f), n>> /\ s[1] = "load"
    <3>1. PICK s : s = <<"load", Data!Field(f), n>>
      OBVIOUS
    <3>2. s \in StepsOf(f) /\ s[1] = "load"
      BY <3>1, <1>0, <2>1
    <3> QED
      BY <3>1, <3>2
  <2>3. e = <<s>>
    BY <1>1, <2>2 DEF Data!SetField
  <2>4. e \in Left(f) /\ Among(e) = {s} /\ e # <<>> /\ Head(e) = s
    BY <2>2, <2>3, OneStep
  <2> QED
    BY <2>2, <2>4
<1>3. ASSUME NEW f \in Data!Locked, NEW e, e = WorkUnder(f, f, n)
      PROVE  e \in Left(f) /\ e # <<>> /\ Among(e) = {<<"load", Data!Field(f), n>>, <<"unlock", f>>} /\ Head(e)[1] = "load"
  <2>1. f \in Data!Fields /\ LockOf(f) = f /\ f # "none"
    BY DEF Data!Fields, LockOf, Data!Locked
  <2>2. PICK s \in StepsOf(f) : s = <<"load", Data!Field(f), n>> /\ s[1] = "load"
    <3>1. PICK s : s = <<"load", Data!Field(f), n>>
      OBVIOUS
    <3>2. s \in StepsOf(f) /\ s[1] = "load"
      BY <3>1, <1>0, <2>1
    <3> QED
      BY <3>1, <3>2
  <2>3. PICK r \in StepsOf(f) : r = <<"unlock", f>> /\ r[1] = "unlock"
    <3>1. PICK r : r = <<"unlock", f>>
      OBVIOUS
    <3>2. r \in StepsOf(f) /\ r[1] = "unlock"
      BY <3>1, <2>1, LocksAre DEF StepsOf
    <3> QED
      BY <3>1, <3>2
  <2>4. e = <<s>> \o <<r>>
    BY <1>3, <2>2, <2>3 DEF Data!SetField, WorkUnder
  <2>5. e = <<s, r>>
    BY <2>4, OneAndOne
  <2>6. Brings(r) = 0
    BY <2>3 DEF Brings
  <2>7. e \in Left(f) /\ Among(e) = {s, r} /\ e # <<>> /\ Head(e) = s
    BY <2>2, <2>3, <2>5, <2>6, TwoSteps
  <2> QED
    BY <2>2, <2>3, <2>7
<1>4. ASSUME NEW e, e = WorkUnder("context", "extra", n)
      PROVE  /\ e \in Left("removeContext") /\ e # <<>> /\ Head(e)[1] = "load"
             /\ Among(e) = {<<"load", Data!Field("extra"), n>>, <<"unlock", "context">>}
  <2>1. Data!Field("extra") \in FieldPlaces /\ Data!Field("extra") \notin RingPlaces /\ Data!Field("extra").of = "extra"
        /\ LockOf("removeContext") = "context"
    BY AtPlaces DEF Data!Field, Data!Fields, Data!Locked, LockOf
  <2>2. PICK s \in StepsOf("removeContext") : s = <<"load", Data!Field("extra"), n>> /\ s[1] = "load"
    <3>1. PICK s : s = <<"load", Data!Field("extra"), n>>
      OBVIOUS
    <3>2. s \in StepsOf("removeContext") /\ s[1] = "load"
      BY <3>1, <2>1, LocksAre DEF StepsOf, StepsOn, OnPlace, Places, CallsOn
    <3> QED
      BY <3>1, <3>2
  <2>3. PICK r \in StepsOf("removeContext") : r = <<"unlock", "context">> /\ r[1] = "unlock"
    <3>1. PICK r : r = <<"unlock", "context">>
      OBVIOUS
    <3>2. r \in StepsOf("removeContext") /\ r[1] = "unlock"
      BY <3>1, <2>1, LocksAre DEF StepsOf
    <3> QED
      BY <3>1, <3>2
  <2>4. e = <<s>> \o <<r>>
    BY <1>4, <2>2, <2>3 DEF Data!SetField, WorkUnder
  <2>5. e = <<s, r>>
    BY <2>4, OneAndOne
  <2>6. Brings(r) = 0
    BY <2>3 DEF Brings
  <2>7. e \in Left("removeContext") /\ Among(e) = {s, r} /\ e # <<>> /\ Head(e) = s
    BY <2>2, <2>3, <2>5, <2>6, TwoSteps
  <2> QED
    BY <2>2, <2>3, <2>7
<1>5. ASSUME NEW e, e = <<<<"crumb", n>>, <<"unlock", "crumbs">>>>
      PROVE  e \in Left("crumb") /\ e # <<>> /\ Among(e) = {<<"crumb", n>>, <<"unlock", "crumbs">>} /\ Head(e)[1] = "crumb"
  <2>1. PICK s \in StepsOf("crumb") : s = <<"crumb", n>> /\ s[1] = "crumb"
    <3>1. PICK s : s = <<"crumb", n>>
      OBVIOUS
    <3>2. s \in StepsOf("crumb") /\ s[1] = "crumb"
      BY <3>1, LocksAre DEF StepsOf
    <3> QED
      BY <3>1, <3>2
  <2>2. PICK r \in StepsOf("crumb") : r = <<"unlock", "crumbs">> /\ r[1] = "unlock"
    <3>1. PICK r : r = <<"unlock", "crumbs">>
      OBVIOUS
    <3>2. r \in StepsOf("crumb") /\ r[1] = "unlock"
      BY <3>1, LocksAre DEF StepsOf
    <3> QED
      BY <3>1, <3>2
  <2>3. e = <<s, r>>
    BY <1>5, <2>1, <2>2
  <2>4. e \in Seq(StepsOf("crumb")) /\ Len(e) = 2 /\ e[1] = s /\ e[2] = r /\ Among(e) = {s, r}
    BY <2>3, UpToFour
  <2>5. InTurn(e)
    <3>1. \A i, j \in 1 .. Len(e) : i < j => i = 1 /\ j = 2
      BY <2>4
    <3>2. \A i \in 1 .. Len(e) : i = 1 \/ i = 2
      BY <2>4
    <3>3. Brings(r) = 0
      BY <2>2 DEF Brings
    <3> QED
      BY <2>1, <2>2, <2>4, <3>1, <3>2, <3>3 DEF InTurn
  <2>6. e # <<>> /\ Head(e) = s
    BY <2>4
  <2> QED
    BY <2>1, <2>2, <2>4, <2>5, <2>6 DEF Left
<1>6. ASSUME NEW e, e = <<<<"crumbs?", Data!ClearSlots>>, <<"unlock", "crumbs">>>>
      PROVE  e \in Left("clearCrumbs") /\ e # <<>> /\ Head(e)[1] = "crumbs?"
             /\ Among(e) = {<<"crumbs?", Data!ClearSlots>>, <<"unlock", "crumbs">>}
  <2>1. PICK s \in StepsOf("clearCrumbs") : s = <<"crumbs?", Data!ClearSlots>> /\ s[1] = "crumbs?"
    <3>1. PICK s : s = <<"crumbs?", Data!ClearSlots>>
      OBVIOUS
    <3>2. s \in StepsOf("clearCrumbs") /\ s[1] = "crumbs?"
      BY <3>1, LocksAre DEF StepsOf
    <3> QED
      BY <3>1, <3>2
  <2>2. PICK r \in StepsOf("clearCrumbs") : r = <<"unlock", "crumbs">> /\ r[1] = "unlock"
    <3>1. PICK r : r = <<"unlock", "crumbs">>
      OBVIOUS
    <3>2. r \in StepsOf("clearCrumbs") /\ r[1] = "unlock"
      BY <3>1, LocksAre DEF StepsOf
    <3> QED
      BY <3>1, <3>2
  <2>3. e = <<s, r>>
    BY <1>6, <2>1, <2>2
  <2>4. Brings(s) = 0
    BY <2>1 DEF Brings
  <2>5. e \in Left("clearCrumbs") /\ Among(e) = {s, r} /\ e # <<>> /\ Head(e) = s
    BY <2>1, <2>2, <2>3, <2>4, TwoSteps
  <2> QED
    BY <2>1, <2>2, <2>5
<1>7. ASSUME NEW e, e = Clearing \o <<<<"crumbs?", Data!ClearSlots>>>>
      PROVE  /\ e \in Left("clear") /\ e # <<>> /\ Head(e)[1] = "load"
             /\ Among(e) = {EmptyingOf(p) : p \in FieldPlaces} \cup {<<"crumbs?", Data!ClearSlots>>}
  <2>1. PICK s \in StepsOf("clear") : s = <<"crumbs?", Data!ClearSlots>> /\ s[1] = "crumbs?"
    <3>1. PICK s : s = <<"crumbs?", Data!ClearSlots>>
      OBVIOUS
    <3>2. s \in StepsOf("clear") /\ s[1] = "crumbs?"
      BY <3>1, LocksAre DEF StepsOf
    <3> QED
      BY <3>1, <3>2
  <2>2. PICK b : b = <<s>>
    OBVIOUS
  <2>3. b \in Left("clear") /\ Among(b) = {s}
    BY <2>1, <2>2, OneStep
  <2>4. PICK a : a = Clearing
    OBVIOUS
  <2>5. a \in Left("clear") /\ a # <<>> /\ a[1][1] = "load" /\ Among(a) = {EmptyingOf(p) : p \in FieldPlaces}
    BY <2>4, FieldsAreCleared
  <2>6. Precedes(a, b)
    <3>1. \A x \in Among(a) : x[1] = "load" /\ Brings(x) = 0
      BY <2>5 DEF EmptyingOf, Brings
    <3> QED
      BY <2>1, <2>3, <3>1 DEF Precedes
  <2>7. e = a \o b
    BY <1>7, <2>1, <2>2, <2>4
  <2>8. e \in Left("clear") /\ Among(e) = Among(a) \cup Among(b) /\ (a # <<>> => e # <<>> /\ Head(e) = a[1])
    BY <2>3, <2>5, <2>6, <2>7, PutBefore
  <2> QED
    BY <2>1, <2>3, <2>5, <2>8
<1>8. ASSUME NEW e, e = <<<<"rewind">>, <<"freeArray">>, <<"malloc">>, <<"memset">>>>
      PROVE  e \in Left("configure") /\ e # <<>> /\ Head(e)[1] = "rewind"
             /\ Among(e) = {<<"rewind">>, <<"freeArray">>, <<"malloc">>, <<"memset">>}
  <2>1. \A s \in {<<"rewind">>, <<"freeArray">>, <<"malloc">>, <<"memset">>} :
           s \in StepsOf("configure") /\ Brings(s) = 0
           /\ s[1] \notin {"drop", "store", "crumb", "advance", "unlock"}
    BY DEF StepsOf, Brings
  <2>2. e \in Seq(StepsOf("configure")) /\ Len(e) = 4 /\ Among(e) = {<<"rewind">>, <<"freeArray">>, <<"malloc">>, <<"memset">>}
        /\ e[1] = <<"rewind">>
    <3>1. PICK a, b, c, d : a = <<"rewind">> /\ b = <<"freeArray">> /\ c = <<"malloc">> /\ d = <<"memset">>
      OBVIOUS
    <3>2. /\ a \in StepsOf("configure") /\ b \in StepsOf("configure")
          /\ c \in StepsOf("configure") /\ d \in StepsOf("configure") /\ e = <<a, b, c, d>>
      BY <1>8, <2>1, <3>1
    <3>3. e \in Seq(StepsOf("configure")) /\ Len(e) = 4 /\ Among(e) = {a, b, c, d} /\ e[1] = a
      BY <3>2, UpToFour
    <3> QED
      BY <3>1, <3>3
  <2>3. \A i \in 1 .. Len(e) : e[i] \in Among(e)
    BY DEF Among
  <2>4. Few(e, Len(e)) /\ Len(e) # 0
    BY <2>1, <2>2, <2>3 DEF Few
  <2>5. e \in Left("configure") /\ e # <<>> /\ Head(e) = e[1]
    BY <2>2, <2>4, FewSteps
  <2> QED
    BY <2>2, <2>5
<1>9. ASSUME n # 0, NEW e, e = <<<<"freeUser">>, <<"storeUser", n>>, <<"unlock", "userInfo">>>>
      PROVE  e \in Left("userInfo") /\ e # <<>> /\ Head(e)[1] = "freeUser"
             /\ Among(e) = {<<"freeUser">>, <<"storeUser", n>>, <<"unlock", "userInfo">>}
  <2>1. PICK a \in StepsOf("userInfo") : a = <<"freeUser">> /\ a[1] = "freeUser" /\ Brings(a) = 0
    <3>1. PICK a : a = <<"freeUser">>
      OBVIOUS
    <3>2. a \in StepsOf("userInfo") /\ a[1] = "freeUser" /\ Brings(a) = 0
      BY <3>1, LocksAre DEF StepsOf, Brings
    <3> QED
      BY <3>1, <3>2
  <2>2. PICK b \in StepsOf("userInfo") : b = <<"storeUser", n>> /\ b[1] = "storeUser"
    <3>1. PICK b : b = <<"storeUser", n>>
      OBVIOUS
    <3>2. b \in StepsOf("userInfo") /\ b[1] = "storeUser"
      BY <1>9, <3>1, LocksAre DEF StepsOf
    <3> QED
      BY <3>1, <3>2
  <2>3. PICK c \in StepsOf("userInfo") : c = <<"unlock", "userInfo">> /\ c[1] = "unlock" /\ Brings(c) = 0
    <3>1. PICK c : c = <<"unlock", "userInfo">>
      OBVIOUS
    <3>2. c \in StepsOf("userInfo") /\ c[1] = "unlock" /\ Brings(c) = 0
      BY <3>1, LocksAre DEF StepsOf, Brings
    <3> QED
      BY <3>1, <3>2
  <2>4. e = <<a, b, c>>
    BY <1>9, <2>1, <2>2, <2>3
  <2>5. e \in Seq(StepsOf("userInfo")) /\ Len(e) = 3 /\ Among(e) = {a, b, c} /\ e[1] = a /\ e[2] = b /\ e[3] = c
    BY <2>4, UpToFour
  <2>6. Few(e, Len(e)) /\ Len(e) # 0
    <3>1. \A i \in 1 .. Len(e) : i = 1 \/ i = 2 \/ i = 3
      BY <2>5
    <3>2. \A i, j \in 1 .. Len(e) : i < j => i # 3 /\ (i = 1 \/ j = 3)
      BY <2>5
    <3>3. \A i \in 1 .. Len(e) : e[i][1] \notin {"drop", "store", "crumb", "advance"}
      BY <2>1, <2>2, <2>3, <2>5, <3>1
    <3>4. ASSUME NEW i \in 1 .. Len(e), NEW j \in 1 .. Len(e), i < j
          PROVE  e[i][1] # "unlock" /\ (Brings(e[i]) = 0 \/ Brings(e[j]) = 0)
      <4>1. i # 3 /\ (i = 1 \/ j = 3) /\ (i = 1 \/ i = 2)
        BY <3>1, <3>2, <3>4
      <4>2. e[i][1] # "unlock"
        BY <2>1, <2>2, <2>5, <4>1
      <4>3. i = 1 => Brings(e[i]) = 0
        BY <2>1, <2>5
      <4>4. j = 3 => Brings(e[j]) = 0
        BY <2>3, <2>5
      <4> QED
        BY <4>1, <4>2, <4>3, <4>4
    <3>5. Len(e) # 0
      BY <2>5
    <3> QED
      BY <3>3, <3>4, <3>5 DEF Few
  <2>7. e \in Left("userInfo") /\ e # <<>> /\ Head(e) = e[1]
    BY <2>5, <2>6, FewSteps
  <2> QED
    BY <2>1, <2>2, <2>3, <2>5, <2>7
<1>10. ASSUME n \in 0 .. 2, NEW e, e = <<<<"classes", n>>, <<"count", n>>>>
       PROVE  e \in Left("classes") /\ e # <<>> /\ Among(e) = {<<"classes", n>>, <<"count", n>>} /\ Head(e)[1] = "classes"
  <2>1. PICK a \in StepsOf("classes") : a = <<"classes", n>> /\ a[1] = "classes" /\ Brings(a) = 0
    <3>1. PICK a : a = <<"classes", n>>
      OBVIOUS
    <3>2. a \in StepsOf("classes") /\ a[1] = "classes" /\ Brings(a) = 0
      BY <3>1, <1>10, LocksAre DEF StepsOf, Brings
    <3> QED
      BY <3>1, <3>2
  <2>2. PICK b \in StepsOf("classes") : b = <<"count", n>> /\ b[1] = "count"
    <3>1. PICK b : b = <<"count", n>>
      OBVIOUS
    <3>2. b \in StepsOf("classes") /\ b[1] = "count"
      BY <3>1, <1>10, LocksAre DEF StepsOf
    <3> QED
      BY <3>1, <3>2
  <2>3. e = <<a, b>>
    BY <1>10, <2>1, <2>2
  <2>4. e \in Left("classes") /\ Among(e) = {a, b} /\ e # <<>> /\ Head(e) = a
    BY <2>1, <2>2, <2>3, TwoSteps
  <2> QED
    BY <2>1, <2>2, <2>4
<1> QED
  BY <1>1, <1>3, <1>4, <1>5, <1>6, <1>7, <1>8, <1>9, <1>10

\* What a call leaves alone, and what it locks, when it begins.
Untouched == UNCHANGED <<data_text, data_ring, data_current, data_array, data_user, data_live, data_twice>>
Locking(t, op) ==
    \/ LockOf(op) = "none" /\ UNCHANGED data_lock
    \/ LockOf(op) # "none" /\ Data!Took(t, LockOf(op))
Fresh(e) == /\ \A s \in Among(e) : s[1] \notin {"drop", "store", "advance"} /\ Brings(s) \in {0, data_calls + 1}
            /\ Head(e)[1] # "store"

Prepared(t, op, e) ==
    /\ op \in CallKinds \ {"idle"} /\ e \in Left(op) /\ e # <<>> /\ Data!Begin(t, op, e)
    /\ Fresh(e) /\ Untouched /\ Locking(t, op) /\ (op = "configure" => Data!Quiet)

\* What all calls have in common.
LEMMA CallStarts ==
  ASSUME CallsInTurn, CallsAreCounted, NEW t \in Threads, NEW op, NEW e, Prepared(t, op, e)
  PROVE  Begun(t, op, e) /\ CallsInTurn' /\ CallsAreCounted'
<1> USE DEF Prepared
<1>1. /\ GoesOn(t, op, e) /\ CallsInTurn' /\ CallsAreCounted' /\ Op(t) = "idle" /\ Todo(t) = <<>>
      /\ data_calls' = data_calls + 1
      /\ data_history' = Append(data_history, [op |-> op, alone |-> Data!Quiet])
      /\ \A u \in Threads : Op(u) # "configure"
  BY CallBegins
<1>2. Pending(t)' = Among(e)
  BY <1>1 DEF GoesOn, Pending
<1>3. Pending(t) = {}
  BY <1>1 DEF Pending, Among
<1>4. op \in {"configure"} => Data!Quiet
  OBVIOUS
<1>5. /\ \A s \in Among(e) : s[1] \notin {"drop", "store", "advance"} /\ Brings(s) \in {0, data_calls + 1}
      /\ Head(e)[1] # "store"
  BY DEF Fresh
<1>6. \/ LockOf(op) = "none" /\ UNCHANGED data_lock
      \/ /\ LockOf(op) # "none" /\ data_lock[LockOf(op)] = Data!Free_
         /\ data_lock' = [data_lock EXCEPT ![LockOf(op)] = t]
  BY DEF Locking, Data!Took
<1>7. UNCHANGED <<data_text, data_ring, data_current, data_array, data_user, data_live, data_twice>>
  BY DEF Untouched
<1>8. op \in CallKinds \ {"idle"} /\ e \in Left(op) /\ e # <<>>
  OBVIOUS
<1>9. Begun(t, op, e)
  BY <1>1, <1>2, <1>3, <1>4, <1>5, <1>6, <1>7, <1>8, Zenon DEF Begun
<1> QED
  BY <1>1, <1>9

\* What a call that begins leaves of the kinds of the data.
LEMMA KindsAtStart ==
  ASSUME DataKinds, CallsAreCounted, NEW t \in Threads, NEW op \in CallKinds, Untouched, Locking(t, op),
         data_scope' \in [Data!Fields -> Nat], data_crumbs' \in Seq(Nat \ {0}), Len(data_crumbs') <= MaxCrumbs
  PROVE  DataKinds'
<1>1. data_lock' \in [Data!Locks -> Threads \cup {Data!Free_}]
  <2>1. data_lock \in [Data!Locks -> Threads \cup {Data!Free_}]
    BY DEF DataKinds
  <2> QED
    BY <2>1 DEF Locking, Data!Took
<1> QED
  BY <1>1 DEF DataKinds, Untouched

\* The objects of the scope are set at once.
LEMMA FieldSet ==
  ASSUME DataKinds, NEW f \in Data!Fields, NEW n \in Nat, data_scope' = [data_scope EXCEPT ![f] = n]
  PROVE  data_scope' \in [Data!Fields -> Nat]
BY DEF DataKinds

\* Every call begins so, and leaves the data of the kinds they are of.
LEMMA CallsBegin ==
  ASSUME CallsInTurn, CallsAreCounted, DataKinds, NEW t \in Threads, Data!Calls(t)
  PROVE  CallsInTurn' /\ CallsAreCounted' /\ DataKinds' /\ \E op, e : Begun(t, op, e) /\ BeginsAs(op, e)
<1>0. /\ data_calls + 1 \in Nat /\ data_calls + 1 # 0
      /\ data_crumbs \in Seq(Nat \ {0}) /\ Len(data_crumbs) <= MaxCrumbs /\ data_scope \in [Data!Fields -> Nat]
  BY AppCallsAssumption DEF CallsAreCounted, DataKinds
<1>1. CASE Data!SetUnlocked(t)
  <2>1. PICK f \in Data!Unlocked, n \in {0, data_calls + 1} :
           /\ Data!Begin(t, f, Data!SetField(Data!Field(f), n)) /\ data_scope' = [data_scope EXCEPT ![f] = n]
           /\ Untouched /\ UNCHANGED <<data_crumbs, data_lock>>
    BY <1>1 DEF Data!SetUnlocked, Data!Nil, Untouched
  <2>2. n \in Nat /\ f \in Data!Fields /\ f \in CallKinds \ {"idle"} /\ LockOf(f) = "none" /\ f # "configure"
    BY <1>0, LocksAre DEF Data!Fields, CallKinds, Data!Unlocked
  <2>3. PICK e : e = Data!SetField(Data!Field(f), n)
    OBVIOUS
  <2>4. e \in Left(f) /\ e # <<>> /\ Among(e) = {<<"load", Data!Field(f), n>>} /\ Head(e)[1] = "load"
    BY <2>2, <2>3, NewSteps
  <2>5. Fresh(e)
    BY <2>4 DEF Fresh, Brings
  <2>6. Locking(t, f)
    BY <2>1, <2>2 DEF Locking
  <2>7. Begun(t, f, e) /\ CallsInTurn' /\ CallsAreCounted'
    <3>1. Prepared(t, f, e)
      BY <2>1, <2>2, <2>3, <2>4, <2>5, <2>6 DEF Prepared
    <3> QED
      BY <3>1, CallStarts
  <2>8. BeginsAs(f, e)
    BY <2>1, <2>2, <2>4 DEF BeginsAs
  <2>9. DataKinds'
    <3>1. data_scope' \in [Data!Fields -> Nat]
      BY <2>1, <2>2, FieldSet
    <3> QED
      BY <1>0, <2>1, <2>2, <2>6, <3>1, KindsAtStart
  <2> QED
    BY <2>7, <2>8, <2>9
<1>2. CASE Data!SetLocked(t)
  <2>1. PICK f \in Data!Locked, n \in {0, data_calls + 1} :
           /\ Data!Took(t, f)
           /\ Data!Begin(t, f, WorkUnder(f, f, n))
           /\ data_scope' = [data_scope EXCEPT ![f] = n] /\ Untouched /\ UNCHANGED data_crumbs
    BY <1>2 DEF WorkUnder, Data!SetLocked, Data!Nil, Untouched
  <2>2. n \in Nat /\ f \in Data!Fields /\ f \in CallKinds \ {"idle"} /\ LockOf(f) = f /\ f # "none" /\ f # "configure"
    BY <1>0, LocksAre DEF Data!Fields, CallKinds, Data!Locked
  <2>3. PICK e : e = WorkUnder(f, f, n)
    OBVIOUS
  <2>4. /\ e \in Left(f) /\ e # <<>> /\ Head(e)[1] = "load"
        /\ Among(e) = {<<"load", Data!Field(f), n>>, <<"unlock", f>>}
    BY <2>2, <2>3, NewSteps
  <2>5. Fresh(e)
    BY <2>4 DEF Fresh, Brings
  <2>6. Locking(t, f)
    BY <2>1, <2>2 DEF Locking
  <2>7. Begun(t, f, e) /\ CallsInTurn' /\ CallsAreCounted'
    <3>1. Prepared(t, f, e)
      BY <2>1, <2>2, <2>3, <2>4, <2>5, <2>6 DEF Prepared
    <3> QED
      BY <3>1, CallStarts
  <2>8. BeginsAs(f, e)
    <3>1. <<"load", Data!Field(f), n>> \in Among(e)
      BY <2>4
    <3>2. \A s \in Among(e) : s = <<"load", Data!Field(f), n>> \/ s[1] = "unlock"
      BY <2>4
    <3> QED
      BY <2>1, <2>2, <3>1, <3>2, Zenon DEF BeginsAs
  <2>9. DataKinds'
    <3>1. data_scope' \in [Data!Fields -> Nat]
      BY <2>1, <2>2, FieldSet
    <3> QED
      BY <1>0, <2>1, <2>2, <2>6, <3>1, KindsAtStart
  <2> QED
    BY <2>7, <2>8, <2>9
<1>3. CASE Data!RemoveContext(t)
  <2> DEFINE op == "removeContext"
  <2>1. PICK n \in {0, data_calls + 1} :
           /\ Data!Took(t, "context")
           /\ Data!Begin(t, op, WorkUnder("context", "extra", n))
           /\ data_scope' = [data_scope EXCEPT !["context"] = n] /\ Untouched /\ UNCHANGED data_crumbs
    BY <1>3 DEF WorkUnder, Data!RemoveContext, Data!Nil, Untouched
  <2>2. n \in Nat /\ op \in CallKinds \ {"idle"} /\ LockOf(op) = "context" /\ "context" \in Data!Fields
    BY <1>0, LocksAre DEF CallKinds, Data!Fields, Data!Locked
  <2>3. PICK e : e = WorkUnder("context", "extra", n)
    OBVIOUS
  <2>4. /\ e \in Left(op) /\ e # <<>> /\ Head(e)[1] = "load"
        /\ Among(e) = {<<"load", Data!Field("extra"), n>>, <<"unlock", "context">>}
    BY <2>2, <2>3, NewSteps
  <2>5. Fresh(e)
    BY <2>4 DEF Fresh, Brings
  <2>6. Locking(t, op)
    BY <2>1, <2>2 DEF Locking
  <2>7. Begun(t, op, e) /\ CallsInTurn' /\ CallsAreCounted'
    <3>1. Prepared(t, op, e)
      BY <2>1, <2>2, <2>3, <2>4, <2>5, <2>6 DEF Prepared
    <3> QED
      BY <3>1, CallStarts
  <2>10. data_scope' \in [Data!Fields -> Nat]
    BY <2>1, <2>2, FieldSet
  <2>8. BeginsAs(op, e)
    BY <2>1, <2>2, <2>4, <2>10 DEF BeginsAs
  <2>9. DataKinds'
    BY <1>0, <2>1, <2>2, <2>6, <2>10, KindsAtStart
  <2> QED
    BY <2>7, <2>8, <2>9
<1>4. CASE Data!AddBreadcrumb(t)
  <2> DEFINE op == "crumb"
             n == data_calls + 1
  <2>1. /\ Data!Took(t, "crumbs") /\ Data!Begin(t, op, <<<<"crumb", n>>, <<"unlock", "crumbs">>>>)
        /\ Untouched /\ UNCHANGED data_scope
        /\ data_crumbs' = LET all == Append(data_crumbs, data_calls + 1)
                          IN  IF Len(all) > MaxCrumbs THEN Tail(all) ELSE all
    BY <1>4 DEF Data!AddBreadcrumb, Data!WithCrumb, Untouched
  <2>2. n \in Nat /\ op \in CallKinds \ {"idle"} /\ LockOf(op) = "crumbs"
    BY <1>0, LocksAre DEF CallKinds
  <2>3. PICK e : e = <<<<"crumb", n>>, <<"unlock", "crumbs">>>>
    OBVIOUS
  <2>4. e \in Left(op) /\ e # <<>> /\ Among(e) = {<<"crumb", n>>, <<"unlock", "crumbs">>} /\ Head(e)[1] = "crumb"
    BY <2>2, <2>3, NewSteps
  <2>5. Fresh(e)
    BY <2>4 DEF Fresh, Brings
  <2>6. Locking(t, op)
    BY <2>1, <2>2 DEF Locking
  <2>7. Begun(t, op, e) /\ CallsInTurn' /\ CallsAreCounted'
    <3>1. Prepared(t, op, e)
      BY <2>1, <2>2, <2>3, <2>4, <2>5, <2>6 DEF Prepared
    <3> QED
      BY <3>1, CallStarts
  <2>8. BeginsAs(op, e)
    BY <2>1, <2>2, <2>4 DEF BeginsAs
  <2>9. DataKinds'
    <3>1. PICK all : all = Append(data_crumbs, n)
      OBVIOUS
    <3>2. all \in Seq(Nat \ {0}) /\ Len(all) = Len(data_crumbs) + 1 /\ all # <<>> /\ Len(data_crumbs) \in Nat
      BY <1>0, <3>1
    <3>3. Tail(all) \in Seq(Nat \ {0}) /\ Len(Tail(all)) = Len(data_crumbs)
      BY <3>2
    <3>4. data_crumbs' = IF Len(all) > MaxCrumbs THEN Tail(all) ELSE all
      BY <2>1, <3>1
    <3>5. data_crumbs' \in Seq(Nat \ {0}) /\ Len(data_crumbs') <= MaxCrumbs
      BY <1>0, <3>2, <3>3, <3>4, AppCallsAssumption
    <3> QED
      BY <1>0, <2>1, <2>2, <2>6, <3>5, KindsAtStart
  <2> QED
    BY <2>7, <2>8, <2>9
<1>5. CASE Data!ClearBreadcrumbs(t)
  <2> DEFINE op == "clearCrumbs"
  <2>1. /\ Data!Took(t, "crumbs")
        /\ Data!Begin(t, op, <<<<"crumbs?", Data!ClearSlots>>, <<"unlock", "crumbs">>>>)
        /\ Untouched /\ UNCHANGED data_scope /\ data_crumbs' = <<>>
    BY <1>5 DEF Data!ClearBreadcrumbs, Untouched
  <2>2. op \in CallKinds \ {"idle"} /\ LockOf(op) = "crumbs"
    BY LocksAre DEF CallKinds
  <2>3. PICK e : e = <<<<"crumbs?", Data!ClearSlots>>, <<"unlock", "crumbs">>>>
    OBVIOUS
  <2>4. /\ e \in Left(op) /\ e # <<>> /\ Head(e)[1] = "crumbs?"
        /\ Among(e) = {<<"crumbs?", Data!ClearSlots>>, <<"unlock", "crumbs">>}
    BY <1>0, <2>3, NewSteps
  <2>5. Fresh(e)
    BY <2>4 DEF Fresh, Brings
  <2>6. Locking(t, op)
    BY <2>1, <2>2 DEF Locking
  <2>7. Begun(t, op, e) /\ CallsInTurn' /\ CallsAreCounted'
    <3>1. Prepared(t, op, e)
      BY <2>1, <2>2, <2>3, <2>4, <2>5, <2>6 DEF Prepared
    <3> QED
      BY <3>1, CallStarts
  <2>8. BeginsAs(op, e)
    BY <2>1, <2>2, <2>4 DEF BeginsAs
  <2>9. DataKinds'
    <3>1. data_crumbs' \in Seq(Nat \ {0}) /\ Len(data_crumbs') <= MaxCrumbs
      BY <2>1, AppCallsAssumption
    <3> QED
      BY <1>0, <2>1, <2>2, <2>6, <3>1, KindsAtStart
  <2> QED
    BY <2>7, <2>8, <2>9
<1>6. CASE Data!Clear(t)
  <2> DEFINE op == "clear"
  <2>1. /\ Data!Begin(t, op, Clearing \o <<<<"crumbs?", Data!ClearSlots>>>>)
        /\ Untouched /\ UNCHANGED data_lock /\ data_crumbs' = <<>> /\ data_scope' = [f \in Data!Fields |-> 0]
    BY <1>6 DEF Data!Clear, Data!Nil, Untouched, Clearing
  <2>2. op \in CallKinds \ {"idle"} /\ LockOf(op) = "none"
    BY LocksAre DEF CallKinds
  <2>3. PICK e : e = Clearing \o <<<<"crumbs?", Data!ClearSlots>>>>
    OBVIOUS
  <2>4. /\ e \in Left(op) /\ e # <<>> /\ Head(e)[1] = "load"
        /\ Among(e) = {EmptyingOf(p) : p \in FieldPlaces} \cup {<<"crumbs?", Data!ClearSlots>>}
    BY <1>0, <2>3, NewSteps
  <2>5. Fresh(e)
    BY <2>4 DEF Fresh, Brings, EmptyingOf
  <2>6. Locking(t, op)
    BY <2>1, <2>2 DEF Locking
  <2>7. Begun(t, op, e) /\ CallsInTurn' /\ CallsAreCounted'
    <3>1. Prepared(t, op, e)
      BY <2>1, <2>2, <2>3, <2>4, <2>5, <2>6 DEF Prepared
    <3> QED
      BY <3>1, CallStarts
  <2>8. BeginsAs(op, e)
    BY <2>1, <2>2, <2>4 DEF BeginsAs
  <2>9. DataKinds'
    <3>1. data_crumbs' \in Seq(Nat \ {0}) /\ Len(data_crumbs') <= MaxCrumbs /\ data_scope' \in [Data!Fields -> Nat]
      BY <2>1, AppCallsAssumption
    <3> QED
      BY <1>0, <2>1, <2>2, <2>6, <3>1, KindsAtStart
  <2> QED
    BY <2>7, <2>8, <2>9
<1>7. CASE Data!Configure(t)
  <2> DEFINE op == "configure"
  <2>1. /\ Data!Begin(t, op, <<<<"rewind">>, <<"freeArray">>, <<"malloc">>, <<"memset">>>>)
        /\ Untouched /\ UNCHANGED <<data_lock, data_scope, data_crumbs>> /\ Data!Quiet
    BY <1>7 DEF Data!Configure, Untouched
  <2>2. op \in CallKinds \ {"idle"} /\ LockOf(op) = "none"
    BY LocksAre DEF CallKinds
  <2>3. PICK e : e = <<<<"rewind">>, <<"freeArray">>, <<"malloc">>, <<"memset">>>>
    OBVIOUS
  <2>4. /\ e \in Left(op) /\ e # <<>> /\ Head(e)[1] = "rewind"
        /\ Among(e) = {<<"rewind">>, <<"freeArray">>, <<"malloc">>, <<"memset">>}
    BY <1>0, <2>3, NewSteps
  <2>5. Fresh(e)
    BY <2>4 DEF Fresh, Brings
  <2>6. Locking(t, op)
    BY <2>1, <2>2 DEF Locking
  <2>7. Begun(t, op, e) /\ CallsInTurn' /\ CallsAreCounted'
    <3>1. Prepared(t, op, e)
      BY <2>1, <2>2, <2>3, <2>4, <2>5, <2>6 DEF Prepared
    <3> QED
      BY <3>1, CallStarts
  <2>8. BeginsAs(op, e)
    BY <2>1, <2>2, <2>4 DEF BeginsAs
  <2>9. DataKinds'
    BY <1>0, <2>1, <2>2, <2>6, KindsAtStart
  <2> QED
    BY <2>7, <2>8, <2>9
<1>8. CASE Data!SetUserInfo(t)
  <2> DEFINE op == "userInfo"
             n == data_calls + 1
  <2>1. /\ Data!Begin(t, op, <<<<"freeUser">>, <<"storeUser", n>>, <<"unlock", "userInfo">>>>)
        /\ Data!Took(t, "userInfo") /\ Untouched /\ UNCHANGED <<data_scope, data_crumbs>>
    BY <1>8 DEF Data!SetUserInfo, Untouched
  <2>2. n \in Nat /\ op \in CallKinds \ {"idle"} /\ LockOf(op) = "userInfo"
    BY <1>0, LocksAre DEF CallKinds
  <2>3. PICK e : e = <<<<"freeUser">>, <<"storeUser", n>>, <<"unlock", "userInfo">>>>
    OBVIOUS
  <2>4. /\ e \in Left(op) /\ e # <<>> /\ Head(e)[1] = "freeUser"
        /\ Among(e) = {<<"freeUser">>, <<"storeUser", n>>, <<"unlock", "userInfo">>}
    BY <1>0, <2>2, <2>3, NewSteps
  <2>5. Fresh(e)
    BY <2>4 DEF Fresh, Brings
  <2>6. Locking(t, op)
    BY <2>1, <2>2 DEF Locking
  <2>7. Begun(t, op, e) /\ CallsInTurn' /\ CallsAreCounted'
    <3>1. Prepared(t, op, e)
      BY <2>1, <2>2, <2>3, <2>4, <2>5, <2>6 DEF Prepared
    <3> QED
      BY <3>1, CallStarts
  <2>8. BeginsAs(op, e)
    BY <2>1, <2>2, <2>4 DEF BeginsAs
  <2>9. DataKinds'
    BY <1>0, <2>1, <2>2, <2>6, KindsAtStart
  <2> QED
    BY <2>7, <2>8, <2>9
<1>9. CASE Data!SetClasses(t)
  <2> DEFINE op == "classes"
  <2>1. PICK n \in 0 .. 2 :
           /\ Data!Begin(t, op, <<<<"classes", n>>, <<"count", n>>>>)
           /\ Untouched /\ UNCHANGED <<data_lock, data_scope, data_crumbs>>
    BY <1>9 DEF Data!SetClasses, Untouched
  <2>2. n \in Nat /\ op \in CallKinds \ {"idle"} /\ LockOf(op) = "none"
    BY LocksAre DEF CallKinds
  <2>3. PICK e : e = <<<<"classes", n>>, <<"count", n>>>>
    OBVIOUS
  <2>4. e \in Left(op) /\ e # <<>> /\ Among(e) = {<<"classes", n>>, <<"count", n>>} /\ Head(e)[1] = "classes"
    BY <2>2, <2>3, NewSteps
  <2>5. Fresh(e)
    BY <2>4 DEF Fresh, Brings
  <2>6. Locking(t, op)
    BY <2>1, <2>2 DEF Locking
  <2>7. Begun(t, op, e) /\ CallsInTurn' /\ CallsAreCounted'
    <3>1. Prepared(t, op, e)
      BY <2>1, <2>2, <2>3, <2>4, <2>5, <2>6 DEF Prepared
    <3> QED
      BY <3>1, CallStarts
  <2>8. BeginsAs(op, e)
    BY <2>1, <2>2, <2>4 DEF BeginsAs
  <2>9. DataKinds'
    BY <1>0, <2>1, <2>2, <2>6, KindsAtStart
  <2> QED
    BY <2>7, <2>8, <2>9
<1> QED
  BY <1>1, <1>2, <1>3, <1>4, <1>5, <1>6, <1>7, <1>8, <1>9 DEF Data!Calls

-----------------------------------------------------------------------------
(* What each step does, with p, n and x for its place, its number and what was read. *)

Loads(t, op, h, r, e, p, n, x) ==
    /\ Takes(t, op, h, r, e) /\ h = <<"load", p, n>> /\ x = Data!At(p) /\ op \in CallsOn(p)
    /\ Among(e) = {<<"drop", p, x>>, <<"store", p, n>>} \cup Among(r) /\ e # <<>> /\ Head(e)[1] = "drop"
    /\ Untouched /\ UNCHANGED data_lock

TextsAreNumbers == data_text \in [Data!Fields -> Nat] /\ data_ring \in [0 .. MaxCrumbs - 1 -> Nat]

Drops(t, op, h, r, p, x) ==
    /\ Takes(t, op, h, r, r) /\ h = <<"drop", p, x>> /\ op \in CallsOn(p)
    /\ TextsAreNumbers' /\ Data!At(p)' = 0 /\ \A q \in Places : q # p => Data!At(q)' = Data!At(q)
    /\ data_live' = data_live \ {x}
    /\ data_twice' = IF x # 0 /\ x \notin data_live THEN data_twice \cup {p.of} ELSE data_twice
    /\ UNCHANGED <<data_current, data_array, data_user, data_lock>>

Stores(t, op, h, r, p, n) ==
    /\ Takes(t, op, h, r, r) /\ h = <<"store", p, n>> /\ op \in CallsOn(p)
    /\ (op \in {"clear", "clearCrumbs"} => n = 0)
    /\ TextsAreNumbers' /\ (n = 0 => Data!At(p)' = Data!At(p)) /\ (n # 0 => Data!At(p)' = n)
    /\ \A q \in Places : q # p => Data!At(q)' = Data!At(q)
    /\ (n = 0 => UNCHANGED data_live) /\ (n # 0 => data_live' = data_live \cup {n})
    /\ UNCHANGED <<data_current, data_array, data_user, data_twice, data_lock>>

Crumbs(t, op, h, r, e, n) ==
    /\ op = "crumb" /\ Takes(t, op, h, r, e) /\ h = <<"crumb", n>> /\ \A s \in Among(r) : s[1] = "unlock"
    /\ IF data_array = "null" THEN e = r
       ELSE /\ Among(e) = {<<"load", Data!Slot(data_current), n>>, <<"advance">>} \cup Among(r)
            /\ e # <<>> /\ Head(e)[1] = "load"
    /\ Untouched /\ UNCHANGED data_lock

Clears(t, op, h, r, e) ==
    /\ Takes(t, op, h, r, e) /\ h[1] = "crumbs?" /\ op \in {"clear", "clearCrumbs"}
    /\ IF data_array = "null" THEN e = r
       ELSE /\ Among(e) = ({EmptyingOf(p) : p \in RingPlaces} \cup {<<"rewind">>}) \cup Among(r)
            /\ e # <<>> /\ Head(e)[1] = "load"
    /\ Untouched /\ UNCHANGED data_lock

Advances(t, op, h, r) ==
    /\ Takes(t, op, h, r, r) /\ op = "crumb" /\ h[1] = "advance" /\ data_current' = (data_current + 1) % MaxCrumbs
    /\ UNCHANGED <<data_text, data_ring, data_array, data_user, data_live, data_twice, data_lock>>

Rewinds(t, op, h, r) ==
    /\ Takes(t, op, h, r, r) /\ op \in {"clear", "clearCrumbs", "configure"} /\ h[1] = "rewind" /\ data_current' = 0
    /\ UNCHANGED <<data_text, data_ring, data_array, data_user, data_live, data_twice, data_lock>>

Arrays(t, op, h, r) ==
    /\ Takes(t, op, h, r, r) /\ op = "configure" /\ h[1] \in {"freeArray", "malloc", "memset"}
    /\ UNCHANGED <<data_text, data_current, data_user, data_live, data_twice, data_lock>>
    /\ data_array' \in {"null", "ready", "freed", "garbage"}
    /\ \/ UNCHANGED data_ring
       \/ data_ring' = [i \in 0 .. MaxCrumbs - 1 |-> 0]

Users(t, op, h, r) ==
    /\ Takes(t, op, h, r, r) /\ op = "userInfo"
    /\ UNCHANGED <<data_text, data_ring, data_current, data_array, data_twice, data_lock>>
    /\ \/ h[1] = "freeUser" /\ data_live' = data_live \ {data_user} /\ UNCHANGED data_user
       \/ h[1] = "storeUser" /\ data_user' = h[2] /\ data_live' = data_live \cup {h[2]} /\ h[2] \in Nat \ {0}

Rules(t, op, h, r) ==
    /\ Takes(t, op, h, r, r) /\ op = "classes" /\ h[1] \in {"classes", "count"} /\ Untouched /\ UNCHANGED data_lock

Unlocks(t, op, h, r) ==
    /\ Takes(t, op, h, r, r) /\ h[1] = "unlock" /\ r = <<>> /\ LockOf(op) # "none"
    /\ data_lock' = [data_lock EXCEPT ![LockOf(op)] = Data!Free_] /\ Untouched

Moves(t, op, h, r, e, n, x) ==
    \/ \E p \in Places : \/ Loads(t, op, h, r, e, p, n, x)
                         \/ e = r /\ (Drops(t, op, h, r, p, x) \/ Stores(t, op, h, r, p, n))
    \/ Crumbs(t, op, h, r, e, n) \/ Clears(t, op, h, r, e)
    \/ e = r /\ (Advances(t, op, h, r) \/ Rewinds(t, op, h, r) \/ Arrays(t, op, h, r) \/ Users(t, op, h, r)
                 \/ Rules(t, op, h, r) \/ Unlocks(t, op, h, r))

\* A step that is done, with its parts.
LEMMA WorkDone ==
  ASSUME CallsInTurn, NEW t \in Threads, NEW kinds, Done(t, kinds), kinds \subseteq OnPlace
  PROVE  \E op, h, r : \E p \in Places, n \in Nat : \E k \in kinds :
            /\ Takes(t, op, h, r, r) /\ h = Head(data_call[t].todo) /\ h = <<k, p, n>> /\ h[2] = p /\ h[3] = n
            /\ op \in CallsOn(p) /\ (op \in {"clear", "clearCrumbs"} /\ k # "drop" => n = 0)
<1>1. PICK op, h, r : Takes(t, op, h, r, r) /\ h = Head(data_call[t].todo) /\ h[1] \in kinds
  BY DEF Done
<1>2. op \in CallKinds /\ h \in StepsOf(op)
  BY <1>1 DEF Takes
<1>3. h[1] \in OnPlace
  BY <1>1
<1>4. /\ h[2] \in Places /\ h[3] \in Nat /\ h = <<h[1], h[2], h[3]>> /\ op \in CallsOn(h[2])
      /\ (op \in {"clear", "clearCrumbs"} /\ h[1] # "drop" => h[3] = 0)
  BY <1>2, <1>3, StepKinds
<1> QED
  BY <1>1, <1>4

\* Every step of a call is one of these.
LEMMA StepsMove ==
  ASSUME CallsInTurn, DataKinds, NEW t \in Threads, Data!Steps(t)
  PROVE  CallsInTurn' /\ \E op, h, r, e : \E n, x \in Nat : Moves(t, op, h, r, e, n, x)
<1>0. 0 \in Nat
  OBVIOUS
<1>1. CASE Data!Load(t)
  <2>1. CallsInTurn' /\ \E op, h, r, e : \E p \in Places, n \in Nat, x \in Nat :
            /\ Takes(t, op, h, r, e) /\ h = <<"load", p, n>> /\ x = Data!At(p) /\ op \in CallsOn(p)
            /\ Among(e) = {<<"drop", p, x>>, <<"store", p, n>>} \cup Among(r) /\ e # <<>>
            /\ Head(e)[1] = "drop"
    BY <1>1, LoadTaken
  <2>2. Untouched /\ UNCHANGED data_lock
    BY <1>1 DEF Data!Load, Untouched
  <2> QED
    <3>1. PICK op, h, r, e : \E p \in Places, n \in Nat, x \in Nat : Loads(t, op, h, r, e, p, n, x)
      BY <2>1, <2>2 DEF Loads
    <3> QED
      BY <2>1, <3>1 DEF Moves
<1>2. CASE Data!Drop(t)
  <2>1. CallsInTurn' /\ Done(t, {"drop"})
    BY <1>2, StepsDone
  <2>2. PICK op, h, r : \E p \in Places, n \in Nat :
            /\ Takes(t, op, h, r, r) /\ h = Head(data_call[t].todo) /\ h = <<"drop", p, n>> /\ h[2] = p /\ h[3] = n
            /\ op \in CallsOn(p)
    BY <2>1, WorkDone DEF OnPlace
  <2>3. PICK p \in Places, x \in Nat :
            /\ Takes(t, op, h, r, r) /\ h = Head(data_call[t].todo) /\ h = <<"drop", p, x>> /\ h[2] = p /\ h[3] = x
            /\ op \in CallsOn(p)
    BY <2>2
  <2>4. Data!Put(p, 0) /\ data_live' = data_live \ {x}
        /\ data_twice' = (IF x # 0 /\ x \notin data_live THEN data_twice \cup {p.of} ELSE data_twice)
        /\ UNCHANGED <<data_current, data_array, data_user, data_lock>>
    BY <1>2, <2>3 DEF Data!Drop, Data!Nil
  <2>5. TextsAreNumbers' /\ Data!At(p)' = 0 /\ \A q \in Places : q # p => Data!At(q)' = Data!At(q)
    BY <1>0, <2>4, PutThere DEF TextsAreNumbers
  <2>6. Drops(t, op, h, r, p, x)
    BY <2>3, <2>4, <2>5, Zenon DEF Drops
  <2> QED
    BY <2>1, <2>6, <1>0 DEF Moves
<1>3. CASE Data!Store(t)
  <2>1. CallsInTurn' /\ Done(t, {"store"})
    BY <1>3, StepsDone
  <2>2. PICK op, h, r : \E p \in Places, n \in Nat :
            /\ Takes(t, op, h, r, r) /\ h = Head(data_call[t].todo) /\ h = <<"store", p, n>> /\ h[2] = p /\ h[3] = n
            /\ op \in CallsOn(p) /\ (op \in {"clear", "clearCrumbs"} => n = 0)
    BY <2>1, WorkDone DEF OnPlace
  <2>3. PICK p \in Places, n \in Nat :
            /\ Takes(t, op, h, r, r) /\ h = Head(data_call[t].todo) /\ h = <<"store", p, n>> /\ h[2] = p /\ h[3] = n
            /\ op \in CallsOn(p) /\ (op \in {"clear", "clearCrumbs"} => n = 0)
    BY <2>2
  <2>4. /\ IF n = 0 THEN UNCHANGED <<data_text, data_ring, data_live>>
           ELSE Data!Put(p, n) /\ data_live' = data_live \cup {n}
        /\ UNCHANGED <<data_current, data_array, data_user, data_twice, data_lock>>
    BY <1>3, <2>3 DEF Data!Store, Data!Nil
  <2>5. /\ (n = 0 => Data!At(p)' = Data!At(p)) /\ (n # 0 => Data!At(p)' = n)
        /\ \A q \in Places : q # p => Data!At(q)' = Data!At(q)
        /\ TextsAreNumbers'
    <3>1. CASE n = 0
      BY <2>4, <3>1 DEF Data!At, DataKinds, TextsAreNumbers
    <3>2. CASE n # 0
      BY <2>4, <3>2, PutThere DEF TextsAreNumbers
    <3> QED
      BY <3>1, <3>2
  <2>6. (n = 0 => UNCHANGED data_live) /\ (n # 0 => data_live' = data_live \cup {n})
    BY <2>4
  <2>7. Stores(t, op, h, r, p, n)
    <3>1. /\ Takes(t, op, h, r, r) /\ h = <<"store", p, n>> /\ op \in CallsOn(p)
          /\ (op \in {"clear", "clearCrumbs"} => n = 0)
      BY <2>3
    <3>2. UNCHANGED <<data_current, data_array, data_user, data_twice, data_lock>>
      BY <2>4
    <3> QED
      BY <2>5, <2>6, <3>1, <3>2 DEF Stores
  <2> QED
    BY <2>1, <2>7, <1>0 DEF Moves
<1>4. CASE Data!Crumb(t)
  <2>1. CallsInTurn' /\ \E h, r, e : \E n \in Nat :
            /\ Takes(t, "crumb", h, r, e) /\ h = <<"crumb", n>> /\ \A s \in Among(r) : s[1] = "unlock"
            /\ IF data_array = "null" THEN e = r
               ELSE /\ Among(e) = {<<"load", Data!Slot(data_current), n>>, <<"advance">>} \cup Among(r)
                    /\ e # <<>> /\ Head(e)[1] = "load"
    BY <1>4, CrumbTaken
  <2>2. Untouched /\ UNCHANGED data_lock
    BY <1>4 DEF Data!Crumb, Untouched
  <2>3. \E h, r, e : \E n \in Nat : Crumbs(t, "crumb", h, r, e, n)
    BY <2>1, <2>2 DEF Crumbs
  <2> QED
    BY <2>1, <2>3, <1>0 DEF Moves
<1>5. CASE Data!MayClear(t)
  <2>1. CallsInTurn' /\ \E op, h, r, e :
            /\ Takes(t, op, h, r, e) /\ h[1] = "crumbs?" /\ op \in {"clear", "clearCrumbs"}
            /\ IF data_array = "null" THEN e = r
               ELSE /\ Among(e) = ({EmptyingOf(p) : p \in RingPlaces} \cup {<<"rewind">>}) \cup Among(r)
                    /\ e # <<>> /\ Head(e)[1] = "load"
    BY <1>5, MayClearTaken
  <2>2. Untouched /\ UNCHANGED data_lock
    BY <1>5 DEF Data!MayClear, Untouched
  <2>3. \E op, h, r, e : Clears(t, op, h, r, e)
    BY <2>1, <2>2 DEF Clears
  <2> QED
    BY <2>1, <2>3, <1>0 DEF Moves
<1>6. CASE Data!Advance(t)
  <2>1. CallsInTurn' /\ Done(t, {"advance"})
    BY <1>6, StepsDone
  <2>2. PICK op, h, r : Takes(t, op, h, r, r) /\ h = Head(data_call[t].todo) /\ h[1] = "advance"
    BY <2>1 DEF Done
  <2>3. op = "crumb"
    BY <2>2, StepKinds DEF Takes
  <2>4. data_current' = (data_current + 1) % MaxCrumbs
        /\ UNCHANGED <<data_text, data_ring, data_array, data_user, data_live, data_twice, data_lock>>
    BY <1>6 DEF Data!Advance
  <2>5. Advances(t, op, h, r)
    BY <2>2, <2>3, <2>4 DEF Advances
  <2> QED
    BY <2>1, <2>5, <1>0 DEF Moves
<1>7. CASE Data!Rewind(t)
  <2>1. CallsInTurn' /\ Done(t, {"rewind"})
    BY <1>7, StepsDone
  <2>2. PICK op, h, r : Takes(t, op, h, r, r) /\ h = Head(data_call[t].todo) /\ h[1] = "rewind"
    BY <2>1 DEF Done
  <2>3. op \in {"clear", "clearCrumbs", "configure"}
    BY <2>2, StepKinds DEF Takes
  <2>4. data_current' = 0
        /\ UNCHANGED <<data_text, data_ring, data_array, data_user, data_live, data_twice, data_lock>>
    BY <1>7 DEF Data!Rewind
  <2>5. Rewinds(t, op, h, r)
    BY <2>2, <2>3, <2>4 DEF Rewinds
  <2> QED
    BY <2>1, <2>5, <1>0 DEF Moves
<1>8. CASE Data!NewArray(t)
  <2>1. CallsInTurn' /\ Done(t, {"freeArray", "malloc", "memset"})
    BY <1>8, StepsDone
  <2>2. PICK op, h, r : /\ Takes(t, op, h, r, r) /\ h = Head(data_call[t].todo)
                        /\ h[1] \in {"freeArray", "malloc", "memset"}
    BY <2>1 DEF Done
  <2>3. op = "configure"
    BY <2>2, StepKinds DEF Takes
  <2>4. UNCHANGED <<data_text, data_current, data_user, data_live, data_twice, data_lock>>
        /\ data_array' \in {"null", "ready", "freed", "garbage"}
        /\ (UNCHANGED data_ring \/ data_ring' = [i \in 0 .. MaxCrumbs - 1 |-> 0])
    <3>1. DOMAIN data_ring = 0 .. MaxCrumbs - 1
      BY DEF DataKinds
    <3> QED
      BY <1>8, <3>1 DEF Data!NewArray, Data!Nil, DataKinds
  <2>5. Arrays(t, op, h, r)
    BY <2>2, <2>3, <2>4 DEF Arrays
  <2> QED
    BY <2>1, <2>5, <1>0 DEF Moves
<1>9. CASE Data!UserInfo(t)
  <2>1. CallsInTurn' /\ Done(t, {"freeUser", "storeUser"})
    BY <1>9, StepsDone
  <2>2. PICK op, h, r : /\ Takes(t, op, h, r, r) /\ h = Head(data_call[t].todo)
                        /\ h[1] \in {"freeUser", "storeUser"}
    BY <2>1 DEF Done
  <2>3. op = "userInfo" /\ (h[1] = "storeUser" => h[2] \in Nat \ {0})
    BY <2>2, StepKinds DEF Takes
  <2>4. /\ UNCHANGED <<data_text, data_ring, data_current, data_array, data_twice, data_lock>>
        /\ \/ h[1] = "freeUser" /\ data_live' = data_live \ {data_user} /\ UNCHANGED data_user
           \/ h[1] = "storeUser" /\ data_user' = h[2] /\ data_live' = data_live \cup {h[2]}
    BY <1>9, <2>2 DEF Data!UserInfo, Data!Step
  <2>5. Users(t, op, h, r)
    BY <2>2, <2>3, <2>4 DEF Users
  <2> QED
    BY <2>1, <2>5, <1>0 DEF Moves
<1>10. CASE Data!Classes(t)
  <2>1. CallsInTurn' /\ Done(t, {"classes", "count"})
    BY <1>10, StepsDone
  <2>2. PICK op, h, r : /\ Takes(t, op, h, r, r) /\ h = Head(data_call[t].todo)
                        /\ h[1] \in {"classes", "count"}
    BY <2>1 DEF Done
  <2>3. op = "classes"
    BY <2>2, StepKinds DEF Takes
  <2>4. Untouched /\ UNCHANGED data_lock
    BY <1>10 DEF Data!Classes, Untouched
  <2>5. Rules(t, op, h, r)
    BY <2>2, <2>3, <2>4 DEF Rules
  <2> QED
    BY <2>1, <2>5, <1>0 DEF Moves
<1>11. CASE Data!Unlock(t)
  <2>1. CallsInTurn' /\ Done(t, {"unlock"})
    BY <1>11, StepsDone
  <2>2. PICK op, h, r : Takes(t, op, h, r, r) /\ h = Head(data_call[t].todo) /\ h[1] = "unlock"
    BY <2>1 DEF Done
  <2>3. h[2] = LockOf(op) /\ LockOf(op) # "none" /\ r = <<>>
    BY <2>2, StepKinds DEF Takes, Follows
  <2>4. data_lock' = [data_lock EXCEPT ![LockOf(op)] = Data!Free_] /\ Untouched
    BY <1>11, <2>2, <2>3 DEF Data!Unlock, Untouched
  <2>5. Unlocks(t, op, h, r)
    BY <2>2, <2>3, <2>4 DEF Unlocks
  <2> QED
    BY <2>1, <2>5, <1>0 DEF Moves
<1> QED
  BY <1>1, <1>2, <1>3, <1>4, <1>5, <1>6, <1>7, <1>8, <1>9, <1>10, <1>11 DEF Data!Steps

\* The data stay of the kinds they are of.
LEMMA MovesKeepKinds ==
  ASSUME DataKinds, NEW t \in Threads, NEW op, NEW h, NEW r, NEW e, NEW n \in Nat, NEW x \in Nat,
         Moves(t, op, h, r, e, n, x)
  PROVE  DataKinds'
<1>0. UNCHANGED <<data_scope, data_crumbs>>
  BY DEF Moves, Takes, Loads, Drops, Stores, Crumbs, Clears, Advances, Rewinds, Arrays, Users, Rules, Unlocks
<1>1. CASE UNCHANGED <<data_text, data_ring, data_current, data_array, data_user, data_lock>>
  BY <1>0, <1>1 DEF DataKinds
<1>2. ASSUME NEW p \in Places, Loads(t, op, h, r, e, p, n, x) PROVE DataKinds'
  BY <1>1, <1>2 DEF Loads, Untouched
<1>3. ASSUME NEW p \in Places, Drops(t, op, h, r, p, x) \/ Stores(t, op, h, r, p, n) PROVE DataKinds'
  BY <1>0, <1>3 DEF Drops, Stores, TextsAreNumbers, DataKinds
<1>4. CASE Crumbs(t, op, h, r, e, n) \/ Clears(t, op, h, r, e) \/ Rules(t, op, h, r)
  BY <1>1, <1>4 DEF Crumbs, Clears, Rules, Untouched
<1>5. CASE Advances(t, op, h, r) \/ Rewinds(t, op, h, r)
  <2>1. data_current' \in 0 .. MaxCrumbs - 1
    <3>1. (data_current + 1) % MaxCrumbs \in 0 .. MaxCrumbs - 1 /\ 0 \in 0 .. MaxCrumbs - 1
      BY AppCallsAssumption DEF DataKinds
    <3> QED
      BY <1>5, <3>1 DEF Advances, Rewinds
  <2> QED
    BY <1>0, <1>5, <2>1 DEF Advances, Rewinds, DataKinds
<1>6. CASE Arrays(t, op, h, r)
  <2>1. data_ring' \in [0 .. MaxCrumbs - 1 -> Nat]
    BY <1>6 DEF Arrays, DataKinds
  <2> QED
    BY <1>0, <1>6, <2>1 DEF Arrays, DataKinds
<1>7. CASE Users(t, op, h, r)
  BY <1>0, <1>7 DEF Users, DataKinds
<1>8. CASE Unlocks(t, op, h, r)
  <2>1. data_lock' \in [Data!Locks -> Threads \cup {Data!Free_}]
    BY <1>8 DEF Unlocks, DataKinds
  <2> QED
    BY <1>0, <1>8, <2>1 DEF Unlocks, Untouched, DataKinds
<1> QED
  BY <1>2, <1>3, <1>4, <1>5, <1>6, <1>7, <1>8 DEF Moves

-----------------------------------------------------------------------------
(* The locks, and the calls that were made. *)

\* A thread holds the lock of its call.
Held == \A t \in Threads : LockOf(Op(t)) # "none" => data_lock[LockOf(Op(t))] = t
\* Calls are remembered.
Did(k) == \E i \in 1 .. data_calls : data_history[i].op = k
Recorded == \A t \in Threads : Op(t) # "idle" => Did(Op(t))
\* The SDK starts while no call is made.
StartsAlone == \A t, u \in Threads : Op(t) = "configure" /\ t # u => Op(u) = "idle"
Kept == Held /\ Recorded /\ StartsAlone

\* The other threads stay where they are.
LEMMA OthersStay ==
  ASSUME NEW t \in Threads, NEW op, NEW e, GoesOn(t, op, e)
  PROVE  /\ Op(t)' = (IF e = <<>> THEN "idle" ELSE op) /\ Todo(t)' = e
         /\ \A u \in Threads : u # t => Op(u)' = Op(u) /\ Todo(u)' = Todo(u) /\ Pending(u)' = Pending(u)
BY DEF GoesOn, Pending

\* A call that begins is added to the calls that were made.
LEMMA OneMoreCall ==
  ASSUME CallsAreCounted, NEW t \in Threads, NEW op, NEW e, Begun(t, op, e)
  PROVE  /\ \A k : Did(k)' <=> Did(k) \/ k = op
         /\ \A i \in 1 .. data_calls : data_history'[i] = data_history[i]
         /\ data_calls' = data_calls + 1 /\ data_history'[data_calls'] = [op |-> op, alone |-> Data!Quiet]
<1>1. /\ data_calls' = data_calls + 1 /\ data_calls \in Nat /\ Len(data_history) = data_calls
      /\ data_history \in Seq([op : CallKinds \cup {"unencoded"}, alone : BOOLEAN])
  BY AppCallsAssumption DEF Begun, CallsAreCounted
<1>2. PICK c : c = [op |-> op, alone |-> Data!Quiet]
  OBVIOUS
<1>3. data_history' = Append(data_history, c)
  BY <1>2 DEF Begun
<1>4. \A i \in 1 .. data_calls : data_history'[i] = data_history[i]
  BY <1>1, <1>3
<1>5. data_history'[data_calls + 1] = c
  BY <1>1, <1>3
<1>6. c.op = op
  BY <1>2
<1>7. ASSUME NEW k PROVE Did(k)' <=> Did(k) \/ k = op
  <2>1. \A i \in 1 .. data_calls' : i \in 1 .. data_calls \/ i = data_calls + 1
    BY <1>1
  <2>2. data_calls + 1 \in 1 .. data_calls' /\ 1 .. data_calls \subseteq 1 .. data_calls'
    BY <1>1
  <2> QED
    BY <1>4, <1>5, <1>6, <2>1, <2>2 DEF Did
<1> QED
  BY <1>1, <1>2, <1>4, <1>5, <1>7

\* No step adds a call.
LEMMA NoOtherCall ==
  ASSUME NEW t \in Threads, NEW op, NEW h, NEW r, NEW e, Takes(t, op, h, r, e)
  PROVE  \A k : Did(k)' <=> Did(k)
BY DEF Takes, Did

\* Calls are begun under the locks, and no other while the SDK starts.
LEMMA KeptByCalls ==
  ASSUME CallsInTurn, DataKinds, CallsAreCounted, Kept, NEW t \in Threads, NEW op, NEW e, Begun(t, op, e)
  PROVE  Kept'
<1>1. /\ Op(t)' = op /\ Op(t) = "idle" /\ op \in CallKinds /\ op # "idle"
      /\ \A u \in Threads : u # t => Op(u)' = Op(u)
      /\ \A u \in Threads : Op(u) # "configure"
      /\ \A u \in Threads : Op(u) \in CallKinds
  BY OthersStay DEF Begun, CallsInTurn
<1>2. Held'
  <2> SUFFICES ASSUME NEW u \in Threads, LockOf(Op(u))' # "none" PROVE data_lock'[LockOf(Op(u))'] = u
    BY DEF Held
  <2>1. PICK k \in CallKinds : k = Op(u)'
    BY <1>1
  <2>2. LockOf(Op(u))' = LockOf(k) /\ LockOf(k) \in Data!Locks /\ LockOf(k) # "none"
    <3>1. LockOf(Op(u))' = LockOf(k)
      BY <2>1 DEF LockOf
    <3> QED
      BY <3>1, LocksAre
  <2>3. data_lock \in [Data!Locks -> Threads \cup {Data!Free_}] /\ Data!Free_ \notin Threads
    BY AppCallsAssumption DEF DataKinds, Data!Free_
  <2>4. CASE u = t
    <3>1. k = op
      BY <1>1, <2>1, <2>4
    <3>2. data_lock' = [data_lock EXCEPT ![LockOf(op)] = t]
      BY <2>2, <3>1 DEF Begun
    <3> QED
      BY <2>2, <2>3, <2>4, <3>1, <3>2
  <2>5. CASE u # t
    <3>1. k = Op(u)
      BY <1>1, <2>1, <2>5
    <3>2. data_lock[LockOf(k)] = u
      BY <2>2, <3>1 DEF Held, Kept
    <3>3. \/ UNCHANGED data_lock
          \/ /\ data_lock[LockOf(op)] = Data!Free_
             /\ data_lock' = [data_lock EXCEPT ![LockOf(op)] = t]
      BY DEF Begun
    <3> QED
      BY <2>2, <2>3, <3>2, <3>3
  <2> QED
    BY <2>4, <2>5
<1>3. Recorded'
  <2>1. \A k : Did(k)' <=> Did(k) \/ k = op
    BY OneMoreCall
  <2> SUFFICES ASSUME NEW u \in Threads, Op(u)' # "idle" PROVE Did(Op(u))'
    BY DEF Recorded
  <2>2. PICK k : k = Op(u)'
    OBVIOUS
  <2>3. Did(k)'
    <3>1. CASE u = t
      BY <1>1, <2>1, <2>2, <3>1
    <3>2. CASE u # t
      BY <1>1, <2>1, <2>2, <3>2 DEF Recorded, Kept
    <3> QED
      BY <3>1, <3>2
  <2> QED
    BY <2>2, <2>3 DEF Did
<1>4. StartsAlone'
  <2> SUFFICES ASSUME NEW v \in Threads, NEW u \in Threads, Op(v)' = "configure", v # u PROVE Op(u)' = "idle"
    BY DEF StartsAlone
  <2>1. v = t
    BY <1>1
  <2>2. Data!Quiet
    BY <1>1, <2>1 DEF Begun
  <2>3. Op(u) = "idle"
    BY <2>2 DEF Data!Quiet, Data!Idle, Op
  <2> QED
    BY <1>1, <2>1, <2>3
<1> QED
  BY <1>2, <1>3, <1>4 DEF Kept

\* The lock changes with the call that is done only.
LEMMA MovesLock ==
  ASSUME NEW t \in Threads, NEW op, NEW h, NEW r, NEW e, NEW n, NEW x, Moves(t, op, h, r, e, n, x)
  PROVE  /\ Takes(t, op, h, r, e)
         /\ \/ UNCHANGED data_lock
            \/ e = <<>> /\ LockOf(op) # "none" /\ data_lock' = [data_lock EXCEPT ![LockOf(op)] = Data!Free_]
BY DEF Moves, Loads, Drops, Stores, Crumbs, Clears, Advances, Rewinds, Arrays, Users, Rules, Unlocks

\* A step keeps the lock, but for the last one, which is free of it.
LEMMA KeptBySteps ==
  ASSUME CallsInTurn, DataKinds, Kept, NEW t \in Threads, NEW op, NEW h, NEW r, NEW e,
         NEW n, NEW x, Moves(t, op, h, r, e, n, x)
  PROVE  Kept'
<1>0. /\ Takes(t, op, h, r, e)
      /\ \/ UNCHANGED data_lock
         \/ e = <<>> /\ LockOf(op) # "none" /\ data_lock' = [data_lock EXCEPT ![LockOf(op)] = Data!Free_]
  BY MovesLock
<1>1. /\ Op(t)' = (IF e = <<>> THEN "idle" ELSE op) /\ Op(t) = op
      /\ \A u \in Threads : u # t => Op(u)' = Op(u)
      /\ \A u \in Threads : Op(u) \in CallKinds
  BY <1>0, OthersStay DEF Takes, CallsInTurn
<1>2. Held'
  <2> SUFFICES ASSUME NEW u \in Threads, LockOf(Op(u))' # "none" PROVE data_lock'[LockOf(Op(u))'] = u
    BY DEF Held
  <2>1. PICK k \in CallKinds : k = Op(u)'
    BY <1>1 DEF CallKinds
  <2>2. LockOf(Op(u))' = LockOf(k) /\ LockOf(k) \in Data!Locks /\ LockOf(k) # "none" /\ k # "idle"
    <3>1. LockOf(Op(u))' = LockOf(k)
      BY <2>1 DEF LockOf
    <3> QED
      BY <3>1, LocksAre
  <2>3. data_lock \in [Data!Locks -> Threads \cup {Data!Free_}]
    BY DEF DataKinds
  <2>4. k = Op(u) /\ (u = t => e # <<>>)
    BY <1>1, <2>1, <2>2
  <2>5. data_lock[LockOf(k)] = u
    BY <2>2, <2>4 DEF Held, Kept
  <2>6. LockOf(op) # "none" => data_lock[LockOf(op)] = t
    BY <1>1 DEF Held, Kept
  <2>7. data_lock'[LockOf(k)] = u
    BY <1>0, <2>2, <2>3, <2>4, <2>5, <2>6
  <2> QED
    BY <2>2, <2>7
<1>3. Recorded'
  <2>1. \A k : Did(k)' <=> Did(k)
    BY <1>0, NoOtherCall
  <2> SUFFICES ASSUME NEW u \in Threads, Op(u)' # "idle" PROVE Did(Op(u))'
    BY DEF Recorded
  <2>2. PICK k : k = Op(u)'
    OBVIOUS
  <2>3. k = Op(u) /\ k # "idle"
    BY <1>1, <2>2
  <2>4. Did(k)'
    BY <2>1, <2>3 DEF Recorded, Kept
  <2> QED
    BY <2>2, <2>4 DEF Did
<1>4. StartsAlone'
  BY <1>1 DEF StartsAlone, Kept
<1> QED
  BY <1>2, <1>3, <1>4 DEF Kept

-----------------------------------------------------------------------------
(* Where the texts are. *)

\* A text is at one place; it is allocated, and not the user's; what is brought is nowhere yet, and
\* what is to be freed is where it was read from, if it is somewhere.
OnePlace == \A p, q \in Places : Data!At(p) = Data!At(q) /\ Data!At(p) # 0 => p = q
AllLive ==
    /\ data_live \subseteq 1 .. data_calls /\ data_user \in 0 .. data_calls
    /\ \A p \in Places : Data!At(p) # 0 => Data!At(p) \in data_live /\ Data!At(p) # data_user
Unseen(n, t) ==
    /\ n <= data_calls /\ n # data_user /\ \A p \in Places : Data!At(p) # n
    /\ \A u \in Threads : \A d \in Pending(u) : (d[1] = "drop" => d[3] # n) /\ (u # t => Brings(d) # n)
NewIsNew == \A t \in Threads : \A s \in Pending(t) : Brings(s) # 0 => Unseen(Brings(s), t)
DropsHere == \A t \in Threads : \A s \in Pending(t) : s[1] = "drop" /\ s[3] # 0 =>
    s[3] <= data_calls /\ \A q \in Places : (Data!At(q) = s[3] => q = s[2])
Homes == OnePlace /\ AllLive /\ NewIsNew /\ DropsHere

\* The steps that are left are of the kinds of their calls.
LEMMA PendingKinds ==
  ASSUME CallsInTurn, NEW t \in Threads, NEW s \in Pending(t)
  PROVE  /\ Op(t) \in CallKinds /\ s \in StepsOf(Op(t)) /\ Brings(s) \in Nat /\ Op(t) # "idle" /\ Todo(t) # <<>>
         /\ s[1] \in OnPlace => s[2] \in Places /\ s[3] \in Nat
<1>1. Op(t) \in CallKinds /\ Todo(t) \in Seq(StepsOf(Op(t)))
  BY DEF CallsInTurn, Left
<1>2. s \in StepsOf(Op(t))
  BY <1>1 DEF Pending, Among
<1>3. Op(t) # "idle"
  BY <1>2, IdleSteps
<1>4. Todo(t) # <<>>
  BY <1>3 DEF CallsInTurn
<1> QED
  BY <1>1, <1>2, <1>3, <1>4, StepKinds

\* What a step leaves to do brings no more, and frees no more but what it read.
LeavesLess(t) ==
    /\ \A s \in Pending(t)' : Brings(s) # 0 => \E r \in Pending(t) : Brings(r) = Brings(s)
    /\ \A s \in Pending(t)' : s[1] = "drop" /\ s[3] # 0 => s \in Pending(t) \/ (s[2] \in Places /\ Data!At(s[2]) = s[3])

\* Steps that put no text anywhere.
LEMMA HomesShrink ==
  ASSUME CallsInTurn, DataKinds, CallsAreCounted, Homes, NEW t \in Threads,
         \A u \in Threads : u # t => Pending(u)' = Pending(u), LeavesLess(t),
         \A p \in Places : Data!At(p)' = Data!At(p) \/ Data!At(p)' = 0,
         UNCHANGED <<data_user, data_calls>>, data_live' \subseteq data_live,
         \A p \in Places : Data!At(p)' # 0 => Data!At(p)' \in data_live'
  PROVE  Homes'
<1>0. OnePlace /\ AllLive /\ NewIsNew /\ DropsHere
  BY DEF Homes
<1>1. OnePlace'
  BY <1>0 DEF OnePlace
<1>2. AllLive'
  <2>1. ASSUME NEW p \in Places, Data!At(p)' # 0 PROVE Data!At(p)' \in data_live' /\ Data!At(p)' # data_user'
    <3>1. Data!At(p)' = Data!At(p) /\ Data!At(p) # 0
      BY <2>1
    <3>2. Data!At(p) # data_user
      BY <1>0, <3>1 DEF AllLive
    <3> QED
      BY <2>1, <3>1, <3>2
  <2>2. data_live' \subseteq 1 .. data_calls' /\ data_user' \in 0 .. data_calls'
    BY <1>0 DEF AllLive
  <2> QED
    BY <2>1, <2>2 DEF AllLive
<1>3. ASSUME NEW u \in Threads, NEW s \in Pending(u)', Brings(s) # 0
      PROVE  \E r \in Pending(u) : Brings(r) = Brings(s)
  BY <1>3 DEF LeavesLess
<1>4. ASSUME NEW u \in Threads, NEW s \in Pending(u)', s[1] = "drop", s[3] # 0
      PROVE  s \in Pending(u) \/ (s[2] \in Places /\ Data!At(s[2]) = s[3])
  BY <1>4 DEF LeavesLess
<1>5. ASSUME NEW u \in Threads, NEW s \in Pending(u)', Brings(s) # 0, NEW n, n = Brings(s)
      PROVE  Unseen(n, u)'
  <2>1. PICK r \in Pending(u) : Brings(r) = n
    BY <1>3, <1>5
  <2>2. Unseen(n, u)
    <3>1. Unseen(Brings(r), u)
      BY <1>0, <1>5, <2>1 DEF NewIsNew
    <3> QED
      BY <2>1, <3>1
  <2>3. n <= data_calls' /\ n # data_user' /\ \A p \in Places : Data!At(p)' # n
    BY <1>5, <2>2 DEF Unseen
  <2>4. ASSUME NEW v \in Threads, NEW d \in Pending(v)', d[1] = "drop" PROVE d[3] # n
    <3>1. CASE d[3] = 0
      BY <1>5, <3>1
    <3>2. CASE d[3] # 0
      <4>1. d \in Pending(v) \/ (d[2] \in Places /\ Data!At(d[2]) = d[3])
        BY <1>4, <2>4, <3>2
      <4> QED
        BY <2>2, <2>4, <4>1 DEF Unseen
    <3> QED
      BY <3>1, <3>2
  <2>5. ASSUME NEW v \in Threads, NEW d \in Pending(v)', v # u PROVE Brings(d) # n
    <3>1. CASE Brings(d) = 0
      BY <1>5, <3>1
    <3>2. CASE Brings(d) # 0
      <4>1. PICK c \in Pending(v) : Brings(c) = Brings(d)
        BY <1>3, <3>2
      <4> QED
        BY <2>2, <2>5, <4>1 DEF Unseen
    <3> QED
      BY <3>1, <3>2
  <2> QED
    BY <2>3, <2>4, <2>5 DEF Unseen
<1>6. NewIsNew'
  <2> SUFFICES ASSUME NEW u \in Threads, NEW s \in Pending(u)', Brings(s) # 0 PROVE Unseen(Brings(s), u)'
    BY DEF NewIsNew
  <2>1. PICK n : n = Brings(s)
    OBVIOUS
  <2>2. Unseen(n, u)'
    BY <1>5, <2>1
  <2> QED
    BY <2>1, <2>2
<1>7. ASSUME NEW u \in Threads, NEW s \in Pending(u)', s[1] = "drop", s[3] # 0
      PROVE  s[3] <= data_calls' /\ \A q \in Places : Data!At(q)' = s[3] => q = s[2]
  <2>1. s[3] <= data_calls /\ \A q \in Places : Data!At(q) = s[3] => q = s[2]
    <3>1. CASE s \in Pending(u)
      BY <1>0, <1>7, <3>1 DEF DropsHere
    <3>2. CASE s[2] \in Places /\ Data!At(s[2]) = s[3]
      <4>1. s[3] \in data_live /\ s[3] <= data_calls
        <5>1. s[3] \in data_live
          BY <1>0, <1>7, <3>2 DEF AllLive
        <5>2. s[3] \in 1 .. data_calls
          BY <1>0, <5>1 DEF AllLive
        <5> QED
          BY <5>1, <5>2
      <4>2. \A q \in Places : Data!At(q) = s[3] => q = s[2]
        BY <1>0, <1>7, <3>2 DEF OnePlace
      <4> QED
        BY <4>1, <4>2
    <3> QED
      BY <1>4, <1>7, <3>1, <3>2
  <2> QED
    BY <1>7, <2>1
<1>8. DropsHere'
  BY <1>7 DEF DropsHere
<1> QED
  BY <1>1, <1>2, <1>6, <1>8 DEF Homes

\* What steps leave to do.
LEMMA LessIsLeft ==
  ASSUME NEW t \in Threads, NEW op, NEW h, NEW r, NEW e, NEW n \in Nat, NEW x \in Nat, Moves(t, op, h, r, e, n, x)
  PROVE  LeavesLess(t)
<1>0. Takes(t, op, h, r, e)
  BY MovesLock
<1>1. Pending(t) = {h} \cup Among(r) /\ Pending(t)' = Among(e)
  BY <1>0 DEF Takes
<1>2. CASE e = r
  BY <1>1, <1>2 DEF LeavesLess
<1>3. ASSUME NEW p \in Places, Loads(t, op, h, r, e, p, n, x) PROVE LeavesLess(t)
  <2>1. PICK d : d = <<"drop", p, x>>
    OBVIOUS
  <2>2. PICK c : c = <<"store", p, n>>
    OBVIOUS
  <2>3. Among(e) = {d, c} \cup Among(r) /\ h = <<"load", p, n>> /\ x = Data!At(p)
    BY <1>3, <2>1, <2>2 DEF Loads
  <2>4. Brings(d) = 0 /\ d[2] = p /\ d[3] = x /\ Brings(c) = n /\ c[1] # "drop" /\ Brings(h) = n
    BY <2>1, <2>2, <2>3 DEF Brings
  <2> QED
    BY <1>1, <2>3, <2>4 DEF LeavesLess
<1>4. CASE Crumbs(t, op, h, r, e, n)
  <2>1. CASE data_array = "null"
    BY <1>2, <1>4, <2>1 DEF Crumbs
  <2>2. CASE data_array # "null"
    <3>1. PICK c : c = <<"load", Data!Slot(data_current), n>>
      OBVIOUS
    <3>2. PICK d : d = <<"advance">>
      OBVIOUS
    <3>3. Among(e) = {c, d} \cup Among(r) /\ h = <<"crumb", n>>
      BY <1>4, <2>2, <3>1, <3>2 DEF Crumbs
    <3>4. Brings(d) = 0 /\ d[1] # "drop" /\ Brings(c) = n /\ c[1] # "drop" /\ Brings(h) = n
      BY <3>1, <3>2, <3>3 DEF Brings
    <3> QED
      BY <1>1, <3>3, <3>4 DEF LeavesLess
  <2> QED
    BY <2>1, <2>2
<1>5. CASE Clears(t, op, h, r, e)
  <2>1. CASE data_array = "null"
    BY <1>2, <1>5, <2>1 DEF Clears
  <2>2. CASE data_array # "null"
    <3>1. Among(e) = ({EmptyingOf(p) : p \in RingPlaces} \cup {<<"rewind">>}) \cup Among(r)
      BY <1>5, <2>2 DEF Clears
    <3>2. \A s \in {EmptyingOf(p) : p \in RingPlaces} \cup {<<"rewind">>} : Brings(s) = 0 /\ s[1] # "drop"
      BY DEF EmptyingOf, Brings
    <3> QED
      BY <1>1, <3>1, <3>2 DEF LeavesLess
  <2> QED
    BY <2>1, <2>2
<1> QED
  BY <1>2, <1>3, <1>4, <1>5 DEF Moves

\* A text that is put where it is brought, or becomes the user's.
LEMMA HomesFilled ==
  ASSUME CallsInTurn, DataKinds, CallsAreCounted, Homes, NEW t \in Threads, NEW n \in Nat, n # 0,
         NEW h \in Pending(t), Brings(h) = n, \A s \in Pending(t)' : s \in Pending(t) /\ Brings(s) = 0,
         \A u \in Threads : u # t => Pending(u)' = Pending(u), UNCHANGED data_calls,
         data_live' = data_live \cup {n},
         \/ /\ UNCHANGED data_user
            /\ \E p \in Places : Data!At(p)' = n /\ \A q \in Places : q # p => Data!At(q)' = Data!At(q)
         \/ data_user' = n /\ \A p \in Places : Data!At(p)' = Data!At(p)
  PROVE  Homes'
<1>0. OnePlace /\ AllLive /\ NewIsNew /\ DropsHere
  BY DEF Homes
<1>1. Unseen(n, t)
  <2>1. Unseen(Brings(h), t)
    BY <1>0 DEF NewIsNew
  <2> QED
    BY <2>1
<1>2. n \in 1 .. data_calls /\ data_calls \in Nat
  BY <1>1, AppCallsAssumption DEF Unseen, CallsAreCounted
<1>3. \A p \in Places : Data!At(p)' = Data!At(p) \/ (Data!At(p)' = n /\ UNCHANGED data_user)
  OBVIOUS
<1>4. data_user' = data_user \/ data_user' = n
  OBVIOUS
<1>5. OnePlace'
  <2>1. \A p \in Places : Data!At(p) # n
    BY <1>1 DEF Unseen
  <2> QED
    BY <1>0, <2>1 DEF OnePlace
<1>6. AllLive'
  <2>1. data_live' \subseteq 1 .. data_calls' /\ data_user' \in 0 .. data_calls'
    BY <1>0, <1>2, <1>4 DEF AllLive
  <2>2. ASSUME NEW p \in Places, Data!At(p)' # 0 PROVE Data!At(p)' \in data_live' /\ Data!At(p)' # data_user'
    <3>1. CASE Data!At(p)' = Data!At(p)
      BY <1>0, <1>1, <1>4, <2>2, <3>1 DEF AllLive, Unseen
    <3>2. CASE Data!At(p)' = n /\ UNCHANGED data_user
      BY <1>1, <3>2 DEF Unseen
    <3> QED
      BY <1>3, <3>1, <3>2
  <2> QED
    BY <2>1, <2>2 DEF AllLive
<1>7. \A u \in Threads : \A s \in Pending(u)' : s \in Pending(u) /\ (u = t => Brings(s) = 0)
  OBVIOUS
<1>8. ASSUME NEW u \in Threads, NEW s \in Pending(u)', Brings(s) # 0, NEW m, m = Brings(s)
      PROVE  Unseen(m, u)'
  <2>1. u # t /\ s \in Pending(u)
    BY <1>7, <1>8
  <2>2. Unseen(m, u)
    <3>1. Unseen(Brings(s), u)
      BY <1>0, <1>8, <2>1 DEF NewIsNew
    <3> QED
      BY <1>8, <3>1
  <2>3. m # n
    BY <1>1, <1>8, <2>1 DEF Unseen
  <2>4. m <= data_calls' /\ m # data_user' /\ \A p \in Places : Data!At(p)' # m
    BY <1>3, <1>4, <2>2, <2>3 DEF Unseen
  <2>5. \A v \in Threads : \A d \in Pending(v)' : (d[1] = "drop" => d[3] # m) /\ (v # u => Brings(d) # m)
    BY <1>7, <2>2 DEF Unseen
  <2> QED
    BY <2>4, <2>5 DEF Unseen
<1>9. NewIsNew'
  <2> SUFFICES ASSUME NEW u \in Threads, NEW s \in Pending(u)', Brings(s) # 0 PROVE Unseen(Brings(s), u)'
    BY DEF NewIsNew
  <2>1. PICK m : m = Brings(s)
    OBVIOUS
  <2>2. Unseen(m, u)'
    BY <1>8, <2>1
  <2> QED
    BY <2>1, <2>2
<1>10. ASSUME NEW u \in Threads, NEW s \in Pending(u)', s[1] = "drop", s[3] # 0
       PROVE  s[3] <= data_calls' /\ \A q \in Places : (Data!At(q)' = s[3] => q = s[2])
  <2>1. s \in Pending(u)
    BY <1>7
  <2>2. s[3] # n
    BY <1>1, <1>10, <2>1 DEF Unseen
  <2>3. s[3] <= data_calls /\ \A q \in Places : (Data!At(q) = s[3] => q = s[2])
    BY <1>0, <1>10, <2>1 DEF DropsHere
  <2> QED
    BY <1>3, <2>2, <2>3
<1>11. DropsHere'
  BY <1>10 DEF DropsHere
<1> QED
  BY <1>5, <1>6, <1>9, <1>11 DEF Homes

\* A call brings a text of its own.
LEMMA HomesByCalls ==
  ASSUME CallsInTurn, DataKinds, CallsAreCounted, Homes, NEW t \in Threads, NEW op, NEW e, Begun(t, op, e)
  PROVE  Homes'
<1>0. OnePlace /\ AllLive /\ NewIsNew /\ DropsHere
  BY DEF Homes
<1>1. /\ data_calls \in Nat /\ data_calls' = data_calls + 1
      /\ UNCHANGED <<data_text, data_ring, data_user, data_live>>
      /\ Pending(t)' = Among(e)
      /\ \A s \in Among(e) : s[1] # "drop" /\ (Brings(s) = 0 \/ Brings(s) = data_calls + 1)
  BY AppCallsAssumption DEF Begun, CallsAreCounted
<1>2. \A u \in Threads : u # t => Pending(u)' = Pending(u)
  BY OthersStay DEF Begun
<1>3. \A p \in Places : Data!At(p)' = Data!At(p)
  BY <1>1 DEF Data!At
<1>4. \A p \in Places : Data!At(p) \in 0 .. data_calls
  <2> SUFFICES ASSUME NEW p \in Places PROVE Data!At(p) \in 0 .. data_calls
    OBVIOUS
  <2>1. Data!At(p) # 0 => Data!At(p) \in 1 .. data_calls
    BY <1>0 DEF AllLive
  <2>2. 1 .. data_calls \subseteq 0 .. data_calls /\ 0 \in 0 .. data_calls
    BY <1>1
  <2> QED
    BY <2>1, <2>2
<1>5. \A u \in Threads : \A s \in Pending(u) :
         (s[1] = "drop" => s[3] <= data_calls) /\ Brings(s) <= data_calls /\ Brings(s) \in Nat
  <2> SUFFICES ASSUME NEW u \in Threads, NEW s \in Pending(u)
               PROVE  (s[1] = "drop" => s[3] <= data_calls) /\ Brings(s) <= data_calls /\ Brings(s) \in Nat
    OBVIOUS
  <2>1. Brings(s) \in Nat
    BY PendingKinds
  <2>2. Brings(s) <= data_calls
    <3>1. CASE Brings(s) = 0
      BY <1>1, <3>1
    <3>2. CASE Brings(s) # 0
      <4>1. Unseen(Brings(s), u)
        BY <1>0, <3>2 DEF NewIsNew
      <4> QED
        BY <4>1 DEF Unseen
    <3> QED
      BY <3>1, <3>2
  <2>3. s[1] = "drop" => s[3] <= data_calls
    <3>1. CASE s[3] = 0
      BY <1>1, <3>1
    <3>2. CASE s[3] # 0
      BY <1>0, <3>2 DEF DropsHere
    <3> QED
      BY <3>1, <3>2
  <2> QED
    BY <2>1, <2>2, <2>3
<1>6. OnePlace'
  BY <1>0, <1>3 DEF OnePlace
<1>7. AllLive'
  <2>1. data_live' \subseteq 1 .. data_calls' /\ data_user' \in 0 .. data_calls'
    <3>1. 1 .. data_calls \subseteq 1 .. data_calls' /\ 0 .. data_calls \subseteq 0 .. data_calls'
      BY <1>1
    <3>2. data_live' = data_live /\ data_user' = data_user
      BY <1>1
    <3> QED
      BY <1>0, <3>1, <3>2 DEF AllLive
  <2> QED
    BY <1>0, <1>1, <1>3, <2>1 DEF AllLive
<1>8. ASSUME NEW u \in Threads, NEW s \in Pending(u)', Brings(s) # 0, NEW m, m = Brings(s)
      PROVE  Unseen(m, u)'
  <2>1. CASE u = t
    <3>1. m = data_calls + 1
      BY <1>1, <1>8, <2>1
    <3>2. m <= data_calls' /\ m # data_user' /\ \A p \in Places : Data!At(p)' # m
      BY <1>0, <1>1, <1>3, <1>4, <3>1 DEF AllLive
    <3>3. ASSUME NEW v \in Threads, NEW d \in Pending(v)'
          PROVE  (d[1] = "drop" => d[3] # m) /\ (v # u => Brings(d) # m)
      <4>1. CASE v = t
        BY <1>1, <2>1, <4>1
      <4>2. CASE v # t
        <5>1. d \in Pending(v)
          BY <1>2, <4>2
        <5>2. (d[1] = "drop" => d[3] <= data_calls) /\ Brings(d) <= data_calls
          BY <1>5, <5>1
        <5>3. ~(m <= data_calls)
          BY <1>1, <3>1
        <5> QED
          BY <5>2, <5>3
      <4> QED
        BY <4>1, <4>2
    <3> QED
      BY <3>2, <3>3 DEF Unseen
  <2>2. CASE u # t
    <3>1. s \in Pending(u) /\ m \in Nat /\ m <= data_calls
      BY <1>2, <1>5, <1>8, <2>2
    <3>2. Unseen(m, u)
      <4>1. Unseen(Brings(s), u)
        BY <1>0, <1>8, <3>1 DEF NewIsNew
      <4> QED
        BY <1>8, <4>1
    <3>3. m <= data_calls' /\ m # data_user' /\ \A p \in Places : Data!At(p)' # m
      <4>1. m <= data_calls'
        BY <1>1, <3>1
      <4> QED
        BY <1>1, <1>3, <3>2, <4>1 DEF Unseen
    <3>4. ASSUME NEW v \in Threads, NEW d \in Pending(v)'
          PROVE  (d[1] = "drop" => d[3] # m) /\ (v # u => Brings(d) # m)
      <4>1. CASE v = t
        <5>1. d[1] # "drop" /\ (Brings(d) = 0 \/ Brings(d) = data_calls + 1)
          BY <1>1, <4>1
        <5>2. m # data_calls + 1 /\ m # 0
          BY <1>1, <1>8, <3>1
        <5> QED
          BY <5>1, <5>2
      <4>2. CASE v # t
        BY <1>2, <3>2, <4>2 DEF Unseen
      <4> QED
        BY <4>1, <4>2
    <3> QED
      BY <3>3, <3>4 DEF Unseen
  <2> QED
    BY <2>1, <2>2
<1>9. NewIsNew'
  <2> SUFFICES ASSUME NEW u \in Threads, NEW s \in Pending(u)', Brings(s) # 0 PROVE Unseen(Brings(s), u)'
    BY DEF NewIsNew
  <2>1. PICK m : m = Brings(s)
    OBVIOUS
  <2>2. Unseen(m, u)'
    BY <1>8, <2>1
  <2> QED
    BY <2>1, <2>2
<1>10. ASSUME NEW u \in Threads, NEW s \in Pending(u)', s[1] = "drop", s[3] # 0
       PROVE  s[3] <= data_calls' /\ \A q \in Places : (Data!At(q)' = s[3] => q = s[2])
  <2>1. u # t
    BY <1>1, <1>10
  <2>2. s \in Pending(u)
    BY <1>2, <2>1
  <2>3. s[3] \in Nat /\ s[3] <= data_calls /\ \A q \in Places : (Data!At(q) = s[3] => q = s[2])
    BY <1>0, <1>10, <2>2, PendingKinds DEF DropsHere, OnPlace
  <2>4. s[3] <= data_calls'
    BY <1>1, <2>3
  <2> QED
    BY <1>3, <2>3, <2>4
<1>11. DropsHere'
  BY <1>10 DEF DropsHere
<1> QED
  BY <1>6, <1>7, <1>9, <1>11 DEF Homes

\* A step keeps each text where it is at home.
LEMMA HomesBySteps ==
  ASSUME CallsInTurn, DataKinds, CallsAreCounted, Homes, NEW t \in Threads, NEW op, NEW h, NEW r, NEW e,
         NEW n \in Nat, NEW x \in Nat, Moves(t, op, h, r, e, n, x)
  PROVE  Homes'
<1>0. Takes(t, op, h, r, e)
  BY MovesLock
<1>1. /\ Pending(t) = {h} \cup Among(r) /\ Pending(t)' = Among(e) /\ UNCHANGED data_calls /\ h \in Pending(t)
      /\ \A s \in Among(r) : Brings(h) = 0 \/ Brings(s) = 0
  BY <1>0 DEF Takes, Follows
<1>2. \A u \in Threads : u # t => Pending(u)' = Pending(u)
  BY <1>0, OthersStay DEF Takes
<1>3. LeavesLess(t)
  BY LessIsLeft
<1>4. AllLive
  BY DEF Homes
<1>5. CASE (\A p \in Places : Data!At(p)' = Data!At(p) \/ Data!At(p)' = 0) /\ UNCHANGED <<data_user, data_live>>
  BY <1>1, <1>2, <1>3, <1>4, <1>5, HomesShrink DEF AllLive
<1>6. CASE UNCHANGED <<data_text, data_ring, data_user, data_live>>
  BY <1>5, <1>6 DEF Data!At
<1>7. ASSUME NEW p \in Places, Drops(t, op, h, r, p, x) PROVE Homes'
  <2>1. /\ \A q \in Places : q # p => Data!At(q)' = Data!At(q)
        /\ Data!At(p)' = 0 /\ data_live' = data_live \ {x} /\ UNCHANGED data_user
        /\ h[1] = "drop" /\ h[2] = p /\ h[3] = x
    BY <1>7 DEF Drops
  <2>2. ASSUME NEW q \in Places, Data!At(q)' # 0 PROVE Data!At(q)' \in data_live'
    <3>1. q # p /\ Data!At(q)' = Data!At(q) /\ Data!At(q) # 0
      BY <2>1, <2>2
    <3>2. Data!At(q) # x
      <4>1. x = 0 \/ (Data!At(q) = x => q = p)
        BY <1>1, <2>1 DEF Homes, DropsHere
      <4> QED
        BY <3>1, <4>1
    <3> QED
      BY <1>4, <2>1, <3>1, <3>2 DEF AllLive
  <2>3. \A q \in Places : Data!At(q)' = Data!At(q) \/ Data!At(q)' = 0
    BY <2>1
  <2> QED
    BY <1>1, <1>2, <1>3, <2>1, <2>2, <2>3, HomesShrink
<1>8. ASSUME NEW p \in Places, Stores(t, op, h, r, p, n), e = r PROVE Homes'
  <2>1. /\ h = <<"store", p, n>> /\ (n = 0 => Data!At(p)' = Data!At(p)) /\ (n # 0 => Data!At(p)' = n)
        /\ \A q \in Places : q # p => Data!At(q)' = Data!At(q)
        /\ (n = 0 => UNCHANGED data_live) /\ (n # 0 => data_live' = data_live \cup {n}) /\ UNCHANGED data_user
    BY <1>8 DEF Stores
  <2>2. CASE n = 0
    BY <1>5, <2>1, <2>2
  <2>3. CASE n # 0
    <3>1. Brings(h) = n
      BY <2>1 DEF Brings
    <3>2. \A s \in Pending(t)' : s \in Pending(t) /\ Brings(s) = 0
      BY <1>1, <1>8, <2>3, <3>1
    <3> QED
      BY <1>1, <1>2, <2>1, <2>3, <3>1, <3>2, HomesFilled
  <2> QED
    BY <2>2, <2>3
<1>9. CASE Users(t, op, h, r) /\ e = r
  <2>1. \A p \in Places : Data!At(p)' = Data!At(p)
    BY <1>9 DEF Users, Data!At
  <2>2. CASE data_live' = data_live \ {data_user} /\ UNCHANGED data_user
    <3>1. \A p \in Places : Data!At(p)' # 0 => Data!At(p)' \in data_live'
      BY <1>4, <2>1, <2>2 DEF AllLive
    <3> QED
      BY <1>1, <1>2, <1>3, <2>1, <2>2, <3>1, HomesShrink
  <2>3. CASE h[1] = "storeUser" /\ data_user' = h[2] /\ data_live' = data_live \cup {h[2]} /\ h[2] \in Nat \ {0}
    <3>1. PICK m \in Nat : m # 0 /\ m = h[2] /\ Brings(h) = m
      BY <2>3 DEF Brings
    <3>2. \A s \in Pending(t)' : s \in Pending(t) /\ Brings(s) = 0
      BY <1>1, <1>9, <3>1
    <3> QED
      BY <1>1, <1>2, <2>1, <2>3, <3>1, <3>2, HomesFilled
  <2> QED
    BY <1>9, <2>2, <2>3 DEF Users
<1>10. CASE Arrays(t, op, h, r)
  <2>1. \A p \in Places : Data!At(p)' = Data!At(p) \/ Data!At(p)' = 0
    <3>1. CASE UNCHANGED data_ring
      BY <1>10, <3>1 DEF Arrays, Data!At
    <3>2. CASE data_ring' = [i \in 0 .. MaxCrumbs - 1 |-> 0]
      <4>1. ASSUME NEW p \in FieldPlaces PROVE Data!At(p)' = Data!At(p)
        <5>1. p.of # "ring"
          BY AtPlaces
        <5> QED
          BY <1>10, <5>1 DEF Arrays, Data!At
      <4>2. ASSUME NEW p \in RingPlaces PROVE Data!At(p)' = 0
        <5>1. p.of = "ring" /\ p.at \in 0 .. MaxCrumbs - 1
          BY AtPlaces
        <5> QED
          BY <3>2, <5>1 DEF Data!At
      <4> QED
        BY <4>1, <4>2 DEF Places
    <3> QED
      BY <1>10, <3>1, <3>2 DEF Arrays
  <2> QED
    BY <1>5, <1>10, <2>1 DEF Arrays
<1>11. CASE \E p \in Places : Loads(t, op, h, r, e, p, n, x)
  BY <1>6, <1>11 DEF Loads, Untouched
<1>12. CASE Crumbs(t, op, h, r, e, n) \/ Clears(t, op, h, r, e) \/ Rules(t, op, h, r) \/ Unlocks(t, op, h, r)
  BY <1>6, <1>12 DEF Crumbs, Clears, Rules, Unlocks, Untouched
<1>13. CASE Advances(t, op, h, r) \/ Rewinds(t, op, h, r)
  BY <1>6, <1>13 DEF Advances, Rewinds
<1> QED
  BY <1>7, <1>8, <1>9, <1>10, <1>11, <1>12, <1>13 DEF Moves

-----------------------------------------------------------------------------
(* What the locks are for. *)

\* Unless locks are not taken, what is to be freed is still where it was read from.
InPlace == \A t \in Threads : \A s \in Pending(t) :
    s[1] = "drop" /\ s[2].of # "user" => Data!At(s[2]) = s[3]
UnderLock == ~Did("clear") /\ ~Did("removeContext") => data_twice \subseteq Data!Unlocked /\ InPlace

\* Two calls that work on a place hold its lock.
LEMMA OneWorks ==
  ASSUME Kept, ~Did("clear"), ~Did("removeContext"), NEW p \in Places, p.of # "user",
         NEW t \in Threads, NEW u \in Threads, Op(t) \in CallsOn(p), Op(u) \in CallsOn(p)
  PROVE  t = u
<1>1. ASSUME NEW v \in Threads, Op(v) \in CallsOn(p)
      PROVE  Op(v) # "clear" /\ Op(v) # "removeContext"
  <2>1. Op(v) # "idle" => Did(Op(v))
    BY DEF Kept, Recorded
  <2>2. Op(v) = "clear" => Did("clear")
    BY <2>1
  <2>3. Op(v) = "removeContext" => Did("removeContext")
    BY <2>1
  <2> QED
    BY <2>2, <2>3
<1>2. CASE p \in RingPlaces
  <2>1. \A v \in Threads : Op(v) \in CallsOn(p) => Op(v) \in {"crumb", "clearCrumbs"}
    BY <1>1, <1>2 DEF CallsOn
  <2>2. LockOf(Op(t)) = "crumbs" /\ LockOf(Op(u)) = "crumbs"
    BY <2>1, LocksAre
  <2> QED
    BY <2>2 DEF Kept, Held
<1>3. CASE p \in FieldPlaces
  <2>1. p.of \in Data!Locked /\ p \notin RingPlaces
    BY <1>3, AtPlaces DEF Data!Fields, Data!Unlocked
  <2>2. \A v \in Threads : Op(v) \in CallsOn(p) => Op(v) = p.of
    BY <1>1, <2>1 DEF CallsOn
  <2>3. Op(t) = p.of /\ Op(u) = p.of
    BY <2>2
  <2>4. LockOf(p.of) = p.of /\ p.of # "none"
    BY <2>1, LocksAre
  <2>5. data_lock[p.of] = t /\ data_lock[p.of] = u
    BY <2>3, <2>4 DEF Kept, Held
  <2> QED
    BY <2>5
<1> QED
  BY <1>2, <1>3 DEF Places

\* A call that begins has nothing to free yet.
LEMMA UnderLockByCalls ==
  ASSUME CallsAreCounted, UnderLock, NEW t \in Threads, NEW op, NEW e, Begun(t, op, e)
  PROVE  UnderLock'
<1>1. /\ UNCHANGED <<data_text, data_ring, data_twice>> /\ Pending(t)' = Among(e)
      /\ \A s \in Among(e) : s[1] # "drop"
  BY DEF Begun
<1>2. \A u \in Threads : u # t => Pending(u)' = Pending(u)
  BY OthersStay DEF Begun
<1>3. \A k : Did(k) => Did(k)'
  BY OneMoreCall
<1>4. InPlace => InPlace'
  BY <1>1, <1>2 DEF InPlace, Data!At
<1> QED
  BY <1>1, <1>3, <1>4 DEF UnderLock

\* Nobody else works on a place between what is read of it and what is freed.
LEMMA UnderLockBySteps ==
  ASSUME CallsInTurn, DataKinds, Homes, Kept, UnderLock, NEW t \in Threads, NEW op, NEW h, NEW r, NEW e,
         NEW n \in Nat, NEW x \in Nat, Moves(t, op, h, r, e, n, x)
  PROVE  UnderLock'
<1>0. Takes(t, op, h, r, e)
  BY MovesLock
<1>1. /\ Pending(t) = {h} \cup Among(r) /\ Pending(t)' = Among(e) /\ h \in Pending(t) /\ op = Op(t)
      /\ \A s \in Among(r) : s[1] # "drop"
  BY <1>0 DEF Takes, Follows
<1>2. \A u \in Threads : u # t => Pending(u)' = Pending(u)
  BY <1>0, OthersStay DEF Takes
<1>3. \A k : Did(k)' <=> Did(k)
  BY <1>0, NoOtherCall
<1> SUFFICES ASSUME ~Did("clear"), ~Did("removeContext") PROVE data_twice' \subseteq Data!Unlocked /\ InPlace'
  BY <1>3 DEF UnderLock
<1>4. data_twice \subseteq Data!Unlocked /\ InPlace
  BY DEF UnderLock
<1>5. CASE (\A s \in Pending(t)' : s[1] = "drop" => Data!At(s[2])' = s[3]) /\ UNCHANGED data_twice
           /\ (\A p \in Places : Data!At(p)' = Data!At(p))
  <2> SUFFICES ASSUME NEW u \in Threads, NEW s \in Pending(u)', s[1] = "drop", s[2].of # "user"
               PROVE  Data!At(s[2])' = s[3]
    BY <1>4, <1>5 DEF InPlace
  <2>1. CASE u = t
    BY <1>5, <2>1
  <2>2. CASE u # t
    <3>1. s \in Pending(u)
      BY <1>2, <2>2
    <3>2. s[2] \in Places
      BY <3>1, PendingKinds DEF OnPlace
    <3> QED
      BY <1>4, <1>5, <3>1, <3>2 DEF InPlace
  <2> QED
    BY <2>1, <2>2
<1>6. CASE e = r /\ UNCHANGED <<data_text, data_ring, data_twice>>
  BY <1>1, <1>5, <1>6 DEF Data!At
<1>7. ASSUME NEW p \in Places, e = r, op \in CallsOn(p), \A q \in Places : q # p => Data!At(q)' = Data!At(q)
      PROVE  InPlace'
  <2> SUFFICES ASSUME NEW u \in Threads, NEW s \in Pending(u)', s[1] = "drop", s[2].of # "user"
               PROVE  Data!At(s[2])' = s[3]
    BY DEF InPlace
  <2>1. u # t /\ s \in Pending(u)
    BY <1>1, <1>2, <1>7
  <2>2. s[2] \in Places /\ s \in StepsOf(Op(u)) /\ Op(u) \in CallKinds
    BY <2>1, PendingKinds DEF OnPlace
  <2>3. Op(u) \in CallsOn(s[2])
    BY <2>2, StepKinds DEF OnPlace
  <2>4. s[2] # p
    BY <1>1, <1>7, <2>1, <2>2, <2>3, OneWorks
  <2>5. Data!At(s[2])' = Data!At(s[2])
    BY <1>7, <2>2, <2>4
  <2> QED
    BY <1>4, <2>1, <2>5 DEF InPlace
<1>8. ASSUME NEW p \in Places, Loads(t, op, h, r, e, p, n, x) PROVE data_twice' \subseteq Data!Unlocked /\ InPlace'
  <2>1. UNCHANGED <<data_text, data_ring, data_twice>>
    BY <1>8 DEF Loads, Untouched
  <2>2. \A q \in Places : Data!At(q)' = Data!At(q)
    BY <2>1 DEF Data!At
  <2>3. PICK d : d = <<"drop", p, x>>
    OBVIOUS
  <2>4. PICK c : c = <<"store", p, n>>
    OBVIOUS
  <2>5. Among(e) = {d, c} \cup Among(r) /\ x = Data!At(p)
    BY <1>8, <2>3, <2>4 DEF Loads
  <2>6. d[2] = p /\ d[3] = x /\ c[1] # "drop"
    BY <2>3, <2>4
  <2>7. \A s \in Pending(t)' : s[1] = "drop" => s = d
    BY <1>1, <2>5, <2>6
  <2>8. Data!At(d[2])' = d[3]
    BY <2>2, <2>5, <2>6
  <2>9. \A s \in Pending(t)' : s[1] = "drop" => Data!At(s[2])' = s[3]
    BY <2>7, <2>8
  <2> QED
    BY <1>5, <2>1, <2>2, <2>9
<1>9. ASSUME NEW p \in Places, e = r, Drops(t, op, h, r, p, x) PROVE data_twice' \subseteq Data!Unlocked /\ InPlace'
  <2>1. InPlace'
    BY <1>7, <1>9 DEF Drops
  <2>2. /\ h[1] = "drop" /\ h[2] = p /\ h[3] = x
        /\ data_twice' = IF x # 0 /\ x \notin data_live THEN data_twice \cup {p.of} ELSE data_twice
    BY <1>9 DEF Drops
  <2>3. p.of # "user" => Data!At(p) = x
    BY <1>1, <1>4, <2>2 DEF InPlace
  <2>4. x # 0 /\ x \notin data_live => p.of = "user"
    BY <2>3 DEF Homes, AllLive
  <2> QED
    BY <1>4, <2>1, <2>2, <2>4 DEF Data!Unlocked
<1>10. ASSUME NEW p \in Places, e = r, Stores(t, op, h, r, p, n) PROVE data_twice' \subseteq Data!Unlocked /\ InPlace'
  <2>1. InPlace'
    BY <1>7, <1>10 DEF Stores
  <2> QED
    BY <1>4, <1>10, <2>1 DEF Stores
<1>11. CASE Arrays(t, op, h, r) /\ e = r
  <2>1. UNCHANGED data_twice /\ op = "configure"
    BY <1>11 DEF Arrays
  <2>2. \A u \in Threads : u # t => Op(u) = "idle"
    BY <1>1, <2>1 DEF Kept, StartsAlone
  <2>3. \A u \in Threads : u # t => Pending(u) = {}
    <3> SUFFICES ASSUME NEW u \in Threads, u # t, NEW s \in Pending(u) PROVE FALSE
      OBVIOUS
    <3> QED
      BY <2>2, PendingKinds
  <2>4. \A u \in Threads : \A s \in Pending(u)' : s[1] # "drop"
    BY <1>1, <1>2, <1>11, <2>3
  <2> QED
    BY <1>4, <2>1, <2>4 DEF InPlace
<1>12. CASE Crumbs(t, op, h, r, e, n) \/ Clears(t, op, h, r, e)
  <2>1. UNCHANGED <<data_text, data_ring, data_twice>>
    BY <1>12 DEF Crumbs, Clears, Untouched
  <2>2. \A s \in Among(e) : s[1] # "drop"
    <3>1. CASE Crumbs(t, op, h, r, e, n)
      <4>1. e = r \/ Among(e) = {<<"load", Data!Slot(data_current), n>>, <<"advance">>} \cup Among(r)
        BY <3>1 DEF Crumbs
      <4> QED
        BY <1>1, <4>1
    <3>2. CASE Clears(t, op, h, r, e)
      <4>1. e = r \/ Among(e) = ({EmptyingOf(p) : p \in RingPlaces} \cup {<<"rewind">>}) \cup Among(r)
        BY <3>2 DEF Clears
      <4> QED
        BY <1>1, <4>1 DEF EmptyingOf
    <3> QED
      BY <1>12, <3>1, <3>2
  <2> QED
    BY <1>1, <1>5, <2>1, <2>2 DEF Data!At
<1>13. CASE e = r /\ (Advances(t, op, h, r) \/ Rewinds(t, op, h, r) \/ Users(t, op, h, r)
                      \/ Rules(t, op, h, r) \/ Unlocks(t, op, h, r))
  BY <1>6, <1>13 DEF Advances, Rewinds, Users, Rules, Unlocks, Untouched
<1> QED
  BY <1>8, <1>9, <1>10, <1>11, <1>12, <1>13 DEF Moves

\* Times counts the calls that were made.
LEMMA NoneWasMade ==
  ASSUME CallsAreCounted, NEW k
  PROVE  Data!Times(k) \in Nat /\ (Data!Times(k) = 0 <=> ~Did(k))
<1> DEFINE S == {i \in 1 .. data_calls : data_history[i].op = k}
<1>1. IsFiniteSet(S) /\ Cardinality(S) \in Nat
  <2>1. data_calls \in Nat /\ 1 \in Nat
    BY AppCallsAssumption DEF CallsAreCounted
  <2>2. IsFiniteSet(1 .. data_calls)
    BY <2>1, FS_Interval
  <2>3. IsFiniteSet(S)
    BY <2>2, FS_Subset
  <2> QED
    BY <2>3, FS_CardinalityType
<1>2. Cardinality(S) = 0 <=> S = {}
  BY <1>1, FS_EmptySet
<1>3. Data!Times(k) = Cardinality(S)
  BY SameCounting DEF Data!Times
<1> QED
  BY <1>1, <1>2, <1>3 DEF Did

-----------------------------------------------------------------------------
(* The copies of the fields. *)

\* A step that brings what is to be at a place.
Sets(s, p) == s[1] \in {"load", "store"} /\ s[2] = p
Comes(p)   == \E t \in Threads : \E s \in Pending(t) : Sets(s, p)
\* Nothing but x is brought to a place, which is empty before.
Settles(p, x) ==
    /\ \A t \in Threads : \A s \in Pending(t) : Sets(s, p) => s[3] = x
    /\ \A t \in Threads : Todo(t) # <<>> /\ Head(Todo(t))[1] = "store" /\ Head(Todo(t))[2] = p => Data!At(p) = 0
\* One call is made at a time.
AtMostOne == \A t, u \in Threads : Op(t) # "idle" /\ Op(u) # "idle" => t = u

\* A step that leaves alone what is brought to a place.
LEMMA PlaceLeft ==
  ASSUME NEW t \in Threads, NEW op, NEW e, GoesOn(t, op, e), Pending(t)' = Among(e),
         e # <<>> => Head(e)[1] # "store", NEW p, Data!At(p)' = Data!At(p),
         \A s \in Among(e) : Sets(s, p) => s \in Pending(t),
         \A s \in Pending(t) : Sets(s, p) => s \in Among(e)
  PROVE  /\ \A x : Settles(p, x) => Settles(p, x)'
         /\ Comes(p)' <=> Comes(p)
<1>1. /\ Todo(t)' = e
      /\ \A u \in Threads : u # t => Todo(u)' = Todo(u) /\ Pending(u)' = Pending(u)
  BY OthersStay
<1>2. ASSUME NEW x, Settles(p, x) PROVE Settles(p, x)'
  <2>1. ASSUME NEW u \in Threads, NEW s \in Pending(u)', Sets(s, p) PROVE s[3] = x
    <3>1. s \in Pending(u)
      BY <1>1, <2>1
    <3> QED
      BY <1>2, <2>1, <3>1 DEF Settles
  <2>2. ASSUME NEW u \in Threads, Todo(u)' # <<>>, Head(Todo(u)')[1] = "store", Head(Todo(u)')[2] = p
        PROVE  Data!At(p)' = 0
    <3>1. u # t
      BY <1>1, <2>2
    <3>2. Todo(u)' = Todo(u)
      BY <1>1, <3>1
    <3> QED
      BY <1>2, <2>2, <3>2 DEF Settles
  <2> QED
    BY <2>1, <2>2 DEF Settles
<1>3. Comes(p)' <=> Comes(p)
  <2>1. ASSUME NEW u \in Threads, NEW s, Sets(s, p) PROVE s \in Pending(u)' <=> s \in Pending(u)
    BY <1>1, <2>1
  <2> QED
    BY <2>1 DEF Comes
<1> QED
  BY <1>2, <1>3

\* Work on a place brings to it what is to be there.
LEMMA PlaceWorked ==
  ASSUME CallsInTurn, AtMostOne, NEW t \in Threads, NEW op, NEW h, NEW r, NEW e, NEW n \in Nat, NEW x \in Nat,
         NEW q \in Places,
         Loads(t, op, h, r, e, q, n, x) \/ (e = r /\ (Drops(t, op, h, r, q, x) \/ Stores(t, op, h, r, q, n))),
         NEW p \in Places, NEW y, Settles(p, y)
  PROVE  Settles(p, y)' /\ (Comes(p) \/ Data!At(p) = y => Comes(p)' \/ Data!At(p)' = y)
<1>0. Takes(t, op, h, r, e)
  BY DEF Loads, Drops, Stores
<1>1. /\ Pending(t) = {h} \cup Among(r) /\ Pending(t)' = Among(e) /\ h \in Pending(t) /\ Follows(h, r)
      /\ GoesOn(t, op, e) /\ Todo(t) # <<>> /\ h = Head(Todo(t)) /\ op = Op(t) /\ op # "idle" /\ Todo(t)' = e
      /\ \A u \in Threads : u # t => Todo(u)' = Todo(u) /\ Pending(u)' = Pending(u)
  BY <1>0, OthersStay DEF Takes
<1>2. \A u \in Threads : u # t => Todo(u) = <<>> /\ Pending(u) = {}
  <2> SUFFICES ASSUME NEW u \in Threads, u # t PROVE Todo(u) = <<>> /\ Pending(u) = {}
    OBVIOUS
  <2>1. Op(u) = "idle"
    BY <1>1 DEF AtMostOne
  <2>2. Todo(u) = <<>>
    BY <2>1 DEF CallsInTurn
  <2> QED
    BY <2>2 DEF Pending, Among
<1>3. \A s \in Pending(t) : Sets(s, p) => s[3] = y
  BY DEF Settles
<1>4. ASSUME \A s \in Among(e) : Sets(s, p) => s[3] = y,
             e # <<>> => (Head(e)[1] = "store" /\ Head(e)[2] = p => Data!At(p)' = 0)
      PROVE  Settles(p, y)'
  <2>1. \A u \in Threads : \A s \in Pending(u)' : Sets(s, p) => s[3] = y
    BY <1>1, <1>2, <1>4
  <2>2. \A u \in Threads : Todo(u)' # <<>> /\ Head(Todo(u)')[1] = "store" /\ Head(Todo(u)')[2] = p => Data!At(p)' = 0
    BY <1>1, <1>2, <1>4
  <2> QED
    BY <2>1, <2>2 DEF Settles
<1>5. Comes(p)' <=> \E s \in Among(e) : Sets(s, p)
  BY <1>1, <1>2 DEF Comes
<1>6. Comes(p) <=> \E s \in {h} \cup Among(r) : Sets(s, p)
  BY <1>1, <1>2 DEF Comes
<1>7. CASE Loads(t, op, h, r, e, q, n, x)
  <2>1. PICK d : d = <<"drop", q, x>>
    OBVIOUS
  <2>2. PICK c : c = <<"store", q, n>>
    OBVIOUS
  <2>3. Among(e) = {d, c} \cup Among(r) /\ h = <<"load", q, n>> /\ Head(e)[1] = "drop"
        /\ UNCHANGED <<data_text, data_ring>>
    BY <1>7, <2>1, <2>2 DEF Loads, Untouched
  <2>4. ~Sets(d, p) /\ (Sets(c, p) <=> q = p) /\ (Sets(h, p) <=> q = p) /\ c[3] = n /\ h[3] = n
    BY <2>1, <2>2, <2>3 DEF Sets
  <2>5. Data!At(p)' = Data!At(p)
    BY <2>3 DEF Data!At
  <2>6. Settles(p, y)'
    BY <1>1, <1>3, <1>4, <2>3, <2>4
  <2>7. Comes(p) => Comes(p)'
    BY <1>5, <1>6, <2>3, <2>4
  <2> QED
    BY <2>5, <2>6, <2>7
<1>8. CASE e = r /\ Drops(t, op, h, r, q, x)
  <2>1. h[1] = "drop" /\ h[2] = q /\ ~Sets(h, p)
    BY <1>8 DEF Drops, Sets
  <2>2. r # <<>> /\ Head(r)[1] = "store" /\ Head(r)[2] = q /\ Head(r) \in Among(r)
    BY <1>1, <2>1 DEF Follows
  <2>3. Data!At(q)' = 0 /\ (p # q => Data!At(p)' = Data!At(p))
    BY <1>8 DEF Drops
  <2>4. Settles(p, y)'
    BY <1>1, <1>3, <1>4, <1>8, <2>2, <2>3
  <2>5. Comes(p) => Comes(p)'
    BY <1>5, <1>6, <1>8, <2>1
  <2>6. p = q => Comes(p)'
    BY <1>5, <1>8, <2>2 DEF Sets
  <2> QED
    BY <2>3, <2>4, <2>5, <2>6
<1>9. CASE e = r /\ Stores(t, op, h, r, q, n)
  <2>1. h[1] = "store" /\ h[2] = q /\ h[3] = n /\ (Sets(h, p) <=> q = p)
    BY <1>9 DEF Stores, Sets
  <2>2. /\ (n = 0 => Data!At(q)' = Data!At(q)) /\ (n # 0 => Data!At(q)' = n)
        /\ (p # q => Data!At(p)' = Data!At(p))
    BY <1>9 DEF Stores
  <2>3. e # <<>> => Head(e)[1] # "store"
    BY <1>1, <1>9, <2>1 DEF Follows
  <2>4. Settles(p, y)'
    BY <1>1, <1>3, <1>4, <1>9, <2>3
  <2>5. p # q => (Comes(p) => Comes(p)')
    BY <1>5, <1>6, <1>9, <2>1
  <2>6. p = q => Data!At(p)' = y
    <3> SUFFICES ASSUME p = q PROVE Data!At(p)' = y
      OBVIOUS
    <3>1. n = y
      BY <1>1, <1>3, <2>1
    <3>2. Data!At(p) = 0
      BY <1>1, <2>1 DEF Settles
    <3> QED
      BY <2>2, <3>1, <3>2
  <2> QED
    BY <2>2, <2>4, <2>5, <2>6
<1> QED
  BY <1>7, <1>8, <1>9

\* The copy of a field is what the scope has, once what is brought to it is there.
FieldsSettle == \A f \in Data!Fields :
    /\ Settles(Data!Field(f), data_scope[f])
    /\ Comes(Data!Field(f)) \/ Data!At(Data!Field(f)) = data_scope[f]

\* While nothing is done.
AllIdle == \A u \in Threads : Op(u) = "idle" /\ Todo(u) = <<>> /\ Pending(u) = {}

\* A step that works on no place.
LEMMA NoWork ==
  ASSUME NEW t \in Threads, NEW op, NEW h, NEW r, Takes(t, op, h, r, r), h[1] \notin OnPlace,
         NEW p, Data!At(p)' = Data!At(p)
  PROVE  /\ \A x : Settles(p, x) => Settles(p, x)'
         /\ Comes(p)' <=> Comes(p)
<1>1. /\ Pending(t) = {h} \cup Among(r) /\ Pending(t)' = Among(r) /\ GoesOn(t, op, r)
      /\ r # <<>> => Head(r)[1] # "store"
  BY DEF Takes, Follows, OnPlace
<1>2. ~Sets(h, p)
  BY DEF Sets, OnPlace
<1>3. /\ \A s \in Among(r) : Sets(s, p) => s \in Pending(t)
      /\ \A s \in Pending(t) : Sets(s, p) => s \in Among(r)
  BY <1>1, <1>2
<1> QED
  BY <1>1, <1>3, PlaceLeft

\* A call that begins while nothing is done brings to a place what its steps do.
LEMMA PlaceBegun ==
  ASSUME AllIdle, NEW t \in Threads, NEW op, NEW e, Begun(t, op, e), NEW p, NEW x,
         \A s \in Among(e) : Sets(s, p) => s[3] = x
  PROVE  /\ Settles(p, x)' /\ ((\E s \in Among(e) : Sets(s, p)) => Comes(p)')
         /\ Data!At(p)' = Data!At(p)
         /\ \A u \in Threads : u # t => Pending(u)' = {} /\ Op(u)' = "idle" /\ Todo(u)' = <<>>
<1>1. /\ Pending(t)' = Among(e) /\ Todo(t)' = e /\ Head(e)[1] # "store" /\ UNCHANGED <<data_text, data_ring>>
      /\ \A u \in Threads : u # t => Todo(u)' = Todo(u) /\ Pending(u)' = Pending(u) /\ Op(u)' = Op(u)
  BY OthersStay DEF Begun
<1>2. \A u \in Threads : u # t => Pending(u)' = {} /\ Op(u)' = "idle" /\ Todo(u)' = <<>>
  BY <1>1 DEF AllIdle
<1>3. \A u \in Threads : \A s \in Pending(u)' : Sets(s, p) => s[3] = x
  BY <1>1, <1>2
<1>4. \A u \in Threads : Todo(u)' # <<>> => Head(Todo(u)')[1] # "store"
  BY <1>1, <1>2
<1>5. Settles(p, x)'
  BY <1>3, <1>4 DEF Settles
<1>6. (\E s \in Among(e) : Sets(s, p)) => Comes(p)'
  BY <1>1 DEF Comes
<1> QED
  BY <1>1, <1>2, <1>5, <1>6 DEF Data!At

\* A call that begins while nothing is done brings to each field what the scope has.
LEMMA FieldsByCalls ==
  ASSUME DataKinds, AllIdle, FieldsSettle, NEW t \in Threads, NEW op, NEW e, Begun(t, op, e), BeginsAs(op, e),
         op # "removeContext"
  PROVE  FieldsSettle'
<1> SUFFICES ASSUME NEW f \in Data!Fields
             PROVE  /\ Settles(Data!Field(f), data_scope[f])'
                    /\ Comes(Data!Field(f))' \/ Data!At(Data!Field(f))' = data_scope'[f]
  BY DEF FieldsSettle
<1>1. PICK p : p = Data!Field(f)
  OBVIOUS
<1>2. PICK x : x = data_scope'[f]
  OBVIOUS
<1>3. Data!At(p) = data_scope[f]
  <2>1. ~Comes(p)
    BY DEF AllIdle, Comes
  <2> QED
    BY <1>1, <2>1 DEF FieldsSettle
<1>4. data_scope \in [Data!Fields -> Nat]
  BY DEF DataKinds
<1>5. p \in FieldPlaces
  BY <1>1, AtPlaces
<1>6. (\A s \in Among(e) : Sets(s, p) => s[3] = x) /\ ((\E s \in Among(e) : Sets(s, p)) \/ x = data_scope[f])
  <2>1. CASE op \in Data!Fields
    <3>1. PICK n \in Nat : /\ data_scope' = [data_scope EXCEPT ![op] = n]
                           /\ <<"load", Data!Field(op), n>> \in Among(e)
                           /\ \A s \in Among(e) : s = <<"load", Data!Field(op), n>> \/ s[1] = "unlock"
      BY <2>1 DEF BeginsAs, Data!Fields, Data!Locked, Data!Unlocked
    <3>2. PICK c : c = <<"load", Data!Field(op), n>>
      OBVIOUS
    <3>3. /\ c \in Among(e) /\ \A s \in Among(e) : s = c \/ s[1] = "unlock"
          /\ c[1] = "load" /\ c[2] = Data!Field(op) /\ c[3] = n
      BY <3>1, <3>2
    <3>4. CASE f = op
      <4>1. x = n
        BY <1>2, <1>4, <3>1, <3>4
      <4> QED
        BY <1>1, <3>3, <3>4, <4>1 DEF Sets
    <3>5. CASE f # op
      <4>1. x = data_scope[f]
        BY <1>2, <1>4, <3>1, <3>5
      <4>2. Data!Field(f) # Data!Field(op)
        BY <3>5 DEF Data!Field
      <4> QED
        BY <1>1, <3>3, <4>1, <4>2 DEF Sets
    <3> QED
      BY <3>4, <3>5
  <2>2. CASE op = "clear"
    <3>1. /\ data_scope' = [g \in Data!Fields |-> 0]
          /\ Among(e) = {EmptyingOf(q) : q \in FieldPlaces} \cup {<<"crumbs?", Data!ClearSlots>>}
      BY <2>2 DEF BeginsAs, Data!Fields, Data!Locked, Data!Unlocked
    <3>2. x = 0
      BY <1>2, <3>1
    <3>3. EmptyingOf(p) \in Among(e) /\ Sets(EmptyingOf(p), p)
      BY <1>5, <3>1 DEF Sets, EmptyingOf
    <3>4. \A s \in Among(e) : Sets(s, p) => s[3] = 0
      BY <3>1 DEF Sets, EmptyingOf
    <3> QED
      BY <3>2, <3>3, <3>4
  <2>3. CASE op \in {"crumb", "clearCrumbs", "configure", "userInfo", "classes"}
    <3>1. UNCHANGED data_scope /\ \A s \in Among(e) : s[1] \notin {"load", "store"}
      BY <2>3 DEF BeginsAs, Begun, Data!Fields, Data!Locked, Data!Unlocked
    <3> QED
      BY <1>2, <3>1 DEF Sets
  <2> QED
    BY <2>1, <2>2, <2>3 DEF BeginsAs
<1>7. Settles(p, x)' /\ (Comes(p)' \/ Data!At(p)' = x)
  <2>1. \A s \in Among(e) : Sets(s, p) => s[3] = x
    BY <1>6
  <2>2. Settles(p, x)' /\ ((\E s \in Among(e) : Sets(s, p)) => Comes(p)') /\ Data!At(p)' = Data!At(p)
    BY <2>1, PlaceBegun
  <2> QED
    BY <1>3, <1>6, <2>2
<1> QED
  BY <1>1, <1>2, <1>7

\* A step brings it there.
LEMMA FieldsBySteps ==
  ASSUME CallsInTurn, DataKinds, AtMostOne, FieldsSettle, NEW t \in Threads, NEW op, NEW h, NEW r, NEW e,
         NEW n \in Nat, NEW x \in Nat, Moves(t, op, h, r, e, n, x)
  PROVE  FieldsSettle'
<1>0. Takes(t, op, h, r, e)
  BY MovesLock
<1>1. /\ Pending(t) = {h} \cup Among(r) /\ Pending(t)' = Among(e) /\ GoesOn(t, op, e) /\ UNCHANGED data_scope
      /\ Follows(h, r)
  BY <1>0 DEF Takes
<1> SUFFICES ASSUME NEW f \in Data!Fields
             PROVE  /\ Settles(Data!Field(f), data_scope[f])'
                    /\ Comes(Data!Field(f))' \/ Data!At(Data!Field(f))' = data_scope'[f]
  BY DEF FieldsSettle
<1>2. PICK p : p = Data!Field(f)
  OBVIOUS
<1>3. PICK y : y = data_scope[f]
  OBVIOUS
<1>4. Settles(p, y) /\ (Comes(p) \/ Data!At(p) = y)
  BY <1>2, <1>3 DEF FieldsSettle
<1>5. p \in FieldPlaces /\ p \in Places /\ p \notin RingPlaces /\ p.of # "ring"
  BY <1>2, AtPlaces DEF Places
<1>6. UNCHANGED data_text => Data!At(p)' = Data!At(p)
  BY <1>5 DEF Data!At
<1>7. CASE \E q \in Places : \/ Loads(t, op, h, r, e, q, n, x)
                             \/ e = r /\ (Drops(t, op, h, r, q, x) \/ Stores(t, op, h, r, q, n))
  <2>1. Settles(p, y)' /\ (Comes(p) \/ Data!At(p) = y => Comes(p)' \/ Data!At(p)' = y)
    BY <1>4, <1>5, <1>7, PlaceWorked
  <2> QED
    BY <1>1, <1>2, <1>3, <1>4, <2>1
<1>8. CASE e = r /\ h[1] \notin OnPlace /\ UNCHANGED data_text
  BY <1>0, <1>1, <1>2, <1>3, <1>4, <1>6, <1>8, NoWork
<1>9. CASE UNCHANGED data_text /\ (e # <<>> => Head(e)[1] # "store") /\ h[1] \notin OnPlace
           /\ \E a : Among(e) = a \cup Among(r) /\ \A s \in a : ~Sets(s, p)
  <2>1. ~Sets(h, p)
    BY <1>9 DEF Sets, OnPlace
  <2>2. /\ \A s \in Among(e) : Sets(s, p) => s \in Pending(t)
        /\ \A s \in Pending(t) : Sets(s, p) => s \in Among(e)
    BY <1>1, <1>9, <2>1
  <2> QED
    BY <1>1, <1>2, <1>3, <1>4, <1>6, <1>9, <2>2, PlaceLeft
<1>10. CASE Crumbs(t, op, h, r, e, n)
  <2>1. UNCHANGED data_text /\ h[1] \notin OnPlace
    BY <1>10 DEF Crumbs, Untouched, OnPlace
  <2>2. CASE data_array = "null"
    BY <1>8, <1>10, <2>1, <2>2 DEF Crumbs
  <2>3. CASE data_array # "null"
    <3>1. PICK a : a = {<<"load", Data!Slot(data_current), n>>, <<"advance">>}
      OBVIOUS
    <3>2. Among(e) = a \cup Among(r) /\ Head(e)[1] # "store"
      BY <1>10, <2>3, <3>1 DEF Crumbs
    <3>3. Data!Slot(data_current) # p
      BY <1>5, AtPlaces DEF DataKinds
    <3>4. \A s \in a : ~Sets(s, p)
      BY <3>1, <3>3 DEF Sets
    <3> QED
      BY <1>9, <2>1, <3>2, <3>4
  <2> QED
    BY <2>2, <2>3
<1>11. CASE Clears(t, op, h, r, e)
  <2>1. UNCHANGED data_text /\ h[1] \notin OnPlace
    BY <1>11 DEF Clears, Untouched, OnPlace
  <2>2. CASE data_array = "null"
    BY <1>8, <1>11, <2>1, <2>2 DEF Clears
  <2>3. CASE data_array # "null"
    <3>1. PICK a : a = {EmptyingOf(q) : q \in RingPlaces} \cup {<<"rewind">>}
      OBVIOUS
    <3>2. Among(e) = a \cup Among(r) /\ Head(e)[1] # "store"
      BY <1>11, <2>3, <3>1 DEF Clears
    <3>4. \A s \in a : ~Sets(s, p)
      BY <1>5, <3>1 DEF Sets, EmptyingOf
    <3> QED
      BY <1>9, <2>1, <3>2, <3>4
  <2> QED
    BY <2>2, <2>3
<1>12. CASE e = r /\ (Advances(t, op, h, r) \/ Rewinds(t, op, h, r) \/ Arrays(t, op, h, r) \/ Users(t, op, h, r)
                      \/ Rules(t, op, h, r) \/ Unlocks(t, op, h, r))
  <2>1. UNCHANGED data_text
    BY <1>12 DEF Advances, Rewinds, Arrays, Users, Rules, Unlocks, Untouched
  <2>2. h[1] \notin OnPlace
    BY <1>12 DEF Advances, Rewinds, Arrays, Users, Rules, Unlocks, OnPlace
  <2> QED
    BY <1>8, <1>12, <2>1, <2>2
<1> QED
  BY <1>7, <1>10, <1>11, <1>12 DEF Moves

-----------------------------------------------------------------------------
(* The ring of crumbs: where each is to be. *)

\* How far a slot is from slot w, and what is the i-th of the ring's M for crumbs c: nothing first.
Turn(w, j)      == (j + MaxCrumbs - w) % MaxCrumbs
Expected(c, i)  == IF i <= MaxCrumbs - Len(c) THEN 0 ELSE c[i - (MaxCrumbs - Len(c))]
Target(c, w, j) == Expected(c, Turn(w, j) + 1)

\* A number that goes round once at most.
LEMMA OnceRound ==
  ASSUME NEW a \in 0 .. 2 * MaxCrumbs - 1
  PROVE  a % MaxCrumbs = IF a < MaxCrumbs THEN a ELSE a - MaxCrumbs
<1>0. MaxCrumbs \in Nat \ {0}
  BY AppCallsAssumption
<1>1. \A m \in Nat \ {0} : \A i \in 0 .. m - 1 : i % m = i
  OBVIOUS
<1>2. \A m \in Nat \ {0} : \A i \in m .. 2 * m - 1 : i % m = i - m
  OBVIOUS
<1>3. CASE a < MaxCrumbs
  <2>1. a \in 0 .. MaxCrumbs - 1
    BY <1>0, <1>3
  <2> QED
    BY <1>0, <1>1, <1>3, <2>1
<1>4. CASE ~(a < MaxCrumbs)
  <2>1. a \in MaxCrumbs .. 2 * MaxCrumbs - 1
    BY <1>0, <1>4
  <2> QED
    BY <1>0, <1>2, <1>4, <2>1
<1> QED
  BY <1>3, <1>4

\* The slots from a slot on, and the one after it.
LEMMA TurnIs ==
  ASSUME NEW w \in 0 .. MaxCrumbs - 1, NEW j \in 0 .. MaxCrumbs - 1
  PROVE  /\ j >= w => Turn(w, j) = j - w
         /\ j < w => Turn(w, j) = j + MaxCrumbs - w
         /\ Turn(w, j) \in 0 .. MaxCrumbs - 1 /\ Turn(w, j) + 1 \in 1 .. MaxCrumbs
<1>0. MaxCrumbs \in Nat \ {0} /\ w \in Nat /\ w < MaxCrumbs /\ j \in Nat /\ j < MaxCrumbs
  BY AppCallsAssumption
<1>1. PICK a \in 0 .. 2 * MaxCrumbs - 1 : a = j + MaxCrumbs - w
  BY <1>0
<1>2. PICK k : k = a % MaxCrumbs
  OBVIOUS
<1>3. k = IF a < MaxCrumbs THEN a ELSE a - MaxCrumbs
  BY <1>2, OnceRound
<1>4. Turn(w, j) = k
  BY <1>1, <1>2 DEF Turn
<1>5. /\ j >= w => k = j - w
      /\ j < w => k = j + MaxCrumbs - w
      /\ k \in 0 .. MaxCrumbs - 1 /\ k + 1 \in 1 .. MaxCrumbs
  BY <1>0, <1>1, <1>3
<1> QED
  BY <1>4, <1>5

\* The slot after a slot.
LEMMA NextIs ==
  \A w \in 0 .. MaxCrumbs - 1 : \A v : v = (w + 1) % MaxCrumbs =>
     v \in 0 .. MaxCrumbs - 1 /\ (w = MaxCrumbs - 1 => v = 0) /\ (w # MaxCrumbs - 1 => v = w + 1)
<1> TAKE w \in 0 .. MaxCrumbs - 1
<1> TAKE v
<1> HAVE v = (w + 1) % MaxCrumbs
<1>0. MaxCrumbs \in Nat \ {0} /\ w \in Nat /\ w < MaxCrumbs
  BY AppCallsAssumption
<1>1. PICK a \in 0 .. 2 * MaxCrumbs - 1 : a = w + 1
  BY <1>0
<1>2. v = a % MaxCrumbs
  BY <1>1
<1>3. v = IF a < MaxCrumbs THEN a ELSE a - MaxCrumbs
  BY <1>2, OnceRound
<1> QED
  BY <1>0, <1>1, <1>3

\* The first is taken away.
LEMMA FirstAway ==
  ASSUME NEW all \in Seq(Nat \ {0}), all # <<>>
  PROVE  Len(Tail(all)) = Len(all) - 1 /\ \A i \in 1 .. Len(all) - 1 : Tail(all)[i] = all[i + 1]
OBVIOUS

\* The slot after slot w, and crumbs c with one more: the first of too many is gone.
SlotAfter(w)   == (w + 1) % MaxCrumbs
CrumbPut(c, n) == IF Len(c) = MaxCrumbs THEN Tail(Append(c, n)) ELSE Append(c, n)

\* A crumb is put at the end, and the others move on.
LEMMA NextCrumb ==
  ASSUME NEW c \in Seq(Nat \ {0}), Len(c) <= MaxCrumbs, NEW n \in Nat \ {0}, NEW w \in 0 .. MaxCrumbs - 1,
         NEW j \in 0 .. MaxCrumbs - 1
  PROVE  Target(CrumbPut(c, n), SlotAfter(w), j) = (IF j = w THEN n ELSE Target(c, w, j))
<1> SUFFICES ASSUME NEW d, d = (IF Len(c) = MaxCrumbs THEN Tail(Append(c, n)) ELSE Append(c, n)),
                    NEW v, v = (w + 1) % MaxCrumbs
             PROVE  Target(d, v, j) = (IF j = w THEN n ELSE Target(c, w, j))
  BY DEF SlotAfter, CrumbPut
<1>0. MaxCrumbs \in Nat \ {0} /\ w \in Nat /\ w < MaxCrumbs /\ Len(c) \in Nat /\ j \in Nat /\ j < MaxCrumbs
  BY AppCallsAssumption
<1>1. v \in 0 .. MaxCrumbs - 1 /\ (w = MaxCrumbs - 1 => v = 0) /\ (w # MaxCrumbs - 1 => v = w + 1)
  <2>1. \A u : u = (w + 1) % MaxCrumbs => 
          u \in 0 .. MaxCrumbs - 1 /\ (w = MaxCrumbs - 1 => u = 0) /\ (w # MaxCrumbs - 1 => u = w + 1)
    BY NextIs, Zenon
  <2> QED
    BY <2>1, Zenon
<1>2. /\ j >= w => Turn(w, j) = j - w
      /\ j < w => Turn(w, j) = j + MaxCrumbs - w
      /\ j >= v => Turn(v, j) = j - v
      /\ j < v => Turn(v, j) = j + MaxCrumbs - v
      /\ Turn(w, j) \in 0 .. MaxCrumbs - 1 /\ Turn(v, j) \in 0 .. MaxCrumbs - 1
  BY <1>1, TurnIs
<1>3. /\ j = w => Turn(v, j) = MaxCrumbs - 1
      /\ j # w => Turn(v, j) = Turn(w, j) - 1 /\ Turn(w, j) \in 1 .. MaxCrumbs - 1
  <2>1. PICK a, b : a = Turn(w, j) /\ b = Turn(v, j)
    OBVIOUS
  <2>2. CASE w = MaxCrumbs - 1
    BY <1>0, <1>1, <1>2, <2>1, <2>2
  <2>3. CASE w # MaxCrumbs - 1
    <3>1. v = w + 1
      BY <1>1, <2>3
    <3>2. CASE j < w
      <4>1. a = j + MaxCrumbs - w /\ b = j + MaxCrumbs - v
        BY <1>0, <1>2, <2>1, <3>1, <3>2
      <4>2. b = a - 1 /\ a \in 1 .. MaxCrumbs - 1
        BY <1>0, <3>1, <3>2, <4>1
      <4>3. j # w
        BY <1>0, <3>2
      <4> QED
        BY <2>1, <4>2, <4>3
    <3>3. CASE j = w
      <4>1. a = 0 /\ b = MaxCrumbs - 1
        BY <1>0, <1>2, <2>1, <3>1, <3>3
      <4> QED
        BY <2>1, <3>3, <4>1
    <3>4. CASE w < j
      <4>1. a = j - w /\ b = j - v
        BY <1>0, <1>2, <2>1, <3>1, <3>4
      <4>2. b = a - 1 /\ a \in 1 .. MaxCrumbs - 1
        BY <1>0, <3>1, <3>4, <4>1
      <4> QED
        BY <1>0, <2>1, <3>4, <4>2
    <3> QED
      BY <1>0, <3>2, <3>3, <3>4
  <2> QED
    BY <2>2, <2>3
<1>4. CASE Len(c) = MaxCrumbs
  <2>1. PICK all : all = Append(c, n)
    OBVIOUS
  <2>2. /\ all \in Seq(Nat \ {0}) /\ Len(all) = MaxCrumbs + 1 /\ all[MaxCrumbs + 1] = n /\ all # <<>>
        /\ \A i \in 1 .. MaxCrumbs : all[i] = c[i]
    BY <1>0, <1>4, <2>1
  <2>3. d = Tail(all) /\ Len(d) = MaxCrumbs /\ \A i \in 1 .. MaxCrumbs : d[i] = all[i + 1]
    <3>1. d = Tail(all)
      BY <1>4, <2>1
    <3>2. Len(d) = Len(all) - 1 /\ \A i \in 1 .. Len(all) - 1 : d[i] = all[i + 1]
      BY <2>2, <3>1, FirstAway
    <3>3. Len(all) - 1 = MaxCrumbs
      BY <1>0, <2>2
    <3> QED
      BY <3>1, <3>2, <3>3
  <2>4. \A i \in 1 .. MaxCrumbs : Expected(d, i) = d[i] /\ Expected(c, i) = c[i]
    <3>0. Len(d) = MaxCrumbs
      BY <2>3
    <3>1. MaxCrumbs - Len(d) = 0 /\ MaxCrumbs - Len(c) = 0
      BY <1>0, <1>4, <3>0
    <3>2. \A i \in 1 .. MaxCrumbs : ~(i <= 0) /\ i - 0 = i
      OBVIOUS
    <3> QED
      BY <3>1, <3>2 DEF Expected
  <2>5. CASE j = w
    <3>1. Turn(v, j) + 1 = MaxCrumbs /\ MaxCrumbs \in 1 .. MaxCrumbs
      BY <1>0, <1>3, <2>5
    <3> QED
      BY <2>2, <2>3, <2>4, <2>5, <3>1 DEF Target
  <2>6. CASE j # w
    <3>1. PICK i : i = Turn(w, j)
      OBVIOUS
    <3>2. i \in 1 .. MaxCrumbs - 1 /\ Turn(v, j) + 1 = i /\ i \in 1 .. MaxCrumbs /\ i + 1 \in 1 .. MaxCrumbs
      <4>1. i \in 1 .. MaxCrumbs - 1 /\ Turn(v, j) = i - 1
        BY <1>3, <2>6, <3>1
      <4> QED
        BY <1>0, <4>1
    <3>3. Target(d, v, j) = d[i] /\ Target(c, w, j) = c[i + 1]
      BY <2>4, <3>1, <3>2 DEF Target
    <3>4. d[i] = all[i + 1] /\ all[i + 1] = c[i + 1]
      BY <2>2, <2>3, <3>2
    <3> QED
      BY <2>6, <3>3, <3>4
  <2> QED
    BY <2>5, <2>6
<1>5. CASE Len(c) # MaxCrumbs
  <2>1. d = Append(c, n) /\ Len(d) = Len(c) + 1 /\ d[Len(c) + 1] = n /\ \A i \in 1 .. Len(c) : d[i] = c[i]
    BY <1>0, <1>5
  <2>2. CASE j = w
    <3>1. Turn(v, j) + 1 = MaxCrumbs
      BY <1>0, <1>3, <2>2
    <3>2. ~(MaxCrumbs <= MaxCrumbs - Len(d)) /\ MaxCrumbs - (MaxCrumbs - Len(d)) = Len(c) + 1
      BY <1>0, <2>1
    <3>3. Expected(d, MaxCrumbs) = d[Len(c) + 1]
      BY <3>2 DEF Expected
    <3> QED
      BY <2>1, <2>2, <3>1, <3>3 DEF Target
  <2>3. CASE j # w
    <3>1. PICK i : i = Turn(w, j)
      OBVIOUS
    <3>2. i \in 1 .. MaxCrumbs - 1 /\ Turn(v, j) + 1 = i
      <4>1. i \in 1 .. MaxCrumbs - 1 /\ Turn(v, j) = i - 1
        BY <1>3, <2>3, <3>1
      <4> QED
        BY <1>0, <4>1
    <3>3. Target(d, v, j) = Expected(d, i) /\ Target(c, w, j) = Expected(c, i + 1)
      BY <3>1, <3>2 DEF Target
    <3>4. Expected(d, i) = Expected(c, i + 1)
      <4>1. i <= MaxCrumbs - Len(d) <=> i + 1 <= MaxCrumbs - Len(c)
        BY <1>0, <2>1, <3>2
      <4>2. i - (MaxCrumbs - Len(d)) = (i + 1) - (MaxCrumbs - Len(c))
        BY <1>0, <2>1, <3>2
      <4>3. CASE i <= MaxCrumbs - Len(d)
        BY <4>1, <4>3 DEF Expected
      <4>4. CASE ~(i <= MaxCrumbs - Len(d))
        <5>1. (i + 1) - (MaxCrumbs - Len(c)) \in 1 .. Len(c)
          BY <1>0, <1>5, <3>2, <4>1, <4>4
        <5>2. Expected(d, i) = d[(i + 1) - (MaxCrumbs - Len(c))]
          BY <4>2, <4>4 DEF Expected
        <5>3. Expected(c, i + 1) = c[(i + 1) - (MaxCrumbs - Len(c))]
          BY <4>1, <4>4 DEF Expected
        <5> QED
          BY <2>1, <5>1, <5>2, <5>3
      <4> QED
        BY <4>3, <4>4
    <3> QED
      BY <2>3, <3>3, <3>4
  <2> QED
    BY <2>2, <2>3
<1> QED
  BY <1>4, <1>5

\* Of no crumbs nothing is in the ring.
LEMMA NoCrumbs ==
  ASSUME NEW w \in 0 .. MaxCrumbs - 1, NEW j \in 0 .. MaxCrumbs - 1
  PROVE  Target(<<>>, w, j) = 0
<1>1. MaxCrumbs \in Nat /\ Turn(w, j) \in 0 .. MaxCrumbs - 1
  BY TurnIs, AppCallsAssumption
<1>2. Turn(w, j) + 1 <= MaxCrumbs - Len(<<>>)
  BY <1>1
<1> QED
  BY <1>2 DEF Target, Expected

\* Some thread has a step of a kind to take.
Awaits(k) == \E t \in Threads : \E s \in Pending(t) : s[1] = k
\* Where the next crumb goes, once the one that is added has its slot.
Final == IF Awaits("crumb") \/ Awaits("advance") THEN (data_current + 1) % MaxCrumbs ELSE data_current
\* What is to be in a slot is there, or comes to it.
Arrives(p, y, j) ==
    Comes(p) \/ Awaits("crumbs?") \/ (Awaits("crumb") /\ j = data_current) \/ Data!At(p) = y
RingSettles ==
    /\ \A j \in 0 .. MaxCrumbs - 1 : /\ Settles(Data!Slot(j), Target(data_crumbs, Final, j))
                                     /\ Arrives(Data!Slot(j), Target(data_crumbs, Final, j), j)
    /\ \A t \in Threads : \A s \in Pending(t) : s[1] = "crumb" => s[2] = Target(data_crumbs, Final, data_current)
    /\ \A t \in Threads : Op(t) \in {"clear", "clearCrumbs"} => data_crumbs = <<>>

\* The ring after a step, with its crumbs c and its end w.
LEMMA RingIs ==
  ASSUME NEW c, c = data_crumbs', NEW w, w = Final',
         \A j \in 0 .. MaxCrumbs - 1 : \A p, y : p = Data!Slot(j) /\ y = Target(c, w, j) =>
             Settles(p, y)' /\ Arrives(p, y, j)',
         \A t \in Threads : \A s \in Pending(t)' : s[1] = "crumb" => s[2] = Target(c, w, data_current'),
         \A t \in Threads : Op(t)' \in {"clear", "clearCrumbs"} => c = <<>>
  PROVE  RingSettles'
<1>1. ASSUME NEW j \in 0 .. MaxCrumbs - 1
      PROVE  /\ Settles(Data!Slot(j), Target(data_crumbs, Final, j))'
             /\ Arrives(Data!Slot(j), Target(data_crumbs, Final, j), j)'
  <2>1. PICK p, y : p = Data!Slot(j) /\ y = Target(c, w, j)
    OBVIOUS
  <2>2. Settles(p, y)' /\ Arrives(p, y, j)'
    BY <2>1
  <2> QED
    BY <2>1, <2>2
<1> QED
  BY <1>1 DEF RingSettles

\* While one call is made only its thread has steps to take.
LEMMA OthersIdle ==
  ASSUME CallsInTurn, AtMostOne, NEW t \in Threads, NEW op, NEW h, NEW r, NEW e, Takes(t, op, h, r, e)
  PROVE  /\ \A u \in Threads : u # t => /\ Op(u) = "idle" /\ Todo(u) = <<>> /\ Pending(u) = {}
                                        /\ Op(u)' = "idle" /\ Todo(u)' = <<>> /\ Pending(u)' = {}
         /\ Pending(t) = {h} \cup Among(r) /\ Pending(t)' = Among(e) /\ h \in Pending(t) /\ Follows(h, r)
         /\ Op(t) = op /\ Op(t)' \in {op, "idle"} /\ Todo(t)' = e /\ GoesOn(t, op, e)
         /\ UNCHANGED data_crumbs /\ op \in CallKinds /\ \A s \in Pending(t) : s \in StepsOf(op)
<1>1. /\ Pending(t) = {h} \cup Among(r) /\ Pending(t)' = Among(e) /\ h \in Pending(t) /\ Follows(h, r)
      /\ Op(t) = op /\ GoesOn(t, op, e) /\ UNCHANGED data_crumbs /\ op \in CallKinds /\ op # "idle"
  BY DEF Takes
<1>2. /\ Op(t)' \in {op, "idle"} /\ Todo(t)' = e
      /\ \A u \in Threads : u # t => Op(u)' = Op(u) /\ Todo(u)' = Todo(u) /\ Pending(u)' = Pending(u)
  BY <1>1, OthersStay
<1>3. ASSUME NEW u \in Threads, u # t PROVE Op(u) = "idle" /\ Todo(u) = <<>> /\ Pending(u) = {}
  <2>1. Op(u) = "idle"
    BY <1>1, <1>3 DEF AtMostOne
  <2>2. Todo(u) = <<>>
    BY <2>1 DEF CallsInTurn
  <2> QED
    BY <2>1, <2>2 DEF Pending, Among
<1>4. \A s \in Pending(t) : s \in StepsOf(op)
  BY <1>1, PendingKinds
<1> QED
  BY <1>1, <1>2, <1>3, <1>4

\* What is awaited of it before and after a step.
LEMMA AwaitedHere ==
  ASSUME CallsInTurn, AtMostOne, NEW t \in Threads, NEW op, NEW h, NEW r, NEW e, Takes(t, op, h, r, e)
  PROVE  \A k : /\ Awaits(k) <=> \E s \in {h} \cup Among(r) : s[1] = k
                /\ Awaits(k)' <=> \E s \in Among(e) : s[1] = k
BY OthersIdle DEF Awaits

\* The steps it has left are on a place only what it is to get.
LEMMA PlaceAlone ==
  ASSUME NEW t \in Threads, \A u \in Threads : u # t => Pending(u)' = {} /\ Todo(u)' = <<>>,
         NEW e, Todo(t)' = e, Pending(t)' = Among(e), e # <<>> => Head(e)[1] # "store",
         NEW p, NEW y, \A s \in Among(e) : Sets(s, p) => s[3] = y
  PROVE  Settles(p, y)' /\ ((\E s \in Among(e) : Sets(s, p)) => Comes(p)')
<1>1. \A u \in Threads : \A s \in Pending(u)' : Sets(s, p) => s[3] = y
  OBVIOUS
<1>2. \A u \in Threads : Todo(u)' # <<>> => Head(Todo(u)')[1] # "store"
  OBVIOUS
<1> QED
  BY <1>1, <1>2 DEF Settles, Comes

\* Where a slot is in the ring.
LEMMA SlotIs ==
  ASSUME DataKinds, NEW j \in 0 .. MaxCrumbs - 1, NEW p, p = Data!Slot(j)
  PROVE  p \in RingPlaces /\ p \in Places /\ Data!At(p) = data_ring[j] /\ data_current \in 0 .. MaxCrumbs - 1
         /\ (UNCHANGED data_ring => Data!At(p)' = Data!At(p))
         /\ data_crumbs \in Seq(Nat \ {0}) /\ Len(data_crumbs) <= MaxCrumbs
         /\ \A i \in 0 .. MaxCrumbs - 1 : p = Data!Slot(i) => i = j
<1>1. p \in RingPlaces /\ p \in Places /\ Data!At(p) = data_ring[j] /\ p.of = "ring"
  BY AtPlaces DEF Places
<1>2. UNCHANGED data_ring => Data!At(p)' = Data!At(p)
  BY <1>1 DEF Data!At
<1> QED
  BY <1>1, <1>2 DEF DataKinds, Data!Slot

\* The end of the ring is in it.
LEMMA FinalIs == DataKinds => Final \in 0 .. MaxCrumbs - 1 /\ data_current \in 0 .. MaxCrumbs - 1
<1> SUFFICES ASSUME DataKinds PROVE Final \in 0 .. MaxCrumbs - 1 /\ data_current \in 0 .. MaxCrumbs - 1
  OBVIOUS
<1>1. data_current \in 0 .. MaxCrumbs - 1 /\ MaxCrumbs \in Nat \ {0}
  BY AppCallsAssumption DEF DataKinds
<1>2. (data_current + 1) % MaxCrumbs \in 0 .. MaxCrumbs - 1
  BY <1>1
<1> QED
  BY <1>1, <1>2 DEF Final

\* A call that begins while nothing is done: a crumb is to be put at the end, or all are to be
\* cleared, or the ring is left alone.
LEMMA RingByCalls ==
  ASSUME CallsAreCounted, DataKinds, DataKinds', AllIdle, RingSettles, NEW t \in Threads, NEW op, NEW e,
         Begun(t, op, e), BeginsAs(op, e), op # "configure"
  PROVE  RingSettles'
<1>1. /\ Pending(t)' = Among(e) /\ op \in CallKinds \ {"idle"} /\ e \in Left(op) /\ Op(t)' = op
      /\ UNCHANGED <<data_current, data_ring>> /\ \A s \in Among(e) : s[1] # "advance"
      /\ \A u \in Threads : u # t => Op(u)' = Op(u) /\ Pending(u)' = Pending(u)
  BY OthersStay DEF Begun
<1>2. \A u \in Threads : u # t => Op(u)' = "idle" /\ Pending(u)' = {}
  BY <1>1 DEF AllIdle
<1>3. \A k : ~Awaits(k) /\ (Awaits(k)' <=> \E s \in Among(e) : s[1] = k)
  BY <1>1, <1>2 DEF Awaits, AllIdle
<1>4. \A p : ~Comes(p)
  BY DEF Comes, AllIdle
<1>5. PICK w \in 0 .. MaxCrumbs - 1 : w = data_current
  BY DEF DataKinds
<1>6. Final = w
  BY <1>3, <1>5 DEF Final
<1>7. ASSUME NEW j \in 0 .. MaxCrumbs - 1, NEW p, p = Data!Slot(j)
      PROVE  Data!At(p) = Target(data_crumbs, w, j) /\ Data!At(p)' = Data!At(p)
  <2>1. Arrives(Data!Slot(j), Target(data_crumbs, Final, j), j)
    BY DEF RingSettles
  <2>2. Arrives(p, Target(data_crumbs, w, j), j)
    BY <1>6, <1>7, <2>1
  <2> QED
    BY <1>1, <1>3, <1>4, <1>7, <2>2, SlotIs DEF Arrives
<1>8. \A s \in Among(e) : s \in StepsOf(op)
  BY <1>1 DEF Left, Among
<1>9. ASSUME \A s \in Among(e) : s[1] \in OnPlace => s[2] \notin RingPlaces, NEW j \in 0 .. MaxCrumbs - 1,
             NEW p, p = Data!Slot(j), NEW x
      PROVE  Settles(p, x)'
  <2>1. \A s \in Among(e) : ~Sets(s, p)
    BY <1>9, SlotIs DEF Sets, OnPlace
  <2> QED
    BY <2>1, PlaceBegun
<1>10. CASE op \notin {"crumb", "clear", "clearCrumbs"}
  <2>1. UNCHANGED data_crumbs
    BY <1>1, <1>10 DEF BeginsAs
  <2>2. \A s \in Among(e) : s[1] \notin {"crumb", "crumbs?"} /\ (s[1] \in OnPlace => s[2] \notin RingPlaces)
    BY <1>1, <1>8, <1>10, StepKinds DEF CallsOn
  <2>3. Final' = w
    BY <1>1, <1>3, <1>5, <2>2 DEF Final
  <2>4. PICK c : c = data_crumbs
    OBVIOUS
  <2>5. ASSUME NEW j \in 0 .. MaxCrumbs - 1, NEW p, NEW y, p = Data!Slot(j), y = Target(c, w, j)
        PROVE  Settles(p, y)' /\ Arrives(p, y, j)'
    <3>1. Data!At(p)' = y
      BY <1>7, <2>4, <2>5
    <3> QED
      BY <1>9, <2>2, <2>5, <3>1 DEF Arrives
  <2>6. \A u \in Threads : \A s \in Pending(u)' : s[1] # "crumb"
    BY <1>1, <1>2, <2>2
  <2>7. \A u \in Threads : Op(u)' \notin {"clear", "clearCrumbs"}
    BY <1>1, <1>2, <1>10
  <2> QED
    BY <2>1, <2>3, <2>4, <2>5, <2>6, <2>7, RingIs
<1>11. CASE op \in {"clear", "clearCrumbs"}
  <2>1. /\ data_crumbs' = <<>> /\ \E s \in Among(e) : s[1] = "crumbs?"
        /\ \A s \in Among(e) : s[1] # "crumb" /\ (s[1] \in OnPlace => s[2] \notin RingPlaces)
    <3>1. CASE op = "clear"
      <4>1. /\ data_crumbs' = <<>>
            /\ Among(e) = {EmptyingOf(p) : p \in FieldPlaces} \cup {<<"crumbs?", Data!ClearSlots>>}
        BY <3>1 DEF BeginsAs, Data!Fields, Data!Locked, Data!Unlocked
      <4>2. \A p \in FieldPlaces : EmptyingOf(p)[1] = "load" /\ EmptyingOf(p)[2] = p /\ p \notin RingPlaces
        BY AtPlaces DEF EmptyingOf
      <4>3. PICK l : l = <<"crumbs?", Data!ClearSlots>>
        OBVIOUS
      <4>4. l \in Among(e) /\ l[1] = "crumbs?" /\ \A s \in Among(e) : s = l \/ \E p \in FieldPlaces : s = EmptyingOf(p)
        BY <4>1, <4>3
      <4> QED
        BY <4>1, <4>2, <4>4 DEF OnPlace
    <3>2. CASE op = "clearCrumbs"
      <4>1. data_crumbs' = <<>> /\ Among(e) = {<<"crumbs?", Data!ClearSlots>>, <<"unlock", "crumbs">>}
        BY <3>2 DEF BeginsAs, Data!Fields, Data!Locked, Data!Unlocked
      <4> QED
        BY <4>1 DEF OnPlace
    <3> QED
      BY <1>11, <3>1, <3>2
  <2>2. PICK c : c = data_crumbs'
    OBVIOUS
  <2>3. Awaits("crumbs?")'
    BY <1>3, <2>1
  <2>4. PICK v : v = Final'
    OBVIOUS
  <2>5. \A j \in 0 .. MaxCrumbs - 1 : \A p, y : p = Data!Slot(j) /\ y = Target(c, v, j) =>
            Settles(p, y)' /\ Arrives(p, y, j)'
    BY <1>9, <2>1, <2>3 DEF Arrives
  <2>6. \A u \in Threads : \A s \in Pending(u)' : s[1] # "crumb"
    BY <1>1, <1>2, <2>1
  <2> QED
    BY <2>1, <2>2, <2>4, <2>5, <2>6, RingIs
<1>12. CASE op = "crumb"
  <2>1. PICK n : n = data_calls + 1
    OBVIOUS
  <2>2. /\ data_crumbs' = (LET all == Append(data_crumbs, n) IN IF Len(all) > MaxCrumbs THEN Tail(all) ELSE all)
        /\ Among(e) = {<<"crumb", n>>, <<"unlock", "crumbs">>}
    BY <1>12, <2>1 DEF BeginsAs, Data!Fields, Data!Locked, Data!Unlocked
  <2>3. n \in Nat \ {0}
    BY <2>1, AppCallsAssumption DEF CallsAreCounted
  <2>4. PICK c \in Seq(Nat \ {0}) : c = data_crumbs /\ Len(c) <= MaxCrumbs
    BY DEF DataKinds
  <2>5. PICK d : d = data_crumbs'
    OBVIOUS
  <2>6. d = CrumbPut(c, n)
    <3>1. Len(Append(c, n)) = Len(c) + 1 /\ Len(c) \in Nat /\ MaxCrumbs \in Nat
      BY AppCallsAssumption
    <3>2. Len(Append(c, n)) > MaxCrumbs <=> Len(c) = MaxCrumbs
      BY <2>4, <3>1
    <3> QED
      BY <2>2, <2>4, <2>5, <3>2 DEF CrumbPut
  <2>7. PICK s : s = <<"crumb", n>>
    OBVIOUS
  <2>8. PICK l : l = <<"unlock", "crumbs">>
    OBVIOUS
  <2>9. Among(e) = {s, l} /\ s[1] = "crumb" /\ s[2] = n /\ l[1] = "unlock"
    BY <2>2, <2>7, <2>8
  <2>10. Awaits("crumb")'
    BY <1>3, <2>9
  <2>11. PICK v : v = SlotAfter(w)
    OBVIOUS
  <2>12. Final' = v
    BY <1>1, <1>5, <2>10, <2>11 DEF Final, SlotAfter
  <2>13. \A j \in 0 .. MaxCrumbs - 1 : Target(d, v, j) = (IF j = w THEN n ELSE Target(c, w, j))
    <3> TAKE j \in 0 .. MaxCrumbs - 1
    <3> QED
      BY <2>3, <2>4, <2>6, <2>11, NextCrumb
  <2>14. ASSUME NEW j \in 0 .. MaxCrumbs - 1, NEW p, NEW y, p = Data!Slot(j), y = Target(d, v, j)
         PROVE  Settles(p, y)' /\ Arrives(p, y, j)'
    <3>1. Settles(p, y)'
      BY <1>9, <2>9, <2>14 DEF OnPlace
    <3>2. CASE j = w
      BY <1>1, <1>5, <2>10, <3>1, <3>2 DEF Arrives
    <3>3. CASE j # w
      BY <1>7, <2>4, <2>13, <2>14, <3>1, <3>3 DEF Arrives
    <3> QED
      BY <3>2, <3>3
  <2>15. \A u \in Threads : \A q \in Pending(u)' : q[1] = "crumb" => q[2] = Target(d, v, data_current')
    <3>1. Target(d, v, data_current') = n
      BY <1>1, <1>5, <2>13
    <3> QED
      BY <1>1, <1>2, <2>9, <3>1
  <2>16. \A u \in Threads : Op(u)' \notin {"clear", "clearCrumbs"}
    BY <1>1, <1>2, <1>12
  <2> QED
    BY <2>5, <2>12, <2>14, <2>15, <2>16, RingIs
<1> QED
  BY <1>10, <1>11, <1>12

\* A step that leaves where the ring ends, and what is awaited, leaves what each slot is to get.
LEMMA RingLeft ==
  ASSUME CallsInTurn, DataKinds, AtMostOne, RingSettles, NEW t \in Threads, NEW op, NEW h, NEW r, NEW e,
         Takes(t, op, h, r, e), UNCHANGED data_current,
         \A k \in {"crumb", "advance", "crumbs?"} : Awaits(k)' <=> Awaits(k),
         \A s \in Among(e) : s[1] = "crumb" => s \in Pending(t),
         \A j \in 0 .. MaxCrumbs - 1 : \A p, y : p = Data!Slot(j) /\ Settles(p, y) =>
             Settles(p, y)' /\ (Comes(p) \/ Data!At(p) = y => Comes(p)' \/ Data!At(p)' = y)
  PROVE  RingSettles'
<1>0. PICK c, w, i : c = data_crumbs /\ w = Final /\ i = data_current
  OBVIOUS
<1>1. c = data_crumbs' /\ i = data_current' /\ Op(t)' \in {Op(t), "idle"} /\ Pending(t)' = Among(e)
      /\ \A u \in Threads : u # t => Op(u)' = "idle" /\ Pending(u)' = {}
  BY <1>0, OthersIdle
<1>2. w = Final'
  <2>1. Awaits("crumb") \/ Awaits("advance") <=> Awaits("crumb")' \/ Awaits("advance")'
    OBVIOUS
  <2> QED
    BY <1>0, <1>1, <2>1 DEF Final
<1>3. ASSUME NEW j \in 0 .. MaxCrumbs - 1, NEW p, NEW y, p = Data!Slot(j), y = Target(c, w, j)
      PROVE  Settles(p, y)' /\ Arrives(p, y, j)'
  <2>1. Settles(p, y) /\ Arrives(p, y, j)
    BY <1>0, <1>3 DEF RingSettles
  <2>2. Settles(p, y)' /\ (Comes(p) \/ Data!At(p) = y => Comes(p)' \/ Data!At(p)' = y)
    BY <1>3, <2>1
  <2> QED
    BY <2>1, <2>2 DEF Arrives
<1>4. \A u \in Threads : \A s \in Pending(u)' : s[1] = "crumb" => s[2] = Target(c, w, data_current')
  BY <1>0, <1>1 DEF RingSettles
<1>5. \A u \in Threads : Op(u)' \in {"clear", "clearCrumbs"} => c = <<>>
  BY <1>0, <1>1 DEF RingSettles
<1> QED
  BY <1>1, <1>2, <1>3, <1>4, <1>5, RingIs

\* A step on a place.
LEMMA RingByWork ==
  ASSUME CallsInTurn, DataKinds, AtMostOne, RingSettles, NEW t \in Threads, NEW op, NEW h, NEW r, NEW e,
         NEW n \in Nat, NEW x \in Nat, NEW q \in Places,
         Loads(t, op, h, r, e, q, n, x) \/ (e = r /\ (Drops(t, op, h, r, q, x) \/ Stores(t, op, h, r, q, n)))
  PROVE  RingSettles'
<1>1. Takes(t, op, h, r, e) /\ h[1] \in OnPlace /\ UNCHANGED data_current
  BY DEF Loads, Drops, Stores, OnPlace, Untouched
<1>2. Among(r) \subseteq Among(e) /\ \A s \in Among(e) : s \in Among(r) \/ s[1] \in OnPlace
  <2>1. CASE Loads(t, op, h, r, e, q, n, x)
    <3>1. PICK d : d = <<"drop", q, x>>
      OBVIOUS
    <3>2. PICK s : s = <<"store", q, n>>
      OBVIOUS
    <3>3. Among(e) = {d, s} \cup Among(r) /\ d[1] = "drop" /\ s[1] = "store"
      BY <2>1, <3>1, <3>2 DEF Loads
    <3> QED
      BY <3>3 DEF OnPlace
  <2> QED
    BY <2>1
<1>3. \A k \in {"crumb", "advance", "crumbs?"} : Awaits(k)' <=> Awaits(k)
  BY <1>1, <1>2, AwaitedHere DEF OnPlace
<1>4. \A s \in Among(e) : s[1] = "crumb" => s \in Pending(t)
  BY <1>1, <1>2, OthersIdle DEF OnPlace
<1>5. ASSUME NEW j \in 0 .. MaxCrumbs - 1, NEW p, NEW y, p = Data!Slot(j) /\ Settles(p, y)
      PROVE  Settles(p, y)' /\ (Comes(p) \/ Data!At(p) = y => Comes(p)' \/ Data!At(p)' = y)
  <2>1. p \in Places
    BY <1>5, SlotIs
  <2> QED
    BY <1>5, <2>1, PlaceWorked
<1> QED
  BY <1>1, <1>3, <1>4, <1>5, RingLeft

\* A step that is on none, and that leaves the ring alone.
LEMMA RingByOthers ==
  ASSUME CallsInTurn, DataKinds, AtMostOne, RingSettles, NEW t \in Threads, NEW op, NEW h, NEW r,
         Takes(t, op, h, r, r), h[1] \notin OnPlace \cup {"crumb", "advance", "crumbs?"},
         UNCHANGED <<data_current, data_ring>>
  PROVE  RingSettles'
<1>1. \A k \in {"crumb", "advance", "crumbs?"} : Awaits(k)' <=> Awaits(k)
  BY AwaitedHere
<1>2. \A s \in Among(r) : s[1] = "crumb" => s \in Pending(t)
  BY OthersIdle
<1>3. ASSUME NEW j \in 0 .. MaxCrumbs - 1, NEW p, NEW y, p = Data!Slot(j) /\ Settles(p, y)
      PROVE  Settles(p, y)' /\ (Comes(p) \/ Data!At(p) = y => Comes(p)' \/ Data!At(p)' = y)
  <2>1. Data!At(p)' = Data!At(p)
    BY <1>3, SlotIs
  <2> QED
    BY <1>3, <2>1, NoWork
<1> QED
  BY <1>1, <1>2, <1>3, RingLeft

\* The slot for a crumb is found: the crumb comes to it.
LEMMA RingByCrumb ==
  ASSUME CallsInTurn, DataKinds, AtMostOne, RingSettles, NEW t \in Threads, NEW op, NEW h, NEW r, NEW e,
         NEW n, Crumbs(t, op, h, r, e, n), data_array # "null"
  PROVE  RingSettles'
<1>0. Takes(t, op, h, r, e) /\ UNCHANGED <<data_current, data_ring>> /\ op = "crumb"
  BY DEF Crumbs, Untouched
<1>1. /\ \A u \in Threads : u # t => Pending(u)' = {} /\ Todo(u)' = <<>> /\ Op(u)' = "idle"
      /\ Pending(t) = {h} \cup Among(r) /\ Pending(t)' = Among(e) /\ Todo(t)' = e /\ Op(t)' \in {op, "idle"}
      /\ UNCHANGED data_crumbs /\ h \in Pending(t) /\ GoesOn(t, op, e)
  BY <1>0, OthersIdle
<1>2. PICK i \in 0 .. MaxCrumbs - 1 : i = data_current
  BY DEF DataKinds
<1>3. PICK c, w : c = data_crumbs /\ w = Final
  OBVIOUS
<1>4. PICK l, a : l = <<"load", Data!Slot(i), n>> /\ a = <<"advance">>
  <2>1. PICK l : l = <<"load", Data!Slot(i), n>>
    OBVIOUS
  <2>2. PICK a : a = <<"advance">>
    OBVIOUS
  <2> QED
    BY <2>1, <2>2
<1>5. l[1] = "load" /\ l[2] = Data!Slot(i) /\ l[3] = n /\ a[1] = "advance"
  BY <1>4
<1>6. Among(e) = {l, a} \cup Among(r) /\ e # <<>> /\ Head(e)[1] = "load" /\ \A s \in Among(r) : s[1] = "unlock"
  BY <1>2, <1>4 DEF Crumbs
<1>7. h[1] = "crumb" /\ h[2] = n
  BY DEF Crumbs
<1>8. Awaits("crumb") /\ Awaits("advance")' /\ ~Awaits("crumbs?")
  BY <1>0, <1>5, <1>6, <1>7, AwaitedHere
<1>9. w = Final'
  <2>1. UNCHANGED data_current
    BY <1>0
  <2> QED
    BY <1>3, <1>8, <2>1 DEF Final
<1>10. n = Target(c, w, i)
  BY <1>1, <1>2, <1>3, <1>7 DEF RingSettles
<1>11. ASSUME NEW j \in 0 .. MaxCrumbs - 1, NEW p, NEW y, p = Data!Slot(j), y = Target(c, w, j)
       PROVE  Settles(p, y)' /\ Arrives(p, y, j)'
  <2>1. Settles(p, y) /\ Arrives(p, y, j)
    BY <1>3, <1>11 DEF RingSettles
  <2>2. Data!At(p)' = Data!At(p) /\ (p = Data!Slot(i) => j = i)
    BY <1>0, <1>11, SlotIs
  <2>3. \A s \in Among(e) : Sets(s, p) => s = l /\ p = Data!Slot(i)
    BY <1>5, <1>6 DEF Sets
  <2>4. \A s \in Among(e) : Sets(s, p) => s[3] = y
    BY <1>5, <1>10, <1>11, <2>2, <2>3
  <2>5. Settles(p, y)' /\ ((\E s \in Among(e) : Sets(s, p)) => Comes(p)')
    <3>1. \A u \in Threads : u # t => Pending(u)' = {} /\ Todo(u)' = <<>>
      BY <1>1
    <3>2. Todo(t)' = e /\ Pending(t)' = Among(e) /\ Head(e)[1] # "store"
      BY <1>1, <1>6
    <3> QED
      BY <2>4, <3>1, <3>2, PlaceAlone
  <2>6. CASE j = i
    <3>1. l \in Among(e) /\ Sets(l, p)
      BY <1>5, <1>6, <1>11, <2>6 DEF Sets
    <3> QED
      BY <2>5, <3>1 DEF Arrives
  <2>7. CASE j # i
    <3>1. ~Comes(p)
      <4>1. \A s \in Pending(t) : ~Sets(s, p)
        BY <1>1, <1>6, <1>7 DEF Sets
      <4>2. \A u \in Threads : u # t => Pending(u) = {}
        BY <1>0, OthersIdle
      <4> QED
        BY <4>1, <4>2 DEF Comes
    <3> QED
      BY <1>2, <1>8, <2>1, <2>2, <2>5, <2>7, <3>1 DEF Arrives
  <2> QED
    BY <2>6, <2>7
<1>12. \A u \in Threads : \A s \in Pending(u)' : s[1] # "crumb"
  BY <1>1, <1>5, <1>6
<1>13. \A u \in Threads : Op(u)' \notin {"clear", "clearCrumbs"}
  BY <1>0, <1>1
<1> QED
  BY <1>1, <1>3, <1>9, <1>11, <1>12, <1>13, RingIs

\* All slots are to be cleared, and of no crumbs nothing is in them.
LEMMA RingByClear ==
  ASSUME CallsInTurn, DataKinds, DataKinds', AtMostOne, RingSettles, NEW t \in Threads, NEW op, NEW h, NEW r, NEW e,
         Clears(t, op, h, r, e), data_array # "null"
  PROVE  RingSettles'
<1>0. Takes(t, op, h, r, e) /\ UNCHANGED <<data_current, data_ring>> /\ op \in {"clear", "clearCrumbs"}
  BY DEF Clears, Untouched
<1>1. /\ \A u \in Threads : u # t => Pending(u)' = {} /\ Todo(u)' = <<>> /\ Op(u)' = "idle"
      /\ Pending(t) = {h} \cup Among(r) /\ Pending(t)' = Among(e) /\ Todo(t)' = e /\ Op(t)' \in {op, "idle"}
      /\ UNCHANGED data_crumbs /\ Op(t) = op /\ op \in CallKinds /\ \A s \in Pending(t) : s \in StepsOf(op)
  BY <1>0, OthersIdle
<1>2. PICK c, w, v : c = data_crumbs /\ w = Final /\ v = Final'
  OBVIOUS
<1>3. c = <<>> /\ w \in 0 .. MaxCrumbs - 1 /\ v \in 0 .. MaxCrumbs - 1
  <2>1. w \in 0 .. MaxCrumbs - 1
    BY <1>2, FinalIs
  <2>2. v \in 0 .. MaxCrumbs - 1
    <3>1. PICK i \in 0 .. MaxCrumbs - 1 : i = data_current'
      BY DEF DataKinds
    <3>2. (i + 1) % MaxCrumbs \in 0 .. MaxCrumbs - 1
      BY AppCallsAssumption
    <3> QED
      BY <1>2, <3>1, <3>2 DEF Final
  <2> QED
    BY <1>0, <1>1, <1>2, <2>1, <2>2 DEF RingSettles
<1>4. PICK b : b = <<"rewind">>
  OBVIOUS
<1>5. Among(e) = ({EmptyingOf(p) : p \in RingPlaces} \cup {b}) \cup Among(r) /\ e # <<>> /\ Head(e)[1] = "load"
      /\ b[1] = "rewind"
  BY <1>4 DEF Clears
<1>6. ASSUME NEW j \in 0 .. MaxCrumbs - 1, NEW p, NEW y, p = Data!Slot(j), y = Target(c, v, j)
      PROVE  Settles(p, y)' /\ Arrives(p, y, j)'
  <2>1. y = 0 /\ Settles(p, 0)
    <3>1. Target(c, v, j) = 0 /\ Target(c, w, j) = 0
      BY <1>3, NoCrumbs
    <3> QED
      BY <1>2, <1>6, <3>1 DEF RingSettles
  <2>2. p \in RingPlaces
    BY <1>6, SlotIs
  <2>3. \A s \in Among(e) : Sets(s, p) => s[3] = y
    <3>1. \A s \in Among(r) : Sets(s, p) => s[3] = 0
      BY <1>1, <2>1 DEF Settles
    <3>2. \A q \in RingPlaces : EmptyingOf(q)[3] = 0
      BY DEF EmptyingOf
    <3> QED
      BY <1>5, <2>1, <3>1, <3>2 DEF Sets
  <2>4. EmptyingOf(p) \in Among(e) /\ Sets(EmptyingOf(p), p)
    BY <1>5, <2>2 DEF Sets, EmptyingOf
  <2>5. \A u \in Threads : u # t => Pending(u)' = {} /\ Todo(u)' = <<>>
    BY <1>1
  <2>6. Todo(t)' = e /\ Pending(t)' = Among(e) /\ Head(e)[1] # "store"
    BY <1>1, <1>5
  <2> QED
    BY <2>3, <2>4, <2>5, <2>6, PlaceAlone DEF Arrives
<1>7. \A u \in Threads : \A s \in Pending(u)' : s[1] # "crumb"
  <2>1. \A s \in Among(r) : s[1] # "crumb"
    BY <1>0, <1>1, StepKinds
  <2>2. \A q \in RingPlaces : EmptyingOf(q)[1] = "load"
    BY DEF EmptyingOf
  <2> QED
    BY <1>1, <1>5, <2>1, <2>2
<1> QED
  BY <1>1, <1>2, <1>3, <1>6, <1>7, RingIs

\* The crumb is in its slot, and the ring ends after it.
LEMMA RingByAdvance ==
  ASSUME CallsInTurn, DataKinds, AtMostOne, RingSettles, NEW t \in Threads, NEW op, NEW h, NEW r,
         Advances(t, op, h, r)
  PROVE  RingSettles'
<1>0. Takes(t, op, h, r, r) /\ UNCHANGED data_ring /\ op = "crumb" /\ h[1] = "advance"
  BY DEF Advances
<1>1. /\ \A u \in Threads : u # t => /\ Pending(u)' = {} /\ Todo(u)' = <<>> /\ Op(u)' = "idle"
                                     /\ Pending(u) = {}
      /\ Pending(t) = {h} \cup Among(r) /\ Pending(t)' = Among(r) /\ Todo(t)' = r /\ Op(t)' \in {op, "idle"}
      /\ UNCHANGED data_crumbs /\ Follows(h, r)
  BY <1>0, OthersIdle
<1>2. \A s \in Among(r) : s[1] = "unlock"
  BY <1>0, <1>1 DEF Follows
<1>3. Awaits("advance") /\ ~Awaits("crumb") /\ ~Awaits("crumbs?") /\ ~Awaits("crumb")' /\ ~Awaits("advance")'
  BY <1>0, <1>2, AwaitedHere
<1>4. PICK c, w : c = data_crumbs /\ w = Final
  OBVIOUS
<1>5. w = Final'
  <2>1. w = (data_current + 1) % MaxCrumbs
    BY <1>3, <1>4 DEF Final
  <2>2. data_current' = (data_current + 1) % MaxCrumbs
    BY DEF Advances
  <2>3. Final' = data_current'
    BY <1>3 DEF Final
  <2> QED
    BY <2>1, <2>2, <2>3, Zenon
<1>6. ASSUME NEW j \in 0 .. MaxCrumbs - 1, NEW p, NEW y, p = Data!Slot(j), y = Target(c, w, j)
      PROVE  Settles(p, y)' /\ Arrives(p, y, j)'
  <2>1. Arrives(p, y, j)
    BY <1>4, <1>6 DEF RingSettles
  <2>2. ~Comes(p)
    BY <1>0, <1>1, <1>2 DEF Comes, Sets
  <2>3. Data!At(p)' = y
    BY <1>0, <1>3, <1>6, <2>1, <2>2, SlotIs DEF Arrives
  <2>4. \A s \in Among(r) : ~Sets(s, p)
    BY <1>2 DEF Sets
  <2>5. r # <<>> => Head(r)[1] # "store"
    BY <1>0, <1>1 DEF Follows
  <2>6. Settles(p, y)'
    BY <1>1, <2>4, <2>5, PlaceAlone
  <2> QED
    BY <2>3, <2>6 DEF Arrives
<1>7. \A u \in Threads : \A s \in Pending(u)' : s[1] # "crumb"
  BY <1>1, <1>2
<1>8. \A u \in Threads : Op(u)' \notin {"clear", "clearCrumbs"}
  BY <1>0, <1>1
<1> QED
  BY <1>1, <1>4, <1>5, <1>6, <1>7, <1>8, RingIs

\* The ring is cleared, and ends anywhere.
LEMMA RingByRewind ==
  ASSUME CallsInTurn, DataKinds, DataKinds', AtMostOne, RingSettles, NEW t \in Threads, NEW op, NEW h, NEW r,
         Rewinds(t, op, h, r), op # "configure"
  PROVE  RingSettles'
<1>0. Takes(t, op, h, r, r) /\ UNCHANGED data_ring /\ op \in {"clear", "clearCrumbs"} /\ h[1] = "rewind"
  BY DEF Rewinds
<1>1. /\ \A u \in Threads : u # t => Pending(u)' = {} /\ Todo(u)' = <<>> /\ Op(u)' = "idle"
      /\ Pending(t) = {h} \cup Among(r) /\ Pending(t)' = Among(r) /\ Todo(t)' = r /\ Op(t)' \in {op, "idle"}
      /\ UNCHANGED data_crumbs /\ Op(t) = op /\ op \in CallKinds /\ \A s \in Pending(t) : s \in StepsOf(op)
  BY <1>0, OthersIdle
<1>2. \A s \in Pending(t) : s[1] \notin {"crumb", "advance"}
  BY <1>0, <1>1, StepKinds
<1>3. ~Awaits("crumb") /\ ~Awaits("crumb")' /\ ~Awaits("advance")' /\ (Awaits("crumbs?")' <=> Awaits("crumbs?"))
  BY <1>0, <1>1, <1>2, AwaitedHere
<1>4. PICK c, w, v : c = data_crumbs /\ w = Final /\ v = Final'
  OBVIOUS
<1>5. c = <<>> /\ w \in 0 .. MaxCrumbs - 1 /\ v \in 0 .. MaxCrumbs - 1
  <2>1. w \in 0 .. MaxCrumbs - 1
    BY <1>4, FinalIs
  <2>2. v \in 0 .. MaxCrumbs - 1
    BY <1>3, <1>4 DEF Final, DataKinds
  <2> QED
    BY <1>0, <1>1, <1>4, <2>1, <2>2 DEF RingSettles
<1>6. ASSUME NEW j \in 0 .. MaxCrumbs - 1, NEW p, NEW y, p = Data!Slot(j), y = Target(c, v, j)
      PROVE  Settles(p, y)' /\ Arrives(p, y, j)'
  <2>1. Settles(p, y) /\ Arrives(p, y, j)
    <3>1. Target(c, v, j) = 0 /\ Target(c, w, j) = 0
      BY <1>5, NoCrumbs
    <3> QED
      BY <1>4, <1>6, <3>1 DEF RingSettles
  <2>2. Data!At(p)' = Data!At(p)
    BY <1>0, <1>6, SlotIs
  <2>3. Settles(p, y)' /\ (Comes(p)' <=> Comes(p))
    BY <1>0, <2>1, <2>2, NoWork DEF OnPlace
  <2> QED
    BY <1>3, <2>1, <2>2, <2>3 DEF Arrives
<1>7. \A u \in Threads : \A s \in Pending(u)' : s[1] # "crumb"
  BY <1>1, <1>2
<1> QED
  BY <1>1, <1>4, <1>5, <1>6, <1>7, RingIs

\* A step of a call, the start of the SDK left aside.
LEMMA RingBySteps ==
  ASSUME CallsInTurn, DataKinds, DataKinds', AtMostOne, RingSettles, NEW t \in Threads, NEW op, NEW h, NEW r, NEW e,
         NEW n \in Nat, NEW x \in Nat, Moves(t, op, h, r, e, n, x), op # "configure", data_array # "null"
  PROVE  RingSettles' /\ UNCHANGED data_array
<1>0. Takes(t, op, h, r, e) /\ UNCHANGED data_array
  BY DEF Moves, Loads, Drops, Stores, Crumbs, Clears, Advances, Rewinds, Arrays, Users, Rules, Unlocks, Untouched
<1>1. ASSUME NEW q \in Places,
             Loads(t, op, h, r, e, q, n, x) \/ (e = r /\ (Drops(t, op, h, r, q, x) \/ Stores(t, op, h, r, q, n)))
      PROVE  RingSettles'
  BY <1>1, RingByWork
<1>2. CASE Crumbs(t, op, h, r, e, n)
  BY <1>0, <1>2, RingByCrumb
<1>3. CASE Clears(t, op, h, r, e)
  BY <1>0, <1>3, RingByClear
<1>4. CASE e = r /\ (Users(t, op, h, r) \/ Rules(t, op, h, r) \/ Unlocks(t, op, h, r))
  <2>1. UNCHANGED <<data_current, data_ring>> /\ h[1] \notin OnPlace \cup {"crumb", "advance", "crumbs?"}
    BY <1>4 DEF Users, Rules, Unlocks, Untouched, OnPlace
  <2> QED
    BY <1>0, <1>4, <2>1, RingByOthers
<1>5. CASE e = r /\ Advances(t, op, h, r)
  BY <1>0, <1>5, RingByAdvance
<1>6. CASE e = r /\ Rewinds(t, op, h, r)
  BY <1>0, <1>6, RingByRewind
<1>7. ~Arrays(t, op, h, r)
  BY DEF Arrays
<1> QED
  BY <1>0, <1>1, <1>2, <1>3, <1>4, <1>5, <1>6, <1>7 DEF Moves

-----------------------------------------------------------------------------
(* All copies, after calls that did not overlap. *)

\* After calls that did not overlap.
Settled == Data!OneByOne /\ ~Did("unencoded") =>
    /\ AtMostOne /\ (~Did("removeContext") => FieldsSettle)
    /\ (~Did("configure") /\ data_array # "null" => RingSettles)

\* A call that begins is the only one, or calls have overlapped.
LEMMA SettledByCalls ==
  ASSUME CallsInTurn, CallsAreCounted, DataKinds, DataKinds', CallsInTurn', Settled,
         NEW t \in Threads, NEW op, NEW e, Begun(t, op, e), BeginsAs(op, e)
  PROVE  Settled'
<1> SUFFICES ASSUME Data!OneByOne', ~Did("unencoded")' PROVE Settled'
  BY DEF Settled
<1>1. /\ \A k : Did(k)' <=> Did(k) \/ k = op
      /\ \A i \in 1 .. data_calls : data_history'[i] = data_history[i]
      /\ data_calls' = data_calls + 1 /\ data_calls \in Nat
      /\ data_history'[data_calls'] = [op |-> op, alone |-> Data!Quiet]
  BY OneMoreCall, AppCallsAssumption DEF CallsAreCounted
<1>2. Data!OneByOne /\ Data!Quiet
  <2>1. \A i \in 1 .. data_calls' : data_history'[i].alone
    BY DEF Data!OneByOne
  <2>2. \A i \in 1 .. data_calls : i \in 1 .. data_calls'
    BY <1>1
  <2>3. data_calls' \in 1 .. data_calls'
    BY <1>1
  <2>4. \A i \in 1 .. data_calls : data_history[i].alone
    BY <1>1, <2>1, <2>2
  <2>5. PICK c : c = [op |-> op, alone |-> Data!Quiet]
    OBVIOUS
  <2>6. c.alone = Data!Quiet
    BY <2>5
  <2>7. c.alone
    BY <1>1, <2>1, <2>3, <2>5
  <2> QED
    BY <2>4, <2>6, <2>7 DEF Data!OneByOne
<1>3. AllIdle
  <2> SUFFICES ASSUME NEW u \in Threads PROVE Op(u) = "idle" /\ Todo(u) = <<>> /\ Pending(u) = {}
    BY DEF AllIdle
  <2>1. Op(u) = "idle" /\ Todo(u) = <<>>
    BY <1>2 DEF Data!Quiet, Data!Idle, Op, Todo
  <2> QED
    BY <2>1 DEF Pending, Among
<1>4. AtMostOne /\ (~Did("removeContext") => FieldsSettle) /\ (~Did("configure") /\ data_array # "null" => RingSettles)
  BY <1>1, <1>2 DEF Settled
<1>5. AtMostOne'
  <2>1. \A u \in Threads : u # t => Op(u)' = Op(u)
    BY OthersStay DEF Begun
  <2> QED
    BY <1>3, <2>1 DEF AtMostOne, AllIdle
<1>6. ~Did("removeContext")' => FieldsSettle'
  BY <1>1, <1>3, <1>4, FieldsByCalls
<1>7. ~Did("configure")' /\ data_array' # "null" => RingSettles'
  <2>1. UNCHANGED data_array
    BY DEF Begun
  <2> QED
    BY <1>1, <1>3, <1>4, <2>1, RingByCalls
<1> QED
  BY <1>5, <1>6, <1>7 DEF Settled

\* A step of it goes on with what is to be at each place.
LEMMA SettledBySteps ==
  ASSUME CallsInTurn, CallsAreCounted, DataKinds, DataKinds', Kept, Settled, NEW t \in Threads,
         NEW op, NEW h, NEW r, NEW e, NEW n \in Nat, NEW x \in Nat, Moves(t, op, h, r, e, n, x)
  PROVE  Settled'
<1> SUFFICES ASSUME Data!OneByOne', ~Did("unencoded")' PROVE Settled'
  BY DEF Settled
<1>0. Takes(t, op, h, r, e)
  BY MovesLock
<1>1. UNCHANGED <<data_calls, data_history>> /\ Op(t) = op /\ op # "idle" /\ GoesOn(t, op, e)
  BY <1>0 DEF Takes
<1>2. Data!OneByOne
  BY <1>1 DEF Data!OneByOne
<1>3. \A k : Did(k)' <=> Did(k)
  BY <1>0, NoOtherCall
<1>4. AtMostOne /\ (~Did("removeContext") => FieldsSettle) /\ (~Did("configure") /\ data_array # "null" => RingSettles)
  BY <1>2, <1>3 DEF Settled
<1>5. AtMostOne'
  <2>1. \A u \in Threads : Op(u)' # "idle" => Op(u) # "idle"
    BY <1>1, OthersStay
  <2> QED
    BY <1>4, <2>1 DEF AtMostOne
<1>6. ~Did("removeContext")' => FieldsSettle'
  BY <1>3, <1>4, FieldsBySteps
<1>7. ~Did("configure")' /\ data_array' # "null" => RingSettles'
  <2> SUFFICES ASSUME ~Did("configure"), data_array' # "null" PROVE RingSettles'
    BY <1>3
  <2>1. op # "configure"
    BY <1>1 DEF Kept, Recorded
  <2>2. data_array # "null"
    <3>1. UNCHANGED data_array
      BY <2>1 DEF Moves, Loads, Drops, Stores, Crumbs, Clears, Advances, Rewinds, Arrays, Users, Rules,
                  Unlocks, Untouched
    <3> QED
      BY <3>1
  <2> QED
    BY <1>4, <2>1, <2>2, RingBySteps
<1> QED
  BY <1>5, <1>6, <1>7 DEF Settled

\* The slot that is read as the i-th is at turn i of the ring.
LEMMA ReadInTurn ==
  ASSUME NEW w \in 0 .. MaxCrumbs - 1, NEW i \in 1 .. MaxCrumbs, NEW j, j = (w + i - 1) % MaxCrumbs
  PROVE  j \in 0 .. MaxCrumbs - 1 /\ Turn(w, j) + 1 = i
<1>0. MaxCrumbs \in Nat \ {0} /\ w \in Nat /\ w < MaxCrumbs /\ i \in Nat /\ 1 <= i /\ i <= MaxCrumbs
  BY AppCallsAssumption
<1>1. PICK a \in 0 .. 2 * MaxCrumbs - 1 : a = w + i - 1
  BY <1>0
<1>2. j = a % MaxCrumbs
  BY <1>1
<1>3. j = IF a < MaxCrumbs THEN a ELSE a - MaxCrumbs
  BY <1>2, OnceRound
<1>4. j \in 0 .. MaxCrumbs - 1
  BY <1>0, <1>1, <1>3
<1>5. PICK k : k = Turn(w, j)
  OBVIOUS
<1>6. (j >= w => k = j - w) /\ (j < w => k = j + MaxCrumbs - w)
  BY <1>4, <1>5, TurnIs
<1>7. k + 1 = i
  BY <1>0, <1>1, <1>3, <1>4, <1>6
<1> QED
  BY <1>4, <1>5, <1>7

\* The first of some crumbs, and one more.
LEMMA OneMoreOf ==
  ASSUME NEW c \in Seq(Nat \ {0}), NEW m \in 1 .. Len(c)
  PROVE  SubSeq(c, 1, m) = SubSeq(c, 1, m - 1) \o <<c[m]>>
<1>1. m \in Nat /\ m >= 1 /\ m <= Len(c) /\ Len(c) \in Nat
  OBVIOUS
<1>2. PICK a : a = SubSeq(c, 1, m - 1)
  OBVIOUS
<1>3. a \in Seq(Nat \ {0}) /\ Len(a) = m - 1 /\ \A i \in 1 .. m - 1 : a[i] = c[i]
  BY <1>1, <1>2
<1>4. PICK b : b = SubSeq(c, 1, m)
  OBVIOUS
<1>5. b \in Seq(Nat \ {0}) /\ Len(b) = m /\ \A i \in 1 .. m : b[i] = c[i]
  BY <1>1, <1>4
<1>6. PICK l : l = <<c[m]>>
  OBVIOUS
<1>7. l \in Seq(Nat \ {0}) /\ Len(l) = 1 /\ l[1] = c[m]
  BY <1>6
<1>8. PICK d : d = a \o l
  OBVIOUS
<1>9. d \in Seq(Nat \ {0}) /\ Len(d) = m /\ \A i \in 1 .. m : d[i] = c[i]
  <2>0. /\ d \in Seq(Nat \ {0}) /\ Len(d) = Len(a) + Len(l)
        /\ \A i \in 1 .. Len(l) : d[Len(a) + i] = l[i]
    <3>1. /\ d \in Seq(Nat \ {0}) /\ Len(d) = Len(a) + Len(l)
          /\ \A i \in 1 .. Len(a) + Len(l) : d[i] = IF i <= Len(a) THEN a[i] ELSE l[i - Len(a)]
      BY <1>3, <1>7, <1>8, ConcatProperties
    <3>2. Len(a) \in Nat /\ Len(l) \in Nat
      BY <1>3, <1>7
    <3>3. \A i \in 1 .. Len(l) : Len(a) + i \in 1 .. Len(a) + Len(l) /\ ~(Len(a) + i <= Len(a))
                                 /\ (Len(a) + i) - Len(a) = i
      BY <3>2
    <3> QED
      BY <3>1, <3>3
  <2>1. d \in Seq(Nat \ {0}) /\ Len(d) = (m - 1) + 1
    BY <1>3, <1>7, <2>0
  <2>2. \A i \in 1 .. m - 1 : d[i] = a[i]
    BY <1>3, <1>7, <1>8
  <2>3. d[(m - 1) + 1] = l[1]
    BY <1>3, <1>7, <2>0
  <2>4. (m - 1) + 1 = m /\ \A i \in 1 .. m : i = m \/ i \in 1 .. m - 1
    BY <1>1
  <2> QED
    BY <1>3, <1>7, <2>1, <2>2, <2>3, <2>4
<1>10. b = d
  <2>1. Len(b) = Len(d) /\ \A i \in 1 .. Len(b) : b[i] = d[i]
    BY <1>1, <1>5, <1>9
  <2>2. b \in Seq(Nat \ {0}) /\ d \in Seq(Nat \ {0})
    BY <1>5, <1>9
  <2> QED
    BY <2>1, <2>2, SeqEqual
<1> QED
  BY <1>2, <1>4, <1>6, <1>8, <1>10

\* None of them, and all.
LEMMA FirstOf ==
  ASSUME NEW c \in Seq(Nat \ {0})
  PROVE  SubSeq(c, 1, 0) = <<>> /\ SubSeq(c, 1, Len(c)) = c
OBVIOUS

\* What is read of the ring, part by part: nothing where nothing is expected.
PartOf(x) == IF x = 0 THEN <<>> ELSE <<x>>

\* Read in turn the ring has the crumbs.
LEMMA CrumbsAreRead ==
  ASSUME NEW c \in Seq(Nat \ {0}), Len(c) <= MaxCrumbs, NEW p, p = [i \in 1 .. MaxCrumbs |-> PartOf(Expected(c, i))]
  PROVE  FlattenSeq(p) = c
<1>0. MaxCrumbs \in Nat \ {0} /\ Len(c) \in Nat
  BY AppCallsAssumption
<1>1. PICK z \in Nat : z = MaxCrumbs - Len(c)
  BY <1>0
<1> DEFINE upto(i) == IF i <= z THEN 0 ELSE i - z
           f == [i \in 0 .. MaxCrumbs |-> SubSeq(c, 1, upto(i))]
<1>2. \A i \in 1 .. MaxCrumbs : i > z => i - z \in 1 .. Len(c)
  BY <1>0, <1>1
<1>3. ASSUME NEW i \in 1 .. MaxCrumbs
      PROVE  p[i] \in Seq(Nat \ {0}) /\ f[i] = f[i - 1] \o p[i]
  <2>0. i - 1 \in 0 .. MaxCrumbs /\ i \in 0 .. MaxCrumbs /\ i \in Nat /\ i >= 1
    BY <1>0
  <2>1. CASE i <= z
    <3>1. Expected(c, i) = 0
      BY <1>1, <2>1 DEF Expected
    <3>2. p[i] = <<>>
      BY <3>1 DEF PartOf
    <3>3. upto(i) = 0 /\ upto(i - 1) = 0
      BY <2>0, <2>1
    <3>4. f[i] = SubSeq(c, 1, 0) /\ f[i - 1] = SubSeq(c, 1, 0)
      BY <2>0, <3>3
    <3>5. f[i] = <<>> /\ f[i - 1] = <<>>
      BY <3>4, FirstOf
    <3>6. <<>> \in Seq(Nat \ {0}) /\ <<>> = <<>> \o <<>>
      OBVIOUS
    <3> HIDE DEF f
    <3> QED
      BY <3>2, <3>5, <3>6
  <2>2. CASE i > z
    <3>1. PICK m \in 1 .. Len(c) : m = i - z
      BY <1>2, <2>2
    <3>2. Expected(c, i) = c[m]
      BY <1>1, <2>0, <2>2, <3>1 DEF Expected
    <3>3. c[m] \in Nat \ {0}
      OBVIOUS
    <3>4. p[i] = <<c[m]>>
      BY <3>2, <3>3 DEF PartOf
    <3>5. upto(i) = m /\ upto(i - 1) = m - 1
      BY <2>0, <2>2, <3>1
    <3>6. f[i] = SubSeq(c, 1, m) /\ f[i - 1] = SubSeq(c, 1, m - 1)
      BY <2>0, <3>5
    <3>7. SubSeq(c, 1, m) = SubSeq(c, 1, m - 1) \o <<c[m]>>
      BY OneMoreOf
    <3>8. <<c[m]>> \in Seq(Nat \ {0})
      BY <3>3
    <3> HIDE DEF f
    <3> QED
      BY <3>4, <3>6, <3>7, <3>8
  <2> QED
    BY <2>0, <2>1, <2>2
<1>4. p \in Seq(Seq(Nat \ {0})) /\ Len(p) = MaxCrumbs
  <2>1. DOMAIN p = 1 .. MaxCrumbs /\ \A i \in 1 .. MaxCrumbs : p[i] \in Seq(Nat \ {0})
    BY <1>3
  <2>2. p = [i \in 1 .. MaxCrumbs |-> p[i]]
    OBVIOUS
  <2> QED
    BY <1>0, <2>1, <2>2
<1>5. f[0] = <<>>
  <2>1. upto(0) = 0 /\ 0 \in 0 .. MaxCrumbs
    BY <1>0, <1>1
  <2> QED
    BY <2>1, FirstOf
<1>6. f[MaxCrumbs] = c
  <2>1. upto(MaxCrumbs) = Len(c) /\ MaxCrumbs \in 0 .. MaxCrumbs
    BY <1>0, <1>1
  <2>2. f[MaxCrumbs] = SubSeq(c, 1, Len(c))
    BY <2>1
  <2> QED
    BY <2>2, FirstOf
<1>7. Upto(p, MaxCrumbs, f)
  <2> HIDE DEF f
  <2> QED
    BY <1>3, <1>5 DEF Upto
<1>8. FlattenSeq(p) = f[MaxCrumbs]
  <2> HIDE DEF f
  <2>1. Upto(p, Len(p), f)
    BY <1>4, <1>7
  <2> QED
    BY <1>4, <2>1, FlatIs
<1> QED
  BY <1>6, <1>8

\* The instance has its own copy of the operator.
LEMMA SameFlatteningOfData == \A s : Data!FlattenSeq(s) = FlattenSeq(s)
BY Zenon DEF Data!FlattenSeq, FlattenSeq

\* When no call is made the ring is written as the scope's crumbs in their order.
LEMMA RingIsWritten ==
  ASSUME DataKinds, AllIdle, RingSettles
  PROVE  Data!Written = data_crumbs
<1>1. PICK w \in 0 .. MaxCrumbs - 1 : w = data_current
  BY DEF DataKinds
<1>2. PICK c \in Seq(Nat \ {0}) : c = data_crumbs /\ Len(c) <= MaxCrumbs
  BY DEF DataKinds
<1>3. Final = w /\ ~Awaits("crumb") /\ ~Awaits("crumbs?")
  BY <1>1 DEF Final, Awaits, AllIdle
<1>4. ASSUME NEW j \in 0 .. MaxCrumbs - 1 PROVE data_ring[j] = Target(c, w, j)
  <2>1. PICK p : p = Data!Slot(j)
    OBVIOUS
  <2>2. Arrives(p, Target(c, w, j), j)
    BY <1>2, <1>3, <2>1 DEF RingSettles
  <2>3. ~Comes(p)
    BY DEF Comes, AllIdle
  <2> QED
    BY <1>3, <2>1, <2>2, <2>3, SlotIs DEF Arrives
<1>5. ASSUME NEW i \in 1 .. MaxCrumbs PROVE data_ring[(w + i - 1) % MaxCrumbs] = Expected(c, i)
  <2>1. PICK j : j = (w + i - 1) % MaxCrumbs
    OBVIOUS
  <2>2. j \in 0 .. MaxCrumbs - 1 /\ Turn(w, j) + 1 = i
    BY <2>1, ReadInTurn
  <2>3. data_ring[j] = Expected(c, i)
    BY <1>4, <2>2 DEF Target
  <2> QED
    BY <2>1, <2>3
<1>6. PICK p : p = [i \in 1 .. MaxCrumbs |-> PartOf(Expected(c, i))]
  OBVIOUS
<1>7. Data!Written = Data!FlattenSeq(p)
  <2>1. \A i \in 1 .. MaxCrumbs :
           (LET x == data_ring[(data_current + i - 1) % MaxCrumbs] IN IF x = Data!Nil THEN <<>> ELSE <<x>>)
              = PartOf(Expected(c, i))
    BY <1>1, <1>5 DEF PartOf, Data!Nil
  <2>2. [i \in 1 .. MaxCrumbs |->
           LET x == data_ring[(data_current + i - 1) % MaxCrumbs] IN IF x = Data!Nil THEN <<>> ELSE <<x>>] = p
    BY <1>6, <2>1
  <2> QED
    BY <2>2, Zenon DEF Data!Written
<1> QED
  BY <1>2, <1>6, <1>7, SameFlatteningOfData, CrumbsAreRead

-----------------------------------------------------------------------------
(* The theorem. *)

\* What is kept of the data, whatever the threads do.
DataInv == /\ CallsInTurn /\ DataKinds /\ CallsAreCounted
           /\ Kept /\ Homes /\ UnderLock /\ Settled

\* It holds before the first call.
LEMMA DataInvInit == Data!Init => DataInv
<1> SUFFICES ASSUME Data!Init PROVE DataInv
  OBVIOUS
<1> USE DEF Data!Nil
<1>0. MaxCrumbs \in Nat \ {0} /\ MaxCalls \in Nat
  BY AppCallsAssumption
<1>1. \A t \in Threads : data_call[t] = [op |-> "idle", todo |-> <<>>]
  BY DEF Data!Init, Data!Idle
<1>2. AllIdle
  <2> SUFFICES ASSUME NEW t \in Threads PROVE Op(t) = "idle" /\ Todo(t) = <<>> /\ Pending(t) = {}
    BY DEF AllIdle
  <2>1. Op(t) = "idle" /\ Todo(t) = <<>>
    BY <1>1 DEF Op, Todo
  <2> QED
    BY <2>1 DEF Pending, Among
<1>3. CallsInTurn
  <2>1. data_call = [t \in Threads |-> [op |-> Op(t), todo |-> Todo(t)]]
    BY DEF Data!Init, Data!Idle, Op, Todo
  <2>2. "idle" \in CallKinds /\ <<>> \in Left("idle")
    BY DEF CallKinds, Left, InTurn
  <2> QED
    BY <1>2, <2>1, <2>2 DEF CallsInTurn, AllIdle
<1>4. DataKinds
  <2>1. <<>> \in Seq(Nat \ {0}) /\ Len(<<>>) <= MaxCrumbs /\ 0 \in 0 .. MaxCrumbs - 1 /\ 0 \in Nat
    BY <1>0
  <2>2. data_array \in {"null", "ready", "freed", "garbage"}
    BY DEF Data!Init
  <2> QED
    BY <2>1, <2>2 DEF Data!Init, DataKinds
<1>5. CallsAreCounted /\ \A k : ~Did(k)
  BY <1>0 DEF Data!Init, CallsAreCounted, Did
<1>6. Kept
  <2>1. LockOf("idle") = "none"
    BY LocksAre
  <2> QED
    BY <1>2, <2>1 DEF Kept, Held, Recorded, StartsAlone, AllIdle
<1>7. \A p \in Places : Data!At(p) = 0
  <2>1. \A f \in Data!Fields : Data!At(Data!Field(f)) = 0
    BY AtPlaces DEF Data!Init
  <2>2. \A i \in 0 .. MaxCrumbs - 1 : Data!At(Data!Slot(i)) = 0
    BY AtPlaces DEF Data!Init
  <2> QED
    BY <2>1, <2>2 DEF Places, FieldPlaces, RingPlaces
<1>8. Homes
  <2>1. data_live = {} /\ data_user = 0 /\ data_calls = 0
    BY DEF Data!Init
  <2> QED
    BY <1>2, <1>7, <2>1 DEF Homes, OnePlace, AllLive, NewIsNew, DropsHere, AllIdle
<1>9. UnderLock
  <2>1. data_twice = {}
    BY DEF Data!Init
  <2> QED
    BY <1>2, <2>1 DEF UnderLock, InPlace, AllIdle
<1>10. \A p, x : Settles(p, x)
  BY <1>2 DEF Settles, AllIdle
<1>11. FieldsSettle
  BY <1>10, AtPlaces DEF FieldsSettle, Data!Init
<1>12. RingSettles
  <2>1. data_crumbs = <<>> /\ Final \in 0 .. MaxCrumbs - 1
    BY <1>4, FinalIs DEF Data!Init
  <2>2. \A j \in 0 .. MaxCrumbs - 1 : Target(data_crumbs, Final, j) = 0 /\ Data!At(Data!Slot(j)) = 0
    <3> TAKE j \in 0 .. MaxCrumbs - 1
    <3>1. Target(<<>>, Final, j) = 0
      BY <2>1, NoCrumbs
    <3> QED
      BY <2>1, <3>1, AtPlaces DEF Data!Init
  <2> QED
    BY <1>2, <1>10, <2>1, <2>2 DEF RingSettles, Arrives, AllIdle
<1>13. Settled
  BY <1>2, <1>11, <1>12 DEF Settled, AtMostOne, AllIdle
<1> QED
  BY <1>3, <1>4, <1>5, <1>6, <1>8, <1>9, <1>13 DEF DataInv

\* No step adds a call.
LEMMA CountedBySteps ==
  ASSUME CallsAreCounted, NEW t \in Threads, NEW op, NEW h, NEW r, NEW e, Takes(t, op, h, r, e)
  PROVE  CallsAreCounted'
BY DEF CallsAreCounted, Takes

\* Nothing changes.
LEMMA DataInvSame == DataInv /\ UNCHANGED dataVars => DataInv'
<1> SUFFICES ASSUME DataInv, UNCHANGED dataVars PROVE DataInv'
  OBVIOUS
<1> USE DEF dataVars
<1>1. /\ \A t : Op(t)' = Op(t) /\ Todo(t)' = Todo(t) /\ Pending(t)' = Pending(t)
      /\ \A p : Data!At(p)' = Data!At(p)
      /\ \A k : Did(k)' <=> Did(k)
  BY DEF Op, Todo, Pending, Data!At, Did
<1>2. CallsInTurn' /\ DataKinds' /\ CallsAreCounted'
  BY <1>1 DEF DataInv, CallsInTurn, DataKinds, CallsAreCounted
<1>3. Kept'
  BY <1>1 DEF DataInv, Kept, Held, Recorded, StartsAlone
<1>4. Homes'
  BY <1>1 DEF DataInv, Homes, OnePlace, AllLive, NewIsNew, Unseen, DropsHere
<1>5. UnderLock'
  BY <1>1 DEF DataInv, UnderLock, InPlace
<1>6. Settled'
  <2>1. (\A p, x : Settles(p, x)' <=> Settles(p, x)) /\ (\A p : Comes(p)' <=> Comes(p))
        /\ (\A k : Awaits(k)' <=> Awaits(k))
    BY <1>1 DEF Settles, Comes, Awaits
  <2>2. Final' = Final
    BY <2>1 DEF Final
  <2>3. FieldsSettle' <=> FieldsSettle
    BY <1>1, <2>1 DEF FieldsSettle
  <2>4. RingSettles' <=> RingSettles
    BY <1>1, <2>1, <2>2 DEF RingSettles, Arrives
  <2>5. (Data!OneByOne' <=> Data!OneByOne) /\ (AtMostOne' <=> AtMostOne)
    BY <1>1 DEF Data!OneByOne, AtMostOne
  <2> QED
    BY <1>1, <2>3, <2>4, <2>5 DEF DataInv, Settled
<1> QED
  BY <1>2, <1>3, <1>4, <1>5, <1>6 DEF DataInv

\* A value that does not encode changes the scope and what is remembered of the calls.
LEMMA DataInvUnencoded ==
  ASSUME DataInv, NEW t \in Threads, Data!NotEncoded(t) PROVE DataInv'
<1>0. CallsInTurn /\ DataKinds /\ CallsAreCounted /\ Kept /\ Homes /\ UnderLock
  BY DEF DataInv
<1>1. UNCHANGED <<data_text, data_ring, data_current, data_array, data_user, data_rules, data_live,
                  data_twice, data_lock, data_call>>
  BY DEF Data!NotEncoded
<1>2. /\ \A u : Op(u)' = Op(u) /\ Todo(u)' = Todo(u) /\ Pending(u)' = Pending(u)
      /\ \A p : Data!At(p)' = Data!At(p)
  BY <1>1 DEF Op, Todo, Pending, Data!At
<1>3. data_calls \in Nat /\ data_calls < MaxCalls /\ data_calls' = data_calls + 1
      /\ Len(data_history) = data_calls
  BY <1>0, AppCallsAssumption DEF Data!NotEncoded, CallsAreCounted
<1>4. PICK q \in BOOLEAN : data_history' = Append(data_history, [op |-> "unencoded", alone |-> q])
  <2>1. PICK q \in BOOLEAN : q <=> Data!Quiet
    OBVIOUS
  <2>2. Data!Quiet \in BOOLEAN
    BY DEF Data!Quiet
  <2>3. Data!Quiet = q
    BY <2>1, <2>2
  <2> QED
    BY <2>3 DEF Data!NotEncoded
<1>5. PICK c : c = [op |-> "unencoded", alone |-> q]
  OBVIOUS
<1>6. c \in [op : CallKinds \cup {"unencoded"}, alone : BOOLEAN] /\ c.op = "unencoded"
  BY <1>5
<1>7. data_history' = Append(data_history, c)
  BY <1>4, <1>5
<1>8. /\ data_history \in Seq([op : CallKinds \cup {"unencoded"}, alone : BOOLEAN])
      /\ data_history' \in Seq([op : CallKinds \cup {"unencoded"}, alone : BOOLEAN])
      /\ Len(data_history') = data_calls + 1 /\ data_history'[data_calls + 1] = c
      /\ \A i \in 1 .. data_calls : data_history'[i] = data_history[i]
  BY <1>0, <1>3, <1>6, <1>7 DEF CallsAreCounted
<1>9. CallsAreCounted'
  <2>1. data_calls' \in 0 .. MaxCalls
    BY <1>3, AppCallsAssumption
  <2> QED
    BY <1>3, <1>8, <2>1 DEF CallsAreCounted
<1>10. (\A k : Did(k) => Did(k)') /\ (\A k : Did(k)' => Did(k) \/ k = "unencoded") /\ Did("unencoded")'
  <2>1. 1 .. data_calls \subseteq 1 .. data_calls' /\ data_calls + 1 \in 1 .. data_calls'
        /\ \A i \in 1 .. data_calls' : i \in 1 .. data_calls \/ i = data_calls + 1
    BY <1>3
  <2> QED
    BY <1>6, <1>8, <2>1 DEF Did
<1>11. CallsInTurn'
  BY <1>0, <1>1, <1>2 DEF CallsInTurn
<1>12. DataKinds'
  <2>1. data_scope' \in [Data!Fields -> Nat]
    <3>1. data_calls + 1 \in Nat
      BY <1>3
    <3>2. \/ UNCHANGED data_scope
          \/ \E f \in Data!Fields : data_scope' = [data_scope EXCEPT ![f] = data_calls + 1]
      BY DEF Data!NotEncoded
    <3> QED
      BY <1>0, <3>1, <3>2 DEF DataKinds
  <2>2. data_crumbs' \in Seq(Nat \ {0}) /\ Len(data_crumbs') <= MaxCrumbs
    <3>1. data_crumbs \in Seq(Nat \ {0}) /\ Len(data_crumbs) <= MaxCrumbs
      BY <1>0 DEF DataKinds
    <3>2. CASE UNCHANGED data_crumbs
      BY <3>1, <3>2
    <3>3. CASE data_crumbs' = Data!WithCrumb(data_calls + 1)
      <4>1. PICK all : all = Append(data_crumbs, data_calls + 1)
        OBVIOUS
      <4>2. data_calls + 1 \in Nat \ {0}
        BY <1>3
      <4>3. all \in Seq(Nat \ {0}) /\ Len(all) = Len(data_crumbs) + 1 /\ Len(data_crumbs) \in Nat
        BY <3>1, <4>1, <4>2
      <4>4. Tail(all) \in Seq(Nat \ {0}) /\ Len(Tail(all)) = Len(data_crumbs)
        BY <4>3
      <4>5. data_crumbs' = IF Len(all) > MaxCrumbs THEN Tail(all) ELSE all
        BY <3>3, <4>1 DEF Data!WithCrumb
      <4>6. Len(all) > MaxCrumbs \/ Len(all) <= MaxCrumbs
        BY <4>3, AppCallsAssumption
      <4> QED
        BY <3>1, <4>3, <4>4, <4>5, <4>6
    <3> QED
      BY <3>2, <3>3 DEF Data!NotEncoded
  <2> QED
    BY <1>0, <1>1, <2>1, <2>2 DEF DataKinds
<1>13. Kept'
  BY <1>0, <1>1, <1>2, <1>10 DEF Kept, Held, Recorded, StartsAlone
<1>14. Homes'
  <2>1. OnePlace'
    BY <1>0, <1>2 DEF Homes, OnePlace
  <2>2. AllLive'
    <3>1. 1 .. data_calls \subseteq 1 .. data_calls' /\ 0 .. data_calls \subseteq 0 .. data_calls'
      BY <1>3
    <3>2. data_live' \subseteq 1 .. data_calls' /\ data_user' \in 0 .. data_calls'
      BY <1>0, <1>1, <3>1 DEF Homes, AllLive
    <3> QED
      BY <1>0, <1>1, <1>2, <3>2 DEF Homes, AllLive
  <2>3. NewIsNew'
    <3>1. SUFFICES ASSUME NEW u \in Threads, NEW s \in Pending(u), Brings(s) # 0 PROVE Unseen(Brings(s), u)'
      BY <1>2 DEF NewIsNew
    <3>2. Unseen(Brings(s), u)
      BY <1>0, <3>1 DEF Homes, NewIsNew
    <3>3. Brings(s) \in Nat
      BY <1>0, PendingKinds
    <3>4. Brings(s) <= data_calls'
      BY <1>3, <3>2, <3>3 DEF Unseen
    <3> QED
      BY <1>1, <1>2, <3>2, <3>4 DEF Unseen
  <2>4. DropsHere'
    <3>1. SUFFICES ASSUME NEW u \in Threads, NEW s \in Pending(u), s[1] = "drop", s[3] # 0
                   PROVE  s[3] <= data_calls' /\ \A z \in Places : (Data!At(z) = s[3] => z = s[2])
      BY <1>2 DEF DropsHere
    <3>2. s[3] <= data_calls /\ \A z \in Places : (Data!At(z) = s[3] => z = s[2])
      BY <1>0, <3>1 DEF Homes, DropsHere
    <3>3. s[3] \in Nat
      BY <1>0, <3>1, PendingKinds DEF OnPlace
    <3> QED
      BY <1>3, <3>2, <3>3
  <2> QED
    BY <2>1, <2>2, <2>3, <2>4 DEF Homes
<1>15. UnderLock'
  BY <1>0, <1>1, <1>2, <1>10 DEF UnderLock, InPlace
<1>16. Settled'
  BY <1>10 DEF Settled
<1> QED
  BY <1>9, <1>11, <1>12, <1>13, <1>14, <1>15, <1>16 DEF DataInv

\* Every call and every step keeps it.
LEMMA DataInvNext == DataInv /\ [Data!Next]_dataVars => DataInv'
<1> SUFFICES ASSUME DataInv, Data!Next PROVE DataInv'
  BY DataInvSame
<1>0. CallsInTurn /\ DataKinds /\ CallsAreCounted /\ Kept /\ Homes /\ UnderLock /\ Settled
  BY DEF DataInv
<1>1. PICK t \in Threads : Data!Calls(t) \/ Data!NotEncoded(t) \/ Data!Steps(t)
  BY DEF Data!Next
<1>2. CASE Data!Calls(t)
  <2>1. CallsInTurn' /\ CallsAreCounted' /\ DataKinds' /\ \E op, e : Begun(t, op, e) /\ BeginsAs(op, e)
    BY <1>0, <1>2, CallsBegin
  <2>2. PICK op, e : Begun(t, op, e) /\ BeginsAs(op, e)
    BY <2>1
  <2>3. Kept'
    BY <1>0, <2>2, KeptByCalls
  <2>4. Homes'
    BY <1>0, <2>2, HomesByCalls
  <2>5. UnderLock'
    BY <1>0, <2>2, UnderLockByCalls
  <2>6. Settled'
    BY <1>0, <2>1, <2>2, SettledByCalls
  <2> QED
    BY <2>1, <2>3, <2>4, <2>5, <2>6 DEF DataInv
<1>3. CASE Data!Steps(t)
  <2>1. CallsInTurn' /\ \E op, h, r, e : \E n, x \in Nat : Moves(t, op, h, r, e, n, x)
    BY <1>0, <1>3, StepsMove
  <2>2. PICK op, h, r, e : \E n, x \in Nat : Moves(t, op, h, r, e, n, x)
    BY <2>1
  <2>3. PICK n \in Nat, x \in Nat : Moves(t, op, h, r, e, n, x)
    BY <2>2
  <2>4. DataKinds'
    BY <1>0, <2>3, MovesKeepKinds
  <2>5. CallsAreCounted'
    <3>1. Takes(t, op, h, r, e)
      BY <2>3, MovesLock
    <3> QED
      BY <1>0, <3>1, CountedBySteps
  <2>6. Kept'
    BY <1>0, <2>3, KeptBySteps
  <2>7. Homes'
    BY <1>0, <2>3, HomesBySteps
  <2>8. UnderLock'
    BY <1>0, <2>3, UnderLockBySteps
  <2>9. Settled'
    BY <1>0, <2>3, <2>4, SettledBySteps
  <2> QED
    BY <2>1, <2>4, <2>5, <2>6, <2>7, <2>8, <2>9 DEF DataInv
<1>4. CASE Data!NotEncoded(t)
  BY <1>4, DataInvUnencoded
<1> QED
  BY <1>1, <1>2, <1>3, <1>4

\* What follows from it for a handler.
LEMMA DataGoals ==
  DataInv => Data!TypeOK /\ Data!HandlerReadsLiveTexts /\ Data!LocksKeepTexts /\ Data!CopyIsTheScope
<1> SUFFICES ASSUME DataInv
             PROVE  Data!TypeOK /\ Data!HandlerReadsLiveTexts /\ Data!LocksKeepTexts /\ Data!CopyIsTheScope
  OBVIOUS
<1>0. CallsInTurn /\ DataKinds /\ CallsAreCounted /\ Homes /\ UnderLock /\ Settled
  BY DEF DataInv
<1>1. Data!TypeOK
  <2>1. data_live \subseteq 1 .. data_calls /\ data_calls \in 0 .. MaxCalls /\ Len(data_history) = data_calls
    BY <1>0 DEF Homes, AllLive, CallsAreCounted
  <2>2. data_live \subseteq 1 .. MaxCalls
    BY <2>1, AppCallsAssumption
  <2> QED
    BY <1>0, <2>1, <2>2 DEF Data!TypeOK, DataKinds
<1>2. Data!HandlerReadsLiveTexts
  <2>1. \A p \in Places : Data!At(p) # 0 => Data!At(p) \in data_live
    BY <1>0 DEF Homes, AllLive
  <2>2. \A f \in Data!Fields : data_text[f] # 0 => data_text[f] \in data_live
    BY <2>1, AtPlaces DEF Places
  <2>3. \A i \in 0 .. MaxCrumbs - 1 : data_ring[i] # 0 => data_ring[i] \in data_live
    BY <2>1, AtPlaces DEF Places
  <2>4. DOMAIN data_ring = 0 .. MaxCrumbs - 1
    BY <1>0 DEF DataKinds
  <2> QED
    BY <2>2, <2>3, <2>4 DEF Data!HandlerReadsLiveTexts, Data!Nil
<1>3. Data!LocksKeepTexts
  <2> SUFFICES ASSUME Data!Times("clear") + Data!Times("removeContext") = 0 PROVE data_twice \subseteq Data!Unlocked
    BY DEF Data!LocksKeepTexts
  <2>1. Data!Times("clear") \in Nat /\ Data!Times("removeContext") \in Nat
    BY <1>0, NoneWasMade
  <2>2. Data!Times("clear") = 0 /\ Data!Times("removeContext") = 0
    BY <2>1
  <2>3. ~Did("clear") /\ ~Did("removeContext")
    BY <1>0, <2>2, NoneWasMade
  <2> QED
    BY <1>0, <2>3 DEF UnderLock
<1>4. Data!CopyIsTheScope
  <2> SUFFICES ASSUME Data!Quiet, Data!OneByOne, Data!Times("unencoded") = 0
               PROVE  /\ Data!Times("removeContext") = 0 => \A f \in Data!Fields : data_text[f] = data_scope[f]
                      /\ data_array = "ready" /\ Data!Times("configure") = 0 => Data!Written = data_crumbs
    BY DEF Data!CopyIsTheScope
  <2>1. AllIdle
    <3> SUFFICES ASSUME NEW u \in Threads PROVE Op(u) = "idle" /\ Todo(u) = <<>> /\ Pending(u) = {}
      BY DEF AllIdle
    <3>1. Op(u) = "idle" /\ Todo(u) = <<>>
      BY DEF Data!Quiet, Data!Idle, Op, Todo
    <3> QED
      BY <3>1 DEF Pending, Among
  <2>0. ~Did("unencoded")
    BY <1>0, NoneWasMade
  <2>2. ASSUME Data!Times("removeContext") = 0, NEW f \in Data!Fields PROVE data_text[f] = data_scope[f]
    <3>1. FieldsSettle
      BY <1>0, <2>0, <2>2, NoneWasMade DEF Settled
    <3>2. ~Comes(Data!Field(f))
      BY <2>1 DEF Comes, AllIdle
    <3> QED
      BY <3>1, <3>2, AtPlaces DEF FieldsSettle
  <2>3. ASSUME data_array = "ready", Data!Times("configure") = 0 PROVE Data!Written = data_crumbs
    <3>1. RingSettles
      BY <1>0, <2>0, <2>3, NoneWasMade DEF Settled
    <3> QED
      BY <1>0, <2>1, <3>1, RingIsWritten
  <2> QED
    BY <2>2, <2>3
<1> QED
  BY <1>1, <1>2, <1>3, <1>4

\* Wherever the threads are stopped no text of the scope is read after it was freed; the locks
\* keep each text from being freed twice; and after calls that did not overlap, whose values JSON can
\* hold, the copy a handler reads is what the scope is, the ring's crumbs in their order: for any
\* number of threads, crumbs and calls.
THEOREM DataIsKept == MCSpec => []DataOfReports
<1> DEFINE Inv == part = "data" => DataInv
<1>1. MCInit => Inv
  BY DataInvInit DEF MCInit
<1>2. Inv /\ [MCNext]_allVars => Inv'
  <2> SUFFICES ASSUME Inv, [MCNext]_allVars, part' = "data" PROVE DataInv'
    OBVIOUS
  <2>1. part = "data" /\ [Data!Next]_dataVars
    BY DEF MCNext, RunReports, RunPrinting, RunData, RunRegistry, allVars
  <2> QED
    BY <2>1, DataInvNext
<1>3. Inv => DataOfReports
  BY DataGoals DEF DataOfReports
<1> QED
  BY <1>1, <1>2, <1>3, PTL DEF MCSpec
=============================================================================
