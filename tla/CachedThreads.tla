----------------------------- MODULE CachedThreads -----------------------------
(***************************************************************************)
(* The list of threads and their names that a thread of its own keeps for  *)
(* reports, and reports that look names up while it may be at work: crash  *)
(* handlers, which suspended every thread first, and user reports, which   *)
(* did not.  Block n holds what update n has found.                        *)
(***************************************************************************)
EXTENDS Integers, Sequences, FiniteSets

CONSTANTS
    Threads,
    Named,        \* those with a name
    MaxUpdates,   \* bound: updates of the list
    Reports       \* reports that may be under way

VARIABLES
    found,        \* update -> the threads it has found
    mach,         \* g_allMachThreads: the update it comes from, 0: NULL
    names,        \* g_allThreadNames, likewise
    count,        \* g_allThreadsCount
    live,         \* allocated memory
    pc, old,      \* updateThreadList: its next step; oldThreadsCount
    semaphore,    \* g_semaphoreCount
    reading       \* report -> "no", or whether it froze the list at rest, and what it holds

vars == <<found, mach, names, count, live, pc, old, semaphore, reading>>

TypeOK ==
    /\ mach \in 0..MaxUpdates /\ names \in 0..MaxUpdates /\ count \in 0..Cardinality(Threads)
    /\ pc \in {"sleep", "collect", "shrink", "mach", "names", "grow", "free"}
    /\ semaphore \in 0..Cardinality(Reports)

Size(n)    == IF n = 0 THEN 0 ELSE Len(found[n])
NamesIn(n) == {<<"name", n, t>> : t \in Named}
Arrays(n)  == IF n = 0 THEN {} ELSE {<<"mach", n>>, <<"names", n>>}

Init ==
    /\ found = <<>> /\ mach = 0 /\ names = 0 /\ count = 0 /\ live = {} /\ old = 0
    /\ pc = "sleep" /\ semaphore = 0 /\ reading = [r \in Reports |-> [state |-> "no"]]
-----------------------------------------------------------------------------
(* monitorCachedData, with the steps of updateThreadList that others see.  *)

\* Mutant of Wake: it does not look whether the list is frozen.
WakeAnyway ==
    /\ pc = "sleep" /\ Len(found) < MaxUpdates
    /\ pc' = "collect" /\ old' = count
    /\ UNCHANGED <<found, mach, names, count, live, semaphore, reading>>

Wake ==
    /\ pc = "sleep" /\ Len(found) < MaxUpdates /\ semaphore <= 0
    /\ pc' = "collect" /\ old' = count
    /\ UNCHANGED <<found, mach, names, count, live, semaphore, reading>>

Collect ==
    /\ pc = "collect"
    /\ \E n \in 1..Cardinality(Threads) : \E s \in [1..n -> Threads] :
          /\ \A i, j \in 1..n : s[i] = s[j] => i = j
          /\ found' = Append(found, s)
          /\ live' = live \cup Arrays(Len(found')) \cup
                     {x \in NamesIn(Len(found')) : \E i \in 1..n : s[i] = x[3]}
    /\ pc' = "shrink" /\ UNCHANGED <<mach, names, count, old, semaphore, reading>>

\* Mutant of Shrink: the count is set when the lists are in place, not before.
ShrinkLate ==
    /\ pc = "shrink" /\ pc' = "mach"
    /\ UNCHANGED <<found, mach, names, count, live, old, semaphore, reading>>

Shrink ==
    /\ pc = "shrink" /\ pc' = "mach"
    /\ count' = IF count < Len(found[Len(found)]) THEN count ELSE Len(found[Len(found)])
    /\ UNCHANGED <<found, mach, names, live, old, semaphore, reading>>

SwapThreads ==
    /\ pc = "mach" /\ mach' = Len(found) /\ pc' = "names"
    /\ UNCHANGED <<found, names, count, live, old, semaphore, reading>>

SwapNames ==
    /\ pc = "names" /\ names' = Len(found) /\ pc' = "grow"
    /\ UNCHANGED <<found, mach, count, live, old, semaphore, reading>>

Grow ==
    /\ pc = "grow" /\ count' = Len(found[Len(found)]) /\ pc' = "free"
    /\ UNCHANGED <<found, mach, names, live, old, semaphore, reading>>

\* The names of the first oldThreadsCount entries of the array that was replaced.
Free ==
    /\ pc = "free" /\ pc' = "sleep"
    /\ LET last == Len(found) - 1 IN
       live' = (live \ Arrays(last)) \ {<<"name", last, found[last][i]>> : i \in 1..old}
    /\ UNCHANGED <<found, mach, names, count, old, semaphore, reading>>
-----------------------------------------------------------------------------
(* Reports.  A pause of a microsecond gives an update under way a chance   *)
(* to end; nothing makes sure that it has.                                 *)

Freeze(r) ==
    /\ reading[r].state = "no"
    /\ semaphore' = semaphore + 1
    /\ reading' = [reading EXCEPT ![r] = [state |-> "frozen", rested |-> pc = "sleep"]]
    /\ UNCHANGED <<found, mach, names, count, live, pc, old>>

\* getThreadName: the first entry that is the thread.
Lookup(r) ==
    /\ reading[r].state = "frozen"
    /\ \E i \in 1..count :
          reading' = [reading EXCEPT ![r] =
              [state |-> "held", rested |-> @.rested,
               of |-> found[mach][i], name |-> found[names][i], from |-> names]]
    /\ UNCHANGED <<found, mach, names, count, live, pc, old, semaphore>>

Unfreeze(r) ==
    /\ reading[r].state # "no"
    /\ semaphore' = IF semaphore - 1 < 0 THEN semaphore ELSE semaphore - 1
    /\ reading' = [reading EXCEPT ![r] = [state |-> "no"]]
    /\ UNCHANGED <<found, mach, names, count, live, pc, old>>

Next ==
    \/ Wake \/ Collect \/ Shrink \/ SwapThreads \/ SwapNames \/ Grow \/ Free
    \/ \E r \in Reports : Freeze(r) \/ Lookup(r) \/ Unfreeze(r)
Spec == Init /\ [][Next]_vars
-----------------------------------------------------------------------------
\* Wherever the thread that updates is suspended, every entry a handler looks at is inside both
\* arrays, and the arrays and the names in them are allocated.
HandlerReadsLive ==
    /\ count <= Size(mach) /\ count <= Size(names)
    /\ count > 0 => Arrays(mach) \cup Arrays(names) \subseteq live
    /\ \A i \in 1..count : found[names][i] \in Named => <<"name", names, found[names][i]>> \in live

\* A report that froze the list at rest reads names that stay allocated until it is written,
\* and they are the names of the threads it asks for, although nothing is suspended.
FrozenListStays ==
    \A r \in Reports : reading[r].state = "held" /\ reading[r].rested =>
        /\ reading[r].of = reading[r].name
        /\ reading[r].name \in Named => <<"name", reading[r].from, reading[r].name>> \in live

\* Between updates nothing is allocated but the list that is published.
NothingLeaks ==
    pc = "sleep" /\ names # 0 =>
        live = Arrays(names) \cup {<<"name", names, found[names][i]>> : i \in {j \in 1..count : found[names][j] \in Named}}

(* What the code does not keep. *)

\* The freeze makes a report safe: an update under way may go on, and free what is read; and
\* a handler that interrupts an update may take one thread's name for another's.
EveryReportReadsLive ==
    \A r \in Reports : reading[r].state = "held" /\ reading[r].name \in Named =>
        <<"name", reading[r].from, reading[r].name>> \in live
NamesMatch == \A i \in 1..count : found[mach][i] = found[names][i]
=============================================================================
