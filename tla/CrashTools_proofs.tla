--------------------------- MODULE CrashTools_proofs ---------------------------
(***************************************************************************)
(* What is proved of the parts of a crash handler: of HandlerThreads, that *)
(* the others stand still while it writes, that everybody runs again, and  *)
(* that the cursor it writes from does not change; of CachedThreads, that  *)
(* a frozen list is alive and none is leaked; of AsyncHooks, that a        *)
(* backtrace lives as long as somebody holds it and the caller a thread    *)
(* reports is that of a block it runs.                                     *)
(***************************************************************************)
EXTENDS MCCrashTools, FiniteSetTheorems, SequenceTheorems, TLAPS

-----------------------------------------------------------------------------
(* HandlerThreads: who holds whom. *)

Holding(u) == {t \in Threads : u \in handlers_held[t]}

HandlersTyped ==
  /\ Handlers!TypeOK /\ handlers_held \in [Threads -> SUBSET Threads]
  /\ handlers_terminating \subseteq Threads

\* A handler suspends and resumes threads that are there and that are neither its own nor
\* reserved; it holds nobody before and after, nobody that it has still to suspend, and nobody
\* that it will not resume.
Duties ==
  \A t \in Threads :
     /\ handlers_rest[t] \cup handlers_held[t] \subseteq handlers_alive \ (Reserved \cup {t})
     /\ handlers_doing[t] \in {"runs", "throwing", "thrown", "done"} => handlers_held[t] = {}
     /\ handlers_doing[t] = "suspending" => handlers_rest[t] \cap handlers_held[t] = {}
     /\ handlers_doing[t] = "resuming" => handlers_held[t] \subseteq handlers_rest[t]
     /\ handlers_doing[t] = "throwing" => t \notin Reserved

\* The suspend count of a thread is the number of its holders, but less for one that was resumed
\* by a handler that did not hold it.
Counts ==
  \A u \in Threads :
     /\ handlers_suspended[u] <= Cardinality(Holding(u))
     /\ u \notin handlers_strays => handlers_suspended[u] = Cardinality(Holding(u))

\* Holders are finitely many.
LEMMA HoldingFinite == \A u : IsFiniteSet(Holding(u)) /\ Cardinality(Holding(u)) \in Nat
<1> TAKE u
<1>1. Holding(u) \subseteq Threads
  BY DEF Holding
<1> QED
  BY <1>1, FS_Subset, FS_CardinalityType, ToolsAssumption

\* At first nobody is held.
LEMMA HandlersBegin == Handlers!Init => HandlersTyped /\ Duties /\ Counts
<1> SUFFICES ASSUME Handlers!Init PROVE HandlersTyped /\ Duties /\ Counts
  OBVIOUS
<1>1. HandlersTyped
  BY ToolsAssumption DEF Handlers!Init, HandlersTyped, Handlers!TypeOK, Handlers!Activities
<1>2. Duties
  BY DEF Handlers!Init, Duties
<1>3. ASSUME NEW u \in Threads PROVE handlers_suspended[u] = Cardinality(Holding(u))
  <2>1. Holding(u) = {}
    BY DEF Handlers!Init, Holding
  <2>2. handlers_suspended[u] = 0
    BY DEF Handlers!Init
  <2> QED
    BY <2>1, <2>2, FS_EmptySet
<1>4. ASSUME NEW u \in Threads
      PROVE  /\ handlers_suspended[u] <= Cardinality(Holding(u))
             /\ u \notin handlers_strays => handlers_suspended[u] = Cardinality(Holding(u))
  BY <1>3, HoldingFinite
<1> QED
  BY <1>1, <1>2, <1>4 DEF Counts

\* Types are kept.
LEMMA HandlersKeepTypes == HandlersTyped /\ Handlers!Next => HandlersTyped'
<1> SUFFICES ASSUME HandlersTyped, Handlers!Next PROVE HandlersTyped'
  OBVIOUS
<1> USE DEF HandlersTyped, Handlers!TypeOK, Handlers!Goes, Handlers!Runs
<1>1. ASSUME NEW t \in Threads, Handlers!Start(t) PROVE HandlersTyped'
  BY <1>1 DEF Handlers!Start
<1>2. ASSUME NEW t \in Threads, Handlers!Throw(t) PROVE HandlersTyped'
  <2>1. handlers_doing' \in [Threads -> Handlers!Activities]
    BY <1>2 DEF Handlers!Throw, Handlers!Activities
  <2>2. handlers_g_stackCursor' \in [of : Threads \cup {Handlers!Nobody}, whole : BOOLEAN]
    <3>1. \/ handlers_g_stackCursor' = [of |-> t, whole |-> FALSE]
          \/ handlers_g_stackCursor' = handlers_g_stackCursor
      BY <1>2, Zenon DEF Handlers!Throw
    <3>2. CASE handlers_g_stackCursor' = [of |-> t, whole |-> FALSE]
      BY <3>2
    <3> QED
      BY <3>1, <3>2
  <2> QED
    BY <1>2, <2>1, <2>2 DEF Handlers!Throw
<1>3. ASSUME NEW t \in Threads, Handlers!Captured(t) PROVE HandlersTyped'
  BY <1>3 DEF Handlers!Captured, Handlers!Activities
<1>4. ASSUME NEW t \in Threads, Handlers!Catch(t) PROVE HandlersTyped'
  BY <1>4 DEF Handlers!Catch, Handlers!Activities
<1>5. ASSUME NEW t \in Threads, Handlers!Begin(t) PROVE HandlersTyped'
  BY <1>5 DEF Handlers!Begin, Handlers!Others, Handlers!Activities
<1>6. ASSUME NEW t \in Threads, Handlers!Suspended(t) PROVE HandlersTyped'
  BY <1>6 DEF Handlers!Suspended, Handlers!Activities
<1>7. ASSUME NEW t \in Threads, Handlers!Rethrown(t) PROVE HandlersTyped'
  BY <1>7 DEF Handlers!Rethrown, Handlers!Activities
<1>8. ASSUME NEW t \in Threads, Handlers!Written(t) PROVE HandlersTyped'
  BY <1>8 DEF Handlers!Written, Handlers!Others, Handlers!Activities
<1>9. ASSUME NEW t \in Threads, Handlers!Resumed(t) PROVE HandlersTyped'
  BY <1>9 DEF Handlers!Resumed, Handlers!Activities
<1>10. ASSUME NEW t \in Threads, NEW u \in Threads, Handlers!Suspend(t, u) PROVE HandlersTyped'
  BY <1>10 DEF Handlers!Suspend, Handlers!MoreSuspended
<1>11. ASSUME NEW t \in Threads, NEW u \in Threads, Handlers!Resume(t, u) PROVE HandlersTyped'
  BY <1>11 DEF Handlers!Resume, Handlers!LessSuspended
<1> HIDE DEF HandlersTyped
<1> QED
  BY <1>1, <1>2, <1>3, <1>4, <1>5, <1>6, <1>7, <1>8, <1>9, <1>10, <1>11 DEF Handlers!Next

\* Handlers keep to their duties.
LEMMA HandlersKeepDuties == HandlersTyped /\ Duties /\ Handlers!Next => Duties'
<1> SUFFICES ASSUME HandlersTyped, Duties, Handlers!Next, NEW v \in Threads
             PROVE  (/\ handlers_rest[v] \cup handlers_held[v] \subseteq handlers_alive \ (Reserved \cup {v})
                     /\ handlers_doing[v] \in {"runs", "throwing", "thrown", "done"} => handlers_held[v] = {}
                     /\ handlers_doing[v] = "suspending" => handlers_rest[v] \cap handlers_held[v] = {}
                     /\ handlers_doing[v] = "resuming" => handlers_held[v] \subseteq handlers_rest[v]
                     /\ handlers_doing[v] = "throwing" => v \notin Reserved)'
  BY DEF Duties
<1> DEFINE Duty == /\ handlers_rest[v] \cup handlers_held[v] \subseteq handlers_alive \ (Reserved \cup {v})
                   /\ handlers_doing[v] \in {"runs", "throwing", "thrown", "done"} => handlers_held[v] = {}
                   /\ handlers_doing[v] = "suspending" => handlers_rest[v] \cap handlers_held[v] = {}
                   /\ handlers_doing[v] = "resuming" => handlers_held[v] \subseteq handlers_rest[v]
                   /\ handlers_doing[v] = "throwing" => v \notin Reserved
<1> USE DEF HandlersTyped, Handlers!TypeOK, Handlers!Goes, Handlers!Runs, Duties
<1>1. ASSUME NEW t \in Threads, Handlers!Start(t) PROVE Duty'
  BY <1>1 DEF Handlers!Start
<1>2. ASSUME NEW t \in Threads, Handlers!Throw(t) PROVE Duty'
  BY <1>2 DEF Handlers!Throw
<1>3. ASSUME NEW t \in Threads, Handlers!Captured(t) PROVE Duty'
  BY <1>3 DEF Handlers!Captured
<1>4. ASSUME NEW t \in Threads, Handlers!Catch(t) PROVE Duty'
  BY <1>4 DEF Handlers!Catch
<1>5. ASSUME NEW t \in Threads, Handlers!Begin(t) PROVE Duty'
  BY <1>5 DEF Handlers!Begin, Handlers!Others
<1>6. ASSUME NEW t \in Threads, Handlers!Suspended(t) PROVE Duty'
  BY <1>6 DEF Handlers!Suspended
<1>7. ASSUME NEW t \in Threads, Handlers!Rethrown(t) PROVE Duty'
  BY <1>7 DEF Handlers!Rethrown
<1>8. ASSUME NEW t \in Threads, Handlers!Written(t) PROVE Duty'
  BY <1>8 DEF Handlers!Written, Handlers!Others
<1>9. ASSUME NEW t \in Threads, Handlers!Resumed(t) PROVE Duty'
  BY <1>9 DEF Handlers!Resumed
<1>10. ASSUME NEW t \in Threads, NEW u \in Threads, Handlers!Suspend(t, u) PROVE Duty'
  BY <1>10 DEF Handlers!Suspend
<1>11. ASSUME NEW t \in Threads, NEW u \in Threads, Handlers!Resume(t, u) PROVE Duty'
  BY <1>11 DEF Handlers!Resume
<1> HIDE DEF Duty
<1>12. Duty'
  BY <1>1, <1>2, <1>3, <1>4, <1>5, <1>6, <1>7, <1>8, <1>9, <1>10, <1>11 DEF Handlers!Next
<1> QED
  BY <1>12 DEF Duty

\* Counts stay those of the holders: suspending adds a holder, resuming takes one away, and one
\* that is resumed by another is a stray from then on.
LEMMA HandlersKeepCounts == HandlersTyped /\ Duties /\ Counts /\ Handlers!Next => Counts'
<1> SUFFICES ASSUME HandlersTyped, Duties, Counts, Handlers!Next PROVE Counts'
  OBVIOUS
<1>1. CASE UNCHANGED <<handlers_suspended, handlers_held, handlers_strays>>
  BY <1>1 DEF Counts, Holding
<1>2. ASSUME NEW t \in Threads, NEW u \in Threads, Handlers!Suspend(t, u) PROVE Counts'
  <2>1. /\ u \notin handlers_held[t] /\ handlers_strays' = handlers_strays
        /\ handlers_held' = [handlers_held EXCEPT ![t] = @ \cup {u}]
        /\ handlers_suspended' = [handlers_suspended EXCEPT ![u] = @ + 1]
    BY <1>2 DEF Handlers!Suspend, Duties, Handlers!MoreSuspended
  <2>2. /\ handlers_held \in [Threads -> SUBSET Threads]
        /\ handlers_suspended \in [Threads -> Nat]
    BY DEF HandlersTyped, Handlers!TypeOK
  <2> SUFFICES ASSUME NEW v \in Threads
               PROVE  /\ handlers_suspended'[v] <= Cardinality(Holding(v)')
                      /\ v \notin handlers_strays' => handlers_suspended'[v] = Cardinality(Holding(v)')
    BY DEF Counts, Holding
  <2>3. /\ handlers_suspended[v] \in Nat /\ handlers_suspended[v] <= Cardinality(Holding(v))
        /\ v \notin handlers_strays => handlers_suspended[v] = Cardinality(Holding(v))
    BY <2>2 DEF Counts
  <2>4. CASE v # u
    <3>1. Holding(v)' = Holding(v)
      BY <2>1, <2>2, <2>4 DEF Holding
    <3>2. handlers_suspended'[v] = handlers_suspended[v]
      BY <2>1, <2>2, <2>4
    <3> QED
      BY <2>1, <2>3, <3>1, <3>2
  <2>5. CASE v = u
    <3>1. Holding(v)' = Holding(v) \cup {t} /\ t \notin Holding(v)
      BY <2>1, <2>2, <2>5 DEF Holding
    <3>2. Cardinality(Holding(v)') = Cardinality(Holding(v)) + 1
      BY <3>1, HoldingFinite, FS_AddElement
    <3>3. handlers_suspended'[v] = handlers_suspended[v] + 1
      BY <2>1, <2>2, <2>5
    <3> QED
      BY <2>1, <2>3, <3>2, <3>3, HoldingFinite
  <2> QED
    BY <2>4, <2>5
<1>3. ASSUME NEW t \in Threads, NEW u \in Threads, Handlers!Resume(t, u) PROVE Counts'
  <2>1. /\ handlers_held' = [handlers_held EXCEPT ![t] = @ \ {u}]
        /\ handlers_suspended' = [handlers_suspended EXCEPT ![u] = IF @ > 0 THEN @ - 1 ELSE 0]
        /\ handlers_strays' = IF u \in handlers_held[t] \/ handlers_suspended[u] = 0
                              THEN handlers_strays ELSE handlers_strays \cup {u}
    BY <1>3 DEF Handlers!Resume, Handlers!LessSuspended
  <2>2. /\ handlers_held \in [Threads -> SUBSET Threads]
        /\ handlers_suspended \in [Threads -> Nat]
    BY DEF HandlersTyped, Handlers!TypeOK
  <2> SUFFICES ASSUME NEW v \in Threads
               PROVE  /\ handlers_suspended'[v] <= Cardinality(Holding(v)')
                      /\ v \notin handlers_strays' => handlers_suspended'[v] = Cardinality(Holding(v)')
    BY DEF Counts, Holding
  <2>3. /\ handlers_suspended[v] \in Nat /\ handlers_suspended[v] <= Cardinality(Holding(v))
        /\ v \notin handlers_strays => handlers_suspended[v] = Cardinality(Holding(v))
    BY <2>2 DEF Counts
  <2>4. CASE v # u
    <3>1. Holding(v)' = Holding(v)
      BY <2>1, <2>2, <2>4 DEF Holding
    <3>2. handlers_suspended'[v] = handlers_suspended[v] /\ (v \in handlers_strays' <=> v \in handlers_strays)
      BY <2>1, <2>2, <2>4
    <3> QED
      BY <2>3, <3>1, <3>2
  <2>5. CASE v = u /\ u \notin handlers_held[t]
    <3>1. Holding(v)' = Holding(v)
      BY <2>1, <2>2, <2>5 DEF Holding
    <3>2. handlers_suspended'[v] = IF handlers_suspended[v] > 0 THEN handlers_suspended[v] - 1 ELSE 0
      BY <2>1, <2>2, <2>5
    <3>3. v \notin handlers_strays' => v \notin handlers_strays /\ handlers_suspended[v] = 0
      BY <2>1, <2>5
    <3> QED
      BY <2>3, <3>1, <3>2, <3>3, HoldingFinite
  <2>6. CASE v = u /\ u \in handlers_held[t]
    <3>1. Holding(v)' = Holding(v) \ {t} /\ t \in Holding(v)
      BY <2>1, <2>2, <2>6 DEF Holding
    <3>2. /\ Cardinality(Holding(v)') = Cardinality(Holding(v)) - 1
          /\ Cardinality(Holding(v)') \in Nat /\ Cardinality(Holding(v)) \in Nat
      BY <3>1, HoldingFinite, FS_RemoveElement, FS_CardinalityType
    <3>3. handlers_suspended'[v] = IF handlers_suspended[v] > 0 THEN handlers_suspended[v] - 1 ELSE 0
      BY <2>1, <2>2, <2>6
    <3>4. handlers_strays' = handlers_strays
      BY <2>1, <2>6
    <3> QED
      BY <2>3, <3>2, <3>3, <3>4
  <2> QED
    BY <2>4, <2>5, <2>6
<1> QED
  BY <1>1, <1>2, <1>3 DEF Handlers!Next, Handlers!Start, Handlers!Throw, Handlers!Captured,
     Handlers!Catch, Handlers!Begin, Handlers!Suspended, Handlers!Rethrown, Handlers!Written,
     Handlers!Resumed

HandlersInv == part = "handlers" => HandlersTyped /\ Duties /\ Counts

\* The three hold throughout, whatever part runs.
LEMMA HandlersHold == MCSpec => []HandlersInv
<1>1. MCInit => HandlersInv
  BY HandlersBegin DEF MCInit, HandlersInv
<1>2. HandlersInv /\ [MCNext]_allVars => HandlersInv'
  <2> SUFFICES ASSUME HandlersInv, [MCNext]_allVars, part' = "handlers"
               PROVE  (HandlersTyped /\ Duties /\ Counts)'
    BY DEF HandlersInv
  <2>1. CASE part = "handlers" /\ Handlers!Next
    BY <2>1, HandlersKeepTypes, HandlersKeepDuties, HandlersKeepCounts DEF HandlersInv
  <2>2. CASE UNCHANGED <<part, handlersVars>>
    BY <2>2 DEF HandlersInv, HandlersTyped, Handlers!TypeOK, Duties, Counts, Holding, handlersVars
  <2> QED
    BY <2>1, <2>2 DEF MCNext, allVars, RunIntro, RunCached, RunHooks, RunWalk, RunLoaded,
       RunRebind, RunHandlers, RunCodes, RunZombie, RunConsole
<1> QED
  BY <1>1, <1>2, PTL DEF MCSpec

\* Whoever is held and no stray stands still, nobody else does.
LEMMA HeldStandStill ==
  ASSUME HandlersTyped, Counts, NEW t \in Threads, NEW u \in handlers_held[t],
         u \notin handlers_strays
  PROVE  handlers_suspended[u] > 0
<1>1. u \in Threads /\ t \in Holding(u)
  BY DEF HandlersTyped, Holding
<1>2. Cardinality(Holding(u)) # 0 /\ Cardinality(Holding(u)) \in Nat
  BY <1>1, HoldingFinite, FS_EmptySet
<1> QED
  BY <1>1, <1>2 DEF Counts

\* While a handler writes, none of the threads it has suspended runs, unless another handler
\* resumed it; those that answer Mach exceptions always can; and when the last handler is
\* through, every thread runs: for any number of threads and handlers at once.
THEOREM OthersAreSuspended == MCSpec => []HandlersSuspend
<1>1. HandlersInv => HandlersSuspend
  <2> SUFFICES ASSUME part = "handlers", HandlersTyped, Duties, Counts
               PROVE  /\ Handlers!OthersStandStill /\ Handlers!ReservedRun
                      /\ Handlers!EverybodyRunsAgain
    BY DEF HandlersInv, HandlersSuspend, HandlersTyped
  <2>1. Handlers!OthersStandStill
    BY HeldStandStill DEF Handlers!OthersStandStill
  <2>2. ASSUME NEW u \in Threads, \A t \in Threads : u \notin handlers_held[t]
        PROVE  handlers_suspended[u] = 0
    <3>1. Holding(u) = {}
      BY <2>2 DEF Holding
    <3>2. handlers_suspended[u] <= 0
      BY <3>1, FS_EmptySet DEF Counts
    <3> QED
      BY <3>2 DEF HandlersTyped, Handlers!TypeOK
  <2>3. Handlers!ReservedRun
    BY <2>2, ToolsAssumption DEF Handlers!ReservedRun, Duties
  <2>4. Handlers!EverybodyRunsAgain
    BY <2>2 DEF Handlers!EverybodyRunsAgain, Duties
  <2> QED
    BY <2>1, <2>3, <2>4
<1> QED
  BY <1>1, HandlersHold, PTL

\* The cursor that a terminating thread writes its report from does not change while it has
\* suspended all others and none was resumed, whatever else is thrown: nobody runs who could.
THEOREM CursorIsLeftAlone == MCSpec => CursorStandsStill
<1>1. HandlersInv /\ [MCNext]_allVars => (part = "handlers" => Handlers!CursorStays)
  <2> SUFFICES ASSUME part = "handlers", HandlersTyped, Duties, Counts, [MCNext]_allVars,
                      NEW t \in handlers_terminating, Handlers!Handling(t),
                      handlers_alive \subseteq handlers_held[t] \cup Reserved \cup {t},
                      handlers_strays = {}
               PROVE  handlers_g_stackCursor' = handlers_g_stackCursor
    BY DEF HandlersInv, Handlers!CursorStays
  <2>1. CASE UNCHANGED handlersVars
    BY <2>1 DEF handlersVars
  <2>2. ASSUME NEW v \in Threads, Handlers!Throw(v) \/ Handlers!Captured(v) PROVE FALSE
    <3>1. v \in handlers_alive /\ handlers_suspended[v] = 0 /\ handlers_doing[v] \in {"runs", "throwing"}
      BY <2>2 DEF Handlers!Throw, Handlers!Captured, Handlers!Runs
    <3>2. v # t
      BY <3>1 DEF Handlers!Handling
    <3>3. v \notin Reserved
      BY <2>2 DEF Handlers!Throw, Handlers!Captured, Duties
    <3>4. v \in handlers_held[t]
      BY <3>1, <3>2, <3>3
    <3>5. t \in Threads
      BY DEF HandlersTyped
    <3> QED
      BY <3>1, <3>4, <3>5, HeldStandStill
  <2>3. CASE Handlers!Next
    BY <2>2, <2>3 DEF Handlers!Next, Handlers!Start, Handlers!Catch, Handlers!Begin,
       Handlers!Suspend, Handlers!Suspended, Handlers!Rethrown, Handlers!Written,
       Handlers!Resume, Handlers!Resumed
  <2> QED
    BY <2>1, <2>3 DEF MCNext, allVars, RunIntro, RunCached, RunHooks, RunWalk, RunLoaded,
       RunRebind, RunHandlers, RunCodes, RunZombie, RunConsole
<1> QED
  BY <1>1, HandlersHold, PTL DEF MCSpec, CursorStandsStill

-----------------------------------------------------------------------------
(* CachedThreads: what is allocated at each step of an update. *)

\* The arrays of an update, and the names in them.
Whole(n) ==
  Cached!Arrays(n) \cup
  {x \in Cached!NamesIn(n) : \E i \in 1 .. Cached!Size(n) : cached_found[n][i] = x[3]}

Freezers == {r \in Reports : cached_reading[r].state # "no"}

CachedTyped ==
  /\ Cached!TypeOK /\ cached_old \in Nat /\ cached_found \in Seq(Seq(Listed))
  /\ \A n \in 1 .. Len(cached_found) :
        /\ Len(cached_found[n]) \in 1 .. Cardinality(Listed)
        /\ \A i, j \in 1 .. Len(cached_found[n]) : cached_found[n][i] = cached_found[n][j] => i = j
  /\ cached_reading \in
        [Reports -> [state : {"no"}] \cup [state : {"frozen"}, rested : BOOLEAN]
                    \cup [state : {"held"}, rested : BOOLEAN, of : Listed, name : Listed, from : Nat]]

\* Between updates the lists are the last ones found, and all that is allocated is theirs.
AtRest ==
  LET last == Len(cached_found) IN
  cached_pc \in {"sleep", "collect"} =>
     /\ cached_mach = last /\ cached_names = last
     /\ cached_count = Cached!Size(last) /\ cached_live = Whole(last)

\* While one is under way, the lists of before and the new ones are allocated, and the count
\* exceeds neither from before the first of them is replaced until both are.
UnderWay ==
  LET last == Len(cached_found) IN
  cached_pc \in {"shrink", "mach", "names", "grow", "free"} =>
     /\ last >= 1 /\ cached_old = Cached!Size(last - 1)
     /\ cached_live = Whole(last - 1) \cup Whole(last)
     /\ cached_mach = IF cached_pc \in {"shrink", "mach"} THEN last - 1 ELSE last
     /\ cached_names = IF cached_pc \in {"grow", "free"} THEN last ELSE last - 1
     /\ cached_pc # "free" => cached_count <= Cached!Size(last - 1)
     /\ cached_pc # "shrink" => cached_count <= Cached!Size(last)
     /\ cached_pc = "free" => cached_count = Cached!Size(last)

\* The semaphore counts the reports that froze the list, and it keeps one that froze it at rest
\* from changing.
Frozen ==
  /\ cached_semaphore = Cardinality(Freezers)
  /\ \A r \in Freezers : cached_reading[r].rested =>
        /\ cached_pc = "sleep"
        /\ cached_reading[r].state = "held" =>
              /\ cached_reading[r].from = cached_names
              /\ \E i \in 1 .. cached_count :
                    /\ cached_reading[r].of = cached_found[cached_names][i]
                    /\ cached_reading[r].name = cached_found[cached_names][i]

Bounded ==
  /\ Len(cached_found) <= MaxUpdates
  /\ cached_pc = "collect" => Len(cached_found) < MaxUpdates /\ cached_old = cached_count

\* Names and arrays of one update are not those of another; a part can be freed by itself.
LEMMA WholesApart ==
  ASSUME NEW m \in Nat, NEW n \in Nat, m # n, NEW old, old = Cached!Size(m)
  PROVE  ((Whole(m) \cup Whole(n)) \ Cached!Arrays(m))
            \ {<<"name", m, cached_found[m][i]>> : i \in 1 .. old} = Whole(n)
<1> DEFINE gone == {<<"name", m, cached_found[m][i]>> : i \in 1 .. old}
<1>1. ASSUME NEW x \in Whole(n) PROVE x \notin Cached!Arrays(m) /\ x \notin gone
  <2>1. CASE x \in Cached!Arrays(n)
    <3>1. x = <<"mach", n>> \/ x = <<"names", n>>
      BY <2>1 DEF Cached!Arrays
    <3> QED
      BY <3>1 DEF Cached!Arrays
  <2>2. CASE x \in Cached!NamesIn(n)
    <3>1. PICK t \in Named : x = <<"name", n, t>>
      BY <2>2 DEF Cached!NamesIn
    <3> QED
      BY <3>1 DEF Cached!Arrays
  <2> QED
    BY <2>1, <2>2 DEF Whole
<1>2. ASSUME NEW x \in Whole(m) PROVE x \in Cached!Arrays(m) \/ x \in gone
  <2>1. CASE x \in Cached!NamesIn(m) /\ \E i \in 1 .. Cached!Size(m) : cached_found[m][i] = x[3]
    <3>1. PICK t \in Named : x = <<"name", m, t>>
      BY <2>1 DEF Cached!NamesIn
    <3>2. PICK i \in 1 .. old : cached_found[m][i] = x[3]
      BY <2>1
    <3>3. x = <<"name", m, cached_found[m][i]>>
      BY <3>1, <3>2
    <3> QED
      BY <3>3
  <2> QED
    BY <2>1 DEF Whole
<1> HIDE DEF gone
<1> QED
  BY <1>1, <1>2 DEF gone

\* A name of the list is among what is allocated for it.
LEMMA NameOfWhole ==
  ASSUME NEW n \in Nat, NEW i \in 1 .. Cached!Size(n), cached_found[n][i] \in Named
  PROVE  <<"name", n, cached_found[n][i]>> \in Whole(n)
<1>1. <<"name", n, cached_found[n][i]>>[3] = cached_found[n][i]
  OBVIOUS
<1> QED
  BY <1>1 DEF Whole, Cached!NamesIn

\* The sizes of the lists are bounded by the number of threads.
LEMMA Sizes ==
  ASSUME CachedTyped, NEW n \in 0 .. Len(cached_found)
  PROVE  Cached!Size(n) \in 0 .. Cardinality(Listed)
<1>1. Cardinality(Listed) \in Nat
  BY FS_CardinalityType, ToolsAssumption
<1>2. Len(cached_found) \in Nat
  BY DEF CachedTyped
<1>3. n # 0 => n \in 1 .. Len(cached_found)
  BY <1>2
<1> QED
  BY <1>1, <1>3 DEF Cached!Size, CachedTyped

\* Who freezes the list is a report, and reports are finitely many.
LEMMA FreezersFinite == IsFiniteSet(Freezers) /\ Cardinality(Freezers) \in 0 .. Cardinality(Reports)
<1>1. Freezers \subseteq Reports
  BY DEF Freezers
<1> QED
  BY <1>1, FS_Subset, FS_CardinalityType, ToolsAssumption

\* The instance counts with the operator of the library.
LEMMA SameCardinality == \A S : Cached!Cardinality(S) = Cardinality(S)
  BY Zenon DEF Cached!Cardinality, Cardinality

CachedInv == CachedTyped /\ AtRest /\ UnderWay /\ Frozen /\ Bounded

\* At first there is no list, and nobody reads one.
LEMMA CachedBegin == Cached!Init => CachedInv
<1> SUFFICES ASSUME Cached!Init PROVE CachedInv
  OBVIOUS
<1>0. /\ cached_found = <<>> /\ cached_mach = 0 /\ cached_names = 0 /\ cached_count = 0
      /\ cached_live = {} /\ cached_old = 0 /\ cached_pc = "sleep" /\ cached_semaphore = 0
      /\ cached_reading = [r \in Reports |-> [state |-> "no"]]
  BY DEF Cached!Init
<1>1. Freezers = {}
  BY <1>0 DEF Freezers
<1>2. Cardinality(Listed) \in Nat /\ Cardinality(Reports) \in Nat /\ Cardinality(Freezers) = 0
  BY <1>1, FS_CardinalityType, FS_EmptySet, ToolsAssumption
<1>3. CachedTyped
  BY <1>0, <1>2, SameCardinality, ToolsAssumption DEF CachedTyped, Cached!TypeOK
<1>4. AtRest
  BY <1>0 DEF AtRest, Whole, Cached!Arrays, Cached!Size
<1>5. UnderWay /\ Bounded
  BY <1>0, ToolsAssumption DEF UnderWay, Bounded
<1>6. Frozen
  BY <1>0, <1>1, <1>2 DEF Frozen
<1> QED
  BY <1>3, <1>4, <1>5, <1>6 DEF CachedInv

\* The new list is appended: the lists of before stay what they are.
LEMMA Collected ==
  ASSUME CachedTyped, NEW s \in Seq(Listed), cached_found' = Append(cached_found, s)
  PROVE  /\ Len(cached_found)' = Len(cached_found) + 1 /\ Len(cached_found) \in Nat
         /\ cached_found'[Len(cached_found) + 1] = s
         /\ \A n \in 1 .. Len(cached_found) : cached_found'[n] = cached_found[n]
         /\ \A n \in 0 .. Len(cached_found) :
               Cached!Size(n)' = Cached!Size(n) /\ Whole(n)' = Whole(n)
<1>1. cached_found \in Seq(Seq(Listed))
  BY DEF CachedTyped
<1>2. /\ Len(cached_found)' = Len(cached_found) + 1 /\ Len(cached_found) \in Nat
      /\ cached_found'[Len(cached_found) + 1] = s
      /\ \A n \in 1 .. Len(cached_found) : cached_found'[n] = cached_found[n]
  BY <1>1
<1>3. ASSUME NEW n \in 0 .. Len(cached_found)
      PROVE  Cached!Size(n)' = Cached!Size(n) /\ Whole(n)' = Whole(n)
  <2>1. CASE n = 0
    BY <2>1 DEF Whole, Cached!Size, Cached!Arrays, Cached!NamesIn
  <2>2. CASE n # 0
    <3>1. cached_found'[n] = cached_found[n]
      BY <1>2, <2>2
    <3> QED
      BY <3>1 DEF Whole, Cached!Size, Cached!Arrays, Cached!NamesIn
  <2> QED
    BY <2>1, <2>2
<1> QED
  BY <1>2, <1>3

\* What Collect finds.
LEMMA Collects ==
  ASSUME CachedTyped, Cached!Collect, NEW m, m = Len(cached_found) + 1
  PROVE  \E s \in Seq(Listed) :
            /\ Len(s) \in 1 .. Cardinality(Listed)
            /\ \A i, j \in 1 .. Len(s) : s[i] = s[j] => i = j
            /\ cached_found' = Append(cached_found, s)
            /\ cached_live' = cached_live \cup Whole(m)'
<1>1. PICK n \in 1 .. Cardinality(Listed) : \E s \in [1 .. n -> Listed] :
         /\ \A i, j \in 1 .. n : s[i] = s[j] => i = j
         /\ cached_found' = Append(cached_found, s)
         /\ cached_live' = cached_live \cup Cached!Arrays(Len(cached_found')) \cup
                {x \in Cached!NamesIn(Len(cached_found')) : \E i \in 1 .. n : s[i] = x[3]}
  BY SameCardinality DEF Cached!Collect
<1>2. PICK s \in [1 .. n -> Listed] :
         /\ \A i, j \in 1 .. n : s[i] = s[j] => i = j
         /\ cached_found' = Append(cached_found, s)
         /\ cached_live' = cached_live \cup Cached!Arrays(Len(cached_found')) \cup
                {x \in Cached!NamesIn(Len(cached_found')) : \E i \in 1 .. n : s[i] = x[3]}
  BY <1>1
<1>3. n \in Nat /\ Cardinality(Listed) \in Nat
  BY FS_CardinalityType, ToolsAssumption
<1>4. s \in Seq(Listed) /\ Len(s) = n
  BY <1>3
<1>5. /\ Len(cached_found') = Len(cached_found) + 1 /\ Len(cached_found) \in Nat
      /\ cached_found'[Len(cached_found) + 1] = s
  BY <1>2, <1>4, Collected
<1>6. Cached!Size(m)' = n
  BY <1>4, <1>5 DEF Cached!Size
<1>8. Whole(m)' =
         Cached!Arrays(Len(cached_found')) \cup
         {x \in Cached!NamesIn(Len(cached_found')) : \E i \in 1 .. n : s[i] = x[3]}
  BY <1>5, <1>6 DEF Whole, Cached!Arrays, Cached!NamesIn
<1> QED
  BY <1>2, <1>4, <1>8

\* What is read of the lists that were found depends on nothing but them.
LEMMA SameLists ==
  ASSUME cached_found' = cached_found
  PROVE  \A n : Whole(n)' = Whole(n) /\ Cached!Size(n)' = Cached!Size(n)
BY DEF Whole, Cached!Size, Cached!Arrays, Cached!NamesIn

\* The worker neither freezes nor reads, and it stays asleep while somebody has frozen it at rest.
LEMMA WorkerLeavesReaders ==
  ASSUME CachedTyped, Frozen, UNCHANGED <<cached_semaphore, cached_reading>>,
         cached_pc # "sleep" \/ cached_semaphore <= 0
  PROVE  Frozen'
<1>1. Freezers' = Freezers
  BY DEF Freezers
<1>2. ASSUME NEW r \in Freezers PROVE ~cached_reading[r].rested
  <2>1. CASE cached_pc # "sleep"
    BY <2>1 DEF Frozen
  <2>2. CASE cached_semaphore <= 0
    <3>1. Cardinality(Freezers) \in Nat /\ IsFiniteSet(Freezers) /\ Cardinality(Freezers) <= 0
      BY <2>2, FreezersFinite, FS_CardinalityType DEF Frozen
    <3>2. Cardinality(Freezers) = 0
      BY <3>1
    <3> QED
      BY <3>1, <3>2, FS_EmptySet
  <2> QED
    BY <2>1, <2>2
<1> QED
  BY <1>1, <1>2 DEF Frozen

\* An update is begun.
LEMMA CachedWake == CachedInv /\ Cached!Wake => CachedInv'
<1> SUFFICES ASSUME CachedInv, Cached!Wake PROVE CachedInv'
  OBVIOUS
<1> USE DEF CachedInv
<1>1. /\ cached_pc = "sleep" /\ Len(cached_found) < MaxUpdates /\ cached_semaphore <= 0
      /\ cached_pc' = "collect" /\ cached_old' = cached_count
      /\ UNCHANGED <<cached_found, cached_mach, cached_names, cached_count, cached_live,
                     cached_semaphore, cached_reading>>
  BY DEF Cached!Wake
<1>2. \A n : Whole(n)' = Whole(n) /\ Cached!Size(n)' = Cached!Size(n)
  BY <1>1, SameLists
<1>3. CachedTyped'
  BY <1>1 DEF CachedTyped, Cached!TypeOK
<1>4. AtRest'
  BY <1>1, <1>2 DEF AtRest
<1>5. UnderWay' /\ Bounded'
  BY <1>1 DEF UnderWay, Bounded
<1>6. Frozen'
  BY <1>1, WorkerLeavesReaders
<1> QED
  BY <1>3, <1>4, <1>5, <1>6

\* The threads and their names are asked for.
LEMMA CachedCollect == CachedInv /\ Cached!Collect => CachedInv'
<1> SUFFICES ASSUME CachedInv, Cached!Collect PROVE CachedInv'
  OBVIOUS
<1> USE DEF CachedInv
<1> DEFINE last == Len(cached_found)
           m    == last + 1
<1>1. /\ cached_pc = "collect" /\ cached_pc' = "shrink"
      /\ UNCHANGED <<cached_mach, cached_names, cached_count, cached_old,
                     cached_semaphore, cached_reading>>
  BY DEF Cached!Collect
<1>2. /\ cached_mach = last /\ cached_names = last /\ cached_count = Cached!Size(last)
      /\ cached_live = Whole(last) /\ cached_old = cached_count /\ last < MaxUpdates
  BY <1>1 DEF AtRest, Bounded
<1>3. PICK s \in Seq(Listed) :
         /\ Len(s) \in 1 .. Cardinality(Listed)
         /\ \A i, j \in 1 .. Len(s) : s[i] = s[j] => i = j
         /\ cached_found' = Append(cached_found, s)
         /\ \A n : n = m => cached_live' = cached_live \cup Whole(n)'
  BY Collects
<1>4. /\ Len(cached_found)' = m /\ last \in Nat
      /\ cached_found'[m] = s
      /\ \A n \in 1 .. last : cached_found'[n] = cached_found[n]
      /\ \A n \in 0 .. last : Cached!Size(n)' = Cached!Size(n) /\ Whole(n)' = Whole(n)
  BY <1>3, Collected
<1>5. CachedTyped'
  <2>1. cached_found' \in Seq(Seq(Listed))
    BY <1>3 DEF CachedTyped
  <2>2. ASSUME NEW n \in 1 .. m
        PROVE  /\ Len(cached_found'[n]) \in 1 .. Cardinality(Listed)
               /\ \A i, j \in 1 .. Len(cached_found'[n]) :
                     cached_found'[n][i] = cached_found'[n][j] => i = j
    <3>1. CASE n = m
      BY <1>3, <1>4, <3>1
    <3>2. CASE n # m
      <4>1. n \in 1 .. last
        BY <1>4, <3>2
      <4> QED
        BY <1>4, <4>1 DEF CachedTyped
    <3> QED
      BY <3>1, <3>2
  <2> QED
    BY <1>1, <1>4, <2>1, <2>2 DEF CachedTyped, Cached!TypeOK
<1>6. UnderWay'
  <2>1. last \in 0 .. last /\ m - 1 = last
    BY <1>4
  <2>2. Cached!Size(last) \in 0 .. Cardinality(Listed) /\ Cardinality(Listed) \in Nat
    BY <2>1, Sizes, FS_CardinalityType, ToolsAssumption
  <2>3. \A n : n = last => Cached!Size(n)' = Cached!Size(last) /\ Whole(n)' = Whole(last)
    BY <1>4, <2>1
  <2>4. \A n : n = m => cached_live' = Whole(last) \cup Whole(n)'
    BY <1>2, <1>3
  <2> HIDE DEF last
  <2> QED
    BY <1>1, <1>2, <1>4, <2>1, <2>2, <2>3, <2>4 DEF UnderWay
<1>7. AtRest' /\ Bounded'
  BY <1>1, <1>2, <1>4, ToolsAssumption DEF AtRest, Bounded
<1>8. Frozen'
  BY <1>1, WorkerLeavesReaders
<1> QED
  BY <1>5, <1>6, <1>7, <1>8

\* The lists are replaced one after the other; the count is the smaller of both meanwhile.
LEMMA CachedSwap ==
  CachedInv /\ (Cached!Shrink \/ Cached!SwapThreads \/ Cached!SwapNames \/ Cached!Grow) => CachedInv'
<1> SUFFICES ASSUME CachedInv, Cached!Shrink \/ Cached!SwapThreads \/ Cached!SwapNames \/ Cached!Grow
             PROVE  CachedInv'
  OBVIOUS
<1> USE DEF CachedInv
<1> DEFINE last == Len(cached_found)
<1>1. /\ cached_pc \in {"shrink", "mach", "names", "grow"}
      /\ cached_pc' = IF cached_pc = "shrink" THEN "mach" ELSE IF cached_pc = "mach" THEN "names"
                      ELSE IF cached_pc = "names" THEN "grow" ELSE "free"
      /\ cached_mach' = IF cached_pc = "mach" THEN last ELSE cached_mach
      /\ cached_names' = IF cached_pc = "names" THEN last ELSE cached_names
      /\ cached_count' = IF cached_pc = "shrink"
                         THEN IF cached_count < Len(cached_found[last]) THEN cached_count
                              ELSE Len(cached_found[last])
                         ELSE IF cached_pc = "grow" THEN Len(cached_found[last]) ELSE cached_count
      /\ UNCHANGED <<cached_found, cached_live, cached_old, cached_semaphore, cached_reading>>
  BY DEF Cached!Shrink, Cached!SwapThreads, Cached!SwapNames, Cached!Grow
<1>2. \A n : Whole(n)' = Whole(n) /\ Cached!Size(n)' = Cached!Size(n)
  BY <1>1, SameLists
<1>3. /\ last >= 1 /\ cached_old = Cached!Size(last - 1)
      /\ cached_live = Whole(last - 1) \cup Whole(last)
      /\ cached_mach = IF cached_pc \in {"shrink", "mach"} THEN last - 1 ELSE last
      /\ cached_names = IF cached_pc = "grow" THEN last ELSE last - 1
      /\ cached_count <= Cached!Size(last - 1)
      /\ cached_pc # "shrink" => cached_count <= Cached!Size(last)
  BY <1>1 DEF UnderWay
<1>4. last \in Nat /\ last <= MaxUpdates /\ MaxUpdates \in Nat
  BY ToolsAssumption DEF CachedTyped, Bounded
<1>5. Len(cached_found[last]) = Cached!Size(last)
  BY <1>3, <1>4 DEF Cached!Size
<1>6. /\ Cached!Size(last) \in 0 .. Cardinality(Listed)
      /\ Cached!Size(last - 1) \in 0 .. Cardinality(Listed)
      /\ cached_count \in 0 .. Cardinality(Listed) /\ Cardinality(Listed) \in Nat
  BY <1>3, <1>4, Sizes, SameCardinality, FS_CardinalityType, ToolsAssumption
     DEF CachedTyped, Cached!TypeOK
<1>7. Len(cached_found)' = last
  BY <1>1
<1> HIDE DEF last
<1>8. CachedTyped'
  <2>1. cached_mach' \in 0 .. MaxUpdates /\ cached_names' \in 0 .. MaxUpdates
    BY <1>1, <1>3, <1>4
  <2>2. cached_count' \in 0 .. Cardinality(Listed)
    BY <1>1, <1>5, <1>6
  <2> QED
    BY <1>1, <2>1, <2>2, SameCardinality DEF CachedTyped, Cached!TypeOK
<1>9. UnderWay'
  <2>1. /\ cached_pc' # "free" => cached_count' <= Cached!Size(last - 1)
        /\ cached_pc' # "shrink" => cached_count' <= Cached!Size(last)
        /\ cached_pc' = "free" => cached_count' = Cached!Size(last)
    BY <1>1, <1>3, <1>5, <1>6
  <2>2. /\ cached_mach' = IF cached_pc' \in {"shrink", "mach"} THEN last - 1 ELSE last
        /\ cached_names' = IF cached_pc' \in {"grow", "free"} THEN last ELSE last - 1
    BY <1>1, <1>3
  <2>3. cached_live' = Whole(last - 1) \cup Whole(last) /\ cached_old' = Cached!Size(last - 1)
    BY <1>1, <1>3
  <2> QED
    BY <1>2, <1>3, <1>7, <2>1, <2>2, <2>3 DEF UnderWay
<1>10. AtRest' /\ Bounded'
  BY <1>1, <1>4, <1>7 DEF AtRest, Bounded
<1>11. Frozen'
  BY <1>1, WorkerLeavesReaders
<1> QED
  BY <1>8, <1>9, <1>10, <1>11

\* The lists of before are freed, and nothing else is.
LEMMA CachedFree == CachedInv /\ Cached!Free => CachedInv'
<1> SUFFICES ASSUME CachedInv, Cached!Free PROVE CachedInv'
  OBVIOUS
<1> USE DEF CachedInv
<1> DEFINE last == Len(cached_found)
<1>1. /\ cached_pc = "free" /\ cached_pc' = "sleep"
      /\ cached_live' = (cached_live \ Cached!Arrays(last - 1))
                          \ {<<"name", last - 1, cached_found[last - 1][i]>> : i \in 1 .. cached_old}
      /\ UNCHANGED <<cached_found, cached_mach, cached_names, cached_count, cached_old,
                     cached_semaphore, cached_reading>>
  BY DEF Cached!Free
<1>2. \A n : Whole(n)' = Whole(n) /\ Cached!Size(n)' = Cached!Size(n)
  BY <1>1, SameLists
<1>3. /\ last >= 1 /\ cached_old = Cached!Size(last - 1)
      /\ cached_live = Whole(last - 1) \cup Whole(last)
      /\ cached_mach = last /\ cached_names = last /\ cached_count = Cached!Size(last)
  BY <1>1 DEF UnderWay
<1>4. last \in Nat /\ last - 1 \in Nat /\ last - 1 # last
  BY <1>3 DEF CachedTyped
<1>5. cached_live' = Whole(last)
  BY <1>1, <1>3, <1>4, WholesApart
<1>6. CachedTyped' /\ Bounded'
  BY <1>1 DEF CachedTyped, Cached!TypeOK, Bounded
<1>7. AtRest'
  BY <1>1, <1>2, <1>3, <1>5 DEF AtRest
<1>8. UnderWay'
  BY <1>1 DEF UnderWay
<1>9. Frozen'
  BY <1>1, WorkerLeavesReaders
<1> QED
  BY <1>6, <1>7, <1>8, <1>9

\* Wherever the worker is, what a reader looks at is inside both lists.
LEMMA CountFits ==
  ASSUME CachedInv
  PROVE  /\ cached_mach \in 0 .. Len(cached_found) /\ cached_names \in 0 .. Len(cached_found)
         /\ cached_count \in Nat
         /\ cached_count <= Cached!Size(cached_mach) /\ cached_count <= Cached!Size(cached_names)
         /\ cached_count > 0 => Whole(cached_mach) \cup Whole(cached_names) \subseteq cached_live
<1> USE DEF CachedInv
<1> DEFINE last == Len(cached_found)
<1>1. /\ last \in Nat /\ cached_count \in 0 .. Cardinality(Listed)
      /\ cached_pc \in {"sleep", "collect", "shrink", "mach", "names", "grow", "free"}
      /\ Cardinality(Listed) \in Nat
  BY SameCardinality, FS_CardinalityType, ToolsAssumption DEF CachedTyped, Cached!TypeOK
<1>2. CASE cached_pc \in {"sleep", "collect"}
  BY <1>1, <1>2 DEF AtRest
<1>3. CASE cached_pc \in {"shrink", "mach", "names", "grow", "free"}
  <2>1. last >= 1 /\ last - 1 \in 0 .. last
    BY <1>1, <1>3 DEF UnderWay
  <2>2. /\ cached_live = Whole(last - 1) \cup Whole(last)
        /\ cached_mach = IF cached_pc \in {"shrink", "mach"} THEN last - 1 ELSE last
        /\ cached_names = IF cached_pc \in {"grow", "free"} THEN last ELSE last - 1
        /\ cached_pc # "free" => cached_count <= Cached!Size(last - 1)
        /\ cached_pc # "shrink" => cached_count <= Cached!Size(last)
    BY <1>3 DEF UnderWay
  <2> HIDE DEF last
  <2> QED
    BY <1>1, <2>1, <2>2 DEF last
<1> QED
  BY <1>1, <1>2, <1>3

\* An entry that is looked at is a thread.
LEMMA EntryIsListed ==
  ASSUME CachedTyped, NEW n \in 0 .. Len(cached_found), NEW i \in 1 .. Cached!Size(n)
  PROVE  cached_found[n][i] \in Listed
<1>1. n # 0 /\ i \in 1 .. Len(cached_found[n])
  BY DEF Cached!Size
<1>2. n \in 1 .. Len(cached_found) /\ cached_found \in Seq(Seq(Listed))
  BY <1>1 DEF CachedTyped
<1>3. cached_found[n] \in Seq(Listed)
  BY <1>2
<1> QED
  BY <1>1, <1>3

\* A report freezes the list: at rest, or in the middle of an update.
LEMMA CachedFreeze == ASSUME NEW r \in Reports PROVE CachedInv /\ Cached!Freeze(r) => CachedInv'
<1> SUFFICES ASSUME CachedInv, Cached!Freeze(r) PROVE CachedInv'
  OBVIOUS
<1> USE DEF CachedInv
<1> DEFINE new == [state |-> "frozen", rested |-> cached_pc = "sleep"]
<1>1. /\ cached_reading[r].state = "no" /\ cached_semaphore' = cached_semaphore + 1
      /\ cached_reading' = [cached_reading EXCEPT ![r] = new]
      /\ UNCHANGED <<cached_found, cached_mach, cached_names, cached_count, cached_live,
                     cached_pc, cached_old>>
  BY DEF Cached!Freeze
<1>2. new \in [state : {"frozen"}, rested : BOOLEAN]
  OBVIOUS
<1>3. cached_reading' \in
        [Reports -> [state : {"no"}] \cup [state : {"frozen"}, rested : BOOLEAN]
                    \cup [state : {"held"}, rested : BOOLEAN, of : Listed, name : Listed, from : Nat]]
  BY <1>1, <1>2 DEF CachedTyped
<1>4. /\ cached_reading'[r] = new
      /\ \A q \in Reports : q # r => cached_reading'[q] = cached_reading[q]
  BY <1>1 DEF CachedTyped
<1>5. Freezers' = Freezers \cup {r} /\ r \notin Freezers
  BY <1>1, <1>4 DEF Freezers
<1>6. Cardinality(Freezers') = Cardinality(Freezers) + 1
  BY <1>5, FreezersFinite, FS_AddElement
<1>7. cached_semaphore' = Cardinality(Freezers') /\ cached_semaphore' \in 0 .. Cardinality(Reports)
  <2>1. Freezers' \subseteq Reports
    BY DEF Freezers
  <2>2. Cardinality(Freezers') <= Cardinality(Reports)
    BY <2>1, FS_Subset, ToolsAssumption
  <2> QED
    BY <1>1, <1>6, <2>2, FreezersFinite, FS_CardinalityType, ToolsAssumption DEF Frozen
<1>8. CachedTyped'
  BY <1>1, <1>3, <1>7, SameCardinality DEF CachedTyped, Cached!TypeOK
<1>9. AtRest' /\ UnderWay' /\ Bounded'
  BY <1>1, SameLists DEF AtRest, UnderWay, Bounded
<1>10. ASSUME NEW q \in Freezers', cached_reading'[q].rested
       PROVE  /\ cached_pc' = "sleep"
              /\ cached_reading'[q].state = "held" =>
                    /\ cached_reading'[q].from = cached_names'
                    /\ \E i \in 1 .. cached_count' :
                          /\ cached_reading'[q].of = cached_found'[cached_names'][i]
                          /\ cached_reading'[q].name = cached_found'[cached_names'][i]
  <2>1. CASE q = r
    <3>1. new.rested = (cached_pc = "sleep")
      OBVIOUS
    <3>2. new.state = "frozen"
      OBVIOUS
    <3>3. new.rested
      BY <1>4, <1>10, <2>1
    <3>4. cached_pc = "sleep"
      BY <3>1, <3>3, Zenon
    <3>5. cached_reading'[q].state = "frozen"
      BY <1>4, <2>1, <3>2
    <3> QED
      BY <1>1, <3>4, <3>5
  <2>2. CASE q # r
    <3>1. q \in Freezers /\ cached_reading'[q] = cached_reading[q]
      BY <1>4, <1>5, <2>2 DEF Freezers
    <3> QED
      BY <1>1, <1>10, <3>1 DEF Frozen
  <2> QED
    BY <2>1, <2>2
<1>11. Frozen'
  BY <1>7, <1>10 DEF Frozen
<1> QED
  BY <1>8, <1>9, <1>11

\* It looks a name up: if the list is at rest, the name is that of the thread.
LEMMA CachedLookup == ASSUME NEW r \in Reports PROVE CachedInv /\ Cached!Lookup(r) => CachedInv'
<1> SUFFICES ASSUME CachedInv, Cached!Lookup(r) PROVE CachedInv'
  OBVIOUS
<1>1. PICK i \in 1 .. cached_count :
         cached_reading' = [cached_reading EXCEPT ![r] =
            [state |-> "held", rested |-> cached_reading[r].rested,
             of |-> cached_found[cached_mach][i], name |-> cached_found[cached_names][i],
             from |-> cached_names]]
  BY DEF Cached!Lookup
<1> DEFINE new == [state |-> "held", rested |-> cached_reading[r].rested,
                   of |-> cached_found[cached_mach][i], name |-> cached_found[cached_names][i],
                   from |-> cached_names]
<1>2. /\ cached_reading[r].state = "frozen"
      /\ UNCHANGED <<cached_found, cached_mach, cached_names, cached_count, cached_live,
                     cached_pc, cached_old, cached_semaphore>>
  BY DEF Cached!Lookup
<1>3. /\ cached_found[cached_mach][i] \in Listed /\ cached_found[cached_names][i] \in Listed
      /\ cached_names \in Nat
  <2>1. /\ cached_mach \in 0 .. Len(cached_found) /\ cached_names \in 0 .. Len(cached_found)
        /\ cached_count <= Cached!Size(cached_mach) /\ cached_count <= Cached!Size(cached_names)
        /\ cached_count \in Nat
    BY CountFits
  <2>2. Cached!Size(cached_mach) \in Nat /\ Cached!Size(cached_names) \in Nat
    <3>1. Cardinality(Listed) \in Nat
      BY FS_CardinalityType, ToolsAssumption
    <3>2. CachedTyped
      BY DEF CachedInv
    <3>3. /\ Cached!Size(cached_mach) \in 0 .. Cardinality(Listed)
          /\ Cached!Size(cached_names) \in 0 .. Cardinality(Listed)
      BY <2>1, <3>2, Sizes
    <3> QED
      BY <3>1, <3>3
  <2>3. i \in 1 .. Cached!Size(cached_mach) /\ i \in 1 .. Cached!Size(cached_names)
    BY <2>1, <2>2
  <2>4. CachedTyped /\ cached_names \in Nat
    BY <2>1 DEF CachedInv, CachedTyped
  <2>5. cached_found[cached_mach][i] \in Listed
    BY <2>1, <2>3, <2>4, EntryIsListed
  <2>6. cached_found[cached_names][i] \in Listed
    BY <2>1, <2>3, <2>4, EntryIsListed
  <2> QED
    BY <2>4, <2>5, <2>6
<1>4. cached_reading[r].rested \in BOOLEAN
  BY <1>2 DEF CachedInv, CachedTyped
<1>5. new \in [state : {"held"}, rested : BOOLEAN, of : Listed, name : Listed, from : Nat]
  BY <1>3, <1>4
<1>6. cached_reading' \in
        [Reports -> [state : {"no"}] \cup [state : {"frozen"}, rested : BOOLEAN]
                    \cup [state : {"held"}, rested : BOOLEAN, of : Listed, name : Listed, from : Nat]]
  BY <1>1, <1>5 DEF CachedInv, CachedTyped
<1>7. /\ cached_reading'[r] = new
      /\ \A q \in Reports : q # r => cached_reading'[q] = cached_reading[q]
  BY <1>1 DEF CachedInv, CachedTyped
<1>8. Freezers' = Freezers /\ r \in Freezers
  BY <1>2, <1>7 DEF Freezers
<1>9. CachedTyped'
  BY <1>2, <1>6 DEF CachedInv, CachedTyped, Cached!TypeOK
<1>10. AtRest' /\ UnderWay' /\ Bounded'
  BY <1>2, SameLists DEF CachedInv, AtRest, UnderWay, Bounded
<1>11. ASSUME NEW q \in Freezers', cached_reading'[q].rested
       PROVE  /\ cached_pc' = "sleep"
              /\ cached_reading'[q].state = "held" =>
                    /\ cached_reading'[q].from = cached_names'
                    /\ \E j \in 1 .. cached_count' :
                          /\ cached_reading'[q].of = cached_found'[cached_names'][j]
                          /\ cached_reading'[q].name = cached_found'[cached_names'][j]
  <2>1. CASE q = r
    <3>1. cached_reading[r].rested
      BY <1>7, <1>11, <2>1
    <3>2. cached_pc = "sleep"
      BY <1>8, <3>1 DEF CachedInv, Frozen
    <3>3. cached_mach = cached_names
      BY <3>2 DEF CachedInv, AtRest
    <3> QED
      BY <1>1, <1>2, <1>7, <2>1, <3>2, <3>3
  <2>2. CASE q # r
    <3>1. q \in Freezers /\ cached_reading'[q] = cached_reading[q]
      BY <1>7, <1>8, <2>2 DEF Freezers
    <3> QED
      BY <1>2, <1>11, <3>1 DEF CachedInv, Frozen
  <2> QED
    BY <2>1, <2>2
<1>12. Frozen'
  BY <1>2, <1>8, <1>11 DEF CachedInv, Frozen
<1> QED
  BY <1>9, <1>10, <1>12 DEF CachedInv

\* It lets go of the list.
LEMMA CachedUnfreeze == ASSUME NEW r \in Reports PROVE CachedInv /\ Cached!Unfreeze(r) => CachedInv'
<1> SUFFICES ASSUME CachedInv, Cached!Unfreeze(r) PROVE CachedInv'
  OBVIOUS
<1> USE DEF CachedInv
<1>1. /\ cached_reading[r].state # "no"
      /\ cached_semaphore' = IF cached_semaphore - 1 < 0 THEN cached_semaphore ELSE cached_semaphore - 1
      /\ cached_reading' = [cached_reading EXCEPT ![r] = [state |-> "no"]]
      /\ UNCHANGED <<cached_found, cached_mach, cached_names, cached_count, cached_live,
                     cached_pc, cached_old>>
  BY DEF Cached!Unfreeze
<1>2. [state |-> "no"] \in [state : {"no"}]
  OBVIOUS
<1>3. cached_reading' \in
        [Reports -> [state : {"no"}] \cup [state : {"frozen"}, rested : BOOLEAN]
                    \cup [state : {"held"}, rested : BOOLEAN, of : Listed, name : Listed, from : Nat]]
  BY <1>1, <1>2 DEF CachedTyped
<1>4. /\ cached_reading'[r] = [state |-> "no"]
      /\ \A q \in Reports : q # r => cached_reading'[q] = cached_reading[q]
  BY <1>1 DEF CachedTyped
<1>5. Freezers' = Freezers \ {r} /\ r \in Freezers
  BY <1>1, <1>4 DEF Freezers
<1>6. /\ Cardinality(Freezers') = Cardinality(Freezers) - 1
      /\ Cardinality(Freezers') \in Nat /\ Cardinality(Freezers) \in 0 .. Cardinality(Reports)
      /\ Cardinality(Reports) \in Nat
  BY <1>5, FreezersFinite, FS_RemoveElement, FS_CardinalityType, ToolsAssumption
<1>7. cached_semaphore' = Cardinality(Freezers') /\ cached_semaphore' \in 0 .. Cardinality(Reports)
  BY <1>1, <1>6 DEF Frozen
<1>8. CachedTyped'
  BY <1>1, <1>3, <1>7, SameCardinality DEF CachedTyped, Cached!TypeOK
<1>9. AtRest' /\ UnderWay' /\ Bounded'
  BY <1>1, SameLists DEF AtRest, UnderWay, Bounded
<1>10. ASSUME NEW q \in Freezers' PROVE q \in Freezers /\ cached_reading'[q] = cached_reading[q]
  BY <1>4, <1>5 DEF Freezers
<1>11. Frozen'
  BY <1>1, <1>7, <1>10 DEF Frozen
<1> QED
  BY <1>8, <1>9, <1>11

\* What a report reads is inside both lists and allocated wherever the worker is stopped; one that
\* froze the list at rest keeps reading live names, and those of the threads it asks for, though
\* nothing is suspended; between updates only the published list is allocated.
LEMMA CachedGoals ==
  ASSUME CachedInv
  PROVE  Cached!TypeOK /\ Cached!HandlerReadsLive /\ Cached!FrozenListStays /\ Cached!NothingLeaks
<1>1. Cached!TypeOK
  BY DEF CachedInv, CachedTyped
<1>2. /\ cached_mach \in 0 .. Len(cached_found) /\ cached_names \in 0 .. Len(cached_found)
      /\ cached_count \in Nat /\ cached_names \in Nat
      /\ cached_count <= Cached!Size(cached_mach) /\ cached_count <= Cached!Size(cached_names)
      /\ cached_count > 0 => Whole(cached_mach) \cup Whole(cached_names) \subseteq cached_live
  BY CountFits
<1>3. Cached!Size(cached_names) \in Nat
  BY <1>2, Sizes, FS_CardinalityType, ToolsAssumption DEF CachedInv
<1>4. ASSUME NEW i \in 1 .. cached_count, cached_found[cached_names][i] \in Named
      PROVE  <<"name", cached_names, cached_found[cached_names][i]>> \in cached_live
  <2>1. i \in 1 .. Cached!Size(cached_names) /\ cached_count > 0
    BY <1>2, <1>3
  <2> QED
    BY <1>2, <1>4, <2>1, NameOfWhole
<1>5. Cached!HandlerReadsLive
  BY <1>2, <1>4 DEF Cached!HandlerReadsLive, Whole
<1>6. Cached!FrozenListStays
  <2> SUFFICES ASSUME NEW r \in Reports, cached_reading[r].state = "held", cached_reading[r].rested
               PROVE  /\ cached_reading[r].of = cached_reading[r].name
                      /\ cached_reading[r].name \in Named =>
                            <<"name", cached_reading[r].from, cached_reading[r].name>> \in cached_live
    BY DEF Cached!FrozenListStays
  <2>1. r \in Freezers
    BY DEF Freezers
  <2>2. /\ cached_reading[r].from = cached_names
        /\ \E i \in 1 .. cached_count :
              /\ cached_reading[r].of = cached_found[cached_names][i]
              /\ cached_reading[r].name = cached_found[cached_names][i]
    BY <2>1 DEF CachedInv, Frozen
  <2> QED
    BY <1>4, <2>2
<1>7. Cached!NothingLeaks
  <2> SUFFICES ASSUME cached_pc = "sleep", cached_names # 0
               PROVE  cached_live = Cached!Arrays(cached_names) \cup
                         {<<"name", cached_names, cached_found[cached_names][i]>> :
                             i \in {j \in 1 .. cached_count : cached_found[cached_names][j] \in Named}}
    BY DEF Cached!NothingLeaks
  <2> DEFINE kept == {j \in 1 .. cached_count : cached_found[cached_names][j] \in Named}
             texts == {<<"name", cached_names, cached_found[cached_names][i]>> : i \in kept}
  <2>1. cached_live = Whole(cached_names) /\ cached_count = Cached!Size(cached_names)
    BY DEF CachedInv, AtRest
  <2>2. ASSUME NEW x \in Whole(cached_names) PROVE x \in Cached!Arrays(cached_names) \cup texts
    <3>1. CASE x \in Cached!NamesIn(cached_names) /\
               \E i \in 1 .. Cached!Size(cached_names) : cached_found[cached_names][i] = x[3]
      <4>1. PICK t \in Named : x = <<"name", cached_names, t>>
        BY <3>1 DEF Cached!NamesIn
      <4>2. PICK i \in 1 .. cached_count : cached_found[cached_names][i] = x[3]
        BY <2>1, <3>1
      <4>3. x[3] = t
        BY <4>1
      <4>4. i \in kept /\ x = <<"name", cached_names, cached_found[cached_names][i]>>
        BY <4>1, <4>2, <4>3
      <4> QED
        BY <4>4
    <3> QED
      BY <3>1 DEF Whole
  <2>3. ASSUME NEW x \in texts PROVE x \in Whole(cached_names)
    <3>1. PICK i \in kept : x = <<"name", cached_names, cached_found[cached_names][i]>>
      OBVIOUS
    <3> QED
      BY <1>2, <2>1, <3>1, NameOfWhole
  <2>4. Cached!Arrays(cached_names) \subseteq Whole(cached_names)
    BY DEF Whole
  <2> HIDE DEF texts
  <2>5. cached_live = Cached!Arrays(cached_names) \cup texts
    BY <2>1, <2>2, <2>3, <2>4
  <2> QED
    BY <2>5 DEF texts
<1> QED
  BY <1>1, <1>5, <1>6, <1>7

\* Whatever part runs.
LEMMA CachedHolds == MCSpec => [](part = "cached" => CachedInv)
<1> DEFINE Inv == part = "cached" => CachedInv
<1>1. MCInit => Inv
  BY CachedBegin DEF MCInit
<1>2. Inv /\ [MCNext]_allVars => Inv'
  <2> SUFFICES ASSUME Inv, [MCNext]_allVars, part' = "cached" PROVE CachedInv'
    OBVIOUS
  <2>1. CASE part = "cached" /\ Cached!Next
    BY <2>1, CachedWake, CachedCollect, CachedSwap, CachedFree, CachedFreeze, CachedLookup,
       CachedUnfreeze DEF Cached!Next
  <2>2. CASE UNCHANGED <<part, cachedVars>>
    BY <2>2, SameLists DEF CachedInv, CachedTyped, AtRest, UnderWay, Frozen, Freezers, Bounded,
       Cached!TypeOK, cachedVars
  <2> QED
    BY <2>1, <2>2 DEF MCNext, allVars, RunIntro, RunCached, RunHooks, RunWalk, RunLoaded,
       RunRebind, RunHandlers, RunCodes, RunZombie, RunConsole
<1> QED
  BY <1>1, <1>2, PTL DEF MCSpec

\* The cached list of threads can be read wherever the thread that renews it is stopped, does not
\* change while it is frozen at rest, and is never leaked, for any number of threads, updates and
\* reports that freeze it at the same time.
THEOREM ListIsLive == MCSpec => []ThreadListIsLive
<1>1. (part = "cached" => CachedInv) => ThreadListIsLive
  BY CachedGoals DEF ThreadListIsLive
<1> QED
  BY <1>1, CachedHolds, PTL

-----------------------------------------------------------------------------
(* AsyncHooks: who holds which backtrace. *)

\* The blocks a thread runs, counted from the outermost, whose place does not change while
\* others begin and end inside it.
Depth(t)    == Len(hooks_stack[t])
Frame(t, k) == hooks_stack[t][Depth(t) + 1 - k]

Frames == [backtrace : Nat, pc : {"set", "store", "body", "clear", "release", "decref"}]
Counted == [refcount : Nat, caller : Nat, freed : BOOLEAN]

HooksTyped ==
  /\ hooks_idx \in Hashes /\ hooks_hooks_active \in BOOLEAN
  /\ hooks_bt \in Seq(Counted) /\ Len(hooks_bt) <= MaxBacktraces
  /\ hooks_slot \in [Hooks!Slots -> [thread : Callers \cup {"nobody"}, backtrace : Nat]]
  /\ hooks_stack \in [Callers -> Seq(Frames)] /\ \A t \in Callers : Depth(t) <= MaxNesting
  /\ hooks_reader \in [kind : {"none", "handler", "report"},
                       pc : {"done", "thread", "load", "incref", "held"},
                       thread : Callers \cup {"nobody"}, backtrace : Nat]
  /\ hooks_touched \in {"nobody", "handler", "report"}

\* Every reference is to a backtrace that was captured, and callers were captured before.
Refers ==
  /\ \A b \in 1 .. Len(hooks_bt) : hooks_bt[b].caller < b
  /\ \A t \in Callers : \A k \in 1 .. Depth(t) : Frame(t, k).backtrace \in 1 .. Len(hooks_bt)
  /\ hooks_queue \subseteq 1 .. Len(hooks_bt)
  /\ \A s \in Hooks!Slots : hooks_slot[s].backtrace <= Len(hooks_bt)
  /\ hooks_reader.backtrace <= Len(hooks_bt)
  /\ hooks_reader.pc \in {"incref", "held"} => hooks_reader.backtrace # 0
  /\ hooks_reader.pc # "done" => hooks_reader.kind # "none" /\ hooks_reader.thread \in Callers

\* A slot that a thread has taken holds nothing but the backtrace of a block it runs, and holds
\* nothing before that is stored, once it is cleared and when the slot is nobody's.
Taken ==
  \A s \in Hooks!Slots :
     /\ hooks_slot[s].thread = "nobody" => hooks_slot[s].backtrace = 0
     /\ \A t \in Callers : hooks_slot[s].thread = t =>
           /\ hooks_idx[t] = s
           /\ hooks_slot[s].backtrace # 0 =>
                 \E k \in 1 .. Depth(t) : /\ Frame(t, k).backtrace = hooks_slot[s].backtrace
                                          /\ Frame(t, k).pc \in {"body", "clear"}

\* Only the innermost block is at a hook, and where it is tells whether the slot is the thread's.
Nested ==
  \A t \in Callers : \A k \in 1 .. Depth(t) :
     /\ k < Depth(t) => Frame(t, k).pc \in {"body"}
     /\ Frame(t, k).pc \in {"store", "clear", "release"} => Hooks!Mine(t).thread = t
     /\ Frame(t, k).pc \in {"store", "release"} => Hooks!Mine(t).backtrace = 0
     /\ Frame(t, k).pc = "decref" => Hooks!Mine(t).thread # t

\* What a handler has read of a slot is still there: it has stopped everybody else.
HandlerSees ==
  hooks_reader.kind = "handler" =>
     /\ hooks_reader.pc = "load" => Hooks!Mine(hooks_reader.thread).thread = hooks_reader.thread
     /\ hooks_reader.pc = "incref" =>
           /\ Hooks!Mine(hooks_reader.thread).thread = hooks_reader.thread
           /\ Hooks!Mine(hooks_reader.thread).backtrace = hooks_reader.backtrace

Runners(b) == {x \in Callers \X (1 .. MaxNesting) : x[2] <= Depth(x[1]) /\ Frame(x[1], x[2]).backtrace = b}
Held(b)    == Cardinality(Runners(b)) + Cardinality(Hooks!Callees(b))
              + (IF b \in hooks_queue THEN 1 ELSE 0)
              + (IF hooks_reader.pc = "held" /\ hooks_reader.backtrace = b THEN 1 ELSE 0)

\* Counts are of holders, and what nobody holds is freed.
Counting ==
  hooks_touched = "nobody" =>
     \A b \in 1 .. Len(hooks_bt) :
        hooks_bt[b].refcount = Held(b) /\ (hooks_bt[b].freed <=> Held(b) = 0)

HooksInv ==
  /\ HooksTyped /\ Refers /\ Taken /\ Nested /\ HandlerSees /\ Counting
  /\ hooks_touched # "handler"

\* What a thread runs is unchanged, but for one that is put inside the others, or ends, or
\* goes on.
LEMMA Pushed ==
  ASSUME HooksTyped, NEW t \in Callers, NEW f \in Frames,
         hooks_stack' = [hooks_stack EXCEPT ![t] = <<f>> \o @]
  PROVE  /\ Depth(t)' = Depth(t) + 1 /\ Depth(t) \in Nat
         /\ \A k \in 1 .. Depth(t) : Frame(t, k)' = Frame(t, k)
         /\ \A k : k = Depth(t) + 1 => Frame(t, k)' = f
         /\ \A u \in Callers : u # t => Depth(u)' = Depth(u) /\ \A k : Frame(u, k)' = Frame(u, k)
         /\ hooks_stack' \in [Callers -> Seq(Frames)]
<1> DEFINE old == hooks_stack[t]
           new == <<f>> \o old
<1>1. old \in Seq(Frames) /\ new \in Seq(Frames)
  BY DEF HooksTyped
<1>2. /\ Len(old) \in Nat /\ Len(new) = Len(old) + 1 /\ new[1] = f
      /\ \A i \in 1 .. Len(old) : new[i + 1] = old[i]
  BY <1>1
<1>3. /\ hooks_stack'[t] = new
      /\ \A u \in Callers : u # t => hooks_stack'[u] = hooks_stack[u]
      /\ hooks_stack' \in [Callers -> Seq(Frames)]
  BY <1>1 DEF HooksTyped
<1> HIDE DEF new
<1>4. Depth(t)' = Depth(t) + 1 /\ Depth(t) = Len(old) /\ Depth(t)' = Len(new)
  BY <1>2, <1>3 DEF Depth
<1>5. ASSUME NEW k \in 1 .. Depth(t) PROVE Frame(t, k)' = Frame(t, k)
  <2>1. Len(old) + 1 - k \in 1 .. Len(old) /\ Len(new) + 1 - k = (Len(old) + 1 - k) + 1
    BY <1>2, <1>4
  <2>2. new[Len(new) + 1 - k] = old[Len(old) + 1 - k]
    BY <1>2, <2>1
  <2> QED
    BY <1>3, <1>4, <2>2 DEF Frame
<1>6. ASSUME NEW k, k = Depth(t) + 1 PROVE Frame(t, k)' = f
  <2>1. Len(new) + 1 - k = 1
    BY <1>2, <1>4, <1>6
  <2> QED
    BY <1>2, <1>3, <1>4, <2>1 DEF Frame
<1>7. ASSUME NEW u \in Callers, u # t PROVE Depth(u)' = Depth(u) /\ \A k : Frame(u, k)' = Frame(u, k)
  BY <1>3, <1>7 DEF Depth, Frame
<1> QED
  BY <1>2, <1>3, <1>4, <1>5, <1>6, <1>7

\* The innermost block ends: the others keep their places.
LEMMA Popped ==
  ASSUME HooksTyped, NEW t \in Callers, hooks_stack[t] # <<>>,
         hooks_stack' = [hooks_stack EXCEPT ![t] = Tail(@)]
  PROVE  /\ Depth(t)' = Depth(t) - 1 /\ Depth(t) \in Nat \ {0}
         /\ \A k \in 1 .. (Depth(t) - 1) : Frame(t, k)' = Frame(t, k)
         /\ \A u \in Callers : u # t => Depth(u)' = Depth(u) /\ \A k : Frame(u, k)' = Frame(u, k)
         /\ hooks_stack' \in [Callers -> Seq(Frames)]
<1> DEFINE old == hooks_stack[t]
           new == Tail(old)
<1>1. old \in Seq(Frames) /\ old # <<>>
  BY DEF HooksTyped
<1>2. /\ Len(old) \in Nat \ {0} /\ Len(new) = Len(old) - 1 /\ new \in Seq(Frames)
      /\ \A i \in 1 .. (Len(old) - 1) : new[i] = old[i + 1]
  BY <1>1
<1>3. /\ hooks_stack'[t] = new
      /\ \A u \in Callers : u # t => hooks_stack'[u] = hooks_stack[u]
      /\ hooks_stack' \in [Callers -> Seq(Frames)]
  BY <1>2 DEF HooksTyped
<1> HIDE DEF new
<1>4. Depth(t)' = Depth(t) - 1 /\ Depth(t) = Len(old) /\ Depth(t)' = Len(new)
  BY <1>2, <1>3 DEF Depth
<1>5. ASSUME NEW k \in 1 .. (Depth(t) - 1) PROVE Frame(t, k)' = Frame(t, k)
  <2>1. Len(new) + 1 - k \in 1 .. (Len(old) - 1) /\ Len(old) + 1 - k = (Len(new) + 1 - k) + 1
    BY <1>2, <1>4
  <2>2. new[Len(new) + 1 - k] = old[Len(old) + 1 - k]
    BY <1>2, <2>1
  <2> QED
    BY <1>3, <1>4, <2>2 DEF Frame
<1>7. ASSUME NEW u \in Callers, u # t PROVE Depth(u)' = Depth(u) /\ \A k : Frame(u, k)' = Frame(u, k)
  BY <1>3, <1>7 DEF Depth, Frame
<1> QED
  BY <1>2, <1>3, <1>4, <1>5, <1>7

\* The innermost block goes on: it keeps its place, and the others do.
LEMMA Changed ==
  ASSUME HooksTyped, NEW t \in Callers, hooks_stack[t] # <<>>, NEW f \in Frames,
         hooks_stack' = [hooks_stack EXCEPT ![t] = [@ EXCEPT ![1] = f]]
  PROVE  /\ Depth(t)' = Depth(t) /\ Depth(t) \in Nat \ {0}
         /\ \A k \in 1 .. (Depth(t) - 1) : Frame(t, k)' = Frame(t, k)
         /\ \A k : k = Depth(t) => Frame(t, k)' = f
         /\ \A u \in Callers : u # t => Depth(u)' = Depth(u) /\ \A k : Frame(u, k)' = Frame(u, k)
         /\ hooks_stack' \in [Callers -> Seq(Frames)]
<1> DEFINE old == hooks_stack[t]
           new == [old EXCEPT ![1] = f]
<1>1. old \in Seq(Frames) /\ old # <<>>
  BY DEF HooksTyped
<1>2. /\ Len(old) \in Nat \ {0} /\ Len(new) = Len(old) /\ new \in Seq(Frames) /\ new[1] = f
      /\ \A i \in 2 .. Len(old) : new[i] = old[i]
  BY <1>1
<1>3. /\ hooks_stack'[t] = new
      /\ \A u \in Callers : u # t => hooks_stack'[u] = hooks_stack[u]
      /\ hooks_stack' \in [Callers -> Seq(Frames)]
  BY <1>2 DEF HooksTyped
<1> HIDE DEF new
<1>4. Depth(t)' = Depth(t) /\ Depth(t) = Len(old) /\ Depth(t)' = Len(new)
  BY <1>2, <1>3 DEF Depth
<1>5. ASSUME NEW k \in 1 .. (Depth(t) - 1) PROVE Frame(t, k)' = Frame(t, k)
  <2>1. Len(new) + 1 - k \in 2 .. Len(old) /\ Len(old) + 1 - k = Len(new) + 1 - k
    BY <1>2, <1>4
  <2> QED
    BY <1>2, <1>3, <1>4, <2>1 DEF Frame
<1>6. ASSUME NEW k, k = Depth(t) PROVE Frame(t, k)' = f
  <2>1. Len(new) + 1 - k = 1
    BY <1>2, <1>4, <1>6
  <2> QED
    BY <1>2, <1>3, <1>4, <2>1 DEF Frame
<1>7. ASSUME NEW u \in Callers, u # t PROVE Depth(u)' = Depth(u) /\ \A k : Frame(u, k)' = Frame(u, k)
  BY <1>3, <1>7 DEF Depth, Frame
<1> QED
  BY <1>2, <1>3, <1>4, <1>5, <1>6, <1>7

\* The innermost block is the one at the head.
LEMMA Innermost ==
  ASSUME HooksTyped, NEW t \in Callers, hooks_stack[t] # <<>>
  PROVE  /\ Depth(t) \in Nat \ {0} /\ Depth(t) \in 1 .. Depth(t)
         /\ \A k : k = Depth(t) => Frame(t, k) = Head(hooks_stack[t])
         /\ hooks_stack[t] \in Seq(Frames) /\ Head(hooks_stack[t]) = hooks_stack[t][1]
         /\ Head(hooks_stack[t]) \in Frames
<1>1. hooks_stack[t] \in Seq(Frames)
  BY DEF HooksTyped
<1>2. /\ Len(hooks_stack[t]) \in Nat \ {0} /\ Head(hooks_stack[t]) = hooks_stack[t][1]
      /\ Head(hooks_stack[t]) \in Frames
  BY <1>1
<1>3. ASSUME NEW k, k = Depth(t) PROVE Depth(t) + 1 - k = 1
  BY <1>2, <1>3 DEF Depth
<1> QED
  BY <1>1, <1>2, <1>3 DEF Depth, Frame

\* Every thread has a slot among those there are.
LEMMA SlotOfThread == HooksTyped => \A t \in Callers : hooks_idx[t] \in Hooks!Slots
<1> SUFFICES ASSUME HooksTyped, NEW t \in Callers PROVE hooks_idx[t] \in Hooks!Slots
  OBVIOUS
<1>1. hooks_idx[t] \in {hooks_idx[u] : u \in Callers}
  OBVIOUS
<1>2. {hooks_idx[u] : u \in Callers} \in {{h[u] : u \in Callers} : h \in Hashes}
  BY DEF HooksTyped
<1> QED
  BY <1>1, <1>2 DEF Hooks!Slots

\* Those who run a block of a backtrace can be counted.
LEMMA RunnersFinite == \A b : IsFiniteSet(Runners(b)) /\ Cardinality(Runners(b)) \in Nat
<1> TAKE b
<1>1. IsFiniteSet(1 .. MaxNesting)
  BY FS_Interval, ToolsAssumption
<1>2. IsFiniteSet(Callers \X (1 .. MaxNesting))
  BY <1>1, FS_Product, ToolsAssumption
<1>3. Runners(b) \subseteq Callers \X (1 .. MaxNesting)
  BY DEF Runners
<1> QED
  BY <1>2, <1>3, FS_Subset, FS_CardinalityType

\* So can what a backtrace called.
LEMMA CalleesFinite ==
  ASSUME HooksTyped
  PROVE  \A b : IsFiniteSet(Hooks!Callees(b)) /\ Cardinality(Hooks!Callees(b)) \in Nat
<1> TAKE b
<1>1. IsFiniteSet(1 .. Len(hooks_bt))
  <2>1. Len(hooks_bt) \in Nat
    BY DEF HooksTyped
  <2> QED
    BY <2>1, FS_Interval
<1>2. Hooks!Callees(b) \subseteq 1 .. Len(hooks_bt)
  BY DEF Hooks!Callees
<1> QED
  BY <1>1, <1>2, FS_Subset, FS_CardinalityType

\* A block that begins is one more holder of its backtrace.
LEMMA RunnersPushed ==
  ASSUME HooksTyped, NEW t \in Callers, NEW f \in Frames, Depth(t) < MaxNesting,
         hooks_stack' = [hooks_stack EXCEPT ![t] = <<f>> \o @], NEW b
  PROVE  Cardinality(Runners(b))' = Cardinality(Runners(b)) + IF f.backtrace = b THEN 1 ELSE 0
<1> DEFINE d == Depth(t) + 1
<1>1. /\ Depth(t)' = d /\ Depth(t) \in Nat
      /\ \A k \in 1 .. Depth(t) : Frame(t, k)' = Frame(t, k)
      /\ \A k : k = d => Frame(t, k)' = f
      /\ \A u \in Callers : u # t => Depth(u)' = Depth(u) /\ \A k : Frame(u, k)' = Frame(u, k)
  BY Pushed
<1>2. d \in 1 .. MaxNesting
  BY <1>1, ToolsAssumption
<1>3. ASSUME NEW u \in Callers, NEW k \in 1 .. MaxNesting
      PROVE  (k <= Depth(u) /\ Frame(u, k).backtrace = b)' <=>
             (k <= Depth(u) /\ Frame(u, k).backtrace = b) \/ (u = t /\ k = d /\ f.backtrace = b)
  <2>1. CASE u # t
    BY <1>1, <2>1
  <2>2. CASE u = t
    <3>1. CASE k = d
      BY <1>1, <2>2, <3>1
    <3>2. CASE k # d
      <4>1. k <= d <=> k \in 1 .. Depth(t)
        BY <1>1, <3>2
      <4> QED
        BY <1>1, <2>2, <3>2, <4>1
    <3> QED
      BY <3>1, <3>2
  <2> QED
    BY <2>1, <2>2
<1>4. Runners(b)' = Runners(b) \cup IF f.backtrace = b THEN {<<t, d>>} ELSE {}
  BY <1>2, <1>3 DEF Runners
<1>5. <<t, d>> \notin Runners(b)
  BY <1>1 DEF Runners
<1> HIDE DEF d
<1>6. CASE f.backtrace = b
  <2>1. Cardinality(Runners(b) \cup {<<t, d>>}) = Cardinality(Runners(b)) + 1
    BY <1>5, RunnersFinite, FS_AddElement
  <2> QED
    BY <1>4, <1>6, <2>1
<1>7. CASE f.backtrace # b
  BY <1>4, <1>7, RunnersFinite
<1> QED
  BY <1>6, <1>7

\* One that ends is one less.
LEMMA RunnersPopped ==
  ASSUME HooksTyped, NEW t \in Callers, hooks_stack[t] # <<>>,
         hooks_stack' = [hooks_stack EXCEPT ![t] = Tail(@)], NEW b
  PROVE  Cardinality(Runners(b))' =
            Cardinality(Runners(b)) - IF Head(hooks_stack[t]).backtrace = b THEN 1 ELSE 0
<1> DEFINE d == Depth(t)
<1>1. /\ Depth(t)' = d - 1 /\ d \in Nat \ {0}
      /\ \A k \in 1 .. (d - 1) : Frame(t, k)' = Frame(t, k)
      /\ \A u \in Callers : u # t => Depth(u)' = Depth(u) /\ \A k : Frame(u, k)' = Frame(u, k)
  BY Popped
<1>2. d \in 1 .. MaxNesting /\ \A k : k = d => Frame(t, k) = Head(hooks_stack[t])
  BY <1>1, Innermost, ToolsAssumption DEF HooksTyped
<1>3. ASSUME NEW u \in Callers, NEW k \in 1 .. MaxNesting
      PROVE  (k <= Depth(u) /\ Frame(u, k).backtrace = b)' <=>
             (k <= Depth(u) /\ Frame(u, k).backtrace = b) /\ ~(u = t /\ k = d)
  <2>1. CASE u # t
    BY <1>1, <2>1
  <2>2. CASE u = t
    <3>1. CASE k = d
      BY <1>1, <2>2, <3>1
    <3>2. CASE k # d
      <4>1. k <= d - 1 <=> k <= d
        BY <1>1, <3>2
      <4>2. k <= d => k \in 1 .. (d - 1)
        BY <1>1, <3>2
      <4> QED
        BY <1>1, <2>2, <3>2, <4>1, <4>2
    <3> QED
      BY <3>1, <3>2
  <2> QED
    BY <2>1, <2>2
<1>4. Runners(b)' = Runners(b) \ {<<t, d>>}
  BY <1>2, <1>3 DEF Runners
<1>5. <<t, d>> \in Runners(b) <=> Head(hooks_stack[t]).backtrace = b
  BY <1>1, <1>2 DEF Runners
<1> HIDE DEF d
<1>6. CASE Head(hooks_stack[t]).backtrace = b
  <2>1. Cardinality(Runners(b) \ {<<t, d>>}) = Cardinality(Runners(b)) - 1
    BY <1>5, <1>6, RunnersFinite, FS_RemoveElement
  <2> QED
    BY <1>4, <1>6, <2>1
<1>7. CASE Head(hooks_stack[t]).backtrace # b
  <2>1. Runners(b)' = Runners(b)
    BY <1>4, <1>5, <1>7
  <2> QED
    BY <1>7, <2>1, RunnersFinite
<1> QED
  BY <1>6, <1>7

\* One that goes on holds what it then has.
LEMMA RunnersChanged ==
  ASSUME HooksTyped, NEW t \in Callers, hooks_stack[t] # <<>>, NEW f \in Frames,
         hooks_stack' = [hooks_stack EXCEPT ![t] = [@ EXCEPT ![1] = f]], NEW b
  PROVE  Cardinality(Runners(b))' =
            Cardinality(Runners(b)) - (IF Head(hooks_stack[t]).backtrace = b THEN 1 ELSE 0)
                                    + (IF f.backtrace = b THEN 1 ELSE 0)
<1> DEFINE d == Depth(t)
<1>1. /\ Depth(t)' = d /\ d \in Nat \ {0}
      /\ \A k \in 1 .. (d - 1) : Frame(t, k)' = Frame(t, k)
      /\ \A k : k = d => Frame(t, k)' = f
      /\ \A u \in Callers : u # t => Depth(u)' = Depth(u) /\ \A k : Frame(u, k)' = Frame(u, k)
  BY Changed
<1>2. d \in 1 .. MaxNesting /\ \A k : k = d => Frame(t, k) = Head(hooks_stack[t])
  BY <1>1, Innermost, ToolsAssumption DEF HooksTyped
<1>3. ASSUME NEW u \in Callers, NEW k \in 1 .. MaxNesting
      PROVE  (k <= Depth(u) /\ Frame(u, k).backtrace = b)' <=>
             IF u = t /\ k = d THEN f.backtrace = b
             ELSE k <= Depth(u) /\ Frame(u, k).backtrace = b
  <2>1. CASE u # t
    BY <1>1, <2>1
  <2>2. CASE u = t
    <3>1. CASE k = d
      BY <1>1, <2>2, <3>1
    <3>2. CASE k # d
      <4>2. k <= d => k \in 1 .. (d - 1)
        BY <1>1, <3>2
      <4> QED
        BY <1>1, <2>2, <3>2, <4>2
    <3> QED
      BY <3>1, <3>2
  <2> QED
    BY <2>1, <2>2
<1> DEFINE rest == Runners(b) \ {<<t, d>>}
<1>4. Runners(b)' = rest \cup IF f.backtrace = b THEN {<<t, d>>} ELSE {}
  BY <1>2, <1>3 DEF Runners
<1>5. <<t, d>> \in Runners(b) <=> Head(hooks_stack[t]).backtrace = b
  BY <1>1, <1>2 DEF Runners
<1> HIDE DEF d
<1>6. /\ IsFiniteSet(rest) /\ Cardinality(rest) \in Nat
      /\ Cardinality(rest) = Cardinality(Runners(b)) - IF Head(hooks_stack[t]).backtrace = b THEN 1 ELSE 0
  <2>1. CASE Head(hooks_stack[t]).backtrace = b
    BY <1>5, <2>1, RunnersFinite, FS_RemoveElement, FS_CardinalityType
  <2>2. CASE Head(hooks_stack[t]).backtrace # b
    <3>1. rest = Runners(b)
      BY <1>5, <2>2
    <3>2. Cardinality(Runners(b)) \in Nat /\ IsFiniteSet(Runners(b))
      BY RunnersFinite
    <3> HIDE DEF rest
    <3>3. Cardinality(rest) = Cardinality(Runners(b)) /\ IsFiniteSet(rest)
      BY <3>1, <3>2
    <3> QED
      BY <2>2, <3>2, <3>3
  <2> QED
    BY <2>1, <2>2
<1>7. <<t, d>> \notin rest
  OBVIOUS
<1> HIDE DEF rest
<1>8. Cardinality(rest \cup {<<t, d>>}) = Cardinality(rest) + 1
  BY <1>6, <1>7, FS_AddElement
<1>9. CASE f.backtrace = b
  BY <1>4, <1>6, <1>8, <1>9, RunnersFinite
<1>10. CASE f.backtrace # b
  BY <1>4, <1>6, <1>10, RunnersFinite
<1> QED
  BY <1>9, <1>10

\* A counted backtrace with another count.
LEMMA CountedUp ==
  ASSUME NEW e \in Counted, NEW n \in Nat, NEW r, r = [e EXCEPT !.refcount = n]
  PROVE  r \in Counted /\ r.refcount = n /\ r.caller = e.caller /\ r.freed = e.freed
BY DEF Counted

\* A reference that is given up.
LEMMA GivenUp ==
  ASSUME HooksTyped, NEW b \in 1 .. Len(hooks_bt), hooks_bt[b].refcount >= 1,
         hooks_bt' = Hooks!Released(b)
  PROVE  /\ hooks_bt' \in Seq(Counted) /\ Len(hooks_bt)' = Len(hooks_bt)
         /\ \A x \in 1 .. Len(hooks_bt) : x # b => hooks_bt'[x] = hooks_bt[x]
         /\ hooks_bt'[b].caller = hooks_bt[b].caller
         /\ hooks_bt'[b].refcount = hooks_bt[b].refcount - 1
         /\ hooks_bt'[b].freed <=> hooks_bt[b].refcount = 1
<1>1. hooks_bt \in Seq(Counted) /\ hooks_bt[b] \in Counted
  BY DEF HooksTyped
<1>8. PICK q \in BOOLEAN : q = (hooks_bt[b].refcount = 1)
  OBVIOUS
<1>9. PICK n \in Nat : n = hooks_bt[b].refcount - 1
  BY <1>1 DEF Counted
<1>5. PICK r : r = [hooks_bt[b] EXCEPT !.refcount = n, !.freed = q]
  OBVIOUS
<1>3. hooks_bt' = [hooks_bt EXCEPT ![b] = r]
  BY <1>1, <1>5, <1>8, <1>9 DEF Hooks!Released
<1>2. r \in Counted /\ r.caller = hooks_bt[b].caller /\ r.refcount = n
  BY <1>1, <1>5 DEF Counted
<1>6. r.freed = q
  BY <1>1, <1>5 DEF Counted
<1>4. r.freed <=> hooks_bt[b].refcount = 1
  <2>1. r.freed = (hooks_bt[b].refcount = 1)
    BY <1>6, <1>8
  <2> QED
    BY <2>1, Zenon
<1>7. hooks_bt'[b] = r
  BY <1>1, <1>2, <1>3
<1> QED
  BY <1>1, <1>2, <1>3, <1>4, <1>7, <1>9

\* With the last one a backtrace stops holding its caller.
LEMMA CalleesGivenUp ==
  ASSUME HooksTyped, NEW b \in 1 .. Len(hooks_bt), hooks_bt[b].refcount >= 1, ~hooks_bt[b].freed,
         hooks_bt' = Hooks!Released(b), NEW x
  PROVE  Cardinality(Hooks!Callees(x))' =
            Cardinality(Hooks!Callees(x))
            - IF hooks_bt[b].refcount = 1 /\ hooks_bt[b].caller = x THEN 1 ELSE 0
<1>1. /\ Len(hooks_bt)' = Len(hooks_bt)
      /\ \A c \in 1 .. Len(hooks_bt) : c # b => hooks_bt'[c] = hooks_bt[c]
      /\ hooks_bt'[b].caller = hooks_bt[b].caller
      /\ hooks_bt'[b].freed <=> hooks_bt[b].refcount = 1
  BY GivenUp
<1>2. CASE hooks_bt[b].refcount = 1 /\ hooks_bt[b].caller = x
  <2>1. Hooks!Callees(x)' = Hooks!Callees(x) \ {b} /\ b \in Hooks!Callees(x)
    BY <1>1, <1>2 DEF Hooks!Callees
  <2>2. Cardinality(Hooks!Callees(x) \ {b}) = Cardinality(Hooks!Callees(x)) - 1
    BY <2>1, CalleesFinite, FS_RemoveElement
  <2> QED
    BY <1>2, <2>1, <2>2
<1>3. CASE ~(hooks_bt[b].refcount = 1 /\ hooks_bt[b].caller = x)
  <2>1. Hooks!Callees(x)' = Hooks!Callees(x)
    BY <1>1, <1>3 DEF Hooks!Callees
  <2> QED
    BY <1>3, <2>1, CalleesFinite
<1> QED
  BY <1>2, <1>3

\* A reference that is taken.
LEMMA TakenUp ==
  ASSUME HooksTyped, NEW b \in 1 .. Len(hooks_bt),
         hooks_bt' = [hooks_bt EXCEPT ![b].refcount = @ + 1]
  PROVE  /\ hooks_bt' \in Seq(Counted) /\ Len(hooks_bt)' = Len(hooks_bt)
         /\ \A x \in 1 .. Len(hooks_bt) : x # b => hooks_bt'[x] = hooks_bt[x]
         /\ hooks_bt'[b].caller = hooks_bt[b].caller
         /\ hooks_bt'[b].refcount = hooks_bt[b].refcount + 1
         /\ hooks_bt'[b].freed = hooks_bt[b].freed
         /\ \A x : Hooks!Callees(x)' = Hooks!Callees(x)
<1>7. PICK r : r = [hooks_bt[b] EXCEPT !.refcount = hooks_bt[b].refcount + 1]
  OBVIOUS
<1>1. hooks_bt \in Seq(Counted) /\ hooks_bt[b] \in Counted
  BY DEF HooksTyped
<1>2. /\ r \in Counted /\ r.caller = hooks_bt[b].caller /\ r.refcount = hooks_bt[b].refcount + 1
      /\ r.freed = hooks_bt[b].freed
  <2>1. hooks_bt[b].refcount + 1 \in Nat
    BY <1>1 DEF Counted
  <2> QED
    BY <1>1, <1>7, <2>1, CountedUp
<1>3. hooks_bt' = [hooks_bt EXCEPT ![b] = r]
  BY <1>1, <1>7
<1>4. /\ hooks_bt' \in Seq(Counted) /\ Len(hooks_bt)' = Len(hooks_bt) /\ hooks_bt'[b] = r
      /\ \A x \in 1 .. Len(hooks_bt) : x # b => hooks_bt'[x] = hooks_bt[x]
  BY <1>1, <1>2, <1>3
<1>5. ASSUME NEW c \in 1 .. Len(hooks_bt)
      PROVE  hooks_bt'[c].freed = hooks_bt[c].freed /\ hooks_bt'[c].caller = hooks_bt[c].caller
  BY <1>2, <1>4
<1>6. \A x : Hooks!Callees(x)' = Hooks!Callees(x)
  BY <1>4, <1>5 DEF Hooks!Callees
<1> QED
  BY <1>2, <1>4, <1>6

\* A backtrace that is captured, by the caller it has.
LEMMA CapturedBy ==
  ASSUME HooksTyped, NEW c \in Nat, NEW held \in Seq(Counted), Len(held) = Len(hooks_bt),
         \A x \in 1 .. Len(hooks_bt) : /\ held[x].freed = hooks_bt[x].freed
                                       /\ held[x].caller = hooks_bt[x].caller,
         hooks_bt' = Append(held, [refcount |-> 1, caller |-> c, freed |-> FALSE]),
         NEW m, m = Len(hooks_bt) + 1
  PROVE  /\ hooks_bt' \in Seq(Counted) /\ Len(hooks_bt)' = m /\ Len(hooks_bt) \in Nat
         /\ \A x \in 1 .. Len(hooks_bt) : hooks_bt'[x] = held[x]
         /\ hooks_bt'[m] = [refcount |-> 1, caller |-> c, freed |-> FALSE]
         /\ \A x : Cardinality(Hooks!Callees(x))' =
                      Cardinality(Hooks!Callees(x)) + IF c = x THEN 1 ELSE 0
<1> DEFINE r == [refcount |-> 1, caller |-> c, freed |-> FALSE]
<1>1. r \in Counted /\ r.caller = c /\ ~r.freed
  BY DEF Counted
<1> HIDE DEF r
<1>2. Len(held) \in Nat /\ hooks_bt' = Append(held, r)
  BY DEF r
<1>3. /\ hooks_bt' \in Seq(Counted) /\ Len(hooks_bt)' = m /\ Len(hooks_bt) \in Nat
      /\ \A x \in 1 .. Len(hooks_bt) : hooks_bt'[x] = held[x]
      /\ hooks_bt'[m] = r
  BY <1>1, <1>2
<1>4. ASSUME NEW x
      PROVE  Cardinality(Hooks!Callees(x))' = Cardinality(Hooks!Callees(x)) + IF c = x THEN 1 ELSE 0
  <2>1. m \notin Hooks!Callees(x)
    BY <1>3 DEF Hooks!Callees
  <2>2. \A y : y \in 1 .. m <=> y \in 1 .. Len(hooks_bt) \/ y = m
    BY <1>3
  <2>3. ASSUME NEW y \in 1 .. Len(hooks_bt)
        PROVE  hooks_bt'[y].freed = hooks_bt[y].freed /\ hooks_bt'[y].caller = hooks_bt[y].caller
    BY <1>3
  <2>4. Hooks!Callees(x)' = Hooks!Callees(x) \cup IF c = x THEN {m} ELSE {}
    BY <1>1, <1>3, <2>2, <2>3 DEF Hooks!Callees
  <2>5. CASE c = x
    <3>1. Cardinality(Hooks!Callees(x) \cup {m}) = Cardinality(Hooks!Callees(x)) + 1
      BY <2>1, CalleesFinite, FS_AddElement
    <3> QED
      BY <2>4, <2>5, <3>1
  <2>6. CASE c # x
    BY <2>4, <2>6, CalleesFinite
  <2> QED
    BY <2>5, <2>6
<1> QED
  BY <1>3, <1>4 DEF r

-----------------------------------------------------------------------------
(* The steps of a block. *)

Places == {"set", "store", "body", "clear", "release", "decref"}

\* The innermost block goes on, with its backtrace.
LEMMA GoesOn ==
  ASSUME HooksTyped, NEW t \in Callers, hooks_stack[t] # <<>>, NEW p \in Places, Hooks!Goto(t, p)
  PROVE  /\ hooks_stack' \in [Callers -> Seq(Frames)]
         /\ Depth(t) \in Nat \ {0} /\ \A u \in Callers : Depth(u)' = Depth(u)
         /\ \A u \in Callers : u # t => \A k : Frame(u, k)' = Frame(u, k)
         /\ \A k \in 1 .. (Depth(t) - 1) : Frame(t, k)' = Frame(t, k)
         /\ \A k : k = Depth(t) => Frame(t, k)'.pc = p /\ Frame(t, k)'.backtrace = Frame(t, k).backtrace
         /\ \A b : Cardinality(Runners(b))' = Cardinality(Runners(b))
<1>1. PICK f : f = [hooks_stack[t][1] EXCEPT !.pc = p]
  OBVIOUS
<1>2. /\ hooks_stack[t] \in Seq(Frames) /\ Head(hooks_stack[t]) \in Frames
      /\ Head(hooks_stack[t]) = hooks_stack[t][1]
      /\ Depth(t) \in Nat \ {0} /\ \A k : k = Depth(t) => Frame(t, k) = Head(hooks_stack[t])
  BY Innermost
<1>3. f \in Frames /\ f.pc = p /\ f.backtrace = Head(hooks_stack[t]).backtrace
  BY <1>1, <1>2 DEF Frames, Places
<1>4. hooks_stack' = [hooks_stack EXCEPT ![t] = [@ EXCEPT ![1] = f]]
  BY <1>1, <1>2 DEF Hooks!Goto
<1>5. /\ Depth(t)' = Depth(t) /\ Depth(t) \in Nat \ {0}
      /\ \A k \in 1 .. (Depth(t) - 1) : Frame(t, k)' = Frame(t, k)
      /\ \A k : k = Depth(t) => Frame(t, k)' = f
      /\ \A u \in Callers : u # t => Depth(u)' = Depth(u) /\ \A k : Frame(u, k)' = Frame(u, k)
      /\ hooks_stack' \in [Callers -> Seq(Frames)]
  BY <1>3, <1>4, Changed
<1>6. ASSUME NEW b PROVE Cardinality(Runners(b))' = Cardinality(Runners(b))
  <2>1. Cardinality(Runners(b))' =
            Cardinality(Runners(b)) - (IF Head(hooks_stack[t]).backtrace = b THEN 1 ELSE 0)
                                    + (IF f.backtrace = b THEN 1 ELSE 0)
    BY <1>3, <1>4, RunnersChanged
  <2>2. Cardinality(Runners(b)) \in Nat
    BY RunnersFinite
  <2> QED
    BY <1>3, <2>1, <2>2
<1> QED
  BY <1>2, <1>3, <1>5, <1>6

\* Counts do not change with the places of blocks.
LEMMA CountsStay ==
  ASSUME Counting, \A b : Cardinality(Runners(b))' = Cardinality(Runners(b)),
         UNCHANGED <<hooks_bt, hooks_queue, hooks_touched>>,
         \/ UNCHANGED hooks_reader
         \/ hooks_reader.pc # "held" /\ hooks_reader'.pc # "held"
  PROVE  Counting'
<1>1. \A b : Hooks!Callees(b)' = Hooks!Callees(b)
  BY DEF Hooks!Callees
<1>2. ASSUME NEW b PROVE Held(b)' = Held(b)
  BY <1>1 DEF Held
<1> QED
  BY <1>2 DEF Counting

\* The slot of a thread may become mine with a step of its innermost block from p on to q.
Fits(t, p, q, mine) ==
  /\ Hooks!Mine(t).thread \in {t, "nobody"} \/ mine = Hooks!Mine(t)
  /\ mine.thread \in {t, "nobody"} \/ mine = Hooks!Mine(t)
  /\ mine.thread = "nobody" => mine.backtrace = 0
  /\ mine.thread = t /\ mine.backtrace # 0 =>
        \/ mine.backtrace = Head(hooks_stack[t]).backtrace /\ q \in {"body", "clear"}
        \/ mine = Hooks!Mine(t) /\ (p = "body" => q \in {"body", "clear"}) /\ p # "clear"
  /\ q \in {"store", "clear", "release"} => mine.thread = t
  /\ q \in {"store", "release"} => mine.backtrace = 0
  /\ q = "decref" => mine.thread # t

\* What a step of a block at p, on to q, leaves true if it leaves the slot's other users theirs.
LEMMA BlockStep ==
  ASSUME HooksInv, NEW t \in Callers, NEW p \in Places, Hooks!At(t, p), NEW q \in Places, Hooks!Goto(t, q),
         UNCHANGED <<hooks_idx, hooks_hooks_active, hooks_bt, hooks_queue, hooks_reader, hooks_touched>>,
         NEW mine \in [thread : Callers \cup {"nobody"}, backtrace : 0 .. Len(hooks_bt)],
         hooks_slot' = [hooks_slot EXCEPT ![hooks_idx[t]] = mine],
         Fits(t, p, q, mine)
  PROVE  HooksInv'
<1>0. /\ Hooks!Mine(t).thread \in {t, "nobody"} \/ mine = Hooks!Mine(t)
      /\ mine.thread \in {t, "nobody"} \/ mine = Hooks!Mine(t)
      /\ mine.thread = "nobody" => mine.backtrace = 0
      /\ mine.thread = t /\ mine.backtrace # 0 =>
            \/ mine.backtrace = Head(hooks_stack[t]).backtrace /\ q \in {"body", "clear"}
            \/ mine = Hooks!Mine(t) /\ (p = "body" => q \in {"body", "clear"}) /\ p # "clear"
      /\ q \in {"store", "clear", "release"} => mine.thread = t
      /\ q \in {"store", "release"} => mine.backtrace = 0
      /\ q = "decref" => mine.thread # t
  BY DEF Fits
<1> USE <1>0
<1>1. /\ HooksTyped /\ Refers /\ Taken /\ Nested /\ HandlerSees /\ Counting /\ hooks_touched # "handler"
      /\ hooks_stack[t] # <<>> /\ Head(hooks_stack[t]).pc = p /\ hooks_reader.kind # "handler"
      /\ hooks_idx[t] \in Hooks!Slots
  BY SlotOfThread DEF HooksInv, Hooks!At, Hooks!Running
<1>2. /\ hooks_stack' \in [Callers -> Seq(Frames)]
      /\ Depth(t) \in Nat \ {0} /\ \A u \in Callers : Depth(u)' = Depth(u)
      /\ \A u \in Callers : u # t => \A k : Frame(u, k)' = Frame(u, k)
      /\ \A k \in 1 .. (Depth(t) - 1) : Frame(t, k)' = Frame(t, k)
      /\ \A k : k = Depth(t) => Frame(t, k)'.pc = q /\ Frame(t, k)'.backtrace = Frame(t, k).backtrace
      /\ \A b : Cardinality(Runners(b))' = Cardinality(Runners(b))
  BY <1>1, GoesOn
<1>3. \A k : k = Depth(t) => Frame(t, k) = Head(hooks_stack[t])
  BY <1>1, Innermost
<1>4. /\ hooks_slot' \in [Hooks!Slots -> [thread : Callers \cup {"nobody"}, backtrace : Nat]]
      /\ hooks_slot'[hooks_idx[t]] = mine
      /\ \A s \in Hooks!Slots : s # hooks_idx[t] => hooks_slot'[s] = hooks_slot[s]
  <2>1. mine \in [thread : Callers \cup {"nobody"}, backtrace : Nat]
    BY <1>1 DEF HooksTyped
  <2> QED
    BY <1>1, <2>1 DEF HooksTyped
<1>5. HooksTyped'
  <2>1. Hooks!Slots' = Hooks!Slots
    BY DEF Hooks!Slots
  <2>2. \A u \in Callers : Depth(u)' <= MaxNesting
    BY <1>1, <1>2 DEF HooksTyped
  <2> QED
    BY <1>1, <1>2, <1>4, <2>1, <2>2 DEF HooksTyped
<1>6. Refers'
  <2>1. ASSUME NEW u \in Callers, NEW k \in 1 .. Depth(u) PROVE Frame(u, k)'.backtrace \in 1 .. Len(hooks_bt)
    <3>1. Frame(u, k).backtrace \in 1 .. Len(hooks_bt)
      BY <1>1 DEF Refers
    <3>2. CASE u = t /\ k # Depth(t)
      <4>1. k \in 1 .. (Depth(t) - 1)
        BY <1>2, <3>2
      <4> QED
        BY <1>2, <3>1, <3>2, <4>1
    <3> QED
      BY <1>2, <3>1, <3>2
  <2>2. ASSUME NEW s \in Hooks!Slots PROVE hooks_slot'[s].backtrace <= Len(hooks_bt)
    BY <1>1, <1>4 DEF Refers, HooksTyped
  <2>3. Hooks!Slots' = Hooks!Slots
    BY DEF Hooks!Slots
  <2> QED
    BY <1>1, <1>2, <2>1, <2>2, <2>3 DEF Refers
<1>7. Counting' /\ HandlerSees' /\ hooks_touched' # "handler"
  BY <1>1, <1>2, CountsStay DEF HandlerSees
<1>8. ASSUME NEW u \in Callers, u # t
      PROVE  \/ Hooks!Mine(u)' = Hooks!Mine(u)
             \/ Hooks!Mine(u).thread # u /\ Hooks!Mine(u)'.thread # u
  <2>1. hooks_idx[u] \in Hooks!Slots
    BY <1>1, SlotOfThread
  <2>2. u # "nobody"
    BY ToolsAssumption
  <2> QED
    BY <1>4, <1>8, <2>1, <2>2 DEF Hooks!Mine
<1>9. Hooks!Mine(t)' = mine
  BY <1>4 DEF Hooks!Mine
<1>10. Nested'
  <2> SUFFICES ASSUME NEW u \in Callers, NEW k \in 1 .. Depth(u)
               PROVE  (/\ k < Depth(u) => Frame(u, k).pc \in {"body"}
                       /\ Frame(u, k).pc \in {"store", "clear", "release"} => Hooks!Mine(u).thread = u
                       /\ Frame(u, k).pc \in {"store", "release"} => Hooks!Mine(u).backtrace = 0
                       /\ Frame(u, k).pc = "decref" => Hooks!Mine(u).thread # u)'
    BY <1>2 DEF Nested
  <2>1. /\ k < Depth(u) => Frame(u, k).pc \in {"body"}
        /\ Frame(u, k).pc \in {"store", "clear", "release"} => Hooks!Mine(u).thread = u
        /\ Frame(u, k).pc \in {"store", "release"} => Hooks!Mine(u).backtrace = 0
        /\ Frame(u, k).pc = "decref" => Hooks!Mine(u).thread # u
    BY <1>1 DEF Nested
  <2>2. CASE u # t
    BY <1>2, <1>8, <2>1, <2>2
  <2>3. CASE u = t /\ k = Depth(t)
    BY <1>2, <1>9, <2>3
  <2>4. CASE u = t /\ k # Depth(t)
    <3>1. k \in 1 .. (Depth(t) - 1) /\ k < Depth(t)
      BY <1>2, <2>4
    <3> QED
      BY <1>2, <2>1, <2>4, <3>1
  <2> QED
    BY <2>2, <2>3, <2>4
<1>12. Hooks!Slots' = Hooks!Slots
  BY DEF Hooks!Slots
<1>11. Taken'
  <2> SUFFICES ASSUME NEW s \in Hooks!Slots
               PROVE  /\ hooks_slot'[s].thread = "nobody" => hooks_slot'[s].backtrace = 0
                      /\ \A u \in Callers : hooks_slot'[s].thread = u =>
                            /\ hooks_idx[u] = s
                            /\ hooks_slot'[s].backtrace # 0 =>
                                  \E k \in 1 .. Depth(u) :
                                     /\ Frame(u, k)'.backtrace = hooks_slot'[s].backtrace
                                     /\ Frame(u, k)'.pc \in {"body", "clear"}
    BY <1>2, <1>12 DEF Taken
  <2>1. /\ hooks_slot[s].thread = "nobody" => hooks_slot[s].backtrace = 0
        /\ \A u \in Callers : hooks_slot[s].thread = u =>
              /\ hooks_idx[u] = s
              /\ hooks_slot[s].backtrace # 0 =>
                    \E k \in 1 .. Depth(u) : /\ Frame(u, k).backtrace = hooks_slot[s].backtrace
                                             /\ Frame(u, k).pc \in {"body", "clear"}
    BY <1>1 DEF Taken
  <2>2. ASSUME NEW u \in Callers, u # t, hooks_slot'[s].thread = u
        PROVE  /\ hooks_idx[u] = s
               /\ hooks_slot'[s].backtrace # 0 =>
                     \E k \in 1 .. Depth(u) : /\ Frame(u, k)'.backtrace = hooks_slot'[s].backtrace
                                              /\ Frame(u, k)'.pc \in {"body", "clear"}
    <3>1. hooks_slot'[s] = hooks_slot[s]
      <4>1. u # "nobody"
        BY ToolsAssumption
      <4> QED
        BY <1>4, <2>2, <4>1 DEF Hooks!Mine
    <3> QED
      BY <1>2, <2>1, <2>2, <3>1
  <2>3. ASSUME hooks_slot'[s].thread = t
        PROVE  /\ hooks_idx[t] = s
               /\ hooks_slot'[s].backtrace # 0 =>
                     \E k \in 1 .. Depth(t) : /\ Frame(t, k)'.backtrace = hooks_slot'[s].backtrace
                                              /\ Frame(t, k)'.pc \in {"body", "clear"}
    <3>1. hooks_idx[t] = s
      BY <1>4, <2>1, <2>3
    <3>2. hooks_slot'[s] = mine
      BY <1>4, <3>1
    <3>3. ASSUME mine.backtrace # 0
          PROVE  \E k \in 1 .. Depth(t) : /\ Frame(t, k)'.backtrace = mine.backtrace
                                          /\ Frame(t, k)'.pc \in {"body", "clear"}
      <4>1. Depth(t) \in 1 .. Depth(t)
        BY <1>2
      <4>2. CASE mine.backtrace = Head(hooks_stack[t]).backtrace /\ q \in {"body", "clear"}
        BY <1>2, <1>3, <4>1, <4>2
      <4>3. CASE mine = Hooks!Mine(t) /\ (p = "body" => q \in {"body", "clear"}) /\ p # "clear"
        <5>1. PICK k \in 1 .. Depth(t) : /\ Frame(t, k).backtrace = mine.backtrace
                                        /\ Frame(t, k).pc \in {"body", "clear"}
          BY <2>1, <2>3, <3>1, <3>2, <3>3, <4>3 DEF Hooks!Mine
        <5>2. CASE k = Depth(t)
          BY <1>1, <1>2, <1>3, <4>1, <4>3, <5>1, <5>2
        <5>3. CASE k # Depth(t)
          <6>1. k \in 1 .. (Depth(t) - 1)
            BY <1>2, <5>3
          <6> QED
            BY <1>2, <5>1, <6>1
        <5> QED
          BY <5>2, <5>3
      <4> QED
        BY <2>3, <3>2, <3>3, <4>2, <4>3
    <3> QED
      BY <3>1, <3>2, <3>3
  <2>4. hooks_slot'[s].thread = "nobody" => hooks_slot'[s].backtrace = 0
    BY <1>4, <2>1
  <2> QED
    BY <2>2, <2>3, <2>4
<1> QED
  BY <1>5, <1>6, <1>7, <1>10, <1>11 DEF HooksInv

\* The slot of a thread that is at a hook.
LEMMA AtItsSlot ==
  ASSUME HooksInv, NEW t \in Callers, NEW p, Hooks!At(t, p)
  PROVE  /\ hooks_idx[t] \in Hooks!Slots /\ t # "nobody" /\ hooks_stack[t] # <<>>
         /\ Hooks!Mine(t) \in [thread : Callers \cup {"nobody"}, backtrace : 0 .. Len(hooks_bt)]
         /\ hooks_slot = [hooks_slot EXCEPT ![hooks_idx[t]] = Hooks!Mine(t)]
         /\ Hooks!Mine(t).thread = "nobody" => Hooks!Mine(t).backtrace = 0
         /\ p \in {"store", "clear", "release"} => Hooks!Mine(t).thread = t
         /\ p \in {"store", "release"} => Hooks!Mine(t).backtrace = 0
         /\ p = "decref" => Hooks!Mine(t).thread # t
         /\ Head(hooks_stack[t]).backtrace \in 1 .. Len(hooks_bt)
<1>1. /\ HooksTyped /\ Refers /\ Taken /\ Nested
      /\ hooks_stack[t] # <<>> /\ Head(hooks_stack[t]).pc = p
      /\ hooks_idx[t] \in Hooks!Slots
  BY SlotOfThread DEF HooksInv, Hooks!At
<1>2. PICK d \in 1 .. Depth(t) : d = Depth(t) /\ Frame(t, d) = Head(hooks_stack[t])
  BY <1>1, Innermost
<1>3. /\ p \in {"store", "clear", "release"} => Hooks!Mine(t).thread = t
      /\ p \in {"store", "release"} => Hooks!Mine(t).backtrace = 0
      /\ p = "decref" => Hooks!Mine(t).thread # t
  BY <1>1, <1>2 DEF Nested
<1>4. Head(hooks_stack[t]).backtrace \in 1 .. Len(hooks_bt)
  BY <1>1, <1>2 DEF Refers
<1>5. Hooks!Mine(t) \in [thread : Callers \cup {"nobody"}, backtrace : 0 .. Len(hooks_bt)]
  <2>1. PICK m : m = hooks_slot[hooks_idx[t]]
    OBVIOUS
  <2>2. m \in [thread : Callers \cup {"nobody"}, backtrace : Nat]
    BY <1>1, <2>1 DEF HooksTyped
  <2>3. m.backtrace <= Len(hooks_bt) /\ Len(hooks_bt) \in Nat
    BY <1>1, <2>1 DEF Refers, HooksTyped
  <2>4. m.backtrace \in 0 .. Len(hooks_bt)
    BY <2>2, <2>3
  <2>5. m \in [thread : Callers \cup {"nobody"}, backtrace : 0 .. Len(hooks_bt)]
    BY <2>2, <2>4
  <2> QED
    BY <2>1, <2>5 DEF Hooks!Mine
<1>6. hooks_slot = [hooks_slot EXCEPT ![hooks_idx[t]] = Hooks!Mine(t)]
  BY <1>1 DEF HooksTyped, Hooks!Mine
<1>7. Hooks!Mine(t).thread = "nobody" => Hooks!Mine(t).backtrace = 0
  BY <1>1 DEF Taken, Hooks!Mine
<1> QED
  BY <1>1, <1>3, <1>4, <1>5, <1>6, <1>7, ToolsAssumption

\* A thread takes a slot that is nobody's.
LEMMA SetThreadSafe ==
  ASSUME HooksInv, NEW t \in Callers, Hooks!SetThread(t) PROVE HooksInv'
<1>1. /\ Hooks!At(t, "set")
      /\ UNCHANGED <<hooks_idx, hooks_hooks_active, hooks_bt, hooks_queue, hooks_reader, hooks_touched>>
  BY DEF Hooks!SetThread
<1>2. CASE Hooks!Mine(t).thread = "nobody"
  <2>0. hooks_slot' = [hooks_slot EXCEPT ![hooks_idx[t]].thread = t]
    BY <1>2 DEF Hooks!SetThread, Hooks!Nobody
  <2>1. Hooks!Goto(t, "store")
    BY <1>2 DEF Hooks!SetThread, Hooks!Nobody
  <2>2. PICK mine : mine = [thread |-> t, backtrace |-> 0]
    OBVIOUS
  <2>3. [Hooks!Mine(t) EXCEPT !.thread = t] = mine
    BY <1>1, <1>2, <2>2, AtItsSlot
  <2>4. hooks_slot' = [hooks_slot EXCEPT ![hooks_idx[t]] = mine]
    BY <2>0, <2>3 DEF Hooks!Mine
  <2>5. mine \in [thread : Callers \cup {"nobody"}, backtrace : 0 .. Len(hooks_bt)]
    <3>1. Len(hooks_bt) \in Nat
      BY DEF HooksInv, HooksTyped
    <3> QED
      BY <2>2, <3>1
  <2>6. t # "nobody" /\ mine.thread = t /\ mine.backtrace = 0
    BY <1>1, <2>2, AtItsSlot
  <2>7. PICK x \in Places, y \in Places : x = "set" /\ y = "store"
    BY DEF Places
  <2>8. Hooks!At(t, x) /\ Hooks!Goto(t, y) /\ Fits(t, x, y, mine)
    BY <1>1, <1>2, <2>1, <2>6, <2>7 DEF Fits
  <2> QED
    BY <1>1, <2>4, <2>5, <2>7, <2>8, BlockStep
<1>3. CASE Hooks!Mine(t).thread # "nobody"
  <2>1. Hooks!Goto(t, "body") /\ hooks_slot' = hooks_slot
    BY <1>3 DEF Hooks!SetThread, Hooks!Nobody
  <2>2. PICK mine : mine = Hooks!Mine(t)
    OBVIOUS
  <2>3. /\ hooks_slot' = [hooks_slot EXCEPT ![hooks_idx[t]] = mine]
        /\ mine \in [thread : Callers \cup {"nobody"}, backtrace : 0 .. Len(hooks_bt)]
        /\ mine.thread = "nobody" => mine.backtrace = 0
    BY <1>1, <2>1, <2>2, AtItsSlot
  <2>4. PICK x \in Places, y \in Places : x = "set" /\ y = "body"
    BY DEF Places
  <2>5. Hooks!At(t, x) /\ Hooks!Goto(t, y) /\ Fits(t, x, y, mine)
    BY <1>1, <2>1, <2>2, <2>3, <2>4 DEF Fits
  <2> QED
    BY <1>1, <2>3, <2>4, <2>5, BlockStep
<1> QED
  BY <1>2, <1>3

\* It stores the backtrace of the block that it begins.
LEMMA SetBacktraceSafe ==
  ASSUME HooksInv, NEW t \in Callers, Hooks!SetBacktrace(t) PROVE HooksInv'
<1>1. /\ Hooks!At(t, "store") /\ Hooks!Goto(t, "body")
      /\ UNCHANGED <<hooks_idx, hooks_hooks_active, hooks_bt, hooks_queue, hooks_reader, hooks_touched>>
  BY DEF Hooks!SetBacktrace
<1>0. hooks_slot' = [hooks_slot EXCEPT ![hooks_idx[t]].backtrace = Head(hooks_stack[t]).backtrace]
  BY DEF Hooks!SetBacktrace
<1>2. PICK mine : mine = [thread |-> t, backtrace |-> Head(hooks_stack[t]).backtrace]
  OBVIOUS
<1>3. [Hooks!Mine(t) EXCEPT !.backtrace = Head(hooks_stack[t]).backtrace] = mine
  BY <1>1, <1>2, AtItsSlot
<1>4. hooks_slot' = [hooks_slot EXCEPT ![hooks_idx[t]] = mine]
  BY <1>0, <1>3 DEF Hooks!Mine
<1>5. mine \in [thread : Callers \cup {"nobody"}, backtrace : 0 .. Len(hooks_bt)]
  <2>1. Head(hooks_stack[t]).backtrace \in 0 .. Len(hooks_bt)
    BY <1>1, AtItsSlot
  <2> QED
    BY <1>2, <2>1
<1>6. /\ t # "nobody" /\ mine.thread = t /\ mine.backtrace = Head(hooks_stack[t]).backtrace
      /\ Hooks!Mine(t).thread = t
  BY <1>1, <1>2, AtItsSlot
<1>7. PICK x \in Places, y \in Places : x = "store" /\ y = "body"
  BY DEF Places
<1>8. Hooks!At(t, x) /\ Hooks!Goto(t, y) /\ Fits(t, x, y, mine)
  BY <1>1, <1>6, <1>7 DEF Fits
<1> QED
  BY <1>1, <1>4, <1>5, <1>7, <1>8, BlockStep

\* The block ends.
LEMMA EndBodySafe ==
  ASSUME HooksInv, NEW t \in Callers, Hooks!EndBody(t) PROVE HooksInv'
<1>1. /\ Hooks!At(t, "body")
      /\ Hooks!Goto(t, IF Hooks!Mine(t).thread = t THEN "clear" ELSE "decref")
      /\ UNCHANGED <<hooks_idx, hooks_hooks_active, hooks_bt, hooks_queue, hooks_slot, hooks_reader, hooks_touched>>
  BY DEF Hooks!EndBody
<1>2. PICK mine : mine = Hooks!Mine(t)
  OBVIOUS
<1>3. /\ hooks_slot' = [hooks_slot EXCEPT ![hooks_idx[t]] = mine]
      /\ mine \in [thread : Callers \cup {"nobody"}, backtrace : 0 .. Len(hooks_bt)]
      /\ mine.thread = "nobody" => mine.backtrace = 0
  BY <1>1, <1>2, AtItsSlot
<1>4. CASE mine.thread = t
  <2>1. Hooks!Goto(t, "clear")
    BY <1>1, <1>2, <1>4
  <2>2. PICK x \in Places, y \in Places : x = "body" /\ y = "clear"
    BY DEF Places
  <2>3. Hooks!At(t, x) /\ Hooks!Goto(t, y) /\ Fits(t, x, y, mine)
    BY <1>1, <1>2, <1>3, <1>4, <2>1, <2>2 DEF Fits
  <2> QED
    BY <1>1, <1>3, <2>2, <2>3, BlockStep
<1>5. CASE mine.thread # t
  <2>1. Hooks!Goto(t, "decref")
    BY <1>1, <1>2, <1>5
  <2>2. PICK x \in Places, y \in Places : x = "body" /\ y = "decref"
    BY DEF Places
  <2>3. Hooks!At(t, x) /\ Hooks!Goto(t, y) /\ Fits(t, x, y, mine)
    BY <1>1, <1>2, <1>3, <1>5, <2>1, <2>2 DEF Fits
  <2> QED
    BY <1>1, <1>3, <2>2, <2>3, BlockStep
<1> QED
  BY <1>4, <1>5

\* Its slot is cleared before it is given back.
LEMMA ClearBacktraceSafe ==
  ASSUME HooksInv, NEW t \in Callers, Hooks!ClearBacktrace(t) PROVE HooksInv'
<1>1. /\ Hooks!At(t, "clear") /\ Hooks!Goto(t, "release")
      /\ UNCHANGED <<hooks_idx, hooks_hooks_active, hooks_bt, hooks_queue, hooks_reader, hooks_touched>>
  BY DEF Hooks!ClearBacktrace, Hooks!Nothing
<1>0. hooks_slot' = [hooks_slot EXCEPT ![hooks_idx[t]].backtrace = 0]
  BY DEF Hooks!ClearBacktrace, Hooks!Nothing
<1>2. PICK mine : mine = [thread |-> t, backtrace |-> 0]
  OBVIOUS
<1>3. [Hooks!Mine(t) EXCEPT !.backtrace = 0] = mine
  BY <1>1, <1>2, AtItsSlot
<1>4. hooks_slot' = [hooks_slot EXCEPT ![hooks_idx[t]] = mine]
  BY <1>0, <1>3 DEF Hooks!Mine
<1>5. mine \in [thread : Callers \cup {"nobody"}, backtrace : 0 .. Len(hooks_bt)]
  <2>1. Len(hooks_bt) \in Nat
    BY DEF HooksInv, HooksTyped
  <2> QED
    BY <1>2, <2>1
<1>6. t # "nobody" /\ mine.thread = t /\ mine.backtrace = 0 /\ Hooks!Mine(t).thread = t
  BY <1>1, <1>2, AtItsSlot
<1>7. PICK x \in Places, y \in Places : x = "clear" /\ y = "release"
  BY DEF Places
<1>8. Hooks!At(t, x) /\ Hooks!Goto(t, y) /\ Fits(t, x, y, mine)
  BY <1>1, <1>6, <1>7 DEF Fits
<1> QED
  BY <1>1, <1>4, <1>5, <1>7, <1>8, BlockStep

\* It is given back.
LEMMA ReleaseThreadSafe ==
  ASSUME HooksInv, NEW t \in Callers, Hooks!ReleaseThread(t) PROVE HooksInv'
<1>1. /\ Hooks!At(t, "release") /\ Hooks!Goto(t, "decref")
      /\ UNCHANGED <<hooks_idx, hooks_hooks_active, hooks_bt, hooks_queue, hooks_reader, hooks_touched>>
  BY DEF Hooks!ReleaseThread, Hooks!Nobody
<1>0. hooks_slot' = [hooks_slot EXCEPT ![hooks_idx[t]].thread = "nobody"]
  BY DEF Hooks!ReleaseThread, Hooks!Nobody
<1>2. PICK mine : mine = [thread |-> "nobody", backtrace |-> 0]
  OBVIOUS
<1>3. [Hooks!Mine(t) EXCEPT !.thread = "nobody"] = mine
  BY <1>1, <1>2, AtItsSlot
<1>4. hooks_slot' = [hooks_slot EXCEPT ![hooks_idx[t]] = mine]
  BY <1>0, <1>3 DEF Hooks!Mine
<1>5. mine \in [thread : Callers \cup {"nobody"}, backtrace : 0 .. Len(hooks_bt)]
  <2>1. Len(hooks_bt) \in Nat
    BY DEF HooksInv, HooksTyped
  <2> QED
    BY <1>2, <2>1
<1>6. t # "nobody" /\ mine.thread = "nobody" /\ mine.backtrace = 0 /\ Hooks!Mine(t).thread = t
  BY <1>1, <1>2, AtItsSlot
<1>7. PICK x \in Places, y \in Places : x = "release" /\ y = "decref"
  BY DEF Places
<1>8. Hooks!At(t, x) /\ Hooks!Goto(t, y) /\ Fits(t, x, y, mine)
  BY <1>1, <1>6, <1>7 DEF Fits
<1> QED
  BY <1>1, <1>4, <1>5, <1>7, <1>8, BlockStep

-----------------------------------------------------------------------------
(* The reader. *)

\* A step of the reader that holds nothing before or after it, or of nobody.
LEMMA ReaderStep ==
  ASSUME HooksInv, hooks_hooks_active' \in BOOLEAN,
         UNCHANGED <<hooks_idx, hooks_bt, hooks_queue, hooks_slot, hooks_stack, hooks_touched>>,
         hooks_reader' \in [kind : {"none", "handler", "report"},
                            pc : {"done", "thread", "load", "incref", "held"},
                            thread : Callers \cup {"nobody"}, backtrace : Nat],
         hooks_reader'.backtrace <= Len(hooks_bt),
         hooks_reader'.pc \in {"incref", "held"} => hooks_reader'.backtrace # 0,
         hooks_reader'.pc # "done" => hooks_reader'.kind # "none" /\ hooks_reader'.thread \in Callers,
         HandlerSees',
         \/ UNCHANGED hooks_reader
         \/ hooks_reader.pc # "held" /\ hooks_reader'.pc # "held"
  PROVE  HooksInv'
<1>1. HooksTyped /\ Refers /\ Taken /\ Nested /\ Counting /\ hooks_touched # "handler"
  BY DEF HooksInv
<1>2. /\ \A t \in Callers : Depth(t)' = Depth(t) /\ \A k : Frame(t, k)' = Frame(t, k)
      /\ \A b : Cardinality(Runners(b))' = Cardinality(Runners(b))
      /\ Hooks!Slots' = Hooks!Slots /\ \A t \in Callers : Hooks!Mine(t)' = Hooks!Mine(t)
  BY DEF Depth, Frame, Runners, Hooks!Slots, Hooks!Mine
<1>3. HooksTyped'
  BY <1>1, <1>2 DEF HooksTyped
<1>4. Refers'
  BY <1>1, <1>2 DEF Refers
<1>5. Taken'
  BY <1>1, <1>2 DEF Taken
<1>6. Nested'
  BY <1>1, <1>2 DEF Nested
<1>7. Counting'
  BY <1>1, <1>2, CountsStay
<1> QED
  BY <1>1, <1>3, <1>4, <1>5, <1>6, <1>7 DEF HooksInv

\* What is known of the reader between its steps.
LEMMA ReaderFacts ==
  ASSUME HooksInv
  PROVE  /\ hooks_reader \in [kind : {"none", "handler", "report"},
                              pc : {"done", "thread", "load", "incref", "held"},
                              thread : Callers \cup {"nobody"}, backtrace : Nat]
         /\ hooks_reader.backtrace <= Len(hooks_bt) /\ Len(hooks_bt) \in Nat
         /\ hooks_reader.pc \in {"incref", "held"} => hooks_reader.backtrace # 0
         /\ hooks_reader.pc # "done" => hooks_reader.kind # "none" /\ hooks_reader.thread \in Callers
         /\ hooks_hooks_active \in BOOLEAN /\ HandlerSees
BY DEF HooksInv, HooksTyped, Refers

\* A reader starts at a thread.
LEMMA StartReaderSafe ==
  ASSUME HooksInv, NEW t \in Callers, NEW kind \in {"handler", "report"}, Hooks!StartReader(kind, t)
  PROVE  HooksInv'
<1>1. /\ hooks_reader.kind = "none"
      /\ UNCHANGED <<hooks_idx, hooks_hooks_active, hooks_bt, hooks_queue, hooks_slot, hooks_stack, hooks_touched>>
  BY DEF Hooks!StartReader
<1>2. PICK p \in {"thread", "done"} :
         hooks_reader' = [kind |-> kind, pc |-> p, thread |-> t, backtrace |-> 0]
  BY DEF Hooks!StartReader, Hooks!Nothing
<1>3. hooks_reader.pc # "held"
  BY <1>1, ReaderFacts
<1>4. HandlerSees'
  BY <1>2 DEF HandlerSees
<1> QED
  BY <1>1, <1>2, <1>3, <1>4, ReaderFacts, ReaderStep

\* It looks whether the slot is the thread's.
LEMMA LoadThreadSafe ==
  ASSUME HooksInv, Hooks!LoadThread
  PROVE  HooksInv'
<1>1. /\ hooks_reader.pc = "thread"
      /\ UNCHANGED <<hooks_idx, hooks_hooks_active, hooks_bt, hooks_queue, hooks_slot, hooks_stack, hooks_touched>>
  BY DEF Hooks!LoadThread
<1>2. PICK p \in {"load", "done"} :
         /\ hooks_reader' = [hooks_reader EXCEPT !.pc = p]
         /\ p = "load" => Hooks!Mine(hooks_reader.thread).thread = hooks_reader.thread
  BY DEF Hooks!LoadThread
<1>3. /\ hooks_reader' \in [kind : {"none", "handler", "report"},
                            pc : {"done", "thread", "load", "incref", "held"},
                            thread : Callers \cup {"nobody"}, backtrace : Nat]
      /\ hooks_reader'.pc = p /\ hooks_reader'.thread = hooks_reader.thread
      /\ hooks_reader'.kind = hooks_reader.kind /\ hooks_reader'.backtrace = hooks_reader.backtrace
  BY <1>2, ReaderFacts
<1>4. HandlerSees'
  BY <1>1, <1>2, <1>3 DEF HandlerSees, Hooks!Mine
<1> QED
  BY <1>1, <1>3, <1>4, ReaderFacts, ReaderStep

\* It reads the backtrace.
LEMMA LoadBacktraceSafe ==
  ASSUME HooksInv, Hooks!LoadBacktrace
  PROVE  HooksInv'
<1>1. /\ hooks_reader.pc = "load" /\ hooks_reader.thread \in Callers
      /\ UNCHANGED <<hooks_idx, hooks_hooks_active, hooks_bt, hooks_queue, hooks_slot, hooks_stack, hooks_touched>>
  BY ReaderFacts DEF Hooks!LoadBacktrace
<1>2. PICK b : b = Hooks!Mine(hooks_reader.thread).backtrace
  OBVIOUS
<1>3. b \in Nat /\ b <= Len(hooks_bt)
  <2>1. hooks_idx[hooks_reader.thread] \in Hooks!Slots
    BY <1>1, SlotOfThread DEF HooksInv
  <2> QED
    BY <1>2, <2>1 DEF HooksInv, HooksTyped, Refers, Hooks!Mine
<1>4. PICK p \in {"done", "incref"} :
         /\ hooks_reader' = [hooks_reader EXCEPT !.pc = p, !.backtrace = b]
         /\ p = "incref" => b # 0
  BY <1>2 DEF Hooks!LoadBacktrace, Hooks!Nothing
<1>5. /\ hooks_reader' \in [kind : {"none", "handler", "report"},
                            pc : {"done", "thread", "load", "incref", "held"},
                            thread : Callers \cup {"nobody"}, backtrace : Nat]
      /\ hooks_reader'.pc = p /\ hooks_reader'.thread = hooks_reader.thread
      /\ hooks_reader'.kind = hooks_reader.kind /\ hooks_reader'.backtrace = b
  BY <1>3, <1>4, ReaderFacts
<1>6. HandlerSees'
  BY <1>1, <1>2, <1>5, ReaderFacts DEF HandlerSees, Hooks!Mine
<1> QED
  BY <1>1, <1>3, <1>4, <1>5, <1>6, ReaderFacts, ReaderStep

\* It ends, and hooks are switched.
LEMMA EndReaderSafe ==
  ASSUME HooksInv, Hooks!EndReader \/ Hooks!SetActive
  PROVE  HooksInv'
<1>1. CASE Hooks!EndReader
  <2>1. /\ hooks_reader.pc = "done"
        /\ hooks_reader' = [kind |-> "none", pc |-> "done", thread |-> "nobody", backtrace |-> 0]
        /\ UNCHANGED <<hooks_idx, hooks_hooks_active, hooks_bt, hooks_queue, hooks_slot, hooks_stack, hooks_touched>>
    BY <1>1 DEF Hooks!EndReader, Hooks!Nobody, Hooks!Nothing
  <2>2. HandlerSees'
    BY <2>1 DEF HandlerSees
  <2>3. /\ hooks_reader' \in [kind : {"none", "handler", "report"},
                              pc : {"done", "thread", "load", "incref", "held"},
                              thread : Callers \cup {"nobody"}, backtrace : Nat]
        /\ hooks_reader'.pc = "done" /\ hooks_reader'.backtrace = 0
    BY <2>1
  <2>4. hooks_hooks_active' \in BOOLEAN /\ hooks_reader'.backtrace <= Len(hooks_bt)
    BY <2>1, <2>3, ReaderFacts
  <2> QED
    BY <2>1, <2>2, <2>3, <2>4, ReaderStep
<1>2. CASE Hooks!SetActive
  <2>1. /\ hooks_hooks_active' \in BOOLEAN
        /\ UNCHANGED <<hooks_idx, hooks_bt, hooks_queue, hooks_slot, hooks_stack, hooks_reader, hooks_touched>>
    BY <1>2 DEF Hooks!SetActive
  <2>2. HandlerSees'
    BY <2>1, ReaderFacts DEF HandlerSees, Hooks!Mine
  <2> QED
    BY <2>1, <2>2, ReaderFacts, ReaderStep
<1> QED
  BY <1>1, <1>2

-----------------------------------------------------------------------------
(* The steps that change what is held. *)

\* Holders are counted, and each of them counts.
LEMMA HeldBy ==
  ASSUME HooksTyped, NEW b
  PROVE  /\ Held(b) \in Nat
         /\ Runners(b) # {} => Held(b) # 0
         /\ Hooks!Callees(b) # {} => Held(b) # 0
         /\ b \in hooks_queue => Held(b) # 0
         /\ hooks_reader.pc = "held" /\ hooks_reader.backtrace = b => Held(b) # 0
<1>1. Cardinality(Runners(b)) \in Nat /\ (Runners(b) # {} => Cardinality(Runners(b)) # 0)
  BY RunnersFinite, FS_EmptySet
<1>2. Cardinality(Hooks!Callees(b)) \in Nat /\ (Hooks!Callees(b) # {} => Cardinality(Hooks!Callees(b)) # 0)
  BY CalleesFinite, FS_EmptySet
<1>3. PICK x \in Nat, y \in Nat : x = Cardinality(Runners(b)) /\ y = Cardinality(Hooks!Callees(b))
  BY <1>1, <1>2
<1>4. PICK z \in {0, 1} : z = IF b \in hooks_queue THEN 1 ELSE 0
  OBVIOUS
<1>5. PICK w \in {0, 1} : w = IF hooks_reader.pc = "held" /\ hooks_reader.backtrace = b THEN 1 ELSE 0
  OBVIOUS
<1>6. Held(b) = x + y + z + w
  BY <1>3, <1>4, <1>5 DEF Held
<1>7. b \in hooks_queue => z = 1
  BY <1>4
<1>8. hooks_reader.pc = "held" /\ hooks_reader.backtrace = b => w = 1
  BY <1>5
<1>9. Held(b) \in Nat /\ (x # 0 \/ y # 0 \/ z # 0 \/ w # 0 => Held(b) # 0)
  BY <1>3, <1>4, <1>5, <1>6
<1> QED
  BY <1>1, <1>2, <1>3, <1>7, <1>8, <1>9

\* A block that a thread runs holds its backtrace.
LEMMA FrameHolds ==
  ASSUME HooksTyped, NEW t \in Callers, NEW k \in 1 .. Depth(t)
  PROVE  Held(Frame(t, k).backtrace) # 0
<1>1. PICK b : b = Frame(t, k).backtrace
  OBVIOUS
<1>2. k \in 1 .. MaxNesting /\ k <= Depth(t)
  <2>1. Depth(t) \in Nat /\ Depth(t) <= MaxNesting /\ MaxNesting \in Nat
    BY ToolsAssumption DEF HooksTyped, Depth
  <2> QED
    BY <2>1
<1>3. <<t, k>> \in Runners(b)
  BY <1>1, <1>2 DEF Runners
<1> QED
  BY <1>1, <1>3, HeldBy

\* What a slot that a thread has taken holds is held by the thread.
LEMMA SlotHolds ==
  ASSUME HooksInv, NEW s \in Hooks!Slots, hooks_slot[s].thread # "nobody", hooks_slot[s].backtrace # 0
  PROVE  Held(hooks_slot[s].backtrace) # 0
<1>1. PICK t \in Callers : hooks_slot[s].thread = t
  BY DEF HooksInv, HooksTyped
<1>2. PICK k \in 1 .. Depth(t) : Frame(t, k).backtrace = hooks_slot[s].backtrace
  BY <1>1 DEF HooksInv, Taken
<1> QED
  BY <1>2, FrameHolds DEF HooksInv

\* A thread takes a block from the queue, in a block of which it is in the body or in none.
LEMMA RunSafe ==
  ASSUME HooksInv, NEW t \in Callers, Hooks!Run(t)
  PROVE  HooksInv'
<1>1. /\ HooksTyped /\ Refers /\ Taken /\ Nested /\ Counting /\ hooks_touched # "handler"
      /\ hooks_reader.kind # "handler" /\ Depth(t) < MaxNesting
      /\ hooks_stack[t] # <<>> => Head(hooks_stack[t]).pc = "body"
      /\ UNCHANGED <<hooks_idx, hooks_hooks_active, hooks_bt, hooks_slot, hooks_reader, hooks_touched>>
  BY DEF Hooks!Run, HooksInv, Hooks!Running, Hooks!At, Depth
<1>2. PICK b \in hooks_queue :
         /\ hooks_queue' = hooks_queue \ {b}
         /\ hooks_stack' = [hooks_stack EXCEPT ![t] = <<[backtrace |-> b, pc |-> "set"]>> \o @]
  BY DEF Hooks!Run
<1>3. b \in 1 .. Len(hooks_bt) /\ b \in Nat
  BY <1>1, <1>2 DEF Refers
<1>4. PICK f \in Frames : f = [backtrace |-> b, pc |-> "set"]
  BY <1>3 DEF Frames
<1>5. hooks_stack' = [hooks_stack EXCEPT ![t] = <<f>> \o @]
  BY <1>2, <1>4
<1>6. /\ Depth(t)' = Depth(t) + 1 /\ Depth(t) \in Nat
      /\ \A k \in 1 .. Depth(t) : Frame(t, k)' = Frame(t, k)
      /\ \A k : k = Depth(t) + 1 => Frame(t, k)' = f
      /\ \A u \in Callers : u # t => Depth(u)' = Depth(u) /\ \A k : Frame(u, k)' = Frame(u, k)
      /\ hooks_stack' \in [Callers -> Seq(Frames)]
  BY <1>1, <1>5, Pushed
<1>7. Hooks!Slots' = Hooks!Slots /\ \A u \in Callers : Hooks!Mine(u)' = Hooks!Mine(u)
  BY <1>1 DEF Hooks!Slots, Hooks!Mine
<1>8. ASSUME NEW k \in 1 .. (Depth(t) + 1), k # Depth(t) + 1 PROVE k \in 1 .. Depth(t)
  BY <1>6, <1>8
<1>9. HooksTyped'
  <2>1. ASSUME NEW u \in Callers PROVE Depth(u)' <= MaxNesting
    <3>1. CASE u = t
      BY <1>1, <1>6, <3>1, ToolsAssumption
    <3>2. CASE u # t
      BY <1>1, <1>6, <3>2 DEF HooksTyped
    <3> QED
      BY <3>1, <3>2
  <2> QED
    BY <1>1, <1>6, <1>7, <2>1 DEF HooksTyped
<1>10. Refers'
  <2>1. ASSUME NEW u \in Callers, NEW k \in 1 .. Depth(u)' PROVE Frame(u, k)'.backtrace \in 1 .. Len(hooks_bt)
    <3>1. CASE u # t
      BY <1>1, <1>6, <3>1 DEF Refers
    <3>2. CASE u = t /\ k = Depth(t) + 1
      BY <1>3, <1>4, <1>6, <3>2
    <3>3. CASE u = t /\ k # Depth(t) + 1
      <4>1. k \in 1 .. Depth(t)
        BY <1>6, <1>8, <3>3
      <4> QED
        BY <1>1, <1>6, <3>3, <4>1 DEF Refers
    <3> QED
      BY <3>1, <3>2, <3>3
  <2>2. hooks_queue' \subseteq 1 .. Len(hooks_bt)
    BY <1>1, <1>2 DEF Refers
  <2> QED
    BY <1>1, <1>7, <2>1, <2>2 DEF Refers
<1>11. Taken'
  <2>1. ASSUME NEW s \in Hooks!Slots, NEW u \in Callers, hooks_slot[s].thread = u
        PROVE  /\ hooks_idx[u] = s
               /\ hooks_slot[s].backtrace # 0 =>
                     \E k \in 1 .. Depth(u)' : /\ Frame(u, k)'.backtrace = hooks_slot[s].backtrace
                                               /\ Frame(u, k)'.pc \in {"body", "clear"}
    <3>1. /\ hooks_idx[u] = s
          /\ hooks_slot[s].backtrace # 0 =>
                     \E k \in 1 .. Depth(u) : /\ Frame(u, k).backtrace = hooks_slot[s].backtrace
                                              /\ Frame(u, k).pc \in {"body", "clear"}
      BY <1>1, <2>1 DEF Taken
    <3>2. CASE u # t
      BY <1>6, <3>1, <3>2
    <3>3. CASE u = t
      <4>1. \A k \in 1 .. Depth(t) : k \in 1 .. Depth(t)'
        BY <1>6
      <4> QED
        BY <1>6, <3>1, <3>3, <4>1
    <3> QED
      BY <3>2, <3>3
  <2> QED
    BY <1>1, <1>7, <2>1 DEF Taken
<1>12. Nested'
  <2> SUFFICES ASSUME NEW u \in Callers, NEW k \in 1 .. Depth(u)'
               PROVE  /\ k < Depth(u)' => Frame(u, k)'.pc \in {"body"}
                      /\ Frame(u, k)'.pc \in {"store", "clear", "release"} => Hooks!Mine(u).thread = u
                      /\ Frame(u, k)'.pc \in {"store", "release"} => Hooks!Mine(u).backtrace = 0
                      /\ Frame(u, k)'.pc = "decref" => Hooks!Mine(u).thread # u
    BY <1>7 DEF Nested
  <2>1. CASE u # t
    BY <1>1, <1>6, <2>1 DEF Nested
  <2>2. CASE u = t /\ k = Depth(t) + 1
    BY <1>4, <1>6, <2>2
  <2>3. CASE u = t /\ k # Depth(t) + 1
    <3>1. k \in 1 .. Depth(t)
      BY <1>6, <1>8, <2>3
    <3>2. Frame(t, k).pc = "body"
      <4>1. CASE k = Depth(t)
        <5>1. hooks_stack[t] # <<>>
          BY <3>1, <4>1 DEF Depth
        <5> QED
          BY <1>1, <4>1, <5>1, Innermost
      <4>2. CASE k # Depth(t)
        <5>1. k < Depth(t)
          BY <1>6, <3>1, <4>2
        <5> QED
          BY <1>1, <3>1, <5>1 DEF Nested
      <4> QED
        BY <4>1, <4>2
    <3> QED
      BY <1>6, <2>3, <3>1, <3>2
  <2> QED
    BY <2>1, <2>2, <2>3
<1>13. Counting'
  <2>1. ASSUME NEW x PROVE Held(x)' = Held(x)
    <3>1. PICK r \in Nat : r = Cardinality(Runners(x))
      BY RunnersFinite
    <3>2. Cardinality(Runners(x))' = r + IF b = x THEN 1 ELSE 0
      BY <1>1, <1>4, <1>5, <3>1, RunnersPushed
    <3>3. PICK c \in Nat : c = Cardinality(Hooks!Callees(x))
      BY <1>1, CalleesFinite
    <3>4. Cardinality(Hooks!Callees(x))' = c
      BY <1>1, <3>3 DEF Hooks!Callees
    <3>5. PICK w \in {0, 1} : w = IF hooks_reader.pc = "held" /\ hooks_reader.backtrace = x THEN 1 ELSE 0
      OBVIOUS
    <3>6. Held(x) = r + c + (IF x \in hooks_queue THEN 1 ELSE 0) + w
      BY <3>1, <3>3, <3>5 DEF Held
    <3>7. Held(x)' = (r + IF b = x THEN 1 ELSE 0) + c + (IF x \in hooks_queue' THEN 1 ELSE 0) + w
      BY <1>1, <3>2, <3>4, <3>5 DEF Held
    <3>8. CASE b = x
      <4>1. x \in hooks_queue /\ x \notin hooks_queue'
        BY <1>2, <3>8
      <4> QED
        BY <3>6, <3>7, <3>8, <4>1
    <3>9. CASE b # x
      <4>1. x \in hooks_queue <=> x \in hooks_queue'
        BY <1>2, <3>9
      <4> QED
        BY <3>6, <3>7, <3>9, <4>1
    <3> QED
      BY <3>8, <3>9
  <2> QED
    BY <1>1, <2>1 DEF Counting
<1>14. HandlerSees' /\ hooks_touched' # "handler"
  BY <1>1 DEF HandlerSees
<1> QED
  BY <1>9, <1>10, <1>11, <1>12, <1>13, <1>14 DEF HooksInv

\* A reference to a backtrace that somebody holds is taken: with a holder more, counts are right.
LEMMA CountIsTaken ==
  ASSUME HooksTyped, Counting, hooks_touched = "nobody", NEW b \in 1 .. Len(hooks_bt), Held(b) # 0,
         NEW bt \in Seq(Counted), bt = [hooks_bt EXCEPT ![b].refcount = @ + 1]
  PROVE  /\ Len(bt) = Len(hooks_bt)
         /\ \A x \in 1 .. Len(hooks_bt) :
               /\ bt[x].caller = hooks_bt[x].caller /\ bt[x].freed = hooks_bt[x].freed
               /\ bt[x].refcount = Held(x) + IF b = x THEN 1 ELSE 0
               /\ bt[x].freed <=> Held(x) + (IF b = x THEN 1 ELSE 0) = 0
<1>1. hooks_bt \in Seq(Counted) /\ hooks_bt[b] \in Counted
  BY DEF HooksTyped
<1>2. PICK r : r = [hooks_bt[b] EXCEPT !.refcount = hooks_bt[b].refcount + 1]
  OBVIOUS
<1>3. /\ r \in Counted /\ r.caller = hooks_bt[b].caller /\ r.freed = hooks_bt[b].freed
      /\ r.refcount = hooks_bt[b].refcount + 1
  <2>1. hooks_bt[b].refcount + 1 \in Nat
    BY <1>1 DEF Counted
  <2> QED
    BY <1>1, <1>2, <2>1, CountedUp
<1>4. bt = [hooks_bt EXCEPT ![b] = r]
  BY <1>1, <1>2
<1>5. /\ Len(bt) = Len(hooks_bt) /\ bt[b] = r
      /\ \A x \in 1 .. Len(hooks_bt) : x # b => bt[x] = hooks_bt[x]
  BY <1>1, <1>3, <1>4
<1>6. ASSUME NEW x \in 1 .. Len(hooks_bt)
      PROVE  /\ hooks_bt[x].refcount = Held(x) /\ Held(x) \in Nat
             /\ hooks_bt[x].freed <=> Held(x) = 0
  BY HeldBy DEF Counting
<1>7. ASSUME NEW x \in 1 .. Len(hooks_bt)
      PROVE  /\ bt[x].caller = hooks_bt[x].caller /\ bt[x].freed = hooks_bt[x].freed
             /\ bt[x].refcount = Held(x) + IF b = x THEN 1 ELSE 0
             /\ bt[x].freed <=> Held(x) + (IF b = x THEN 1 ELSE 0) = 0
  <2>1. CASE x = b
    BY <1>3, <1>5, <1>6, <2>1
  <2>2. CASE x # b
    BY <1>5, <1>6, <2>2
  <2> QED
    BY <2>1, <2>2
<1> QED
  BY <1>5, <1>7

\* Who runs a block of a backtrace is at one of its places.
LEMMA RunnersFrames ==
  ASSUME HooksTyped, NEW b, \A u \in Callers : \A k \in 1 .. Depth(u) : Frame(u, k).backtrace # b
  PROVE  Runners(b) = {}
<1>1. ASSUME NEW x \in Runners(b) PROVE FALSE
  <2>1. PICK u \in Callers, k \in 1 .. MaxNesting : x = <<u, k>> /\ k <= Depth(u) /\ Frame(u, k).backtrace = b
    BY DEF Runners
  <2>2. k \in 1 .. Depth(u)
    BY <2>1, ToolsAssumption DEF HooksTyped, Depth
  <2> QED
    BY <2>1, <2>2
<1> QED
  BY <1>1

\* A call is hooked: its block is its backtrace's first holder, and its caller gets one more.
LEMMA DispatchSafe ==
  ASSUME HooksInv, hooks_touched = "nobody", NEW t \in Callers, Hooks!Dispatch(t)
  PROVE  HooksInv'
<1>1. /\ HooksTyped /\ Refers /\ Taken /\ Nested /\ Counting
      /\ hooks_reader.kind # "handler" /\ Len(hooks_bt) < MaxBacktraces
      /\ UNCHANGED <<hooks_idx, hooks_hooks_active, hooks_slot, hooks_stack, hooks_reader, hooks_touched>>
  BY DEF Hooks!Dispatch, HooksInv, Hooks!Running
<1>2. PICK c : c = Hooks!OwnCaller(t)
  OBVIOUS
<1>3. PICK bt : bt = IF c = 0 THEN hooks_bt ELSE [hooks_bt EXCEPT ![c].refcount = @ + 1]
  OBVIOUS
<1>4. PICK m : m = Len(hooks_bt) + 1
  OBVIOUS
<1>5. /\ hooks_bt' = Append(bt, [refcount |-> 1, caller |-> c, freed |-> FALSE])
      /\ hooks_queue' = hooks_queue \cup {Len(hooks_bt')}
  BY <1>2, <1>3 DEF Hooks!Dispatch, Hooks!Nothing
<1>6. /\ c \in Nat /\ c <= Len(hooks_bt) /\ Len(hooks_bt) \in Nat
      /\ c # 0 => c \in 1 .. Len(hooks_bt) /\ Held(c) # 0
  <2>1. hooks_idx[t] \in Hooks!Slots /\ t # "nobody" /\ Len(hooks_bt) \in Nat
    BY <1>1, SlotOfThread, ToolsAssumption DEF HooksTyped
  <2>2. hooks_slot[hooks_idx[t]].backtrace \in Nat /\ hooks_slot[hooks_idx[t]].backtrace <= Len(hooks_bt)
    BY <1>1, <2>1 DEF HooksTyped, Refers
  <2>3. \/ c = 0
        \/ c = hooks_slot[hooks_idx[t]].backtrace /\ hooks_slot[hooks_idx[t]].thread = t
    BY <1>2 DEF Hooks!OwnCaller, Hooks!Mine, Hooks!Nothing
  <2> QED
    BY <2>1, <2>2, <2>3, SlotHolds
<1>7. /\ bt \in Seq(Counted) /\ Len(bt) = Len(hooks_bt)
      /\ \A x \in 1 .. Len(hooks_bt) :
               /\ bt[x].caller = hooks_bt[x].caller /\ bt[x].freed = hooks_bt[x].freed
               /\ bt[x].refcount = Held(x) + IF c = x THEN 1 ELSE 0
               /\ bt[x].freed <=> Held(x) + (IF c = x THEN 1 ELSE 0) = 0
  <2>1. CASE c = 0
    <3>1. bt = hooks_bt /\ \A x \in 1 .. Len(hooks_bt) : c # x
      BY <1>3, <1>6, <2>1
    <3>2. ASSUME NEW x \in 1 .. Len(hooks_bt)
          PROVE  /\ hooks_bt[x].refcount = Held(x) /\ Held(x) \in Nat
                 /\ hooks_bt[x].freed <=> Held(x) = 0
      BY <1>1, HeldBy DEF Counting
    <3> QED
      BY <1>1, <3>1, <3>2 DEF HooksTyped
  <2>2. CASE c # 0
    <3>1. bt = [hooks_bt EXCEPT ![c].refcount = @ + 1] /\ c \in 1 .. Len(hooks_bt) /\ Held(c) # 0
      BY <1>3, <1>6, <2>2
    <3>2. bt \in Seq(Counted)
      <4>1. hooks_bt \in Seq(Counted) /\ hooks_bt[c] \in Counted
        BY <1>1, <3>1 DEF HooksTyped
      <4>2. PICK r : r = [hooks_bt[c] EXCEPT !.refcount = hooks_bt[c].refcount + 1]
        OBVIOUS
      <4>3. r \in Counted
        <5>1. hooks_bt[c].refcount + 1 \in Nat
          BY <4>1 DEF Counted
        <5> QED
          BY <4>1, <4>2, <5>1, CountedUp
      <4>4. bt = [hooks_bt EXCEPT ![c] = r]
        BY <3>1, <4>1, <4>2
      <4> QED
        BY <3>1, <4>1, <4>3, <4>4
    <3> QED
      BY <1>1, <3>1, <3>2, CountIsTaken
  <2> QED
    BY <2>1, <2>2
<1>8. /\ hooks_bt' \in Seq(Counted) /\ Len(hooks_bt)' = m
      /\ \A x \in 1 .. Len(hooks_bt) : hooks_bt'[x] = bt[x]
      /\ hooks_bt'[m] = [refcount |-> 1, caller |-> c, freed |-> FALSE]
      /\ \A x : Cardinality(Hooks!Callees(x))' = Cardinality(Hooks!Callees(x)) + IF c = x THEN 1 ELSE 0
  BY <1>1, <1>4, <1>5, <1>6, <1>7, CapturedBy
<1>9. /\ \A x \in 1 .. m : x # m => x \in 1 .. Len(hooks_bt)
      /\ \A x \in 1 .. Len(hooks_bt) : x \in 1 .. m /\ x # m
      /\ m \in Nat
  BY <1>4, <1>6
<1>10. /\ hooks_queue' = hooks_queue \cup {m}
       /\ \A u \in Callers : Depth(u)' = Depth(u) /\ \A k : Frame(u, k)' = Frame(u, k)
       /\ \A x : Cardinality(Runners(x))' = Cardinality(Runners(x))
       /\ Hooks!Slots' = Hooks!Slots /\ \A u \in Callers : Hooks!Mine(u)' = Hooks!Mine(u)
  BY <1>1, <1>5, <1>8 DEF Depth, Frame, Runners, Hooks!Slots, Hooks!Mine
<1>11. HooksTyped'
  <2>1. m <= MaxBacktraces
    BY <1>1, <1>4, <1>6, ToolsAssumption
  <2> QED
    BY <1>1, <1>8, <1>10, <2>1 DEF HooksTyped
<1>12. Refers'
  <2>1. ASSUME NEW x \in 1 .. m PROVE hooks_bt'[x].caller < x
    <3>1. CASE x = m
      BY <1>4, <1>6, <1>8, <3>1
    <3>2. CASE x # m
      BY <1>1, <1>7, <1>8, <1>9, <3>2 DEF Refers
    <3> QED
      BY <3>1, <3>2
  <2>2. ASSUME NEW u \in Callers, NEW k \in 1 .. Depth(u) PROVE Frame(u, k).backtrace \in 1 .. m
    BY <1>1, <1>9 DEF Refers
  <2>3. hooks_queue' \subseteq 1 .. m
    <3>1. m \in 1 .. m
      BY <1>4, <1>6
    <3> QED
      BY <1>1, <1>9, <1>10, <3>1 DEF Refers
  <2>4. ASSUME NEW s \in Hooks!Slots PROVE hooks_slot[s].backtrace <= m
    BY <1>1, <1>4, <1>6 DEF Refers, HooksTyped
  <2>5. hooks_reader.backtrace <= m
    BY <1>1, <1>4, <1>6 DEF Refers, HooksTyped
  <2> QED
    BY <1>1, <1>8, <1>10, <2>1, <2>2, <2>3, <2>4, <2>5 DEF Refers
<1>13. Taken'
  BY <1>1, <1>10 DEF Taken
<1>14. Nested'
  BY <1>1, <1>10 DEF Nested
<1>15. HandlerSees' /\ hooks_touched' # "handler"
  BY <1>1 DEF HandlerSees
<1>16. Counting'
  <2>1. ASSUME NEW x \in 1 .. m PROVE hooks_bt'[x].refcount = Held(x)' /\ (hooks_bt'[x].freed <=> Held(x)' = 0)
    <3>1. PICK r \in Nat : r = Cardinality(Runners(x))
      BY RunnersFinite
    <3>2. PICK e \in Nat : e = Cardinality(Hooks!Callees(x))
      BY <1>1, CalleesFinite
    <3>3. PICK w \in {0, 1} : w = IF hooks_reader.pc = "held" /\ hooks_reader.backtrace = x THEN 1 ELSE 0
      OBVIOUS
    <3>4. Held(x) = r + e + (IF x \in hooks_queue THEN 1 ELSE 0) + w
      BY <3>1, <3>2, <3>3 DEF Held
    <3>5. Held(x)' = r + (e + IF c = x THEN 1 ELSE 0) + (IF x \in hooks_queue' THEN 1 ELSE 0) + w
      BY <1>1, <1>8, <1>10, <3>1, <3>2, <3>3 DEF Held
    <3>6. CASE x # m
      <4>1. x \in hooks_queue <=> x \in hooks_queue'
        BY <1>10, <3>6
      <4>2. Held(x)' = Held(x) + IF c = x THEN 1 ELSE 0
        BY <3>4, <3>5, <4>1
      <4> QED
        BY <1>7, <1>8, <1>9, <3>6, <4>2
    <3>7. CASE x = m
      <4>1. Runners(x) = {}
        <5>1. ASSUME NEW u \in Callers, NEW k \in 1 .. Depth(u) PROVE Frame(u, k).backtrace # x
          BY <1>1, <1>4, <1>6, <3>7 DEF Refers
        <5> QED
          BY <1>1, <5>1, RunnersFrames
      <4>2. Hooks!Callees(x) = {}
        BY <1>1, <1>4, <1>6, <3>7 DEF Hooks!Callees, Refers
      <4>3. r = 0 /\ e = 0
        BY <3>1, <3>2, <4>1, <4>2, FS_EmptySet
      <4>4. w = 0
        BY <1>1, <1>4, <1>6, <3>3, <3>7 DEF Refers
      <4>5. c # x /\ x \in hooks_queue'
        BY <1>4, <1>6, <1>10, <3>7
      <4> QED
        BY <1>8, <3>5, <3>7, <4>3, <4>4, <4>5
    <3> QED
      BY <3>6, <3>7
  <2> QED
    BY <1>8, <2>1 DEF Counting
<1> QED
  BY <1>11, <1>12, <1>13, <1>14, <1>15, <1>16 DEF HooksInv

\* Every backtrace that is given up by one of its holders, who takes over its caller if it was
\* the last: the counts are right of what they then are, given how the holders' count changed.
LEMMA GivenUpCounts ==
  ASSUME HooksTyped, Refers, Counting, hooks_touched = "nobody", UNCHANGED hooks_touched,
         NEW b \in 1 .. Len(hooks_bt), Held(b) # 0,
         hooks_bt' = Hooks!Released(b),
         \A x \in 1 .. Len(hooks_bt) : Held(x)' = Held(x) - IF b = x THEN 1 ELSE 0
  PROVE  Counting'
<1>1. ASSUME NEW x \in 1 .. Len(hooks_bt)
      PROVE  /\ hooks_bt[x].refcount = Held(x) /\ Held(x) \in Nat
             /\ hooks_bt[x].freed <=> Held(x) = 0
  BY HeldBy DEF Counting
<1>2. hooks_bt[b].refcount >= 1
  BY <1>1
<1>3. /\ Len(hooks_bt)' = Len(hooks_bt)
      /\ \A x \in 1 .. Len(hooks_bt) : x # b => hooks_bt'[x] = hooks_bt[x]
      /\ hooks_bt'[b].refcount = hooks_bt[b].refcount - 1
      /\ hooks_bt'[b].freed <=> hooks_bt[b].refcount = 1
  BY <1>2, GivenUp
<1>4. ASSUME NEW x \in 1 .. Len(hooks_bt)
      PROVE  hooks_bt'[x].refcount = Held(x)' /\ (hooks_bt'[x].freed <=> Held(x)' = 0)
  <2>1. CASE x = b
    BY <1>1, <1>3, <2>1
  <2>2. CASE x # b
    BY <1>1, <1>3, <2>2
  <2> QED
    BY <2>1, <2>2
<1> QED
  BY <1>3, <1>4 DEF Counting

\* What is common to both who give up a reference.
LEMMA ReleaseFacts ==
  ASSUME HooksTyped, Refers, Counting, hooks_touched = "nobody",
         NEW b \in 1 .. Len(hooks_bt), Held(b) # 0, hooks_bt' = Hooks!Released(b)
  PROVE  /\ hooks_bt' \in Seq(Counted) /\ Len(hooks_bt)' = Len(hooks_bt)
         /\ \A x \in 1 .. Len(hooks_bt) : hooks_bt'[x].caller = hooks_bt[x].caller
         /\ \A x : x # 0 => Cardinality(Hooks!Callees(x))' =
                               Cardinality(Hooks!Callees(x)) - IF Hooks!OnRelease(b) = x THEN 1 ELSE 0
         /\ Hooks!OnRelease(b) \in Nat /\ Hooks!OnRelease(b) < b /\ b \in Nat
<1>1. /\ hooks_bt[b].refcount = Held(b) /\ Held(b) \in Nat
      /\ hooks_bt[b].freed <=> Held(b) = 0
  BY HeldBy DEF Counting
<1>2. hooks_bt[b].refcount >= 1 /\ ~hooks_bt[b].freed
  BY <1>1
<1>3. /\ hooks_bt' \in Seq(Counted) /\ Len(hooks_bt)' = Len(hooks_bt)
      /\ \A x \in 1 .. Len(hooks_bt) : x # b => hooks_bt'[x] = hooks_bt[x]
      /\ hooks_bt'[b].caller = hooks_bt[b].caller
  BY <1>2, GivenUp
<1>4. ASSUME NEW x, x # 0
      PROVE  Cardinality(Hooks!Callees(x))' =
                Cardinality(Hooks!Callees(x)) - IF Hooks!OnRelease(b) = x THEN 1 ELSE 0
  <2>1. Cardinality(Hooks!Callees(x))' =
            Cardinality(Hooks!Callees(x))
            - IF hooks_bt[b].refcount = 1 /\ hooks_bt[b].caller = x THEN 1 ELSE 0
    BY <1>2, CalleesGivenUp
  <2>2. Hooks!OnRelease(b) = x <=> hooks_bt[b].refcount = 1 /\ hooks_bt[b].caller = x
    BY <1>4 DEF Hooks!OnRelease, Hooks!Nothing
  <2> QED
    BY <2>1, <2>2
<1>5. Hooks!OnRelease(b) \in Nat /\ Hooks!OnRelease(b) < b /\ b \in Nat
  <2>1. hooks_bt[b].caller < b /\ hooks_bt[b].caller \in Nat
    <3>1. hooks_bt[b] \in Counted
      BY DEF HooksTyped
    <3> QED
      BY <3>1 DEF Refers, Counted
  <2> QED
    BY <2>1 DEF Hooks!OnRelease, Hooks!Nothing
<1> QED
  BY <1>3, <1>4, <1>5

\* Of what a thread runs, all but the innermost block stays.
LEMMA OuterStay ==
  ASSUME HooksInv, NEW t \in Callers, Hooks!At(t, "decref"), hooks_stack' \in [Callers -> Seq(Frames)],
         UNCHANGED <<hooks_idx, hooks_slot>>,
         Depth(t)' \in {Depth(t) - 1, Depth(t)},
         \A k \in 1 .. (Depth(t) - 1) : Frame(t, k)' = Frame(t, k),
         Depth(t)' = Depth(t) => \A k : k = Depth(t) => Frame(t, k)'.pc = "decref",
         \A u \in Callers : u # t => Depth(u)' = Depth(u) /\ \A k : Frame(u, k)' = Frame(u, k)
  PROVE  Taken' /\ Nested' /\ \A u \in Callers : Depth(u)' <= MaxNesting
<1>1. /\ HooksTyped /\ Taken /\ Nested
      /\ hooks_stack[t] # <<>> /\ Head(hooks_stack[t]).pc = "decref"
      /\ Hooks!Mine(t).thread # t
  BY AtItsSlot DEF HooksInv, Hooks!At
<1>2. Depth(t) \in Nat \ {0} /\ \A k : k = Depth(t) => Frame(t, k).pc = "decref"
  BY <1>1, Innermost
<1>3. Hooks!Slots' = Hooks!Slots /\ \A u \in Callers : Hooks!Mine(u)' = Hooks!Mine(u)
  BY DEF Hooks!Slots, Hooks!Mine
<1>4. ASSUME NEW k \in 1 .. Depth(t), k # Depth(t)
      PROVE  k \in 1 .. (Depth(t) - 1) /\ k \in 1 .. Depth(t)'
  BY <1>2, <1>4
<1>5. Taken'
  <2>1. ASSUME NEW s \in Hooks!Slots, NEW u \in Callers, hooks_slot[s].thread = u
        PROVE  /\ hooks_idx[u] = s
               /\ hooks_slot[s].backtrace # 0 =>
                     \E k \in 1 .. Depth(u)' : /\ Frame(u, k)'.backtrace = hooks_slot[s].backtrace
                                               /\ Frame(u, k)'.pc \in {"body", "clear"}
    <3>1. /\ hooks_idx[u] = s
          /\ hooks_slot[s].backtrace # 0 =>
                     \E k \in 1 .. Depth(u) : /\ Frame(u, k).backtrace = hooks_slot[s].backtrace
                                              /\ Frame(u, k).pc \in {"body", "clear"}
      BY <1>1, <2>1 DEF Taken
    <3>2. CASE u # t
      BY <3>1, <3>2
    <3>3. CASE u = t
      BY <1>2, <1>4, <3>1, <3>3
    <3> QED
      BY <3>2, <3>3
  <2> QED
    BY <1>1, <1>3, <2>1 DEF Taken
<1>6. Nested'
  <2> SUFFICES ASSUME NEW u \in Callers, NEW k \in 1 .. Depth(u)'
               PROVE  /\ k < Depth(u)' => Frame(u, k)'.pc \in {"body"}
                      /\ Frame(u, k)'.pc \in {"store", "clear", "release"} => Hooks!Mine(u).thread = u
                      /\ Frame(u, k)'.pc \in {"store", "release"} => Hooks!Mine(u).backtrace = 0
                      /\ Frame(u, k)'.pc = "decref" => Hooks!Mine(u).thread # u
    BY <1>3 DEF Nested
  <2>1. CASE u # t
    BY <1>1, <2>1 DEF Nested
  <2>2. CASE u = t /\ k = Depth(t)
    <3>1. Depth(t)' = Depth(t)
      BY <1>2, <2>2
    <3> QED
      BY <1>1, <1>2, <2>2, <3>1
  <2>3. CASE u = t /\ k # Depth(t)
    <3>1. k \in 1 .. Depth(t) /\ k < Depth(t)
      BY <1>2, <2>3
    <3>2. Frame(t, k).pc = "body"
      BY <1>1, <3>1 DEF Nested
    <3> QED
      BY <1>4, <2>3, <3>1, <3>2
  <2> QED
    BY <2>1, <2>2, <2>3
<1>7. ASSUME NEW u \in Callers PROVE Depth(u)' <= MaxNesting
  <2>1. Depth(u) <= MaxNesting /\ MaxNesting \in Nat
    BY <1>1, ToolsAssumption DEF HooksTyped
  <2>2. CASE u = t
    BY <1>2, <2>1, <2>2
  <2>3. CASE u # t
    BY <2>1, <2>3
  <2> QED
    BY <2>2, <2>3
<1> QED
  BY <1>5, <1>6, <1>7

\* What is held after the reader gives up b and takes over c, if that is one.
LEMMA HeldAfterReader ==
  ASSUME HooksTyped, UNCHANGED hooks_queue, NEW b, NEW c, NEW x, b # c, x # 0,
         Cardinality(Hooks!Callees(x))' = Cardinality(Hooks!Callees(x)) - IF c = x THEN 1 ELSE 0,
         Cardinality(Runners(x))' = Cardinality(Runners(x)),
         hooks_reader.pc = "held", hooks_reader.backtrace = b,
         hooks_reader'.pc = IF c = 0 THEN "done" ELSE "held", hooks_reader'.backtrace = c
  PROVE  Held(x)' = Held(x) - IF b = x THEN 1 ELSE 0
<1>1. PICK r \in Nat : r = Cardinality(Runners(x))
  BY RunnersFinite
<1>2. PICK e \in Nat : e = Cardinality(Hooks!Callees(x))
  BY CalleesFinite
<1>3. PICK z \in {0, 1} : z = IF x \in hooks_queue THEN 1 ELSE 0
  OBVIOUS
<1>4. Held(x) = r + e + z + (IF b = x THEN 1 ELSE 0)
  BY <1>1, <1>2, <1>3 DEF Held
<1>5. Held(x)' = r + (e - IF c = x THEN 1 ELSE 0) + z + (IF c = x THEN 1 ELSE 0)
  BY <1>1, <1>2, <1>3 DEF Held
<1> QED
  BY <1>4, <1>5

\* A block that has ended gives up its backtrace, and goes on with its caller if it was the last.
LEMMA DecrefSafe ==
  ASSUME HooksInv, hooks_touched = "nobody", NEW t \in Callers, Hooks!Decref(t)
  PROVE  HooksInv'
<1>1. /\ HooksTyped /\ Refers /\ Taken /\ Nested /\ Counting
      /\ Hooks!At(t, "decref") /\ hooks_stack[t] # <<>> /\ hooks_reader.kind # "handler"
      /\ UNCHANGED <<hooks_idx, hooks_hooks_active, hooks_queue, hooks_slot, hooks_reader, hooks_touched>>
  BY DEF Hooks!Decref, HooksInv, Hooks!Running, Hooks!At
<1>2. PICK b : b = Head(hooks_stack[t]).backtrace
  OBVIOUS
<1>3. PICK c : c = Hooks!OnRelease(b)
  OBVIOUS
<1>4. /\ hooks_bt' = Hooks!Released(b)
      /\ c = 0 => hooks_stack' = [hooks_stack EXCEPT ![t] = Tail(@)]
      /\ c # 0 => hooks_stack' = [hooks_stack EXCEPT ![t][1].backtrace = c]
  BY <1>2, <1>3 DEF Hooks!Decref, Hooks!Nothing
<1>5. /\ Depth(t) \in 1 .. Depth(t) /\ \A k : k = Depth(t) => Frame(t, k) = Head(hooks_stack[t])
      /\ Head(hooks_stack[t]) \in Frames /\ Head(hooks_stack[t]) = hooks_stack[t][1]
      /\ Head(hooks_stack[t]).pc = "decref" /\ hooks_stack[t] \in Seq(Frames)
  BY <1>1, Innermost DEF Hooks!At
<1>6. b \in 1 .. Len(hooks_bt) /\ Held(b) # 0
  <2>1. PICK d \in 1 .. Depth(t) : Frame(t, d).backtrace = b
    BY <1>2, <1>5
  <2> QED
    BY <1>1, <2>1, FrameHolds DEF Refers
<1>7. /\ hooks_bt' \in Seq(Counted) /\ Len(hooks_bt)' = Len(hooks_bt)
      /\ \A x \in 1 .. Len(hooks_bt) : hooks_bt'[x].caller = hooks_bt[x].caller
      /\ \A x : x # 0 => Cardinality(Hooks!Callees(x))' =
                               Cardinality(Hooks!Callees(x)) - IF c = x THEN 1 ELSE 0
      /\ c \in Nat /\ c < b /\ b \in Nat /\ Len(hooks_bt) \in Nat
  BY <1>1, <1>3, <1>4, <1>6, ReleaseFacts DEF HooksTyped
<1>8. /\ hooks_stack' \in [Callers -> Seq(Frames)]
      /\ Depth(t)' \in {Depth(t) - 1, Depth(t)}
      /\ \A k \in 1 .. (Depth(t) - 1) : Frame(t, k)' = Frame(t, k)
      /\ Depth(t)' = Depth(t) => \A k : k = Depth(t) => /\ Frame(t, k)'.pc = "decref"
                                                       /\ Frame(t, k)'.backtrace \in 1 .. Len(hooks_bt)
      /\ \A u \in Callers : u # t => Depth(u)' = Depth(u) /\ \A k : Frame(u, k)' = Frame(u, k)
      /\ \A x : x # 0 => Cardinality(Runners(x))' = Cardinality(Runners(x)) - (IF b = x THEN 1 ELSE 0)
                                                                            + (IF c = x THEN 1 ELSE 0)
  <2>1. CASE c = 0
    <3>1. hooks_stack' = [hooks_stack EXCEPT ![t] = Tail(@)]
      BY <1>4, <2>1
    <3>2. /\ Depth(t)' = Depth(t) - 1 /\ Depth(t) \in Nat \ {0}
          /\ \A k \in 1 .. (Depth(t) - 1) : Frame(t, k)' = Frame(t, k)
          /\ \A u \in Callers : u # t => Depth(u)' = Depth(u) /\ \A k : Frame(u, k)' = Frame(u, k)
          /\ hooks_stack' \in [Callers -> Seq(Frames)]
      BY <1>1, <3>1, Popped
    <3>3. ASSUME NEW x, x # 0
          PROVE  Cardinality(Runners(x))' = Cardinality(Runners(x)) - (IF b = x THEN 1 ELSE 0)
                                                                    + (IF c = x THEN 1 ELSE 0)
      <4>1. Cardinality(Runners(x))' = Cardinality(Runners(x)) - IF b = x THEN 1 ELSE 0
        BY <1>1, <1>2, <3>1, RunnersPopped
      <4>2. Cardinality(Runners(x)) \in Nat
        BY RunnersFinite
      <4> QED
        BY <2>1, <3>3, <4>1, <4>2
    <3>4. Depth(t)' # Depth(t)
      BY <3>2
    <3> QED
      BY <3>2, <3>3, <3>4
  <2>2. CASE c # 0
    <3>1. PICK f \in Frames : f = [backtrace |-> c, pc |-> "decref"]
      BY <1>7 DEF Frames
    <3>2. [hooks_stack[t][1] EXCEPT !.backtrace = c] = f
      BY <1>5, <3>1 DEF Frames
    <3>3. hooks_stack' = [hooks_stack EXCEPT ![t] = [@ EXCEPT ![1] = f]]
      BY <1>4, <1>5, <2>2, <3>2
    <3>4. /\ Depth(t)' = Depth(t) /\ Depth(t) \in Nat \ {0}
          /\ \A k \in 1 .. (Depth(t) - 1) : Frame(t, k)' = Frame(t, k)
          /\ \A k : k = Depth(t) => Frame(t, k)' = f
          /\ \A u \in Callers : u # t => Depth(u)' = Depth(u) /\ \A k : Frame(u, k)' = Frame(u, k)
          /\ hooks_stack' \in [Callers -> Seq(Frames)]
      BY <1>1, <3>3, Changed
    <3>5. ASSUME NEW x
          PROVE  Cardinality(Runners(x))' = Cardinality(Runners(x)) - (IF b = x THEN 1 ELSE 0)
                                                                    + (IF c = x THEN 1 ELSE 0)
      <4>1. Cardinality(Runners(x))' =
               Cardinality(Runners(x)) - (IF Head(hooks_stack[t]).backtrace = x THEN 1 ELSE 0)
                                       + (IF f.backtrace = x THEN 1 ELSE 0)
        BY <1>1, <3>3, RunnersChanged
      <4>2. f.backtrace = c
        BY <3>1
      <4> QED
        BY <1>2, <4>1, <4>2
    <3>6. c \in 1 .. Len(hooks_bt)
      BY <1>6, <1>7, <2>2
    <3> QED
      BY <3>1, <3>4, <3>5, <3>6
  <2> QED
    BY <2>1, <2>2
<1>9. Taken' /\ Nested' /\ \A u \in Callers : Depth(u)' <= MaxNesting
  BY <1>1, <1>8, OuterStay
<1>10. Hooks!Slots' = Hooks!Slots
  BY DEF Hooks!Slots
<1>11. HooksTyped'
  BY <1>1, <1>7, <1>8, <1>9, <1>10 DEF HooksTyped
<1>12. Refers'
  <2>1. ASSUME NEW u \in Callers, NEW k \in 1 .. Depth(u)' PROVE Frame(u, k)'.backtrace \in 1 .. Len(hooks_bt)
    <3>1. CASE u # t
      BY <1>1, <1>8, <3>1 DEF Refers
    <3>2. CASE u = t
      <4>1. k \in 1 .. Depth(t) /\ Depth(t) \in Nat
        BY <1>5, <1>8, <3>2 DEF Depth
      <4>2. CASE k = Depth(t)
        <5>1. Depth(t)' = Depth(t)
          BY <1>8, <3>2, <4>1, <4>2
        <5> QED
          BY <1>8, <3>2, <4>2, <5>1
      <4>3. CASE k # Depth(t)
        <5>1. k \in 1 .. (Depth(t) - 1)
          BY <4>1, <4>3
        <5> QED
          BY <1>1, <1>8, <3>2, <4>1, <5>1 DEF Refers
      <4> QED
        BY <4>2, <4>3
    <3> QED
      BY <3>1, <3>2
  <2> QED
    BY <1>1, <1>7, <1>10, <2>1 DEF Refers
<1>13. Counting'
  <2>1. ASSUME NEW x \in 1 .. Len(hooks_bt) PROVE Held(x)' = Held(x) - IF b = x THEN 1 ELSE 0
    <3>1. x # 0
      OBVIOUS
    <3>2. /\ Cardinality(Hooks!Callees(x))' = Cardinality(Hooks!Callees(x)) - IF c = x THEN 1 ELSE 0
          /\ Cardinality(Runners(x))' = Cardinality(Runners(x)) - (IF b = x THEN 1 ELSE 0)
                                                                + (IF c = x THEN 1 ELSE 0)
      BY <1>7, <1>8, <3>1
    <3>3. PICK r \in Nat : r = Cardinality(Runners(x))
      BY RunnersFinite
    <3>4. PICK e \in Nat : e = Cardinality(Hooks!Callees(x))
      BY <1>1, CalleesFinite
    <3>5. PICK z \in {0, 1} : z = IF x \in hooks_queue THEN 1 ELSE 0
      OBVIOUS
    <3>6. PICK w \in {0, 1} : w = IF hooks_reader.pc = "held" /\ hooks_reader.backtrace = x THEN 1 ELSE 0
      OBVIOUS
    <3>7. Held(x) = r + e + z + w
      BY <3>3, <3>4, <3>5, <3>6 DEF Held
    <3>8. Held(x)' = (r - (IF b = x THEN 1 ELSE 0) + (IF c = x THEN 1 ELSE 0))
                     + (e - IF c = x THEN 1 ELSE 0) + z + w
      BY <1>1, <3>2, <3>3, <3>4, <3>5, <3>6 DEF Held
    <3> QED
      BY <3>7, <3>8
  <2> QED
    BY <1>1, <1>4, <1>6, <2>1, GivenUpCounts
<1>14. HandlerSees' /\ hooks_touched' # "handler"
  BY <1>1 DEF HandlerSees
<1> QED
  BY <1>9, <1>11, <1>12, <1>13, <1>14 DEF HooksInv

\* So does the reader.
LEMMA DecrefReaderSafe ==
  ASSUME HooksInv, hooks_touched = "nobody", Hooks!DecrefReader
  PROVE  HooksInv'
<1>1. /\ HooksTyped /\ Refers /\ Taken /\ Nested /\ Counting
      /\ hooks_reader.pc = "held"
      /\ UNCHANGED <<hooks_idx, hooks_hooks_active, hooks_queue, hooks_slot, hooks_stack, hooks_touched>>
  BY DEF Hooks!DecrefReader, HooksInv
<1>2. PICK b : b = hooks_reader.backtrace
  OBVIOUS
<1>3. PICK c : c = Hooks!OnRelease(b)
  OBVIOUS
<1>4. /\ hooks_bt' = Hooks!Released(b)
      /\ c = 0 => hooks_reader' = [hooks_reader EXCEPT !.pc = "done", !.backtrace = 0]
      /\ c # 0 => hooks_reader' = [hooks_reader EXCEPT !.backtrace = c]
  BY <1>2, <1>3 DEF Hooks!DecrefReader, Hooks!Nothing
<1>5. b \in 1 .. Len(hooks_bt) /\ Held(b) # 0
  <2>1. b \in Nat /\ b # 0 /\ b <= Len(hooks_bt) /\ Len(hooks_bt) \in Nat
    BY <1>1, <1>2, ReaderFacts
  <2> QED
    BY <1>1, <1>2, <2>1, HeldBy
<1>6. /\ hooks_bt' \in Seq(Counted) /\ Len(hooks_bt)' = Len(hooks_bt)
      /\ \A x \in 1 .. Len(hooks_bt) : hooks_bt'[x].caller = hooks_bt[x].caller
      /\ \A x : x # 0 => Cardinality(Hooks!Callees(x))' =
                               Cardinality(Hooks!Callees(x)) - IF c = x THEN 1 ELSE 0
      /\ c \in Nat /\ c < b /\ b \in Nat /\ Len(hooks_bt) \in Nat
  BY <1>1, <1>3, <1>4, <1>5, ReleaseFacts DEF HooksTyped
<1>7. /\ hooks_reader' \in [kind : {"none", "handler", "report"},
                            pc : {"done", "thread", "load", "incref", "held"},
                            thread : Callers \cup {"nobody"}, backtrace : Nat]
      /\ hooks_reader'.pc = IF c = 0 THEN "done" ELSE "held"
      /\ hooks_reader'.backtrace = c /\ hooks_reader'.kind = hooks_reader.kind
      /\ hooks_reader'.thread = hooks_reader.thread
  <2>1. CASE c = 0
    BY <1>4, <1>6, <2>1, ReaderFacts
  <2>2. CASE c # 0
    BY <1>1, <1>4, <1>6, <2>2, ReaderFacts
  <2> QED
    BY <2>1, <2>2
<1>8. /\ \A t \in Callers : Depth(t)' = Depth(t) /\ \A k : Frame(t, k)' = Frame(t, k)
      /\ \A x : Cardinality(Runners(x))' = Cardinality(Runners(x))
      /\ Hooks!Slots' = Hooks!Slots /\ \A t \in Callers : Hooks!Mine(t)' = Hooks!Mine(t)
  BY <1>1 DEF Depth, Frame, Runners, Hooks!Slots, Hooks!Mine
<1>9. HooksTyped'
  BY <1>1, <1>6, <1>7, <1>8 DEF HooksTyped
<1>10. Refers'
  <2>1. c <= Len(hooks_bt)
    BY <1>5, <1>6
  <2>2. hooks_reader.kind # "none" /\ hooks_reader.thread \in Callers
    BY <1>1, ReaderFacts
  <2> QED
    BY <1>1, <1>6, <1>7, <1>8, <2>1, <2>2 DEF Refers
<1>11. Taken' /\ Nested'
  BY <1>1, <1>8 DEF Taken, Nested
<1>12. Counting'
  <2>1. ASSUME NEW x \in 1 .. Len(hooks_bt) PROVE Held(x)' = Held(x) - IF b = x THEN 1 ELSE 0
    <3>1. x # 0 /\ b # c
      BY <1>6
    <3>2. /\ Cardinality(Hooks!Callees(x))' = Cardinality(Hooks!Callees(x)) - IF c = x THEN 1 ELSE 0
          /\ Cardinality(Runners(x))' = Cardinality(Runners(x))
      BY <1>6, <1>8, <3>1
    <3> QED
      BY <1>1, <1>2, <1>7, <3>1, <3>2, HeldAfterReader
  <2> QED
    BY <1>1, <1>4, <1>5, <2>1, GivenUpCounts
<1>13. HandlerSees' /\ hooks_touched' # "handler"
  BY <1>1, <1>7 DEF HandlerSees, HooksInv
<1> QED
  BY <1>9, <1>10, <1>11, <1>12, <1>13 DEF HooksInv

\* The reader takes the backtrace that it has read: a handler only one that the thread it has
\* stopped still runs; if a report takes one that is gone, nothing is promised from there on.
LEMMA IncrefSafe ==
  ASSUME HooksInv, hooks_touched = "nobody", Hooks!Incref
  PROVE  HooksInv'
<1>1. /\ HooksTyped /\ Refers /\ Taken /\ Nested /\ Counting /\ HandlerSees
      /\ hooks_reader.pc = "incref" /\ hooks_reader' = [hooks_reader EXCEPT !.pc = "held"]
      /\ UNCHANGED <<hooks_idx, hooks_hooks_active, hooks_queue, hooks_slot, hooks_stack>>
  BY DEF Hooks!Incref, HooksInv
<1>2. PICK b : b = hooks_reader.backtrace
  OBVIOUS
<1>3. /\ hooks_bt' = [hooks_bt EXCEPT ![b].refcount = @ + 1]
      /\ hooks_touched' = IF hooks_bt[b].freed THEN hooks_reader.kind ELSE hooks_touched
  BY <1>2 DEF Hooks!Incref
<1>4. b \in 1 .. Len(hooks_bt) /\ hooks_reader.kind \in {"handler", "report"} /\ hooks_reader.thread \in Callers
  BY <1>1, <1>2, ReaderFacts
<1>5. /\ hooks_bt' \in Seq(Counted) /\ Len(hooks_bt)' = Len(hooks_bt)
      /\ \A x \in 1 .. Len(hooks_bt) : x # b => hooks_bt'[x] = hooks_bt[x]
      /\ hooks_bt'[b].caller = hooks_bt[b].caller
      /\ \A x : Hooks!Callees(x)' = Hooks!Callees(x)
  BY <1>1, <1>3, <1>4, TakenUp
<1>6. /\ hooks_reader' \in [kind : {"none", "handler", "report"},
                            pc : {"done", "thread", "load", "incref", "held"},
                            thread : Callers \cup {"nobody"}, backtrace : Nat]
      /\ hooks_reader'.pc = "held" /\ hooks_reader'.backtrace = b
      /\ hooks_reader'.kind = hooks_reader.kind /\ hooks_reader'.thread = hooks_reader.thread
  BY <1>1, <1>2, ReaderFacts
<1>7. /\ \A t \in Callers : Depth(t)' = Depth(t) /\ \A k : Frame(t, k)' = Frame(t, k)
      /\ \A x : Cardinality(Runners(x))' = Cardinality(Runners(x))
      /\ Hooks!Slots' = Hooks!Slots /\ \A t \in Callers : Hooks!Mine(t)' = Hooks!Mine(t)
  BY <1>1 DEF Depth, Frame, Runners, Hooks!Slots, Hooks!Mine
<1>8. hooks_bt[b].freed <=> Held(b) = 0
  BY <1>1, <1>4 DEF Counting
<1>9. hooks_reader.kind = "handler" => Held(b) # 0
  <2> SUFFICES ASSUME hooks_reader.kind = "handler" PROVE Held(b) # 0
    OBVIOUS
  <2>1. PICK s \in Hooks!Slots : s = hooks_idx[hooks_reader.thread]
    BY <1>1, <1>4, SlotOfThread
  <2>2. hooks_slot[s].thread = hooks_reader.thread /\ hooks_slot[s].backtrace = b
    BY <1>1, <1>2, <2>1 DEF HandlerSees, Hooks!Mine
  <2>3. hooks_slot[s].thread # "nobody" /\ hooks_slot[s].backtrace # 0
    BY <1>4, <2>2, ToolsAssumption
  <2> QED
    BY <2>2, <2>3, SlotHolds
<1>10. hooks_touched' # "handler" /\ hooks_touched' \in {"nobody", "handler", "report"}
  BY <1>3, <1>4, <1>8, <1>9
<1>11. HooksTyped'
  BY <1>1, <1>5, <1>6, <1>7, <1>10 DEF HooksTyped
<1>12. Refers'
  <2>1. \A x \in 1 .. Len(hooks_bt) : hooks_bt'[x].caller < x
    BY <1>1, <1>5 DEF Refers
  <2>2. b <= Len(hooks_bt) /\ b # 0 /\ hooks_reader.kind # "none"
    BY <1>4
  <2> QED
    BY <1>1, <1>4, <1>5, <1>6, <1>7, <2>1, <2>2 DEF Refers
<1>13. Taken' /\ Nested'
  BY <1>1, <1>7 DEF Taken, Nested
<1>14. Counting'
  <2> SUFFICES ASSUME hooks_touched' = "nobody"
               PROVE  \A x \in 1 .. Len(hooks_bt) :
                         hooks_bt'[x].refcount = Held(x)' /\ (hooks_bt'[x].freed <=> Held(x)' = 0)
    BY <1>5 DEF Counting
  <2>1. Held(b) # 0
    BY <1>3, <1>4, <1>8
  <2>2. \A x \in 1 .. Len(hooks_bt) :
           /\ hooks_bt'[x].refcount = Held(x) + IF b = x THEN 1 ELSE 0
           /\ hooks_bt'[x].freed <=> Held(x) + (IF b = x THEN 1 ELSE 0) = 0
    <3>1. /\ hooks_bt'[b].refcount = hooks_bt[b].refcount + 1
          /\ hooks_bt'[b].freed = hooks_bt[b].freed
      BY <1>1, <1>3, <1>4, TakenUp
    <3>2. ASSUME NEW x \in 1 .. Len(hooks_bt)
          PROVE  /\ hooks_bt[x].refcount = Held(x) /\ Held(x) \in Nat
                 /\ hooks_bt[x].freed <=> Held(x) = 0
      BY <1>1, HeldBy DEF Counting
    <3>3. ASSUME NEW x \in 1 .. Len(hooks_bt)
          PROVE  /\ hooks_bt'[x].refcount = Held(x) + IF b = x THEN 1 ELSE 0
                 /\ hooks_bt'[x].freed <=> Held(x) + (IF b = x THEN 1 ELSE 0) = 0
      <4>1. CASE x = b
        BY <2>1, <3>1, <3>2, <4>1
      <4>2. CASE x # b
        BY <1>5, <3>2, <4>2
      <4> QED
        BY <4>1, <4>2
    <3> QED
      BY <3>3
  <2>3. ASSUME NEW x \in 1 .. Len(hooks_bt) PROVE Held(x)' = Held(x) + IF b = x THEN 1 ELSE 0
    <3>1. PICK r \in Nat : r = Cardinality(Runners(x))
      BY RunnersFinite
    <3>2. PICK e \in Nat : e = Cardinality(Hooks!Callees(x))
      BY <1>1, CalleesFinite
    <3>3. PICK z \in {0, 1} : z = IF x \in hooks_queue THEN 1 ELSE 0
      OBVIOUS
    <3>4. Held(x) = r + e + z
      BY <1>1, <3>1, <3>2, <3>3 DEF Held
    <3>5. Held(x)' = r + e + z + IF b = x THEN 1 ELSE 0
      BY <1>1, <1>5, <1>6, <1>7, <3>1, <3>2, <3>3 DEF Held
    <3> QED
      BY <3>4, <3>5
  <2> QED
    BY <2>2, <2>3
<1>15. HandlerSees'
  BY <1>6 DEF HandlerSees
<1> QED
  BY <1>10, <1>11, <1>12, <1>13, <1>14, <1>15 DEF HooksInv

-----------------------------------------------------------------------------
(* The invariant holds, and gives what is promised. *)

\* At first nobody runs or holds anything.
LEMMA HooksBegin == Hooks!Init => HooksInv
<1> SUFFICES ASSUME Hooks!Init PROVE HooksInv
  OBVIOUS
<1>1. /\ hooks_idx \in Hashes /\ hooks_hooks_active \in BOOLEAN
      /\ hooks_bt = <<>> /\ hooks_queue = {}
      /\ hooks_slot = [s \in Hooks!Slots |-> [thread |-> "nobody", backtrace |-> 0]]
      /\ hooks_stack = [t \in Callers |-> <<>>]
      /\ hooks_reader = [kind |-> "none", pc |-> "done", thread |-> "nobody", backtrace |-> 0]
      /\ hooks_touched = "nobody"
  BY DEF Hooks!Init, Hooks!Nobody, Hooks!Nothing
<1>2. \A t \in Callers : Depth(t) = 0
  BY <1>1 DEF Depth
<1>3. HooksTyped
  BY <1>1, <1>2, ToolsAssumption DEF HooksTyped
<1>4. Refers
  BY <1>1, <1>2 DEF Refers
<1>5. Taken
  BY <1>1, ToolsAssumption DEF Taken
<1>6. Nested /\ HandlerSees
  BY <1>1, <1>2 DEF Nested, HandlerSees
<1>7. Counting
  BY <1>1 DEF Counting
<1> QED
  BY <1>1, <1>3, <1>4, <1>5, <1>6, <1>7 DEF HooksInv

\* Every step of the component preserves it; other components leave its variables alone.
LEMMA HooksHold == MCSpec => [](part = "hooks" => HooksInv)
<1> DEFINE Inv == part = "hooks" => HooksInv
<1>1. MCInit => Inv
  BY HooksBegin DEF MCInit
<1>2. Inv /\ [MCNext]_allVars => Inv'
  <2> SUFFICES ASSUME Inv, [MCNext]_allVars, part' = "hooks" PROVE HooksInv'
    OBVIOUS
  <2>1. CASE part = "hooks" /\ Hooks!Next
    <3>1. HooksInv /\ hooks_touched = "nobody"
      BY <2>1 DEF Hooks!Next
    <3>2. ASSUME NEW t \in Callers,
                 \/ Hooks!Dispatch(t) \/ Hooks!Run(t) \/ Hooks!SetThread(t) \/ Hooks!SetBacktrace(t)
                 \/ Hooks!EndBody(t) \/ Hooks!ClearBacktrace(t) \/ Hooks!ReleaseThread(t) \/ Hooks!Decref(t)
          PROVE  HooksInv'
      BY <3>1, <3>2, DispatchSafe, RunSafe, SetThreadSafe, SetBacktraceSafe, EndBodySafe,
         ClearBacktraceSafe, ReleaseThreadSafe, DecrefSafe
    <3>3. ASSUME NEW t \in Callers, NEW kind \in {"handler", "report"}, Hooks!StartReader(kind, t)
          PROVE  HooksInv'
      BY <3>1, <3>3, StartReaderSafe
    <3> QED
      BY <2>1, <3>1, <3>2, <3>3, LoadThreadSafe, LoadBacktraceSafe, IncrefSafe, DecrefReaderSafe,
         EndReaderSafe DEF Hooks!Next
  <2>2. CASE UNCHANGED <<part, hooksVars>>
    <3>1. HooksInv /\ UNCHANGED <<hooks_idx, hooks_hooks_active, hooks_bt, hooks_queue, hooks_slot,
                                  hooks_stack, hooks_reader, hooks_touched>>
      BY <2>2 DEF hooksVars
    <3>2. HandlerSees'
      BY <3>1, ReaderFacts DEF HandlerSees, Hooks!Mine
    <3> QED
      BY <3>1, <3>2, ReaderFacts, ReaderStep
  <2> QED
    BY <2>1, <2>2 DEF MCNext, allVars, RunIntro, RunCached, RunHooks, RunWalk, RunLoaded,
       RunRebind, RunHandlers, RunCodes, RunZombie, RunConsole
<1> QED
  BY <1>1, <1>2, PTL DEF MCSpec

\* Counted from the outermost or the innermost, they are as many.
LEMMA SameRunners ==
  ASSUME HooksTyped, NEW b
  PROVE  Cardinality(Hooks!RunningIn(b)) = Cardinality(Runners(b))
<1> DEFINE S == Runners(b)
           T == Hooks!RunningIn(b)
           f == [x \in S |-> <<x[1], Depth(x[1]) + 1 - x[2]>>]
<1>1. \A t \in Callers : Depth(t) \in Nat /\ Depth(t) <= MaxNesting /\ MaxNesting \in Nat
  BY ToolsAssumption DEF HooksTyped, Depth
<1>2. ASSUME NEW t \in Callers, NEW k \in 1 .. MaxNesting
      PROVE  <<t, k>> \in S <=> k <= Depth(t) /\ hooks_stack[t][Depth(t) + 1 - k].backtrace = b
  BY DEF Runners, Frame
<1>3. ASSUME NEW t \in Callers, NEW k \in 1 .. MaxNesting
      PROVE  <<t, k>> \in T <=> k <= Depth(t) /\ hooks_stack[t][k].backtrace = b
  BY DEF Hooks!RunningIn, Depth
<1>4. /\ \A x \in S : \E t \in Callers, k \in 1 .. MaxNesting : x = <<t, k>>
      /\ \A x \in T : \E t \in Callers, k \in 1 .. MaxNesting : x = <<t, k>>
  BY DEF Runners, Hooks!RunningIn
<1>5. IsFiniteSet(S)
  BY RunnersFinite
<1> HIDE DEF S, T
<1>6. ASSUME NEW t \in Callers, NEW k \in 1 .. MaxNesting, k <= Depth(t)
      PROVE  /\ Depth(t) + 1 - k \in 1 .. MaxNesting /\ Depth(t) + 1 - k <= Depth(t)
             /\ Depth(t) + 1 - (Depth(t) + 1 - k) = k
  BY <1>1, <1>6
<1>7. ASSUME NEW x \in S PROVE f[x] \in T
  <2>1. PICK t \in Callers, k \in 1 .. MaxNesting : x = <<t, k>>
    BY <1>4
  <2>2. PICK j \in 1 .. MaxNesting : j = Depth(t) + 1 - k /\ j <= Depth(t)
    BY <1>2, <1>6, <1>7, <2>1
  <2>3. f[x] = <<t, j>> /\ hooks_stack[t][j].backtrace = b
    BY <1>2, <1>7, <2>1, <2>2
  <2> QED
    BY <1>3, <2>2, <2>3
<1>8. ASSUME NEW x \in S, NEW y \in S, f[x] = f[y] PROVE x = y
  <2>1. PICK t \in Callers, k \in 1 .. MaxNesting : x = <<t, k>>
    BY <1>4
  <2>2. PICK u \in Callers, j \in 1 .. MaxNesting : y = <<u, j>>
    BY <1>4
  <2>3. t = u /\ Depth(t) + 1 - k = Depth(t) + 1 - j
    BY <1>8, <2>1, <2>2
  <2>4. k = j
    BY <1>1, <2>3
  <2> QED
    BY <2>1, <2>2, <2>3, <2>4
<1>9. ASSUME NEW y \in T PROVE \E x \in S : f[x] = y
  <2>1. PICK t \in Callers, j \in 1 .. MaxNesting : y = <<t, j>>
    BY <1>4
  <2>2. j <= Depth(t) /\ hooks_stack[t][j].backtrace = b
    BY <1>3, <1>9, <2>1
  <2>3. PICK k \in 1 .. MaxNesting : k = Depth(t) + 1 - j /\ k <= Depth(t) /\ Depth(t) + 1 - k = j
    BY <1>6, <2>2
  <2>4. <<t, k>> \in S
    BY <1>2, <2>2, <2>3
  <2> QED
    BY <2>1, <2>3, <2>4
<1>10. f \in Bijection(S, T)
  <2>1. f \in [S -> T]
    BY <1>7
  <2>2. DOMAIN f = S
    OBVIOUS
  <2> HIDE DEF f
  <2> QED
    BY <1>8, <1>9, <2>1, <2>2 DEF Bijection, Injection, Surjection, IsInjective
<1>11. Cardinality(T) = Cardinality(S)
  BY <1>5, <1>10, FS_Bijection DEF ExistsBijection
<1> QED
  BY <1>11 DEF S, T

\* The instance counts with the operator of the library.
LEMMA SameHolders == \A S : Hooks!Cardinality(S) = Cardinality(S)
BY Zenon DEF Hooks!Cardinality, Cardinality

\* Holders, as the property counts them.
LEMMA HoldersHeld ==
  ASSUME HooksTyped, NEW b
  PROVE  Hooks!Holders(b) = Held(b)
<1>1. Cardinality(hooks_queue \cap {b}) = IF b \in hooks_queue THEN 1 ELSE 0
  <2>1. CASE b \in hooks_queue
    <3>1. hooks_queue \cap {b} = {b}
      BY <2>1
    <3> QED
      BY <2>1, <3>1, FS_Singleton
  <2>2. CASE b \notin hooks_queue
    <3>1. hooks_queue \cap {b} = {}
      BY <2>2
    <3> QED
      BY <2>2, <3>1, FS_EmptySet
  <2> QED
    BY <2>1, <2>2
<1>2. Cardinality(Hooks!RunningIn(b)) = Cardinality(Runners(b))
  BY SameRunners
<1>3. Hooks!Holders(b) = Cardinality(Hooks!RunningIn(b)) + Cardinality(Hooks!Callees(b))
                         + Cardinality(hooks_queue \cap {b})
                         + (IF hooks_reader.pc = "held" /\ hooks_reader.backtrace = b THEN 1 ELSE 0)
  BY SameHolders DEF Hooks!Holders
<1> QED
  BY <1>1, <1>2, <1>3 DEF Held

\* What the invariant gives.
LEMMA HooksGoals == HooksInv => Hooks!TypeOK /\ Hooks!CallersStayAlive /\ Hooks!CallerIsOfTheBlock
<1> SUFFICES ASSUME HooksInv PROVE Hooks!TypeOK /\ Hooks!CallersStayAlive /\ Hooks!CallerIsOfTheBlock
  OBVIOUS
<1>1. HooksTyped /\ Refers /\ Taken /\ Counting /\ hooks_touched # "handler"
  BY DEF HooksInv
<1>2. Hooks!TypeOK
  <2>1. ASSUME NEW s \in Hooks!Slots
        PROVE  hooks_slot[s] \in [thread : Callers \cup {"nobody"}, backtrace : 0 .. MaxBacktraces]
    <3>1. hooks_slot[s] \in [thread : Callers \cup {"nobody"}, backtrace : Nat]
      BY <1>1 DEF HooksTyped
    <3>2. hooks_slot[s].backtrace \in 0 .. MaxBacktraces
      <4>1. /\ hooks_slot[s].backtrace <= Len(hooks_bt) /\ Len(hooks_bt) <= MaxBacktraces
            /\ Len(hooks_bt) \in Nat /\ MaxBacktraces \in Nat
        BY <1>1, ToolsAssumption DEF Refers, HooksTyped
      <4> QED
        BY <3>1, <4>1
    <3> QED
      BY <3>1, <3>2
  <2>2. hooks_slot \in [Hooks!Slots -> [thread : Callers \cup {"nobody"}, backtrace : 0 .. MaxBacktraces]]
    BY <1>1, <2>1 DEF HooksTyped
  <2> QED
    BY <1>1, <2>2 DEF Hooks!TypeOK, Hooks!Nobody, HooksTyped, Refers, Depth
<1>3. Hooks!CallersStayAlive
  <2> SUFFICES ASSUME hooks_touched = "nobody", NEW b \in 1 .. Len(hooks_bt)
               PROVE  /\ hooks_bt[b].freed <=> Hooks!Holders(b) = 0
                      /\ ~hooks_bt[b].freed => hooks_bt[b].refcount = Hooks!Holders(b)
                      /\ hooks_bt[b].freed => \A s \in Hooks!Slots : hooks_slot[s].thread # "nobody" =>
                                                                     hooks_slot[s].backtrace # b
    BY <1>1 DEF Hooks!CallersStayAlive, Hooks!Nobody
  <2>1. Hooks!Holders(b) = Held(b)
    BY <1>1, HoldersHeld
  <2>2. hooks_bt[b].refcount = Held(b) /\ (hooks_bt[b].freed <=> Held(b) = 0)
    BY <1>1 DEF Counting
  <2>3. ASSUME hooks_bt[b].freed, NEW s \in Hooks!Slots, hooks_slot[s].thread # "nobody"
        PROVE  hooks_slot[s].backtrace # b
    BY <2>2, <2>3, SlotHolds
  <2> QED
    BY <2>1, <2>2, <2>3
<1>4. Hooks!CallerIsOfTheBlock
  <2> SUFFICES ASSUME NEW t \in Callers, Hooks!OwnCaller(t) # 0
               PROVE  \E i \in 1 .. Len(hooks_stack[t]) : hooks_stack[t][i].backtrace = Hooks!OwnCaller(t)
    BY DEF Hooks!CallerIsOfTheBlock, Hooks!Nothing
  <2>1. PICK s \in Hooks!Slots : s = hooks_idx[t]
    BY <1>1, SlotOfThread
  <2>2. hooks_slot[s].thread = t /\ hooks_slot[s].backtrace = Hooks!OwnCaller(t)
    BY <2>1 DEF Hooks!OwnCaller, Hooks!Mine, Hooks!Nothing
  <2>3. PICK k \in 1 .. Depth(t) : Frame(t, k).backtrace = Hooks!OwnCaller(t)
    BY <1>1, <2>2 DEF Taken
  <2>4. Depth(t) + 1 - k \in 1 .. Len(hooks_stack[t])
    <3>1. Len(hooks_stack[t]) \in Nat
      BY <1>1 DEF HooksTyped
    <3> QED
      BY <3>1 DEF Depth
  <2> QED
    BY <2>3, <2>4 DEF Frame
<1> QED
  BY <1>2, <1>3, <1>4

\* A handler never takes a backtrace that is gone, counts are the numbers of holders, and the
\* caller that a thread reports is that of a block it runs, for any number of threads, of slots
\* they share, of calls, and of blocks that run inside others.
THEOREM CallersStay == MCSpec => []CallersOfBlocks
<1>1. (part = "hooks" => HooksInv) => CallersOfBlocks
  BY HooksGoals DEF CallersOfBlocks
<1> QED
  BY <1>1, HooksHold, PTL
=============================================================================
