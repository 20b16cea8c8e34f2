-------------------------- MODULE CrashReportStore --------------------------
(***************************************************************************)
(* Sentry's store of crash reports: a directory of files named after the   *)
(* app and an id.  A process prunes the store when it launches, chooses    *)
(* ids from the time of its launch, sends what it finds once, on another   *)
(* thread, and then deletes everything.  Reports are written by crashes,   *)
(* by user reports and by whoever adds one, at any time, also meanwhile.   *)
(***************************************************************************)
EXTENDS Naturals, Sequences, FiniteSets, Functions

CONSTANTS
    MaxReportCount,  \* g_maxReportCount
    IdsPerSecond,    \* 2^23: the base id is a count of seconds, shifted
    SecondsOfIds,    \* 512: ~0xffffffff is 0, so 32 bits are left of the id
    Unconvertible,   \* the reports on which convertReportToEvent raises
    MaxTime,         \* bound: seconds that pass
    MaxReports,      \* bound: reports written
    MaxLaunches      \* bound: launches

BoundsAssumption ==
    /\ {MaxReportCount, MaxTime, MaxReports, MaxLaunches} \subseteq Nat
    /\ {IdsPerSecond, SecondsOfIds} \subseteq Nat \ {0}

VARIABLES
    files,       \* the directory: <<id, extension>> to [report, whole]
    now,         \* seconds
    alive,       \* a process is running
    launches,    \* how many have been launched
    nextLow,     \* g_nextUniqueIDLow
    reports,     \* reports written so far: report n is younger than n - 1
    writing,     \* the path of the user report being written, or <<>>
    phase,       \* how far sendAllReports is
    count,       \* the result of getReportCount
    ids,         \* ids still to read
    outbox,      \* reports read and still to deliver
    client,      \* the hub has a client
    delivered,   \* deliveries of each report
    inTime,      \* reports that were whole when the store was counted
    disturbed,   \* the store lost a report while sending, or gained one
                 \* between counting and listing
    twice,       \* reports that were read while their id was listed once more
    interrupted  \* processes that died between delivering and deleting

storeVars == <<files, reports, writing>>
sendVars  == <<phase, count, ids, outbox, delivered, inTime, disturbed, twice, interrupted>>
vars == <<storeVars, sendVars, now, alive, launches, nextLow, client>>

Paths == (0..(SecondsOfIds * IdsPerSecond - 1)) \X {"json", "old"}

Init ==
    /\ files = [p \in {} |-> [report |-> 0, whole |-> TRUE]]
    /\ now = 0 /\ alive = FALSE /\ launches = 0 /\ nextLow = 0
    /\ reports = 0 /\ writing = <<>>
    /\ phase = "done" /\ count = 0 /\ ids = <<>> /\ outbox = <<>> /\ client = FALSE
    /\ delivered = [r \in 1..MaxReports |-> 0] /\ inTime = {}
    /\ disturbed = FALSE /\ twice = {} /\ interrupted = 0

-----------------------------------------------------------------------------
(* Operators of the store.  All files of the app with an id above 0 count, *)
(* whatever follows the id; a path for an id is always the .json file.     *)

Without(dir, gone) == [p \in DOMAIN dir \ gone |-> dir[p]]
With(dir, p, file) == [q \in DOMAIN dir \cup {p} |-> IF q = p THEN file ELSE dir[q]]

Counted(dir) == {p \in DOMAIN dir : p[1] > 0}
Jsons(dir) == {p \in Counted(dir) : p[2] = "json"}

\* The order in which ids are sorted, and the place of a file in it.
Before(p, q) == p[1] < q[1] \/ (p[1] = q[1] /\ p[2] = "json" /\ q[2] = "old")
Place(dir, p) == Cardinality({q \in dir : Before(q, p)}) + 1

\* The ids of some files, sorted; a file and its .old file give two entries.
Sorted(dir) == [i \in 1..Cardinality(dir) |-> (CHOOSE p \in dir : Place(dir, p) = i)[1]]

\* What getReportIDs can return when asked for n ids.  It takes the first n
\* files in any order, sorts n entries, and returns as many as it took.  The
\* entries it did not fill are whatever the stack held: here, some of them
\* below every id, and some above.
Listings(dir, n) ==
    LET taken == IF Cardinality(Counted(dir)) < n THEN Cardinality(Counted(dir)) ELSE n
        picks == {S \in SUBSET Counted(dir) : Cardinality(S) = taken}
    IN UNION {{SubSeq([i \in 1..low |-> 0] \o Sorted(S), 1, taken) : low \in 0..(n - taken)} :
                S \in picks}

\* Mutant: one report too many survives.
ExcessOffByOne(dir) ==
    LET all == Sorted(Counted(dir)) IN SubSeq(all, 1, Len(all) - MaxReportCount - 1)

\* pruneReports deletes from the front until MaxReportCount entries are left.
Excess(dir) ==
    LET all == Sorted(Counted(dir)) IN SubSeq(all, 1, Len(all) - MaxReportCount)

JsonOf(someIds) == {<<i, "json">> : i \in someIds}

\* initializeIDs: the first id of a process launched now.
BaseId == (now % SecondsOfIds) * IdsPerSecond

-----------------------------------------------------------------------------
(* Launching, writing reports, dying.                                      *)

\* sentrycrashcrs_initialize; the process may die while it prunes.
Launch ==
    /\ ~alive /\ launches < MaxLaunches
    /\ launches' = launches + 1
    /\ \E n \in 0..Len(Excess(files)) :
          /\ files' = Without(files, JsonOf({Excess(files)[i] : i \in 1..n}))
          /\ alive' = (n = Len(Excess(files)))
    /\ nextLow' = BaseId
    /\ client' \in BOOLEAN
    /\ phase' = "counting" /\ ids' = <<>> /\ outbox' = <<>> /\ writing' = <<>>
    /\ disturbed' = FALSE
    /\ UNCHANGED <<reports, count, delivered, inTime, twice, interrupted, now>>

Tick ==
    /\ now < MaxTime /\ now' = now + 1
    /\ UNCHANGED <<storeVars, sendVars, alive, launches, nextLow, client>>

Dies ==
    /\ alive' = FALSE
    /\ interrupted' = interrupted + (IF phase \in {"sending", "deleting"} THEN 1 ELSE 0)
    /\ UNCHANGED <<launches, now, client, phase, count, ids, outbox, delivered, inTime, disturbed, twice>>

Die == alive /\ Dies /\ UNCHANGED <<storeVars, nextLow>>

\* What a crash can leave for id i.  Nothing, if the name is taken; else the
\* report, or the part of it written before the process died.  A crash in the
\* handler moves the report aside, writes a new one and removes the old; it
\* can end after each of these steps.
Leaves(i, r) ==
    LET json == <<i, "json">>
        old  == <<i, "old">>
        part == [report |-> r, whole |-> FALSE]
        all  == [report |-> r, whole |-> TRUE]
        moved == With(Without(files, {json}), old, IF json \in DOMAIN files THEN files[json] ELSE part)
    IN {IF json \in DOMAIN files THEN files ELSE With(files, json, f) : f \in {part, all}}
         \cup {moved, With(moved, json, part)}
         \cup {With(Without(moved, {old}), json, f) : f \in {part, all}}

Crash ==
    /\ alive /\ reports < MaxReports
    /\ reports' = reports + 1
    /\ nextLow' = (nextLow + 1) % (SecondsOfIds * IdsPerSecond)
    /\ files' \in Leaves(nextLow, reports')
    /\ Dies
    /\ UNCHANGED writing

\* What another thread's new report does to the sending.
Disturb ==
    /\ disturbed' = (disturbed \/ phase = "listing")
    /\ UNCHANGED <<phase, count, ids, outbox, delivered, inTime, twice, interrupted>>

\* A user report of another thread is written while the app runs on.
BeginUserReport ==
    /\ alive /\ reports < MaxReports /\ writing = <<>>
    /\ reports' = reports + 1
    /\ nextLow' = (nextLow + 1) % (SecondsOfIds * IdsPerSecond)
    /\ LET json == <<nextLow, "json">> IN
       IF json \in DOMAIN files
       THEN UNCHANGED <<files, writing>>
       ELSE /\ files' = With(files, json, [report |-> reports', whole |-> FALSE])
            /\ writing' = json
    /\ Disturb
    /\ UNCHANGED <<now, alive, launches, client>>

EndUserReport ==
    /\ alive /\ writing # <<>>
    /\ files' = IF writing \in DOMAIN files
                THEN [files EXCEPT ![writing].whole = TRUE] ELSE files
    /\ writing' = <<>>
    /\ UNCHANGED <<reports, sendVars, now, alive, launches, nextLow, client>>

\* sentrycrashcrs_addUserReport does not mind a file that is there already:
\* it writes over its beginning.
AddUserReport ==
    /\ alive /\ reports < MaxReports
    /\ reports' = reports + 1
    /\ nextLow' = (nextLow + 1) % (SecondsOfIds * IdsPerSecond)
    /\ LET json == <<nextLow, "json">> IN
       \E whole \in BOOLEAN :
          /\ json \notin DOMAIN files => whole
          /\ files' = With(files, json, [report |-> reports', whole |-> whole])
    /\ Disturb
    /\ UNCHANGED <<writing, now, alive, launches, client>>

\* deleteReportWithID takes no lock.
DeleteReport(id) ==
    /\ alive /\ <<id, "json">> \in DOMAIN files
    /\ files' = Without(files, {<<id, "json">>})
    /\ disturbed' = TRUE
    /\ UNCHANGED <<reports, writing, phase, count, ids, outbox, delivered, inTime, twice, interrupted,
                   now, alive, launches, nextLow, client>>

-----------------------------------------------------------------------------
(* sendAllReportsWithCompletion.                                           *)

Count ==
    /\ alive /\ phase = "counting"
    /\ count' = Cardinality(Counted(files))
    /\ inTime' = {files[p].report : p \in {q \in Jsons(files) : files[q].whole}}
    /\ phase' = IF count' = 0 THEN "deleting" ELSE "listing"
    /\ UNCHANGED <<storeVars, ids, outbox, delivered, disturbed, twice, interrupted, now, alive,
                   launches, nextLow, client>>

\* The directory is read again, after the lock was released.
List ==
    /\ alive /\ phase = "listing"
    /\ ids' \in Listings(files, count)
    /\ phase' = "reading"
    /\ UNCHANGED <<storeVars, count, outbox, delivered, inTime, disturbed, twice, interrupted, now,
                   alive, launches, nextLow, client>>

\* Mutant: the first report that can not be read ends the reading.
ReadUntilBroken ==
    /\ alive /\ phase = "reading" /\ ids # <<>>
    /\ LET p == <<Head(ids), "json">>
           good == Head(ids) > 0 /\ p \in DOMAIN files /\ files[p].whole
       IN /\ outbox' = IF good THEN Append(outbox, files[p].report) ELSE outbox
          /\ twice' = IF good /\ Head(ids) \in Range(Tail(ids)) THEN twice \cup {files[p].report} ELSE twice
          /\ ids' = IF good THEN Tail(ids) ELSE <<>>
    /\ UNCHANGED <<storeVars, phase, count, delivered, inTime, disturbed, interrupted, now,
                   alive, launches, nextLow, client>>

\* readReport: no report for an id of 0 or less, for a file that is gone, or
\* for one that does not decode to its end.
Read ==
    /\ alive /\ phase = "reading" /\ ids # <<>>
    /\ LET p == <<Head(ids), "json">>
           good == Head(ids) > 0 /\ p \in DOMAIN files /\ files[p].whole
       IN /\ outbox' = IF good THEN Append(outbox, files[p].report) ELSE outbox
          /\ twice' = IF good /\ Head(ids) \in Range(Tail(ids)) THEN twice \cup {files[p].report} ELSE twice
    /\ ids' = Tail(ids)
    /\ UNCHANGED <<storeVars, phase, count, delivered, inTime, disturbed, interrupted, now,
                   alive, launches, nextLow, client>>

Dispatch ==
    /\ alive /\ phase = "reading" /\ ids = <<>>
    /\ phase' = IF outbox = <<>> THEN "deleting" ELSE "sending"
    /\ UNCHANGED <<storeVars, count, ids, outbox, delivered, inTime, disturbed, twice, interrupted, now,
                   alive, launches, nextLow, client>>

\* A report of which no event can be made is passed over.
AfterConversion(report) ==
    IF report \in Unconvertible THEN delivered ELSE [delivered EXCEPT ![report] = @ + 1]

\* Mutant: without a client nothing is done, and nobody is told.
SendWithClientOnly ==
    /\ alive /\ phase = "sending" /\ outbox # <<>> /\ client
    /\ delivered' = AfterConversion(Head(outbox))
    /\ outbox' = Tail(outbox)
    /\ UNCHANGED <<storeVars, phase, count, ids, inTime, disturbed, twice, interrupted, now, alive,
                   launches, nextLow, client>>

\* filterReports delivers each report that can be converted, if there is a client.
Send ==
    /\ alive /\ phase = "sending" /\ outbox # <<>>
    /\ delivered' = IF client THEN AfterConversion(Head(outbox)) ELSE delivered
    /\ outbox' = Tail(outbox)
    /\ UNCHANGED <<storeVars, phase, count, ids, inTime, disturbed, twice, interrupted, now, alive,
                   launches, nextLow, client>>

\* Completion is always told that all went well.
Complete ==
    /\ alive /\ phase = "sending" /\ outbox = <<>>
    /\ phase' = "deleting"
    /\ UNCHANGED <<storeVars, count, ids, outbox, delivered, inTime, disturbed, twice, interrupted, now,
                   alive, launches, nextLow, client>>

\* Mutant: what was not delivered is kept for the next launch.
DeleteAllIfClient ==
    /\ alive /\ phase = "deleting"
    /\ files' = IF client /\ ~disturbed THEN Without(files, DOMAIN files) ELSE files
    /\ phase' = "done"
    /\ UNCHANGED <<reports, writing, count, ids, outbox, delivered, inTime, disturbed,
                   twice, interrupted, now, alive, launches, nextLow, client>>

\* deleteAllReports empties the directory, whatever was sent.
DeleteAll ==
    /\ alive /\ phase = "deleting"
    /\ files' = Without(files, DOMAIN files)
    /\ phase' = "done"
    /\ UNCHANGED <<reports, writing, count, ids, outbox, delivered, inTime, disturbed,
                   twice, interrupted, now, alive, launches, nextLow, client>>

-----------------------------------------------------------------------------

Sending == Count \/ List \/ Read \/ Dispatch \/ Send \/ Complete \/ DeleteAll

Next ==
    \/ Launch \/ Tick \/ Die \/ Crash
    \/ BeginUserReport \/ EndUserReport \/ AddUserReport
    \/ \E p \in DOMAIN files : DeleteReport(p[1])
    \/ Sending

Spec == Init /\ [][Next]_vars

\* The launching thread and the global queue run.
FairSpec == Spec /\ WF_vars(Sending)

-----------------------------------------------------------------------------
(* Properties.                                                             *)

Phases == {"counting", "listing", "reading", "sending", "deleting", "done"}

TypeOK ==
    /\ DOMAIN files \subseteq Paths
    /\ \A p \in DOMAIN files : files[p] \in [report : 1..MaxReports, whole : BOOLEAN]
    /\ now \in 0..MaxTime /\ launches \in 0..MaxLaunches /\ reports \in 0..MaxReports
    /\ nextLow \in 0..(SecondsOfIds * IdsPerSecond - 1)
    /\ writing = <<>> \/ writing \in Paths
    /\ phase \in Phases /\ count \in Nat /\ inTime \subseteq 1..MaxReports
    /\ ids \in Seq(Nat) /\ outbox \in Seq(1..MaxReports)
    /\ {alive, client, disturbed} \subseteq BOOLEAN
    /\ twice \subseteq 1..MaxReports /\ delivered \in [1..MaxReports -> Nat] /\ interrupted \in Nat

Stored(dir) == {dir[p].report : p \in DOMAIN dir}

\* A launch that gets through pruning leaves at most MaxReportCount reports,
\* though files moved aside count as entries and are never pruned themselves.
PrunedAtLaunch ==
    [][alive' /\ ~alive => Cardinality(Jsons(files')) <= MaxReportCount]_vars

\* No report leaves the store without having been delivered, while a process
\* with a client runs, if it was whole when the reports were counted, an event
\* can be made of it, no other thread deleted reports, and none was added
\* before they were listed.  (A report that raises in the converter is passed
\* over and then deleted with the others, undelivered.)
SentBeforeDeleted ==
    [][alive /\ client /\ ~disturbed' /\ files' = <<>> =>
         \A p \in DOMAIN files :
             p \in Jsons(files) /\ files[p].whole /\ files[p].report \in inTime
             => files[p].report \in Unconvertible \/ delivered[files[p].report] > 0]_vars

\* A report that was not read under an id listed twice is delivered again only if a
\* process died after it had begun to deliver and before it had deleted.
TwiceOnlyAfterDeath ==
    [][\A r \in (1..MaxReports) \ twice' : delivered'[r] <= 1 + interrupted']_vars

\* Sending comes to an end and empties the store, unless the process dies.
SendingEnds == alive ~> phase = "done" \/ ~alive

\* Pruning removes old reports first: in a store with no file moved aside,
\* what it removes is older than whatever it leaves.
PrunesOldest ==
    [][~alive /\ Jsons(files) = DOMAIN files =>
         \A r \in Stored(files) \ Stored(files') : \A s \in Stored(files') : r < s]_vars

\* The ids that are listed are ids of reports in the store.
ListedAreStored ==
    [][ids' # ids /\ phase = "listing" =>
         \A i \in 1..Len(ids') : \E p \in DOMAIN files : p[1] = ids'[i]]_vars

\* Every report is listed once.
ListedOnce ==
    [][ids' # ids /\ phase = "listing" => \A i, j \in 1..Len(ids') : ids'[i] = ids'[j] => i = j]_vars

\* A crash that gets as far as writing leaves a report in the store.
NextCrashRecorded ==
    [][Crash => reports' \in Stored(files')]_vars
=============================================================================
