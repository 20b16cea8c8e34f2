-------------------------- MODULE RotatingLogFile --------------------------
(***************************************************************************)
(* The disk log of SteamcLog: the AutoRotatingFileDestination that         *)
(* SteamcLog.init builds, the serial queue its lines are written on, the   *)
(* current file steamclog.txt, the archives it is renamed to, and the      *)
(* process that may die and be launched again at any moment.               *)
(*                                                                         *)
(* Every thread of the application enqueues (Log, Fatal); one worker, the  *)
(* serial dispatch queue, writes, rotates and cleans up.  While the        *)
(* process starts, the same worker code runs on the thread that constructs *)
(* SteamcLog, so one program counter describes both.                       *)
(*                                                                         *)
(* A user message is an identifier 1, 2, ... in the order the calls were   *)
(* made, and has one character.  The lines the logger writes about itself  *)
(* ("Rotated file", "appending log to", ...) are Note: they pass through   *)
(* the queue, take their room in the file and may trigger a rotation, like *)
(* any line, but are not kept among its lines.                             *)
(*                                                                         *)
(* The destination counts characters; what it takes over at a launch is    *)
(* the bytes of the file, in which the newlines, the longer encodings and  *)
(* the marker of an appended file are included.                            *)
(***************************************************************************)
EXTENDS Integers, Sequences, FiniteSets, SequencesExt

CONSTANTS MaxTime,            \* bound: the clock, in seconds, stops here
          MaxMsgs,            \* bound: user messages logged in a behaviour
          MaxFaults,          \* bound: file-system calls that fail
          Zones,              \* offsets from UTC the device can be set to
          MaxFileSize,        \* targetMaxFileSize
          MaxTimeInterval,    \* targetMaxTimeInterval, 0 for never
          TargetMaxLogFiles,  \* targetMaxLogFiles
          NoteChars,          \* characters of a line of the logger's own
          ExtraBytes,         \* what a line takes in the file besides: newline, UTF-8
          MarkBytes,          \* appendMarker and its newline
          MaxBytes            \* bound: a file is not measured beyond this

ASSUME BoundsAssumption ==
    MaxTime \in Nat /\ MaxMsgs \in Nat /\ MaxFaults \in Nat

ASSUME ThresholdsAssumption ==
    /\ MaxFileSize \in Nat \ {0}
    /\ MaxTimeInterval \in Nat
    /\ TargetMaxLogFiles \in Nat

ASSUME SizesAssumption ==
    /\ NoteChars \in Nat /\ ExtraBytes \in Nat /\ MarkBytes \in Nat
    /\ MaxBytes \in Nat /\ MaxBytes >= MaxFileSize + NoteChars

ASSUME ZonesAssumption == Zones \subseteq Nat /\ Zones # {}

VARIABLES now,      \* Date(), in seconds
          zone,     \* the device's time zone
          current,  \* steamclog.txt
          archive,  \* steamclog_<local time>.txt, by local time
          pc,       \* where the worker is
          dest,     \* the archive name the rotation under way has chosen
          owner,    \* "none", "adding" (owner set, not yet registered), "added"
          handle,   \* logFileHandle # nil
          queue,    \* closures waiting on XCGLogger.logQueue
          size,     \* currentLogFileSize
          start,    \* currentLogStartTimeInterval
          victims,  \* archives cleanUpLogFiles still has to remove
          issued,   \* how many messages the application has logged
          fatal,    \* the message given to fatal() in this process, or 0
          dropped,  \* messages taken from the queue and not written
          unsaved,  \* messages that were still queued when the process died
          expired,  \* messages removed with an archive
          faults    \* file-system calls that failed

clock  == <<now, zone>>
disk   == <<current, archive>>
worker == <<pc, dest, owner, handle, size, start, victims>>
ledger == <<dropped, unsaved, expired>>
vars   == <<clock, disk, worker, queue, issued, fatal, ledger, faults>>

-----------------------------------------------------------------------------
Times == 0 .. MaxTime
Ids   == 1 .. MaxMsgs
Note  == 0

\* Archive names are local times, and sort as such.
Names == {t + z : t \in Times, z \in Zones}

NoCurrent == [there |-> FALSE, lines |-> <<>>, born |-> 0, chars |-> 0, bytes |-> 0]
NoArchive == [there |-> FALSE, lines |-> <<>>, stamp |-> 0]

Archives == {n \in Names : archive[n].there}
\* Only an archive that carries both extended attributes is recognised.
Tagged   == {n \in Archives : archive[n].stamp > 0}

\* Stamps are only ever compared with one another: the next one is newer than
\* every stamp on the disk (the clock is finer than a second).
Latest(n) == \A m \in Names : archive[m].stamp <= archive[n].stamp

\* The messages among some queued lines.
Messages(lines) == ToSet(lines) \ {Note}

\* message.count, and a size that is not measured beyond the bound.
Chars(line) == IF line = Note THEN NoteChars ELSE 1
Capped(n) == IF n > MaxBytes THEN MaxBytes ELSE n

\* shouldRotate() for a file of size sz started at time st.
RotationDue(sz, st) ==
    \/ sz >= MaxFileSize
    \/ MaxTimeInterval > 0 /\ now - st >= MaxTimeInterval

NewFile == [there |-> TRUE, lines |-> <<>>, born |-> now, chars |-> 0, bytes |-> 0]

\* Mutant of Created: shouldAppend is lost, an existing file is truncated.
CreatedAnew(f) == NewFile

\* The file as createFile leaves it: an existing one is not touched ...
Created(f) == IF f.there THEN f ELSE NewFile

\* ... but gets a marker when it is opened, which is not counted.
Marked(f) == IF f.there THEN [f EXCEPT !.bytes = Capped(@ + MarkBytes)] ELSE f

\* The file after one more line at its end, and the destination's count of it.
Measured(f, line) ==
    [f EXCEPT !.chars = Capped(@ + Chars(line)),
              !.bytes = Capped(@ + Chars(line) + ExtraBytes)]

\* Mutant of Written: logger lines are taken for messages.
WrittenWithNotes(f, line) == [Measured(f, line) EXCEPT !.lines = Append(@, line)]

\* Mutant of Written: no seekToEndOfFile, the line lands at the front.
WrittenInFront(f, line) ==
    IF line = Note THEN Measured(f, line)
    ELSE [Measured(f, line) EXCEPT !.lines = <<line>> \o @]

Written(f, line) ==
    IF line = Note THEN Measured(f, line)
    ELSE [Measured(f, line) EXCEPT !.lines = Append(@, line)]

\* An open file, and one to which the opening lines have been written.
Opened(f) == Created(Marked(f))
OpenedWithLines(f) == Written(Opened(f), Note)

\* Mutant of Victims: one archive too many is kept.
VictimsOffByOne ==
    {n \in Tagged :
        Cardinality({m \in Tagged : archive[m].stamp > archive[n].stamp})
            > TargetMaxLogFiles}

\* Mutant of Victims: archives sorted oldest first.
VictimsNewestFirst ==
    {n \in Tagged :
        Cardinality({m \in Tagged : archive[m].stamp < archive[n].stamp})
            >= TargetMaxLogFiles}

\* Tagged archives with TargetMaxLogFiles newer ones, newest first in archivedFileURLs.
Victims ==
    {n \in Tagged :
        Cardinality({m \in Tagged : archive[m].stamp > archive[n].stamp})
            >= TargetMaxLogFiles}

\* A logger line about the file reaches the queue once the destination is registered.
Notify(q) == IF owner = "added" THEN Append(q, Note) ELSE q

Fault == faults < MaxFaults /\ faults' = faults + 1

-----------------------------------------------------------------------------
Init ==
    /\ now = 0 /\ zone \in Zones
    /\ current = NoCurrent
    /\ archive = [n \in Names |-> NoArchive]
    /\ pc = "down" /\ dest = 0 /\ owner = "none" /\ handle = FALSE
    /\ size = 0 /\ start = 0 /\ victims = {}
    /\ queue = <<>> /\ issued = 0 /\ fatal = 0
    /\ dropped = {} /\ unsaved = {} /\ expired = {}
    /\ faults = 0

(* The environment: time passes, the device changes time zone. *)
Tick ==
    /\ now < MaxTime
    /\ now' = now + 1
    /\ UNCHANGED <<zone, disk, worker, queue, issued, fatal, ledger, faults>>

Travel ==
    /\ \E z \in Zones \ {zone} : zone' = z
    /\ UNCHANGED <<now, disk, worker, queue, issued, fatal, ledger, faults>>

(* A logging call of any thread: the line is handed to the queue. *)
Enqueue ==
    /\ owner = "added"
    /\ issued < MaxMsgs
    /\ issued' = issued + 1
    /\ queue' = Append(queue, issued + 1)
    /\ UNCHANGED <<clock, disk, worker, ledger, faults>>

Log == Enqueue /\ UNCHANGED fatal

(* fatal(): the line is enqueued and fatalError follows, so Crash comes next
   for this thread; the worker may or may not get to the line before it. *)
Fatal == fatal = 0 /\ Enqueue /\ fatal' = issued + 1

-----------------------------------------------------------------------------
(* openFile() of a destination that has an owner. *)
OpenSucceeds ==
    /\ current' = Opened(current)
    /\ handle' = TRUE
    /\ UNCHANGED faults

OpenFails ==
    /\ Fault
    /\ current' \in {current, Created(current)}
    /\ handle' = FALSE

\* The same, with the opening lines written to the file at once.
OpenWithLines ==
    /\ current' = OpenedWithLines(current)
    /\ handle' = TRUE
    /\ UNCHANGED faults

\* After rotateFile(to:), whatever came of it.
EndRotation ==
    /\ start' = now
    /\ size' = 0
    /\ victims' = Victims
    /\ pc' = "cleanup"

\* add(destination:) has returned and logQueue is set.  If the opening lines
\* have not been written, SteamcLog.init's logAppDetails enqueues them.
Registered(opened) ==
    /\ owner' = "added"
    /\ pc' = "idle"
    /\ queue' = IF opened THEN queue ELSE Append(queue, Note)

(* One closure of the queue: write, then rotate if a threshold is reached. *)
WriteLine ==
    /\ pc = "idle" /\ queue # <<>> /\ handle
    /\ queue' = Tail(queue)
    /\ current' = Written(current, Head(queue))
    /\ size' = size + Chars(Head(queue))
    /\ pc' = IF RotationDue(size', start) THEN "rotate" ELSE "idle"
    /\ UNCHANGED <<clock, archive, dest, owner, handle, start, victims,
                   issued, fatal, ledger, faults>>

\* Without a handle, or when the write raises, the line is gone but counted.
DropLine ==
    /\ pc = "idle" /\ queue # <<>>
    /\ \/ ~handle /\ UNCHANGED faults
       \/ handle /\ Fault
    /\ queue' = Tail(queue)
    /\ dropped' = dropped \cup ({Head(queue)} \ {Note})
    /\ size' = size + Chars(Head(queue))
    /\ pc' = IF RotationDue(size', start) THEN "rotate" ELSE "idle"
    /\ UNCHANGED <<clock, disk, dest, owner, handle, start, victims,
                   issued, fatal, unsaved, expired>>

(* rotateFile(): choose the archive's name; refuse one that is taken. *)
StartRotation ==
    /\ pc = "rotate"
    /\ ~archive[now + zone].there
    /\ dest' = now + zone
    /\ handle' = FALSE
    /\ pc' = "move"
    /\ UNCHANGED <<clock, disk, owner, size, start, victims, queue, issued,
                   fatal, ledger, faults>>

\* Mutant of RefuseRotation: the counters are not reset, so the same rotation
\* is tried for ever.
RefuseRotationAgain ==
    /\ pc = "rotate"
    /\ archive[now + zone].there
    /\ UNCHANGED vars

RefuseRotation ==
    /\ pc = "rotate"
    /\ archive[now + zone].there
    /\ EndRotation
    /\ UNCHANGED <<clock, disk, dest, owner, handle, queue, issued, fatal,
                   ledger, faults>>

(* moveItem.  A failure goes straight to openFile. *)
MoveFile ==
    /\ pc = "move"
    /\ current.there
    /\ archive' = [archive EXCEPT ![dest] =
                       [there |-> TRUE, lines |-> current.lines, stamp |-> 0]]
    /\ current' = NoCurrent
    /\ pc' = "tag"
    /\ UNCHANGED <<clock, dest, owner, handle, size, start, victims, queue,
                   issued, fatal, ledger, faults>>

MoveFails ==
    /\ pc = "move"
    /\ IF current.there THEN Fault ELSE UNCHANGED faults
    /\ pc' = "reopen"
    /\ UNCHANGED <<clock, disk, dest, owner, handle, size, start, victims,
                   queue, issued, fatal, ledger>>

(* setExtendedAttribute twice, then the "Rotated file" line. *)
TagArchive ==
    /\ pc = "tag"
    /\ \/ /\ \E n \in Names :
              Latest(n) /\ archive' = [archive EXCEPT ![dest].stamp = archive[n].stamp + 1]
          /\ UNCHANGED faults
       \/ Fault /\ UNCHANGED archive
    /\ queue' = Notify(queue)
    /\ pc' = "reopen"
    /\ UNCHANGED <<clock, current, dest, owner, handle, size, start, victims,
                   issued, fatal, ledger>>

\* Mutant of Reopen: openFile is not called after the move.
ReopenNever ==
    /\ pc = "reopen"
    /\ EndRotation
    /\ UNCHANGED <<clock, disk, dest, owner, handle, queue, issued, fatal,
                   ledger, faults>>

(* openFile() at the end of rotateFile(to:).  Before registration the opening
   lines are written here, and may themselves find a rotation due. *)
Reopen ==
    /\ pc = "reopen"
    /\ \/ /\ owner = "none"
          /\ EndRotation
          /\ UNCHANGED <<current, handle, queue, faults>>
       \/ /\ owner # "none"
          /\ OpenFails
          /\ EndRotation
          /\ UNCHANGED queue
       \/ /\ owner = "adding"
          /\ OpenWithLines
          /\ IF RotationDue(size + NoteChars, start)
               THEN /\ size' = size + NoteChars /\ pc' = "rotate"
                    /\ UNCHANGED <<start, victims>>
               ELSE EndRotation
          /\ UNCHANGED queue
       \/ /\ owner = "added"
          /\ OpenSucceeds
          /\ EndRotation
          /\ queue' = Notify(queue)
    /\ UNCHANGED <<clock, archive, dest, owner, issued, fatal, ledger>>

(* cleanUpLogFiles(): one removeItem at a time, newest victim first. *)
DeleteArchive ==
    /\ pc = "cleanup"
    /\ \E n \in victims :
          /\ \A m \in victims : archive[m].stamp <= archive[n].stamp
          /\ victims' = victims \ {n}
          /\ \/ /\ archive' = [archive EXCEPT ![n] = NoArchive]
                /\ expired' = expired \cup ToSet(archive[n].lines)
                /\ UNCHANGED <<queue, faults>>
             \/ /\ Fault
                /\ queue' = Notify(queue)
                /\ UNCHANGED <<archive, expired>>
    /\ UNCHANGED <<clock, current, pc, dest, owner, handle, size, start,
                   issued, fatal, dropped, unsaved>>

EndCleanup ==
    /\ pc = "cleanup" /\ victims = {}
    /\ \/ owner = "none" /\ pc' = "attach" /\ UNCHANGED <<owner, queue>>
       \/ owner = "adding" /\ \E opened \in {handle, TRUE} : Registered(opened)
       \/ owner = "added" /\ pc' = "idle" /\ UNCHANGED <<owner, queue>>
    /\ UNCHANGED <<clock, disk, dest, handle, size, start, victims, issued,
                   fatal, ledger, faults>>

-----------------------------------------------------------------------------
(* The process dies: everything in memory goes, the files stay. *)
Crash ==
    /\ pc # "down"
    /\ pc' = "down" /\ dest' = 0 /\ owner' = "none" /\ handle' = FALSE
    /\ size' = 0 /\ start' = 0 /\ victims' = {}
    /\ queue' = <<>>
    /\ unsaved' = unsaved \cup Messages(queue)
    /\ UNCHANGED <<clock, disk, issued, fatal, dropped, expired, faults>>

\* Mutant of Boot: the size of the file found is not taken over.
BootAtSizeZero ==
    /\ pc = "down"
    /\ size' = 0
    /\ start' = IF current.there THEN current.born ELSE now
    /\ pc' = IF RotationDue(size', start') THEN "rotate" ELSE "attach"
    /\ fatal' = 0
    /\ UNCHANGED <<clock, disk, dest, owner, handle, victims, queue, issued,
                   ledger, faults>>

(* The application is launched: AutoRotatingFileDestination.init takes size
   and start time from the file it finds, and rotates it if that is due. *)
Boot ==
    /\ pc = "down"
    /\ size' = current.bytes
    /\ start' = IF current.there THEN current.born ELSE now
    /\ pc' = IF RotationDue(size', start') THEN "rotate" ELSE "attach"
    /\ fatal' = 0
    /\ UNCHANGED <<clock, disk, dest, owner, handle, victims, queue, issued,
                   ledger, faults>>

(* xcgLogger.add(destination:): owner is set, which opens the file and writes
   the opening lines at once, before the queue is assigned. *)
Attach ==
    /\ pc = "attach"
    /\ \/ /\ OpenWithLines
          /\ size' = size + NoteChars
          /\ IF RotationDue(size', start)
               THEN owner' = "adding" /\ pc' = "rotate" /\ UNCHANGED queue
               ELSE Registered(TRUE)
       \/ OpenFails /\ Registered(FALSE) /\ UNCHANGED size
    /\ UNCHANGED <<clock, archive, dest, start, victims, issued, fatal, ledger>>

-----------------------------------------------------------------------------
Worker ==
    \/ WriteLine \/ DropLine \/ StartRotation \/ RefuseRotation
    \/ MoveFile \/ MoveFails \/ TagArchive \/ Reopen
    \/ DeleteArchive \/ EndCleanup \/ Attach

Next == Tick \/ Travel \/ Log \/ Fatal \/ Worker \/ Crash \/ Boot

Spec == Init /\ [][Next]_vars

\* The serial queue keeps executing closures, and a started init finishes,
\* for as long as the process lives.
FairSpec == Spec /\ WF_vars(Worker)
-----------------------------------------------------------------------------
(* Properties. *)

\* The types of the variables; lines in files are user messages.
TypeOK ==
    /\ now \in Times /\ zone \in Zones
    /\ current \in [there : BOOLEAN, lines : Seq(Ids), born : Times, chars : Nat, bytes : Nat]
    /\ archive \in [Names -> [there : BOOLEAN, lines : Seq(Ids), stamp : Nat]]
    /\ pc \in {"down", "rotate", "move", "tag", "reopen", "cleanup",
               "attach", "idle"}
    /\ dest \in Names \cup {0}
    /\ owner \in {"none", "adding", "added"}
    /\ handle \in BOOLEAN
    /\ queue \in Seq(Ids \cup {Note})
    /\ size \in Nat /\ start \in Times
    /\ victims \subseteq Names
    /\ issued \in 0 .. MaxMsgs /\ fatal \in 0 .. MaxMsgs
    /\ dropped \subseteq Ids /\ unsaved \subseteq Ids /\ expired \subseteq Ids
    /\ faults \in 0 .. MaxFaults

\* The lines archived under each local time, in the order of the names.
ArchivedLines ==
    [i \in 1 .. Max(Names) + 1 |->
        IF i - 1 \in Names THEN archive[i - 1].lines ELSE <<>>]

\* What is on the disk, archives in name order and then the current file.
Retained == FlattenSeq(ArchivedLines) \o current.lines

Waiting  == Messages(queue)
Lines(n) == ToSet(archive[n].lines)
OnDisk   == ToSet(current.lines) \cup UNION {Lines(n) : n \in Names}
Gone     == dropped \cup unsaved \cup expired

\* Every message logged is in exactly one place: waiting in the queue, in one
\* file, or known to be gone (its write failed, its process died first, its
\* archive was removed).  No rotation, restart, refusal or reopening makes one
\* vanish, stores it twice or brings it back.
Accounted ==
    /\ Waiting \cup OnDisk \cup Gone = 1 .. issued
    /\ Waiting \cap OnDisk = {}
    /\ (Waiting \cup OnDisk) \cap Gone = {}
    /\ \A n \in Names : Lines(n) \cap ToSet(current.lines) = {}
    /\ \A m, n \in Names : m # n => Lines(m) \cap Lines(n) = {}

\* As long as no file-system call fails, no line is taken from the queue
\* without being written, however rotations, deaths and launches interleave.
NoSilentDrop == faults = 0 => dropped = {}

\* No message is twice among these lines.
Once(lines) ==
    \A i, j \in DOMAIN lines : i # j /\ lines[i] # Note => lines[i] # lines[j]

\* What makes the two inductive.  A file that is not there has no lines, a
\* message waits once, and the name a rotation moves to is still free ...
LedgerInv ==
    /\ Accounted
    /\ ~current.there => current.lines = <<>>
    /\ \A n \in Names : ~archive[n].there => archive[n].lines = <<>>
    /\ Once(queue)
    /\ pc = "move" => dest \in Names /\ ~archive[dest].there
    /\ pc = "tag" => dest \in Names

\* ... and a destination that is registered, and not in the middle of a
\* rotation, has its file open.
HandleInv ==
    /\ pc \in {"down", "attach"} => owner = "none"
    /\ handle => current.there
    /\ pc = "move" => ~handle
    /\ faults = 0 =>
          /\ dropped = {}
          /\ pc = "idle" => handle
          /\ pc \in {"rotate", "cleanup"} /\ owner # "none" => handle

\* While the device keeps its zone, names are in the order in which the files
\* were moved, and in the order of their stamps ...
NamesInOrder ==
    /\ \A n \in Archives : n <= now + zone
    /\ current.there =>
          /\ current.born <= now
          /\ \A n \in Archives : n <= current.born + zone
    /\ pc = "move" => dest <= now + zone /\ \A n \in Archives : n < dest
    /\ pc = "tag" => \A n \in Archives : n <= dest
    /\ \A m, n \in Tagged : m < n => archive[m].stamp < archive[n].stamp

\* ... a clean-up under way leaves targetMaxLogFiles archives that are newer
\* than any it has yet to remove ...
ExcessInv ==
    pc = "cleanup" =>
        \A v \in victims :
            /\ v \in Tagged
            /\ Cardinality({m \in Tagged \ victims : archive[m].stamp > archive[v].stamp})
                  >= TargetMaxLogFiles

\* ... a file has at least as many bytes as characters, and none if it is not there ...
MeasureInv ==
    /\ current.chars <= current.bytes /\ current.bytes <= MaxBytes
    /\ ~current.there => current.chars = 0

\* ... and without faults the characters of the current file are counted, but for
\* opening lines written in the middle of a rotation, unless its rotation was refused in
\* the second in which it was created.
SizeInv ==
    /\ MeasureInv
    /\ faults = 0 =>
        /\ pc \in {"tag", "reopen"} => ~current.there
        /\ pc \in {"attach", "idle", "cleanup"} =>
              /\ size < MaxFileSize
              /\ \/ current.chars <= size + NoteChars
                 \/ current.there /\ current.born + zone \in Archives

\* Without faults the characters of the lines in the current file stay below targetMaxFileSize
\* and the opening lines, across restarts too, unless its rotation was refused because it
\* started in the very second whose archive name is taken.  Of its bytes nothing is said: the
\* newlines, the longer encodings and the markers are not counted while a process runs.
FileSizeBounded ==
    (faults = 0 /\ pc = "idle" /\ current.chars >= MaxFileSize + NoteChars)
        => \E z \in Zones : archive[current.born + z].there

\* A completed clean-up leaves at most targetMaxLogFiles recognised archives,
\* plus one for each removal that failed.
ArchivesTrimmed ==
    [][pc = "cleanup" /\ pc' \in {"attach", "idle"}
          => Cardinality(Tagged) <= TargetMaxLogFiles + faults]_vars

\* An archive is removed only while targetMaxLogFiles newer ones stay, even if
\* the process dies half-way through the clean-up.
OnlyExcessRemoved ==
    [][\A n \in Tagged \ Tagged' :
          Cardinality({m \in Tagged' : m > n}) >= TargetMaxLogFiles]_vars

\* The messages among some lines, in order.
UserLines(lines) ==
    FlattenSeq([i \in DOMAIN lines |-> IF lines[i] = Note THEN <<>> ELSE <<lines[i]>>])

Durable == INSTANCE DurableLog WITH accepted <- issued,
                                    pending  <- UserLines(queue),
                                    kept     <- Retained

\* The files together behave as one append-only log: rotation, tagging,
\* reopening and refused rotations change nothing a reader of the log sees.
ImplementsDurableLog == Durable!Spec

\* What is on the disk, with what waits behind it, is in the order of the calls,
\* whatever files it is spread over.
InOrder == Durable!InOrder

\* Every line leaves the queue: no refused, failed or interrupted rotation
\* leaves the worker stuck.
QueueDrains ==
    \A id \in Ids : id \in ToSet(queue) ~> id \notin ToSet(queue)

\* previousLogFilePath: "the archive filenames are constructed such that
\* alphabetical sort does do time sorting" - no archive holds a newer message
\* than the one whose name sorts last.
LastNameIsNewest ==
    Archives # {} =>
        \A n \in Archives : \A i \in ToSet(archive[n].lines) :
            \A k \in ToSet(archive[Max(Archives)].lines) :
                n # Max(Archives) => i < k

\* README: "store 10 archived log files" - a completed clean-up leaves at most
\* targetMaxLogFiles archives in the folder.
ArchivesBounded ==
    [][pc = "cleanup" /\ pc' \in {"attach", "idle"}
          => Cardinality(Archives) <= TargetMaxLogFiles + faults]_vars

\* README: info is the "minimum level of log stored in device logs in
\* production", and fatal is above it - after a call to fatal its message is on
\* the disk when the process has been closed.
FatalIsOnDisk ==
    pc = "down" /\ fatal # 0 => fatal \in ToSet(Retained) \cup dropped \cup expired
=============================================================================
