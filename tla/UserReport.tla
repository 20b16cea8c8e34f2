----------------------------- MODULE UserReport -----------------------------
(***************************************************************************)
(* Who reads the disk log while it is written: userReport, which computes  *)
(* the paths of the current log and the previous one at the call and has   *)
(* Sentry read them one after the other, and getLogFileContents.  Both run *)
(* on the caller's thread, the worker of the log goes on in between.       *)
(***************************************************************************)
EXTENDS RotatingLogFile

CONSTANT MaxReads    \* bound: user reports and exports in a behaviour

VARIABLES reader,    \* the user report under way, or the last one
          reads      \* user reports and exports made

readVars == <<reader, reads>>

Current == -1        \* the path of steamclog.txt; archives have their name
NoReport == [at |-> "idle", paths |-> <<>>, attached |-> <<>>, seen |-> {}, named |-> {}, moved |-> FALSE]

FileAt(path) == IF path = Current THEN current ELSE archive[path]
Under(paths) == UNION {ToSet(FileAt(path).lines) : path \in ToSet(paths)}

\* Mutant of PreviousLogFilePath: the first name is taken.
PreviousLogFilePathFirst ==
    IF Archives = {} THEN <<>> ELSE <<CHOOSE n \in Archives : \A m \in Archives : n <= m>>

\* The archive whose name sorts last, tagged or not.
PreviousLogFilePath ==
    IF Archives = {} THEN <<>> ELSE <<CHOOSE n \in Archives : \A m \in Archives : m <= n>>

\* internalUserReport: the paths, before anything is logged.
BeginReport ==
    /\ owner = "added" /\ reader.at = "idle"
    /\ issued < MaxMsgs /\ reads < MaxReads
    /\ reader' = [at |-> "attach", paths |-> <<Current>> \o PreviousLogFilePath, attached |-> <<>>,
                  seen |-> OnDisk, named |-> Under(<<Current>> \o PreviousLogFilePath), moved |-> FALSE]
    /\ reads' = reads + 1
    /\ UNCHANGED vars

\* An attachment is read when the envelope is built; one that is not there is left out.
Attach1 ==
    /\ reader.at = "attach"
    /\ LET path == Head(reader.paths) IN
       reader' = [reader EXCEPT
           !.paths = Tail(@),
           !.attached = IF FileAt(path).there THEN FileAt(path).lines \o @ ELSE @,
           !.at = IF Len(reader.paths) = 1 THEN "log" ELSE "attach"]
    /\ UNCHANGED <<vars, reads>>

\* Sentry has the event; then the line of the report goes to the file's queue.
LogReport ==
    /\ reader.at = "log"
    /\ IF issued < MaxMsgs THEN Log ELSE UNCHANGED vars
    /\ reader' = NoReport
    /\ UNCHANGED reads

\* getLogFileContents: the current file, or a warning that it can not be read.
Export ==
    /\ owner = "added" /\ reads < MaxReads
    /\ reads' = reads + 1
    /\ IF current.there THEN UNCHANGED vars ELSE Log
    /\ UNCHANGED reader

\* Every step of the log, seen by the report under way; a death ends it.
LogStep ==
    /\ Next
    /\ reader' = CASE pc' = "down" -> NoReport
                   [] reader.at = "idle" -> reader
                   [] OTHER -> [reader EXCEPT !.moved =
                          @ \/ \E n \in Names : archive'[n].lines # archive[n].lines
                                                \/ archive'[n].there # archive[n].there]
    /\ UNCHANGED reads

ReadInit == Init /\ reader = NoReport /\ reads = 0
ReadNext == BeginReport \/ Attach1 \/ LogReport \/ Export \/ LogStep
ReadSpec == ReadInit /\ [][ReadNext]_<<vars, readVars>>
-----------------------------------------------------------------------------
\* Whatever was on the disk at the call and is not in the report is older than all that is.
NothingLeftOut ==
    \A line \in reader.seen : line \in ToSet(reader.attached)
                            \/ \A i \in 1..Len(reader.attached) : reader.attached[i] > line

\* What a user report carries is in the order of the calls, whatever was rotated while it was
\* read; and if nothing was, it has every line the current file and the last archive held at the
\* call, and no older line is missing among its lines.
ReportCarriesTheLog ==
    reader.at = "log" =>
        /\ \A i, j \in 1..Len(reader.attached) : i < j => reader.attached[i] < reader.attached[j]
        /\ ~reader.moved => reader.named \subseteq ToSet(reader.attached) /\ NothingLeftOut

\* Without a failing call, a reader finds no log only while a rotation has it under its new name.
LogIsMissingOnlyWhileMoved ==
    faults = 0 /\ owner = "added" /\ ~current.there => pc \in {"tag", "reopen"}

\* What makes the two inductive.  A rotation under way that a reader can meet has a file to
\* move ...
FileToMove == faults = 0 /\ owner = "added" /\ pc = "move" => current.there

\* ... the name of an archive in a report under way is not used again, even if the archive is
\* removed ...
NameIsPast(n) ==
    /\ n \in Names /\ n <= now + zone
    /\ ~archive[n].there => n < now + zone
    /\ pc = "move" => n < dest

\* ... and what is read of the two files, in turn, is the end of the log.
Rises(lines) == \A i, j \in 1..Len(lines) : i < j => lines[i] < lines[j]
Ends(lines, all) == \A line \in all : line \in lines \/ \A l \in lines : line < l
LastIs(paths) ==
    IF Len(paths) = 1 THEN Archives = {}
    ELSE paths[2] \in Archives /\ \A m \in Archives : m <= paths[2]

Starting(r) ==
    /\ r.attached = <<>>
    /\ Len(r.paths) = 1 \/ (Len(r.paths) = 2 /\ NameIsPast(r.paths[2]))
    /\ ~r.moved => r.seen \subseteq OnDisk /\ LastIs(r.paths)

Halfway(r) ==
    /\ Len(r.paths) = 1 /\ NameIsPast(r.paths[1])
    /\ Rises(r.attached)
    /\ \A x \in Lines(r.paths[1]), y \in ToSet(r.attached) : x < y
    /\ ~r.moved => Ends(Lines(r.paths[1]) \cup ToSet(r.attached), r.seen)

ReaderInv ==
    /\ reader.at = "attach" =>
          IF reader.paths[1] = Current THEN Starting(reader) ELSE Halfway(reader)
    /\ reader.at = "log" =>
          Rises(reader.attached) /\ (~reader.moved => Ends(ToSet(reader.attached), reader.seen))

\* What the files named at the call held is in the report or still in one it has yet to read.
NamedInv ==
    /\ reader.at = "idle" => reader.named = {}
    /\ reader.at = "log" => reader.paths = <<>>
    /\ ~reader.moved => reader.named \subseteq Under(reader.paths) \cup ToSet(reader.attached)

\* What the code does not keep: a rotation between the call and the reading moves the newest
\* lines to an archive that is not among the paths.
ReportHasNoGap == reader.at = "log" => NothingLeftOut
=============================================================================
