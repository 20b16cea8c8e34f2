------------------------------- MODULE ConsoleLog ------------------------------
(***************************************************************************)
(* The log of the crash reporter itself: a line is written in pieces to a  *)
(* descriptor in a global, by any thread and without a lock; a report may  *)
(* carry the file, and after a report of the user it is begun anew.        *)
(***************************************************************************)
EXTENDS Naturals, Sequences, SequencesExt, FiniteSets

CONSTANTS Threads,
          Numbers,      \* of descriptors, all above those of the standard streams
          MaxLines,     \* bound on the lines that are logged
          MaxReports,   \* bound on the reports of the user
          Others        \* bound on the files that others open

VARIABLES
    file,           \* the pieces in the log file, by their place
    fds,            \* number -> [to, at], of a file that is open, or Closed
    gFd,            \* g_fd, 0 for -1
    opened,         \* the static variable of sentrycrashlog_setLogFilename
    pc,             \* thread -> [step, piece, fd]
    count,          \* [lines, reports, others]: so far
    since,          \* the pieces logged since the log was begun, but for those whose write failed
    reported,       \* the pieces the reports have carried
    crossed         \* a line has been written, or the log begun or found not to open, while another thread began it

vars == <<file, fds, gFd, opened, pc, count, since, reported, crossed>>

Closed == [to |-> "closed", at |-> 0]
Hole == <<"hole", 0>>
Idle == [step |-> "idle", piece |-> 0, fd |-> 0]
Pieces == 3     \* of a line: where it is from, the message, the end of the line
Failure == 4    \* the one piece of "Could not open"

TypeOK ==
    /\ gFd \in Numbers \cup {0} /\ opened \in Numbers \cup {0} /\ crossed \in BOOLEAN
    /\ fds \in [Numbers -> [to : {"closed", "log", "other"}, at : Nat]]
    /\ pc \in [Threads -> [step : {"idle", "log", "write", "read", "open", "close", "assign"},
                           piece : 0..Failure, fd : Numbers \cup {0}]]

Lowest == CHOOSE n \in Numbers : fds[n] = Closed /\ \A m \in Numbers : fds[m] = Closed => n <= m

\* sentrycrash_install begins the log.
Init ==
    \E n \in Numbers : (\A m \in Numbers : n <= m) /\
        /\ file = <<>> /\ fds = [m \in Numbers |-> IF m = n THEN [to |-> "log", at |-> 0] ELSE Closed]
        /\ gFd = n /\ opened = n /\ pc = [t \in Threads |-> Idle]
        /\ count = [lines |-> 0, reports |-> 0, others |-> 0]
        /\ since = <<>> /\ reported = {} /\ crossed = FALSE
-----------------------------------------------------------------------------
Beginning(t) == \E u \in Threads \ {t} : pc[u].step \in {"open", "close", "assign"}
Writing(t) == \E u \in Threads \ {t} : pc[u].step = "write"

\* i_sentrycrashlog_logC and its like: three texts in turn, each cut to the buffer.
Log(t) ==
    /\ pc[t] = Idle /\ count.lines < MaxLines
    /\ pc' = [pc EXCEPT ![t] = [Idle EXCEPT !.step = "log", !.piece = 1]]
    /\ count' = [count EXCEPT !.lines = @ + 1]
    /\ UNCHANGED <<file, fds, gFd, opened, since, reported, crossed>>

\* writeToLog: the descriptor is looked at, then written to.
Load(t) ==
    /\ pc[t].step = "log"
    /\ pc' = [pc EXCEPT ![t].step = "write", ![t].fd = gFd]
    /\ crossed' = (crossed \/ Beginning(t))
    /\ UNCHANGED <<file, fds, gFd, opened, count, since, reported>>

\* write: at the place of the descriptor; what is skipped becomes a hole.
At(f, place, piece) ==
    [i \in 1..(IF place < Len(f) THEN Len(f) ELSE place + 1) |->
        IF i = place + 1 THEN piece ELSE IF i <= Len(f) THEN f[i] ELSE Hole]
AfterPiece(piece) == IF piece < Pieces THEN [step |-> "log", piece |-> piece + 1, fd |-> 0] ELSE Idle
Write(t) ==
    LET n == pc[t].fd
        piece == <<t, pc[t].piece>>
    IN  /\ pc[t].step = "write"
        /\ IF n # 0 /\ fds[n].to # "closed"
           THEN /\ fds' = [fds EXCEPT ![n].at = @ + 1]
                /\ file' = IF fds[n].to = "log" THEN At(file, fds[n].at, piece) ELSE file
           ELSE UNCHANGED <<file, fds>>
        /\ since' = Append(since, piece) /\ crossed' = (crossed \/ Beginning(t))
        /\ pc' = [pc EXCEPT ![t] = AfterPiece(@.piece)]
        /\ UNCHANGED <<gFd, opened, count, reported>>

\* A write that fails, as on a full disk: the rest of the piece is given up, here all of it.
WriteFails(t) ==
    /\ pc[t].step = "write" /\ pc[t].fd # 0
    /\ pc' = [pc EXCEPT ![t] = AfterPiece(@.piece)]
    /\ crossed' = (crossed \/ Beginning(t))
    /\ UNCHANGED <<file, fds, gFd, opened, count, since, reported>>

\* sentrycrash_reportUserException, with the log to be added: the report, then the log begun anew.
Report(t) ==
    /\ pc[t] = Idle /\ count.reports < MaxReports
    /\ pc' = [pc EXCEPT ![t].step = "open"] /\ count' = [count EXCEPT !.reports = @ + 1]
    /\ reported' = reported \cup Range(file)
    /\ UNCHANGED <<file, fds, gFd, opened, since, crossed>>

\* Mutant of Truncated: opened without O_TRUNC, as if not to overwrite.
TruncatedNever(f) == f
\* open with O_TRUNC.
Truncated(f) == <<>>

\* sentrycrashlog_clearLogFile, sentrycrashlog_setLogFilename: the file is opened once more.
Open(t) ==
    /\ pc[t].step = "open" /\ \E n \in Numbers : fds[n] = Closed
    /\ fds' = [fds EXCEPT ![Lowest] = [to |-> "log", at |-> 0]] /\ opened' = Lowest
    /\ file' = Truncated(file) /\ since' = <<>>
    /\ pc' = [pc EXCEPT ![t].step = "close"] /\ crossed' = (crossed \/ Beginning(t) \/ Writing(t))
    /\ UNCHANGED <<gFd, count, reported>>

\* It cannot be opened, for want of a descriptor or another reason: the static variable, which
\* another thread may be about to put in the global, is -1 all the same; a line tells of it.
OpenFails(t) ==
    /\ pc[t].step = "open" /\ opened' = 0
    /\ pc' = [pc EXCEPT ![t] = [step |-> "log", piece |-> Failure, fd |-> 0]]
    /\ crossed' = (crossed \/ Beginning(t))
    /\ UNCHANGED <<file, fds, gFd, count, since, reported>>

\* setLogFD: what is in the global is closed, and what was opened last put there.
Close(t) ==
    /\ pc[t].step = "close"
    /\ fds' = IF gFd = 0 THEN fds ELSE [fds EXCEPT ![gFd] = Closed]
    /\ pc' = [pc EXCEPT ![t].step = "assign", ![t].fd = opened]
    /\ crossed' = (crossed \/ Beginning(t) \/ Writing(t))
    /\ UNCHANGED <<file, gFd, opened, count, since, reported>>
Assign(t) ==
    /\ pc[t].step = "assign" /\ gFd' = pc[t].fd /\ pc' = [pc EXCEPT ![t] = Idle]
    /\ crossed' = (crossed \/ Beginning(t) \/ Writing(t))
    /\ UNCHANGED <<file, fds, opened, count, since, reported>>

\* Another part of the program opens a file.
OpenOther ==
    /\ count.others < Others /\ \E n \in Numbers : fds[n] = Closed
    /\ fds' = [fds EXCEPT ![Lowest] = [to |-> "other", at |-> 0]] /\ count' = [count EXCEPT !.others = @ + 1]
    /\ UNCHANGED <<file, gFd, opened, pc, since, reported, crossed>>

Next ==
    \/ \E t \in Threads : Log(t) \/ Load(t) \/ Write(t) \/ WriteFails(t)
    \/ \E t \in Threads : Report(t) \/ Open(t) \/ OpenFails(t) \/ Close(t) \/ Assign(t)
    \/ OpenOther

Spec == Init /\ [][Next]_vars
-----------------------------------------------------------------------------
\* Unless a thread has written, or failed to open the log, while another began it anew, the file holds
\* what was logged since, in that order, and nothing from before: all but the pieces whose write failed.
LogIsWhatWasLogged ==
    ~crossed /\ (\A t \in Threads : pc[t].step \notin {"open", "close", "assign"}) => file = since

(* What the code does not keep. *)

\* The log stays with its descriptor, though a thread fails to open it while another has just opened it.
LogIsNotLost == (\A t \in Threads : pc[t] = Idle) => gFd # 0

\* No hole is left where a line was written to the old descriptor of the file that was begun anew.
NoHoles == Hole \notin Range(file)
\* What others write is not mixed with the log: a number that was closed may be given to another file.
OthersAreSafe == \A n \in Numbers : fds[n].to = "other" => fds[n].at = 0
\* The log stays open, though two threads begin it anew at once.
LogStaysOpen ==
    (\A t \in Threads : pc[t] = Idle) /\ gFd # 0 => fds[gFd].to = "log"
\* A line is in the log or in a report: not one that came between the report and the new beginning.
NothingIsForgotten ==
    \A t \in Threads : pc[t].step = "log" /\ pc[t].piece \in 2..Pieces => <<t, 1>> \in Range(file) \cup reported
=============================================================================
