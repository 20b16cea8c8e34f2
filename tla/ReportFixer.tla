----------------------------- MODULE ReportFixer -----------------------------
(***************************************************************************)
(* What a report goes through when it is read at the next launch: decoded, *)
(* and encoded again with its timestamps as dates.  The file may end early *)
(* because the process died while it was written.                          *)
(***************************************************************************)
EXTENDS JSONEncoder, FiniteSets

CONSTANTS
    MaxDepth,                          \* MAX_DEPTH: names the path has room for
    ReportName, RecrashName, TimeName, \* "report", "recrash_report", "timestamp"
    Reports                            \* what is written: the events given, and those meant after fixing



VARIABLES
    report,   \* the report of this run
    file,     \* its text on disk
    fixed     \* the fixed text, "NULL" in a record when there is none, "unread" before

vars == <<report, file, fixed>>

Root == <<>>    \* the path's entry for a container without a name is the empty string
DatePaths == {<<Root, ReportName, TimeName>>, <<Root, RecrashName, ReportName, TimeName>>}
DateText  == <<"a", "n", "a">>

Named(name) == IF name = NULL THEN Root ELSE name

\* Mutant of MatchesAPath: the names on the way to the element are not compared.
MatchesLastName(path, name) == \E p \in DatePaths : Len(p) > Len(path) /\ p[Len(path) + 1] = Named(name)

\* matchesPath: what is on the way to a date, too, has the name it is asked for.  (Beneath a date it
\* would look past the path; what the reports hold there is no container.)
MatchesAPath(path, name) == \E p \in DatePaths : IsPrefix(Append(path, Named(name)), p)

\* Mutant: there is always room.
IncreaseDepthUnchecked(d, name) == [d EXCEPT !.path = Append(@, Named(name))]

IncreaseDepth(d, name) == IF Len(d.path) >= MaxDepth THEN [d EXCEPT !.result = "too_long"]
                          ELSE [d EXCEPT !.path = Append(@, Named(name))]

\* Mutant: the name of a container that was left stays in the path.
DecreaseDepthNot(d) == d

DecreaseDepth(d) == IF d.path = <<>> THEN d ELSE [d EXCEPT !.path = Front(@)]

OnElement(e, path, ev) ==
    IF ev.kind = "end" THEN EndContainer(e)
    ELSE IF ev.kind \in {"object", "array"} THEN BeginContainer(e, ev.name, ev.kind = "object")
    ELSE IF ev.kind = "integer" /\ MatchesAPath(path, ev.name) THEN AddString(e, ev.name, DateText)
    ELSE IF ev.kind = "string" THEN AddString(e, ev.name, ev.value)
    ELSE AddLiteral(e, ev.name, IF ev.kind = "integer" THEN <<ToString(ev.value[1])>> ELSE ev.value)

\* The output buffer has room for half as much again as the input.
Taken(d, e) == [d EXCEPT !.enc = e,
                         !.result = IF Len(e.out) > d.limit THEN "too_long" ELSE e.result]

Moved(d, ev) == IF ev.kind \in {"object", "array"} THEN IncreaseDepth(d, ev.name)
                ELSE IF ev.kind = "end" THEN DecreaseDepth(d) ELSE d

Fixup(d, ev) == Moved(Taken(d, OnElement(d.enc, d.path, ev)), ev)

D == INSTANCE JSONDecoder WITH Callback <- Fixup, IntModulus <- 256

Start(text) == [buf |-> text, ptr |-> 1, end |-> Len(text) + 1, past |-> "NUL", nameSize |-> 0,
                stringSize |-> 0, result |-> "ok", enc |-> BeginEncode(-1), path |-> <<>>,
                limit |-> (3 * Len(text)) \div 2]

\* Mutant: what was decoded before an error is closed and returned.
FixedKeepingPart(d) == [text |-> EndEncode(d.enc).out]

Fixed(d) == [text |-> IF D!Ok(d) THEN EndEncode(d.enc).out ELSE <<"NULL">>]

FixupCrashReport(text) == Fixed(D!Decode(Start(text), 100))

\* What is written has no dates: it is encoded with a path longer than the way to any date.
Beyond == <<Root, Root, Root, Root>>
Text(events) == FoldLeft(LAMBDA e, ev : OnElement(e, Beyond, ev), BeginEncode(-1), events).out

Init == /\ report \in Reports /\ file = <<>> /\ fixed = [text |-> <<"unread">>]

WriteMore == /\ fixed.text = <<"unread">> /\ Len(file) < Len(Text(report.given))
             /\ file' = SubSeq(Text(report.given), 1, Len(file) + 1) /\ UNCHANGED <<report, fixed>>

NextLaunch == /\ fixed.text = <<"unread">> /\ fixed' = FixupCrashReport(file)
              /\ UNCHANGED <<report, file>>

Next == WriteMore \/ NextLaunch
Spec == Init /\ [][Next]_vars
-----------------------------------------------------------------------------
Read     == fixed.text # <<"unread">>
Complete == file = Text(report.given)
DepthOf(events) == LET Net(n) == Cardinality({i \in 1..n : events[i].kind \in {"object", "array"}})
                                 - Cardinality({i \in 1..n : events[i].kind = "end"})
                   IN  CHOOSE m \in 0..Len(events) :
                           /\ \A n \in 0..Len(events) : Net(n) <= m
                           /\ \E n \in 0..Len(events) : Net(n) = m

\* A complete report comes through with nothing changed but the timestamps of the report and of
\* the report inside a recrash report, and integers that stand where the way to them should lead on;
\* integers of these names elsewhere stay integers.
OnlyDatesChange == Read /\ Complete /\ DepthOf(report.given) <= MaxDepth => fixed.text = Text(report.meant)

\* A report that is nested deeper than the path has room for is refused, not written past its end.
DeepIsRefused == Read /\ DepthOf(report.given) > MaxDepth => fixed.text = <<"NULL">>

\* There is no third outcome: the result is the whole of a complete report, or nothing.
AllOrNothing == Read => fixed.text = <<"NULL">> \/ (Complete /\ fixed.text = Text(report.meant))

\* What was written of a report before the process died is kept.
PartIsKept == Read /\ Len(file) > 1 => fixed.text # <<"NULL">>
\* Only timestamps are made dates: so is an integer with the name of the report's section.
OnlyTimestampsChange ==
    Read /\ Complete /\ (\A i \in DOMAIN report.given : report.given[i].name # TimeName) =>
        fixed.text \in {<<"NULL">>, Text(report.given)}
=============================================================================
