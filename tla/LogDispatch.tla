---------------------------- MODULE LogDispatch ----------------------------
(***************************************************************************)
(* How a logging call reaches its destinations.  Threads call SteamcLog    *)
(* concurrently and nothing is locked: XCGLogger.logln first reads every   *)
(* destination's outputLevel to pick the enabled ones, then processes them *)
(* one after the other.  error and fatal are two such passes, one for the  *)
(* details (at level info) and one for the message.  Meanwhile config may  *)
(* be assigned, which moves the destinations' levels one by one.           *)
(*                                                                         *)
(* The disk destination only enqueues (RotatingLogFile says what becomes   *)
(* of the line); Sentry keeps a bounded trail of breadcrumbs and captures  *)
(* an event for each line of level error.                                  *)
(***************************************************************************)
EXTENDS Integers, Sequences, FiniteSets, SequencesExt

CONSTANTS Threads,         \* threads of the application
          Scenarios,       \* bounds: what the application does in a behaviour
          MaxBreadcrumbs   \* maxBreadcrumbs of Sentry's scope

-----------------------------------------------------------------------------
(* Log levels, their order, and the presets that give each destination its    *)
(* threshold.                                                                 *)
LogLevel == {"verbose", "debug", "info", "warn", "error", "fatal", "none"}

\* LogLevel.xcgLevel, as the raw value of the XCGLogger.Level it names: notice,
\* alert and emergency (3, 7, 8) have no LogLevel.
xcgLevel == [verbose |-> 0, debug |-> 1, info |-> 2, warn |-> 4, error |-> 5,
             fatal |-> 6, none |-> 9]

Preset == {"debugVerbose", "debug", "release", "releaseAdvanced"}

global == [debugVerbose |-> "info", debug |-> "info", release |-> "warn",
           releaseAdvanced |-> "info"]

remote == [debugVerbose |-> "none", debug |-> "none", release |-> "info",
           releaseAdvanced |-> "debug"]

disk == [debugVerbose |-> "verbose", debug |-> "debug", release |-> "info",
         releaseAdvanced |-> "debug"]

console == [debugVerbose |-> "verbose", debug |-> "debug", release |-> "none",
            releaseAdvanced |-> "none"]

\* isEnabledFor: a line of level l reaches a destination with this outputLevel.
Passes(l, outputLevel) == xcgLevel[l] >= xcgLevel[outputLevel]

-----------------------------------------------------------------------------
Kind == {"verbose", "debug", "info", "warn", "error", "userReport", "fatal"}

\* The presets config is assigned, the logging calls the threads make, and how
\* many calls, assignments to config and failed rotations of the disk log.
ASSUME ScenariosAssumption ==
    Scenarios \subseteq [presets : SUBSET Preset, kinds : SUBSET Kind,
                         calls : Nat, changes : Nat, failures : Nat]

ASSUME BreadcrumbsAssumption == MaxBreadcrumbs \in Nat \ {0}

VARIABLES scenario, \* the bounds of this behaviour
          preset,   \* config.logLevel
          setting,  \* destinations config's didSet has still to assign
          level,    \* outputLevel of each destination
          todo,     \* for each thread: lines its call has still to log
          scan,     \* for each thread: destinations logln has still to test
          enabled,  \* for each thread: destinations logln found enabled
          steady,   \* for each thread: config untouched since its call began
          after,    \* for each call: the calls that had returned when it began
          returned, \* calls that have returned
          out,      \* for each destination: the lines it was given, in order
          crumbs,   \* Sentry's breadcrumb trail
          events,   \* Sentry's captured events
          report,   \* destinations a failed rotation has still to be logged to
          failures, \* rotations that failed so far
          changes,  \* assignments to config so far
          dead      \* fatalError has been reached

config   == <<preset, setting, level, changes>>
calls    == <<todo, scan, enabled, steady, after, returned>>
received == <<out, crumbs, events>>
rotation == <<report, failures>>
vars     == <<scenario, config, calls, received, rotation, dead>>

-----------------------------------------------------------------------------
\* In the order SteamcLog.init adds them.
Destinations == <<"sentry", "file", "system">>

LevelFor(p) == [sentry |-> remote[p], file |-> disk[p], system |-> console[p]]

\* A call's lines.  The details of an error or a fatal are a line of their own.
Detailed(k, details) == details /\ k \in {"error", "fatal"}

Line(c, k, details) ==
    [call |-> c, part |-> "message", kind |-> k, detailed |-> Detailed(k, details),
     level |-> IF k = "userReport" THEN "error" ELSE k]

DetailsLine(c, k) ==
    [call |-> c, part |-> "details", kind |-> k, detailed |-> TRUE, level |-> "info"]

\* "Unable to rotate file", logged by the disk destination itself.
RotationLine ==
    [call |-> 0, part |-> "rotation", kind |-> "rotation", detailed |-> FALSE,
     level |-> "error"]

\* Mutant of LinesOf: the details are logged after the message.
LinesMessageFirst(c, k, details) ==
    <<Line(c, k, details)>>
        \o IF Detailed(k, details) THEN <<DetailsLine(c, k)>> ELSE <<>>

\* internalError, fatal: the details first, at level info.
LinesOf(c, k, details) ==
    (IF Detailed(k, details) THEN <<DetailsLine(c, k)>> ELSE <<>>)
        \o <<Line(c, k, details)>>

\* Events carry what extraInfo returned for errors and user reports.
Extra(line) == line.kind \in {"error", "userReport"}

\* Mutant of AddBreadcrumb: the limit is tested before the line is added.
AddBreadcrumbLate(trail, line) ==
    LET longer == Append(trail, line)
    IN  IF Len(trail) > MaxBreadcrumbs THEN Tail(longer) ELSE longer

\* Breadcrumbs are a ring: the oldest goes when the limit is passed.
AddBreadcrumb(trail, line) ==
    LET longer == Append(trail, line)
    IN  IF Len(longer) > MaxBreadcrumbs THEN Tail(longer) ELSE longer

\* Mutant of Handed: lines reach a destination last in, first out.
HandedInFront(lines, line) == <<line>> \o lines

\* What a destination was given, after one more line.
Handed(lines, line) == Append(lines, line)

-----------------------------------------------------------------------------
Init ==
    /\ scenario \in Scenarios /\ preset \in scenario.presets
    /\ setting = <<>> /\ level = LevelFor(preset)
    /\ todo = [t \in Threads |-> <<>>]
    /\ scan = [t \in Threads |-> <<>>]
    /\ enabled = [t \in Threads |-> <<>>]
    /\ steady = [t \in Threads |-> TRUE]
    /\ after = <<>> /\ returned = {}
    /\ out = [d \in ToSet(Destinations) |-> <<>>]
    /\ crumbs = <<>> /\ events = {}
    /\ report = <<>> /\ failures = 0
    /\ changes = 0 /\ dead = FALSE

(* A thread calls verbose, debug, info, warn, error, userReport or fatal. *)
Call(t) ==
    /\ ~dead /\ todo[t] = <<>>
    /\ Len(after) < scenario.calls
    /\ \E k \in scenario.kinds, details \in BOOLEAN :
          todo' = [todo EXCEPT ![t] = LinesOf(Len(after) + 1, k, details)]
    /\ scan' = [scan EXCEPT ![t] = Destinations]
    /\ steady' = [steady EXCEPT ![t] = setting = <<>>]
    /\ after' = Append(after, returned)
    /\ UNCHANGED <<scenario, config, enabled, returned, received, rotation, dead>>

(* logln: destinations.filter, one destination at a time. *)
Filter(t) ==
    /\ ~dead /\ scan[t] # <<>>
    /\ LET d == Head(scan[t])
       IN  enabled' = IF Passes(Head(todo[t]).level, level[d])
                        THEN [enabled EXCEPT ![t] = Append(@, d)]
                        ELSE enabled
    /\ scan' = [scan EXCEPT ![t] = Tail(@)]
    /\ UNCHANGED <<scenario, config, todo, steady, after, returned, received, rotation, dead>>

(* SentryDestination.output: a failed rotation is a warning breadcrumb and an
   event with a fixed text; else a line of level error is an event, and then
   every line is a breadcrumb. *)
Captured(line, trail, s) ==
    [line |-> line, extra |-> Extra(line), trail |-> trail, steady |-> s]

SentryOutput(line, s) ==
    IF line.part = "rotation"
      THEN /\ crumbs' = AddBreadcrumb(crumbs, [line EXCEPT !.level = "warn"])
           /\ events' = events \cup {Captured(line, crumbs', s)}
      ELSE /\ events' = IF line.level = "error"
                          THEN events \cup {Captured(line, crumbs, s)}
                          ELSE events
           /\ crumbs' = AddBreadcrumb(crumbs, line)

Output(d, line, s) ==
    /\ out' = [out EXCEPT ![d] = Handed(@, line)]
    /\ IF d = "sentry" THEN SentryOutput(line, s) ELSE UNCHANGED <<crumbs, events>>

(* logln: process the line at the next enabled destination. *)
Deliver(t) ==
    /\ ~dead /\ scan[t] = <<>> /\ enabled[t] # <<>>
    /\ Output(Head(enabled[t]), Head(todo[t]), steady[t])
    /\ enabled' = [enabled EXCEPT ![t] = Tail(@)]
    /\ UNCHANGED <<scenario, config, todo, scan, steady, after, returned, rotation, dead>>

(* logln returns; so does the call, after its last line.  fatal traps. *)
EndLine(t) ==
    /\ ~dead /\ todo[t] # <<>> /\ scan[t] = <<>> /\ enabled[t] = <<>>
    /\ todo' = [todo EXCEPT ![t] = Tail(@)]
    /\ IF Len(todo[t]) > 1
         THEN /\ scan' = [scan EXCEPT ![t] = Destinations]
              /\ UNCHANGED <<returned, dead>>
         ELSE /\ returned' = returned \cup {Head(todo[t]).call}
              /\ dead' = (Head(todo[t]).kind = "fatal")
              /\ UNCHANGED scan
    /\ UNCHANGED <<scenario, config, enabled, steady, after, received, rotation>>

(* The disk log cannot rename its file: _logln, on the log queue. *)
RotationFails ==
    /\ ~dead /\ report = <<>>
    /\ failures < scenario.failures
    /\ failures' = failures + 1
    /\ report' = <<"sentry", "system">>   \* all but itself
    /\ UNCHANGED <<scenario, config, calls, received, dead>>

\* _logln tests and processes one destination after the other.
ReportRotation ==
    /\ ~dead /\ report # <<>>
    /\ LET d == Head(report)
       IN  IF Passes(RotationLine.level, level[d])
             THEN Output(d, RotationLine, FALSE)
             ELSE UNCHANGED received
    /\ report' = Tail(report)
    /\ UNCHANGED <<scenario, config, calls, failures, dead>>

-----------------------------------------------------------------------------
\* Mutant of DidSetOrder: the disk destination is forgotten.
DidSetWithoutDisk == <<"sentry", "system">>

\* The assignments of config's didSet, in order.
DidSetOrder == <<"sentry", "file", "system">>

(* config is assigned: the property first, then the destinations' levels.
   Assignments do not overlap: the application assigns it from one thread. *)
AssignConfig ==
    /\ ~dead /\ setting = <<>>
    /\ changes < scenario.changes
    /\ \E p \in scenario.presets \ {preset} : preset' = p
    /\ setting' = DidSetOrder
    /\ changes' = changes + 1
    /\ steady' = [t \in Threads |-> FALSE]
    /\ UNCHANGED <<scenario, level, todo, scan, enabled, after, returned, received,
                   rotation, dead>>

DidSet ==
    /\ ~dead /\ setting # <<>>
    /\ level' = [level EXCEPT ![Head(setting)] = LevelFor(preset)[Head(setting)]]
    /\ setting' = Tail(setting)
    /\ UNCHANGED <<scenario, preset, changes, calls, received, rotation, dead>>

-----------------------------------------------------------------------------
Next ==
    \/ \E t \in Threads : Call(t) \/ Filter(t) \/ Deliver(t) \/ EndLine(t)
    \/ RotationFails \/ ReportRotation
    \/ AssignConfig \/ DidSet

Spec == Init /\ [][Next]_vars

-----------------------------------------------------------------------------
(* Properties. *)

LineType == [call : 0 .. scenario.calls, part : {"details", "message", "rotation"},
             kind : Kind \cup {"rotation"}, detailed : BOOLEAN, level : LogLevel]

\* The types of the variables.
TypeOK ==
    /\ scenario \in Scenarios /\ preset \in Preset /\ setting \in Seq(ToSet(Destinations))
    /\ level \in [ToSet(Destinations) -> LogLevel]
    /\ todo \in [Threads -> Seq(LineType)]
    /\ scan \in [Threads -> Seq(ToSet(Destinations))]
    /\ enabled \in [Threads -> Seq(ToSet(Destinations))]
    /\ steady \in [Threads -> BOOLEAN]
    /\ after \in Seq(SUBSET (1 .. scenario.calls)) /\ returned \subseteq 1 .. scenario.calls
    /\ out \in [ToSet(Destinations) -> Seq(LineType)]
    /\ crumbs \in Seq(LineType) /\ Len(crumbs) <= MaxBreadcrumbs
    /\ report \in Seq(ToSet(Destinations)) /\ failures \in 0 .. scenario.failures
    /\ changes \in 0 .. scenario.changes /\ dead \in BOOLEAN

\* A line whose call met no change of config ends up at exactly the
\* destinations the preset names for its level, once at each, whatever the
\* other threads log in the meantime.
DeliveredAsConfigured ==
    [][\A t \in Threads :
          Len(todo'[t]) < Len(todo[t]) /\ steady[t]
            => \A d \in ToSet(Destinations) :
                  Cardinality({i \in DOMAIN out[d] : out[d][i] = Head(todo[t])})
                    = IF Passes(Head(todo[t]).level, LevelFor(preset)[d])
                        THEN 1 ELSE 0]_vars

\* If one call returned before another began, every destination that has a line
\* of each has them in that order: the log never contradicts the clock.
LinesInCallOrder ==
    \A d \in ToSet(Destinations) : \A i, j \in DOMAIN out[d] :
        i < j /\ out[d][i].call # 0 => out[d][j].call \notin after[out[d][i].call]

\* An error captured by Sentry has its details among the breadcrumbs taken with
\* it, or so many newer ones that they fill the trail - unless config changed
\* during the call.  Other threads' lines may come in between.
EventHasItsDetails ==
    \A e \in events :
        e.steady /\ e.line.detailed
          => \/ \E i \in DOMAIN e.trail :
                   e.trail[i].call = e.line.call /\ e.trail[i].part = "details"
             \/ Len(e.trail) = MaxBreadcrumbs

\* Config.swift: "Global log threshold, logs under this level will be ignored".
NothingUnderGlobal ==
    changes = 0 =>
        \A d \in ToSet(Destinations) : \A i \in DOMAIN out[d] :
            Passes(out[d][i].level, global[preset])

\* Config.swift: extraInfo is there "to associate with an error, called any time
\* a error/fatal/user report is logged" - when the app has been closed by fatal,
\* a fatal line that Sentry was given has its extra information on an event.
FatalHasExtraInfo ==
    dead => \A i \in DOMAIN out["sentry"] :
               out["sentry"][i].level = "fatal"
                 => \E e \in events :
                       e.line.call = out["sentry"][i].call /\ e.extra
=============================================================================
