--------------------------- MODULE MCCrashLifecycle ---------------------------
(***************************************************************************)
(* Three components that share no state, checked in one run: the app state *)
(* over launches, the monitors as they are installed and removed, and the  *)
(* store of reports.  One of them runs in a behaviour, the others stay in  *)
(* an initial state, so the run explores the sum of the three state spaces.*)
(***************************************************************************)
EXTENDS AppState

CONSTANTS FatalSignals, MaxReserved, MaxSets, MaxReportCount, IdsPerSecond, SecondsOfIds, MaxStored,
          Unconvertible

VARIABLES
    part,    \* the component that runs
    atLaunch, disposition, previous, allocated, ports, saved, primary, secondary, threads,
    reserved, installed, active, traced, asyncOnly, lives, sets, refused,
    files, clock, runs, starts, nextLow, stored, writing, phase, count, ids, outbox, client,
    delivered, inTime, disturbed, twice, interrupted

installVars == <<atLaunch, disposition, previous, allocated, ports, saved, primary, secondary,
                 threads, reserved, installed, active, traced, asyncOnly, lives, sets, refused>>
storeVars   == <<files, clock, runs, starts, nextLow, stored, writing, phase, count, ids, outbox,
                 client, delivered, inTime, disturbed, twice, interrupted>>

Install == INSTANCE MonitorInstall WITH MaxFails <- 1, enabled <- installed, alive <- lives,
                                        fails <- refused
Store == INSTANCE CrashReportStore WITH MaxReports <- MaxStored, MaxLaunches <- 2, MaxTime <- 1, now <- clock,
                                        alive <- runs, launches <- starts, reports <- stored

ASSUME PartsAssumption ==
    Install!SignalsAssumption /\ Install!BoundsAssumption /\ Store!BoundsAssumption

MCInit == /\ part \in {"state", "install", "store"}
          /\ Init /\ Install!Init /\ Store!Init
          /\ part # "install" => ~traced /\ \A s \in DOMAIN atLaunch : atLaunch[s] = "default"

RunState   == part = "state" /\ Next /\ UNCHANGED <<part, installVars, storeVars>>
RunInstall == part = "install" /\ Install!Next /\ UNCHANGED <<part, vars, storeVars>>
RunStore   == part = "store" /\ Store!Next /\ UNCHANGED <<part, vars, installVars>>
StoreSends == part = "store" /\ Store!Sending /\ UNCHANGED <<part, vars, installVars>>

MCNext == RunState \/ RunInstall \/ RunStore
MCVars == <<part, vars, installVars, storeVars>>
MCSpec == MCInit /\ [][MCNext]_MCVars /\ WF_MCVars(StoreSends)

MCSignals == <<"SIGABRT", "SIGTRAP">>
-----------------------------------------------------------------------------
\* AppState: the durations of a launch fit into those since the last crash, and a launch knows
\* of the crash before it and how many launches ago it was.
StateFileTellsTheTruth == part = "state" => LaunchWithinLastCrash /\ CrashIsKnown /\ LaunchesAreCounted

\* MonitorInstall: the exception ports are never left to a thread that does not read them,
\* and the threads that read them are never suspended by a handler.  Our signal handlers are set
\* for all signals that the app does not ignore or for none, never under a debugger, and without
\* a failing call each is given back.
MonitorsAsAsked ==
    part = "install" =>
        /\ Install!PortIsServed /\ Install!ExceptionThreadsReserved
        /\ Install!AllSignalsOrNone /\ Install!IgnoredStaysIgnored
        /\ Install!DebuggerLeftAlone /\ Install!DisabledMeansRestored

\* CrashReportStore: pruning leaves no more reports than allowed, no report is deleted that was to
\* be delivered, can be converted and was not delivered, and one is delivered again only after a
\* death.
ReportsAreKept == Store!PrunedAtLaunch /\ Store!SentBeforeDeleted /\ Store!TwiceOnlyAfterDeath
\* CrashReportStore: sending comes to an end.
SendingEnds == Store!SendingEnds

\* CrashReportStore, not kept: a crash that gets as far as writing leaves a report.
NextCrashRecorded == Store!NextCrashRecorded
=============================================================================
