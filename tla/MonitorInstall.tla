--------------------------- MODULE MonitorInstall ---------------------------
(***************************************************************************)
(* Installing and removing Sentry's crash monitors: what a call to         *)
(* sentrycrashcm_setActiveMonitors does to the process's signal handlers,  *)
(* exception ports and exception threads, when the system calls it makes   *)
(* succeed and when one of them fails.                                     *)
(***************************************************************************)
EXTENDS Naturals, Sequences, FiniteSets

CONSTANTS
    FatalSignals,   \* the signals of sentrycrashsignal_fatalSignals, in order
    MaxReserved,    \* places in g_reservedThreads
    MaxSets,        \* bound: calls of setActiveMonitors
    MaxFails        \* bound: system calls that fail

SignalsAssumption ==
    /\ FatalSignals \in Seq(STRING)
    /\ \A i, j \in 1..Len(FatalSignals) : FatalSignals[i] = FatalSignals[j] => i = j

BoundsAssumption == {MaxReserved, MaxSets, MaxFails} \subseteq Nat

Signals == {FatalSignals[i] : i \in 1..Len(FatalSignals)}

Types == {"mach", "signal", "zombie", "user"}
DebuggerUnsafe == {"mach", "signal"}
AsyncSafe == {"mach", "signal"}

VARIABLES
    atLaunch,      \* how the app treats each signal before any monitor
    disposition,   \* how the process treats each signal
    previous,      \* g_previousSignalHandlers; "unread" where malloc left it
    allocated,     \* g_previousSignalHandlers is not NULL
    ports,         \* who gets the task's exceptions: "app" or "ours"
    saved,         \* g_previousExceptionPorts.count is not 0
    primary,       \* number of the primary exception thread, 0 if there is none
    secondary,     \* number of the secondary exception thread
    threads,       \* exception threads created so far
    reserved,      \* g_reservedThreads
    enabled,       \* monitors whose g_isEnabled is true
    active,        \* g_activeMonitors
    traced,        \* a debugger is attached
    asyncOnly,     \* g_requiresAsyncSafety
    alive, sets, fails

signalVars == <<disposition, previous, allocated>>
machVars   == <<ports, saved, primary, secondary, threads, reserved>>
vars == <<atLaunch, signalVars, machVars, enabled, active, traced, asyncOnly, alive, sets, fails>>

Init ==
    /\ atLaunch \in [Signals -> {"default", "ignore", "handler"}]
    /\ disposition = atLaunch
    /\ previous = [s \in Signals |-> "unread"] /\ allocated = FALSE
    /\ ports = "app" /\ saved = FALSE
    /\ primary = 0 /\ secondary = 0 /\ threads = 0 /\ reserved = {}
    /\ enabled = {} /\ active = {}
    /\ traced \in BOOLEAN /\ asyncOnly = FALSE
    /\ alive = TRUE /\ sets = 0 /\ fails = 0

-----------------------------------------------------------------------------
(* The signal monitor.  A plan says which system call of an installation   *)
(* fails: 0 is sigaltstack, i the i-th sigaction, one more means none.     *)

NoFailure == Len(FatalSignals) + 1
Position(s) == CHOOSE i \in 1..Len(FatalSignals) : FatalSignals[i] = s

\* Mutant: a signal that the app ignored is taken like the others.
TakenAlways(s) == "ours"

\* A signal that the app ignored is given back to it at once.
Taken(s) == IF disposition[s] = "ignore" THEN "ignore" ELSE "ours"

\* Mutant: the damage of a failed installation is not reversed.
SignalsAfterInstallIrreversible(plan) ==
    [s \in Signals |-> IF Position(s) < plan THEN Taken(s) ELSE disposition[s]]

\* When a sigaction fails, the handlers set before it are reversed.
SignalsAfterInstall(plan) ==
    [s \in Signals |-> IF plan = NoFailure THEN Taken(s) ELSE disposition[s]]

\* Mutant: the handlers are saved after they were replaced.
InstallSignalsSavingLate(plan) ==
    /\ disposition' = SignalsAfterInstall(plan)
    /\ previous' = [s \in Signals |-> IF Position(s) < plan THEN disposition'[s] ELSE previous[s]]
    /\ allocated' = (allocated \/ plan > 0)

InstallSignals(plan) ==
    /\ disposition' = SignalsAfterInstall(plan)
    /\ previous' = [s \in Signals |-> IF Position(s) < plan THEN disposition[s] ELSE previous[s]]
    /\ allocated' = (allocated \/ plan > 0)

\* Mutant: what was not ignored goes back to the default action.
UninstallSignalsToDefault ==
    /\ disposition' = [s \in Signals |-> IF previous[s] = "ignore" THEN "ignore" ELSE "default"]
    /\ UNCHANGED <<previous, allocated>>

\* Every handler is set to what was saved, saved or not; without the array
\* the loop reads through a null pointer.
UninstallSignals ==
    /\ disposition' = IF allocated THEN previous ELSE disposition
    /\ UNCHANGED <<previous, allocated>>

SignalMonitor(want, plan) ==
    \/ want = ("signal" \in enabled) /\ UNCHANGED signalVars
    \/ want /\ "signal" \notin enabled /\ InstallSignals(plan)
    \/ ~want /\ "signal" \in enabled /\ UninstallSignals

-----------------------------------------------------------------------------
(* The Mach monitor.  The steps that can fail, in order.                   *)

MachSteps == <<"getPorts", "allocate", "setPorts", "secondary", "primary", "none">>
Reaches(plan, step) ==
    \E i, j \in DOMAIN MachSteps : MachSteps[i] = step /\ MachSteps[j] = plan /\ i < j

\* Mutant: off by one, the last place is never used.
ReserveButLast(list, t) == IF Cardinality(list) < MaxReserved - 1 THEN list \cup {t} ELSE list

\* g_reservedThreads is never emptied; a thread that does not fit is dropped.
Reserve(list, t) == IF Cardinality(list) < MaxReserved THEN list \cup {t} ELSE list

\* Mutant: the ports are left as they are when no thread listens yet.
PortsAfterUninstallLate(were) == IF primary = 0 THEN were ELSE "app"

\* restoreExceptionPorts, for ports that are set: it needs a saved count.
PortsAfterUninstall(were) == IF were = "ours" THEN "app" ELSE were

\* uninstallExceptionHandler puts the ports back and forgets both threads.
UninstallMach(were) ==
    /\ ports' = PortsAfterUninstall(were) /\ saved' = FALSE
    /\ primary' = 0 /\ secondary' = 0

InstallMach(plan) ==
    /\ threads' = threads + (IF plan = "none" THEN 2 ELSE IF Reaches(plan, "secondary") THEN 1 ELSE 0)
    /\ LET second == threads + 1
           first  == threads + 2
           withSecond == IF Reaches(plan, "secondary") THEN Reserve(reserved, second) ELSE reserved
       IN /\ reserved' = IF plan = "none" THEN Reserve(withSecond, first) ELSE withSecond
          /\ IF plan = "none"
             THEN /\ ports' = "ours" /\ saved' = TRUE
                  /\ primary' = first /\ secondary' = second
             ELSE UninstallMach(IF Reaches(plan, "setPorts") THEN "ours" ELSE ports)

MachMonitor(want, plan) ==
    \/ want = ("mach" \in enabled) /\ UNCHANGED machVars
    \/ want /\ "mach" \notin enabled /\ InstallMach(plan)
    \/ ~want /\ "mach" \in enabled /\ UninstallMach(ports) /\ UNCHANGED <<threads, reserved>>

-----------------------------------------------------------------------------
(* The set of active monitors.                                             *)

\* Mutant: the debugger is not asked.
MaskedAsyncOnly(types) == types \ (IF asyncOnly THEN Types \ AsyncSafe ELSE {})

\* Monitors that may not be used under a debugger, or once an async-safe
\* handler has run, are masked out of the request.
Masked(types) ==
    types \ ((IF traced THEN DebuggerUnsafe ELSE {}) \cup (IF asyncOnly THEN Types \ AsyncSafe ELSE {}))

\* Every monitor sets its flag before it installs anything and keeps it if
\* that fails; the zombie monitor can not be disabled.
SetActiveMonitors(types, signalPlan, machPlan) ==
    LET want == Masked(types)
        failures == (IF signalPlan # NoFailure /\ "signal" \in want \ enabled THEN 1 ELSE 0)
                  + (IF machPlan # "none" /\ "mach" \in want \ enabled THEN 1 ELSE 0)
    IN /\ alive /\ sets < MaxSets /\ fails + failures <= MaxFails
       /\ sets' = sets + 1 /\ fails' = fails + failures
       /\ SignalMonitor("signal" \in want, signalPlan)
       /\ MachMonitor("mach" \in want, machPlan)
       /\ enabled' = want \cup (enabled \cap {"zombie"})
       /\ active' = enabled'
       /\ alive' = ~("signal" \in enabled \ want /\ ~allocated)
       /\ UNCHANGED <<atLaunch, traced, asyncOnly>>

\* A Mach exception arrives and is handled: the primary thread puts the ports back before
\* it reports, and from now on only async-safe monitors may be set.
Captured ==
    /\ alive /\ ports = "ours"
    /\ asyncOnly' = TRUE
    /\ ports' = PortsAfterUninstall(ports) /\ saved' = FALSE
    /\ UNCHANGED <<atLaunch, signalVars, primary, secondary, threads, reserved,
                   enabled, active, traced, alive, sets, fails>>

Next ==
    \/ Captured
    \/ \E types \in SUBSET Types, signalPlan \in 0..NoFailure,
          machPlan \in {MachSteps[i] : i \in DOMAIN MachSteps} :
          SetActiveMonitors(types, signalPlan, machPlan)

Spec == Init /\ [][Next]_vars

-----------------------------------------------------------------------------
(* Properties.                                                             *)

Dispositions == {"default", "ignore", "handler", "ours", "unread"}

TypeOK ==
    /\ atLaunch \in [Signals -> {"default", "ignore", "handler"}]
    /\ disposition \in [Signals -> Dispositions]
    /\ previous \in [Signals -> Dispositions \ {"ours"}]
    /\ ports \in {"app", "ours"} /\ {allocated, saved, traced, asyncOnly, alive} \subseteq BOOLEAN
    /\ primary \in Nat /\ secondary \in Nat /\ threads \in Nat /\ reserved \in SUBSET Nat
    /\ enabled \in SUBSET Types /\ active \in SUBSET Types
    /\ sets \in 0..MaxSets /\ fails \in 0..MaxFails

\* Exceptions never go to a port that no thread reads: a thread that faults
\* then would hang instead of crashing, whichever step of the installation
\* failed.
PortIsServed == ports = "ours" => primary # 0 /\ secondary # 0

\* Our handler is set for every signal the app did not ignore or for none,
\* and only while the monitor is on: a failed installation leaves none behind.
AllSignalsOrNone ==
    (\E s \in Signals : disposition[s] = "ours") =>
        /\ "signal" \in enabled
        /\ \A r \in Signals : previous[r] # "ignore" => disposition[r] = "ours"

\* A signal the app ignores is never turned into a crash.
IgnoredStaysIgnored ==
    \A s \in Signals : fails = 0 /\ atLaunch[s] = "ignore" => disposition[s] = "ignore"

\* As long as no system call fails, disabling the signal monitor gives every
\* signal back as it was before the first installation.
DisabledMeansRestored ==
    fails = 0 /\ "signal" \notin enabled => disposition = atLaunch

\* The same, whatever fails on the way.
AlwaysRestored ==
    "signal" \notin enabled => disposition = atLaunch

\* The monitors that are reported as active are those that were installed.
ActiveMeansInstalled ==
    /\ "mach" \in active => ports = "ours"
    /\ "signal" \in active => \E s \in Signals : disposition[s] = "ours" \/ atLaunch[s] = "ignore"

\* Exception threads are never suspended by a handler: both are reserved, for
\* as long as the list of reserved threads has had room for all of them.
ExceptionThreadsReserved ==
    threads <= MaxReserved /\ primary # 0 => {primary, secondary} \subseteq reserved

\* Under a debugger, no monitor that would get in its way is installed.
DebuggerLeftAlone == traced => ports = "app" /\ disposition = atLaunch
=============================================================================
