---------------------------- MODULE CrashHandling ----------------------------
(***************************************************************************)
(* What Sentry's crash handlers do between the event that brings the       *)
(* process down and the death of the process.  A fatal log call of         *)
(* Steamclog ends here: the Sentry SDK it starts installs these handlers.  *)
(*                                                                         *)
(* Every thread that can be inside a handler is an actor with a program    *)
(* counter: the threads of the app, and the two threads that receive Mach  *)
(* exceptions.  A handler suspends the other threads, notes the crash,     *)
(* writes a report and disarms the monitors; it can fault while it does.   *)
(***************************************************************************)
EXTENDS Naturals, Sequences, FiniteSets

CONSTANTS
    AppThreads,       \* threads of the app
    Primary,          \* the thread that waits for Mach exceptions
    Secondary,        \* parked, for a crash inside the handler of Primary
    Nobody,
    Budgets           \* bounds: what may happen in one behaviour

ASSUME ActorsAssumption ==
    /\ Primary # Secondary
    /\ {Primary, Secondary} \cap AppThreads = {}
    /\ Nobody \notin AppThreads \cup {Primary, Secondary}
    /\ IsFiniteSet(AppThreads)

EventKinds == {"fault", "abort", "cpp", "objc",
               "user", "userAll", "userTerm", "userAllTerm", "snapshot"}

\* How many crashes and user reports of app threads, how many faults inside
\* handlers, and the events that app threads raise.
ASSUME BudgetsAssumption ==
    Budgets \subseteq [events : Nat, faults : Nat, kinds : SUBSET EventKinds]

Actors == AppThreads \cup {Primary, Secondary}

VARIABLES
    armed,         \* the monitors whose g_isEnabled is true
    port,          \* who gets Mach exceptions: "ours" or "previous"
    inbox,         \* faulting threads whose exception nobody received yet
    known,         \* exception threads g_primaryPThread, g_secondaryPThread name
    machBusy,      \* g_isHandlingCrash
    handling,      \* g_handlingFatalException
    crashedDuring, \* g_crashedDuringExceptionHandling
    noted,         \* the app state on disk says that this launch crashed
    lastPath,      \* g_lastCrashReportFilePath, 0 for the empty string
    nextReport,    \* g_nextUniqueID, relative to its first value
    pc, kind,      \* where each actor is, and in which handler
    susp,          \* suspend count of each actor
    todo,          \* threads the loop of suspend or resume has still to visit
    calling,       \* the thread an actor is inside thread_suspend for
    recrash,       \* context->crashedDuringCrashHandling of each actor
    path, inode,   \* report path of each actor, and the file it has open
    sender,        \* the faulting thread whose message an actor handles
    files,         \* directory of reports: <<path, extension>> to file
    content,       \* what each file holds, linked or not
    alive,         \* the process has not been killed
    sdk,           \* what the app asked last: "started", "closed", "restarted"
    events, faults, \* counts of events and of faults inside handlers
    budget         \* the bounds of this behaviour

monitorVars == <<armed, port, inbox, known, machBusy>>
flagVars    == <<handling, crashedDuring>>
actorVars   == <<pc, kind, recrash, path, inode, sender>>
threadVars  == <<susp, todo, calling>>
diskVars    == <<files, content, noted, lastPath, nextReport>>
processVars == <<alive, sdk, events, faults, budget>>

vars == <<monitorVars, flagVars, actorVars, threadVars, diskVars, processVars>>

Monitors == {"mach", "signal", "nsexc", "cpp", "user"}

\* Which monitor's g_isEnabled a handler checks, which handlers suspend the
\* environment, which announce a fatal exception, and which resume it.
UserKinds == {"user", "userAll", "userTerm", "userAllTerm"}
MonitorOf(k) ==
    CASE k = "mach" -> "mach"  [] k = "signal" -> "signal"
      [] k \in {"nsexc", "snapshot"} -> "nsexc"
      [] k \in UserKinds -> "user"
      [] OTHER -> "cpp"
Suspends(k) == k \notin {"user", "userTerm"}
Announces(k) == k \notin {"user", "userAll", "objc"}
\* Mutant: only the handlers of fatal events resume.
ResumesFatalOnly(k) == k \in {"mach", "signal", "cpp", "userAllTerm", "snapshot"}

Resumes(k) == Suspends(k) /\ k # "nsexc"

Runnable(a) == alive /\ susp[a] = 0
At(a, label) == Runnable(a) /\ pc[a] = label
Goto(a, label) == pc' = [pc EXCEPT ![a] = label]

\* Where a handler walks foreign memory or fills the report and may fault.
FaultPoints == {"informing", "opening", "embedding", "removing", "writing", "closing"}
Idle == {"app", "waiting", "parked", "gone"}

Init ==
    /\ armed = Monitors /\ port = "ours" /\ inbox = << >>
    /\ known = {Primary, Secondary} /\ machBusy = FALSE
    /\ handling = FALSE /\ crashedDuring = FALSE /\ noted = FALSE
    /\ lastPath = 0 /\ nextReport = 1
    /\ pc = [a \in Actors |-> IF a = Primary THEN "waiting"
                              ELSE IF a = Secondary THEN "parked" ELSE "app"]
    /\ kind = [a \in Actors |-> "none"]
    /\ susp = [a \in Actors |-> 0]
    /\ todo = [a \in Actors |-> {}]
    /\ calling = [a \in Actors |-> Nobody]
    /\ recrash = [a \in Actors |-> FALSE]
    /\ path = [a \in Actors |-> 0] /\ inode = [a \in Actors |-> 0]
    /\ sender = [a \in Actors |-> Nobody]
    /\ files = << >> /\ content = << >>
    /\ alive = TRUE /\ sdk = "started" /\ events = 0 /\ faults = 0
    /\ budget \in Budgets

-----------------------------------------------------------------------------
(* Events of app threads, and how the kernel and the runtimes route them.  *)

\* The kernel hands an exception to the port, or turns it into a signal.
RaiseException(a) ==
    IF port = "ours"
    THEN /\ inbox' = Append(inbox, a)
         /\ Goto(a, "blocked")
    ELSE /\ Goto(a, "signalled")
         /\ UNCHANGED inbox

Enter(a, k) == Goto(a, "entered") /\ kind' = [kind EXCEPT ![a] = k]

Event(t) ==
    /\ At(t, "app") /\ events < budget.events
    /\ events' = events + 1
    /\ \E k \in budget.kinds :
         \/ k = "fault" /\ RaiseException(t) /\ UNCHANGED kind
         \/ k = "abort" /\ Goto(t, "signalled") /\ UNCHANGED <<kind, inbox>>
         \/ /\ k \in {"cpp", "objc"} /\ "cpp" \in armed
            /\ Enter(t, k) /\ UNCHANGED inbox
         \/ /\ k \in {"cpp", "objc"} /\ "cpp" \notin armed
            /\ Goto(t, "signalled") /\ UNCHANGED <<kind, inbox>>
         \/ k \in UserKinds \cup {"snapshot"} /\ Enter(t, k) /\ UNCHANGED inbox
    /\ UNCHANGED <<armed, port, known, machBusy, flagVars, recrash, path, inode, sender,
                   threadVars, diskVars, alive, sdk, faults, budget>>

\* Delivery of a signal: our handler if it is installed, else the process dies.
TakeSignal(a) ==
    /\ At(a, "signalled")
    /\ \/ "signal" \in armed /\ Enter(a, "signal") /\ UNCHANGED alive
       \/ "signal" \notin armed /\ alive' = FALSE /\ UNCHANGED <<pc, kind>>
    /\ UNCHANGED <<monitorVars, flagVars, recrash, path, inode, sender, threadVars, diskVars,
                   sdk, events, faults, budget>>

\* mach_msg of an exception thread returns with the oldest message.
Receive(a) ==
    /\ a \in {Primary, Secondary}
    /\ At(a, "waiting") /\ inbox # << >>
    /\ Enter(a, "mach")
    /\ sender' = [sender EXCEPT ![a] = Head(inbox)]
    /\ inbox' = Tail(inbox)
    /\ UNCHANGED <<armed, port, known, machBusy, flagVars, recrash, path, inode, threadVars,
                   diskVars, processVars>>

\* A fault inside a handler.
HandlerFault(a) ==
    /\ Runnable(a) /\ pc[a] \in FaultPoints /\ faults < budget.faults
    /\ faults' = faults + 1
    /\ RaiseException(a)
    /\ UNCHANGED <<armed, port, known, machBusy, flagVars, kind, recrash, path, inode, sender,
                   threadVars, diskVars, alive, sdk, events, budget>>

-----------------------------------------------------------------------------
(* Suspending and resuming the other threads, one Mach call at a time.     *)

\* task_threads lists every thread; the exception threads are reserved.
OtherThreads(a) == AppThreads \ {a}

\* The handler checks that its monitor is enabled; the terminate handler
\* does not.
Check(a) ==
    /\ At(a, "entered")
    /\ \/ /\ MonitorOf(kind[a]) \notin armed /\ MonitorOf(kind[a]) # "cpp"
          /\ Goto(a, IF kind[a] \in UserKinds THEN "app" ELSE "leaving") /\ UNCHANGED todo
       \/ /\ MonitorOf(kind[a]) \in armed \/ MonitorOf(kind[a]) = "cpp"
          /\ IF Suspends(kind[a])
             THEN /\ Goto(a, "suspending")
                  /\ todo' = [todo EXCEPT ![a] = OtherThreads(a)]
             ELSE Goto(a, "announcing") /\ UNCHANGED todo
    /\ UNCHANGED <<monitorVars, flagVars, kind, recrash, path, inode, sender, susp, calling,
                   diskVars, processVars>>

CallSuspend(a, b) ==
    /\ At(a, "suspending") /\ calling[a] = Nobody /\ b \in todo[a]
    /\ calling' = [calling EXCEPT ![a] = b]
    /\ UNCHANGED <<monitorVars, flagVars, actorVars, susp, todo, diskVars, processVars>>

\* The call has its effect even if its caller was suspended meanwhile: a
\* thread leaves the kernel before its suspension takes hold.
DoSuspend(a) ==
    /\ alive /\ calling[a] # Nobody
    /\ susp' = [susp EXCEPT ![calling[a]] = @ + 1]
    /\ todo' = [todo EXCEPT ![a] = @ \ {calling[a]}]
    /\ calling' = [calling EXCEPT ![a] = Nobody]
    /\ UNCHANGED <<monitorVars, flagVars, actorVars, diskVars, processVars>>

Suspended(a) ==
    /\ At(a, "suspending") /\ todo[a] = {} /\ calling[a] = Nobody
    /\ machBusy' = (machBusy \/ kind[a] = "mach")
    /\ Goto(a, IF kind[a] = "objc" THEN "resuming" ELSE "announcing")
    /\ todo' = [todo EXCEPT ![a] = IF kind[a] = "objc" THEN OtherThreads(a) ELSE {}]
    /\ UNCHANGED <<armed, port, inbox, known, flagVars, kind, recrash, path, inode, sender,
                   susp, calling, diskVars, processVars>>

\* thread_resume of a thread that is not suspended fails and changes nothing.
ResumeOne(a, b) ==
    /\ At(a, "resuming") /\ b \in todo[a]
    /\ susp' = [susp EXCEPT ![b] = IF @ > 0 THEN @ - 1 ELSE 0]
    /\ todo' = [todo EXCEPT ![a] = @ \ {b}]
    /\ UNCHANGED <<monitorVars, flagVars, actorVars, calling, diskVars, processVars>>

Resumed(a) ==
    /\ At(a, "resuming") /\ todo[a] = {}
    /\ Goto(a, "leaving")
    /\ UNCHANGED <<monitorVars, flagVars, kind, recrash, path, inode, sender, threadVars,
                   diskVars, processVars>>

-----------------------------------------------------------------------------
(* Announcing the crash, and disarming the monitors.                       *)

\* setActiveMonitors(None) run by a.  Disabling the Mach monitor restores the
\* ports and stops the exception threads other than a: thread_terminate while
\* a crash is handled, otherwise pthread_cancel, which a thread inside
\* mach_msg never notices.
Disarm(a, next) ==
    LET stopped == IF "mach" \in armed THEN known \ {a} ELSE {} IN
    /\ armed' = {}
    /\ port' = IF "mach" \in armed THEN "previous" ELSE port
    /\ known' = known \ stopped
    /\ pc' = [b \in Actors |-> IF b = a THEN next
                               ELSE IF b \in stopped /\ machBusy THEN "gone" ELSE pc[b]]

\* sentrycrashcm_notifyFatalExceptionCaptured reads one flag and sets two.
Announce(a) ==
    /\ At(a, "announcing")
    /\ IF Announces(kind[a])
       THEN /\ crashedDuring' = (crashedDuring \/ handling)
            /\ Goto(a, "flagging")
       ELSE Goto(a, "informing") /\ UNCHANGED crashedDuring
    /\ UNCHANGED <<monitorVars, handling, kind, recrash, path, inode, sender, threadVars,
                   diskVars, processVars>>

Flag(a) ==
    /\ At(a, "flagging")
    /\ handling' = TRUE
    /\ LET next == IF kind[a] = "mach" THEN "activating" ELSE "informing" IN
       IF crashedDuring
       THEN Disarm(a, next)
       ELSE Goto(a, next) /\ UNCHANGED <<armed, port, known>>
    /\ UNCHANGED <<inbox, machBusy, crashedDuring, kind, recrash, path, inode, sender,
                   threadVars, diskVars, processVars>>

\* The primary exception thread restores the ports and wakes the secondary.
Activate(a) ==
    /\ At(a, "activating")
    /\ IF a = Primary /\ a \in known
       THEN /\ port' = "previous"
            /\ pc' = [pc EXCEPT ![a] = "informing",
                                ![Secondary] = IF Secondary \in known /\ @ = "parked"
                                               THEN "waiting" ELSE @]
       ELSE Goto(a, "informing") /\ UNCHANGED port
    /\ UNCHANGED <<armed, inbox, known, machBusy, flagVars, kind, recrash, path, inode, sender,
                   threadVars, diskVars, processVars>>

-----------------------------------------------------------------------------
(* sentrycrashcm_handleException, and the report.  Report n is the n-th    *)
(* path getNextCrashReportPath returned; files are numbered as created.    *)

\* Mutant: only a fatal event is noted in the app state.
BeginReportNotingFatal(a) ==
    /\ At(a, "informing")
    /\ recrash' = [recrash EXCEPT ![a] = crashedDuring]
    /\ noted' = (noted \/ Announces(kind[a]))
    /\ LET chosen == IF crashedDuring THEN lastPath ELSE nextReport IN
       /\ path' = [path EXCEPT ![a] = chosen]
       /\ lastPath' = chosen
    /\ nextReport' = IF crashedDuring THEN nextReport ELSE nextReport + 1
    /\ Goto(a, "opening")
    /\ UNCHANGED <<monitorVars, flagVars, kind, inode, sender, threadVars, files, content,
                   processVars>>

\* onCrash: note the crash in the app state, then choose the report's path.
BeginReport(a) ==
    /\ At(a, "informing")
    /\ recrash' = [recrash EXCEPT ![a] = crashedDuring]
    /\ noted' = (noted \/ kind[a] # "snapshot")
    /\ LET chosen == IF crashedDuring THEN lastPath ELSE nextReport IN
       /\ path' = [path EXCEPT ![a] = chosen]
       /\ lastPath' = chosen
    /\ nextReport' = IF crashedDuring THEN nextReport ELSE nextReport + 1
    /\ Goto(a, "opening")
    /\ UNCHANGED <<monitorVars, flagVars, kind, inode, sender, threadVars, files, content,
                   processVars>>

Json(a) == <<path[a], "json">>
Old(a)  == <<path[a], "old">>

\* Mutant: the recrash report is opened under the name in use.
OpenReportInPlace(a) ==
    /\ At(a, "opening")
    /\ IF path[a] = 0 \/ Json(a) \in DOMAIN files
       THEN Goto(a, "ending") /\ UNCHANGED <<files, content, inode>>
       ELSE /\ Goto(a, IF recrash[a] THEN "embedding" ELSE "writing")
            /\ files' = [n \in DOMAIN files \cup {Json(a)} |->
                            IF n = Json(a) THEN Len(content) + 1 ELSE files[n]]
            /\ content' = Append(content, {})
            /\ inode' = [inode EXCEPT ![a] = Len(content) + 1]
    /\ UNCHANGED <<monitorVars, flagVars, kind, recrash, path, sender, threadVars, noted,
                   lastPath, nextReport, processVars>>

\* A recrash report first moves the report that was being written aside.
\* Nothing is written if the file cannot be created.
OpenReport(a) ==
    /\ At(a, "opening")
    /\ LET renamed == IF recrash[a] /\ Json(a) \in DOMAIN files
                      THEN [n \in (DOMAIN files \ {Json(a)}) \cup {Old(a)} |->
                               files[IF n = Old(a) THEN Json(a) ELSE n]]
                      ELSE files
           new == Len(content) + 1
       IN IF path[a] = 0 \/ Json(a) \in DOMAIN renamed
          THEN /\ Goto(a, "ending")
               /\ files' = renamed
               /\ UNCHANGED <<content, inode>>
          ELSE /\ Goto(a, IF recrash[a] THEN "embedding" ELSE "writing")
               /\ files' = [n \in DOMAIN renamed \cup {Json(a)} |->
                               IF n = Json(a) THEN new ELSE renamed[n]]
               /\ content' = Append(content, {})
               /\ inode' = [inode EXCEPT ![a] = new]
    /\ UNCHANGED <<monitorVars, flagVars, kind, recrash, path, sender, threadVars, noted,
                   lastPath, nextReport, processVars>>

\* Mutant: the old report is removed before the copy is flushed.
EmbedUnflushed(a) ==
    /\ At(a, "embedding")
    /\ Goto(a, "removing")
    /\ UNCHANGED <<monitorVars, flagVars, kind, recrash, path, inode, sender, threadVars,
                   files, content, noted, lastPath, nextReport, processVars>>

\* What the first report holds is copied into the recrash report and flushed.
Embed(a) ==
    /\ At(a, "embedding")
    /\ content' = IF Old(a) \in DOMAIN files
                  THEN [content EXCEPT ![inode[a]] = @ \cup content[files[Old(a)]]]
                  ELSE content
    /\ Goto(a, "removing")
    /\ UNCHANGED <<monitorVars, flagVars, kind, recrash, path, inode, sender, threadVars,
                   files, noted, lastPath, nextReport, processVars>>

RemoveOld(a) ==
    /\ At(a, "removing")
    /\ files' = [n \in DOMAIN files \ {Old(a)} |-> files[n]]
    /\ Goto(a, "writing")
    /\ UNCHANGED <<monitorVars, flagVars, kind, recrash, path, inode, sender, threadVars,
                   content, noted, lastPath, nextReport, processVars>>

\* The report's own sections reach the file: first some, then all of them.
Write(a) ==
    /\ pc[a] \in {"writing", "closing"} /\ Runnable(a)
    /\ content' = [content EXCEPT ![inode[a]] =
                      @ \cup {<<IF pc[a] = "writing" THEN "part" ELSE "all", inode[a], kind[a]>>}]
    /\ Goto(a, IF pc[a] = "writing" THEN "closing" ELSE "ending")
    /\ UNCHANGED <<monitorVars, flagVars, kind, recrash, path, inode, sender, threadVars,
                   files, noted, lastPath, nextReport, processVars>>

\* The tail of sentrycrashcm_handleException, and g_isHandlingCrash.
End(a) ==
    /\ At(a, "ending")
    /\ LET next == IF Resumes(kind[a]) THEN "resuming" ELSE "leaving" IN
       IF kind[a] # "snapshot" /\ handling /\ ~crashedDuring
       THEN Disarm(a, next)
       ELSE Goto(a, next) /\ UNCHANGED <<armed, port, known>>
    /\ handling' = (handling /\ kind[a] # "snapshot")
    /\ machBusy' = (machBusy /\ kind[a] # "mach")
    /\ todo' = [todo EXCEPT ![a] = OtherThreads(a)]
    /\ UNCHANGED <<inbox, crashedDuring, kind, recrash, path, inode, sender, susp, calling,
                   diskVars, processVars>>

\* Mutant: the signal is not raised again.
LeaveWithoutRaise(a) ==
    /\ At(a, "leaving")
    /\ \/ kind[a] \in {"cpp", "nsexc", "userTerm", "userAllTerm"}
          /\ Goto(a, "signalled") /\ UNCHANGED kind
       \/ kind[a] \in {"signal", "user", "userAll", "snapshot"} /\ Goto(a, "app") /\ UNCHANGED kind
       \/ kind[a] = "objc" /\ "nsexc" \in armed /\ Enter(a, "nsexc")
       \/ kind[a] = "objc" /\ "nsexc" \notin armed /\ Goto(a, "signalled") /\ UNCHANGED kind
       \/ /\ kind[a] = "mach"
          /\ pc' = [pc EXCEPT ![a] = "gone", ![sender[a]] = "signalled"]
          /\ UNCHANGED kind
    /\ UNCHANGED <<monitorVars, flagVars, recrash, path, inode, sender, threadVars, diskVars,
                   processVars>>

\* Back to whoever called the handler: the app, abort(), the handler for
\* uncaught exceptions, or the kernel, which turns the exception it was not
\* relieved of into a signal for the faulting thread.
Leave(a) ==
    /\ At(a, "leaving")
    /\ \/ kind[a] \in {"signal", "cpp", "nsexc", "userTerm", "userAllTerm"}
          /\ Goto(a, "signalled") /\ UNCHANGED kind
       \/ kind[a] \in {"user", "userAll", "snapshot"} /\ Goto(a, "app") /\ UNCHANGED kind
       \/ kind[a] = "objc" /\ "nsexc" \in armed /\ Enter(a, "nsexc")
       \/ kind[a] = "objc" /\ "nsexc" \notin armed /\ Goto(a, "signalled") /\ UNCHANGED kind
       \/ /\ kind[a] = "mach"
          /\ pc' = [pc EXCEPT ![a] = "gone", ![sender[a]] = "signalled"]
          /\ UNCHANGED kind
    /\ UNCHANGED <<monitorVars, flagVars, recrash, path, inode, sender, threadVars, diskVars,
                   processVars>>

-----------------------------------------------------------------------------
(* The app closes the SDK and starts it again.                             *)

\* SentryCrashIntegration uninstall: setMonitoring(None).
CloseSDK(t) ==
    /\ At(t, "app") /\ sdk # "closed"
    /\ sdk' = "closed"
    /\ Disarm(t, "app")
    /\ UNCHANGED <<inbox, machBusy, flagVars, kind, recrash, path, inode, sender, threadVars,
                   diskVars, alive, events, faults, budget>>

\* sentrycrash_install returns at once: g_installed is still set.
StartSDK(t) ==
    /\ At(t, "app") /\ sdk = "closed"
    /\ sdk' = "restarted"
    /\ UNCHANGED <<monitorVars, flagVars, actorVars, threadVars, diskVars, alive, events,
                   faults, budget>>

-----------------------------------------------------------------------------

\* A step of code that runs by itself once it has been entered.
Step(a) ==
    \/ TakeSignal(a) \/ Receive(a) \/ Check(a)
    \/ \E b \in AppThreads : CallSuspend(a, b) \/ ResumeOne(a, b)
    \/ DoSuspend(a) \/ Suspended(a) \/ Resumed(a)
    \/ Announce(a) \/ Flag(a) \/ Activate(a)
    \/ BeginReport(a) \/ OpenReport(a) \/ Embed(a) \/ RemoveOld(a) \/ Write(a)
    \/ End(a) \/ Leave(a)

Next ==
    \/ \E a \in Actors : Step(a) \/ HandlerFault(a)
    \/ \E t \in AppThreads : Event(t) \/ CloseSDK(t) \/ StartSDK(t)

Spec == Init /\ [][Next]_vars

\* The kernel schedules every thread that can run.
FairSpec == Spec /\ \A a \in Actors : WF_vars(Step(a))

-----------------------------------------------------------------------------
(* Properties.                                                             *)

TypeOK ==
    /\ armed \subseteq Monitors /\ port \in {"ours", "previous"}
    /\ inbox \in Seq(Actors) /\ known \subseteq {Primary, Secondary}
    /\ {machBusy, handling, crashedDuring, noted, alive} \subseteq BOOLEAN
    /\ lastPath \in Nat /\ nextReport \in Nat
    /\ pc \in [Actors -> Idle \cup FaultPoints \cup
                 {"blocked", "signalled", "entered", "suspending", "announcing", "flagging",
                  "activating", "ending", "resuming", "leaving"}]
    /\ kind \in [Actors -> EventKinds \cup {"none", "mach", "signal", "nsexc"}]
    /\ susp \in [Actors -> Nat] /\ todo \in [Actors -> SUBSET AppThreads]
    /\ calling \in [Actors -> AppThreads \cup {Nobody}]
    /\ recrash \in [Actors -> BOOLEAN]
    /\ path \in [Actors -> Nat] /\ inode \in [Actors -> Nat]
    /\ sender \in [Actors -> Actors \cup {Nobody}]
    /\ sdk \in {"started", "closed", "restarted"} /\ budget \in Budgets
    /\ events \in 0..budget.events /\ faults \in 0..budget.faults

\* What can be read from the directory of reports after the process died.
OnDisk == UNION {content[files[n]] : n \in DOMAIN files}

\* Crash handling never destroys what it has written: whatever part of a
\* report has reached the disk stays readable there, in its own file, under
\* the name it was moved to, or inside the recrash report, whichever step of
\* whichever handler is the last one before the process dies.
NothingOnDiskIsLost == [][OnDisk \subseteq OnDisk']_vars

\* A report on disk comes with the note in the app state that this launch
\* crashed, so that the next launch knows; a snapshot is no crash.
ReportImpliesNoted ==
    \A item \in OnDisk : item[3] # "snapshot" => noted

\* Once no thread is inside a handler, none is left suspended: user reports
\* give the app back every thread they stopped.
NobodyLeftSuspended ==
    (\A a \in Actors : pc[a] \in Idle) => \A a \in Actors : susp[a] = 0

\* One crash while the SDK runs since launch never goes unreported: when the
\* process is dead, a complete report is on disk, also if the handler itself
\* faulted once after it had chosen a path.
LoneCrashIsReported ==
    ~alive /\ events = 1 /\ sdk = "started" /\ (faults = 0 \/ (faults = 1 /\ lastPath # 0))
    => \E item \in OnDisk : item[1] = "all"

\* A crash ends the process, however many handlers run and fault: a thread
\* that enters the handling of a fatal event is followed by the process's
\* death, or by a second event of another thread.
FatalKinds == {"signal", "cpp", "nsexc", "userTerm", "userAllTerm", "mach"}
HandlesFatal == \E a \in Actors : pc[a] = "flagging" /\ kind[a] \in FatalKinds
LoneFatalEventEndsProcess == (events = 1 /\ HandlesFatal) ~> (~alive \/ events > 1)

\* The same, whatever else happens.
FatalEventEndsProcess == HandlesFatal ~> ~alive

\* The flag for a crash inside the crash handling is set only if a second
\* crash occurred: two threads crash, or a handler faults.
RecrashMeansSecondCrash ==
    crashedDuring => faults + Cardinality({a \in Actors : kind[a] \in FatalKinds}) >= 2

\* As long as the app has the SDK started, the next crash is caught: some
\* monitor is armed, or a crash is being handled.
StartedMeansArmed == alive /\ sdk # "closed" => armed # {} \/ handling
=============================================================================
