------------------------------- MODULE AppState -------------------------------
(***************************************************************************)
(* Sentry's record of the app's launches, sessions and crashes, kept in a  *)
(* small file.  The next launch learns from it whether this one crashed.   *)
(* The file is truncated and written again, element by element, whenever   *)
(* the app goes to the background, terminates or crashes.                  *)
(***************************************************************************)
EXTENDS Naturals

CONSTANTS
    MaxTime,      \* bound: seconds, since the epoch, that pass
    MaxLaunches,  \* bound: launches
    MaxReports,   \* bound: user reports and restarts of the SDK
    MaxEvents,    \* bound: notifications of the system
    MaxFails      \* bound: files that can not be written to their end

ASSUME BoundsAssumption == {MaxTime, MaxLaunches, MaxReports, MaxEvents, MaxFails} \subseteq Nat

VARIABLES
    state,     \* g_state, a SentryCrash_AppState
    enabled,   \* g_isEnabled
    file,      \* the elements that the state file holds, in order, as it was written
    pc,        \* "dead", "loaded", "running", "saving", or "ending" while it saves
    ui,        \* what the system last told the app: "inactive", "active", "background"
    now,
    reports, fails, launches, events,
    \* What really happened.
    crashed, crashedBefore,   \* this launch, and the last that got as far as the monitor, crashed
    reported,                 \* this launch made a user report
    activeFor, backFor,       \* active and background time: this launch, since the last crash
    since,                    \* launches since the last crash
    unsure                    \* the file was lost, or the monitor was off, at some time

truth  == <<crashed, crashedBefore, reported, activeFor, backFor, since, unsure>>
bounds == <<now, reports, fails, launches, events>>
vars == <<state, enabled, file, pc, ui, truth, bounds>>

Zero == [activeLast |-> 0, backLast |-> 0, launches |-> 0, sessionsLast |-> 0,
         active |-> 0, back |-> 0, sessions |-> 0, crashedLast |-> FALSE,
         crashedThis |-> FALSE, since |-> 0, isActive |-> FALSE, inForeground |-> FALSE]

Elements == 6    \* version, crashedLastLaunch, two durations, two counters

\* The file holds the first n elements that are saved of s.
Written(s, n) == [n |-> n, crashedLast |-> s.crashedThis, activeLast |-> s.activeLast,
                  backLast |-> s.backLast, launches |-> s.launches, sessionsLast |-> s.sessionsLast]

\* What the decoder's callbacks set before it meets the end of a torn file stays set.
Loaded(f) == [Zero EXCEPT !.crashedLast  = f.n >= 2 /\ f.crashedLast,
                          !.activeLast   = IF f.n >= 3 THEN f.activeLast ELSE 0,
                          !.backLast     = IF f.n >= 4 THEN f.backLast ELSE 0,
                          !.launches     = IF f.n >= 5 THEN f.launches ELSE 0,
                          !.sessionsLast = IF f.n >= 6 THEN f.sessionsLast ELSE 0]

Init ==
    /\ state = Zero /\ enabled = FALSE /\ file = Written(Zero, 0)
    /\ pc = "dead" /\ ui = "inactive"
    /\ now = 1 /\ reports = 0 /\ fails = 0 /\ launches = 0 /\ events = 0
    /\ crashed = FALSE /\ crashedBefore = FALSE /\ reported = FALSE
    /\ activeFor = 0 /\ backFor = 0 /\ since = 0 /\ unsure = FALSE

-----------------------------------------------------------------------------
(* A launch, the monitor on and off.                                       *)

\* sentrycrashstate_initialize; the system may launch the app in the background.
Launch ==
    /\ pc = "dead" /\ launches < MaxLaunches
    /\ launches' = launches + 1
    /\ state' = Loaded(file)
    /\ pc' = "loaded" /\ enabled' = FALSE
    /\ ui' \in {"inactive", "background"}
    /\ crashedBefore' = crashed /\ reported' = FALSE
    /\ activeFor' = 0 /\ backFor' = IF crashed THEN 0 ELSE backFor
    /\ since' = IF crashed THEN 0 ELSE since
    /\ UNCHANGED <<file, now, reports, fails, events, crashed, unsure>>

\* Mutant: a crash of the last launch does not start the counters again.
ResetKeepingCounters(s) ==
    [s EXCEPT !.sessions = 1, !.active = 0, !.back = 0,
              !.launches = s.launches + 1, !.sessionsLast = s.sessionsLast + 1,
              !.crashedThis = FALSE, !.inForeground = TRUE]

\* sentrycrashstate_reset.
Reset(s) ==
    LET base == IF s.crashedLast
                THEN [s EXCEPT !.activeLast = 0, !.backLast = 0, !.launches = 0, !.sessionsLast = 0]
                ELSE s
    IN [base EXCEPT !.sessions = 1, !.active = 0, !.back = 0,
                    !.launches = @ + 1, !.sessionsLast = @ + 1,
                    !.crashedThis = FALSE, !.inForeground = TRUE]

\* setEnabled(true): at launch, and when the app starts the SDK again.
Enable ==
    /\ ~enabled /\ pc \in {"loaded", "running"}
    /\ enabled' = TRUE
    /\ state' = Reset(state)
    /\ since' = IF pc = "loaded" THEN since + 1 ELSE since
    /\ crashed' = (crashed /\ pc # "loaded")
    /\ pc' = "saving"
    /\ UNCHANGED <<file, ui, bounds, crashedBefore, reported, activeFor, backFor, unsure>>

Disable ==
    /\ enabled /\ pc = "running" /\ reports < MaxReports
    /\ enabled' = FALSE /\ reports' = reports + 1 /\ unsure' = TRUE
    /\ UNCHANGED <<state, file, pc, ui, now, fails, launches, events, crashed, crashedBefore, reported,
                   activeFor, backFor, since>>

-----------------------------------------------------------------------------
(* Saving the state.                                                       *)

\* Mutant: the flag that was loaded is written back.
SaveOwnFlag ==
    /\ pc \in {"saving", "ending"}
    /\ file' = [Written(state, Elements) EXCEPT !.crashedLast = state.crashedLast]
    /\ UNCHANGED <<fails, unsure>>
    /\ pc' = IF pc = "saving" THEN "running" ELSE "dead"
    /\ UNCHANGED <<state, enabled, ui, now, reports, launches, events, crashed, crashedBefore, reported,
                   activeFor, backFor, since>>

\* saveState: the file is truncated, then written.  It stays as it was if it can not be
\* opened, and ends where a write fails.
SaveFails ==
    /\ fails < MaxFails /\ fails' = fails + 1
    /\ unsure' = TRUE
    /\ file' \in {file} \cup {Written(state, n) : n \in 0..Elements - 1}

Save ==
    /\ pc \in {"saving", "ending"}
    /\ SaveFails \/ (file' = Written(state, Elements) /\ UNCHANGED <<fails, unsure>>)
    /\ pc' = IF pc = "saving" THEN "running" ELSE "dead"
    /\ UNCHANGED <<state, enabled, ui, now, reports, launches, events, crashed, crashedBefore, reported,
                   activeFor, backFor, since>>

\* The process is killed: in the middle of a save the file is the old one, torn, or whole.
Kill ==
    /\ pc # "dead"
    /\ pc' = "dead"
    /\ \/ pc \notin {"saving", "ending"} /\ UNCHANGED <<file, fails, unsure>>
       \/ /\ pc \in {"saving", "ending"} /\ fails < MaxFails /\ fails' = fails + 1
          /\ unsure' = TRUE
          /\ file' \in {file} \cup {Written(state, n) : n \in 0..Elements}
    /\ UNCHANGED <<state, enabled, ui, now, reports, launches, events, crashed, crashedBefore, reported,
                   activeFor, backFor, since>>

-----------------------------------------------------------------------------
(* What the system tells the app.  appStateTransitionTime is state.since.  *)

Told(next, s, then) ==
    /\ pc = "running" /\ events < MaxEvents
    /\ ui' = next /\ events' = events + 1
    /\ IF enabled THEN state' = s /\ pc' = then ELSE UNCHANGED <<state, pc>>
    /\ UNCHANGED <<enabled, file, now, reports, fails, launches, truth>>

BecomeActive ==
    /\ ui = "inactive"
    /\ Told("active", [state EXCEPT !.isActive = TRUE, !.since = now], "running")

\* Mutant: the time is added to the launch alone.
ResignActiveThisLaunch ==
    /\ ui = "active"
    /\ Told("inactive", [state EXCEPT !.isActive = FALSE, !.active = @ + (now - state.since)], "running")

ResignActive ==
    /\ ui = "active"
    /\ Told("inactive", [state EXCEPT !.isActive = FALSE, !.active = @ + (now - state.since),
                                      !.activeLast = @ + (now - state.since)], "running")

EnterBackground ==
    /\ ui = "inactive"
    /\ Told("background", [state EXCEPT !.inForeground = FALSE, !.since = now], "saving")

\* Mutant: a session since launch is not one since the last crash.
EnterForegroundThisLaunch ==
    /\ ui = "background"
    /\ Told("inactive", [state EXCEPT !.inForeground = TRUE, !.back = @ + (now - state.since),
                                      !.backLast = @ + (now - state.since),
                                      !.sessions = @ + 1], "running")

EnterForeground ==
    /\ ui = "background"
    /\ Told("inactive", [state EXCEPT !.inForeground = TRUE, !.back = @ + (now - state.since),
                                      !.backLast = @ + (now - state.since),
                                      !.sessions = @ + 1, !.sessionsLast = @ + 1], "running")

\* Mutant: the times are subtracted the wrong way round.
TerminateSwapped ==
    /\ Told(ui, [state EXCEPT !.backLast = @ + (state.since - now)], "ending")

Terminate ==
    /\ Told(ui, [state EXCEPT !.backLast = @ + (now - state.since)], "ending")

\* Mutant: the crash is not kept.
NotedUnmarked ==
    LET spent == now - state.since IN
    IF state.isActive THEN [state EXCEPT !.active = @ + spent, !.activeLast = @ + spent]
    ELSE IF ~state.inForeground THEN [state EXCEPT !.back = @ + spent, !.backLast = @ + spent]
    ELSE state

\* notifyAppCrash: for a crash, and for a user report.
Noted ==
    LET spent == now - state.since
        marked == [state EXCEPT !.crashedThis = TRUE]
    IN IF state.isActive THEN [marked EXCEPT !.active = @ + spent, !.activeLast = @ + spent]
       ELSE IF ~state.inForeground THEN [marked EXCEPT !.back = @ + spent, !.backLast = @ + spent]
       ELSE marked

\* A crash, which may come while another thread saves.
Crash ==
    /\ pc \in {"running", "saving"}
    /\ crashed' = TRUE
    /\ IF enabled THEN state' = Noted /\ pc' = "ending"
                  ELSE UNCHANGED state /\ pc' = "dead"
    /\ UNCHANGED <<enabled, file, ui, bounds, crashedBefore, reported, activeFor, backFor, since,
                   unsure>>

UserReport ==
    /\ pc = "running" /\ enabled /\ reports < MaxReports
    /\ reports' = reports + 1 /\ reported' = TRUE
    /\ state' = Noted
    /\ pc' = "saving"
    /\ UNCHANGED <<enabled, file, ui, now, fails, launches, events, crashed, crashedBefore, activeFor,
                   backFor, since, unsure>>

Tick ==
    /\ now < MaxTime /\ now' = now + 1
    /\ activeFor' = IF pc \notin {"dead", "loaded"} /\ ui = "active" THEN activeFor + 1 ELSE activeFor
    /\ backFor' = IF pc \notin {"dead", "loaded"} /\ ui = "background" THEN backFor + 1 ELSE backFor
    /\ UNCHANGED <<state, enabled, file, pc, ui, reports, fails, launches, events, crashed, crashedBefore,
                   reported, since, unsure>>

Next ==
    \/ Launch \/ Enable \/ Disable \/ Save \/ Kill
    \/ BecomeActive \/ ResignActive \/ EnterBackground \/ EnterForeground \/ Terminate
    \/ Crash \/ UserReport \/ Tick

Spec == Init /\ [][Next]_vars

-----------------------------------------------------------------------------
(* Properties.                                                             *)

States == [activeLast : Nat, backLast : Nat, launches : Nat, sessionsLast : Nat,
           active : Nat, back : Nat, sessions : Nat, crashedLast : BOOLEAN,
           crashedThis : BOOLEAN, since : Nat, isActive : BOOLEAN, inForeground : BOOLEAN]

TypeOK ==
    /\ state \in States
    /\ file \in [n : 0..Elements, crashedLast : BOOLEAN, activeLast : Nat, backLast : Nat,
                 launches : Nat, sessionsLast : Nat]
    /\ pc \in {"dead", "loaded", "running", "saving", "ending"}
    /\ ui \in {"inactive", "active", "background"}
    /\ {enabled, crashed, crashedBefore, reported, unsure} \subseteq BOOLEAN
    /\ {now, reports, fails, launches, events, activeFor, backFor, since} \subseteq Nat
    /\ state.since <= now

\* What is counted since launch is part of what is counted since the last
\* crash, whatever torn file the launch began with.
LaunchWithinLastCrash ==
    pc \in {"running", "saving", "ending"} =>
        /\ state.sessions <= state.sessionsLast
        /\ state.active <= state.activeLast
        /\ state.back <= state.backLast

\* A crash is known to the next launch, as long as the file was never torn
\* and the monitor was on.
CrashIsKnown ==
    ~unsure /\ pc \in {"loaded", "running"} /\ crashedBefore => state.crashedLast

\* Without reports of the user, the launches since the last crash are right then.
LaunchesAreCounted ==
    ~unsure /\ pc \in {"running", "saving"} /\ reports = 0 => state.launches = since

(* What the code does not keep. *)

\* A launch that is told that the last one crashed was preceded by a crash: or by a user's report.
CrashedLastMeansCrashed ==
    state.crashedLast /\ pc # "dead" => crashedBefore

\* The active time since launch is time that the app was active.
ActiveTimeIsActive == state.active <= activeFor

\* The background time is time that the app was in the background.
BackgroundTimeIsBackground == pc # "dead" => state.backLast <= backFor
=============================================================================
