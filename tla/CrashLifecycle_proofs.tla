------------------------ MODULE CrashLifecycle_proofs ------------------------
(***************************************************************************)
(* What is proved of the crash reporter over launches: that the state file *)
(* tells a launch of the crash before it, that the monitors take and give  *)
(* back signals and exception ports as asked, and that the store keeps the *)
(* reports until they are delivered.                                       *)
(***************************************************************************)
EXTENDS MCCrashLifecycle, Integers, Sequences, FiniteSetTheorems, SequenceTheorems, TLAPS

-----------------------------------------------------------------------------
(* AppState: the inductive invariant.                                      *)

\* What a launch now would learn from the file.
FileCrashed  == Loaded(file).crashedLast
FileLaunches == Loaded(file).launches

\* A crash is on its way to the next launch: in the state while it is saved, in the file after
\* that, and in the state of the launch that has read it.
CrashOnItsWay ==
    /\ pc \in {"running", "saving"} => ~crashed
    /\ ~unsure =>
         /\ pc \in {"running", "saving", "ending"} => enabled
         /\ pc \in {"dead", "loaded"} /\ crashed => FileCrashed
         /\ pc = "ending" /\ crashed => state.crashedThis
         /\ pc # "dead" /\ crashedBefore => state.crashedLast

\* The counter of launches is right wherever the next launch finds it.  Where the process may be
\* killed without a tear the file holds it already.
CountOnItsWay ==
    ~unsure /\ reports = 0 =>
        /\ pc \in {"dead", "loaded"} /\ ~crashed => ~FileCrashed /\ FileLaunches = since
        /\ pc = "loaded" => IF state.crashedLast THEN since = 0 ELSE state.launches = since
        /\ pc \in {"running", "saving", "ending"} => state.launches = since
        /\ pc \in {"running", "saving", "ending"} /\ ~crashed => ~state.crashedThis
        /\ pc = "running" => ~FileCrashed /\ FileLaunches = since

\* Field by field, as the solver knows a record better than a set of records.
IsState(s) ==
    /\ DOMAIN s = {"activeLast", "backLast", "launches", "sessionsLast", "active", "back",
                   "sessions", "crashedLast", "crashedThis", "since", "isActive", "inForeground"}
    /\ s.activeLast \in Nat /\ s.backLast \in Nat /\ s.launches \in Nat /\ s.sessionsLast \in Nat
    /\ s.active \in Nat /\ s.back \in Nat /\ s.sessions \in Nat /\ s.since \in Nat
    /\ s.crashedLast \in BOOLEAN /\ s.crashedThis \in BOOLEAN
    /\ s.isActive \in BOOLEAN /\ s.inForeground \in BOOLEAN

StateTyped ==
    /\ IsState(state) /\ state.since <= now
    /\ file.n \in 0..Elements /\ file.crashedLast \in BOOLEAN
    /\ file.activeLast \in Nat /\ file.backLast \in Nat
    /\ file.launches \in Nat /\ file.sessionsLast \in Nat
    /\ pc \in {"dead", "loaded", "running", "saving", "ending"}
    /\ ui \in {"inactive", "active", "background"}
    /\ crashed \in BOOLEAN /\ crashedBefore \in BOOLEAN /\ unsure \in BOOLEAN
    /\ now \in Nat /\ reports \in Nat /\ since \in Nat

StateInv == StateTyped /\ LaunchWithinLastCrash /\ CrashOnItsWay /\ CountOnItsWay

-----------------------------------------------------------------------------
(* MonitorInstall: the inductive invariant.                                *)

\* As long as nothing fails, what the monitor took it has noted.
TakenIsNoted ==
    disposition = IF "signal" \in installed
                  THEN [s \in Install!Signals |-> IF atLaunch[s] = "ignore" THEN "ignore" ELSE "ours"]
                  ELSE atLaunch

HandlersInv ==
    /\ Install!AllSignalsOrNone
    /\ \A s \in Install!Signals : disposition[s] = "ours" => allocated
    /\ traced => disposition = atLaunch
    /\ refused = 0 => TakenIsNoted
    /\ refused = 0 /\ "signal" \in installed => allocated /\ previous = atLaunch

PortsInv ==
    /\ Install!PortIsServed
    /\ Install!ExceptionThreadsReserved
    /\ traced => ports = "app"
    /\ reserved \subseteq 1..threads
    /\ traced => installed \cap {"mach", "signal"} = {}

-----------------------------------------------------------------------------
(* AppState: proofs.                                                       *)

\* The state of an app that was never launched satisfies the invariant.
LEMMA StateStarts == Init => StateInv
<1> SUFFICES ASSUME Init PROVE StateInv
  OBVIOUS
<1>1. StateTyped
  <2>1. IsState(Zero) /\ Zero.since = 0
    BY DEF IsState, Zero
  <2>2. /\ file.n \in 0..Elements /\ file.crashedLast \in BOOLEAN
        /\ file.activeLast \in Nat /\ file.backLast \in Nat
        /\ file.launches \in Nat /\ file.sessionsLast \in Nat
    BY DEF Init, Zero, Written, Elements
  <2>3. IsState(state) /\ state.since <= now
    BY <2>1 DEF Init
  <2>4. /\ crashed \in BOOLEAN /\ crashedBefore \in BOOLEAN /\ unsure \in BOOLEAN
        /\ now \in Nat /\ reports \in Nat /\ since \in Nat
    BY DEF Init
  <2>5. /\ pc \in {"dead", "loaded", "running", "saving", "ending"}
        /\ ui \in {"inactive", "active", "background"}
    BY DEF Init
  <2> QED
    BY <2>2, <2>3, <2>4, <2>5 DEF StateTyped
<1>2. CrashOnItsWay /\ LaunchWithinLastCrash
  BY DEF Init, CrashOnItsWay, LaunchWithinLastCrash
<1>3. ~FileCrashed /\ FileLaunches = 0
  BY DEF Init, FileCrashed, FileLaunches, Loaded, Zero, Written
<1>4. CountOnItsWay
  BY <1>3 DEF Init, CountOnItsWay
<1> QED
  BY <1>1, <1>2, <1>4 DEF StateInv

\* What a launch reads is a state, whatever the file holds.
LEMMA LoadedIsState ==
  ASSUME StateInv
  PROVE  /\ IsState(Loaded(file))
         /\ Loaded(file).since = 0
BY DEF StateInv, StateTyped, IsState, Loaded, Zero, Elements

\* A launch reads what the file tells, or starts anew when it can not be read.
LEMMA LaunchKeeps == StateInv /\ Launch => StateInv'
<1> SUFFICES ASSUME StateInv, Launch PROVE StateInv'
  OBVIOUS
<1> USE DEF StateInv
<1>1. StateTyped'
  BY LoadedIsState DEF Launch, StateTyped
<1>2. LaunchWithinLastCrash'
  BY DEF Launch, LaunchWithinLastCrash
<1>3. CrashOnItsWay'
  BY DEF Launch, CrashOnItsWay, FileCrashed
<1>4. CountOnItsWay'
  <2>1. FileCrashed' = FileCrashed /\ FileLaunches' = FileLaunches
    BY DEF Launch, FileCrashed, FileLaunches
  <2> SUFFICES ASSUME ~unsure, reports = 0
               PROVE  CountOnItsWay'
    BY DEF Launch, CountOnItsWay
  <2>2. CASE crashed
    BY <2>2 DEF Launch, CountOnItsWay, CrashOnItsWay, FileCrashed
  <2>3. CASE ~crashed
    BY <2>1, <2>3 DEF Launch, CountOnItsWay, FileCrashed, FileLaunches
  <2> QED
    BY <2>2, <2>3 DEF StateTyped
<1> QED
  BY <1>1, <1>2, <1>3, <1>4

\* What a launch makes of the values it read is a state again.
LEMMA ResetIsState ==
  ASSUME NEW s, IsState(s)
  PROVE  /\ IsState(Reset(s))
         /\ Reset(s).sessions = 1 /\ Reset(s).sessionsLast >= 1
         /\ Reset(s).active = 0 /\ Reset(s).back = 0
         /\ Reset(s).since = s.since
         /\ Reset(s).crashedLast = s.crashedLast
         /\ Reset(s).crashedThis = FALSE
         /\ Reset(s).launches = (IF s.crashedLast THEN 0 ELSE s.launches) + 1
<1>1. CASE s.crashedLast
  <2> DEFINE base == [s EXCEPT !.activeLast = 0, !.backLast = 0, !.launches = 0, !.sessionsLast = 0]
  <2>1. /\ IsState(base) /\ base.sessionsLast = 0 /\ base.launches = 0
        /\ base.since = s.since /\ base.crashedLast = s.crashedLast
    BY DEF IsState
  <2>2. Reset(s) = [base EXCEPT !.sessions = 1, !.active = 0, !.back = 0,
                                !.launches = @ + 1, !.sessionsLast = @ + 1,
                                !.crashedThis = FALSE, !.inForeground = TRUE]
    BY <1>1 DEF Reset
  <2> HIDE DEF base
  <2>3. /\ Reset(s).sessions = 1 /\ Reset(s).sessionsLast = 1 /\ Reset(s).launches = 1
        /\ Reset(s).active = 0 /\ Reset(s).back = 0 /\ Reset(s).crashedThis = FALSE
        /\ Reset(s).since = base.since /\ Reset(s).crashedLast = base.crashedLast
    BY <2>1, <2>2 DEF IsState
  <2>4. IsState(Reset(s))
    BY <2>1, <2>2 DEF IsState
  <2> QED
    BY <1>1, <2>1, <2>3, <2>4
<1>2. CASE ~s.crashedLast
  BY <1>2 DEF IsState, Reset
<1> QED
  BY <1>1, <1>2

\* Enabling the monitor takes the crash of the launch before into this one, and saves the file.
LEMMA EnableKeeps == StateInv /\ Enable => StateInv'
<1> SUFFICES ASSUME StateInv, Enable PROVE StateInv'
  OBVIOUS
<1> USE DEF StateInv
<1>0. IsState(state)
  BY DEF StateTyped
<1> DEFINE r == Reset(state)
<1>r. /\ IsState(r)
      /\ r.sessions = 1 /\ r.sessionsLast >= 1 /\ r.active = 0 /\ r.back = 0
      /\ r.since = state.since /\ r.crashedLast = state.crashedLast
      /\ r.crashedThis = FALSE
      /\ r.launches = (IF state.crashedLast THEN 0 ELSE state.launches) + 1
  BY <1>0, ResetIsState
<1>s. state' = r
  BY DEF Enable
<1> HIDE DEF r
<1>1. StateTyped'
  BY <1>r, <1>s DEF Enable, StateTyped, bounds
<1>2. LaunchWithinLastCrash'
  <2>1. r.activeLast \in Nat /\ r.backLast \in Nat
    BY <1>r DEF IsState
  <2> QED
    BY <1>r, <1>s, <2>1 DEF LaunchWithinLastCrash
<1>3. CrashOnItsWay'
  BY <1>r, <1>s DEF Enable, CrashOnItsWay
<1>4. CountOnItsWay'
  <2> SUFFICES ASSUME ~unsure, reports = 0
               PROVE  CountOnItsWay'
    BY DEF Enable, CountOnItsWay, bounds
  <2>1. pc = "loaded"
    BY DEF Enable, CrashOnItsWay
  <2>2. since \in Nat /\ state.launches \in Nat /\ since' = since + 1
    BY <2>1 DEF Enable, StateTyped, IsState
  <2>3. r.launches = since'
    BY <1>r, <2>1, <2>2 DEF CountOnItsWay
  <2> QED
    BY <1>r, <1>s, <2>3 DEF Enable, CountOnItsWay
<1> QED
  BY <1>1, <1>2, <1>3, <1>4

\* Disabling the monitor leaves state and file as they are.
LEMMA DisableKeeps == StateInv /\ Disable => StateInv'
BY DEF StateInv, Disable, StateTyped, LaunchWithinLastCrash, CrashOnItsWay, CountOnItsWay

\* A save to the end hands on whether this launch crashed and how many there were.
LEMMA SavedToTheEnd ==
  ASSUME NEW s, IsState(s)
  PROVE  /\ Loaded(Written(s, Elements)).crashedLast = s.crashedThis
         /\ Loaded(Written(s, Elements)).launches = s.launches
BY DEF Loaded, Written, Elements, Zero, IsState

\* A save hands on what the next launch must know, unless it is torn.
LEMMA SaveKeeps == StateInv /\ Save => StateInv'
<1> SUFFICES ASSUME StateInv, Save PROVE StateInv'
  OBVIOUS
<1> USE DEF StateInv
<1>1. /\ UNCHANGED <<state, enabled, ui, now, reports, launches, events, crashed, crashedBefore,
                     reported, activeFor, backFor, since>>
      /\ pc \in {"saving", "ending"} /\ pc' = IF pc = "saving" THEN "running" ELSE "dead"
  BY DEF Save
<1>2. LaunchWithinLastCrash'
  BY <1>1 DEF LaunchWithinLastCrash
<1>3. CASE SaveFails
  <2>1. unsure' /\ fails' = fails + 1
    BY <1>3 DEF SaveFails
  <2>2. StateTyped'
    <3>1. file' = file \/ \E n \in 0..Elements : file' = Written(state, n)
      BY <1>3 DEF SaveFails, Elements
    <3> QED
      BY <1>1, <2>1, <3>1 DEF StateTyped, IsState, Written, Elements
  <2>3. CrashOnItsWay' /\ CountOnItsWay'
    BY <1>1, <2>1 DEF CrashOnItsWay, CountOnItsWay
  <2> QED
    BY <1>2, <2>2, <2>3
<1>4. CASE file' = Written(state, Elements) /\ UNCHANGED <<fails, unsure>>
  <2>1. StateTyped'
    BY <1>1, <1>4 DEF StateTyped, IsState, Written, Elements
  <2>2. FileCrashed' = state.crashedThis /\ FileLaunches' = state.launches
    BY <1>4, SavedToTheEnd DEF FileCrashed, FileLaunches, StateTyped
  <2>3. CrashOnItsWay'
    BY <1>1, <1>4, <2>2 DEF CrashOnItsWay
  <2>4. CountOnItsWay'
    BY <1>1, <1>4, <2>2 DEF CountOnItsWay, CrashOnItsWay
  <2> QED
    BY <1>2, <2>1, <2>3, <2>4
<1> QED
  BY <1>3, <1>4 DEF Save

\* A process that is killed leaves its file: the old one, torn or whole, if it was being saved.
LEMMA KillKeeps == StateInv /\ Kill => StateInv'
<1> SUFFICES ASSUME StateInv, Kill PROVE StateInv'
  OBVIOUS
<1> USE DEF StateInv
<1>1. CASE pc \notin {"saving", "ending"} /\ UNCHANGED <<file, fails, unsure>>
  <2>1. StateTyped' /\ LaunchWithinLastCrash'
    BY <1>1 DEF Kill, StateTyped, LaunchWithinLastCrash
  <2>2. CrashOnItsWay'
    BY <1>1 DEF Kill, CrashOnItsWay, FileCrashed, StateTyped
  <2>3. CountOnItsWay'
    BY <1>1 DEF Kill, CountOnItsWay, CrashOnItsWay, FileCrashed, FileLaunches, StateTyped
  <2> QED
    BY <2>1, <2>2, <2>3
<1>2. CASE pc \in {"saving", "ending"}
  <2>1. file' = file \/ \E n \in 0..Elements : file' = Written(state, n)
    BY <1>2 DEF Kill
  <2>2. unsure' /\ fails' = fails + 1 /\ pc' = "dead"
    BY <1>2 DEF Kill
  <2>3. StateTyped'
    BY <2>1, <2>2 DEF Kill, StateTyped, IsState, Written, Elements
  <2> QED
    BY <2>2, <2>3 DEF Kill, LaunchWithinLastCrash, CrashOnItsWay, CountOnItsWay
<1> QED
  BY <1>1, <1>2 DEF Kill

\* A notification that adds the time that passed to the launch and to what is counted since the
\* last crash, or to the latter alone, and leaves flags and launches alone.
ToldState(s) ==
    /\ IsState(s) /\ s.since <= now
    /\ s.sessions - state.sessions <= s.sessionsLast - state.sessionsLast
    /\ s.active - state.active <= s.activeLast - state.activeLast
    /\ s.back - state.back <= s.backLast - state.backLast
    /\ s.launches = state.launches
    /\ s.crashedLast = state.crashedLast

\* What the system tells the app changes neither the crash nor the count of launches.
LEMMA ToldKeeps ==
  ASSUME NEW next \in {"inactive", "active", "background"}, NEW s, NEW then \in {"running", "saving", "ending"},
         StateInv, ToldState(s), s.crashedThis = state.crashedThis, Told(next, s, then)
  PROVE  StateInv'
<1> USE DEF StateInv
<1>0. /\ IsState(state) /\ IsState(state')
      /\ state' = state \/ state' = s
  BY DEF Told, StateTyped, ToldState
<1>1. StateTyped'
  BY DEF Told, StateTyped, ToldState, truth
<1>2. LaunchWithinLastCrash'
  <2>1. pc = "running" /\ LaunchWithinLastCrash
    BY DEF Told
  <2>2. /\ state.sessions \in Nat /\ state.sessionsLast \in Nat /\ state'.sessions \in Nat
        /\ state'.sessionsLast \in Nat /\ state.sessions <= state.sessionsLast
    BY <1>0, <2>1 DEF IsState, LaunchWithinLastCrash
  <2>3. /\ state.active \in Nat /\ state.activeLast \in Nat /\ state'.active \in Nat
        /\ state'.activeLast \in Nat /\ state.active <= state.activeLast
    BY <1>0, <2>1 DEF IsState, LaunchWithinLastCrash
  <2>4. /\ state.back \in Nat /\ state.backLast \in Nat /\ state'.back \in Nat
        /\ state'.backLast \in Nat /\ state.back <= state.backLast
    BY <1>0, <2>1 DEF IsState, LaunchWithinLastCrash
  <2>5. state'.sessions <= state'.sessionsLast
    BY <1>0, <2>2 DEF ToldState
  <2>6. state'.active <= state'.activeLast
    BY <1>0, <2>3 DEF ToldState
  <2>7. state'.back <= state'.backLast
    BY <1>0, <2>4 DEF ToldState
  <2> QED
    BY <2>5, <2>6, <2>7 DEF LaunchWithinLastCrash
<1>3. /\ pc = "running" /\ pc' \in {"running", "saving", "ending"}
      /\ state'.crashedLast = state.crashedLast /\ state'.crashedThis = state.crashedThis
      /\ state'.launches = state.launches
  BY <1>0 DEF Told, ToldState
<1>4. UNCHANGED <<file, enabled, crashed, crashedBefore, since, unsure, reports>>
  BY DEF Told, truth
<1>5. FileCrashed' = FileCrashed /\ FileLaunches' = FileLaunches
  BY <1>4 DEF FileCrashed, FileLaunches
<1>6. CrashOnItsWay'
  BY <1>3, <1>4 DEF CrashOnItsWay
<1>7. CountOnItsWay'
  BY <1>3, <1>4, <1>5 DEF CountOnItsWay
<1> QED
  BY <1>1, <1>2, <1>6, <1>7

\* A notification of the user interface is one of these changes.
LEMMA NotificationKeeps ==
  StateInv /\ (BecomeActive \/ ResignActive \/ EnterBackground \/ EnterForeground \/ Terminate)
    => StateInv'
<1> SUFFICES ASSUME StateInv,
                    BecomeActive \/ ResignActive \/ EnterBackground \/ EnterForeground \/ Terminate
             PROVE  StateInv'
  OBVIOUS
<1>0. IsState(state) /\ now \in Nat /\ state.since \in Nat /\ now - state.since \in Nat
      /\ ui \in {"inactive", "active", "background"}
  BY DEF StateInv, StateTyped, IsState
<1>1. CASE BecomeActive
  <2> DEFINE s == [state EXCEPT !.isActive = TRUE, !.since = now]
  <2>1. ToldState(s) /\ s.crashedThis = state.crashedThis
    BY <1>0 DEF ToldState, IsState
  <2> QED
    BY <1>1, <2>1, ToldKeeps DEF BecomeActive
<1>2. CASE ResignActive
  <2> DEFINE s == [state EXCEPT !.isActive = FALSE, !.active = @ + (now - state.since),
                                !.activeLast = @ + (now - state.since)]
  <2>1. ToldState(s) /\ s.crashedThis = state.crashedThis
    BY <1>0 DEF ToldState, IsState, StateInv, StateTyped
  <2> QED
    BY <1>2, <2>1, ToldKeeps DEF ResignActive
<1>3. CASE EnterBackground
  <2> DEFINE s == [state EXCEPT !.inForeground = FALSE, !.since = now]
  <2>1. ToldState(s) /\ s.crashedThis = state.crashedThis
    BY <1>0 DEF ToldState, IsState
  <2> QED
    BY <1>3, <2>1, ToldKeeps DEF EnterBackground
<1>4. CASE EnterForeground
  <2> DEFINE s == [state EXCEPT !.inForeground = TRUE, !.back = @ + (now - state.since),
                                !.backLast = @ + (now - state.since),
                                !.sessions = @ + 1, !.sessionsLast = @ + 1]
  <2>1. ToldState(s) /\ s.crashedThis = state.crashedThis
    BY <1>0 DEF ToldState, IsState, StateInv, StateTyped
  <2> QED
    BY <1>4, <2>1, ToldKeeps DEF EnterForeground
<1>5. CASE Terminate
  <2> DEFINE s == [state EXCEPT !.backLast = @ + (now - state.since)]
  <2>1. ToldState(s) /\ s.crashedThis = state.crashedThis
    BY <1>0 DEF ToldState, IsState, StateInv, StateTyped
  <2> QED
    BY <1>0, <1>5, <2>1, ToldKeeps DEF Terminate
<1> QED
  BY <1>1, <1>2, <1>3, <1>4, <1>5

\* A crash, or a user's report, is a notification that sets the flag.
LEMMA NotedIsTold ==
  ASSUME StateInv
  PROVE  ToldState(Noted) /\ Noted.crashedThis = TRUE
<1>0. IsState(state) /\ now \in Nat /\ state.since \in Nat /\ now - state.since \in Nat
      /\ state.since <= now
  BY DEF StateInv, StateTyped, IsState
<1> DEFINE marked == [state EXCEPT !.crashedThis = TRUE]
<1>1. /\ IsState(marked) /\ marked.crashedThis = TRUE /\ marked.since = state.since
      /\ marked.active = state.active /\ marked.activeLast = state.activeLast
      /\ marked.back = state.back /\ marked.backLast = state.backLast
      /\ marked.sessions = state.sessions /\ marked.sessionsLast = state.sessionsLast
      /\ marked.launches = state.launches /\ marked.crashedLast = state.crashedLast
  BY <1>0 DEF IsState
<1>2. CASE state.isActive
  <2>1. Noted = [marked EXCEPT !.active = @ + (now - state.since),
                               !.activeLast = @ + (now - state.since)]
    BY <1>2 DEF Noted
  <2> HIDE DEF marked
  <2> QED
    BY <1>0, <1>1, <2>1 DEF ToldState, IsState
<1>3. CASE ~state.isActive /\ ~state.inForeground
  <2>1. Noted = [marked EXCEPT !.back = @ + (now - state.since),
                               !.backLast = @ + (now - state.since)]
    BY <1>3 DEF Noted
  <2> HIDE DEF marked
  <2> QED
    BY <1>0, <1>1, <2>1 DEF ToldState, IsState
<1>4. CASE ~state.isActive /\ state.inForeground
  <2>1. Noted = marked
    BY <1>4 DEF Noted
  <2> HIDE DEF marked
  <2> QED
    BY <1>0, <1>1, <2>1 DEF ToldState, IsState
<1> QED
  BY <1>2, <1>3, <1>4 DEF IsState

\* What notifyAppCrash notes keeps the durations of the launch within those since the last crash.
LEMMA WithinAfterNoted ==
  ASSUME StateInv, pc \in {"running", "saving"}
  PROVE  /\ Noted.sessions <= Noted.sessionsLast
         /\ Noted.active <= Noted.activeLast
         /\ Noted.back <= Noted.backLast
<1>1. ToldState(Noted) /\ IsState(state) /\ IsState(Noted)
  BY NotedIsTold DEF ToldState, StateInv, StateTyped
<1> DEFINE s == Noted
<1> HIDE DEF s
<1>2. /\ state.sessions \in Nat /\ state.sessionsLast \in Nat /\ s.sessions \in Nat
      /\ s.sessionsLast \in Nat /\ state.sessions <= state.sessionsLast
      /\ s.sessions - state.sessions <= s.sessionsLast - state.sessionsLast
  BY <1>1 DEF s, IsState, StateInv, LaunchWithinLastCrash, ToldState
<1>3. /\ state.active \in Nat /\ state.activeLast \in Nat /\ s.active \in Nat
      /\ s.activeLast \in Nat /\ state.active <= state.activeLast
      /\ s.active - state.active <= s.activeLast - state.activeLast
  BY <1>1 DEF s, IsState, StateInv, LaunchWithinLastCrash, ToldState
<1>4. /\ state.back \in Nat /\ state.backLast \in Nat /\ s.back \in Nat
      /\ s.backLast \in Nat /\ state.back <= state.backLast
      /\ s.back - state.back <= s.backLast - state.backLast
  BY <1>1 DEF s, IsState, StateInv, LaunchWithinLastCrash, ToldState
<1>5. s.sessions <= s.sessionsLast
  BY <1>2
<1>6. s.active <= s.activeLast
  BY <1>3
<1>7. s.back <= s.backLast
  BY <1>4
<1> QED
  BY <1>5, <1>6, <1>7 DEF s

\* A crash is noted in the state, which is then saved, if the monitor is on.
LEMMA CrashKeeps == StateInv /\ Crash => StateInv'
<1> SUFFICES ASSUME StateInv, Crash PROVE StateInv'
  OBVIOUS
<1> USE DEF StateInv
<1>1. ToldState(Noted) /\ Noted.crashedThis = TRUE
  BY NotedIsTold
<1>2. CASE enabled
  <2> DEFINE s == Noted
  <2>1. /\ IsState(s) /\ s.since <= now /\ s.crashedThis = TRUE
        /\ s.crashedLast = state.crashedLast /\ s.launches = state.launches
    BY <1>1 DEF ToldState
  <2>2. /\ s.sessions <= s.sessionsLast /\ s.active <= s.activeLast /\ s.back <= s.backLast
    BY WithinAfterNoted DEF Crash
  <2>3. state' = s /\ pc' = "ending" /\ crashed'
    BY <1>2 DEF Crash
  <2> HIDE DEF s
  <2>4. StateTyped'
    BY <2>1, <2>3 DEF Crash, StateTyped, bounds
  <2>5. LaunchWithinLastCrash'
    BY <2>2, <2>3 DEF LaunchWithinLastCrash
  <2>6. CrashOnItsWay'
    BY <1>2, <2>1, <2>3 DEF Crash, CrashOnItsWay
  <2>7. CountOnItsWay'
    BY <2>1, <2>3 DEF Crash, CountOnItsWay, bounds
  <2> QED
    BY <2>4, <2>5, <2>6, <2>7
<1>3. CASE ~enabled
  BY <1>3 DEF Crash, StateTyped, LaunchWithinLastCrash, CrashOnItsWay, CountOnItsWay, bounds
<1> QED
  BY <1>2, <1>3

\* A user report is noted as a crash is, and the app runs on.
LEMMA UserReportKeeps == StateInv /\ UserReport => StateInv'
<1> SUFFICES ASSUME StateInv, UserReport PROVE StateInv'
  OBVIOUS
<1> USE DEF StateInv
<1>1. ToldState(Noted) /\ Noted.crashedThis = TRUE
  BY NotedIsTold
<1> DEFINE s == Noted
<1>2. /\ IsState(s) /\ s.since <= now /\ s.crashedThis = TRUE
      /\ s.crashedLast = state.crashedLast /\ s.launches = state.launches
  BY <1>1 DEF ToldState
<1>3. /\ s.sessions <= s.sessionsLast /\ s.active <= s.activeLast /\ s.back <= s.backLast
  BY WithinAfterNoted DEF UserReport
<1>4. state' = s /\ pc' = "saving" /\ reports' = reports + 1 /\ enabled
  BY DEF UserReport
<1> HIDE DEF s
<1>5. StateTyped'
  BY <1>2, <1>4 DEF UserReport, StateTyped
<1>6. LaunchWithinLastCrash'
  BY <1>3, <1>4 DEF LaunchWithinLastCrash
<1>7. CrashOnItsWay'
  BY <1>2, <1>4 DEF UserReport, CrashOnItsWay
<1>8. reports' # 0
  BY <1>4 DEF StateTyped
<1> QED
  BY <1>5, <1>6, <1>7, <1>8 DEF CountOnItsWay

\* Time passes.
LEMMA TickKeeps == StateInv /\ Tick => StateInv'
BY DEF StateInv, Tick, StateTyped, IsState, LaunchWithinLastCrash, CrashOnItsWay, CountOnItsWay,
       FileCrashed, FileLaunches

\* Every step of the app state keeps the invariant.
LEMMA StateInvStep == StateInv /\ [Next]_vars => StateInv'
<1>1. StateInv /\ UNCHANGED vars => StateInv'
  BY DEF StateInv, vars, truth, bounds, StateTyped, LaunchWithinLastCrash, CrashOnItsWay,
         CountOnItsWay, FileCrashed, FileLaunches
<1> QED
  BY <1>1, LaunchKeeps, EnableKeeps, DisableKeeps, SaveKeeps, KillKeeps, NotificationKeeps,
     CrashKeeps, UserReportKeeps, TickKeeps DEF Next

\* For any number of launches, events, reports and torn files: the durations of a launch fit into
\* those since the last crash, and, unless the file was torn or the monitor off, a launch knows of
\* the crash before it and how many launches ago it was.
THEOREM StateFileIsTrue == MCSpec => []StateFileTellsTheTruth
<1> DEFINE Inv == part = "state" => StateInv
<1>1. MCInit => Inv
  BY StateStarts DEF MCInit
<1>2. Inv /\ [MCNext]_MCVars => Inv'
  <2> SUFFICES ASSUME Inv, [MCNext]_MCVars, part' = "state"
               PROVE  StateInv'
    OBVIOUS
  <2>1. part = "state" /\ [Next]_vars
    BY DEF MCVars, MCNext, RunState, RunInstall, RunStore
  <2> QED
    BY <2>1, StateInvStep
<1>3. Inv => StateFileTellsTheTruth
  BY DEF StateInv, StateFileTellsTheTruth, CrashIsKnown, LaunchesAreCounted, CrashOnItsWay,
         CountOnItsWay
<1> QED
  BY <1>1, <1>2, <1>3, PTL DEF MCSpec

-----------------------------------------------------------------------------
(* MonitorInstall: proofs.                                                 *)

\* Every signal has a place in the loop, before the place that means that nothing fails.
LEMMA SignalPlaces ==
  /\ Install!NoFailure \in Nat /\ Install!NoFailure > 0
  /\ \A s \in Install!Signals : Install!Position(s) < Install!NoFailure
<1>1. Len(FatalSignals) \in Nat
  BY PartsAssumption DEF Install!SignalsAssumption
<1>2. ASSUME NEW s \in Install!Signals
      PROVE  Install!Position(s) \in 1..Len(FatalSignals)
  <2>1. \E i \in 1..Len(FatalSignals) : FatalSignals[i] = s
    BY DEF Install!Signals
  <2> QED
    BY <2>1 DEF Install!Position
<1> QED
  BY <1>1, <1>2 DEF Install!NoFailure

\* The handlers of signals: typed, set as noted.
HandlersTyped ==
    /\ atLaunch \in [Install!Signals -> {"default", "ignore", "handler"}]
    /\ disposition \in [Install!Signals -> Install!Dispositions]
    /\ previous \in [Install!Signals -> Install!Dispositions \ {"ours"}]
    /\ allocated \in BOOLEAN
    /\ installed \subseteq Install!Types
    /\ refused \in Nat

HandlersInductive == HandlersTyped /\ HandlersInv /\ (traced => installed \cap {"mach", "signal"} = {})

\* A monitor that a debugger would mind is not asked for under one.
LEMMA MaskedUnderDebugger ==
  ASSUME NEW types, traced
  PROVE  Install!Masked(types) \cap {"mach", "signal"} = {}
BY DEF Install!Masked, Install!DebuggerUnsafe

\* Every step of the monitors keeps what is known of the signal handlers.
LEMMA HandlersStep ==
  ASSUME HandlersInductive,
         NEW types \in SUBSET Install!Types, NEW signalPlan \in 0..Install!NoFailure, NEW machPlan,
         Install!SetActiveMonitors(types, signalPlan, machPlan)
  PROVE  HandlersInductive'
<1> DEFINE want == Install!Masked(types)
<1> USE DEF HandlersInductive
<1>0. /\ installed' = want \cup (installed \cap {"zombie"})
      /\ UNCHANGED <<atLaunch, traced>>
      /\ Install!SignalMonitor("signal" \in want, signalPlan)
      /\ want \subseteq Install!Types
      /\ "signal" \in installed' <=> "signal" \in want
  BY DEF Install!SetActiveMonitors, Install!Masked
<1>1. traced' => installed' \cap {"mach", "signal"} = {}
  BY <1>0, MaskedUnderDebugger
<1>2. refused' \in Nat /\ (refused' = 0 => refused = 0)
      /\ (refused' = 0 /\ "signal" \in want /\ "signal" \notin installed
            => signalPlan = Install!NoFailure)
  <2> DEFINE bySignal == IF signalPlan # Install!NoFailure /\ "signal" \in want \ installed THEN 1 ELSE 0
             byMach   == IF machPlan # "none" /\ "mach" \in want \ installed THEN 1 ELSE 0
  <2>1. refused' = refused + (bySignal + byMach) /\ refused \in Nat
    BY DEF Install!SetActiveMonitors, HandlersTyped
  <2>2. bySignal \in Nat /\ byMach \in Nat
    OBVIOUS
  <2>3. refused' = 0 => bySignal = 0
    <3> HIDE DEF bySignal, byMach
    <3> QED
      BY <2>1, <2>2
  <2>4. refused' \in Nat /\ (refused' = 0 => refused = 0)
    <3> HIDE DEF bySignal, byMach
    <3> QED
      BY <2>1, <2>2
  <2> QED
    BY <2>3, <2>4
<1>3. CASE ("signal" \in want) = ("signal" \in installed) /\ UNCHANGED Install!signalVars
  <2>1. UNCHANGED <<disposition, previous, allocated>>
        /\ ("signal" \in installed' <=> "signal" \in installed)
    BY <1>0, <1>3 DEF Install!signalVars
  <2>2. HandlersTyped'
    BY <1>0, <1>2, <2>1 DEF HandlersTyped, Install!Types
  <2>3. HandlersInv'
    BY <1>0, <1>2, <2>1 DEF HandlersInv, Install!AllSignalsOrNone, TakenIsNoted
  <2> QED
    BY <1>1, <2>2, <2>3
<1>4. CASE "signal" \in want /\ "signal" \notin installed /\ Install!InstallSignals(signalPlan)
  <2>0. /\ disposition' = Install!SignalsAfterInstall(signalPlan)
        /\ previous' = [s \in Install!Signals |->
                          IF Install!Position(s) < signalPlan THEN disposition[s] ELSE previous[s]]
        /\ allocated' = (allocated \/ signalPlan > 0)
    BY <1>4 DEF Install!InstallSignals
  <2>a. \A s \in Install!Signals : disposition[s] # "ours"
    BY <1>4 DEF HandlersInv, Install!AllSignalsOrNone
  <2>b. ~traced
    BY <1>4, MaskedUnderDebugger
  <2>1. CASE signalPlan = Install!NoFailure
    <3>1. /\ disposition' = [s \in Install!Signals |-> Install!Taken(s)]
          /\ previous' = [s \in Install!Signals |-> disposition[s]]
          /\ allocated' = TRUE
      BY <2>0, <2>1, SignalPlaces DEF Install!SignalsAfterInstall
    <3>2. HandlersTyped'
      BY <1>0, <1>2, <2>a, <3>1 DEF HandlersTyped, Install!Taken, Install!Dispositions, Install!Types
    <3>3. Install!AllSignalsOrNone'
      BY <1>0, <1>4, <3>1 DEF Install!AllSignalsOrNone, Install!Taken
    <3>4. refused' = 0 => TakenIsNoted' /\ previous' = atLaunch'
      <4> SUFFICES ASSUME refused' = 0 PROVE TakenIsNoted' /\ previous' = atLaunch'
        OBVIOUS
      <4>1. disposition = atLaunch
        BY <1>2, <1>4 DEF HandlersInv, TakenIsNoted
      <4>2. previous' = atLaunch'
        BY <1>0, <3>1, <4>1 DEF HandlersTyped
      <4>3. disposition' = [s \in Install!Signals |-> IF atLaunch[s] = "ignore" THEN "ignore" ELSE "ours"]
        BY <3>1, <4>1 DEF Install!Taken
      <4> QED
        BY <1>0, <1>4, <4>2, <4>3 DEF TakenIsNoted
    <3> QED
      BY <1>0, <1>1, <2>b, <3>1, <3>2, <3>3, <3>4 DEF HandlersInv
  <2>2. CASE signalPlan # Install!NoFailure
    <3>1. disposition' = disposition
      BY <2>0, <2>2 DEF Install!SignalsAfterInstall, HandlersTyped
    <3>2. HandlersTyped'
      BY <1>0, <1>2, <2>0, <2>a, <3>1, SignalPlaces DEF HandlersTyped, Install!Dispositions, Install!Types
    <3>3. Install!AllSignalsOrNone' /\ \A s \in Install!Signals : disposition'[s] # "ours"
      BY <2>a, <3>1 DEF Install!AllSignalsOrNone
    <3> QED
      BY <1>0, <1>1, <1>2, <1>4, <2>2, <2>b, <3>2, <3>3 DEF HandlersInv
  <2> QED
    BY <2>1, <2>2
<1>5. CASE "signal" \notin want /\ "signal" \in installed /\ Install!UninstallSignals
  <2>0. /\ disposition' = IF allocated THEN previous ELSE disposition
        /\ UNCHANGED <<previous, allocated>>
    BY <1>5 DEF Install!UninstallSignals
  <2>1. HandlersTyped'
    BY <1>0, <1>2, <2>0 DEF HandlersTyped, Install!Dispositions, Install!Types
  <2>2. \A s \in Install!Signals : disposition'[s] # "ours"
    BY <2>0 DEF HandlersInv, HandlersTyped, Install!Dispositions
  <2>3. ~traced
    BY <1>5
  <2>4. refused' = 0 => TakenIsNoted'
    BY <1>0, <1>2, <1>5, <2>0 DEF HandlersInv, TakenIsNoted
  <2> QED
    BY <1>0, <1>1, <1>2, <1>5, <2>1, <2>2, <2>3, <2>4 DEF HandlersInv, Install!AllSignalsOrNone
<1> QED
  BY <1>0, <1>3, <1>4, <1>5 DEF Install!SignalMonitor

\* The exception ports and threads: typed.
PortsTyped ==
    /\ ports \in {"app", "ours"}
    /\ primary \in Nat /\ secondary \in Nat /\ threads \in Nat
    /\ installed \subseteq Install!Types

PortsInductive == PortsTyped /\ PortsInv

\* A list of reserved threads with room for all threads that were ever started takes one more.
LEMMA ThereIsRoom ==
  ASSUME NEW n \in Nat, NEW t \in Nat, NEW list \in SUBSET (1..n), n < t, t <= MaxReserved
  PROVE  Install!Reserve(list, t) = list \cup {t}
<1>1. MaxReserved \in Nat
  BY PartsAssumption DEF Install!BoundsAssumption
<1>2. IsFiniteSet(1..n) /\ Cardinality(1..n) = n
  <2>1. Cardinality(1..n) = IF 1 > n THEN 0 ELSE n - 1 + 1
    BY FS_Interval
  <2> QED
    BY <2>1, FS_Interval
<1>3. Cardinality(list) <= n /\ Cardinality(list) \in Nat
  BY <1>2, FS_Subset, FS_CardinalityType
<1>4. Install!Cardinality(list) = Cardinality(list)
  BY Zenon DEF Install!Cardinality, Cardinality
<1> QED
  BY <1>1, <1>3, <1>4 DEF Install!Reserve

\* Whether it fits or not, a list that takes a thread holds no others than before and it.
LEMMA ReservedGrows ==
  ASSUME NEW list, NEW t
  PROVE  Install!Reserve(list, t) \subseteq list \cup {t}
BY DEF Install!Reserve

\* Every step of the monitors keeps what is known of the exception ports.
LEMMA PortsStep ==
  ASSUME PortsInductive,
         NEW types \in SUBSET Install!Types, NEW signalPlan \in 0..Install!NoFailure,
         NEW machPlan \in {Install!MachSteps[i] : i \in DOMAIN Install!MachSteps},
         Install!SetActiveMonitors(types, signalPlan, machPlan)
  PROVE  PortsInductive'
<1> DEFINE want == Install!Masked(types)
<1> USE DEF PortsInductive
<1>0. /\ installed' = want \cup (installed \cap {"zombie"})
      /\ traced' = traced
      /\ Install!MachMonitor("mach" \in want, machPlan)
      /\ want \subseteq Install!Types
  BY DEF Install!SetActiveMonitors, Install!Masked
<1>1. /\ traced' => installed' \cap {"mach", "signal"} = {} /\ "mach" \notin want /\ "mach" \notin installed
      /\ installed' \subseteq Install!Types
  BY <1>0, MaskedUnderDebugger DEF PortsInv, PortsTyped, Install!Types
<1>2. CASE UNCHANGED Install!machVars
  BY <1>0, <1>1, <1>2 DEF Install!machVars, PortsTyped, PortsInv, Install!PortIsServed,
     Install!ExceptionThreadsReserved
<1>3. CASE "mach" \in want /\ Install!InstallMach(machPlan)
  <2> DEFINE second == threads + 1
             first  == threads + 2
             withSecond == IF Install!Reaches(machPlan, "secondary")
                           THEN Install!Reserve(reserved, second) ELSE reserved
  <2>0. ~traced' /\ threads \in Nat /\ reserved \subseteq 1..threads
    BY <1>0, <1>1, <1>3 DEF PortsInv, PortsTyped
  <2>1. withSecond \subseteq 1..second
    <3>1. reserved \cup {second} \subseteq 1..second
      BY <2>0
    <3> QED
      BY <3>1, ReservedGrows
  <2>2. CASE machPlan = "none"
    <3>1. /\ threads' = threads + 2 /\ reserved' = Install!Reserve(withSecond, first)
          /\ ports' = "ours" /\ primary' = first /\ secondary' = second
      BY <1>3, <2>2 DEF Install!InstallMach
    <3>2. Install!Reaches("none", "secondary")
      <4>1. Install!MachSteps[4] = "secondary" /\ Install!MachSteps[6] = "none"
            /\ DOMAIN Install!MachSteps = 1..6
        BY DEF Install!MachSteps
      <4>2. 4 \in 1..6 /\ 6 \in 1..6 /\ 4 < 6
        OBVIOUS
      <4> QED
        BY <4>1, <4>2 DEF Install!Reaches
    <3>3. reserved' \subseteq 1..threads'
      <4>1. 1..second \cup {first} \subseteq 1..first /\ threads' = first
        BY <2>0, <3>1
      <4> QED
        BY <2>1, <3>1, <4>1, ReservedGrows
    <3>4. ASSUME threads' <= MaxReserved PROVE {primary', secondary'} \subseteq reserved'
      <4>1. /\ second \in Nat /\ first \in Nat /\ threads < second /\ second < first
            /\ second <= MaxReserved /\ first <= MaxReserved
        BY <2>0, <3>1, <3>4, PartsAssumption DEF Install!BoundsAssumption
      <4>2. withSecond = reserved \cup {second}
        BY <2>0, <2>2, <3>2, <4>1, ThereIsRoom
      <4>3. reserved' = withSecond \cup {first}
        <5> HIDE DEF withSecond, first, second
        <5> QED
          BY <2>1, <3>1, <4>1, ThereIsRoom
      <4> QED
        BY <3>1, <4>2, <4>3
    <3>5. primary' \in Nat /\ secondary' \in Nat /\ threads' \in Nat /\ primary' # 0 /\ secondary' # 0
      BY <2>0, <3>1
    <3> QED
      BY <1>1, <2>0, <3>1, <3>3, <3>4, <3>5
      DEF PortsTyped, PortsInv, Install!PortIsServed, Install!ExceptionThreadsReserved
  <2>3. CASE machPlan # "none"
    <3>1. /\ threads' = threads + (IF Install!Reaches(machPlan, "secondary") THEN 1 ELSE 0)
          /\ reserved' = withSecond
          /\ primary' = 0 /\ secondary' = 0
          /\ \E were \in {"ours", "app"} : ports' = Install!PortsAfterUninstall(were)
      BY <1>3, <2>3 DEF Install!InstallMach, Install!UninstallMach, PortsTyped
    <3>2. ports' = "app"
      BY <3>1 DEF Install!PortsAfterUninstall
    <3>3. reserved' \subseteq 1..threads' /\ threads' \in Nat
      BY <2>0, <2>1, <3>1
    <3> QED
      BY <1>1, <2>0, <3>1, <3>2, <3>3
      DEF PortsTyped, PortsInv, Install!PortIsServed, Install!ExceptionThreadsReserved
  <2> QED
    BY <2>2, <2>3
<1>4. CASE Install!UninstallMach(ports) /\ UNCHANGED <<threads, reserved>>
  BY <1>0, <1>1, <1>4
  DEF Install!UninstallMach, Install!PortsAfterUninstall, PortsTyped, PortsInv, Install!PortIsServed,
      Install!ExceptionThreadsReserved
<1> QED
  BY <1>0, <1>2, <1>3, <1>4 DEF Install!MachMonitor

\* Both parts, in every step of the monitors.
LEMMA InstallStep ==
  HandlersInductive /\ PortsInductive /\ [Install!Next]_installVars
    => HandlersInductive' /\ PortsInductive'
<1> SUFFICES ASSUME HandlersInductive, PortsInductive, [Install!Next]_installVars
             PROVE  HandlersInductive' /\ PortsInductive'
  OBVIOUS
<1>1. CASE UNCHANGED <<atLaunch, disposition, previous, allocated, ports, primary, secondary, threads,
                       reserved, installed, traced, refused>>
  BY <1>1 DEF HandlersInductive, PortsInductive, HandlersTyped, PortsTyped, HandlersInv, PortsInv,
     Install!AllSignalsOrNone, Install!PortIsServed, Install!ExceptionThreadsReserved, TakenIsNoted
<1>2. CASE \E types \in SUBSET Install!Types, signalPlan \in 0..Install!NoFailure,
              machPlan \in {Install!MachSteps[i] : i \in DOMAIN Install!MachSteps} :
              Install!SetActiveMonitors(types, signalPlan, machPlan)
  BY <1>2, HandlersStep, PortsStep
<1>3. UNCHANGED installVars
        => UNCHANGED <<atLaunch, disposition, previous, allocated, ports, primary, secondary, threads,
                       reserved, installed, traced, refused>>
  BY DEF installVars, Install!signalVars, Install!machVars
<1>4. CASE Install!Captured
  <2>1. /\ UNCHANGED <<atLaunch, disposition, previous, allocated, primary, secondary, threads,
                       reserved, installed, traced, refused>>
        /\ ports' = "app"
    BY <1>4 DEF Install!Captured, Install!signalVars, Install!PortsAfterUninstall
  <2>2. HandlersInductive'
    BY <2>1 DEF HandlersInductive, HandlersTyped, HandlersInv, Install!AllSignalsOrNone, TakenIsNoted
  <2>3. PortsInductive'
    BY <2>1 DEF PortsInductive, PortsTyped, PortsInv, Install!PortIsServed,
       Install!ExceptionThreadsReserved
  <2> QED
    BY <2>2, <2>3
<1> QED
  BY <1>1, <1>2, <1>3, <1>4 DEF Install!Next

\* For any signals, list of reserved threads, calls and failures: exceptions never go to ports that
\* nobody reads, the threads that read them are reserved as long as the list has room; our handlers
\* are set for all signals that are not ignored or for none; without a failure an ignored signal
\* stays ignored and each is given back; under a debugger nothing is touched.
THEOREM MonitorsAreAsAsked == MCSpec => []MonitorsAsAsked
<1> DEFINE Inv == part = "install" => HandlersInductive /\ PortsInductive
<1>1. MCInit => Inv
  <2> SUFFICES ASSUME MCInit PROVE HandlersInductive /\ PortsInductive
    OBVIOUS
  <2>1. Install!Init
    BY DEF MCInit
  <2>2. HandlersInductive
    BY <2>1 DEF HandlersInductive, HandlersTyped, HandlersInv, Install!Init, Install!Dispositions,
       Install!AllSignalsOrNone, TakenIsNoted
  <2>3. PortsInductive
    BY <2>1 DEF PortsInductive, PortsTyped, PortsInv, Install!Init, Install!PortIsServed,
       Install!ExceptionThreadsReserved
  <2> QED
    BY <2>2, <2>3
<1>2. Inv /\ [MCNext]_MCVars => Inv'
  <2> SUFFICES ASSUME Inv, [MCNext]_MCVars, part' = "install"
               PROVE  HandlersInductive' /\ PortsInductive'
    OBVIOUS
  <2>1. part = "install" /\ [Install!Next]_installVars
    BY DEF MCVars, MCNext, RunState, RunInstall, RunStore
  <2> QED
    BY <2>1, InstallStep
<1>3. Inv => MonitorsAsAsked
  <2> SUFFICES ASSUME HandlersInductive, PortsInductive
               PROVE  /\ Install!IgnoredStaysIgnored /\ Install!DisabledMeansRestored
                      /\ Install!DebuggerLeftAlone
    BY DEF MonitorsAsAsked, HandlersInductive, PortsInductive, HandlersInv, PortsInv
  <2>1. Install!DebuggerLeftAlone
    BY DEF HandlersInductive, PortsInductive, HandlersInv, PortsInv, Install!DebuggerLeftAlone
  <2>2. Install!DisabledMeansRestored
    BY DEF HandlersInductive, HandlersInv, TakenIsNoted, Install!DisabledMeansRestored
  <2>3. Install!IgnoredStaysIgnored
    BY DEF HandlersInductive, HandlersInv, TakenIsNoted, Install!IgnoredStaysIgnored
  <2> QED
    BY <2>1, <2>2, <2>3
<1> QED
  BY <1>1, <1>2, <1>3, PTL DEF MCSpec

-----------------------------------------------------------------------------
(* CrashReportStore: the order of the ids.                                 *)

\* The store counts as everybody does.
LEMMA StoreCounts == \A S : Store!Cardinality(S) = Cardinality(S)
BY Zenon DEF Store!Cardinality, Cardinality

\* Paths of reports, whatever their id.
IdPaths == Nat \X {"json", "old"}

\* Two paths are one, or one is before the other; and what is before is so throughout.
LEMMA BeforeIsAnOrder ==
  /\ \A p \in IdPaths : ~Store!Before(p, p)
  /\ \A p, q \in IdPaths : p # q => Store!Before(p, q) \/ Store!Before(q, p)
  /\ \A p, q, r \in IdPaths : Store!Before(p, q) /\ Store!Before(q, r) => Store!Before(p, r)
<1>1. \A p \in IdPaths : p = <<p[1], p[2]>> /\ p[1] \in Nat /\ p[2] \in {"json", "old"}
  BY DEF IdPaths
<1>2. \A p \in IdPaths : ~Store!Before(p, p)
  BY <1>1 DEF Store!Before
<1>3. ASSUME NEW p \in IdPaths, NEW q \in IdPaths, p # q
      PROVE  Store!Before(p, q) \/ Store!Before(q, p)
  <2>1. p[1] # q[1] \/ p[2] # q[2]
    BY <1>1, <1>3
  <2> QED
    BY <1>1, <2>1 DEF Store!Before
<1>4. ASSUME NEW p \in IdPaths, NEW q \in IdPaths, NEW r \in IdPaths,
             Store!Before(p, q), Store!Before(q, r)
      PROVE  Store!Before(p, r)
  BY <1>1, <1>4 DEF Store!Before
<1> QED
  BY <1>2, <1>3, <1>4

\* The earlier of two files has the lower place.
LEMMA PlacesRise ==
  ASSUME NEW dir \in SUBSET IdPaths, IsFiniteSet(dir), NEW p \in dir, NEW q \in dir,
         Store!Before(p, q)
  PROVE  Store!Place(dir, p) < Store!Place(dir, q)
<1> DEFINE A == {x \in dir : Store!Before(x, p)}
           B == {x \in dir : Store!Before(x, q)}
<1>1. A \subseteq B /\ p \in B /\ p \notin A /\ B \subseteq dir
  BY BeforeIsAnOrder
<1>2. Store!Place(dir, p) = Cardinality(A) + 1 /\ Store!Place(dir, q) = Cardinality(B) + 1
  BY StoreCounts DEF Store!Place
<1> HIDE DEF A, B
<1>3. IsFiniteSet(B)
  BY <1>1, FS_Subset
<1>4. /\ IsFiniteSet(A) /\ Cardinality(A) <= Cardinality(B)
      /\ Cardinality(B) = Cardinality(A) => B = A
  BY <1>1, <1>3, FS_Subset
<1>5. Cardinality(A) \in Nat /\ Cardinality(B) \in Nat /\ Cardinality(A) # Cardinality(B)
  BY <1>1, <1>3, <1>4, FS_CardinalityType
<1> QED
  BY <1>2, <1>4, <1>5

\* Every place is taken, by one file.
LEMMA PlacesAreTaken ==
  ASSUME NEW dir \in SUBSET IdPaths, IsFiniteSet(dir)
  PROVE  /\ Cardinality(dir) \in Nat
         /\ \A p \in dir : Store!Place(dir, p) \in 1..Cardinality(dir)
         /\ \A p, q \in dir : Store!Place(dir, p) = Store!Place(dir, q) => p = q
         /\ \A i \in 1..Cardinality(dir) : \E p \in dir : Store!Place(dir, p) = i
<1>1. Cardinality(dir) \in Nat
  BY FS_CardinalityType
<1>2. ASSUME NEW p \in dir PROVE Store!Place(dir, p) \in 1..Cardinality(dir)
  <2> DEFINE A == {x \in dir : Store!Before(x, p)}
  <2>1. A \subseteq dir \ {p}
    BY BeforeIsAnOrder
  <2>2. Store!Place(dir, p) = Cardinality(A) + 1
    BY StoreCounts DEF Store!Place
  <2> HIDE DEF A
  <2>3. IsFiniteSet(dir \ {p}) /\ Cardinality(dir \ {p}) = Cardinality(dir) - 1
    BY FS_RemoveElement
  <2>4. IsFiniteSet(A) /\ Cardinality(A) <= Cardinality(dir \ {p})
    BY <2>1, <2>3, FS_Subset
  <2>5. Cardinality(A) \in Nat
    BY <2>4, FS_CardinalityType
  <2> QED
    BY <1>1, <2>2, <2>3, <2>4, <2>5
<1>3. ASSUME NEW p \in dir, NEW q \in dir, Store!Place(dir, p) = Store!Place(dir, q)
      PROVE  p = q
  <2>1. p = q \/ Store!Before(p, q) \/ Store!Before(q, p)
    BY BeforeIsAnOrder
  <2>2. Store!Place(dir, p) \in Nat
    BY <1>1, <1>2
  <2> QED
    BY <1>3, <2>1, <2>2, PlacesRise
<1>4. \A i \in 1..Cardinality(dir) : \E p \in dir : Store!Place(dir, p) = i
  <2> DEFINE n == Cardinality(dir)
             place == [p \in dir |-> Store!Place(dir, p)]
  <2>1. place \in Injection(dir, 1..n)
    BY <1>2, <1>3 DEF Injection, IsInjective
  <2>2. IsFiniteSet(1..n) /\ Cardinality(1..n) = n
    <3>1. Cardinality(1..n) = IF 1 > n THEN 0 ELSE n - 1 + 1
      BY <1>1, FS_Interval
    <3> QED
      BY <1>1, <3>1, FS_Interval
  <2>3. place \in Surjection(dir, 1..n)
    BY <2>1, <2>2, FS_Injection
  <2> QED
    BY <2>3 DEF Surjection
<1> QED
  BY <1>1, <1>2, <1>3, <1>4

\* Sorting keeps the id of every file.
LEMMA SortedKeepsIds ==
  ASSUME NEW dir \in SUBSET IdPaths, IsFiniteSet(dir)
  PROVE  /\ Store!Sorted(dir) \in Seq(Nat)
         /\ Len(Store!Sorted(dir)) = Cardinality(dir)
         /\ \A p \in dir : Store!Sorted(dir)[Store!Place(dir, p)] = p[1]
<1> DEFINE At(i) == CHOOSE p \in dir : Store!Place(dir, p) = i
           n == Cardinality(dir)
<1>1. Store!Sorted(dir) = [i \in 1..n |-> At(i)[1]] /\ n \in Nat
  BY StoreCounts, PlacesAreTaken DEF Store!Sorted
<1>2. ASSUME NEW i \in 1..n PROVE At(i) \in dir /\ At(i)[1] \in Nat
  <2>1. \E p \in dir : Store!Place(dir, p) = i
    BY PlacesAreTaken
  <2>2. At(i) \in dir
    BY <2>1
  <2> QED
    BY <2>2 DEF IdPaths
<1>3. ASSUME NEW p \in dir PROVE At(Store!Place(dir, p)) = p
  <2>1. At(Store!Place(dir, p)) \in dir
        /\ Store!Place(dir, At(Store!Place(dir, p))) = Store!Place(dir, p)
    OBVIOUS
  <2> QED
    BY <2>1, PlacesAreTaken
<1> HIDE DEF At
<1>4. Store!Sorted(dir) \in Seq(Nat) /\ Len(Store!Sorted(dir)) = n
  BY <1>1, <1>2
<1> QED
  BY <1>1, <1>3, <1>4, PlacesAreTaken

-----------------------------------------------------------------------------
(* CrashReportStore: the folder.                                           *)

\* A folder of the first n reports: files of reports, of which no two that are not moved aside
\* hold the same one.
Folder(dir, n) ==
    /\ DOMAIN dir \subseteq IdPaths /\ IsFiniteSet(DOMAIN dir)
    /\ \A p \in DOMAIN dir : dir[p] \in [report : 1..n, whole : BOOLEAN]
    /\ \A p, q \in DOMAIN dir :
          p[2] = "json" /\ q[2] = "json" /\ dir[p].report = dir[q].report => p = q

\* d is the folder dir without some files.
Removed(d, dir, gone) ==
    /\ DOMAIN d = DOMAIN dir \ gone
    /\ \A p \in DOMAIN d : d[p] = dir[p]

\* Removing files leaves a folder.
LEMMA FolderShrinks ==
  \A dir, n, gone : Folder(dir, n) => /\ Folder(Store!Without(dir, gone), n)
                                     /\ Removed(Store!Without(dir, gone), dir, gone)
<1> SUFFICES ASSUME NEW dir, NEW n, NEW gone, Folder(dir, n)
             PROVE  /\ Folder(Store!Without(dir, gone), n)
                    /\ Removed(Store!Without(dir, gone), dir, gone)
  OBVIOUS
<1> DEFINE d == Store!Without(dir, gone)
<1>1. Removed(d, dir, gone)
  BY DEF Store!Without, Removed
<1> HIDE DEF d
<1>2. IsFiniteSet(DOMAIN d) /\ DOMAIN d \subseteq DOMAIN dir
  BY <1>1, FS_Subset DEF Folder, Removed
<1> QED
  BY <1>1, <1>2 DEF Folder, Removed, d

\* d is the folder dir after a file was created, or written over.
Created(d, dir, p, f) ==
    /\ DOMAIN d = DOMAIN dir \cup {p}
    /\ d[p] = f
    /\ \A q \in DOMAIN dir : q # p => d[q] = dir[q]

\* Writing a file creates it or writes over it, and touches no other.
LEMMA WithFile == \A dir, p, f : Created(Store!With(dir, p, f), dir, p, f)
BY DEF Store!With, Created

\* A file with the next report makes a folder of one report more.
LEMMA FolderGains ==
  ASSUME NEW dir, NEW n \in Nat, Folder(dir, n), NEW p \in IdPaths, NEW f,
         f \in [report : {n + 1}, whole : BOOLEAN]
  PROVE  Folder(Store!With(dir, p, f), n + 1)
<1> DEFINE d == Store!With(dir, p, f)
<1>1. Created(d, dir, p, f)
  BY Zenon, WithFile
<1> HIDE DEF d
<1> USE DEF Created
<1>2. IsFiniteSet(DOMAIN d) /\ DOMAIN d \subseteq IdPaths
  BY <1>1, FS_AddElement DEF Folder
<1>3. ASSUME NEW q \in DOMAIN d, q # p
      PROVE  q \in DOMAIN dir /\ d[q] = dir[q] /\ dir[q] \in [report : 1..n, whole : BOOLEAN]
  <2>1. q \in DOMAIN dir /\ d[q] = dir[q]
    BY <1>1, <1>3
  <2> QED
    BY <2>1 DEF Folder
<1>4. \A q \in DOMAIN d : d[q] \in [report : 1..n + 1, whole : BOOLEAN]
  <2>1. d[p] \in [report : 1..n + 1, whole : BOOLEAN]
    BY <1>1
  <2>2. [report : 1..n, whole : BOOLEAN] \subseteq [report : 1..n + 1, whole : BOOLEAN]
    OBVIOUS
  <2> QED
    BY <1>3, <2>1, <2>2
<1>5. \A q \in DOMAIN d : q # p => d[q].report # d[p].report
  <2>1. \A q \in DOMAIN d : q # p => d[q].report \in 1..n
    BY <1>3
  <2>2. d[p].report = n + 1
    BY <1>1
  <2> QED
    BY <2>1, <2>2
<1>6. \A q, r \in DOMAIN d :
        q[2] = "json" /\ r[2] = "json" /\ d[q].report = d[r].report => q = r
  <2>1. ASSUME NEW q \in DOMAIN d, NEW r \in DOMAIN d,
               q[2] = "json", r[2] = "json", d[q].report = d[r].report
        PROVE  q = r
    <3>1. CASE q = p
      BY <1>5, <2>1, <3>1
    <3>2. CASE r = p
      BY <1>5, <2>1, <3>2
    <3>3. CASE q # p /\ r # p
      BY <1>3, <2>1, <3>3 DEF Folder
    <3> QED
      BY <3>1, <3>2, <3>3
  <2> QED
    BY <2>1
<1> QED
  BY <1>2, <1>4, <1>6 DEF Folder, d

\* A folder of n reports is one of n + 1 of which one is not there.
LEMMA FolderWaits ==
  ASSUME NEW dir, NEW n \in Nat, Folder(dir, n)
  PROVE  Folder(dir, n + 1)
<1>1. [report : 1..n, whole : BOOLEAN] \subseteq [report : 1..n + 1, whole : BOOLEAN]
  OBVIOUS
<1> QED
  BY <1>1 DEF Folder

\* A file moved aside is not one that is read.
LEMMA FolderAside ==
  ASSUME NEW dir, NEW n \in Nat, Folder(dir, n), NEW i \in Nat, NEW f,
         f \in [report : 1..n, whole : BOOLEAN]
  PROVE  Folder(Store!With(dir, <<i, "old">>, f), n)
<1> DEFINE p == <<i, "old">>
           d == Store!With(dir, p, f)
<1>1. Created(d, dir, p, f)
  BY Zenon, WithFile
<1>2. p \in IdPaths /\ p[2] # "json"
  BY DEF IdPaths
<1> HIDE DEF d, p
<1> USE DEF Created
<1>3. IsFiniteSet(DOMAIN d) /\ DOMAIN d \subseteq IdPaths
  BY <1>1, <1>2, FS_AddElement DEF Folder
<1> QED
  BY <1>1, <1>2, <1>3 DEF Folder, d, p

\* What a crash leaves: a folder that is not empty, with the new report or without it, of reports
\* that were there.
LEMMA LeavesAFolder ==
  ASSUME NEW n \in Nat, Folder(files, n), NEW i \in Nat, NEW dir \in Store!Leaves(i, n + 1)
  PROVE  /\ Folder(dir, n + 1) /\ DOMAIN dir # {}
         /\ \A p \in DOMAIN dir : \/ dir[p].report = n + 1
                                  \/ \E q \in DOMAIN files : files[q].report = dir[p].report
<1> DEFINE json  == <<i, "json">>
           old   == <<i, "old">>
           part_ == [report |-> n + 1, whole |-> FALSE]
           all   == [report |-> n + 1, whole |-> TRUE]
           first == IF json \in DOMAIN files THEN files[json] ELSE part_
           gone  == Store!Without(files, {json})
           moved == Store!With(gone, old, first)
           rest  == Store!Without(moved, {old})
           Comes(d) == /\ Folder(d, n + 1) /\ DOMAIN d # {}
                       /\ \A p \in DOMAIN d : \/ d[p].report = n + 1
                                              \/ \E q \in DOMAIN files : files[q].report = d[p].report
<1>0. /\ json \in IdPaths /\ old \in IdPaths /\ json # old
      /\ part_ \in [report : {n + 1}, whole : BOOLEAN] /\ part_.report = n + 1
      /\ all \in [report : {n + 1}, whole : BOOLEAN] /\ all.report = n + 1
      /\ n + 1 \in Nat
  BY DEF IdPaths
<1>1. \/ dir = files /\ json \in DOMAIN files
      \/ json \notin DOMAIN files /\ \E f \in {part_, all} : dir = Store!With(files, json, f)
      \/ dir = moved
      \/ dir = Store!With(moved, json, part_)
      \/ \E f \in {part_, all} : dir = Store!With(rest, json, f)
  BY DEF Store!Leaves
<1> HIDE DEF json, old, part_, all
<1>2. /\ first \in [report : 1..n + 1, whole : BOOLEAN]
      /\ first.report = n + 1 \/ \E q \in DOMAIN files : files[q].report = first.report
  <2>1. CASE json \in DOMAIN files
    BY <2>1 DEF Folder
  <2>2. CASE json \notin DOMAIN files
    BY <1>0, <2>2
  <2> QED
    BY <2>1, <2>2
<1>3. Folder(gone, n) /\ Removed(gone, files, {json})
  BY Zenon, FolderShrinks
<1> HIDE DEF first, gone
<1>4. Folder(moved, n + 1) /\ Created(moved, gone, old, first)
  <2>1. Folder(gone, n + 1)
    BY <1>3, FolderWaits
  <2>2. Folder(moved, n + 1)
    BY <1>0, <1>2, <2>1, FolderAside DEF old
  <2> QED
    BY <2>2, Zenon, WithFile
<1> USE DEF Created, Removed
<1>5. \A p \in DOMAIN moved : \/ moved[p].report = n + 1
                              \/ \E q \in DOMAIN files : files[q].report = moved[p].report
  BY <1>2, <1>3, <1>4
<1>6. /\ Folder(rest, n) /\ DOMAIN rest = DOMAIN moved \ {old}
      /\ \A p \in DOMAIN rest : rest[p] = files[p] /\ p \in DOMAIN files
  <2>1. Folder(rest, n + 1) /\ Removed(rest, moved, {old})
    <3> HIDE DEF Created, Removed
    <3> QED
      BY <1>4, Zenon, FolderShrinks
  <2>2. \A p \in DOMAIN rest : rest[p] = files[p] /\ p \in DOMAIN files
    BY <1>3, <1>4, <2>1
  <2> HIDE DEF rest
  <2> QED
    BY <2>1, <2>2 DEF Folder
<1> HIDE DEF moved, rest
<1>7. ASSUME NEW d, Folder(d, n), NEW f \in {part_, all},
             \A p \in DOMAIN d : d[p] = files[p] /\ p \in DOMAIN files
      PROVE  Comes(Store!With(d, json, f))
  <2> DEFINE e == Store!With(d, json, f)
  <2>1. Folder(e, n + 1)
    BY <1>0, <1>7, FolderGains
  <2>2. Created(e, d, json, f)
    <3> HIDE DEF Created, Removed
    <3> QED
      BY Zenon, WithFile
  <2> HIDE DEF e
  <2> USE DEF Created
  <2>3. e[json].report = n + 1
    BY <1>0, <2>2
  <2>4. Comes(e)
    BY <1>7, <2>1, <2>2, <2>3
  <2> QED
    BY <2>4 DEF e
<1>8. Comes(files) \/ json \notin DOMAIN files
  BY FolderWaits
<1>9. Comes(moved)
  BY <1>4, <1>5
<1>10. Comes(Store!With(moved, json, part_))
  <2> DEFINE e == Store!With(moved, json, part_)
  <2>1. Created(e, moved, json, part_)
    <3> HIDE DEF Created, Removed
    <3> QED
      BY Zenon, WithFile
  <2> HIDE DEF e
  <2> USE DEF Created
  <2>2. \A p \in DOMAIN e : \/ e[p].report = n + 1
                            \/ \E q \in DOMAIN files : files[q].report = e[p].report
    BY <1>0, <1>5, <2>1
  <2>3. Folder(e, n + 1)
    <3>1. IsFiniteSet(DOMAIN e) /\ DOMAIN e \subseteq IdPaths
      <4>1. IsFiniteSet(DOMAIN moved) /\ DOMAIN moved \subseteq IdPaths
        BY <1>4 DEF Folder
      <4>2. DOMAIN e = DOMAIN moved \cup {json}
        BY <2>1
      <4> QED
        BY <1>0, <4>1, <4>2, FS_AddElement
    <3>2. e[json] \in [report : 1..n + 1, whole : BOOLEAN]
      <4>1. part_ = [report |-> n + 1, whole |-> FALSE]
        BY DEF part_
      <4> QED
        BY <1>0, <2>1, <4>1
    <3>3. ASSUME NEW p \in DOMAIN e, NEW q \in DOMAIN e,
                 p[2] = "json", q[2] = "json", e[p].report = e[q].report
          PROVE  p = q
      <4>1. \A r \in DOMAIN e : r # json /\ r[2] = "json"
                => r \in DOMAIN files /\ e[r] = files[r] /\ e[r].report \in 1..n
        <5>1. old[2] # "json"
          BY DEF old
        <5> QED
          BY <1>3, <1>4, <2>1, <5>1 DEF Folder
      <4>2. e[json].report = n + 1 /\ ~(n + 1 \in 1..n)
        BY <1>0, <2>1
      <4>3. CASE p = json \/ q = json
        BY <3>3, <4>1, <4>2, <4>3
      <4>4. CASE p # json /\ q # json
        BY <3>3, <4>1, <4>4 DEF Folder
      <4> QED
        BY <4>3, <4>4
    <3>4. \A p \in DOMAIN e : e[p] \in [report : 1..n + 1, whole : BOOLEAN]
      BY <1>4, <2>1, <3>2 DEF Folder
    <3> QED
      BY <3>1, <3>3, <3>4 DEF Folder
  <2>4. Comes(e)
    BY <2>1, <2>2, <2>3
  <2> QED
    BY <2>4 DEF e
<1>11. \A f \in {part_, all} : Comes(Store!With(files, json, f)) /\ Comes(Store!With(rest, json, f))
  BY <1>6, <1>7
<1>12. Comes(dir)
  <2> HIDE DEF Comes
  <2> QED
    BY <1>1, <1>8, <1>9, <1>10, <1>11
<1> QED
  BY <1>12

-----------------------------------------------------------------------------
(* CrashReportStore: types.                                                *)

StoreTyped ==
    /\ stored \in 0..MaxStored /\ Folder(files, stored)
    /\ nextLow \in Nat /\ interrupted \in Nat
    /\ writing = <<>> \/ (writing \in IdPaths /\ writing[2] = "json")
    /\ ids \in Seq(Nat)
    /\ outbox \in Seq(1..MaxStored) /\ \A i \in 1..Len(outbox) : outbox[i] <= stored
    /\ delivered \in [1..MaxStored -> Nat]
    /\ inTime \subseteq 1..stored
    /\ count \in Nat /\ clock \in Nat

\* The bounds of the store are numbers, as assumed.
LEMMA StoreBounds ==
  /\ MaxStored \in Nat /\ MaxReportCount \in Nat
  /\ IdsPerSecond \in Nat \ {0} /\ SecondsOfIds \in Nat \ {0}
BY PartsAssumption DEF Store!BoundsAssumption

\* The next id is one, and so is the first of a launch.
LEMMA IdsAreNumbers ==
  ASSUME NEW low \in Nat, NEW time \in Nat
  PROVE  /\ (low + 1) % (SecondsOfIds * IdsPerSecond) \in Nat
         /\ (time % SecondsOfIds) * IdsPerSecond \in Nat
<1>1. \A a, b \in Nat \ {0} : a * b \in Nat \ {0}
  OBVIOUS
<1>2. \A a, b \in Nat : a * b \in Nat
  OBVIOUS
<1>3. \A a \in Nat, b \in Nat \ {0} : a % b \in Nat
  OBVIOUS
<1>4. time % SecondsOfIds \in Nat
  BY <1>3, StoreBounds
<1>5. SecondsOfIds * IdsPerSecond \in Nat \ {0}
  BY <1>1, StoreBounds
<1> QED
  BY <1>2, <1>3, <1>4, <1>5, StoreBounds

\* What is written while a process runs: n more reports, nothing sent.
ReportWritten(n) ==
    /\ stored' = stored + n /\ stored' <= MaxStored
    /\ Folder(files', stored')
    /\ nextLow' \in Nat /\ interrupted' \in Nat
    /\ writing' = <<>> \/ (writing' \in IdPaths /\ writing'[2] = "json")
    /\ UNCHANGED <<ids, outbox, delivered, inTime, count, clock>>

\* Writing reports keeps the types of what is being sent.
LEMMA TypedWhenWritten ==
  ASSUME StoreTyped, NEW n \in {0, 1}, ReportWritten(n)
  PROVE  StoreTyped'
<1>1. stored' \in 0..MaxStored /\ stored <= stored' /\ stored \in Nat /\ stored' \in Nat
  BY StoreBounds DEF StoreTyped, ReportWritten
<1>2. outbox \in Seq(1..MaxStored) /\ \A i \in 1..Len(outbox) : outbox[i] <= stored'
  <2>1. outbox \in Seq(1..MaxStored) /\ \A i \in 1..Len(outbox) : outbox[i] \in 1..MaxStored /\ outbox[i] <= stored
    BY ElementOfSeq DEF StoreTyped
  <2> QED
    BY <1>1, <2>1
<1>3. inTime \subseteq 1..stored'
  BY <1>1 DEF StoreTyped
<1> QED
  BY <1>1, <1>2, <1>3 DEF StoreTyped, ReportWritten

\* The file that a user's report is written to was in the folder or is new.
LEMMA BeginKeepsTypes == StoreTyped /\ Store!BeginUserReport => StoreTyped'
<1> SUFFICES ASSUME StoreTyped, Store!BeginUserReport PROVE StoreTyped'
  OBVIOUS
<1> DEFINE json == <<nextLow, "json">>
           f == [report |-> stored + 1, whole |-> FALSE]
<1>1. /\ stored \in Nat /\ nextLow \in Nat /\ json \in IdPaths /\ json[2] = "json"
      /\ f \in [report : {stored + 1}, whole : BOOLEAN] /\ Folder(files, stored)
  BY DEF StoreTyped, IdPaths
<1>2. /\ stored' = stored + 1 /\ stored < MaxStored
      /\ nextLow' = (nextLow + 1) % (SecondsOfIds * IdsPerSecond)
      /\ \/ files' = files /\ writing' = writing
         \/ files' = Store!With(files, json, f) /\ writing' = json
      /\ UNCHANGED <<ids, outbox, delivered, inTime, count, clock, interrupted>>
  BY DEF Store!BeginUserReport, Store!Disturb
<1> HIDE DEF json, f
<1>3. Folder(files', stored')
  BY <1>1, <1>2, FolderGains, FolderWaits
<1>4. nextLow' \in Nat
  BY <1>1, <1>2, IdsAreNumbers
<1>5. ReportWritten(1)
  BY <1>1, <1>2, <1>3, <1>4, StoreBounds DEF ReportWritten, StoreTyped
<1> QED
  BY <1>5, TypedWhenWritten

\* A report that was finished is the report that was begun.
LEMMA EndKeepsTypes == StoreTyped /\ Store!EndUserReport => StoreTyped'
<1> SUFFICES ASSUME StoreTyped, Store!EndUserReport PROVE StoreTyped'
  OBVIOUS
<1>1. Folder(files', stored)
  <2>1. CASE writing \in DOMAIN files
    <3>1. files' = [files EXCEPT ![writing].whole = TRUE]
      BY <2>1 DEF Store!EndUserReport
    <3>2. /\ DOMAIN files' = DOMAIN files
          /\ \A p \in DOMAIN files : p # writing => files'[p] = files[p]
          /\ files'[writing] = [files[writing] EXCEPT !.whole = TRUE]
      BY <2>1, <3>1
    <3>3. files[writing] \in [report : 1..stored, whole : BOOLEAN]
      BY <2>1 DEF StoreTyped, Folder
    <3>4. /\ files'[writing] \in [report : 1..stored, whole : BOOLEAN]
          /\ files'[writing].report = files[writing].report
      BY <3>2, <3>3
    <3>5. \A p \in DOMAIN files' : /\ files'[p] \in [report : 1..stored, whole : BOOLEAN]
                                   /\ files'[p].report = files[p].report
      BY <3>2, <3>4 DEF StoreTyped, Folder
    <3> QED
      BY <3>2, <3>5 DEF StoreTyped, Folder
  <2>2. CASE writing \notin DOMAIN files
    BY <2>2 DEF Store!EndUserReport, StoreTyped
  <2> QED
    BY <2>1, <2>2
<1>2. /\ writing' = <<>> /\ UNCHANGED <<stored, nextLow, ids, outbox, delivered, inTime, count, clock, interrupted>>
  BY DEF Store!EndUserReport, Store!sendVars
<1>3. stored' = stored + 0 /\ stored' <= MaxStored
  BY <1>2, StoreBounds DEF StoreTyped
<1>4. ReportWritten(0)
  BY <1>1, <1>2, <1>3 DEF ReportWritten, StoreTyped
<1> QED
  BY <1>4, TypedWhenWritten

\* A report that is added is written to a file of its id, new or not.
LEMMA AddKeepsTypes == StoreTyped /\ Store!AddUserReport => StoreTyped'
<1> SUFFICES ASSUME StoreTyped, Store!AddUserReport PROVE StoreTyped'
  OBVIOUS
<1> DEFINE json == <<nextLow, "json">>
<1>1. PICK whole \in BOOLEAN :
         files' = Store!With(files, json, [report |-> stored + 1, whole |-> whole])
  BY DEF Store!AddUserReport
<1> DEFINE f == [report |-> stored + 1, whole |-> whole]
<1>2. /\ stored \in Nat /\ nextLow \in Nat /\ json \in IdPaths
      /\ f \in [report : {stored + 1}, whole : BOOLEAN] /\ Folder(files, stored)
  BY DEF StoreTyped, IdPaths
<1>3. /\ stored' = stored + 1 /\ stored < MaxStored
      /\ nextLow' = (nextLow + 1) % (SecondsOfIds * IdsPerSecond)
      /\ UNCHANGED <<writing, ids, outbox, delivered, inTime, count, clock, interrupted>>
  BY DEF Store!AddUserReport, Store!Disturb
<1>4. Folder(files', stored')
  <2> HIDE DEF json, f
  <2> QED
    BY <1>1, <1>2, <1>3, FolderGains DEF f
<1>5. nextLow' \in Nat
  BY <1>2, <1>3, IdsAreNumbers
<1>6. ReportWritten(1)
  BY <1>2, <1>3, <1>4, <1>5, StoreBounds DEF ReportWritten, StoreTyped
<1> QED
  BY <1>6, TypedWhenWritten

\* A crash leaves a folder, however far it gets.
LEMMA CrashKeepsTypes == StoreTyped /\ Store!Crash => StoreTyped'
<1> SUFFICES ASSUME StoreTyped, Store!Crash PROVE StoreTyped'
  OBVIOUS
<1>1. /\ stored' = stored + 1 /\ stored < MaxStored /\ stored \in Nat /\ nextLow \in Nat
      /\ nextLow' = (nextLow + 1) % (SecondsOfIds * IdsPerSecond)
      /\ files' \in Store!Leaves(nextLow, stored + 1)
      /\ interrupted' \in Nat
      /\ UNCHANGED <<writing, ids, outbox, delivered, inTime, count, clock>>
  BY DEF Store!Crash, Store!Dies, StoreTyped
<1>2. Folder(files', stored')
  BY <1>1, LeavesAFolder DEF StoreTyped
<1>3. nextLow' \in Nat
  BY <1>1, IdsAreNumbers
<1>4. ReportWritten(1)
  BY <1>1, <1>2, <1>3, StoreBounds DEF ReportWritten, StoreTyped
<1> QED
  BY <1>4, TypedWhenWritten

\* What is sent comes from the folder, and the rest of the steps only remove files.
LEMMA ReadKeepsTypes == StoreTyped /\ Store!Read => StoreTyped'
<1> SUFFICES ASSUME StoreTyped, Store!Read PROVE StoreTyped'
  OBVIOUS
<1> DEFINE p == <<Head(ids), "json">>
           good == Head(ids) > 0 /\ p \in DOMAIN files /\ files[p].whole
<1>1. /\ ids # <<>> /\ ids' = Tail(ids)
      /\ outbox' = IF good THEN Append(outbox, files[p].report) ELSE outbox
      /\ UNCHANGED <<files, stored, writing, nextLow, delivered, inTime, count, clock, interrupted>>
  BY DEF Store!Read, Store!storeVars
<1>2. ids' \in Seq(Nat)
  BY <1>1 DEF StoreTyped
<1>3. ASSUME good
      PROVE  files[p].report \in 1..MaxStored /\ files[p].report <= stored
  <2>1. files[p].report \in 1..stored
    BY <1>3 DEF StoreTyped, Folder
  <2> QED
    BY <2>1, StoreBounds DEF StoreTyped
<1>4. outbox' \in Seq(1..MaxStored) /\ \A i \in 1..Len(outbox') : outbox'[i] <= stored
  <2>1. CASE good
    <3> DEFINE r == files[p].report
    <3>1. outbox' = Append(outbox, r) /\ r \in 1..MaxStored /\ r <= stored
      BY <1>1, <1>3, <2>1
    <3> HIDE DEF r
    <3> QED
      BY <3>1, AppendProperties DEF StoreTyped
  <2>2. CASE ~good
    BY <1>1, <2>2 DEF StoreTyped
  <2> QED
    BY <2>1, <2>2
<1> QED
  BY <1>1, <1>2, <1>4 DEF StoreTyped

\* Sending takes from the outbox and counts a delivery.
LEMMA SendKeepsTypes == StoreTyped /\ Store!Send => StoreTyped'
<1> SUFFICES ASSUME StoreTyped, Store!Send PROVE StoreTyped'
  OBVIOUS
<1>1. /\ outbox # <<>> /\ outbox' = Tail(outbox)
      /\ delivered' \in {delivered, [delivered EXCEPT ![Head(outbox)] = @ + 1]}
      /\ client /\ Head(outbox) \notin Unconvertible => delivered' = [delivered EXCEPT ![Head(outbox)] = @ + 1]
      /\ UNCHANGED <<files, stored, writing, nextLow, ids, inTime, count, clock, interrupted>>
  BY DEF Store!Send, Store!AfterConversion, Store!storeVars
<1>2. /\ outbox' \in Seq(1..MaxStored) /\ Len(outbox') = Len(outbox) - 1 /\ Len(outbox) \in Nat
      /\ \A i \in 1..Len(outbox') : outbox'[i] = outbox[i + 1]
  BY <1>1, HeadTailProperties DEF StoreTyped
<1>3. \A i \in 1..Len(outbox') : outbox'[i] <= stored
  <2>1. \A i \in 1..Len(outbox') : i + 1 \in 1..Len(outbox)
    BY <1>2
  <2> QED
    BY <1>2, <2>1 DEF StoreTyped
<1>4. delivered' \in [1..MaxStored -> Nat]
  <2>1. \A r \in 1..MaxStored : delivered[r] + 1 \in Nat
    BY DEF StoreTyped
  <2> QED
    BY <1>1, <2>1 DEF StoreTyped
<1> QED
  BY <1>1, <1>2, <1>3, <1>4 DEF StoreTyped

\* What a launch finds after pruning is a folder.
LEMMA LaunchKeepsTypes == StoreTyped /\ Store!Launch => StoreTyped'
<1> SUFFICES ASSUME StoreTyped, Store!Launch PROVE StoreTyped'
  OBVIOUS
<1>1. \E gone : files' = Store!Without(files, gone)
  BY DEF Store!Launch
<1>2. Folder(files', stored)
  BY <1>1, FolderShrinks DEF StoreTyped
<1>3. nextLow' \in Nat
  <2>1. nextLow' = (clock % SecondsOfIds) * IdsPerSecond /\ clock \in Nat
    BY DEF StoreTyped, Store!Launch, Store!BaseId
  <2> QED
    BY <2>1, IdsAreNumbers
<1>4. /\ ids' = <<>> /\ outbox' = <<>> /\ writing' = <<>>
      /\ UNCHANGED <<stored, delivered, inTime, count, clock, interrupted>>
  BY DEF Store!Launch
<1>5. ids' \in Seq(Nat) /\ outbox' \in Seq(1..MaxStored)
  BY <1>4
<1>6. \A i \in 1..Len(outbox') : outbox'[i] <= stored'
  BY <1>4
<1>7. Folder(files', stored')
  BY <1>2, <1>4
<1> QED
  BY <1>3, <1>4, <1>5, <1>6, <1>7 DEF StoreTyped

\* A listing is a list of ids.
LEMMA ListingsAreIds ==
  ASSUME NEW n \in Nat, NEW dir, NEW s, Folder(dir, n), NEW k \in Nat, s \in Store!Listings(dir, k)
  PROVE  s \in Seq(Nat)
<1> DEFINE all == Store!Counted(dir)
           taken == IF Cardinality(all) < k THEN Cardinality(all) ELSE k
<1>1. all \subseteq IdPaths /\ IsFiniteSet(all) /\ Cardinality(all) \in Nat
  BY FS_Subset, FS_CardinalityType DEF Folder, Store!Counted
<1>2. taken \in Nat
  BY <1>1
<1>3. PICK low \in 0..(k - taken), S \in SUBSET all :
         s = SubSeq([i \in 1..low |-> 0] \o Store!Sorted(S), 1, taken) /\ Cardinality(S) = taken
  <2> DEFINE taken2 == IF Store!Cardinality(all) < k THEN Store!Cardinality(all) ELSE k
             picks  == {S \in SUBSET all : Store!Cardinality(S) = taken2}
  <2>1. taken2 = taken
    BY StoreCounts
  <2>2. s \in UNION {{SubSeq([i \in 1..low |-> 0] \o Store!Sorted(S), 1, taken2) : low \in 0..(k - taken2)} :
                        S \in picks}
    BY DEF Store!Listings
  <2>3. PICK low \in 0..(k - taken2), S \in picks :
           s = SubSeq([i \in 1..low |-> 0] \o Store!Sorted(S), 1, taken2)
    <3> HIDE DEF taken2, picks
    <3> QED
      BY <2>2
  <2>4. S \in SUBSET all /\ Cardinality(S) = taken
    BY <2>1, StoreCounts
  <2> HIDE DEF taken, taken2, all
  <2> QED
    BY <2>1, <2>3, <2>4
<1>4. Store!Sorted(S) \in Seq(Nat) /\ Len(Store!Sorted(S)) = taken
  BY <1>1, <1>3, FS_Subset, SortedKeepsIds
<1> HIDE DEF taken
<1>5. [i \in 1..low |-> 0] \in Seq(Nat) /\ Len([i \in 1..low |-> 0]) = low
  BY <1>2
<1>6. /\ [i \in 1..low |-> 0] \o Store!Sorted(S) \in Seq(Nat)
      /\ Len([i \in 1..low |-> 0] \o Store!Sorted(S)) = low + taken
  BY <1>4, <1>5, ConcatProperties
<1> QED
  BY <1>2, <1>3, <1>6, SubSeqProperties

\* Deleting leaves a folder, of the files that are left or of none.
LEMMA DeleteKeepsTypes ==
  StoreTyped /\ (Store!DeleteAll \/ \E id : Store!DeleteReport(id)) => StoreTyped'
<1> SUFFICES ASSUME StoreTyped, Store!DeleteAll \/ \E id : Store!DeleteReport(id) PROVE StoreTyped'
  OBVIOUS
<1>1. \E gone : files' = Store!Without(files, gone)
  BY DEF Store!DeleteAll, Store!DeleteReport
<1>2. UNCHANGED <<stored, writing, nextLow, ids, outbox, delivered, inTime, count, clock, interrupted>>
  BY DEF Store!DeleteAll, Store!DeleteReport
<1>3. Folder(files', stored)
  BY <1>1, FolderShrinks DEF StoreTyped
<1> QED
  BY <1>2, <1>3 DEF StoreTyped

\* Counting notes a number of files, and reports of the folder.
LEMMA CountKeepsTypes == StoreTyped /\ Store!Count => StoreTyped'
<1> SUFFICES ASSUME StoreTyped, Store!Count PROVE StoreTyped'
  OBVIOUS
<1>1. /\ count' = Cardinality(Store!Counted(files))
      /\ inTime' = {files[p].report : p \in {q \in Store!Jsons(files) : files[q].whole}}
      /\ UNCHANGED <<files, stored, writing, nextLow, ids, outbox, delivered, clock, interrupted>>
  BY StoreCounts DEF Store!Count, Store!storeVars
<1>2. Store!Counted(files) \subseteq DOMAIN files /\ Store!Jsons(files) \subseteq DOMAIN files
  BY DEF Store!Counted, Store!Jsons
<1>3. count' \in Nat
  <2>1. IsFiniteSet(Store!Counted(files))
    BY <1>2, FS_Subset DEF StoreTyped, Folder
  <2> QED
    BY <1>1, <2>1, FS_CardinalityType
<1>4. inTime' \subseteq 1..stored
  BY <1>1, <1>2 DEF StoreTyped, Folder
<1> QED
  BY <1>1, <1>3, <1>4 DEF StoreTyped

\* What is listed are numbers, junk included.
LEMMA ListKeepsTypes == StoreTyped /\ Store!List => StoreTyped'
<1> SUFFICES ASSUME StoreTyped, Store!List PROVE StoreTyped'
  OBVIOUS
<1>1. /\ ids' \in Store!Listings(files, count)
      /\ UNCHANGED <<files, stored, writing, nextLow, outbox, delivered, inTime, count, clock, interrupted>>
  BY DEF Store!List, Store!storeVars
<1>2. ids' \in Seq(Nat)
  BY <1>1, StoreBounds, ListingsAreIds DEF StoreTyped
<1> QED
  BY <1>1, <1>2 DEF StoreTyped

\* Every step of the store keeps the types.
LEMMA TypedStep == StoreTyped /\ [Store!Next]_storeVars => StoreTyped'
<1> SUFFICES ASSUME StoreTyped, [Store!Next]_storeVars PROVE StoreTyped'
  OBVIOUS
<1>1. CASE Store!Tick \/ Store!Die \/ Store!Dispatch \/ Store!Complete \/ UNCHANGED storeVars
  <2>1. /\ UNCHANGED <<files, stored, writing, nextLow, ids, outbox, delivered, inTime, count>>
        /\ interrupted' \in Nat /\ clock' \in Nat
    BY <1>1 DEF Store!Tick, Store!Die, Store!Dies, Store!Dispatch, Store!Complete, storeVars,
       Store!storeVars, Store!sendVars, StoreTyped
  <2> QED
    BY <2>1 DEF StoreTyped
<1> QED
  BY <1>1, LaunchKeepsTypes, CrashKeepsTypes, BeginKeepsTypes, EndKeepsTypes, AddKeepsTypes,
     DeleteKeepsTypes, CountKeepsTypes, ListKeepsTypes, ReadKeepsTypes, SendKeepsTypes
  DEF Store!Next, Store!Sending

-----------------------------------------------------------------------------
(* CrashReportStore: what a launch leaves.                                 *)

\* What is left of the store is what comes after the entries that were removed: the places of
\* the files that are not moved aside lie behind theirs.
LEMMA PruningKeepsFew ==
  ASSUME StoreTyped, NEW n, n = Len(Store!Excess(files)),
         NEW dir, dir = Store!Without(files, Store!JsonOf({Store!Excess(files)[i] : i \in 1..n}))
  PROVE  Cardinality(Store!Jsons(dir)) <= MaxReportCount
<1> DEFINE counted == Store!Counted(files)
           all == Store!Sorted(counted)
           len == Cardinality(counted)
           k == len - MaxReportCount
           gone == Store!JsonOf({Store!Excess(files)[i] : i \in 1..n})
           left == Store!Jsons(dir)
<1>1. counted \subseteq IdPaths /\ IsFiniteSet(counted) /\ len \in Nat /\ MaxReportCount \in Nat
  BY FS_Subset, FS_CardinalityType, StoreBounds DEF StoreTyped, Folder, Store!Counted
<1>2. /\ all \in Seq(Nat) /\ Len(all) = len
      /\ \A p \in counted : all[Store!Place(counted, p)] = p[1]
  BY <1>1, SortedKeepsIds
<1>3. Store!Excess(files) = SubSeq(all, 1, k)
  BY <1>2 DEF Store!Excess
<1>4. Removed(dir, files, gone)
  BY Zenon, FolderShrinks DEF StoreTyped
<1>5. left \subseteq counted \ gone
  BY <1>4 DEF Store!Jsons, Store!Counted, Removed
<1>6. \A p \in left : p \in IdPaths /\ p = <<p[1], "json">>
  BY <1>1, <1>5 DEF Store!Jsons, IdPaths
<1> HIDE DEF all, left, gone, counted
<1>7. CASE len <= MaxReportCount
  <2>1. left \in SUBSET counted
    BY <1>5
  <2>2. IsFiniteSet(left) /\ Cardinality(left) <= len
    BY <1>1, <2>1, FS_Subset
  <2>3. Cardinality(left) \in Nat
    BY <2>2, FS_CardinalityType
  <2> QED
    BY <1>1, <1>7, <2>2, <2>3 DEF left
<1>8. CASE len > MaxReportCount
  <2>1. k \in 1..len
    BY <1>1, <1>8
  <2>2. /\ n = k /\ \A i \in 1..k : Store!Excess(files)[i] = all[i]
    <3>1. \A i \in 1..k : all[i] \in Nat
      BY <1>1, <1>2, <2>1, ElementOfSeq
    <3>2. /\ Len(SubSeq(all, 1, k)) = k
          /\ \A i \in 1..k : SubSeq(all, 1, k)[i] = all[i]
      BY <1>1, <2>1, <3>1, SubSeqProperties
    <3> QED
      BY <1>3, <3>2
  <2>3. ASSUME NEW p \in left
        PROVE  Store!Place(counted, p) \in (k + 1)..len
    <3>1. Store!Place(counted, p) \in 1..len /\ p \in counted /\ p \notin gone
      BY <1>1, <1>5, PlacesAreTaken
    <3>2. ASSUME Store!Place(counted, p) \in 1..k PROVE FALSE
      <4>1. Store!Excess(files)[Store!Place(counted, p)] = p[1]
        BY <1>2, <2>2, <3>1, <3>2
      <4>2. p \in gone
        BY <1>6, <2>2, <3>2, <4>1 DEF gone, Store!JsonOf
      <4> QED
        BY <3>1, <4>2
    <3> QED
      BY <1>1, <2>1, <3>1, <3>2
  <2> DEFINE place == [p \in left |-> Store!Place(counted, p)]
  <2>4. place \in Injection(left, (k + 1)..len)
    <3>1. \A p, q \in left : Store!Place(counted, p) = Store!Place(counted, q) => p = q
      BY <1>1, <1>5, PlacesAreTaken
    <3> QED
      BY <2>3, <3>1 DEF Injection, IsInjective
  <2>5. IsFiniteSet((k + 1)..len) /\ Cardinality((k + 1)..len) = MaxReportCount
    <3>1. k + 1 \in Int /\ len \in Int
      BY <1>1
    <3>2. /\ IsFiniteSet((k + 1)..len)
          /\ Cardinality((k + 1)..len) = IF k + 1 > len THEN 0 ELSE len - (k + 1) + 1
      BY <3>1, FS_Interval
    <3> QED
      BY <1>1, <2>1, <3>2
  <2> HIDE DEF place
  <2> QED
    BY <2>4, <2>5, FS_Injection DEF left
<1> QED
  BY <1>1, <1>7, <1>8

\* Only a launch starts a process.
LEMMA LaunchKeepsFew ==
  ASSUME StoreTyped, [Store!Next]_storeVars, runs', ~runs
  PROVE  Store!Cardinality(Store!Jsons(files')) <= MaxReportCount
<1>1. Store!Launch
  BY DEF Store!Next, Store!Sending, Store!Tick, Store!Die, Store!Dies, Store!Crash, Store!BeginUserReport,
     Store!EndUserReport, Store!AddUserReport, Store!DeleteReport, Store!Count, Store!List, Store!Read,
     Store!Dispatch, Store!Send, Store!Complete, Store!DeleteAll, storeVars
<1>2. PICK n \in 0..Len(Store!Excess(files)) :
         /\ files' = Store!Without(files, Store!JsonOf({Store!Excess(files)[i] : i \in 1..n}))
         /\ runs' = (n = Len(Store!Excess(files)))
  BY <1>1 DEF Store!Launch
<1>3. n = Len(Store!Excess(files))
  BY <1>2
<1> QED
  BY <1>2, <1>3, PruningKeepsFew, StoreCounts

-----------------------------------------------------------------------------
(* CrashReportStore: nothing that was to be delivered is deleted.          *)

\* Files of reports that were whole when the store was counted.
Sure == {p \in Store!Jsons(files) : files[p].whole /\ files[p].report \in inTime}

\* What sendAllReports has still to read, has read, and has delivered.
ToRead(p)    == \E i \in 1..Len(ids) : ids[i] = p[1]
ToDeliver(p) == \E i \in 1..Len(outbox) : outbox[i] = files[p].report
Delivered(p) == files[p].report \in Unconvertible \/ delivered[files[p].report] > 0

\* A report that was whole stays whole, and goes from the folder to the list of ids, to the
\* outbox and to the hub, unless another thread interferes.
OnItsWay ==
    /\ runs /\ phase \in {"listing", "reading", "sending", "deleting"} =>
         \A p \in Store!Jsons(files) : files[p].report \in inTime => files[p].whole
    /\ runs /\ ~disturbed =>
         /\ phase = "listing" => count = Cardinality(Store!Counted(files))
         /\ phase = "reading" => \A p \in Sure : ToRead(p) \/ ToDeliver(p)
         /\ client /\ phase = "sending" => \A p \in Sure : ToDeliver(p) \/ Delivered(p)
         /\ client /\ phase = "deleting" => \A p \in Sure : Delivered(p)

\* What was whole when counted is not touched by a step but to remove it.
OldStays ==
    \A p \in Store!Jsons(files') :
        files'[p].report \in inTime =>
            /\ p \in Store!Jsons(files) /\ files'[p].report = files[p].report
            /\ files[p].whole => files'[p].whole

\* A step that only writes or removes reports.
LEMMA WayWhenWritten ==
  ASSUME OnItsWay, OldStays, UNCHANGED <<phase, count, ids, outbox, delivered, inTime, client, runs>>,
         disturbed \in BOOLEAN, disturbed => disturbed',
         phase = "listing" /\ ~disturbed' =>
            Cardinality(Store!Counted(files')) = Cardinality(Store!Counted(files))
  PROVE  OnItsWay'
<1>1. ASSUME runs, phase \in {"listing", "reading", "sending", "deleting"}, NEW p \in Sure'
      PROVE  p \in Sure /\ files'[p].report = files[p].report
  BY <1>1 DEF OnItsWay, OldStays, Sure
<1>2. runs /\ phase \in {"listing", "reading", "sending", "deleting"} =>
        \A p \in Store!Jsons(files') : files'[p].report \in inTime => files'[p].whole
  BY DEF OnItsWay, OldStays
<1>3. ASSUME runs, ~disturbed'
      PROVE  /\ phase = "reading" => \A p \in Sure' : ToRead(p)' \/ ToDeliver(p)'
             /\ client /\ phase = "sending" => \A p \in Sure' : ToDeliver(p)' \/ Delivered(p)'
             /\ client /\ phase = "deleting" => \A p \in Sure' : Delivered(p)'
  <2>1. \A p : files'[p].report = files[p].report =>
           /\ ToRead(p) => ToRead(p)'
           /\ ToDeliver(p) => ToDeliver(p)'
           /\ Delivered(p) => Delivered(p)'
    BY DEF ToRead, ToDeliver, Delivered
  <2> HIDE DEF ToRead, ToDeliver, Delivered, Sure
  <2> QED
    BY <1>1, <1>3, <2>1 DEF OnItsWay
<1> QED
  BY <1>2, <1>3 DEF OnItsWay

\* A new report was not there when the store was counted.
LEMMA NewIsNotOld ==
  ASSUME StoreTyped, NEW p, NEW f, f.report = stored + 1, files' = Store!With(files, p, f)
  PROVE  OldStays
<1>1. Created(files', files, p, f)
  BY Zenon, WithFile
<1>2. ~(stored + 1 \in inTime)
  BY DEF StoreTyped
<1>3. \A q \in DOMAIN files' : q # p => q \in DOMAIN files /\ files'[q] = files[q]
  BY <1>1 DEF Created
<1>4. files'[p].report = stored + 1
  BY <1>1 DEF Created
<1> QED
  BY <1>2, <1>3, <1>4 DEF OldStays, Store!Jsons, Store!Counted

\* A user report that is begun is none of those that were counted.
LEMMA WayWhenBegun == StoreTyped /\ OnItsWay /\ disturbed \in BOOLEAN /\ Store!BeginUserReport => OnItsWay'
<1> SUFFICES ASSUME StoreTyped, OnItsWay, disturbed \in BOOLEAN, Store!BeginUserReport PROVE OnItsWay'
  OBVIOUS
<1>1. /\ UNCHANGED <<phase, count, ids, outbox, delivered, inTime, client, runs>>
      /\ disturbed' = (disturbed \/ phase = "listing")
      /\ \/ files' = files
         \/ files' = Store!With(files, <<nextLow, "json">>, [report |-> stored + 1, whole |-> FALSE])
  BY DEF Store!BeginUserReport, Store!Disturb
<1>2. OldStays
  BY <1>1, NewIsNotOld DEF OldStays
<1> QED
  BY <1>1, <1>2, WayWhenWritten

\* Neither is one that is added, though it may be written over one of them.
LEMMA WayWhenAdded == StoreTyped /\ OnItsWay /\ disturbed \in BOOLEAN /\ Store!AddUserReport => OnItsWay'
<1> SUFFICES ASSUME StoreTyped, OnItsWay, disturbed \in BOOLEAN, Store!AddUserReport PROVE OnItsWay'
  OBVIOUS
<1>1. /\ UNCHANGED <<phase, count, ids, outbox, delivered, inTime, client, runs>>
      /\ disturbed' = (disturbed \/ phase = "listing")
  BY DEF Store!AddUserReport, Store!Disturb
<1>2. PICK whole \in BOOLEAN :
         files' = Store!With(files, <<nextLow, "json">>, [report |-> stored + 1, whole |-> whole])
  BY DEF Store!AddUserReport
<1>3. OldStays
  BY <1>2, NewIsNotOld
<1> QED
  BY <1>1, <1>3, WayWhenWritten

\* Finishing a user report changes none that was whole.
LEMMA WayWhenEnded == StoreTyped /\ OnItsWay /\ disturbed \in BOOLEAN /\ Store!EndUserReport => OnItsWay'
<1> SUFFICES ASSUME StoreTyped, OnItsWay, disturbed \in BOOLEAN, Store!EndUserReport PROVE OnItsWay'
  OBVIOUS
<1>1. UNCHANGED <<phase, count, ids, outbox, delivered, inTime, client, runs, disturbed>>
  BY DEF Store!EndUserReport, Store!sendVars
<1>2. /\ DOMAIN files' = DOMAIN files
      /\ \A p \in DOMAIN files : files'[p].report = files[p].report /\ (files[p].whole => files'[p].whole)
  <2>1. CASE writing \in DOMAIN files
    <3>1. files' = [files EXCEPT ![writing].whole = TRUE]
      BY <2>1 DEF Store!EndUserReport
    <3>2. files[writing] \in [report : 1..stored, whole : BOOLEAN]
      BY <2>1 DEF StoreTyped, Folder
    <3>3. /\ DOMAIN files' = DOMAIN files
          /\ \A p \in DOMAIN files : p # writing => files'[p] = files[p]
          /\ files'[writing] = [files[writing] EXCEPT !.whole = TRUE]
      BY <2>1, <3>1
    <3>4. files'[writing].report = files[writing].report /\ files'[writing].whole
      BY <3>2, <3>3
    <3> QED
      BY <3>3, <3>4
  <2>2. CASE writing \notin DOMAIN files
    BY <2>2 DEF Store!EndUserReport
  <2> QED
    BY <2>1, <2>2
<1>3. OldStays /\ Store!Counted(files') = Store!Counted(files)
  BY <1>2 DEF OldStays, Store!Jsons, Store!Counted
<1> QED
  BY <1>1, <1>3, WayWhenWritten

\* A report that another thread deletes is on its way no more, and the sending is disturbed.
LEMMA WayWhenDeleted ==
  OnItsWay /\ disturbed \in BOOLEAN /\ (\E id : Store!DeleteReport(id)) => OnItsWay'
<1> SUFFICES ASSUME OnItsWay, disturbed \in BOOLEAN, NEW id, Store!DeleteReport(id) PROVE OnItsWay'
  OBVIOUS
<1>1. /\ UNCHANGED <<phase, count, ids, outbox, delivered, inTime, client, runs>> /\ disturbed' = TRUE
      /\ files' = Store!Without(files, {<<id, "json">>})
  BY DEF Store!DeleteReport
<1>2. OldStays
  BY <1>1 DEF OldStays, Store!Without, Store!Jsons, Store!Counted
<1> QED
  BY <1>1, <1>2, WayWhenWritten

\* Of two files that are not moved aside, one holds a report.
LEMMA WayWhenCounted == StoreTyped /\ Store!Count => OnItsWay'
<1> SUFFICES ASSUME StoreTyped, Store!Count PROVE OnItsWay'
  OBVIOUS
<1>1. /\ files' = files /\ disturbed' = disturbed
      /\ count' = Cardinality(Store!Counted(files))
      /\ inTime' = {files[p].report : p \in {q \in Store!Jsons(files) : files[q].whole}}
      /\ phase' = IF count' = 0 THEN "deleting" ELSE "listing"
  BY StoreCounts DEF Store!Count, Store!storeVars
<1>2. \A p \in Store!Jsons(files) : p \in DOMAIN files /\ p[2] = "json"
  BY DEF Store!Jsons, Store!Counted
<1>3. \A p \in Store!Jsons(files') : files'[p].report \in inTime' => files'[p].whole
  <2>1. ASSUME NEW p \in Store!Jsons(files), files[p].report \in inTime' PROVE files[p].whole
    <3>1. PICK q \in Store!Jsons(files) : files[q].whole /\ files[q].report = files[p].report
      BY <1>1, <2>1
    <3>2. p = q
      BY <1>2, <3>1 DEF StoreTyped, Folder
    <3> QED
      BY <3>1, <3>2
  <2> QED
    BY <1>1, <2>1
<1>4. phase' = "deleting" => Sure' = {}
  <2>1. IsFiniteSet(Store!Counted(files))
    BY FS_Subset DEF Store!Counted, StoreTyped, Folder
  <2>2. phase' = "deleting" => Store!Counted(files) = {}
    BY <1>1, <2>1, FS_EmptySet
  <2> QED
    BY <1>1, <2>2 DEF Sure, Store!Jsons
<1> HIDE DEF Sure
<1> QED
  BY <1>1, <1>3, <1>4 DEF OnItsWay

\* Asked for as many ids as there are, getReportIDs gives all of them.
LEMMA AllAreListed ==
  ASSUME NEW n \in Nat, NEW dir, Folder(dir, n),
         NEW s, s \in Store!Listings(dir, Cardinality(Store!Counted(dir)))
  PROVE  \A p \in Store!Counted(dir) : \E i \in 1..Len(s) : s[i] = p[1]
<1> DEFINE all == Store!Counted(dir)
           len == Cardinality(all)
<1>1. all \subseteq IdPaths /\ IsFiniteSet(all) /\ len \in Nat
  BY FS_Subset, FS_CardinalityType DEF Folder, Store!Counted
<1>2. PICK low \in 0..(len - len), S \in SUBSET all :
         s = SubSeq([i \in 1..low |-> 0] \o Store!Sorted(S), 1, len) /\ Cardinality(S) = len
  <2> DEFINE taken == IF Store!Cardinality(all) < len THEN Store!Cardinality(all) ELSE len
             picks == {S \in SUBSET all : Store!Cardinality(S) = taken}
  <2>1. taken = len
    BY StoreCounts
  <2>2. s \in UNION {{SubSeq([i \in 1..low |-> 0] \o Store!Sorted(S), 1, taken) : low \in 0..(len - taken)} :
                        S \in picks}
    BY DEF Store!Listings
  <2>3. PICK low \in 0..(len - taken), S \in picks :
           s = SubSeq([i \in 1..low |-> 0] \o Store!Sorted(S), 1, taken)
    <3> HIDE DEF taken, picks, len
    <3> QED
      BY <2>2
  <2>4. S \in SUBSET all /\ Cardinality(S) = len
    BY <2>1, StoreCounts
  <2> HIDE DEF taken, picks, len, all
  <2> QED
    BY <2>1, <2>3, <2>4
<1>3. low = 0
  BY <1>1, <1>2
<1>4. S = all
  BY <1>1, <1>2, FS_Subset
<1>5. /\ Store!Sorted(all) \in Seq(Nat) /\ Len(Store!Sorted(all)) = len
      /\ \A p \in all : /\ Store!Place(all, p) \in 1..len
                        /\ Store!Sorted(all)[Store!Place(all, p)] = p[1]
  BY <1>1, SortedKeepsIds, PlacesAreTaken
<1> HIDE DEF all, len
<1>6. [i \in 1..low |-> 0] = <<>>
  BY <1>3
<1>7. <<>> \o Store!Sorted(all) = Store!Sorted(all)
  BY <1>5, ConcatEmptySeq
<1>8. s = SubSeq(Store!Sorted(all), 1, len)
  BY <1>2, <1>4, <1>6, <1>7
<1>9. \A i \in 1..len : Store!Sorted(all)[i] \in Nat
  BY <1>5, ElementOfSeq
<1>10. Len(s) = len /\ \A i \in 1..len : s[i] = Store!Sorted(all)[i]
  BY <1>1, <1>8, <1>9, SubSeqProperties
<1> QED
  BY <1>5, <1>10 DEF all

\* Of an undisturbed folder all ids are listed.
LEMMA WayWhenListed == StoreTyped /\ OnItsWay /\ Store!List => OnItsWay'
<1> SUFFICES ASSUME StoreTyped, OnItsWay, Store!List PROVE OnItsWay'
  OBVIOUS
<1>1. /\ UNCHANGED <<files, inTime, disturbed, count>> /\ runs /\ phase = "listing" /\ phase' = "reading"
      /\ ids' \in Store!Listings(files, count)
  BY DEF Store!List, Store!storeVars
<1>2. ASSUME ~disturbed PROVE \A p \in Store!Counted(files) : \E i \in 1..Len(ids') : ids'[i] = p[1]
  <2>1. count = Cardinality(Store!Counted(files))
    BY <1>1, <1>2 DEF OnItsWay
  <2>2. stored \in Nat /\ Folder(files, stored)
    BY DEF StoreTyped
  <2> QED
    BY <1>1, <2>1, <2>2, AllAreListed
<1>3. \A p \in Sure' : p \in Store!Counted(files)
  BY <1>1 DEF Sure, Store!Jsons
<1>4. ~disturbed' => \A p \in Sure' : ToRead(p)'
  BY <1>1, <1>2, <1>3 DEF ToRead
<1>5. \A p \in Store!Jsons(files') : files'[p].report \in inTime' => files'[p].whole
  BY <1>1 DEF OnItsWay
<1> HIDE DEF Sure, ToRead, ToDeliver
<1> QED
  BY <1>1, <1>4, <1>5 DEF OnItsWay

\* A report whose id is first is read, as it is whole.
LEMMA WayWhenRead == StoreTyped /\ OnItsWay /\ Store!Read => OnItsWay'
<1> SUFFICES ASSUME StoreTyped, OnItsWay, Store!Read PROVE OnItsWay'
  OBVIOUS
<1> DEFINE p == <<Head(ids), "json">>
           good == Head(ids) > 0 /\ p \in DOMAIN files /\ files[p].whole
<1>1. /\ UNCHANGED <<files, inTime, disturbed, phase>> /\ runs /\ phase = "reading"
      /\ ids # <<>> /\ ids' = Tail(ids)
      /\ outbox' = IF good THEN Append(outbox, files[p].report) ELSE outbox
  BY DEF Store!Read, Store!storeVars
<1>2. /\ Head(ids) = ids[1] /\ Len(ids') = Len(ids) - 1 /\ Len(ids) \in Nat
      /\ \A i \in 1..Len(ids') : ids'[i] = ids[i + 1]
  BY <1>1, HeadTailProperties DEF StoreTyped
<1>3. /\ Len(outbox) \in Nat /\ Len(outbox') \in Nat /\ Len(outbox) <= Len(outbox')
      /\ \A i \in 1..Len(outbox) : outbox'[i] = outbox[i]
      /\ good => Len(outbox') = Len(outbox) + 1 /\ outbox'[Len(outbox')] = files[p].report
  <2>1. CASE good
    <3> DEFINE r == files[p].report
    <3>1. outbox' = Append(outbox, r) /\ outbox \in Seq(1..MaxStored)
      BY <1>1, <2>1 DEF StoreTyped
    <3>2. r \in 1..MaxStored
      <4>1. r \in 1..stored
        BY <2>1 DEF StoreTyped, Folder
      <4> QED
        BY <4>1, StoreBounds DEF StoreTyped
    <3> HIDE DEF r
    <3>3. /\ Len(outbox') = Len(outbox) + 1 /\ Len(outbox) \in Nat
          /\ \A i \in 1..Len(outbox) : outbox'[i] = outbox[i]
          /\ outbox'[Len(outbox) + 1] = r
      BY <3>1, <3>2, AppendProperties
    <3> QED
      BY <3>3 DEF r
  <2>2. CASE ~good
    BY <1>1, <2>2, LenProperties DEF StoreTyped
  <2> QED
    BY <2>1, <2>2
<1>4. Sure' = Sure /\ \A q \in Sure : q \in IdPaths /\ q \in DOMAIN files /\ q = <<q[1], "json">>
                                      /\ q[1] > 0 /\ files[q].whole
  BY <1>1 DEF Sure, Store!Jsons, Store!Counted, StoreTyped, Folder, IdPaths
<1>5. ASSUME ~disturbed, NEW q \in Sure PROVE ToRead(q)' \/ ToDeliver(q)'
  <2>1. ToRead(q) \/ ToDeliver(q)
    BY <1>1, <1>5 DEF OnItsWay
  <2>2. ASSUME ToDeliver(q) PROVE ToDeliver(q)'
    <3>1. PICK i \in 1..Len(outbox) : outbox[i] = files[q].report
      BY <2>2 DEF ToDeliver
    <3>2. i \in 1..Len(outbox')
      BY <1>3
    <3> QED
      BY <1>1, <1>3, <3>1, <3>2 DEF ToDeliver
  <2>3. ASSUME NEW i \in 1..Len(ids), ids[i] = q[1] PROVE ToRead(q)' \/ ToDeliver(q)'
    <3>1. CASE i = 1
      <4>1. p = q
        BY <1>2, <1>4, <2>3, <3>1
      <4>2. good
        BY <1>4, <4>1
      <4> HIDE DEF good, p
      <4>3. Len(outbox') \in 1..Len(outbox') /\ outbox'[Len(outbox')] = files[q].report
        BY <1>3, <4>1, <4>2
      <4> QED
        BY <1>1, <4>3 DEF ToDeliver
    <3>2. CASE i # 1
      <4>1. i - 1 \in 1..Len(ids') /\ ids'[i - 1] = q[1]
        BY <1>2, <2>3, <3>2
      <4> QED
        BY <4>1 DEF ToRead
    <3> QED
      BY <3>1, <3>2
  <2> QED
    BY <2>1, <2>2, <2>3 DEF ToRead
<1>6. \A q \in Store!Jsons(files') : files'[q].report \in inTime' => files'[q].whole
  BY <1>1 DEF OnItsWay
<1> HIDE DEF Sure
<1>7. ~disturbed' => \A q \in Sure' : ToRead(q)' \/ ToDeliver(q)'
  BY <1>1, <1>4, <1>5
<1> QED
  BY <1>1, <1>6, <1>7 DEF OnItsWay

\* A report leaves the outbox when it is delivered, if there is a client.
LEMMA WayWhenSent == StoreTyped /\ OnItsWay /\ Store!Send => OnItsWay'
<1> SUFFICES ASSUME StoreTyped, OnItsWay, Store!Send PROVE OnItsWay'
  OBVIOUS
<1>1. /\ UNCHANGED <<files, inTime, disturbed, phase, client, runs>> /\ runs /\ phase = "sending"
      /\ outbox # <<>> /\ outbox' = Tail(outbox)
      /\ delivered' \in {delivered, [delivered EXCEPT ![Head(outbox)] = @ + 1]}
      /\ client /\ Head(outbox) \notin Unconvertible => delivered' = [delivered EXCEPT ![Head(outbox)] = @ + 1]
  BY DEF Store!Send, Store!AfterConversion, Store!storeVars
<1>2. /\ Head(outbox) = outbox[1] /\ Len(outbox') = Len(outbox) - 1 /\ Len(outbox) \in Nat
      /\ \A i \in 1..Len(outbox') : outbox'[i] = outbox[i + 1]
      /\ Head(outbox) \in 1..MaxStored
  <2>1. outbox \in Seq(1..MaxStored) /\ outbox # <<>>
    BY <1>1 DEF StoreTyped
  <2>2. Head(outbox) \in 1..MaxStored
    BY <2>1, HeadTailProperties
  <2> QED
    BY <1>1, <2>1, <2>2, HeadTailProperties
<1>3. ASSUME ~disturbed, client, NEW q \in Sure PROVE ToDeliver(q)' \/ Delivered(q)'
  <2> DEFINE r == files[q].report
  <2>1. r \in 1..MaxStored /\ files'[q].report = r
    <3>1. r \in 1..stored
      BY DEF Sure, Store!Jsons, Store!Counted, StoreTyped, Folder
    <3> QED
      BY <1>1, <3>1, StoreBounds DEF StoreTyped
  <2>0. CASE r \in Unconvertible
    BY <2>0, <2>1 DEF Delivered
  <2>2. (\E i \in 1..Len(outbox) : outbox[i] = r) \/ r \in Unconvertible \/ delivered[r] > 0
    BY <1>1, <1>3 DEF OnItsWay, ToDeliver, Delivered
  <2> HIDE DEF r
  <2>3. /\ delivered'[r] \in Nat /\ delivered[r] \in Nat /\ delivered'[r] >= delivered[r]
        /\ r = Head(outbox) /\ r \notin Unconvertible => delivered'[r] > 0
    <3>1. delivered[r] \in Nat /\ delivered \in [1..MaxStored -> Nat]
      BY <2>1 DEF StoreTyped
    <3>2. CASE delivered' = delivered
      BY <1>1, <1>2, <1>3, <2>1, <3>1, <3>2
    <3>3. CASE delivered' = [delivered EXCEPT ![Head(outbox)] = @ + 1]
      BY <1>2, <2>1, <3>1, <3>3
    <3> QED
      BY <1>1, <3>2, <3>3
  <2>4. CASE delivered[r] > 0
    BY <2>1, <2>3, <2>4 DEF Delivered
  <2>5. ASSUME NEW i \in 1..Len(outbox), outbox[i] = r PROVE ToDeliver(q)' \/ Delivered(q)'
    <3>1. CASE i = 1
      BY <1>2, <2>0, <2>1, <2>3, <2>5, <3>1 DEF Delivered
    <3>2. CASE i # 1
      <4>1. i - 1 \in 1..Len(outbox') /\ outbox'[i - 1] = r
        BY <1>2, <2>5, <3>2
      <4> QED
        BY <2>1, <4>1 DEF ToDeliver
    <3> QED
      BY <3>1, <3>2
  <2> QED
    BY <2>0, <2>2, <2>4, <2>5
<1>4. Sure' = Sure
  BY <1>1 DEF Sure
<1>5. \A q \in Store!Jsons(files') : files'[q].report \in inTime' => files'[q].whole
  BY <1>1 DEF OnItsWay
<1> HIDE DEF Sure
<1>6. ~disturbed' /\ client' => \A q \in Sure' : ToDeliver(q)' \/ Delivered(q)'
  BY <1>1, <1>3, <1>4
<1> QED
  BY <1>1, <1>5, <1>6 DEF OnItsWay

\* When no id is left to read every report is in the outbox; when none is left there, all are
\* delivered.
LEMMA WayWhenDispatched == StoreTyped /\ OnItsWay /\ (Store!Dispatch \/ Store!Complete) => OnItsWay'
<1> SUFFICES ASSUME StoreTyped, OnItsWay, Store!Dispatch \/ Store!Complete PROVE OnItsWay'
  OBVIOUS
<1>1. UNCHANGED <<files, ids, outbox, delivered, inTime, disturbed, client, runs>> /\ runs
  BY DEF Store!Dispatch, Store!Complete, Store!storeVars
<1>2. Sure' = Sure /\ \A q : /\ ToRead(q) => ids # <<>>
                             /\ ToDeliver(q) => outbox # <<>>
                             /\ ToDeliver(q)' = ToDeliver(q)
                             /\ Delivered(q)' = Delivered(q)
  <2>1. Sure' = Sure /\ \A q : ToDeliver(q)' = ToDeliver(q) /\ Delivered(q)' = Delivered(q)
    BY <1>1 DEF Sure, ToDeliver, Delivered
  <2> QED
    BY <2>1 DEF ToRead, ToDeliver
<1>3. \A q \in Store!Jsons(files') : files'[q].report \in inTime' => files'[q].whole
  BY <1>1 DEF OnItsWay, Store!Dispatch, Store!Complete
<1>4. \/ phase = "reading" /\ ids = <<>> /\ phase' = IF outbox = <<>> THEN "deleting" ELSE "sending"
      \/ phase = "sending" /\ outbox = <<>> /\ phase' = "deleting"
  BY DEF Store!Dispatch, Store!Complete
<1> HIDE DEF Sure, ToRead, ToDeliver, Delivered
<1> QED
  BY <1>1, <1>2, <1>3, <1>4 DEF OnItsWay

\* What no other thread disturbs keeps its way to the hub.
LEMMA WayStep ==
  StoreTyped /\ OnItsWay /\ disturbed \in BOOLEAN /\ [Store!Next]_storeVars => OnItsWay'
<1> SUFFICES ASSUME StoreTyped, OnItsWay, disturbed \in BOOLEAN, [Store!Next]_storeVars PROVE OnItsWay'
  OBVIOUS
<1>1. CASE Store!Tick \/ UNCHANGED storeVars
  <2>1. UNCHANGED <<files, phase, count, ids, outbox, delivered, inTime, client, runs, disturbed>>
    BY <1>1 DEF Store!Tick, Store!storeVars, Store!sendVars, storeVars
  <2>2. OldStays /\ Store!Counted(files') = Store!Counted(files)
    BY <2>1 DEF OldStays
  <2> QED
    BY <2>1, <2>2, WayWhenWritten
<1>2. CASE Store!Launch \/ Store!Die \/ Store!Crash \/ Store!DeleteAll
  <2>1. ~runs' \/ phase' \in {"counting", "done"}
    BY <1>2 DEF Store!Launch, Store!Die, Store!Dies, Store!Crash, Store!DeleteAll
  <2> QED
    BY <2>1 DEF OnItsWay
<1> QED
  BY <1>1, <1>2, WayWhenBegun, WayWhenAdded, WayWhenEnded, WayWhenDeleted, WayWhenCounted,
     WayWhenListed, WayWhenRead, WayWhenSent, WayWhenDispatched
  DEF Store!Next, Store!Sending

\* Only deleteAllReports empties a folder that no other thread disturbs.
LEMMA DeletedWasDelivered ==
  ASSUME StoreTyped, OnItsWay, [Store!Next]_storeVars, runs, client, ~disturbed', files' = <<>>
  PROVE  \A p \in DOMAIN files :
            p \in Store!Jsons(files) /\ files[p].whole /\ files[p].report \in inTime
            => files[p].report \in Unconvertible \/ delivered[files[p].report] > 0
<1>1. DOMAIN files' = {}
  OBVIOUS
<1>2. ASSUME DOMAIN files # {} PROVE Store!DeleteAll
  <2>1. ASSUME NEW p, NEW f, files' = Store!With(files, p, f) PROVE FALSE
    <3>1. Created(files', files, p, f)
      BY <2>1, Zenon, WithFile
    <3> QED
      BY <1>1, <3>1 DEF Created
  <2>2. ~Store!BeginUserReport /\ ~Store!AddUserReport
    BY <1>1, <1>2, <2>1 DEF Store!BeginUserReport, Store!AddUserReport
  <2>3. ~Store!EndUserReport
    BY <1>1, <1>2 DEF Store!EndUserReport
  <2>4. ~Store!Crash
    <3> SUFFICES ASSUME Store!Crash PROVE FALSE
      OBVIOUS
    <3>1. files' \in Store!Leaves(nextLow, stored + 1) /\ nextLow \in Nat /\ stored \in Nat /\ Folder(files, stored)
      BY DEF Store!Crash, StoreTyped
    <3> QED
      BY <1>1, <3>1, LeavesAFolder
  <2>5. ~(\E id : Store!DeleteReport(id))
    BY DEF Store!DeleteReport
  <2>6. files' # files
    BY <1>1, <1>2
  <2>7. ~(Store!Tick \/ Store!Die \/ Store!Count \/ Store!List \/ Store!Read \/ Store!Dispatch \/ Store!Send \/ Store!Complete
          \/ UNCHANGED storeVars)
    BY <2>6 DEF Store!Tick, Store!Die, Store!Count, Store!List, Store!Read, Store!Dispatch, Store!Send,
       Store!Complete, Store!storeVars, storeVars
  <2>8. ~Store!Launch
    BY DEF Store!Launch
  <2> QED
    BY <2>2, <2>3, <2>4, <2>5, <2>7, <2>8 DEF Store!Next, Store!Sending
<1>3. Store!DeleteAll => phase = "deleting" /\ ~disturbed
  BY DEF Store!DeleteAll
<1> QED
  BY <1>2, <1>3 DEF OnItsWay, Sure, Delivered

-----------------------------------------------------------------------------
(* CrashReportStore: a report is delivered once.                           *)

\* A report that may be delivered now, as only deaths have let it come back.
Fresh(r) == r \notin twice => delivered[r] <= interrupted

\* sendAllReports delivers what it has read.
Emptying == runs /\ phase \in {"sending", "deleting"}

Undelivered  == \A r \in 1..MaxStored : r > stored => delivered[r] = 0
OnceAndDead  == \A r \in 1..MaxStored : r \notin twice => delivered[r] <= 1 + interrupted
FilesFresh   == ~Emptying => \A p \in DOMAIN files : Fresh(files[p].report)
OutboxFresh  == \A i \in 1..Len(outbox) : outbox[i] \notin twice =>
                   /\ Fresh(outbox[i])
                   /\ \A j \in 1..Len(outbox) : outbox[j] = outbox[i] => j = i
ReadIsGone   == \A i \in 1..Len(outbox), p \in Store!Jsons(files) :
                   files[p].report = outbox[i] /\ outbox[i] \notin twice =>
                      \A j \in 1..Len(ids) : ids[j] # p[1]

OnceInv ==
    /\ Undelivered /\ OnceAndDead /\ FilesFresh
    /\ runs /\ phase \in {"reading", "sending"} => OutboxFresh
    /\ runs /\ phase = "reading" => ReadIsGone
    /\ runs /\ phase \in {"counting", "listing"} => outbox = <<>>

\* The files after a step are files before it, or one of a new report.
FilesAreOld ==
    \A p \in DOMAIN files' :
       \/ files'[p].report = stored + 1 /\ stored < MaxStored
       \/ p \in DOMAIN files /\ files'[p].report = files[p].report

\* A new report was never delivered, and is not in the outbox.
LEMMA OnceWhenWritten ==
  ASSUME StoreTyped, OnceInv, FilesAreOld,
         UNCHANGED <<phase, ids, outbox, delivered, twice, interrupted, runs>>,
         stored' \in {stored, stored + 1}
  PROVE  OnceInv'
<1>1. stored \in Nat /\ stored' >= stored /\ stored' \in Nat /\ interrupted \in Nat /\ MaxStored \in Nat
  BY StoreBounds DEF StoreTyped
<1>2. \A r : Fresh(r)' = Fresh(r)
  BY DEF Fresh
<1>3. stored < MaxStored => Fresh(stored + 1)
  BY <1>1 DEF Fresh, OnceInv, Undelivered
<1>4. FilesFresh'
  <2>1. Emptying' = Emptying
    BY DEF Emptying
  <2> QED
    BY <1>2, <1>3, <2>1 DEF FilesFresh, FilesAreOld, OnceInv
<1>5. Undelivered' /\ OnceAndDead'
  BY <1>1 DEF Undelivered, OnceAndDead, OnceInv
<1>6. OutboxFresh => OutboxFresh'
  BY <1>2 DEF OutboxFresh
<1>7. ReadIsGone => ReadIsGone'
  <2>1. \A i \in 1..Len(outbox) : outbox[i] # stored + 1
    BY <1>1, ElementOfSeq DEF StoreTyped
  <2>2. \A p \in Store!Jsons(files') :
           files'[p].report = stored + 1 \/ (p \in Store!Jsons(files) /\ files'[p].report = files[p].report)
    BY DEF FilesAreOld, Store!Jsons, Store!Counted
  <2> QED
    BY <2>1, <2>2 DEF ReadIsGone
<1> HIDE DEF Undelivered, OnceAndDead, FilesFresh, OutboxFresh, ReadIsGone
<1> QED
  BY <1>4, <1>5, <1>6, <1>7 DEF OnceInv

\* The other threads.
LEMMA OnceWhenReported ==
  StoreTyped /\ OnceInv
  /\ (Store!BeginUserReport \/ Store!EndUserReport \/ Store!AddUserReport \/ \E id : Store!DeleteReport(id))
  => OnceInv'
<1> SUFFICES ASSUME StoreTyped, OnceInv,
                    Store!BeginUserReport \/ Store!EndUserReport \/ Store!AddUserReport
                    \/ \E id : Store!DeleteReport(id)
             PROVE  OnceInv'
  OBVIOUS
<1>1. /\ UNCHANGED <<phase, ids, outbox, delivered, twice, interrupted, runs>>
      /\ stored' \in {stored, stored + 1}
  BY DEF Store!BeginUserReport, Store!EndUserReport, Store!AddUserReport, Store!DeleteReport, Store!Disturb,
     Store!sendVars
<1>2. ASSUME NEW p, NEW f, f.report = stored + 1, stored < MaxStored, files' = Store!With(files, p, f)
      PROVE  FilesAreOld
  <2>1. Created(files', files, p, f)
    BY <1>2, Zenon, WithFile
  <2>2. \A q \in DOMAIN files' : q # p => q \in DOMAIN files /\ files'[q] = files[q]
    BY <2>1 DEF Created
  <2>3. files'[p].report = stored + 1
    BY <1>2, <2>1 DEF Created
  <2> QED
    BY <1>2, <2>2, <2>3 DEF FilesAreOld
<1>3. CASE Store!BeginUserReport
  <2>1. \/ files' = files
        \/ files' = Store!With(files, <<nextLow, "json">>, [report |-> stored + 1, whole |-> FALSE])
    BY <1>3 DEF Store!BeginUserReport
  <2>2. stored < MaxStored
    BY <1>3 DEF Store!BeginUserReport
  <2>3. FilesAreOld
    BY <1>2, <2>1, <2>2 DEF FilesAreOld
  <2> QED
    BY <1>1, <2>3, OnceWhenWritten
<1>4. CASE Store!AddUserReport
  <2>1. PICK whole \in BOOLEAN :
           files' = Store!With(files, <<nextLow, "json">>, [report |-> stored + 1, whole |-> whole])
    BY <1>4 DEF Store!AddUserReport
  <2>2. stored < MaxStored
    BY <1>4 DEF Store!AddUserReport
  <2>3. FilesAreOld
    BY <1>2, <2>1, <2>2
  <2> QED
    BY <1>1, <2>3, OnceWhenWritten
<1>5. CASE Store!EndUserReport
  <2>1. CASE writing \in DOMAIN files
    <3>1. files' = [files EXCEPT ![writing].whole = TRUE]
      BY <1>5, <2>1 DEF Store!EndUserReport
    <3>2. files[writing] \in [report : 1..stored, whole : BOOLEAN]
      BY <2>1 DEF StoreTyped, Folder
    <3>3. /\ DOMAIN files' = DOMAIN files
          /\ \A p \in DOMAIN files : p # writing => files'[p] = files[p]
          /\ files'[writing] = [files[writing] EXCEPT !.whole = TRUE]
      BY <2>1, <3>1
    <3>4. files'[writing].report = files[writing].report
      BY <3>2, <3>3
    <3> QED
      BY <1>1, <3>3, <3>4, OnceWhenWritten DEF FilesAreOld
  <2>2. CASE writing \notin DOMAIN files
    BY <1>1, <1>5, <2>2, OnceWhenWritten DEF Store!EndUserReport, FilesAreOld
  <2> QED
    BY <2>1, <2>2
<1>6. CASE \E id : Store!DeleteReport(id)
  <2>1. PICK gone : files' = Store!Without(files, gone)
    BY <1>6 DEF Store!DeleteReport
  <2>2. FilesAreOld
    BY <2>1 DEF FilesAreOld, Store!Without
  <2> QED
    BY <1>1, <2>2, OnceWhenWritten
<1> QED
  BY <1>3, <1>4, <1>5, <1>6

\* A death while reports are sent may let each of them be delivered once more.
LEMMA OnceWhenDead ==
  ASSUME StoreTyped, OnceInv, Store!Dies, runs,
         stored' \in {stored, stored + 1}, stored' <= MaxStored,
         \A p \in DOMAIN files' : \/ files'[p].report = stored'
                                  \/ \E q \in DOMAIN files : files[q].report = files'[p].report,
         stored' = stored => files' = files
  PROVE  OnceInv'
<1>1. /\ ~runs' /\ UNCHANGED <<delivered, twice>>
      /\ interrupted' = interrupted + (IF Emptying THEN 1 ELSE 0)
  BY DEF Store!Dies, Emptying
<1>2. stored \in Nat /\ stored' >= stored /\ stored' \in Nat /\ interrupted \in Nat /\ interrupted' \in Nat
      /\ interrupted' >= interrupted
  BY <1>1 DEF StoreTyped
<1>3. Undelivered'
  BY <1>1, <1>2 DEF OnceInv, Undelivered
<1>4. \A r \in 1..MaxStored : delivered[r] \in Nat
  BY DEF StoreTyped
<1>5. OnceAndDead'
  BY <1>1, <1>2, <1>4 DEF OnceInv, OnceAndDead
<1>6. ASSUME NEW p \in DOMAIN files' PROVE files'[p].report \notin twice' => delivered'[files'[p].report] <= interrupted'
  <2>1. CASE stored' = stored + 1 /\ files'[p].report = stored'
    <3>1. stored + 1 \in 1..MaxStored /\ delivered[stored + 1] = 0
      BY <1>2, <2>1, StoreBounds DEF OnceInv, Undelivered
    <3> QED
      BY <1>1, <1>2, <2>1, <3>1
  <2>2. ASSUME NEW q \in DOMAIN files, files[q].report = files'[p].report
        PROVE  files'[p].report \notin twice' => delivered'[files'[p].report] <= interrupted'
    <3> DEFINE r == files[q].report
    <3>1. r \in 1..MaxStored
      <4>1. r \in 1..stored
        BY DEF StoreTyped, Folder
      <4> QED
        BY <4>1, StoreBounds DEF StoreTyped
    <3>2. ~Emptying => Fresh(r)
      BY DEF OnceInv, FilesFresh
    <3>3. r \notin twice => delivered[r] <= 1 + interrupted
      BY <3>1 DEF OnceInv, OnceAndDead
    <3> HIDE DEF r
    <3>4. r \notin twice => delivered[r] <= interrupted'
      BY <1>1, <1>2, <1>4, <3>1, <3>2, <3>3 DEF Fresh
    <3> QED
      BY <1>1, <2>2, <3>4 DEF r
  <2> QED
    BY <2>1, <2>2
<1>7. FilesFresh'
  BY <1>6 DEF FilesFresh, Fresh
<1> QED
  BY <1>1, <1>3, <1>5, <1>7 DEF OnceInv

\* A crash and the end of a process are such deaths.
LEMMA OnceWhenCrashed == StoreTyped /\ OnceInv /\ (Store!Crash \/ Store!Die) => OnceInv'
<1> SUFFICES ASSUME StoreTyped, OnceInv, Store!Crash \/ Store!Die PROVE OnceInv'
  OBVIOUS
<1>1. stored \in Nat /\ stored <= MaxStored /\ MaxStored \in Nat
  BY StoreBounds DEF StoreTyped
<1>2. CASE Store!Crash
  <2>1. /\ Store!Dies /\ runs /\ stored' = stored + 1 /\ stored' <= MaxStored
        /\ files' \in Store!Leaves(nextLow, stored + 1) /\ nextLow \in Nat /\ Folder(files, stored)
    BY <1>1, <1>2, StoreBounds DEF Store!Crash, StoreTyped
  <2>2. \A p \in DOMAIN files' : \/ files'[p].report = stored'
                                 \/ \E q \in DOMAIN files : files[q].report = files'[p].report
    BY <1>1, <2>1, LeavesAFolder
  <2> QED
    BY <1>1, <2>1, <2>2, OnceWhenDead
<1>3. CASE Store!Die
  <2>1. Store!Dies /\ runs /\ UNCHANGED <<stored, files>>
    BY <1>3 DEF Store!Die, Store!storeVars
  <2> QED
    BY <1>1, <2>1, OnceWhenDead
<1> QED
  BY <1>2, <1>3

\* What is read was not read before, or its id is listed once more.
LEMMA OnceWhenRead == StoreTyped /\ OnceInv /\ Store!Read => OnceInv'
<1> SUFFICES ASSUME StoreTyped, OnceInv, Store!Read PROVE OnceInv'
  OBVIOUS
<1> DEFINE p == <<Head(ids), "json">>
           good == Head(ids) > 0 /\ p \in DOMAIN files /\ files[p].whole
           r == files[p].report
<1>1. /\ UNCHANGED <<files, stored, delivered, interrupted, phase, runs>> /\ runs /\ phase = "reading"
      /\ ids # <<>> /\ ids' = Tail(ids)
      /\ outbox' = IF good THEN Append(outbox, r) ELSE outbox
      /\ twice' = IF good /\ Head(ids) \in Store!Range(Tail(ids)) THEN twice \cup {r} ELSE twice
  BY DEF Store!Read, Store!storeVars
<1>2. /\ Head(ids) = ids[1] /\ Len(ids') = Len(ids) - 1 /\ Len(ids) \in Nat /\ Len(ids) >= 1
      /\ \A j \in 1..Len(ids') : ids'[j] = ids[j + 1]
  BY <1>1, HeadTailProperties DEF StoreTyped
<1>3. twice \subseteq twice'
  BY <1>1
<1>4. Undelivered' /\ OnceAndDead' /\ FilesFresh' /\ OutboxFresh /\ ReadIsGone
      /\ \A q \in DOMAIN files : Fresh(files[q].report)
  BY <1>1, <1>3 DEF OnceInv, Undelivered, OnceAndDead, FilesFresh, Fresh, Emptying
<1>5. CASE ~good
  <2>1. outbox' = outbox /\ twice' = twice
    BY <1>1, <1>5
  <2>2. OutboxFresh'
    BY <1>1, <1>4, <2>1 DEF OutboxFresh, Fresh
  <2>3. ReadIsGone'
    <3>1. \A j \in 1..Len(ids') : j + 1 \in 1..Len(ids) /\ ids'[j] = ids[j + 1]
      BY <1>2
    <3> QED
      BY <1>1, <1>4, <2>1, <3>1 DEF ReadIsGone
  <2> QED
    BY <1>1, <1>4, <2>2, <2>3 DEF OnceInv
<1>6. CASE good
  <2>1. outbox' = Append(outbox, r) /\ r \in 1..MaxStored /\ outbox \in Seq(1..MaxStored)
    <3>1. r \in 1..stored
      BY <1>6 DEF StoreTyped, Folder
    <3>2. r \in 1..MaxStored
      BY <3>1, StoreBounds DEF StoreTyped
    <3>3. outbox' = Append(outbox, r)
      BY <1>1, <1>6
    <3> HIDE DEF r
    <3> QED
      BY <3>2, <3>3 DEF StoreTyped
  <2>2. /\ p \in Store!Jsons(files) /\ p[2] = "json" /\ p[1] = ids[1]
        /\ \A q \in Store!Jsons(files) : files[q].report = r => q = p
    BY <1>2, <1>6 DEF Store!Jsons, Store!Counted, StoreTyped, Folder
  <2>3. r \notin twice' => \A j \in 1..Len(ids') : ids'[j] # ids[1]
    <3>1. r \notin twice' => ids[1] \notin Store!Range(ids')
      BY <1>1, <1>2, <1>6
    <3>2. \A j \in 1..Len(ids') : ids'[j] \in Store!Range(ids')
      <4>1. ids' \in Seq(Nat)
        BY <1>1, HeadTailProperties DEF StoreTyped
      <4> QED
        BY <4>1 DEF Store!Range
    <3> QED
      BY <3>1, <3>2
  <2> HIDE DEF r
  <2>4. /\ Len(outbox) \in Nat /\ Len(outbox') = Len(outbox) + 1
        /\ \A i \in 1..Len(outbox) : outbox'[i] = outbox[i]
        /\ outbox'[Len(outbox) + 1] = r
    BY <2>1, AppendProperties
  <2>5. r \notin twice' => \A i \in 1..Len(outbox) : outbox[i] # r
    <3>1. ASSUME r \notin twice', NEW i \in 1..Len(outbox), outbox[i] = r PROVE FALSE
      <4>1. files[p].report = outbox[i] /\ outbox[i] \notin twice
        BY <1>3, <3>1 DEF r
      <4>2. \A j \in 1..Len(ids) : ids[j] # p[1]
        BY <1>4, <2>2, <4>1 DEF ReadIsGone
      <4> QED
        BY <1>2, <2>2, <4>2
    <3> QED
      BY <3>1
  <2>6. Fresh(r)
    BY <1>4, <1>6 DEF r
  <2>7. OutboxFresh'
    <3>1. ASSUME NEW i \in 1..Len(outbox'), outbox'[i] \notin twice'
          PROVE  /\ outbox'[i] \notin twice' => delivered[outbox'[i]] <= interrupted
                 /\ \A j \in 1..Len(outbox') : outbox'[j] = outbox'[i] => j = i
      <4>1. CASE i = Len(outbox) + 1
        <5>1. outbox'[i] = r /\ r \notin twice'
          BY <2>4, <3>1, <4>1
        <5>2. \A j \in 1..Len(outbox') : j = i \/ (j \in 1..Len(outbox) /\ outbox'[j] = outbox[j])
          BY <2>4, <4>1
        <5> QED
          BY <1>3, <2>5, <2>6, <5>1, <5>2 DEF Fresh
      <4>2. CASE i # Len(outbox) + 1
        <5>1. i \in 1..Len(outbox) /\ outbox'[i] = outbox[i]
          BY <2>4, <4>2
        <5>2. outbox[i] \notin twice
          BY <1>3, <3>1, <5>1
        <5>3. /\ delivered[outbox[i]] <= interrupted
              /\ \A j \in 1..Len(outbox) : outbox[j] = outbox[i] => j = i
          BY <1>4, <5>1, <5>2 DEF OutboxFresh, Fresh
        <5>4. \A j \in 1..Len(outbox') : \/ j \in 1..Len(outbox) /\ outbox'[j] = outbox[j]
                                         \/ outbox'[j] = r
          BY <2>4
        <5>5. outbox[i] = r => FALSE
          BY <2>5, <3>1, <5>1
        <5> QED
          BY <5>1, <5>3, <5>4, <5>5
      <4> QED
        BY <4>1, <4>2
    <3> QED
      BY <1>1, <3>1 DEF OutboxFresh, Fresh
  <2>8. ReadIsGone'
    <3>1. ASSUME NEW i \in 1..Len(outbox'), NEW q \in Store!Jsons(files), files[q].report = outbox'[i],
                 outbox'[i] \notin twice', NEW j \in 1..Len(ids')
          PROVE  ids'[j] # q[1]
      <4>1. CASE outbox'[i] = r
        BY <2>2, <2>3, <3>1, <4>1 DEF r
      <4>2. CASE outbox'[i] # r
        <5>1. i \in 1..Len(outbox) /\ outbox'[i] = outbox[i] /\ outbox[i] \notin twice
          BY <1>3, <2>4, <3>1, <4>2
        <5>2. j + 1 \in 1..Len(ids) /\ ids'[j] = ids[j + 1]
          BY <1>2
        <5> QED
          BY <1>4, <3>1, <5>1, <5>2 DEF ReadIsGone
      <4> QED
        BY <4>1, <4>2
    <3> QED
      BY <1>1, <3>1 DEF ReadIsGone
  <2> HIDE DEF good, Undelivered, OnceAndDead, FilesFresh, OutboxFresh, ReadIsGone
  <2> QED
    BY <1>1, <1>4, <2>7, <2>8 DEF OnceInv
<1> QED
  BY <1>5, <1>6

\* What is delivered does not stand in the outbox again.
LEMMA OnceWhenSent == StoreTyped /\ OnceInv /\ Store!Send => OnceInv'
<1> SUFFICES ASSUME StoreTyped, OnceInv, Store!Send PROVE OnceInv'
  OBVIOUS
<1> DEFINE r == Head(outbox)
<1>1. /\ UNCHANGED <<files, stored, twice, interrupted, phase, runs>> /\ runs /\ phase = "sending"
      /\ outbox # <<>> /\ outbox' = Tail(outbox)
      /\ delivered' \in {delivered, [delivered EXCEPT ![r] = @ + 1]}
  BY DEF Store!Send, Store!AfterConversion, Store!storeVars
<1>2. outbox \in Seq(1..MaxStored) /\ r = outbox[1] /\ r \in 1..MaxStored /\ r <= stored
  <2>1. outbox \in Seq(1..MaxStored) /\ \A i \in 1..Len(outbox) : outbox[i] <= stored
    BY DEF StoreTyped
  <2>2. r = outbox[1] /\ 1 \in 1..Len(outbox)
    BY <1>1, <2>1, EmptySeq
  <2>3. outbox[1] \in 1..MaxStored
    BY <2>1, <2>2, ElementOfSeq
  <2> QED
    BY <2>1, <2>2, <2>3
<1>3. /\ Len(outbox') = Len(outbox) - 1 /\ Len(outbox) \in Nat
      /\ \A i \in 1..Len(outbox') : outbox'[i] = outbox[i + 1]
  BY <1>1, <1>2, HeadTailProperties
<1>4. Undelivered /\ OnceAndDead /\ OutboxFresh
  BY <1>1 DEF OnceInv
<1>5. \A s \in 1..MaxStored : /\ delivered[s] \in Nat
                              /\ s # r => delivered'[s] = delivered[s]
                              /\ delivered'[s] \in {delivered[s], delivered[s] + 1}
  BY <1>1, <1>2 DEF StoreTyped
<1>6. Fresh(r)
  <2>1. 1 \in 1..Len(outbox)
    BY <1>1, <1>2, EmptySeq
  <2> QED
    BY <1>2, <1>4, <2>1 DEF OutboxFresh, Fresh
<1>7. interrupted \in Nat /\ stored \in Nat /\ stored' = stored
  BY <1>1 DEF StoreTyped
<1> HIDE DEF r
<1>8. Undelivered'
  <2>1. \A s \in 1..MaxStored : s > stored => s # r
    BY <1>2, <1>7
  <2> QED
    BY <1>1, <1>4, <1>5, <2>1 DEF Undelivered
<1>9. OnceAndDead'
  <2>1. ASSUME NEW s \in 1..MaxStored, s \notin twice PROVE delivered'[s] <= 1 + interrupted
    BY <1>4, <1>5, <1>6, <1>7, <2>1 DEF OnceAndDead, Fresh
  <2> QED
    BY <1>1, <2>1 DEF OnceAndDead
<1>10. OutboxFresh'
  <2>1. ASSUME NEW i \in 1..Len(outbox'), outbox'[i] \notin twice
        PROVE  /\ delivered'[outbox'[i]] <= interrupted
               /\ \A j \in 1..Len(outbox') : outbox'[j] = outbox'[i] => j = i
    <3>1. /\ i + 1 \in 1..Len(outbox) /\ outbox'[i] = outbox[i + 1] /\ 1 \in 1..Len(outbox) /\ i + 1 # 1
          /\ i \in Nat
      BY <1>3
    <3>2. /\ delivered[outbox[i + 1]] <= interrupted
          /\ \A j \in 1..Len(outbox) : outbox[j] = outbox[i + 1] => j = i + 1
      BY <1>4, <2>1, <3>1 DEF OutboxFresh, Fresh
    <3>3. outbox[i + 1] # r
      BY <1>2, <3>1, <3>2
    <3>4. outbox[i + 1] \in 1..MaxStored
      BY <1>2, <3>1, ElementOfSeq
    <3>5. delivered'[outbox[i + 1]] = delivered[outbox[i + 1]]
      BY <1>5, <3>3, <3>4
    <3>6. ASSUME NEW j \in 1..Len(outbox'), outbox'[j] = outbox'[i] PROVE j = i
      <4>1. j + 1 \in 1..Len(outbox) /\ outbox'[j] = outbox[j + 1]
        BY <1>3
      <4>2. j + 1 = i + 1
        BY <3>1, <3>2, <3>6, <4>1
      <4> QED
        BY <3>1, <4>2
    <3> QED
      BY <3>1, <3>2, <3>5, <3>6
  <2> QED
    BY <1>1, <2>1 DEF OutboxFresh, Fresh
<1>11. FilesFresh'
  BY <1>1 DEF FilesFresh, Emptying
<1> HIDE DEF Undelivered, OnceAndDead, FilesFresh, OutboxFresh, ReadIsGone
<1> QED
  BY <1>1, <1>8, <1>9, <1>10, <1>11 DEF OnceInv

\* The steps between reading and deleting, and a launch.
LEMMA OnceWhenMoved ==
  StoreTyped /\ OnceInv
  /\ (Store!Launch \/ Store!Count \/ Store!List \/ Store!Dispatch \/ Store!Complete \/ Store!DeleteAll
      \/ Store!Tick \/ UNCHANGED storeVars)
  => OnceInv'
<1> SUFFICES ASSUME StoreTyped, OnceInv,
                    Store!Launch \/ Store!Count \/ Store!List \/ Store!Dispatch \/ Store!Complete
                    \/ Store!DeleteAll \/ Store!Tick \/ UNCHANGED storeVars
             PROVE  OnceInv'
  OBVIOUS
<1>1. UNCHANGED <<stored, delivered, twice, interrupted>>
  BY DEF Store!Launch, Store!Count, Store!List, Store!Dispatch, Store!Complete, Store!DeleteAll, Store!Tick,
     Store!storeVars, Store!sendVars, storeVars
<1>2. Undelivered' /\ OnceAndDead'
  BY <1>1 DEF OnceInv, Undelivered, OnceAndDead
<1>3. CASE Store!Launch
  <2>1. PICK gone : files' = Store!Without(files, gone)
    BY <1>3 DEF Store!Launch
  <2>2. \A p \in DOMAIN files' : p \in DOMAIN files /\ files'[p] = files[p]
    BY <2>1 DEF Store!Without
  <2>3. ~runs /\ phase' = "counting" /\ outbox' = <<>>
    BY <1>3 DEF Store!Launch
  <2>4. FilesFresh'
    BY <1>1, <2>2, <2>3 DEF OnceInv, FilesFresh, Fresh, Emptying
  <2> HIDE DEF Undelivered, OnceAndDead, FilesFresh, OutboxFresh, ReadIsGone
  <2> QED
    BY <1>2, <2>3, <2>4 DEF OnceInv
<1>4. CASE Store!DeleteAll
  <2>1. DOMAIN files' = {} /\ phase' = "done"
    BY <1>4 DEF Store!DeleteAll, Store!Without
  <2>2. FilesFresh'
    BY <2>1 DEF FilesFresh
  <2> HIDE DEF Undelivered, OnceAndDead, FilesFresh, OutboxFresh, ReadIsGone
  <2> QED
    BY <1>2, <2>1, <2>2 DEF OnceInv
<1>5. CASE Store!Tick \/ UNCHANGED storeVars
  <2>1. UNCHANGED <<files, stored, delivered, twice, interrupted, runs, phase, ids, outbox>>
    BY <1>5 DEF Store!Tick, Store!storeVars, Store!sendVars, storeVars
  <2> QED
    BY <2>1 DEF OnceInv, Undelivered, OnceAndDead, FilesFresh, OutboxFresh, ReadIsGone, Fresh, Emptying
<1>6. CASE Store!Count \/ Store!List
  <2>1. /\ UNCHANGED <<files, outbox, runs>> /\ runs /\ outbox = <<>>
        /\ phase \in {"counting", "listing"} /\ phase' \in {"deleting", "listing", "reading"}
    BY <1>6 DEF Store!Count, Store!List, Store!storeVars, OnceInv
  <2>2. FilesFresh'
    BY <1>1, <2>1 DEF OnceInv, FilesFresh, Fresh, Emptying
  <2>3. OutboxFresh' /\ ReadIsGone'
    BY <2>1 DEF OutboxFresh, ReadIsGone
  <2> HIDE DEF Undelivered, OnceAndDead, FilesFresh, OutboxFresh, ReadIsGone
  <2> QED
    BY <1>2, <2>1, <2>2, <2>3 DEF OnceInv
<1>7. CASE Store!Dispatch \/ Store!Complete
  <2>1. /\ UNCHANGED <<files, outbox, runs>> /\ runs
        /\ phase \in {"reading", "sending"} /\ phase' \in {"deleting", "sending"}
    BY <1>7 DEF Store!Dispatch, Store!Complete, Store!storeVars
  <2>2. FilesFresh'
    BY <2>1 DEF FilesFresh, Emptying
  <2>3. OutboxFresh'
    BY <1>1, <2>1 DEF OnceInv, OutboxFresh, Fresh
  <2> HIDE DEF Undelivered, OnceAndDead, FilesFresh, OutboxFresh, ReadIsGone
  <2> QED
    BY <1>2, <2>1, <2>2, <2>3 DEF OnceInv
<1> QED
  BY <1>3, <1>4, <1>5, <1>6, <1>7

\* Every step of the store keeps reports from being delivered again.
LEMMA OnceStep == StoreTyped /\ OnceInv /\ [Store!Next]_storeVars => OnceInv'
BY OnceWhenReported, OnceWhenCrashed, OnceWhenRead, OnceWhenSent, OnceWhenMoved
DEF Store!Next, Store!Sending

-----------------------------------------------------------------------------
(* CrashReportStore: the theorem.                                          *)

StoreInv == StoreTyped /\ disturbed \in BOOLEAN /\ OnItsWay /\ OnceInv

\* An empty store satisfies the invariant.
LEMMA StoreBegins == Store!Init => StoreInv
<1> SUFFICES ASSUME Store!Init PROVE StoreInv
  OBVIOUS
<1>1. /\ DOMAIN files = {} /\ clock = 0 /\ runs = FALSE /\ nextLow = 0 /\ stored = 0 /\ writing = <<>>
      /\ phase = "done" /\ count = 0 /\ ids = <<>> /\ outbox = <<>>
      /\ delivered = [r \in 1..MaxStored |-> 0] /\ inTime = {} /\ disturbed = FALSE /\ interrupted = 0
  BY DEF Store!Init
<1>2. Folder(files, stored)
  BY <1>1, FS_EmptySet DEF Folder
<1>3. StoreTyped
  BY <1>1, <1>2, StoreBounds DEF StoreTyped
<1>4. OnItsWay
  BY <1>1 DEF OnItsWay
<1>5. OnceInv
  BY <1>1 DEF OnceInv, Undelivered, OnceAndDead, FilesFresh
<1> QED
  BY <1>1, <1>3, <1>4, <1>5 DEF StoreInv

\* Every step of the store keeps the invariant.
LEMMA StoreKeeps == StoreInv /\ [Store!Next]_storeVars => StoreInv'
<1> SUFFICES ASSUME StoreInv, [Store!Next]_storeVars PROVE StoreInv'
  OBVIOUS
<1>1. disturbed' \in BOOLEAN
  BY DEF StoreInv, Store!Next, Store!Sending, Store!Launch, Store!Tick, Store!Die, Store!Dies, Store!Crash,
     Store!BeginUserReport, Store!EndUserReport, Store!AddUserReport, Store!DeleteReport, Store!Disturb,
     Store!Count, Store!List, Store!Read, Store!Dispatch, Store!Send, Store!Complete, Store!DeleteAll,
     Store!sendVars, storeVars
<1> HIDE DEF OnItsWay, OnceInv, StoreTyped
<1>2. StoreTyped' /\ OnItsWay' /\ OnceInv'
  BY TypedStep, WayStep, OnceStep DEF StoreInv
<1> QED
  BY <1>1, <1>2 DEF StoreInv

\* The store keeps its promises whatever part of the run is looked at: pruning leaves no more
\* reports than MaxReportCount, nothing that was to be delivered and can be converted is deleted
\* before it was delivered, and a report that was read once is delivered once, and once more for every death.
THEOREM ReportsKept == MCSpec => ReportsAreKept
<1>1. MCInit => StoreInv
  BY StoreBegins DEF MCInit
<1>2. [MCNext]_MCVars => [Store!Next]_storeVars
  BY DEF MCNext, MCVars, RunState, RunInstall, RunStore
<1>3. StoreInv /\ [Store!Next]_storeVars => StoreInv'
  BY StoreKeeps
<1>4. StoreInv /\ [Store!Next]_storeVars
      => [runs' /\ ~runs => Store!Cardinality(Store!Jsons(files')) <= MaxReportCount]_(Store!vars)
  BY LaunchKeepsFew DEF StoreInv
<1>5. StoreInv /\ [Store!Next]_storeVars
      => [runs /\ client /\ ~disturbed' /\ files' = <<>> =>
            \A p \in DOMAIN files :
               p \in Store!Jsons(files) /\ files[p].whole /\ files[p].report \in inTime
               => files[p].report \in Unconvertible \/ delivered[files[p].report] > 0]_(Store!vars)
  BY DeletedWasDelivered DEF StoreInv
<1>6. StoreInv /\ [Store!Next]_storeVars
      => [\A r \in (1..MaxStored) \ twice' : delivered'[r] <= 1 + interrupted']_(Store!vars)
  <2>1. ASSUME StoreInv' PROVE \A r \in (1..MaxStored) \ twice' : delivered'[r] <= 1 + interrupted'
    BY <2>1 DEF StoreInv, OnceInv, OnceAndDead
  <2> QED
    BY <1>3, <2>1
<1> QED
  BY <1>1, <1>2, <1>3, <1>4, <1>5, <1>6, PTL
  DEF MCSpec, ReportsAreKept, Store!PrunedAtLaunch, Store!SentBeforeDeleted, Store!TwiceOnlyAfterDeath

==============================================================================
