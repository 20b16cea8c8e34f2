----------------------------- MODULE HandlerThreads ----------------------------
(***************************************************************************)
(* Threads while a crash is handled: a handler suspends the others, one    *)
(* after the other, writes, and resumes them; several may do so at a time. *)
(* The C++ monitor keeps the stack of the exception thrown last, of any    *)
(* thread, in one cursor, and uses it when an exception is not caught.     *)
(***************************************************************************)
EXTENDS Naturals, FiniteSets

CONSTANTS
    Threads,
    AtFirst,        \* the threads that exist at first
    Reserved,       \* g_reservedThreads: those that answer Mach exceptions
    MaxHandlers     \* bound on the handlers of a behaviour

VARIABLES
    alive,
    doing,          \* thread -> what it does
    suspended,      \* thread -> its suspend count
    rest,           \* thread -> the threads it has still to suspend or to resume
    held,           \* thread -> those it has suspended and not yet resumed
    strays,         \* suspended threads a handler has resumed that had not suspended them
    g_stackCursor,  \* [of, whole]: whose stack, and whether it was captured to its end
    g_captureNextStackTrace,
    terminating     \* the threads whose exception was not caught

vars == <<alive, doing, suspended, rest, held, strays, g_stackCursor, g_captureNextStackTrace, terminating>>

Nobody == "nobody"
Activities == {"runs", "throwing", "thrown", "suspending", "rethrowing", "writing", "resuming", "done"}

TypeOK ==
    /\ alive \subseteq Threads /\ doing \in [Threads -> Activities] /\ suspended \in [Threads -> Nat]
    /\ rest \in [Threads -> SUBSET Threads] /\ g_captureNextStackTrace \in BOOLEAN
    /\ g_stackCursor \in [of : Threads \cup {Nobody}, whole : BOOLEAN]

Init ==
    /\ alive = AtFirst /\ doing = [t \in Threads |-> "runs"] /\ suspended = [t \in Threads |-> 0]
    /\ rest = [t \in Threads |-> {}] /\ held = [t \in Threads |-> {}] /\ strays = {}
    /\ g_stackCursor = [of |-> Nobody, whole |-> TRUE]
    /\ g_captureNextStackTrace = TRUE /\ terminating = {}

Runs(t)    == t \in alive /\ suspended[t] = 0
Goes(t, a) == doing' = [doing EXCEPT ![t] = a]
-----------------------------------------------------------------------------
Start(u) ==
    /\ u \notin alive /\ (\E t \in alive : Runs(t)) /\ alive' = alive \cup {u}
    /\ UNCHANGED <<doing, suspended, rest, held, strays, g_stackCursor, g_captureNextStackTrace, terminating>>

\* __cxa_throw: the cursor is given up and filled again, by threads that may be suspended in between.
Throw(t) ==
    /\ Runs(t) /\ t \notin Reserved /\ doing[t] = "runs"
    /\ IF g_captureNextStackTrace
       THEN Goes(t, "throwing") /\ g_stackCursor' = [of |-> t, whole |-> FALSE]
       ELSE Goes(t, "thrown") /\ UNCHANGED g_stackCursor
    /\ UNCHANGED <<alive, suspended, rest, held, strays, g_captureNextStackTrace, terminating>>
Captured(t) ==
    /\ Runs(t) /\ doing[t] = "throwing" /\ Goes(t, "thrown")
    /\ g_stackCursor' = [of |-> t, whole |-> TRUE]
    /\ UNCHANGED <<alive, suspended, rest, held, strays, g_captureNextStackTrace, terminating>>
Catch(t) ==
    /\ Runs(t) /\ doing[t] = "thrown" /\ Goes(t, "runs")
    /\ UNCHANGED <<alive, suspended, rest, held, strays, g_stackCursor, g_captureNextStackTrace, terminating>>
-----------------------------------------------------------------------------
Others(t) == alive \ (Reserved \cup {t})

\* A handler begins: that of an exception that is not caught, of a Mach exception, or of a report
\* the program asked for.
Begin(t) ==
    /\ Runs(t) /\ doing[t] \in {"runs", "thrown"} /\ (t \in Reserved => doing[t] = "runs")
    /\ Cardinality({u \in Threads : doing[u] \notin {"runs", "throwing", "thrown"}}) < MaxHandlers
    /\ Goes(t, "suspending") /\ rest' = [rest EXCEPT ![t] = Others(t)]
    /\ terminating' = IF doing[t] = "thrown" THEN terminating \cup {t} ELSE terminating
    /\ UNCHANGED <<alive, suspended, held, strays, g_stackCursor, g_captureNextStackTrace>>

\* Mutant of MoreSuspended: a thread that is suspended is not suspended again.
MoreSuspendedOnce(n) == 1

MoreSuspended(n) == n + 1

Suspend(t, u) ==
    /\ Runs(t) /\ doing[t] = "suspending" /\ u \in rest[t]
    /\ suspended' = [suspended EXCEPT ![u] = MoreSuspended(@)]
    /\ rest' = [rest EXCEPT ![t] = @ \ {u}] /\ held' = [held EXCEPT ![t] = @ \cup {u}]
    /\ UNCHANGED <<alive, doing, strays, g_stackCursor, g_captureNextStackTrace, terminating>>

\* The terminate handler rethrows the exception, without its stack, to describe it, unless it is an
\* NSException, which it leaves to that monitor.
Suspended(t) ==
    /\ Runs(t) /\ doing[t] = "suspending" /\ rest[t] = {}
    /\ \/ /\ t \in terminating /\ Goes(t, "rethrowing") /\ g_captureNextStackTrace' = FALSE
          /\ UNCHANGED terminating
       \/ /\ Goes(t, "writing") /\ terminating' = terminating \ {t} /\ UNCHANGED g_captureNextStackTrace
    /\ UNCHANGED <<alive, suspended, rest, held, strays, g_stackCursor>>
Rethrown(t) ==
    /\ Runs(t) /\ doing[t] = "rethrowing" /\ Goes(t, "writing") /\ g_captureNextStackTrace' = TRUE
    /\ UNCHANGED <<alive, suspended, rest, held, strays, g_stackCursor, terminating>>

\* The report is written; the threads to be resumed are those that exist now.
Written(t) ==
    /\ Runs(t) /\ doing[t] = "writing" /\ Goes(t, "resuming")
    /\ rest' = [rest EXCEPT ![t] = Others(t)]
    /\ UNCHANGED <<alive, suspended, held, strays, g_stackCursor, g_captureNextStackTrace, terminating>>

\* Mutant of LessSuspended: the count is cleared.
LessSuspendedAll(n) == 0

LessSuspended(n) == IF n > 0 THEN n - 1 ELSE 0

Resume(t, u) ==
    /\ Runs(t) /\ doing[t] = "resuming" /\ u \in rest[t]
    /\ suspended' = [suspended EXCEPT ![u] = LessSuspended(@)]
    /\ rest' = [rest EXCEPT ![t] = @ \ {u}] /\ held' = [held EXCEPT ![t] = @ \ {u}]
    /\ strays' = IF u \in held[t] \/ suspended[u] = 0 THEN strays ELSE strays \cup {u}
    /\ UNCHANGED <<alive, doing, g_stackCursor, g_captureNextStackTrace, terminating>>
Resumed(t) ==
    /\ Runs(t) /\ doing[t] = "resuming" /\ rest[t] = {} /\ Goes(t, "done")
    /\ UNCHANGED <<alive, suspended, rest, held, strays, g_stackCursor, g_captureNextStackTrace, terminating>>

Next ==
    \/ \E t \in Threads : \/ Start(t) \/ Throw(t) \/ Captured(t) \/ Catch(t) \/ Begin(t)
                          \/ Suspended(t) \/ Rethrown(t) \/ Written(t) \/ Resumed(t)
    \/ \E t, u \in Threads : Suspend(t, u) \/ Resume(t, u)
Spec == Init /\ [][Next]_vars
-----------------------------------------------------------------------------
Handling(t) == doing[t] \in {"rethrowing", "writing"}

\* Several handlers at a time: while one writes, none of the threads it has suspended runs, what
\* ever the others resume; those that answer Mach exceptions always can; and when the last
\* handler is through, every thread runs.
OthersStandStill ==
    \A t \in Threads : Handling(t) => \A u \in held[t] \ strays : suspended[u] > 0
ReservedRun == \A t \in Reserved : suspended[t] = 0
EverybodyRunsAgain ==
    (\A t \in Threads : doing[t] \in {"runs", "throwing", "thrown", "done"}) =>
        \A t \in Threads : suspended[t] = 0
\* The cursor a report is written from does not change under it.
CursorStays ==
    \A t \in terminating : Handling(t) /\ alive \subseteq held[t] \cup Reserved \cup {t} /\ strays = {} =>
        g_stackCursor' = g_stackCursor
CursorStandsStill == [][CursorStays]_vars

(* What the code does not keep. *)

\* The cursor is that of the exception, and whole: another thread may have thrown meanwhile, or
\* was suspended while it filled the cursor.
CursorIsOfTheException == \A t \in terminating : Handling(t) => g_stackCursor.of = t
CursorIsWhole == \A t \in terminating : Handling(t) => g_stackCursor.whole
\* Nobody runs while a report is written: a thread that was started meanwhile does, and if another
\* handler resumes it, also one that was suspended.
NobodyIsStray == strays = {}
=============================================================================
