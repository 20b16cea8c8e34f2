------------------------------ MODULE MCAppCalls ------------------------------
(***************************************************************************)
(* What the application does through SteamcLog and its SDK, in one run:    *)
(* user reports and exports over the disk log, what of an object each call *)
(* prints, the destinations it attaches, and the data it sets for crash    *)
(* reports.  They share no state: one of them runs in a behaviour.         *)
(***************************************************************************)
EXTENDS UserReport

CONSTANTS
    Threads,                    \* of the application
    Loggers, Id, MaxAttaches,   \* of Registry
    MaxSteps,                   \* of Redaction
    MaxCrumbs, MaxCalls         \* of ReportData

ASSUME AppCallsAssumption ==
    /\ "none" \notin Loggers /\ "nobody" \notin Threads
    /\ MaxCrumbs \in Nat \ {0} /\ MaxCalls \in Nat /\ MaxAttaches \in Nat

VARIABLES
    part,
    config, shown, steps,    \* of Redaction
    data_scope, data_crumbs, data_text, data_ring, data_current, data_array, data_user,
    data_rules, data_live, data_twice, data_lock, data_call, data_calls, data_history,  \* of ReportData
    reg_list, reg_owner, reg_hears, reg_task, reg_attaches, reg_overlapped, reg_dead   \* of Registry

printVars == <<config, shown, steps>>
dataVars == <<data_scope, data_crumbs, data_text, data_ring, data_current, data_array,
             data_user, data_rules, data_live, data_twice, data_lock, data_call, data_calls,
             data_history>>
registryVars == <<reg_list, reg_owner, reg_hears, reg_task, reg_attaches, reg_overlapped, reg_dead>>
allVars == <<part, vars, readVars, printVars, dataVars, registryVars>>

\* Two of three destinations have the same identifier.
MCId == [first |-> "x", second |-> "x", third |-> "y"]

Idle     == "idle part"
Printing == INSTANCE Redaction
Data == INSTANCE ReportData WITH
    scope <- data_scope, crumbs <- data_crumbs, text <- data_text, ring <- data_ring,
    current <- data_current, array <- data_array, user <- data_user, rules <- data_rules,
    live <- data_live, twice <- data_twice, lock <- data_lock, call <- data_call,
    calls <- data_calls, history <- data_history
Reg == INSTANCE Registry WITH
    list <- reg_list, owner <- reg_owner, hears <- reg_hears, task <- reg_task,
    attaches <- reg_attaches, overlapped <- reg_overlapped, dead <- reg_dead

MCInit ==
    /\ part \in {"reports", "printing", "data", "registry"}
    /\ ReadInit
    /\ IF part = "printing" THEN Printing!Init ELSE config = Idle /\ shown = Idle /\ steps = Idle
    /\ IF part = "data" THEN Data!Init ELSE
            data_scope = Idle /\
            data_crumbs = Idle /\ data_text = Idle /\ data_ring = Idle /\
            data_current = Idle /\ data_array = Idle /\ data_user = Idle /\
            data_rules = Idle /\ data_live = Idle /\ data_twice = Idle /\ data_lock = Idle /\
            data_call = Idle /\ data_calls = Idle /\ data_history = Idle
    /\ IF part = "registry" THEN Reg!Init ELSE
            reg_list = Idle /\ reg_owner = Idle /\ reg_hears = Idle /\ reg_task = Idle /\
            reg_attaches = Idle /\ reg_overlapped = Idle /\ reg_dead = Idle

RunReports  ==
    part = "reports" /\ ReadNext /\ UNCHANGED <<part, printVars, dataVars, registryVars>>
RunPrinting ==
    part = "printing" /\ Printing!Next /\ UNCHANGED <<part, vars, readVars, dataVars, registryVars>>
RunData     ==
    part = "data" /\ Data!Next /\ UNCHANGED <<part, vars, readVars, printVars, registryVars>>
RunRegistry ==
    part = "registry" /\ Reg!Next /\ UNCHANGED <<part, vars, readVars, printVars, dataVars>>

MCNext == RunReports \/ RunPrinting \/ RunData \/ RunRegistry
MCSpec == MCInit /\ [][MCNext]_allVars
-----------------------------------------------------------------------------
\* UserReport: what a user report carries is in the order of the calls, and has all that the two
\* files it names held at the call, unless one of them is rotated or removed meanwhile; and an
\* export misses the current file only between a rename and the reopening.
LogGoesWithReports == part = "reports" => ReportCarriesTheLog /\ LogIsMissingOnlyWhileMoved

\* Redaction: with requireRedacted an object is printed beyond its safe properties in two cases only,
\* and Netable's adapter never prints all of a request's result, whatever config it copied.
RedactionIsRequired == part = "printing" => Printing!RequireRedactedHolds /\ Printing!StaleCopyIsSafe

\* ReportData: wherever the threads are stopped, the texts of the scope are live; the locks keep
\* each text from being freed twice; and after calls that did not overlap the copy holds the scope's
\* data, if JSON can.
DataOfReports ==
    part = "data" => Data!TypeOK /\ Data!HandlerReadsLiveTexts /\ Data!LocksKeepTexts /\ Data!CopyIsTheScope

\* Registry: while one destination is attached at a time, each is with its owner only, and a line
\* is given once to whatever was there during the whole call.
DestinationsAreOwned ==
    part = "registry" => Reg!TypeOK /\ Reg!OwnedOnce /\ Reg!GivenAsOwned

\* README: requireRedacted is to "require that all logged objects conform to Redacted or are all
\* redacted by default".
ObjectsAreRedacted == part = "printing" => Printing!AllRedacted
=============================================================================
