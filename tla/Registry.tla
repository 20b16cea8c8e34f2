------------------------------ MODULE Registry ------------------------------
(***************************************************************************)
(* The destinations of a logger: SteamcLog.attach and XCGLogger.add, which *)
(* takes a destination away from the logger that had it, while threads log.*)
(* The array of destinations is a value: a call goes through the one it    *)
(* read, and whoever changes it reads it, makes another and stores that.   *)
(* Nothing is locked.                                                      *)
(***************************************************************************)
EXTENDS Naturals, Sequences, FiniteSets, SequencesExt

CONSTANTS Threads,     \* threads of the application
          Loggers,     \* XCGLogger instances, one for each SteamcLog
          Id,          \* identifier of each destination the application attaches
          MaxAttaches  \* bound: how often destinations are attached

Targets == DOMAIN Id

None == "none"

VARIABLES list,       \* destinations of each logger
          owner,      \* owner of each destination: a logger or None
          hears,      \* for each destination: its outputLevel lets lines through
          task,       \* for each thread: what it is in the middle of
          attaches,   \* destinations attached so far
          overlapped, \* destinations were attached by two threads at the same time
          dead        \* an array was read while it was stored, and the process crashed

vars == <<list, owner, hears, task, attaches, overlapped, dead>>

-----------------------------------------------------------------------------
Idle == [at |-> "idle"]

Attaching(t) == task[t].at \in {"find", "leave", "filter", "own", "append", "store"}

\* The destinations that are being attached.
Moving == {task[t].target : t \in {u \in Threads : Attaching(u)}}

\* destination(withIdentifier:)
Has(array, id) == \E i \in DOMAIN array : Id[array[i]] = id

\* Mutant of WithoutOwnerless: the oldest destination goes.
WithoutFirst(array) == IF array = <<>> THEN <<>> ELSE Tail(array)

\* Swift's filter, with the set of what passes the test.
Chosen(array, keep) ==
    FlattenSeq([i \in DOMAIN array |-> IF array[i] \in keep THEN <<array[i]>> ELSE <<>>])

\* remove: destinations.filter({$0.owner != nil})
WithoutOwnerless(array) == Chosen(array, {d \in Targets : owner[d] # None})

\* The array of a logger is about to be replaced by another thread.
BeingStored(l, t) == \E u \in Threads \ {t} : task[u].at = "store" /\ task[u].into = l

Init ==
    /\ list = [l \in Loggers |-> <<>>]
    /\ owner = [d \in Targets |-> None] /\ hears \in [Targets -> BOOLEAN]
    /\ task = [t \in Threads |-> Idle]
    /\ attaches = 0 /\ overlapped = FALSE /\ dead = FALSE

Go(t, next) == task' = [task EXCEPT ![t] = next]

(* attach: the level is set first, whether the destination is taken or not. *)
Attach(t) ==
    /\ task[t] = Idle /\ attaches < MaxAttaches
    /\ \E l \in Loggers, d \in Targets, on \in BOOLEAN :
          /\ hears' = [hears EXCEPT ![d] = on]
          /\ task' = [u \in Threads |->
                        IF u = t THEN [at |-> "find", logger |-> l, target |-> d]
                        ELSE IF task[u].at = "log" THEN [task[u] EXCEPT !.due = @ \ {d}]
                        ELSE task[u]]
    /\ attaches' = attaches + 1
    /\ overlapped' = (overlapped \/ \E u \in Threads : Attaching(u))
    /\ UNCHANGED <<list, owner, dead>>

\* Mutant of AfterFind: the previous owner is not asked to let go.
AfterFindOwning(k) == "own"

\* add: what another logger owns leaves it first.
AfterFind(k) == IF owner[k.target] = None THEN "own" ELSE "leave"

\* Mutant of Taken: an identifier may be taken twice.
TakenTwice(k) == Has(Chosen(list[k.logger], {k.target}), Id[k.target])

\* add: the identifier is taken already.
Taken(k) == Has(list[k.logger], Id[k.target])

(* add: false if the identifier is taken. *)
Find(t) ==
    /\ task[t].at = "find"
    /\ Go(t, IF Taken(task[t]) THEN Idle
             ELSE [task[t] EXCEPT !.at = AfterFind(task[t])])
    /\ UNCHANGED <<list, owner, hears, attaches, overlapped, dead>>

(* previousOwner.remove: its guards, and the owner is cleared.  An owner that a second
   attach of the destination has cleared in between is no owner to ask. *)
Leave(t) ==
    /\ task[t].at = "leave"
    /\ LET k == task[t]  previous == owner[k.target]
       IN  IF previous # None /\ Has(list[previous], Id[k.target])
             THEN /\ owner' = [owner EXCEPT ![k.target] = None]
                  /\ Go(t, [at |-> "filter", logger |-> k.logger, target |-> k.target, previous |-> previous])
             ELSE Go(t, [k EXCEPT !.at = "own"]) /\ UNCHANGED owner
    /\ UNCHANGED <<list, hears, attaches, overlapped, dead>>

(* remove: the array without what has no owner, to be stored. *)
Filter(t) ==
    /\ task[t].at = "filter"
    /\ LET k == task[t]
       IN  Go(t, [at |-> "store", logger |-> k.logger, target |-> k.target, next |-> "own",
                  into |-> k.previous, array |-> WithoutOwnerless(list[k.previous])])
    /\ UNCHANGED <<list, owner, hears, attaches, overlapped, dead>>

(* add: destination.owner = self *)
Own(t) ==
    /\ task[t].at = "own"
    /\ owner' = [owner EXCEPT ![task[t].target] = task[t].logger]
    /\ Go(t, [task[t] EXCEPT !.at = "append"])
    /\ UNCHANGED <<list, hears, attaches, overlapped, dead>>

(* add: destinations.append *)
AppendTarget(t) ==
    /\ task[t].at = "append"
    /\ LET k == task[t]
       IN  Go(t, [at |-> "store", logger |-> k.logger, target |-> k.target, next |-> "idle",
                  into |-> k.logger, array |-> Append(list[k.logger], k.target)])
    /\ UNCHANGED <<list, owner, hears, attaches, overlapped, dead>>

(* The array is replaced by the one that was made. *)
Store(t) ==
    /\ task[t].at = "store"
    /\ list' = [list EXCEPT ![task[t].into] = task[t].array]
    /\ Go(t, IF task[t].next = "idle" THEN Idle
             ELSE [at |-> "own", logger |-> task[t].logger, target |-> task[t].target])
    /\ UNCHANGED <<owner, hears, attaches, overlapped, dead>>

(* logln reads the array and keeps those that are enabled (LogDispatch tests them
   one by one); due is what was there all the time. *)
Log(t) ==
    /\ task[t] = Idle
    /\ \E l \in Loggers :
          LET enabled == Chosen(list[l], {d \in Targets : hears[d]})
          IN  Go(t, [at |-> "log", logger |-> l, enabled |-> enabled, given |-> <<>>,
                     due |-> {d \in Targets \ Moving : owner[d] = l /\ hears[d]}])
    /\ UNCHANGED <<list, owner, hears, attaches, overlapped, dead>>

Deliver(t) ==
    /\ task[t].at = "log" /\ task[t].enabled # <<>>
    /\ Go(t, [task[t] EXCEPT !.enabled = Tail(@), !.given = Append(@, Head(task[t].enabled))])
    /\ UNCHANGED <<list, owner, hears, attaches, overlapped, dead>>

EndLog(t) ==
    /\ task[t].at = "log" /\ task[t].enabled = <<>>
    /\ Go(t, Idle)
    /\ UNCHANGED <<list, owner, hears, attaches, overlapped, dead>>

(* An array that is read while it is stored may be one that is freed already. *)
Torn(t) ==
    /\ \E l \in Loggers : BeingStored(l, t)
    /\ \/ task[t] = Idle \/ task[t].at \in {"find", "leave", "filter", "append"}
    /\ dead' = TRUE
    /\ UNCHANGED <<list, owner, hears, task, attaches, overlapped>>

Next == ~dead /\ \E t \in Threads : \/ Attach(t) \/ Find(t) \/ Leave(t) \/ Filter(t) \/ Own(t)
                                    \/ AppendTarget(t) \/ Store(t)
                                    \/ Log(t) \/ Deliver(t) \/ EndLog(t) \/ Torn(t)

Spec == Init /\ [][Next]_vars
-----------------------------------------------------------------------------
(* Properties. *)

\* What a thread is in the middle of.
Asking   == [at : {"find", "leave", "own", "append"}, logger : Loggers, target : Targets]
Removing == [at : {"filter"}, logger : Loggers, target : Targets, previous : Loggers]
Storing  == [at : {"store"}, logger : Loggers, target : Targets, next : {"own", "idle"},
             into : Loggers, array : Seq(Targets)]
Logging  == [at : {"log"}, logger : Loggers, enabled : Seq(Targets), given : Seq(Targets),
             due : SUBSET Targets]

Tasks == {Idle} \cup Asking \cup Removing \cup Storing \cup Logging

TypeOK ==
    /\ list \in [Loggers -> Seq(Targets)]
    /\ owner \in [Targets -> Loggers \cup {None}] /\ hears \in [Targets -> BOOLEAN]
    /\ task \in [Threads -> Tasks] /\ attaches \in 0..MaxAttaches
    /\ overlapped \in BOOLEAN /\ dead \in BOOLEAN

\* As long as one destination is attached at a time, whichever threads log meanwhile: a logger
\* has each identifier once, and a destination that is not on the move is with its owner only.
OwnedOnce ==
    ~overlapped =>
        /\ \A l \in Loggers :
              /\ \A i, j \in DOMAIN list[l] : Id[list[l][i]] = Id[list[l][j]] => i = j
              /\ \A d \in ToSet(list[l]) \ Moving : owner[d] = l
        /\ \A d \in Targets \ Moving : owner[d] # None => d \in ToSet(list[owner[d]])

\* A line is given once to every destination that was its logger's and let it through all the
\* time, although destinations come and go during the call; and never twice to one.
GivenAsOwned ==
    ~overlapped =>
        \A t \in Threads : task[t].at = "log" =>
            /\ IsInjective(task[t].given \o task[t].enabled)
            /\ task[t].due \subseteq ToSet(task[t].given \o task[t].enabled)

\* Not kept: the same when two threads attach at once, and no array is read while it is stored.
OwnedOnceAlways == \A d \in Targets \ Moving : owner[d] # None => d \in ToSet(list[owner[d]])
NothingTorn == ~dead
=============================================================================
