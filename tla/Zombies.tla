-------------------------------- MODULE Zombies --------------------------------
(***************************************************************************)
(* The zombie monitor: what it remembers of objects that are gone, in a    *)
(* cache every dealloc writes to without a lock, and what a report says of *)
(* an address and of the last exception from it.  A crash may come between *)
(* any two steps.                                                          *)
(***************************************************************************)
EXTENDS Naturals, FiniteSets

CONSTANTS Threads, Addresses,
          Slot(_),      \* hashIndex, the slot of an address
          Classes,      \* of objects; an exception is of the class "NSException" or one below it
          Exceptions,   \* the classes that are exceptions
          MaxObjects    \* bound on the objects that are made

VARIABLES
    live,       \* address -> [class, id, text] of the object there, or Gone
    made,       \* the objects so far
    pc,         \* thread -> [step, at] of the dealloc it is in
    cache,      \* slot -> [object, name]
    last,       \* g_lastDeallocedException: the objects its parts are of
    freed,      \* address -> the class of the object that was last released there
    released,   \* the exception whose dealloc has begun last
    mixed       \* slots, and "exception", in which two threads have been at once

vars == <<live, made, pc, cache, last, freed, released, mixed>>

Gone == [class |-> "none", id |-> 0, readable |-> FALSE]
None == "none"
Slots == {Slot(a) : a \in Addresses}
Idle == [step |-> "idle", at |-> None]
IsException(c) == c \in Exceptions

TypeOK ==
    /\ pc \in [Threads -> [step : {"idle", "object", "name", "address", "text", "free"}, at : Addresses \cup {None}]]
    /\ cache \in [Slots -> [object : Addresses \cup {None}, name : Classes \cup {None}]]

Init ==
    /\ live = [a \in Addresses |-> Gone] /\ made = 0
    /\ pc = [t \in Threads |-> Idle]
    /\ cache = [s \in Slots |-> [object |-> None, name |-> None]]
    /\ last = [address |-> None, id |-> 0, name |-> 0]
    /\ freed = [a \in Addresses |-> None] /\ released = Gone /\ mixed = {}
-----------------------------------------------------------------------------
In(t) == live[pc[t].at]
Others(t, s) == \E u \in Threads \ {t} : pc[u].step # "idle" /\ Slot(pc[u].at) = s
At(t, step) == pc' = [pc EXCEPT ![t].step = step]

\* An object is made where there is none; the texts of an exception may be such as can not be read.
Alloc(a, c) ==
    /\ live[a] = Gone /\ made < MaxObjects /\ \A t \in Threads : pc[t].at # a
    /\ made' = made + 1
    /\ \E r \in BOOLEAN : live' = [live EXCEPT ![a] = [class |-> c, id |-> made + 1, readable |-> r]]
    /\ UNCHANGED <<pc, cache, last, freed, released, mixed>>

\* The last reference to an object goes: handleDealloc, then the dealloc it has replaced.
Dealloc(t, a) ==
    /\ pc[t] = Idle /\ live[a] # Gone /\ \A u \in Threads : pc[u].at # a
    /\ pc' = [pc EXCEPT ![t] = [step |-> "object", at |-> a]]
    /\ freed' = [freed EXCEPT ![a] = live[a].class]
    /\ mixed' = mixed \cup (IF Others(t, Slot(a)) THEN {Slot(a)} ELSE {})
                      \cup (IF IsException(live[a].class)
                               /\ \E u \in Threads : pc[u].step # "idle" /\ IsException(In(u).class)
                            THEN {"exception"} ELSE {})
    /\ released' = IF IsException(live[a].class) THEN live[a] ELSE released
    /\ UNCHANGED <<live, made, cache, last>>

StoreObject(t) ==
    /\ pc[t].step = "object" /\ At(t, "name")
    /\ cache' = [cache EXCEPT ![Slot(pc[t].at)].object = pc[t].at]
    /\ UNCHANGED <<live, made, last, freed, released, mixed>>

StoreName(t) ==
    /\ pc[t].step = "name" /\ At(t, IF IsException(In(t).class) THEN "address" ELSE "free")
    /\ cache' = [cache EXCEPT ![Slot(pc[t].at)].name = In(t).class]
    /\ UNCHANGED <<live, made, last, freed, released, mixed>>

\* storeException; texts that can not be read leave what was there.
StoreAddress(t) ==
    /\ pc[t].step = "address" /\ At(t, "text")
    /\ last' = [last EXCEPT !.address = pc[t].at, !.id = In(t).id]
    /\ UNCHANGED <<live, made, cache, freed, released, mixed>>
StoreText(t) ==
    /\ pc[t].step = "text" /\ At(t, "free")
    /\ last' = IF In(t).readable THEN [last EXCEPT !.name = In(t).id] ELSE last
    /\ UNCHANGED <<live, made, cache, freed, released, mixed>>

Free(t) ==
    /\ pc[t].step = "free" /\ pc' = [pc EXCEPT ![t] = Idle]
    /\ live' = [live EXCEPT ![pc[t].at] = Gone]
    /\ UNCHANGED <<made, cache, last, freed, released, mixed>>

Next ==
    \/ \E a \in Addresses : (\E c \in Classes : Alloc(a, c)) \/ (\E t \in Threads : Dealloc(t, a))
    \/ \E t \in Threads : StoreObject(t) \/ StoreName(t) \/ StoreAddress(t) \/ StoreText(t) \/ Free(t)

Spec == Init /\ [][Next]_vars
-----------------------------------------------------------------------------
\* Mutant of ClassName: the slot, whosever it is.
ClassNameOfSlot(a) == cache[Slot(a)].name
\* sentrycrashzombie_className.
ClassName(a) == IF cache[Slot(a)].object = a THEN cache[Slot(a)].name ELSE None

\* What a report, at any time, says of an address, and of the last exception.
ZombieAt(a) == ClassName(a)
LastException == IF last.address = None THEN Gone.id ELSE last.id
-----------------------------------------------------------------------------
Quiet(s) == \A t \in Threads : pc[t].step # "idle" => Slot(pc[t].at) # s

\* The name a report gives the object that was at an address is that of the last one that went from
\* there, unless a dealloc is in its slot or two have been at once.
ZombieHasItsClass ==
    \A a \in Addresses : ZombieAt(a) # None /\ Quiet(Slot(a)) /\ Slot(a) \notin mixed => ZombieAt(a) = freed[a]
\* The exception of a report is the one that went last, and if they can be read its texts are its
\* own, unless one is going or two have been at once.
ExceptionIsTheLast ==
    "exception" \notin mixed /\ (\A t \in Threads : pc[t].step \notin {"object", "name", "address", "text"}) =>
        LastException = released.id /\ (released.readable => last.name = released.id)

(* What the code does not keep. *)

\* Also if two threads release objects of one slot at once, and while a dealloc is in it.
AlsoAtOnce == \A a \in Addresses : ZombieAt(a) # None /\ Quiet(Slot(a)) => ZombieAt(a) = freed[a]
AlsoMeanwhile == \A a \in Addresses : ZombieAt(a) # None /\ Slot(a) \notin mixed => ZombieAt(a) = freed[a]
\* What is called a zombie is not an object that lives, at an address that is used again.
ZombieIsDead == \A a \in Addresses : ZombieAt(a) # None => live[a] = Gone \/ \E t \in Threads : pc[t].at = a
\* The texts of the last exception are its own, even if they could not be read.
TextsAreItsOwn == "exception" \notin mixed /\ (\A t \in Threads : pc[t] = Idle) => last.name = last.id
=============================================================================
