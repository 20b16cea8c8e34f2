------------------------------ MODULE ReportData -------------------------------
(***************************************************************************)
(* Data the application sets and crash reports read: the scope, which the  *)
(* SDK keeps as objects and copies, as JSON texts, to where a handler can  *)
(* read it; breadcrumbs in a ring; the user's JSON; the classes that must  *)
(* not be looked into.  Threads set them, under the locks the code takes;  *)
(* a handler may stop all of them between any two steps.                   *)
(***************************************************************************)
EXTENDS Naturals, Sequences, FiniteSets, SequencesExt

CONSTANTS
    Threads,
    MaxCrumbs,     \* maxBreadcrumbs: of the scope, and of its copy
    MaxCalls       \* bound: calls of the application

VARIABLES
    scope,         \* SentryScope: field -> number of the call that set it, 0: nil
    crumbs,        \* SentryScope's _breadcrumbArray
    text,          \* SentryCrashScope: field -> the text, named by the call that made it, 0: NULL
    ring,          \* scope.breadcrumbs, of the same kind
    current,       \* scope.currentCrumb
    array,         \* the memory of the ring: "null", "ready", "freed", "garbage"
    user,          \* g_userInfoJSON
    rules,         \* g_introspectionRules: [classes, count]; classes: how many the array has
    live,          \* texts that are allocated
    twice,         \* fields, and "ring", a text of which was freed twice
    lock,          \* lock -> its thread
    call,          \* thread -> what it does: [op, ...]
    calls, history \* calls so far; their kinds

vars == <<scope, crumbs, text, ring, current, array, user, rules, live, twice, lock, call, calls, history>>

Nil == 0
Locked   == {"extra", "context"}      \* set under a lock of their own, as tags and fingerprint
Unlocked == {"user"}                  \* and dist, environment and level
Fields   == Locked \cup Unlocked
Field(f) == [of |-> f, at |-> 0]
Slot(i)  == [of |-> "ring", at |-> i]
Locks    == Locked \cup {"crumbs", "userInfo"}
Idle     == [op |-> "idle", todo |-> <<>>]
Free_    == "nobody"

TypeOK ==
    /\ DOMAIN text = Fields /\ DOMAIN ring = 0..(MaxCrumbs - 1) /\ current \in 0..(MaxCrumbs - 1)
    /\ live \subseteq 1..MaxCalls /\ Len(crumbs) <= MaxCrumbs /\ Len(history) = calls
    /\ array \in {"null", "ready", "freed", "garbage"}

Init ==
    /\ scope = [f \in Fields |-> Nil] /\ crumbs = <<>>
    /\ text = [f \in Fields |-> Nil] /\ ring = [i \in 0..(MaxCrumbs - 1) |-> Nil]
    /\ current = 0 /\ array \in {"null", "ready"} /\ user = Nil /\ rules = [classes |-> 0, count |-> 0]
    /\ live = {} /\ twice = {} /\ lock = [l \in Locks |-> Free_]
    /\ call = [t \in Threads |-> Idle] /\ calls = 0 /\ history = <<>>

At(p) == IF p.of = "ring" THEN ring[p.at] ELSE text[p.of]
Put(p, x) ==
    IF p.of = "ring" THEN ring' = [ring EXCEPT ![p.at] = x] /\ UNCHANGED text
    ELSE text' = [text EXCEPT ![p.of] = x] /\ UNCHANGED ring

Doing(op) == \E t \in Threads : call[t].op = op
Quiet     == \A t \in Threads : call[t] = Idle

\* The scope is observed once the SDK has started: no call on it overlaps a start.
Begin(t, op, todo) ==
    /\ call[t] = Idle /\ calls < MaxCalls /\ ~Doing("configure")
    /\ calls' = calls + 1 /\ history' = Append(history, [op |-> op, alone |-> Quiet])
    /\ call' = [call EXCEPT ![t] = [op |-> op, todo |-> todo]]
Took(t, l) == lock[l] = Free_ /\ lock' = [lock EXCEPT ![l] = t]
Step(t, what) == call[t].todo # <<>> /\ Head(call[t].todo)[1] = what
Rest(t) == Tail(call[t].todo)
-----------------------------------------------------------------------------
(* What a call does is a sequence of steps, each of which others may see:  *)
(* <<"load", p>>, <<"drop", p, old>>, <<"store", p, new>> for a field or a *)
(* slot of the ring, and steps on what belongs to all.                     *)

SetField(p, new) == <<<<"load", p, new>>>>

\* setUser and the like; setTag and the like, setContextValue, removeExtra...
SetUnlocked(t) ==
    \E f \in Unlocked, set \in BOOLEAN :
        /\ Begin(t, f, SetField(Field(f), IF set THEN calls + 1 ELSE Nil))
        /\ scope' = [scope EXCEPT ![f] = IF set THEN calls + 1 ELSE Nil]
        /\ UNCHANGED <<crumbs, text, ring, current, array, user, rules, live, twice, lock>>

SetLocked(t) ==
    \E f \in Locked, set \in BOOLEAN :
        /\ Took(t, f)
        /\ Begin(t, f, SetField(Field(f), IF set THEN calls + 1 ELSE Nil) \o <<<<"unlock", f>>>>)
        /\ scope' = [scope EXCEPT ![f] = IF set THEN calls + 1 ELSE Nil]
        /\ UNCHANGED <<crumbs, text, ring, current, array, user, rules, live, twice>>

\* removeContextForKey hands what is left of the contexts on as the extras.
RemoveContext(t) ==
    /\ Took(t, "context") /\ scope["context"] # Nil
    /\ \E left \in {Nil, calls + 1} :
          /\ Begin(t, "removeContext", SetField(Field("extra"), left) \o <<<<"unlock", "context">>>>)
          /\ scope' = [scope EXCEPT !["context"] = left]
    /\ UNCHANGED <<crumbs, text, ring, current, array, user, rules, live, twice>>

WithCrumb(n) ==
    LET all == Append(crumbs, n) IN IF Len(all) > MaxCrumbs THEN Tail(all) ELSE all

AddBreadcrumb(t) ==
    /\ Took(t, "crumbs")
    /\ Begin(t, "crumb", <<<<"crumb", calls + 1>>, <<"unlock", "crumbs">>>>)
    /\ crumbs' = WithCrumb(calls + 1)
    /\ UNCHANGED <<scope, text, ring, current, array, user, rules, live, twice>>

\* A value or a crumb that JSON cannot hold: the scope has it, its copy stays as it was.  Nobody
\* else can look between the lock and the unlock, so it is one step.
NotEncoded(t) ==
    /\ call[t] = Idle /\ calls < MaxCalls /\ ~Doing("configure")
    /\ calls' = calls + 1 /\ history' = Append(history, [op |-> "unencoded", alone |-> Quiet])
    /\ \/ \E f \in Fields :
             /\ f \in Locked => lock[f] = Free_
             /\ scope' = [scope EXCEPT ![f] = calls + 1] /\ UNCHANGED crumbs
       \/ lock["crumbs"] = Free_ /\ crumbs' = WithCrumb(calls + 1) /\ UNCHANGED scope
    /\ UNCHANGED <<text, ring, current, array, user, rules, live, twice, lock, call>>

ClearSlots == [i \in 1..MaxCrumbs |-> <<"load", Slot(i - 1), Nil>>] \o <<<<"rewind">>>>

ClearBreadcrumbs(t) ==
    /\ Took(t, "crumbs")
    /\ Begin(t, "clearCrumbs", <<<<"crumbs?", ClearSlots>>, <<"unlock", "crumbs">>>>)
    /\ crumbs' = <<>>
    /\ UNCHANGED <<scope, text, ring, current, array, user, rules, live, twice>>

\* The objects are cleared under the locks, their copies without; the objects of all fields
\* here at once.
Clear(t) ==
    /\ \A l \in Locks : lock[l] = Free_
    /\ Begin(t, "clear", SetToSeq({<<"load", Field(f), Nil>> : f \in Fields}) \o <<<<"crumbs?", ClearSlots>>>>)
    /\ scope' = [f \in Fields |-> Nil] /\ crumbs' = <<>>
    /\ UNCHANGED <<text, ring, current, array, user, rules, live, twice, lock>>

\* A start of the SDK.
Configure(t) ==
    /\ Quiet
    /\ Begin(t, "configure", <<<<"rewind">>, <<"freeArray">>, <<"malloc">>, <<"memset">>>>)
    /\ UNCHANGED <<scope, crumbs, text, ring, current, array, user, rules, live, twice, lock>>

\* These two share nothing with other calls, which are not made to overlap them.
SetUserInfo(t) ==
    /\ Quiet /\ Took(t, "userInfo")
    /\ Begin(t, "userInfo", <<<<"freeUser">>, <<"storeUser", calls + 1>>, <<"unlock", "userInfo">>>>)
    /\ UNCHANGED <<scope, crumbs, text, ring, current, array, user, rules, live, twice>>

SetClasses(t) ==
    \E n \in 0..2 :
        /\ Quiet
        /\ Begin(t, "classes", <<<<"classes", n>>, <<"count", n>>>>)
        /\ UNCHANGED <<scope, crumbs, text, ring, current, array, user, rules, live, twice, lock>>
-----------------------------------------------------------------------------
(* The steps.                                                              *)

Continue(t, todo) == call' = [call EXCEPT ![t] = IF todo = <<>> THEN Idle ELSE [@ EXCEPT !.todo = todo]]
Frame == <<scope, crumbs, calls, history>>

\* setField: *field is read, set to NULL, and what it was is freed; then the copy is stored.
Load(t) ==
    /\ Step(t, "load")
    /\ LET s == Head(call[t].todo) IN
       Continue(t, <<<<"drop", s[2], At(s[2])>>, <<"store", s[2], s[3]>>>> \o Rest(t))
    /\ UNCHANGED <<Frame, text, ring, current, array, user, rules, live, twice, lock>>

\* Mutant of Drop: what the field was is freed, and the field is left as it is.
DropKeeping(t) ==
    /\ Step(t, "drop")
    /\ LET s == Head(call[t].todo) IN
       /\ live' = live \ {s[3]}
       /\ twice' = IF s[3] # Nil /\ s[3] \notin live THEN twice \cup {s[2].of} ELSE twice
    /\ Continue(t, Rest(t))
    /\ UNCHANGED <<Frame, text, ring, current, array, user, rules, lock>>

Drop(t) ==
    /\ Step(t, "drop")
    /\ LET s == Head(call[t].todo) IN
       /\ Put(s[2], Nil)
       /\ live' = live \ {s[3]}
       /\ twice' = IF s[3] # Nil /\ s[3] \notin live THEN twice \cup {s[2].of} ELSE twice
    /\ Continue(t, Rest(t))
    /\ UNCHANGED <<Frame, current, array, user, rules, lock>>

Store(t) ==
    /\ Step(t, "store")
    /\ LET s == Head(call[t].todo) IN
       IF s[3] = Nil THEN UNCHANGED <<text, ring, live>>
       ELSE Put(s[2], s[3]) /\ live' = live \cup {s[3]}
    /\ Continue(t, Rest(t))
    /\ UNCHANGED <<Frame, current, array, user, rules, twice, lock>>

\* addBreadcrumb, clearBreadcrumbs: nothing without a ring.
Crumb(t) ==
    /\ Step(t, "crumb")
    /\ LET n == Head(call[t].todo)[2] IN
       Continue(t, (IF array = "null" THEN <<>> ELSE SetField(Slot(current), n) \o <<<<"advance">>>>) \o Rest(t))
    /\ UNCHANGED <<Frame, text, ring, current, array, user, rules, live, twice, lock>>

MayClear(t) ==
    /\ Step(t, "crumbs?")
    /\ Continue(t, (IF array = "null" THEN <<>> ELSE Head(call[t].todo)[2]) \o Rest(t))
    /\ UNCHANGED <<Frame, text, ring, current, array, user, rules, live, twice, lock>>

Advance(t) ==
    /\ Step(t, "advance") /\ current' = (current + 1) % MaxCrumbs /\ Continue(t, Rest(t))
    /\ UNCHANGED <<Frame, text, ring, array, user, rules, live, twice, lock>>

Rewind(t) ==
    /\ Step(t, "rewind") /\ current' = 0 /\ Continue(t, Rest(t))
    /\ UNCHANGED <<Frame, text, ring, array, user, rules, live, twice, lock>>

\* configureBreadcrumbs: the texts of an old ring are not freed.
NewArray(t) ==
    \/ /\ Step(t, "freeArray") /\ array' = IF array = "null" THEN "null" ELSE "freed"
       /\ Continue(t, Rest(t)) /\ UNCHANGED <<Frame, text, ring, current, user, rules, live, twice, lock>>
    \/ /\ Step(t, "malloc") /\ array' = "garbage"
       /\ Continue(t, Rest(t)) /\ UNCHANGED <<Frame, text, ring, current, user, rules, live, twice, lock>>
    \/ /\ Step(t, "memset") /\ array' = "ready" /\ ring' = [i \in DOMAIN ring |-> Nil]
       /\ Continue(t, Rest(t)) /\ UNCHANGED <<Frame, text, current, user, rules, live, twice, lock>>

UserInfo(t) ==
    \/ /\ Step(t, "freeUser") /\ live' = live \ {user}
       /\ Continue(t, Rest(t)) /\ UNCHANGED <<Frame, text, ring, current, array, user, rules, twice, lock>>
    \/ /\ Step(t, "storeUser") /\ user' = Head(call[t].todo)[2] /\ live' = live \cup {user'}
       /\ Continue(t, Rest(t)) /\ UNCHANGED <<Frame, text, ring, current, array, rules, twice, lock>>

Classes(t) ==
    \/ /\ Step(t, "classes") /\ rules' = [rules EXCEPT !.classes = Head(call[t].todo)[2]]
       /\ Continue(t, Rest(t)) /\ UNCHANGED <<Frame, text, ring, current, array, user, live, twice, lock>>
    \/ /\ Step(t, "count") /\ rules' = [rules EXCEPT !.count = Head(call[t].todo)[2]]
       /\ Continue(t, Rest(t)) /\ UNCHANGED <<Frame, text, ring, current, array, user, live, twice, lock>>

Unlock(t) ==
    /\ Step(t, "unlock") /\ lock' = [lock EXCEPT ![Head(call[t].todo)[2]] = Free_]
    /\ Continue(t, Rest(t))
    /\ UNCHANGED <<Frame, text, ring, current, array, user, rules, live, twice>>

Calls(t) ==
    \/ SetUnlocked(t) \/ SetLocked(t) \/ RemoveContext(t) \/ AddBreadcrumb(t) \/ ClearBreadcrumbs(t)
    \/ Clear(t) \/ Configure(t) \/ SetUserInfo(t) \/ SetClasses(t)
Steps(t) ==
    \/ Load(t) \/ Drop(t) \/ Store(t) \/ Crumb(t) \/ MayClear(t) \/ Advance(t) \/ Rewind(t)
    \/ NewArray(t) \/ UserInfo(t) \/ Classes(t) \/ Unlock(t)
Next == \E t \in Threads : Calls(t) \/ NotEncoded(t) \/ Steps(t)
Spec == Init /\ [][Next]_vars
-----------------------------------------------------------------------------
Times(op) == Cardinality({i \in 1..calls : history[i].op = op})
OneByOne  == \A i \in 1..calls : history[i].alone

\* writeScopeJson: the ring is read from the current crumb on, NULLs are left out.
Written ==
    FlattenSeq([i \in 1..MaxCrumbs |->
        LET x == ring[(current + i - 1) % MaxCrumbs] IN IF x = Nil THEN <<>> ELSE <<x>>])

\* Wherever the threads are stopped, no text of the scope is read after it was freed, nor one of
\* the ring, but while the SDK starts.
HandlerReadsLiveTexts ==
    /\ \A f \in Fields : text[f] # Nil => text[f] \in live
    /\ array = "ready" => \A i \in DOMAIN ring : ring[i] # Nil => ring[i] \in live

\* What is set under a lock is freed once, unless the scope is cleared, which takes no lock for
\* the copies, or contexts are removed, under the wrong one.
LocksKeepTexts == Times("clear") + Times("removeContext") = 0 => twice \subseteq Unlocked

\* After calls that did not overlap, with values that JSON can hold, a report has of the scope what
\* the scope is, unless a context was removed, and, until the SDK is started again, the scope's
\* crumbs in their order.
CopyIsTheScope ==
    Quiet /\ OneByOne /\ Times("unencoded") = 0 =>
        /\ Times("removeContext") = 0 => \A f \in Fields : text[f] = scope[f]
        /\ array = "ready" /\ Times("configure") = 0 => Written = crumbs

(* What the code does not keep. *)

\* The user's JSON is allocated when it is read: not between free and the new pointer.
UserInfoIsLive == user # Nil => user \in live
\* The array of restricted classes has as many as are looked at: not while it gets shorter.
ClassesAreThere == rules.count <= rules.classes
\* A ring that is read is allocated and initialised: not while the SDK is started again.
RingIsReady == array \in {"null", "ready"}
\* No text is freed twice: two threads that set the user can.
FreedOnce == twice = {}
\* A handler that stops a thread in addBreadcrumb writes the crumbs in order.
CrumbsInOrder == array = "ready" => \A i \in 1..(Len(Written) - 1) : Written[i] < Written[i + 1]
\* Removing a context leaves the extras as they are.
ExtrasAreTheScopes == Quiet /\ OneByOne /\ Times("unencoded") = 0 => text["extra"] = scope["extra"]
\* A report has no user that the application has replaced: it has, if the new one does not encode.
UserIsTheScopes == Quiet /\ OneByOne => text["user"] = scope["user"]
=============================================================================
