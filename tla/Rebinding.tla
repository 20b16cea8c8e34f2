------------------------------- MODULE Rebinding -------------------------------
(***************************************************************************)
(* Hooking a function of libdispatch: the pointers of every image to it    *)
(* are replaced, of the images that are there and, by dyld's callback, of  *)
(* those that are loaded later.  Another library in the program may do the *)
(* same, by the same code, for the same function.                          *)
(***************************************************************************)
EXTENDS Naturals, Sequences, FiniteSets

CONSTANTS
    Images,
    SlotsOf,        \* image -> its pointers to the function, some of {"lazy", "bound"}
    MaxFailures     \* of vm_protect

Tools == {"sentry", "other"}
Unset == "unset"
\* A lazy pointer leads to a helper of its image first; the image stands for it.
Helpers == Images

VARIABLES
    loaded,         \* the images, in their order
    bindings,       \* image -> slot -> what it points to
    replaced,       \* tool -> what it calls as the function
    callbacks,      \* the tools, in the order in which they registered with dyld
    todo,           \* tool -> the images it has still to do
    hooks_active, hooks_installed,
    again,          \* the other tool has rebound a second time
    failures

vars == <<loaded, bindings, replaced, callbacks, todo, hooks_active, hooks_installed, again, failures>>

Pointers == {Unset, "function"} \cup Tools \cup Helpers

TypeOK ==
    /\ \A i \in Images : bindings[i] \in [SlotsOf[i] -> Pointers]
    /\ replaced \in [Tools -> Pointers] /\ failures \in 0..MaxFailures

Init ==
    /\ loaded = <<>> /\ bindings = [i \in Images |-> [s \in SlotsOf[i] |-> Unset]]
    /\ replaced = [t \in Tools |-> Unset] /\ callbacks = <<>> /\ todo = [t \in Tools |-> <<>>]
    /\ hooks_active = FALSE /\ hooks_installed = FALSE /\ again = FALSE /\ failures = 0
-----------------------------------------------------------------------------
\* The state of the pointers while images are rebound: [bindings, replaced, failures].
Now == [bindings |-> bindings, replaced |-> replaced, failures |-> failures]

\* Mutant of Rebound: the pointer is saved after it was replaced.
ReboundFirst(p, t, i, s, fails) ==
    [p EXCEPT !.bindings[i][s] = IF fails THEN @ ELSE t, !.replaced[t] = IF fails THEN @ ELSE t,
              !.failures = @ + IF fails THEN 1 ELSE 0]

\* The pointer is saved, unless it is the replacement, and then replaced, unless its page can not
\* be made writable.
Rebound(p, t, i, s, fails) ==
    [p EXCEPT !.replaced[t] = IF p.bindings[i][s] # t THEN p.bindings[i][s] ELSE @,
              !.bindings[i][s] = IF fails THEN @ ELSE t,
              !.failures = @ + IF fails THEN 1 ELSE 0]

\* The lazy pointers lie before the others or behind them; the last that is replaced stays saved.
Orders(i) == {o \in [1..Cardinality(SlotsOf[i]) -> SlotsOf[i]] :
                 \A j, k \in DOMAIN o : o[j] = o[k] => j = k}
OfImage(p, t, i, o, failing) ==
    LET from[j \in 0..Len(o)] ==
            IF j = 0 THEN p ELSE Rebound(from[j - 1], t, i, o[j], o[j] \in failing)
    IN  from[Len(o)]
Becomes(p) == bindings' = p.bindings /\ replaced' = p.replaced /\ failures' = p.failures

Fresh(i) == [s \in SlotsOf[i] |-> IF s = "lazy" THEN i ELSE "function"]

\* While dyld runs a new callback for the images that are there, it loads no image and registers
\* no other callback.
DyldIsFree == todo["sentry"] = <<>> /\ (todo["other"] = <<>> \/ again)

\* An image is loaded: the callbacks run for it, in their order.
Load(i) ==
    /\ DyldIsFree /\ i \notin {loaded[k] : k \in DOMAIN loaded}
    /\ loaded' = Append(loaded, i)
    /\ \E o \in Orders(i), failing \in [Tools -> SUBSET SlotsOf[i]] :
        LET start == [Now EXCEPT !.bindings[i] = Fresh(i)]
            after[k \in 0..Len(callbacks)] ==
                IF k = 0 THEN start ELSE OfImage(after[k - 1], callbacks[k], i, o, failing[callbacks[k]])
        IN  /\ Becomes(after[Len(callbacks)]) /\ after[Len(callbacks)].failures <= MaxFailures
    /\ UNCHANGED <<callbacks, todo, hooks_active, hooks_installed, again>>

\* sentrycrash_install_async_hooks.
Install ==
    /\ hooks_active' = TRUE /\ hooks_installed' = TRUE
    /\ IF hooks_installed THEN UNCHANGED <<callbacks, todo>>
       ELSE DyldIsFree /\ callbacks' = Append(callbacks, "sentry") /\ todo' = [todo EXCEPT !["sentry"] = loaded]
    /\ UNCHANGED <<loaded, bindings, replaced, again, failures>>

Deactivate ==
    /\ hooks_active /\ hooks_active' = FALSE
    /\ UNCHANGED <<loaded, bindings, replaced, callbacks, todo, hooks_installed, again, failures>>

\* The other library, once and again: all of its rebindings are done again for all images.
OtherInstall ==
    /\ DyldIsFree /\ todo["other"] = <<>> /\ ~again
    /\ again' = (\E k \in DOMAIN callbacks : callbacks[k] = "other")
    /\ callbacks' = IF again' THEN callbacks ELSE Append(callbacks, "other")
    /\ todo' = [todo EXCEPT !["other"] = loaded]
    /\ UNCHANGED <<loaded, bindings, replaced, hooks_active, hooks_installed, failures>>

\* One of the images that were there is rebound; other threads run in between.
RebindNext(t) ==
    /\ todo[t] # <<>> /\ todo' = [todo EXCEPT ![t] = Tail(@)]
    /\ \E o \in Orders(Head(todo[t])), failing \in SUBSET SlotsOf[Head(todo[t])] :
        LET p == OfImage(Now, t, Head(todo[t]), o, failing)
        IN  Becomes(p) /\ p.failures <= MaxFailures
    /\ UNCHANGED <<loaded, callbacks, hooks_active, hooks_installed, again>>
-----------------------------------------------------------------------------
(* A call through a pointer: a hook calls what it has saved, and a helper  *)
(* binds the lazy pointer of its image to the function.                    *)
Through(i, s) ==
    LET at[n \in 0..3] == IF n = 0 THEN bindings[i][s]
                          ELSE IF at[n - 1] \in Tools THEN replaced[at[n - 1]] ELSE at[n - 1]
    IN  at

Call(i, s) ==
    /\ bindings[i][s] # Unset
    /\ LET path == Through(i, s)
       IN  bindings' = [j \in Images |->
                IF path[3] = j THEN [bindings[j] EXCEPT !["lazy"] = "function"] ELSE bindings[j]]
    /\ UNCHANGED <<loaded, replaced, callbacks, todo, hooks_active, hooks_installed, again, failures>>

Next ==
    \/ Install \/ Deactivate \/ OtherInstall
    \/ \E t \in Tools : RebindNext(t)
    \/ \E i \in Images : Load(i) \/ \E s \in SlotsOf[i] : Call(i, s)
Spec == Init /\ [][Next]_vars
-----------------------------------------------------------------------------
IsLoaded(i) == \E k \in DOMAIN loaded : loaded[k] = i
Reaches(i, s) == Through(i, s)[3] \in {"function"} \cup Helpers

\* Whatever images are loaded and whatever pages can not be written, a call by any pointer of any
\* image reaches the function, and no hook calls itself, before, while and after the pointers are
\* replaced; also with another library that hooks the function once.
CallsReachTheFunction ==
    ~again => \A i \in Images : IsLoaded(i) => \A s \in SlotsOf[i] : Reaches(i, s)

(* What the code does not keep. *)

\* A library that hooked the function before is still called, by every image it had hooked.
EarlierHookIsCalled ==
    ~again /\ callbacks = <<"other", "sentry">> =>
        \A i \in Images : \A s \in SlotsOf[i] : bindings[i][s] = "sentry" => replaced["sentry"] = "other"
\* Nor does it, if it rebinds again, make the hooks call each other for ever.
AlsoWhenReboundAgain == \A i \in Images : IsLoaded(i) => \A s \in SlotsOf[i] : Reaches(i, s)
\* Once all images are done, every call is seen by the hook: the helper of a lazy pointer, called
\* as the function, takes the hook out again.
EveryCallIsSeen ==
    hooks_installed /\ todo["sentry"] = <<>> /\ failures = 0 /\ callbacks = <<"sentry">> =>
        \A i \in Images : IsLoaded(i) => \A s \in SlotsOf[i] : bindings[i][s] = "sentry"
=============================================================================
