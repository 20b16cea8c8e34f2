------------------------------ MODULE AsyncHooks -------------------------------
(***************************************************************************)
(* The hooks of dispatch_async and its kin: each call captures a backtrace *)
(* that is kept, in a slot of the thread, while the block runs, and that   *)
(* becomes the caller of what the block dispatches.  Backtraces are        *)
(* counted references; a reader takes one from the slot of another thread. *)
(***************************************************************************)
EXTENDS Naturals, Sequences, FiniteSets, SequencesExt

CONSTANTS
    Threads,
    Hashes,        \* sentrycrash__thread_idx, for some numbers of the threads: thread -> slot
    MaxBacktraces, \* bound: calls that are hooked
    MaxNesting     \* bound: blocks a thread runs inside blocks, in a run loop

VARIABLES
    idx,           \* the slot of each thread; two may share one
    hooks_active,
    bt,            \* the backtraces, in the order of their capture: [refcount, caller, freed]
    queue,         \* blocks that were dispatched, by their backtraces
    slot,          \* slot -> [thread, backtrace]
    stack,         \* thread -> the blocks it runs, innermost first: [backtrace, pc]
    reader,        \* who reads the caller of a thread: [kind, pc, thread, backtrace]
    touched        \* ghost: who first took a backtrace that was freed

vars == <<idx, hooks_active, bt, queue, slot, stack, reader, touched>>

Slots == UNION {{h[t] : t \in Threads} : h \in Hashes}   \* sentry_async_callers
Nobody == "nobody"      \* thread NULL
Nothing == 0            \* backtrace NULL

TypeOK ==
    /\ slot \in [Slots -> [thread : Threads \cup {Nobody}, backtrace : 0..MaxBacktraces]]
    /\ queue \subseteq 1..Len(bt) /\ \A t \in Threads : Len(stack[t]) <= MaxNesting
    /\ reader.kind \in {"none", "handler", "report"}

Init ==
    /\ idx \in Hashes /\ hooks_active \in BOOLEAN
    /\ bt = <<>> /\ queue = {}
    /\ slot = [s \in Slots |-> [thread |-> Nobody, backtrace |-> Nothing]]
    /\ stack = [t \in Threads |-> <<>>]
    /\ reader = [kind |-> "none", pc |-> "done", thread |-> Nobody, backtrace |-> Nothing]
    /\ touched = "nobody"

Mine(t)  == slot[idx[t]]
\* A handler has suspended the other threads while it reads.
Running  == reader.kind # "handler"
At(t, p) == Running /\ stack[t] # <<>> /\ Head(stack[t]).pc = p
Goto(t, p) == stack' = [stack EXCEPT ![t][1].pc = p]

\* decref of one backtrace, without what follows for its caller.
Released(b) == [bt EXCEPT ![b].refcount = @ - 1, ![b].freed = bt[b].refcount = 1]
OnRelease(b)    == IF bt[b].refcount = 1 THEN bt[b].caller ELSE Nothing
-----------------------------------------------------------------------------
\* A thread reads its own slot: nobody else changes it while it is the thread's.
OwnCaller(t) == IF hooks_active /\ Mine(t).thread = t THEN Mine(t).backtrace ELSE Nothing

Dispatch(t) ==
    /\ Running /\ hooks_active /\ Len(bt) < MaxBacktraces
    /\ stack[t] # <<>> => At(t, "body")
    /\ LET caller == OwnCaller(t)
           held   == IF caller = Nothing THEN bt ELSE [bt EXCEPT ![caller].refcount = @ + 1]
       IN  bt' = Append(held, [refcount |-> 1, caller |-> caller, freed |-> FALSE])
    /\ queue' = queue \cup {Len(bt')}
    /\ UNCHANGED <<idx, hooks_active, slot, stack, reader, touched>>

Run(t) ==
    /\ Running /\ Len(stack[t]) < MaxNesting
    /\ stack[t] # <<>> => At(t, "body")
    /\ \E b \in queue :
          /\ queue' = queue \ {b}
          /\ stack' = [stack EXCEPT ![t] = <<[backtrace |-> b, pc |-> "set"]>> \o @]
    /\ UNCHANGED <<idx, hooks_active, bt, slot, reader, touched>>

\* Mutant of SetThread: a slot that is taken is taken over.
SetThreadAnyway(t) ==
    /\ At(t, "set") /\ Goto(t, "store")
    /\ slot' = [slot EXCEPT ![idx[t]].thread = t]
    /\ UNCHANGED <<idx, hooks_active, bt, queue, reader, touched>>

SetThread(t) ==
    /\ At(t, "set")
    /\ IF Mine(t).thread = Nobody
       THEN slot' = [slot EXCEPT ![idx[t]].thread = t] /\ Goto(t, "store")
       ELSE Goto(t, "body") /\ UNCHANGED slot
    /\ UNCHANGED <<idx, hooks_active, bt, queue, reader, touched>>

SetBacktrace(t) ==
    /\ At(t, "store") /\ Goto(t, "body")
    /\ slot' = [slot EXCEPT ![idx[t]].backtrace = Head(stack[t]).backtrace]
    /\ UNCHANGED <<idx, hooks_active, bt, queue, reader, touched>>

EndBody(t) ==
    /\ At(t, "body")
    /\ Goto(t, IF Mine(t).thread = t THEN "clear" ELSE "decref")
    /\ UNCHANGED <<idx, hooks_active, bt, queue, slot, reader, touched>>

ClearBacktrace(t) ==
    /\ At(t, "clear") /\ Goto(t, "release")
    /\ slot' = [slot EXCEPT ![idx[t]].backtrace = Nothing]
    /\ UNCHANGED <<idx, hooks_active, bt, queue, reader, touched>>

ReleaseThread(t) ==
    /\ At(t, "release") /\ Goto(t, "decref")
    /\ slot' = [slot EXCEPT ![idx[t]].thread = Nobody]
    /\ UNCHANGED <<idx, hooks_active, bt, queue, reader, touched>>

\* decref of the block's backtrace, then, if that was the last reference, of its caller.
Decref(t) ==
    /\ At(t, "decref")
    /\ LET b == Head(stack[t]).backtrace IN
       /\ bt' = Released(b)
       /\ stack' = IF OnRelease(b) = Nothing THEN [stack EXCEPT ![t] = Tail(@)]
                   ELSE [stack EXCEPT ![t][1].backtrace = OnRelease(b)]
    /\ UNCHANGED <<idx, hooks_active, queue, slot, reader, touched>>
-----------------------------------------------------------------------------
(* get_async_caller_for_thread from another thread: by a crash handler     *)
(* that has suspended it, or by a user report that has not.                *)

StartReader(kind, t) ==
    /\ reader.kind = "none"
    /\ reader' = [kind |-> kind, pc |-> IF hooks_active THEN "thread" ELSE "done",
                  thread |-> t, backtrace |-> Nothing]
    /\ UNCHANGED <<idx, hooks_active, bt, queue, slot, stack, touched>>

LoadThread ==
    /\ reader.kind # "none" /\ reader.pc = "thread"
    /\ reader' = [reader EXCEPT !.pc = IF Mine(reader.thread).thread = reader.thread THEN "load" ELSE "done"]
    /\ UNCHANGED <<idx, hooks_active, bt, queue, slot, stack, touched>>

LoadBacktrace ==
    /\ reader.pc = "load"
    /\ LET b == Mine(reader.thread).backtrace IN
       reader' = [reader EXCEPT !.pc = IF b = Nothing THEN "done" ELSE "incref", !.backtrace = b]
    /\ UNCHANGED <<idx, hooks_active, bt, queue, slot, stack, touched>>

Incref ==
    /\ reader.pc = "incref" /\ reader' = [reader EXCEPT !.pc = "held"]
    /\ bt' = [bt EXCEPT ![reader.backtrace].refcount = @ + 1]
    /\ touched' = IF bt[reader.backtrace].freed THEN reader.kind ELSE touched
    /\ UNCHANGED <<idx, hooks_active, queue, slot, stack>>

\* The cursor's async_caller is released, and so are callers of whom that was the last reference.
DecrefReader ==
    /\ reader.pc = "held"
    /\ bt' = Released(reader.backtrace)
    /\ reader' = IF OnRelease(reader.backtrace) = Nothing THEN [reader EXCEPT !.pc = "done", !.backtrace = Nothing]
                 ELSE [reader EXCEPT !.backtrace = OnRelease(reader.backtrace)]
    /\ UNCHANGED <<idx, hooks_active, queue, slot, stack, touched>>

EndReader ==
    /\ reader.kind # "none" /\ reader.pc = "done"
    /\ reader' = [kind |-> "none", pc |-> "done", thread |-> Nobody, backtrace |-> Nothing]
    /\ UNCHANGED <<idx, hooks_active, bt, queue, slot, stack, touched>>

SetActive ==
    /\ Running /\ hooks_active' = ~hooks_active
    /\ UNCHANGED <<idx, bt, queue, slot, stack, reader, touched>>

\* What follows once memory that was freed is used is not defined.
Next ==
    /\ touched = "nobody"
    /\ \/ \E t \in Threads :
             \/ Dispatch(t) \/ Run(t) \/ SetThread(t) \/ SetBacktrace(t) \/ EndBody(t)
             \/ ClearBacktrace(t) \/ ReleaseThread(t) \/ Decref(t)
             \/ \E kind \in {"handler", "report"} : StartReader(kind, t)
       \/ LoadThread \/ LoadBacktrace \/ Incref \/ DecrefReader \/ EndReader \/ SetActive
Spec == Init /\ [][Next]_vars
-----------------------------------------------------------------------------
\* Holders of a backtrace: the block that waits or runs, what it called, a reader.
RunningIn(b) == {x \in Threads \X (1..MaxNesting) :
                   x[2] <= Len(stack[x[1]]) /\ stack[x[1]][x[2]].backtrace = b}
Callees(b)  == {c \in 1..Len(bt) : ~bt[c].freed /\ bt[c].caller = b}
Holders(b)  == Cardinality(RunningIn(b)) + Cardinality(Callees(b)) + Cardinality(queue \cap {b})
               + (IF reader.pc = "held" /\ reader.backtrace = b THEN 1 ELSE 0)

\* A handler never takes a backtrace that is gone.  Until a report does, which suspends nothing,
\* a backtrace is freed with its last holder, never sooner or later, and no slot has it then.
CallersStayAlive ==
    /\ touched # "handler"
    /\ touched = "nobody" =>
          \A b \in 1..Len(bt) :
             /\ bt[b].freed <=> Holders(b) = 0
             /\ ~bt[b].freed => bt[b].refcount = Holders(b)
             /\ bt[b].freed => \A s \in Slots : slot[s].thread # Nobody => slot[s].backtrace # b

\* The caller a thread reports is the call that dispatched a block it runs.
CallerIsOfTheBlock ==
    \A t \in Threads : OwnCaller(t) # Nothing =>
        \E i \in 1..Len(stack[t]) : stack[t][i].backtrace = OwnCaller(t)

(* What the code does not keep. *)

\* A report that suspends nothing never touches a backtrace that is gone.
ReportsReadLive == touched = "nobody"
\* A thread in a block of a hooked call has the caller: not if the slot is taken by another.
CallersAreKnown ==
    \A t \in Threads : hooks_active /\ At(t, "body") => OwnCaller(t) = Head(stack[t]).backtrace
=============================================================================
