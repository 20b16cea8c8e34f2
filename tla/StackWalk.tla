------------------------------- MODULE StackWalk --------------------------------
(***************************************************************************)
(* Cursors over the stack of a thread: from its registers along the frames *)
(* in its memory, which may be damaged, or over a backtrace that was       *)
(* captured; each goes on over the backtraces of the calls that dispatched *)
(* the block the thread is in.                                             *)
(***************************************************************************)
EXTENDS Naturals, Sequences, SequencesExt

CONSTANTS
    Memories,       \* address -> a frame: [previous, return_address]; others can not be read
    Registers,      \* of threads: [instruction, link, frame], 0: nothing
    MaxStackDepths,
    Captured,       \* backtraces: sequences of addresses, with a 1 at the end at times
    AsyncChains     \* backtraces of the callers of a thread's block, the nearest first

VARIABLES
    memory, registers, maxStackDepth,
    backtrace, skip, \* of a cursor over a backtrace
    kind,            \* "machine" or "backtrace"
    asyncs,          \* async_caller and its callers
    cursor,          \* [depth, hasGivenUp, async, past, link, started, frame, ended]
    entries          \* the addresses it has given

vars == <<memory, registers, maxStackDepth, backtrace, skip, kind, asyncs, cursor, entries>>

Marker == "marker"     \* SentryCrashSC_ASYNC_MARKER
NoFrame == [previous |-> 0, return_address |-> 0]
NoRegisters == [instruction |-> 0, link |-> 0, frame |-> 0]

TypeOK ==
    /\ memory \in Memories \cup {<<>>} /\ registers \in Registers \cup {NoRegisters} /\ kind \in {"machine", "backtrace"}
    /\ cursor.async \in 0..Len(asyncs) /\ cursor.hasGivenUp \in BOOLEAN /\ cursor.depth \in Nat

Reset == [depth |-> 0, hasGivenUp |-> FALSE, async |-> 0, past |-> FALSE, link |-> 0, started |-> FALSE,
          frame |-> NoFrame, ended |-> FALSE]

Init ==
    /\ kind \in {"machine", "backtrace"} /\ asyncs \in AsyncChains
    /\ IF kind = "machine"
       THEN /\ memory \in Memories /\ registers \in Registers /\ maxStackDepth \in MaxStackDepths
            /\ backtrace = <<>> /\ skip = 0
       ELSE /\ memory = <<>> /\ registers = NoRegisters /\ maxStackDepth = 0
            /\ backtrace \in Captured /\ skip \in 0..2
    /\ cursor = Reset /\ entries = <<>>
-----------------------------------------------------------------------------
Ended(c)   == [c EXCEPT !.ended = TRUE]
Gave(c, a) == /\ cursor' = [c EXCEPT !.depth = @ + 1] /\ entries' = Append(entries, a)

\* Mutant of TryAsync: the depth goes on.
TryAsyncDeep(c) ==
    IF c.async = Len(asyncs) THEN cursor' = Ended(c) /\ UNCHANGED entries
    ELSE cursor' = [c EXCEPT !.async = @ + 1] /\ entries' = Append(entries, Marker)

TryAsync(c) ==
    IF c.async = Len(asyncs) THEN cursor' = Ended(c) /\ UNCHANGED entries
    ELSE cursor' = [c EXCEPT !.async = @ + 1, !.depth = 0] /\ entries' = Append(entries, Marker)

\* Both kinds of backtraces: an address of 0 or 1 ends them.
AlongBacktrace(b, from) ==
    IF cursor.depth < Len(b) - from /\ b[cursor.depth + from + 1] > 1
    THEN Gave(cursor, b[cursor.depth + from + 1]) ELSE TryAsync(cursor)

\* A frame that can not be read ends all; one without a caller ends the stack.
AlongFrames ==
    LET first == cursor.frame.previous = 0
        at    == IF first THEN registers.frame ELSE cursor.frame.previous
        c     == [cursor EXCEPT !.past = TRUE]
    IN  IF first /\ cursor.past THEN TryAsync(cursor)
        ELSE IF at \notin DOMAIN memory THEN cursor' = Ended(c) /\ UNCHANGED entries
        ELSE LET read == [c EXCEPT !.frame = memory[at]]
             IN  IF memory[at].previous = 0 \/ memory[at].return_address = 0 THEN TryAsync(read)
                 ELSE Gave(read, memory[at].return_address)

\* Mutant of Deep: the cursor does not give up.
DeepNever == FALSE

Deep == cursor.depth >= maxStackDepth

AlongThread ==
    IF Deep THEN cursor' = Ended([cursor EXCEPT !.hasGivenUp = TRUE]) /\ UNCHANGED entries
    ELSE IF ~cursor.started
         THEN IF registers.instruction = 0 THEN TryAsync(cursor)
              ELSE Gave([cursor EXCEPT !.started = TRUE], registers.instruction)
    ELSE IF cursor.link = 0 /\ ~cursor.past /\ registers.link # 0
         THEN Gave([cursor EXCEPT !.link = registers.link], registers.link)
    ELSE AlongFrames

Advance ==
    /\ ~cursor.ended
    /\ CASE cursor.async > 0 -> AlongBacktrace(asyncs[cursor.async], 0)
         [] cursor.async = 0 /\ kind = "backtrace" -> AlongBacktrace(backtrace, skip)
         [] OTHER -> AlongThread
    /\ UNCHANGED <<memory, registers, maxStackDepth, backtrace, skip, kind, asyncs>>

Next == Advance
Spec == Init /\ [][Next]_vars /\ WF_vars(Next)
-----------------------------------------------------------------------------
(* The stack, without a cursor.                                            *)

\* The addresses of the frames: as long as they can be read and have a caller.
FrameAt(n) ==
    LET at[i \in 1..n] == IF i = 1 THEN registers.frame
                          ELSE IF at[i - 1] \in DOMAIN memory THEN memory[at[i - 1]].previous ELSE 0
    IN  at[n]
Usable(a) == a \in DOMAIN memory /\ memory[a].previous # 0 /\ memory[a].return_address # 0
FramesUpTo(n) == IF \A i \in 1..n : Usable(FrameAt(i)) THEN n ELSE
                 (CHOOSE i \in 1..n : ~Usable(FrameAt(i)) /\ \A j \in 1..(i - 1) : Usable(FrameAt(j))) - 1
UpToEnd(b) == IF \E i \in DOMAIN b : b[i] <= 1
              THEN SubSeq(b, 1, (CHOOSE i \in DOMAIN b : b[i] <= 1 /\ \A j \in 1..(i - 1) : b[j] > 1) - 1) ELSE b
Heads == SelectSeq(<<registers.instruction, registers.link>>, LAMBDA a : a # 0)
OfThread ==
    IF registers.instruction = 0 THEN <<>>
    ELSE LET n == IF maxStackDepth > Len(Heads) THEN maxStackDepth - Len(Heads) ELSE 0
             frames == [i \in 1..FramesUpTo(n) |-> memory[FrameAt(i)].return_address]
         IN  SubSeq(Heads, 1, IF maxStackDepth < Len(Heads) THEN maxStackDepth ELSE Len(Heads)) \o frames
OfBacktrace == UpToEnd(SubSeq(backtrace, skip + 1, Len(backtrace)))
\* The stack was not cut: neither by the depth nor by memory that can not be read.
Whole == ~cursor.hasGivenUp /\
    (kind = "machine" /\ registers.instruction # 0 => FrameAt(FramesUpTo(maxStackDepth) + 1) \in DOMAIN memory)

\* What a cursor gives, when it ends, are the callers in their order; behind a stack that was seen
\* to its end those of the block's dispatch, each behind a marker; and it ends on any memory.
CallersInOrder ==
    LET stack  == IF kind = "machine" THEN OfThread ELSE OfBacktrace
        behind == FlattenSeq([i \in DOMAIN asyncs |-> <<Marker>> \o UpToEnd(asyncs[i])])
    IN  cursor.ended => entries = stack \o (IF Whole THEN behind ELSE <<>>)
WalkEnds ==
    LET asyncLength == FoldLeft(LAMBDA n, b : n + 1 + Len(b), 0, asyncs)
    IN  Len(entries) <= (IF kind = "machine" THEN maxStackDepth ELSE Len(backtrace)) + asyncLength
WalkIsDone == <>cursor.ended

(* What the code does not keep. *)

\* A stack is said to overflow if it is deeper than the threshold: also if it is as deep.
OverflowIsDeeper ==
    cursor.hasGivenUp => FramesUpTo(maxStackDepth + 1) + Len(Heads) > maxStackDepth
=============================================================================
