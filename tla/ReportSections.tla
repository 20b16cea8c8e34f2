----------------------------- MODULE ReportSections ----------------------------
(***************************************************************************)
(* What is written into a crash report, section by section, and the report *)
(* a crash of the handler leads to.  A report is the sequence of calls of  *)
(* its writer: begin, add and end of members, by their keys.  Texts the    *)
(* application gave are whole or can not be decoded to their end, with so  *)
(* many containers open by then.                                           *)
(***************************************************************************)
EXTENDS Integers, Sequences, FiniteSets, SequencesExt

CONSTANTS
    Events,       \* crashes: what a SentryCrash_MonitorContext and the settings hold, see Standard
    MaxThreads    \* allThreads of a machine context; threads are numbers, in the list's order

VARIABLES
    event,
    todo,         \* sections to come: [calls, flush]
    w,            \* the report so far: the containers that are open, where each member is, and what
                  \* can be read of it again: [open, members, read, short]
    file,         \* likewise, of what was flushed
    pending,      \* calls since
    old,          \* of the recrash report: what the file it renamed holds
    crashed,      \* whether the handler has crashed
    pc            \* "standard", "recrash", "done"

vars == <<event, todo, w, file, pending, old, crashed, pc>>

TypeOK ==
    /\ event \in Events /\ file.members \subseteq w.members /\ w.read \subseteq w.members /\ pc \in {"standard", "recrash", "done"}
    /\ \A i \in DOMAIN todo : todo[i].flush \in BOOLEAN

Begin(key) == <<[op |-> "begin", key |-> key]>>
End        == <<[op |-> "end", key |-> ""]>>
Add(key)   == <<[op |-> "add", key |-> key]>>
Obj(key, inner) == Begin(key) \o inner \o End
Adds(keys)      == FlattenSeq([i \in DOMAIN keys |-> Add(keys[i])])
If(b, s)        == IF b THEN s ELSE <<>>
Each(n, F(_))   == FlattenSeq([i \in 1..n |-> F(i)])
Item == ""      \* the key of what is in an array

\* A call of the writer; endContainer does nothing once all is closed.  What is read again ends at the
\* first text that is longer than the decoder has room for.
Called(r, c) ==
    LET here == Append(r.open, c.key)
        short == r.short \/ c.key \in event.long
    IN  IF c.op = "end" THEN [r EXCEPT !.open = IF @ = <<>> THEN @ ELSE Front(@)]
        ELSE [open |-> IF c.op = "begin" THEN here ELSE r.open, members |-> r.members \cup {here},
              read |-> IF short THEN r.read ELSE r.read \cup {here}, short |-> short]
After(r, s) == FoldLeft(Called, r, s)
Empty       == [open |-> <<>>, members |-> {}, read |-> {}, short |-> FALSE]
-----------------------------------------------------------------------------
(* Sections.                                                               *)

ReportInfo == Obj("report", Adds(<<"version", "id", "process_name", "timestamp", "type">>))

BinaryImages(e) ==
    LET image(i) == Obj(Item, Adds(<<"image_addr", "image_size", "name", "uuid">>)
                              \o If(e.full, Adds(<<"crash_info_message", "crash_info_message2">>)))
    IN  Obj("binary_images", Each(e.images, image))

\* writeMemoryContentsIfNotable and writeMemoryContents, of which module Introspection tells more.
Referenced(key) == Obj(key, Adds(<<"address", "type">>))

ProcessState(e) ==
    Obj("process", If(e.full, Obj("last_dealloced_nsexception",
                                  Adds(<<"address", "name", "reason">>) \o Referenced("referenced_object"))))

Memory   == Obj("memory", Adds(<<"size", "usable", "free">>))
AppStats == Obj("application_stats", Adds(<<"application_active", "launches_since_last_crash">>))
System   == Obj("system", Adds(<<"system_name", "system_version", "machine", "time_zone">>) \o Memory \o AppStats)

\* addJSONElement: at the third level and below containers are closed without closeLastContainer
\* too; what can not be decoded stays open then, and an error object follows.
Text(level, key, text, close) ==
    LET left   == [i \in 1..text.open |-> [op |-> "begin", key |-> IF i = 1 THEN key ELSE "nested"]]
        closed == Each(text.open, LAMBDA i : End)
    IN  CASE text.kind = "scalar" -> Add(key)
          [] text.kind = "object" -> Begin(key) \o Add("member") \o If(close \/ level + 1 > 2, End)
          [] text.kind = "torn"   -> left \o If(close, closed) \o Obj(key, Adds(<<"error", "json_data">>))

Error(e) ==
    Obj("error",
        Obj("mach", Adds(<<"exception", "code", "subcode">>) \o If(e.full, Adds(<<"exception_name", "code_name">>)))
        \o Obj("signal", Adds(<<"signal", "code">>) \o If(e.full, Adds(<<"name", "code_name">>)))
        \o Add("address") \o If(e.full, Add("reason"))
        \o If(e.type \notin {"system", "state", "zombie"}, Add("type"))
        \o CASE e.type = "cpp" -> Obj("cpp_exception", Add("name"))
             [] e.type = "ns" -> Obj("nsexception", Adds(<<"name", "userInfo">>)
                                                    \o If(e.full, Referenced("referenced_object")))
             [] e.type = "user" -> Obj("user_reported", Add("name")
                                       \o If(e.full, Adds(<<"language", "line_of_code">>)
                                                     \o Text(4, "backtrace", e.trace, TRUE)))
             [] OTHER -> <<>>)

\* canHaveCPUState: of the thread itself only a signal tells its registers.
CanHaveCPUState(e, t) == t # e.self \/ (t = e.offending /\ e.type = "signal")

Registers(e, t) ==
    Obj("registers", Obj("basic", Adds(<<"r0", "r1">>))
                     \o If(t = e.offending, Obj("exception", Add("exception"))))

Backtrace(e) ==
    LET entry(i) == Obj(Item, If(e.full, Adds(<<"object_name", "object_addr", "symbol_name", "symbol_addr">>))
                              \o Add("instruction_addr"))
    IN  Obj("backtrace", Obj("contents", Each(e.frames, entry)) \o Add("skipped"))

Stack == Obj("stack", Adds(<<"grow_direction", "dump_start", "dump_end", "stack_pointer", "overflow", "contents">>))

\* As far as they are notable: here one of each.
NotableRegisters == Referenced("r0")
NotableStackContents == Referenced("stack@")
NotableAddresses == Obj("notable_addresses", NotableRegisters \o NotableStackContents)

Thread(e, key, t, notable) ==
    Obj(key, Backtrace(e) \o If(CanHaveCPUState(e, t), Registers(e, t))
             \o Add("index") \o If(e.full, Adds(<<"name", "dispatch_queue">>))
             \o Adds(<<"crashed", "current_thread">>)
             \o If(t = e.offending, Stack \o If(notable, NotableAddresses)))

\* getThreadList: as many as fit.
AllThreads(e) == IF e.threads > MaxThreads THEN MaxThreads ELSE e.threads

Threads(e) == Obj("threads", Each(AllThreads(e), LAMBDA t : Thread(e, Item, t, e.introspect)))

Scope(e) ==
    LET fields == Each(Len(e.scope), LAMBDA i : <<[at |-> i, key |-> "field"]>>)
        \* Each text is added at the level the texts before it have left.
        texts  == FoldLeft(LAMBDA s, f : s \o Text(Len(After(Empty, s).open) + 1, f.key, e.scope[f.at], FALSE),
                           Begin("sentry_sdk_scope"), fields)
    IN  texts \o If(e.crumbs, Obj("breadcrumbs", Text(3, "crumb", [kind |-> "object", open |-> 0], FALSE))) \o End

\* Mutant of OpenUser: the user's section is begun whether there are data of the user or not.
OpenUserTwice(e) == Begin("user") \o If(e.user.kind # "none", Text(1, "user", e.user, FALSE))

OpenUser(e) == IF e.user.kind = "none" THEN Begin("user") ELSE Text(1, "user", e.user, FALSE)

UserSection(e) == If(e.callback /\ ~e.snapshot, Add("of_callback")) \o End

Debug(e) == Obj("debug", If(e.full, Obj("console_log", Add(Item))))
-----------------------------------------------------------------------------
Flushing(s) == [calls |-> s, flush |-> TRUE]
Without(s)  == [calls |-> s, flush |-> FALSE]

\* Mutant of Standard: nothing is flushed before the threads are looked at.
StandardUnflushed(e) ==
    <<Without(Begin("root") \o ReportInfo), Without(BinaryImages(e)), Without(ProcessState(e)), Without(System),
      Without(Begin("crash") \o Error(e)), Flushing(Threads(e)),
      Flushing(End \o Scope(e)), Flushing(OpenUser(e)), Flushing(UserSection(e)), Without(Debug(e) \o End)>>

\* sentrycrashreport_writeStandardReport.
Standard(e) ==
    <<Flushing(Begin("root") \o ReportInfo), Flushing(BinaryImages(e)), Flushing(ProcessState(e)), Flushing(System),
      Flushing(Begin("crash") \o Error(e)), Flushing(Threads(e)),
      Flushing(End \o Scope(e)),
      [calls |-> OpenUser(e), flush |-> e.user.kind # "none" \/ e.callback],
      Flushing(UserSection(e)), Without(Debug(e) \o End)>>

\* sentrycrashreport_writeRecrashReport, after what it begins with.
Recrash(e) ==
    <<Flushing(ReportInfo), Flushing(Begin("crash") \o Error(e)),
      Flushing(Thread(e, "crashed_thread", e.offending, FALSE)), Without(End \o End)>>

\* addJSONElementFromFile: the report of the file as a member of the new one, up to what can not be
\* decoded, which nobody hears of; what it leaves open is closed, without an error object.
Embedded(r) ==
    LET inside == {<<"root">>} \cup {<<"root", "recrash_report">> \o Tail(m) : m \in r.read}
    IN  [open |-> <<"root">>, members |-> inside, read |-> inside, short |-> FALSE]
-----------------------------------------------------------------------------
Init ==
    /\ event \in Events /\ todo = Standard(event) /\ w = Empty /\ file = Empty /\ pending = <<>>
    /\ old = Empty /\ crashed = FALSE /\ pc = "standard"

\* endEncode closes what is open; closeBufferedWriter flushes.
Write ==
    /\ todo # <<>> /\ todo' = Tail(todo)
    /\ w' = LET written == After(w, Head(todo).calls)
            IN  IF Len(todo) = 1 THEN [written EXCEPT !.open = <<>>] ELSE written
    /\ IF Len(todo) = 1 \/ Head(todo).flush THEN file' = w' /\ pending' = <<>>
       ELSE pending' = pending \o Head(todo).calls /\ UNCHANGED file
    /\ pc' = IF Len(todo) = 1 THEN "done" ELSE pc
    /\ UNCHANGED <<event, old, crashed>>

\* The handler crashes in a section; of what its buffer held any part is in the file, but whole
\* calls here.  It begins the recrash report with the file, and flushes.
Crash ==
    /\ pc = "standard" /\ todo # <<>> /\ pc' = "recrash" /\ crashed' = TRUE
    /\ LET buffer == pending \o Head(todo).calls IN
       \E n \in 0..Len(buffer) : old' = After(file, SubSeq(buffer, 1, n))
    /\ w' = Embedded(old') /\ file' = w' /\ pending' = <<>> /\ todo' = Recrash(event)
    /\ UNCHANGED event

Next == Write \/ Crash
Spec == Init /\ [][Next]_vars
-----------------------------------------------------------------------------
Sections == {"report", "binary_images", "process", "system", "crash", "sentry_sdk_scope", "user", "debug"}

AllIsClosed(e) == (\A i \in DOMAIN e.scope : e.scope[i].open = 0) /\ e.user.open = 0 /\ e.user.kind \in {"none", "object"}

\* Every section is a member of the report, and no member is outside of it or has the place of
\* another, whatever the crash, as long as the texts of the scope leave no container open, and what
\* the user gave, if anything, is an object.
SectionsInPlace ==
    pc = "done" /\ ~crashed /\ AllIsClosed(event) =>
        LET members == w.members
            there(p) == p \in members
        IN  /\ \A m \in members : Head(m) = "root" /\ (Len(m) > 1 => m[2] \in Sections)
            /\ \A k \in Sections : there(<<"root", k>>)
            /\ there(<<"root", "crash", "error", "type">>) /\ there(<<"root", "crash", "threads">>)
            /\ event.callback /\ ~event.snapshot <=> there(<<"root", "user", "of_callback">>)
            /\ event.offending <= MaxThreads <=> there(<<"root", "crash", "threads", Item, "stack">>)

\* If the handler crashes, the report of that crash has its own sections, and inside of it what was in
\* the file: all of it, if no text there is longer than the decoder takes; otherwise the sections that
\* were finished before that of the first such text.  From the threads on, where memory is looked at,
\* what is in the file has every section before them.
Before(k, n) ==
    LET order == <<"report", "binary_images", "process", "system", "crash", "sentry_sdk_scope", "user", "debug">>
    IN  \E i, j \in DOMAIN order : i < j /\ order[i] = k /\ order[j] = n
WrittenSurvives ==
    /\ pc = "done" /\ crashed =>
          LET members == w.members IN
          /\ \A m \in old.members :
                \/ <<"root", "recrash_report">> \o Tail(m) \in members
                \/ \E l \in old.members : Last(l) \in event.long /\ Len(m) > 1 /\ ~Before(m[2], l[2])
          /\ {<<"root", "report">>, <<"root", "crash", "error", "type">>,
              <<"root", "crash", "crashed_thread", "stack">>} \subseteq members
    /\ pc = "standard" /\ Len(todo) = 5 =>
          LET members == file.members IN
          \A k \in {"report", "binary_images", "process", "system", "crash"} : <<"root", k>> \in members

(* What the code does not keep. *)

\* The file is removed only once all of it is in the new report: not if a text in it is too long.
RemovedMeansEmbedded ==
    pc = "done" /\ crashed => \A m \in old.members : <<"root", "recrash_report">> \o Tail(m) \in w.members

\* Debug information is a member of the report whatever the application gave: not if one of its
\* texts can not be decoded to its end, or is no object.
DebugIsInPlace == pc = "done" /\ ~crashed => <<"root", "debug">> \in w.members
\* The thread that crashed is among the threads of the report: not if there are too many before it.
CrashedThreadIsThere ==
    pc = "done" /\ ~crashed => <<"root", "crash", "threads", Item, "stack">> \in w.members
=============================================================================
