------------------------------ MODULE MCCrashTools ------------------------------
(***************************************************************************)
(* What a crash handler is built from, in one run: the inspection of       *)
(* objects, the threads and their names, the callers of blocks, stacks,    *)
(* images, hooked functions, handlers that suspend the others, the names   *)
(* of crashes, zombies and the console log.  They share no state: one of   *)
(* them runs in a behaviour, the variables of the others hold Idle.        *)
(***************************************************************************)
EXTENDS Integers, Sequences, FiniteSets, SequencesExt, TLC

CONSTANTS
    Threads, AtFirst, Reserved, MaxHandlers,      \* of HandlerThreads
    Listed, Named, MaxUpdates, Reports,           \* of CachedThreads
    Callers, Hashes, MaxBacktraces, MaxNesting,   \* of AsyncHooks
    HookedImages, SlotsOf, MaxFailures,           \* of Rebinding
    MachCodes,                                    \* of CrashCodes
    Releasers, Addresses, SlotOf, Classes, Exceptions, MaxObjects,   \* of Zombies
    Loggers, Numbers, MaxLines, MaxLogs, MaxFiles                    \* of ConsoleLog

ASSUME ToolsAssumption ==
    /\ IsFiniteSet(Threads) /\ AtFirst \subseteq Threads /\ Reserved \subseteq Threads
    /\ IsFiniteSet(Listed) /\ MaxUpdates \in Nat /\ IsFiniteSet(Reports)
    /\ IsFiniteSet(Callers) /\ "nobody" \notin Callers
    /\ MaxBacktraces \in Nat /\ MaxNesting \in Nat
    /\ \A i \in HookedImages : SlotsOf[i] \subseteq {"lazy", "bound"}
    /\ HookedImages \cap {"unset", "function", "sentry", "other"} = {} /\ MaxFailures \in Nat
    /\ "none" \notin Addresses
    /\ Numbers # {} /\ Numbers \subseteq Nat \ {0}

VARIABLES
    part,    \* the component that runs
    intro_memory, intro_damage, intro_class, intro_reports, intro_todo, intro_limit,
    intro_written, intro_level, intro_fate,
    cached_found, cached_mach, cached_names, cached_count, cached_live, cached_pc, cached_old,
    cached_semaphore, cached_reading,
    hooks_idx, hooks_hooks_active, hooks_bt, hooks_queue, hooks_slot, hooks_stack,
    hooks_reader, hooks_touched,
    walk_memory, walk_registers, walk_maxStackDepth, walk_backtrace, walk_skip, walk_kind,
    walk_asyncs, walk_cursor, walk_entries,
    images_images, images_suspended, images_loads, images_task, images_address,
    images_isReturn, images_count, images_at, images_found, images_answer, images_listed,
    rebind_loaded, rebind_bindings, rebind_replaced, rebind_callbacks, rebind_todo,
    rebind_hooks_active, rebind_hooks_installed, rebind_again, rebind_failures,
    handlers_alive, handlers_doing, handlers_suspended, handlers_rest, handlers_held,
    handlers_strays, handlers_g_stackCursor, handlers_g_captureNextStackTrace,
    handlers_terminating,
    codes_crash, codes_overflow, codes_enabled, codes_step, codes_report,
    zombies_live, zombies_made, zombies_pc, zombies_cache, zombies_last, zombies_freed,
    zombies_released, zombies_mixed,
    console_file, console_fds, console_gFd, console_opened, console_pc, console_count,
    console_since, console_reported, console_crossed

introVars == <<intro_memory, intro_damage, intro_class, intro_reports, intro_todo, intro_limit,
               intro_written, intro_level, intro_fate>>
cachedVars == <<cached_found, cached_mach, cached_names, cached_count, cached_live, cached_pc,
                cached_old, cached_semaphore, cached_reading>>
hooksVars == <<hooks_idx, hooks_hooks_active, hooks_bt, hooks_queue, hooks_slot, hooks_stack,
               hooks_reader, hooks_touched>>
walkVars == <<walk_memory, walk_registers, walk_maxStackDepth, walk_backtrace, walk_skip,
              walk_kind, walk_asyncs, walk_cursor, walk_entries>>
imagesVars == <<images_images, images_suspended, images_loads, images_task, images_address,
                images_isReturn, images_count, images_at, images_found, images_answer,
                images_listed>>
rebindVars == <<rebind_loaded, rebind_bindings, rebind_replaced, rebind_callbacks, rebind_todo,
                rebind_hooks_active, rebind_hooks_installed, rebind_again, rebind_failures>>
handlersVars == <<handlers_alive, handlers_doing, handlers_suspended, handlers_rest,
                  handlers_held, handlers_strays, handlers_g_stackCursor,
                  handlers_g_captureNextStackTrace, handlers_terminating>>
codesVars == <<codes_crash, codes_overflow, codes_enabled, codes_step, codes_report>>
zombiesVars == <<zombies_live, zombies_made, zombies_pc, zombies_cache, zombies_last,
                 zombies_freed, zombies_released, zombies_mixed>>
consoleVars == <<console_file, console_fds, console_gFd, console_opened, console_pc,
                 console_count, console_since, console_reported, console_crossed>>

-----------------------------------------------------------------------------
(* Introspection: an object of each kind, its classes above it, with and   *)
(* without an extension of the class's data, and memory that looks alike.  *)
Empty == [readable |-> TRUE, isa |-> "nil", super |-> "nil", data |-> "nil", ro |-> "nil", name |-> "nil",
          ivars |-> "nil", store |-> "nil", tag |-> FALSE, root |-> FALSE, meta |-> FALSE,
          text |-> "junk", form |-> "eightBit", entries |-> <<>>]
Gone == [Empty EXCEPT !.readable = FALSE]
Text(t) == [Empty EXCEPT !.text = t]
Class(super, rw) == [Empty EXCEPT !.isa = "meta", !.super = super, !.data = rw]
Ivar(value) == [name |-> "ivar", type |-> "@", value |-> value]
TaggedPointers == {"taggedString", "taggedDate", "taggedIndexPath"}
Heap(t, form, ext, alike) ==
    [a \in {"nil", "wild"} \cup TaggedPointers |-> Gone] @@
    [obj   |-> [Empty EXCEPT !.isa = "cls", !.super = "cls", !.data = alike, !.form = form,
                             !.store = IF t \in {"cfarray", "nsarray"} THEN "obj" ELSE "text"],
     cls   |-> Class("mid", "clsRW"), mid |-> Class("top", "midRW"), top |-> Class("nil", "topRW"),
     meta  |-> Class("mid", "metaRW"),
     clsRW |-> [Empty EXCEPT !.ro = IF ext THEN "ext" ELSE "clsRO", !.tag = ext],
     midRW |-> [Empty EXCEPT !.ro = "midRO"], topRW |-> [Empty EXCEPT !.ro = "topRO"],
     metaRW |-> [Empty EXCEPT !.ro = "metaRO"], ext |-> [Empty EXCEPT !.ro = "clsRO"],
     clsRO |-> [Empty EXCEPT !.name = "clsName", !.ivars = IF t = "Thing" THEN "list" ELSE "nil"],
     midRO |-> [Empty EXCEPT !.name = "midName"], topRO |-> [Empty EXCEPT !.name = "topName", !.root = TRUE],
     metaRO |-> [Empty EXCEPT !.name = "clsName", !.meta = TRUE],
     clsName |-> Text(t), topName |-> Text("NSObject"),
     midName |-> Text(IF t = "date" /\ form = "utf16" THEN "NSBlock" ELSE "Base"),
     list |-> [Empty EXCEPT !.entries = <<Ivar("obj"), Ivar("obj"), Ivar("text"), Ivar("obj"), Ivar("obj")>>],
     ivar |-> Text("_next"), text |-> [Text("hello") EXCEPT !.store = "text"]]
SomeHeaps ==
    {Heap("date", "eightBit", ext, "clsRW") : ext \in BOOLEAN}
    \cup {Heap("Thing", "eightBit", FALSE, alike) : alike \in {"clsRW", "nil"}}
    \cup {Heap("string", form, FALSE, "clsRW") : form \in {"eightBit", "utf16"}}
    \cup {Heap(t, "utf16", FALSE, "clsRW") : t \in {"number", "url", "cfarray", "date", "nsarray"}}

(* AsyncHooks: threads in one slot, and in two. *)
SomeHashes == {"a" :> 1 @@ "b" :> 1, "a" :> 1 @@ "b" :> 2}

(* StackWalk: two frames, circular ones and unreadable ones among them. *)
SomeStacks == UNION {[D -> [previous : 0..2, return_address : {0, 10}]] : D \in SUBSET (1..2)}
SomeRegisters == [instruction : {0, 7}, link : {0, 8}, frame : 0..2]
SomeCaptured == {<<>>, <<5, 6>>, <<5, 6, 4, 1>>, <<5, 0, 6>>}
SomeChains == {<<>>, << <<20, 21>> >>, << <<20, 1>>, <<>>, <<30>> >>}

(* Images: one at its place, one that slid, one that wraps around. *)
Seg(a, n) == [from |-> a, size |-> n]
Sym(v, n) == [value |-> v, stripped |-> FALSE, name |-> n]
Img(slide, link, syms, m) == [name |-> IF slide = 8 THEN "app" ELSE "other", slide |-> slide,
                              segments |-> {Seg(2, 3), Seg(6, 2)}, linkedit |-> link,
                              symbols |-> syms, message |-> m]
SomeSymbols == {<<Sym(0, "ext"), Sym(2, "f"), Sym(4, "g"), Sym(6, "data")>>,
                <<Sym(4, "g"), Sym(0, "ext"), Sym(4, "alias"), Sym(3, "f")>>, <<>>,
                <<[Sym(2, "header") EXCEPT !.stripped = TRUE], Sym(0, "ext")>>}
SomeMessages == [version : {3, 4}, readable : {0, 2, 4}, zero : 1..3]
NoMessage == [version |-> 5, readable |-> 4, zero |-> 1]
SomePrograms == {<<Img(0, l, s, NoMessage), Img(8, TRUE, r, NoMessage)>> :
                    l \in BOOLEAN, s \in SomeSymbols, r \in SomeSymbols}
                \cup {<<Img(22, l, s, m)>> : l \in BOOLEAN, s \in SomeSymbols, m \in SomeMessages}
SomePlugins == {Img(16, TRUE, <<Sym(2, "p")>>, NoMessage)}
SomeAddresses == {0, 2, 3, 4, 5, 7, 8, 9, 10, 11, 12, 13, 15, 18, 24, 25, 26, 27, 29, 30, 31}

(* Rebinding: pointers of both kinds, in every combination. *)
SomeSlots == "a" :> {"bound"} @@ "b" :> {"lazy", "bound"} @@ "c" :> {"lazy"}

(* CrashCodes: the codes that the code tests, and others.  Zombies: two addresses in one slot. *)
SomeCodes == {"0", "KERN_INVALID_ADDRESS", "KERN_PROTECTION_FAILURE", "EXC_UNIX_BAD_SYSCALL",
              "EXC_UNIX_BAD_PIPE", "EXC_UNIX_ABORT", "EXC_SOFT_SIGNAL"}
SomeSlotOf == "a" :> "zero" @@ "b" :> "zero"
SlotAt(a) == SlotOf[a]

-----------------------------------------------------------------------------
Intro == INSTANCE Introspection WITH Heaps <- SomeHeaps,
    Targets <- {"wild", "text", "obj", "topRW", "taggedIndexPath"},
    Roots <- {"obj", "cls", "taggedString"}, MaxDamage <- 1, MaxReports <- 2,
    Restricted <- {"nsarray"}, SearchDepth <- 8, MaxIvars <- 4, memory <- intro_memory,
    damage <- intro_damage, class <- intro_class, reports <- intro_reports, todo <- intro_todo,
    limit <- intro_limit, written <- intro_written, level <- intro_level, fate <- intro_fate
Cached == INSTANCE CachedThreads WITH Threads <- Listed,
    found <- cached_found, mach <- cached_mach, names <- cached_names, count <- cached_count,
    live <- cached_live, pc <- cached_pc, old <- cached_old, semaphore <- cached_semaphore,
    reading <- cached_reading
Hooks == INSTANCE AsyncHooks WITH Threads <- Callers, idx <- hooks_idx, hooks_active <- hooks_hooks_active,
    bt <- hooks_bt, queue <- hooks_queue, slot <- hooks_slot, stack <- hooks_stack,
    reader <- hooks_reader, touched <- hooks_touched
Walk == INSTANCE StackWalk WITH Memories <- SomeStacks, Registers <- SomeRegisters,
    MaxStackDepths <- {1, 2, 3, 5}, Captured <- SomeCaptured, AsyncChains <- SomeChains,
    memory <- walk_memory, registers <- walk_registers, maxStackDepth <- walk_maxStackDepth,
    backtrace <- walk_backtrace, skip <- walk_skip, kind <- walk_kind, asyncs <- walk_asyncs,
    cursor <- walk_cursor, entries <- walk_entries
Loaded == INSTANCE Images WITH Programs <- SomePrograms, Plugins <- SomePlugins,
    Addresses <- SomeAddresses, Modulus <- 32, MaxMessage <- 2, Wanted <- "app", MaxLoads <- 1,
    images <- images_images, suspended <- images_suspended, loads <- images_loads,
    task <- images_task, address <- images_address, isReturn <- images_isReturn,
    count <- images_count, at <- images_at, found <- images_found, answer <- images_answer,
    listed <- images_listed
Rebind == INSTANCE Rebinding WITH Images <- HookedImages,
    loaded <- rebind_loaded, bindings <- rebind_bindings,
    replaced <- rebind_replaced, callbacks <- rebind_callbacks, todo <- rebind_todo,
    hooks_active <- rebind_hooks_active, hooks_installed <- rebind_hooks_installed,
    again <- rebind_again, failures <- rebind_failures
Handlers == INSTANCE HandlerThreads WITH
    alive <- handlers_alive, doing <- handlers_doing, suspended <- handlers_suspended,
    rest <- handlers_rest, held <- handlers_held, strays <- handlers_strays,
    g_stackCursor <- handlers_g_stackCursor,
    g_captureNextStackTrace <- handlers_g_captureNextStackTrace,
    terminating <- handlers_terminating
Codes == INSTANCE CrashCodes WITH Codes <- MachCodes, crash <- codes_crash,
    overflow <- codes_overflow, enabled <- codes_enabled, step <- codes_step,
    report <- codes_report
Zombie == INSTANCE Zombies WITH Threads <- Releasers, Slot <- SlotAt,
    live <- zombies_live, made <- zombies_made, pc <- zombies_pc,
    cache <- zombies_cache, last <- zombies_last, freed <- zombies_freed,
    released <- zombies_released, mixed <- zombies_mixed
Console == INSTANCE ConsoleLog WITH Threads <- Loggers, MaxReports <- MaxLogs, Others <- MaxFiles,
    file <- console_file, fds <- console_fds, gFd <- console_gFd,
    opened <- console_opened, pc <- console_pc, count <- console_count, since <- console_since,
    reported <- console_reported, crossed <- console_crossed

Idle == "idle part"

MCInit ==
    /\ part \in {"intro", "cached", "hooks", "walk", "images", "rebind", "handlers", "codes", "zombies",
                "console"}
    /\ IF part = "intro" THEN Intro!Init ELSE
            intro_memory = Idle /\
            intro_damage = Idle /\ intro_class = Idle /\ intro_reports = Idle /\
            intro_todo = Idle /\ intro_limit = Idle /\ intro_written = Idle /\
            intro_level = Idle /\ intro_fate = Idle
    /\ IF part = "cached" THEN Cached!Init ELSE
            cached_found = Idle /\
            cached_mach = Idle /\ cached_names = Idle /\ cached_count = Idle /\
            cached_live = Idle /\ cached_pc = Idle /\ cached_old = Idle /\
            cached_semaphore = Idle /\ cached_reading = Idle
    /\ IF part = "hooks" THEN Hooks!Init ELSE
            hooks_idx = Idle /\
            hooks_hooks_active = Idle /\ hooks_bt = Idle /\ hooks_queue = Idle /\
            hooks_slot = Idle /\ hooks_stack = Idle /\ hooks_reader = Idle /\
            hooks_touched = Idle
    /\ IF part = "walk" THEN Walk!Init ELSE
            walk_memory = Idle /\
            walk_registers = Idle /\ walk_maxStackDepth = Idle /\ walk_backtrace = Idle /\
            walk_skip = Idle /\ walk_kind = Idle /\ walk_asyncs = Idle /\ walk_cursor = Idle /\
            walk_entries = Idle
    /\ IF part = "images" THEN Loaded!Init ELSE
            images_images = Idle /\
            images_suspended = Idle /\ images_loads = Idle /\ images_task = Idle /\
            images_address = Idle /\ images_isReturn = Idle /\ images_count = Idle /\
            images_at = Idle /\ images_found = Idle /\ images_answer = Idle /\
            images_listed = Idle
    /\ IF part = "rebind" THEN Rebind!Init ELSE
            rebind_loaded = Idle /\
            rebind_bindings = Idle /\ rebind_replaced = Idle /\ rebind_callbacks = Idle /\
            rebind_todo = Idle /\ rebind_hooks_active = Idle /\
            rebind_hooks_installed = Idle /\ rebind_again = Idle /\ rebind_failures = Idle
    /\ IF part = "handlers" THEN Handlers!Init ELSE
            handlers_alive = Idle /\
            handlers_doing = Idle /\ handlers_suspended = Idle /\ handlers_rest = Idle /\
            handlers_held = Idle /\ handlers_strays = Idle /\ handlers_g_stackCursor = Idle /\
            handlers_g_captureNextStackTrace = Idle /\ handlers_terminating = Idle
    /\ IF part = "codes" THEN Codes!Init ELSE
            codes_crash = Idle /\
            codes_overflow = Idle /\ codes_enabled = Idle /\ codes_step = Idle /\
            codes_report = Idle
    /\ IF part = "zombies" THEN Zombie!Init ELSE
            zombies_live = Idle /\
            zombies_made = Idle /\ zombies_pc = Idle /\ zombies_cache = Idle /\
            zombies_last = Idle /\ zombies_freed = Idle /\ zombies_released = Idle /\
            zombies_mixed = Idle
    /\ IF part = "console" THEN Console!Init ELSE
            console_file = Idle /\
            console_fds = Idle /\ console_gFd = Idle /\ console_opened = Idle /\
            console_pc = Idle /\ console_count = Idle /\ console_since = Idle /\
            console_reported = Idle /\ console_crossed = Idle

RunIntro == /\ part = "intro" /\ Intro!Next
    /\ UNCHANGED <<part, cachedVars, hooksVars,
            walkVars, imagesVars, rebindVars, handlersVars, codesVars, zombiesVars, consoleVars>>
RunCached == /\ part = "cached" /\ Cached!Next
    /\ UNCHANGED <<part, introVars, hooksVars,
            walkVars, imagesVars, rebindVars, handlersVars, codesVars, zombiesVars, consoleVars>>
RunHooks == /\ part = "hooks" /\ Hooks!Next
    /\ UNCHANGED <<part, introVars, cachedVars,
            walkVars, imagesVars, rebindVars, handlersVars, codesVars, zombiesVars, consoleVars>>
RunWalk == /\ part = "walk" /\ Walk!Next
    /\ UNCHANGED <<part, introVars, cachedVars,
            hooksVars, imagesVars, rebindVars, handlersVars, codesVars, zombiesVars,
            consoleVars>>
RunLoaded == /\ part = "images" /\ Loaded!Next
    /\ UNCHANGED <<part, introVars, cachedVars,
            hooksVars, walkVars, rebindVars, handlersVars, codesVars, zombiesVars, consoleVars>>
RunRebind == /\ part = "rebind" /\ Rebind!Next
    /\ UNCHANGED <<part, introVars, cachedVars,
            hooksVars, walkVars, imagesVars, handlersVars, codesVars, zombiesVars, consoleVars>>
RunHandlers == /\ part = "handlers" /\ Handlers!Next
    /\ UNCHANGED <<part, introVars,
            cachedVars, hooksVars, walkVars, imagesVars, rebindVars, codesVars, zombiesVars,
            consoleVars>>
RunCodes == /\ part = "codes" /\ Codes!Next
    /\ UNCHANGED <<part, introVars, cachedVars,
            hooksVars, walkVars, imagesVars, rebindVars, handlersVars, zombiesVars, consoleVars>>
RunZombie == /\ part = "zombies" /\ Zombie!Next
    /\ UNCHANGED <<part, introVars, cachedVars,
            hooksVars, walkVars, imagesVars, rebindVars, handlersVars, codesVars, consoleVars>>
RunConsole == /\ part = "console" /\ Console!Next
    /\ UNCHANGED <<part, introVars,
            cachedVars, hooksVars, walkVars, imagesVars, rebindVars, handlersVars, codesVars,
            zombiesVars>>

MCNext == RunIntro \/ RunCached \/ RunHooks \/ RunWalk \/ RunLoaded \/ RunRebind \/ RunHandlers \/
          RunCodes \/ RunZombie \/ RunConsole
allVars == <<part, introVars, cachedVars, hooksVars, walkVars, imagesVars, rebindVars,
            handlersVars, codesVars, zombiesVars, consoleVars>>
MCSpec == MCInit /\ [][MCNext]_allVars
-----------------------------------------------------------------------------
\* Introspection: whatever is damaged, the handler faults only where the code reads what it has
\* not checked, what it writes of a pointer is bounded, in circles of objects too, and an object
\* that passes the check of its class can be read.
SearchOfObjects ==
    part = "intro" =>
        Intro!FaultsOnlyWhereUnchecked /\ Intro!SearchIsBounded /\ Intro!ValidOfItsClassCanBeRead

\* CachedThreads: a handler that froze the list at rest reads live memory, the list does not
\* change under it, and no list is leaked.
ThreadListIsLive ==
    part = "cached" =>
        Cached!TypeOK /\ Cached!HandlerReadsLive /\ Cached!FrozenListStays /\ Cached!NothingLeaks

\* AsyncHooks: the backtrace of a block's dispatch lives as long as the block runs, and it is the
\* one that the thread of the block finds.
CallersOfBlocks ==
    part = "hooks" => Hooks!TypeOK /\ Hooks!CallersStayAlive /\ Hooks!CallerIsOfTheBlock

\* StackWalk: a walk gives the callers in their order and ends on any memory.
\* Images: calls are given their functions, every image is in the report, and the one that has a
\* name is found.
AddressesAreNamed ==
    /\ part = "walk" => Walk!TypeOK /\ Walk!CallersInOrder /\ Walk!WalkEnds
    /\ part = "images" => /\ Loaded!TypeOK /\ Loaded!CallIsNamed /\ Loaded!EveryImageIsListed
                          /\ Loaded!AllAreFound /\ Loaded!NoFault /\ Loaded!MessagesCanBeRead
                          /\ Loaded!NamedIsFound

\* Rebinding: a call through any pointer reaches the function, however the two tools that
\* rebind it, images that are loaded and failures of the system alternate.
CallsReachTheFunction == part = "rebind" => Rebind!TypeOK /\ Rebind!CallsReachTheFunction

\* HandlerThreads: the others stand still while a lone handler writes, threads that are reserved
\* are never suspended, and after the handlers every thread runs again.
HandlersSuspend ==
    part = "handlers" => /\ Handlers!TypeOK /\ Handlers!OthersStandStill
                         /\ Handlers!ReservedRun /\ Handlers!EverybodyRunsAgain
\* HandlerThreads: the cursor a report is written from does not change under it, as long as its
\* handler has suspended all others and none was resumed.
CursorStandsStill == [][part = "handlers" => Handlers!CursorStays]_allVars

\* CrashCodes: a crash that both monitors can see is given the same names by both, but for those
\* the kernel makes of a software exception (EXC_SOFTWARE).
\* Zombies: a zombie has the class of its object, and the exception is the last one.
\* ConsoleLog: the file holds what was logged since it was begun, but for what could not be written,
\* unless a thread wrote, or failed to begin the log, while another began it.
CrashIsDescribed ==
    /\ part = "codes" => Codes!TypeOK /\ Codes!BothTellTheSame
    /\ part = "zombies" => Zombie!TypeOK /\ Zombie!ZombieHasItsClass /\ Zombie!ExceptionIsTheLast
    /\ part = "console" => Console!TypeOK /\ Console!LogIsWhatWasLogged
=============================================================================
