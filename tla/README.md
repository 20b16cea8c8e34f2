# Steamclog: a verification development

TLA+ models, TLC configurations and TLAPS proofs for SteamcLog, the Swift
logging library, for the part of XCGLogger it is built on, and for the crash
reporter of the Sentry SDK it starts, which handles what `fatal` sets off. Paths
are relative to the repository; `XCG/` stands for
`Example/Pods/XCGLogger/Sources/XCGLogger/`, `SC/` for
`Example/Pods/Sentry/Sources/SentryCrash/Recording/`.

## 1. The system

One `SteamcLog` value (a struct) owns an `XCGLogger` and three destinations.
Any thread of the application may call it; nothing in it is locked. The Sentry
SDK it configures installs crash handlers, which run when the process is about
to die, on threads whose other threads have been stopped.

| component | code | state | modules |
|---|---|---|---|
| SteamcLog, logger, destinations | `SteamcLog/Classes/SteamcLog.swift`, `XCG/XCGLogger.swift`, `XCG/Destinations/Base*.swift` | `config`, `destinations`, their `outputLevel` and `owner` | `LogDispatch`, `Registry` |
| Disk log | `XCG/Destinations/FileDestination.swift`, `AutoRotatingFileDestination.swift` | file handle, size and start of the current file; archives and their attributes | `RotatingLogFile`, `DurableLog` |
| Sentry and system destinations | `SteamcLog/Classes/Destinations/*` | none; the SDK's breadcrumb ring | `LogDispatch`, `UserReport` |
| Redaction, Netable adapter | `Helper/Redactable.swift`, the generic calls, `Netable/*` | a copy of a SteamcLog value | `Redaction` |
| User reports, export | `SteamcLog.swift` 295-335, 492-508 | paths of log files | `UserReport` |
| Crash handlers | `SC/Monitors/*`, `SC/SentryCrashC.c`, `SC/Tools/SentryCrashMachineContext.c` | handlers and ports of before, suspended threads, the paths of reports | `CrashHandling`, `HandlerThreads`, `CrashCodes`, `MonitorInstall` |
| Hooks | `SC/Tools/fishhook.c`, `SentryHook.c` | pointers of every image, backtraces of blocks | `Rebinding`, `AsyncHooks` |
| Report store, sink | `SC/SentryCrashReportStore.c`, `SC/SentryCrash.m` | a directory | `CrashReportStore` |
| App state | `SC/Monitors/SentryCrashMonitor_AppState.c` | a file over launches | `AppState` |
| Report text | `SC/SentryCrashReport.c`, `SC/Tools/SentryCrashJSONCodec.c`, `SentryCrashFileUtils.c` | containers, buffers, files | `JSON*`, `ReportFixer`, `ReportSections`, `BufferedFile`, `FileTree` |
| What a report says | `SC/Tools/SentryCrashObjC.c`, `SentryCrashMemory.c`, `SentryCrashDynamicLinker.c`, stack cursors, `SC/SentryCrashCachedData.c`, `SentryCrashMonitor_Zombie.c` | damaged memory, lists kept while the app ran | `Introspection`, `TextBuffers`, `Descriptions`, `CachedThreads`, `StackWalk`, `Images`, `Zombies` |
| Data the app sets | `SentryScope.m`, `SentryScopeSyncC.c` | C copies of the scope, a ring | `ReportData` |
| The reporter's own log | `SC/Tools/SentryCrashLogger.c` | a descriptor and a file | `ConsoleLog` |

How they interact:

* A call builds one line, or two (`error` and `fatal` log their details first,
  at level info), and hands each to `XCGLogger.logln`. That reads every
  destination's level, then processes the enabled ones in order.
* Sentry and the system log do their work on the calling thread. The disk
  destination queues a closure on `XCGLogger.logQueue`, a serial queue; the
  closure writes, and rotates the file when it is too large or too old.
* The disk destination logs about itself (`_logln`) in the middle of a
  rotation. Those lines go to the other destinations, and, unless they are
  errors, to its own queue.
* Assigning `config` runs a `didSet` that moves the destinations' levels one
  by one. `attach` adds a destination, and takes it from the logger it had.
* `userReport` and `getLogFileContents` read the disk log's files from other
  threads than the queue's.
* `fatal` ends in a trap: a Mach exception, then a signal. Handlers stop the
  threads, note the crash in the app state, write a report through the encoder
  and a buffered file, and hand the event on. A handler that crashes is handled
  again, and its report contains the first one, decoded and encoded anew. The
  next launch reads the app state, prunes the store, fixes each report's
  timestamps, sends it and deletes it.

What is hard: the process can die at any point of a rotation, a save or a report,
and be launched again over the files it left; each file-system call can fail;
time zones change under names made of local time; threads interleave inside one
logging call, a change of configuration, an attach; handlers run on damaged
memory, with threads stopped at any instruction, and may themselves fault.
`PROJECT.json` lists these hazards, each at its line.

What makes each part correct: no message vanishes, is stored twice or comes back,
and clean-up removes only what is in excess (disk log); a line reaches exactly
the destinations its level and the preset say, in the order of the calls
(dispatch); no call prints what is not declared safe (redaction); the
attachments hold the lines that led to a report (user reports); a crash ends the
process, leaves a report and is known to the next launch (crash handling); a
report is a JSON text whatever is in it, stays in its buffers, and says only what
is true of the crash (report writing).

## 2. Modules

Definitions called "Mutant of ..." are altered forms of a definition, kept beside
it to measure that a property can fail.

### The logging library

`RotatingLogFile` is the disk log from the queue to the folder. The current file
and the archives are records (`current`, `archive`), archives indexed by the
local time in their name, with `stamp` for the extended attributes (0: not both
set). Stamps are ranks: only their order is read by the code. The worker's `pc`
follows `write`, `rotateFile()`, `rotateFile(to:)`, `openFile`, `cleanUpLogFiles`:

| action | code |
|---|---|
| `Log`, `Fatal` | a call's line reaches `BaseQueuedDestination.output`; `fatal` traps after it |
| `WriteLine`, `DropLine` | `AutoRotatingFileDestination.write`, with an open file or without one (or with a write that raises) |
| `StartRotation`, `RefuseRotation` | `rotateFile()` picks a name; an existing file of that name refuses it, and the counters are reset all the same |
| `MoveFile`, `MoveFails` | `moveItem` |
| `TagArchive` | the two extended attributes, then the "Rotated file" line |
| `Reopen` | `openFile`, then the counters |
| `DeleteArchive`, `EndCleanup` | `cleanUpLogFiles`, one file at a time |
| `Boot`, `Attach` | the initializer, and `XCGLogger.add` |
| `Crash` | the process ends, at any `pc` |
| `Tick`, `Travel` | the clock and the time zone |

`owner` has three values: none before `add`, "adding" from the moment `add` sets
the owner (which opens the file and writes at once) until the destination is
registered and has its queue, "added" from then on. A rotation that the opening
lines set off inside `add` is the same actions with owner "adding"; several in a
row are flattened into a loop, where the code recurses. A message is a number in
the order of the calls and has one character. The lines the logger writes about
itself are one value, `Note`, of `NoteChars` characters: they pass through the queue
and take their room, but are not kept among the lines.

Characters and bytes are two quantities, as in the code. `write` adds the characters
of a message to `size`, without its newline (`AutoRotatingFileDestination.swift:278`);
the file grows by those and `ExtraBytes` (the newline, longer encodings), and by
`MarkBytes` for the marker of a file that is appended to; at a launch `size` is the
file's bytes. `current.chars` and `current.bytes` are what is in the file,
`MaxBytes` the bound beyond which a file is not measured.

`DurableLog` is what the disk log promises to somebody who reads all its files in
order: one log to which messages are appended, from which runs are discarded, and
in front of which messages wait. `RotatingLogFile!ImplementsDurableLog` is the
refinement: `pending` is the messages in the queue, `kept` the concatenation of
the files.

`UserReport` extends `RotatingLogFile` with the readers: `BeginReport` computes the
two paths, `Attach1` and `LogReport` read them, `Export` is `getLogFileContents`;
`LogStep` is any step of the disk log in between. `named` is what the two files held
at the call: a report must have all of it, or one of the files was moved, removed or
changed meanwhile.

`LogDispatch` has the levels, their raw values and the presets, and threads that
call the logger: `Call` starts a call, `Filter` reads one
destination's level, `Deliver` processes one enabled destination, `EndLine` ends a
line and, after the last, the call. `AssignConfig` and `DidSet` are an assignment
to `config`, with one step per destination; assignments are made by one thread, as
two at once would be a data race on the struct. `RotationFails` and
`ReportRotation` are the disk log's own error line, which skips the disk
destination and becomes a warning breadcrumb and an event with a fixed text. A
suppressed error is a call of kind warn. The model has a Sentry configuration;
without one its destination is missing and the others behave as here. `after`,
`steady` and `returned` are history, for the properties.

`Registry` is `attach`, `add` and `remove`, step by step: the identifier is looked
up, the previous owner lets go (owner cleared, array filtered, array stored), the
new one takes over (owner set, array appended to and stored), while other threads
log through the array they read. The array of Swift is a value; reading it while
it is stored is a data race and may crash (`Torn`).

`Redaction` has each level's overloads as operators of the static and dynamic type
of the object (`Overloads`, then `Shown`, what an overload prints: "safe" by
`debugDescription`, "own" by a description that the type has itself, or "whole"),
copies of the struct with the config they were made with, `track`, and Netable's
adapter, whose other events print URLs and errors (`RequestEvent`).

### The crash reporter

| module | what its actions are |
|---|---|
| `CrashHandling` | threads of the app and the two exception threads, each with a program counter through the Mach, signal, C++, NSException and user handlers: suspend, note, write, disarm, resume, hand on; faults inside a handler and the recrash report |
| `HandlerThreads` | suspending thread by thread, several handlers at once, threads started meanwhile, and the cursor of the C++ monitor |
| `CrashCodes` | Mach exceptions, signals and their codes translated into each other |
| `MonitorInstall` | `sigaction`, exception ports and exception threads, set one after the other, failing, reversed; an exception that is handled, which puts the ports back |
| `Rebinding` | fishhook, image by image and callback by callback, used by two libraries |
| `AsyncHooks` | capture, set, unset and release of a block's backtrace, slots that threads share, readers |
| `CachedThreads` | the thread that replaces the list, its counter of freezes, handlers and reports that read it |
| `StackWalk`, `Images` | frames followed through memory that may be damaged; images loaded and unloaded while addresses are looked up |
| `Introspection` | `isa` pointers, class data, validation by class, the walk from an address to what it refers to, in a heap with damaged words |
| `TextBuffers`, `Descriptions` | copies of what can be read, UTF-16 made UTF-8, pieces put into a buffer of any size |
| `Zombies`, `ConsoleLog` | a cache written by every dealloc; a log whose descriptor is replaced, with writes and openings that fail |
| `ReportData` | setters of the scope, breadcrumbs, user data, as steps of free, allocate and store; values that JSON can not hold (`NotEncoded`) |
| `JSONEncoder`, `JSONWriter` | the encoder's calls as operators on a record; any order of calls, followed by a reader that knows only the grammar (the end of `JSONEncoder`) |
| `JSONDecoder`, `JSONReading`, `JSONUnicode`, `JSONEmbed` | the decoder (recursive, so in modules of their own), texts cut at each character, escapes digit by digit, and decoder and encoder in lock step over memory or a file |
| `ReportFixer` | decoder and encoder with the paths it keeps; as `matchesPath`, it takes what is on the way to a date for one |
| `ReportSections`, `BufferedFile`, `FileTree` | the order of the sections and what a crash of the handler leaves, up to the first text the decoder has no room for; the buffers in front of and behind a file; paths, folders, tails of files, with links that lead back and calls that fail |
| `CrashReportStore`, `AppState` | ids, pruning, sending (a report of which no event can be made is passed over, `AfterConversion`), deleting; transitions, counters and the file they are saved in, which can fail to open or be cut |

Data is abstracted to what the properties tell apart: a text is a sequence of
characters of a few classes, memory a function from a few addresses, a function a
range of addresses. Sizes (buffers, depths, counts, digits) are constants and
scaled down; masks and table lookups keep their width relative to those.

## 3. Runs

| run | what it checks | bounds |
|---|---|---|
| `disk_log` | `TypeOK`, `Accounted` (each message is in one place), `NoSilentDrop`, `ArchivesTrimmed` | 3 messages, 3 s, 2 failing calls, two zones a second apart, size 2, age 2 s, 1 archive |
| `disk_log_refinement` | `ImplementsDurableLog`, `QueueDrains` (liveness), `OnlyExcessRemoved`, `FileSizeBounded` | 3 messages, 2 s, one failing call, one zone, with fairness; the logger's own lines have a character, each line and marker a byte more |
| `dispatch` | `TypeOK`, `LinesInCallOrder`, `EventHasItsDetails`, `DeliveredAsConfigured` | 2 threads; 3 calls and a failed rotation, or 2 calls and 2 changes of config; a trail of 2 |
| `app_calls` | `LogGoesWithReports` (`UserReport`), `RedactionIsRequired` (`Redaction`), `DataOfReports` (`ReportData`), `DestinationsAreOwned` (`Registry`) | 4 messages and a user report; 4 calls with values of each kind; 2 threads and 3 setters; 3 destinations, two of one identifier, attached 3 times to 2 loggers |
| `crash_handling` | `ReportImpliesNoted`, `NobodyLeftSuspended`, `LoneCrashIsReported`, `NothingOnDiskIsLost`, `LoneFatalEventEndsProcess` (liveness) | 2 threads; one event of any kind with 2 faults in handlers, or 2 events |
| `crash_lifecycle` | `StateFileTellsTheTruth` (`AppState`), `MonitorsAsAsked` (`MonitorInstall`), `ReportsAreKept`, `SendingEnds` (liveness; `CrashReportStore`) | 3 launches, 2 events, one failing system call, 3 installations, 3 reports of which 2 are kept |
| `codec` | `WriterKeepsJSON`, `TextsAreRead`, `EmbeddedKeepsJSON`, `FixedReportIsTheReport`, `TextsStayInside`, `FilesAreKept`, `SectionsOfReports` | 3 levels, portions of 2 characters, hundreds of texts, buffers of 3 to 24 characters; one failing call in a tree, one failing write or read |
| `crash_tools` | `SearchOfObjects`, `ThreadListIsLive`, `CallersOfBlocks`, `AddressesAreNamed`, `CallsReachTheFunction`, `HandlersSuspend`, `CursorStandsStill`, `CrashIsDescribed` | one damaged word and 2 reports; 3 threads and 2 updates; 3 backtraces; stacks of 5 frames; 3 images; 2 handlers at once; 3 objects in 2 addresses; a line of three pieces and 2 beginnings of the log, each of which may fail and log so |
| `fatal_on_disk`, `two_signals`, `next_crash_recorded`, `objects_redacted` | one statement of a comment or document each, which the code does not keep (section 5) | as the runs above |

The last four modules of the table are composites. Their components share no
state, so `MCAppCalls`, `MCCrashLifecycle`, `MCCodec` and `MCCrashTools` choose one
of them in the initial state (`part`) and leave the variables of the others alone:
the run explores the sum of the state spaces and loses no interleaving, because a
step of one component can neither enable nor change anything in another. Each
property names the component it is about. Components that do interact are in one
state machine: the readers with the disk log, the decoder with the encoder and
its file, the handlers with each other's threads.

Why the bounds are enough. Two messages fill a file, so three give a rotation with
a line behind it; three seconds and an age of two give a rotation by age, and
rotations in the same second (refused) and in the next; one archive kept makes
every second rotation remove one; launches and deaths are not bounded. Two failing
calls combine a failed rename with a failed reopening. A zone that differs by one
second stands for one that differs by an hour: what matters is that a later name
can equal an earlier one or sort before it. In the crash reporter the interesting
cases need two actors (two handlers, a handler and a thread in the middle of a
setter, two libraries that rebind), one or two failures, and buffers one element
shorter than, as long as, and longer than what goes through them; the bounds give
each. Three launches let the second one learn of the first and the third of
neither.

Runs whose calls, events or launches are bounded, or whose process may end, do not
check deadlock; `disk_log` and its refinement do.

### Fairness

* `RotatingLogFile!FairSpec`: weak fairness of `Worker`. As long as the process
  lives, a serial dispatch queue executes its next closure, a closure that has
  started continues, and so does the initializer. Nothing makes the application
  log, the clock advance, a launched process die or a dead one be launched again.
* `CrashHandling!FairSpec`: weak fairness of each thread that is not suspended,
  and of the kernel's handing on an exception. A suspended thread is owed nothing,
  which is why two handlers that suspend each other hang.
* `CrashReportStore!Sending`: the queue that reads, sends and deletes goes on.

The other properties are checked, and all theorems proved, without fairness.

## 4. Proofs

For all values of the constants that the named assumptions allow. `M_proofs`
holds the theorems about `M`. None of them needs fairness.

### The disk log

* `TypeCorrect`: `Spec => []TypeOK`.
* `NothingDroppedSilently`: `Spec => []NoSilentDrop`. A line is dropped without a
  fault only if the handle is nil when it is taken. `HandleInv` says when it is not:
  a registered destination that is not between closing and reopening has its file
  open, and before `add` there is no owner. The conjuncts on "rotate" and "cleanup"
  carry this through a rotation that is refused, where nothing was closed.
* `EveryMessageAccounted`: `Spec => []Accounted`. Alone it is not inductive: moving
  the file would overwrite messages if the name were taken, and writing a queued
  message twice would store it twice. `LedgerInv` adds that the chosen name is still
  free at "move", that a file which is not there has no lines, and that a message
  waits at most once.
* `CleanUpTrims`: `Spec => ArchivesTrimmed`. Tagged archives differ in their stamps,
  and while a clean-up runs, what it has not yet to remove is at most
  `TargetMaxLogFiles`, plus one for each call that failed. At its start that is a
  count: the tagged archives with fewer than `TargetMaxLogFiles` newer ones are told
  apart by the number of newer ones.
* `FilesAreOneLog`: `Zones = {z}` and `Spec` imply `ImplementsDurableLog`, the
  refinement. Archives are concatenated in the order of their names, which is the
  order of time only while the zone stays: `FileToMove` and `NameIsPast` say that a
  new archive's name sorts behind all others, so that moving the current file changes
  nothing in the concatenation, and removing an archive takes a run out of it.
  The lemmas about `FlattenSeq` at its beginning follow the recursive function part by
  part, with the least-number principle where one would use induction (the library's
  induction theorems can not be instantiated here); `DataIsKept` needs them, too.
* `DurableLog!LogStaysInOrder`: the abstract log's `Spec => []InOrder`, over lemmas on
  increasing sequences; `DiskIsInOrder` carries it over to the files.
* `CleanUpSpares`: `OnlyExcessRemoved`, in one zone. The invariant ties `victims`, the
  list that a clean-up made, to the ranks of the stamps that are there now, also after
  some were removed, or not.
* `FileStaysSmall`: `FileSizeBounded`, in one zone and with `TargetMaxLogFiles > 0`.
  The bound is on characters, as the code counts. `SizeInv`: `size` is below the threshold
  and the characters in the file exceed it by no more than the opening lines;
  `MeasureInv`: what a launch takes over, the bytes, is never below the characters. Of the
  file's bytes there is none, and none is claimed: newlines, longer encodings and
  markers are not counted while a process runs.
  A refused rotation leaves a file too large; it is excused by the archive that has
  the name. With no archive kept, the clean-up would remove that one.

The hypothesis of one zone is the code's own limit: without it `LastNameIsNewest`
fails (section 5). Time that goes on, deaths, launches and failing calls are in.

### Dispatch, and the calls of the application

* `LogDispatch_proofs!TypeCorrect`: `Spec => []TypeOK`, the bound of the breadcrumb
  trail included, for any set of threads, any scenarios and any limit.
* `CallOrder`: `Spec => []LinesInCallOrder`. Appending a line must not come after one
  whose call began later than this one returned. `CallsInProgress` (a line still to be
  logged belongs to a call that has not returned, and to one thread),
  `ReturnedBefore`, `LoggedCalls` and `ScansHaveLines` say why it can not;
  `OutputInv` is the heart: a line of a call that has not returned can be appended
  anywhere. It serves the delivery of a call's line and the disk log's own.
* `EventDetails`: `Spec => []EventHasItsDetails`. Between the details and the message
  of an error other threads add breadcrumbs. `DetailsInv` says where the details are
  meanwhile: in the trail, or the trail is full, or Sentry is still to be served.
* `DeliveryAsConfigured`: `Spec => DeliveredAsConfigured`. `SharesInv` follows a line
  through the two loops of `logln`: no destination is tested or enabled twice, one
  that is still in a loop does not have the line, and one that has left both has it
  just when its level passes.
* `AppCalls_proofs!RedactionKept`: `RedactionIsRequired`, by the overload each call
  resolves to. The statement names what requireRedacted does not cover: a Redacted
  type's own description, which interpolation prefers to the safe one, and `track`.
* `DestinationsKept`: `DestinationsAreOwned`, for any number of threads, loggers and
  destinations. `Owned` follows a destination through attach: in the array of the
  logger it is leaving, in none, in that of the one it enters.
* `LogWithReports`: `LogGoesWithReports`, in one zone and with one archive kept.
  `ReaderInv` has the stages of a report (`Starting`, `Halfway`, then the end), each
  saying which lines the reader has and how the files may have changed since, and
  `NamedInv` what of the lines named at the call is still to be read.
* `DataIsKept`: `DataOfReports`, for any number of threads, of crumbs
  in the ring and of calls. `CallsInTurn` says of each kind of call which steps it may
  have left, and in which order: what was read is freed next and stored then, an unlock
  is last, one text at most is brought. `Kept`: a call holds its lock, and none overlaps
  a start of the SDK. `Homes` is the heart of the first part, that a handler reads what
  is live: a text is at one place, what a call brings is nowhere yet, and what a call is
  about to free is where it was read from or nowhere, so that freeing it takes it from no
  other reader. `UnderLock` is that of the second, no text freed twice: without calls that
  go past the locks, what is about to be freed is *still* where it was read from. `Settled`
  is that of the third, the copy is the scope: after calls that did not overlap there is
  one value on its way to each place, the one that belongs there, or it is there. For the
  ring that value is `Target`, counted from where the next crumb goes (`Final`), so that
  a crumb that is added moves every target by one, as it does every place; a value or crumb that
  JSON can not hold is in the scope and not in the copy, and excused by the property; what the
  report writes (`Written`) is then the scope's crumbs in their order, by the lemmas on
  `FlattenSeq`. A start of the SDK is excused by the property: it makes an empty ring.

The properties of `RedactionKept`, `DestinationsKept`, `LogWithReports` and `DataIsKept` are
about one component of `MCAppCalls` each; the constants of those components are constants
of `MCAppCalls`, with their values in `MCAppCalls.cfg`, so that the theorems are about all
of them.

### The crash reporter

* `CrashHandling_proofs!NotedBeforeWritten`: `Spec => []ReportImpliesNoted`. `NInv`
  adds that a handler which has come as far as a report has noted its crash, and
  speaks of every file, linked or moved aside, because a recrash report takes up what
  the first one left.
* `NobodyStaysSuspended`: `Spec => []NobodyLeftSuspended`, with any number of events.
  As long as no thread was lost to a signal (`Calm`), the suspend count of a thread is
  the number of its `Holders`; what a lost one held stays suspended, but then the
  process is about to end.
* `NothingIsLost`: `[](events <= 1)` and `Spec` imply `[]NothingOnDiskIsLost`. One
  event makes a chain of handlers of which only the last can take a step that writes,
  and the invariant follows the chain. The hypothesis is needed: two user reports at
  once use one path (section 5).
* `LoneCrashReported`: `Spec => []LoneCrashIsReported`.
* `CrashLifecycle_proofs!StateFileIsTrue`: `StateFileTellsTheTruth`. `CrashOnItsWay`
  and `CountOnItsWay` say where the news of a crash is: in memory, in the file, or
  read by the launch.
* `MonitorsAreAsAsked`: `MonitorsAsAsked`, for any set of signals. Each step of the
  installation is reversed by what was noted of it (`TakenIsNoted`), and the list of
  reserved threads is long enough (`ThereIsRoom`).
* `ReportsKept`: `ReportsAreKept`. `Folder` says that no two files hold one report,
  but for those moved aside. That pruning leaves no more than the maximum is a count
  again: the files that remain lie behind those removed, and their places are an
  interval. `OnItsWay` follows each report from the ids to the outbox to the delivery;
  `OnceInv` says why none is sent twice (`OutboxFresh`, `ReadIsGone`, `FilesFresh`).
  Reports that no event can be made of are deleted with the others, and excused.
  The proof showed that a report overwritten while its id is listed twice may be sent
  twice, which the property, and its history variable, now allow for.

* `CrashTools_proofs!OthersAreSuspended`: `HandlersSuspend`, for any set of threads and
  any number of handlers. `Counts`: a thread is suspended once for each handler that
  holds it, or less often if another one resumed it that did not (`strays`). `Duties`
  says whom a handler holds before, on and after its way through the list of threads.
  `CursorIsLeftAlone`: `CursorStandsStill`. While it writes, nobody else runs who could
  throw, and only a throw sets the cursor.
* `ListIsLive`: `ThreadListIsLive`, for any number of updates and of reports that
  freeze the list. `AtRest` and `UnderWay` are a table of what is allocated at each step
  of an update: both lists while it is under way, with a count that exceeds neither until
  both arrays are exchanged, and the published one otherwise. The semaphore is the
  number of those who have frozen the list (`Frozen`), so that one frozen at rest stays.
* `CallersStay`: `CallersOfBlocks`, for any threads, slots they share, calls and blocks
  inside blocks. `Counting` is the heart: a count is the number of the blocks that wait
  or run, of the backtraces whose caller it is, and of the reader, and what nobody holds
  is freed. Blocks are counted from the outermost, so that their places stay when others
  begin and end inside them. `Nested` says that only the innermost is at a hook, and
  from its place whether the slot is the thread's; `Taken`, that a slot that is taken
  holds nothing but a backtrace of a block its thread runs, hence one that is not freed;
  `HandlerSees`, that a handler takes just that one. A user report suspends nobody, and
  may take one that is gone (section 5): until then, the invariant holds with it too.

* `CrashFacts_proofs!FunctionIsReached`: `CallsReachTheFunction`, for any images and
  pointers, in any order, and whatever pages cannot be written. That a call ends needs
  more than that every pointer was set: two tools that had saved each other would call
  each other for ever. `Straight` says that the tool that came first has saved no tool,
  and the second not itself; `OneAfterOther`, that the second begins when the first has
  done all images, so that a new image is given to them in this order (`OnTheWay`).
  Both fail when the other tool rebinds again, which the property excludes (section 5).
* `CrashDescribed`: `CrashIsDescribed`, in three parts. `CodesInv` is a table of what
  each monitor has filled in at each step. `ZombiesInv`: until two threads release into
  one slot at once, the name in it is of the object stored there (`SlotHasName`), and
  until two exceptions go at once, the one that goes is the one that was noted
  (`LastIsReleased`). `ConsoleInv`: one thread at a time begins the log anew, none
  writes or fails to open it meanwhile, and otherwise the descriptor in the global is at
  the end of the file. A write that fails leaves its piece out of both. An opening that
  fails sets the static descriptor, which another thread may be about to store.

Each of these, from `OthersAreSuspended` on, is about one component of `MCCrashTools` or
several, whose constants are constants of `MCCrashTools` with their values in
`MCCrashTools.cfg`, as in `MCAppCalls`. `ToolsAssumption` says what they have in common:
names that are told apart are different ("none" is no address, "sentry" no image), and
numbers are numbers.

### What is only model-checked

Liveness (`QueueDrains`, `LoneFatalEventEndsProcess`, `SendingEnds`) is out of the
prover's reach. So is the run `codec`: its decoder is recursive, and what it computes
for every text would need induction over data. Two of the properties in `crash_tools`,
`SearchOfObjects` and `AddressesAreNamed`, are about walks through memory like the
decoder's, and are left to TLC: what they promise is what a fold over a stack, a table
of symbols or a damaged object comes to, in the words of that fold.

## 5. What the code does not keep

Four runs end in a violation, each against a quoted line (`PROJECT.json`,
findings):

* `fatal_on_disk`: the line of `fatal` is queued and the process trapped, so it may
  never be written.
* `two_signals`: two threads with a fatal signal at the same time suspend each
  other, and nobody raises the signal again.
* `next_crash_recorded`: ids repeat after 512 seconds; a crash whose file is there
  already leaves no report.
* `objects_redacted`: `requireRedacted` is to "Require that all logged objects conform to
  Redacted or are all redacted by default" (`README.md:58`); `track` prints an object that
  does not encode, Redacted or not, into its warning (`SteamcLog.swift:484`).

The modules state further properties that fail, or hold only in a narrower form
than a reader would expect. Each has a comment; none is in a run that passes.

| where | what fails, and when |
|---|---|
| `RotatingLogFile!LastNameIsNewest` | the archive whose name sorts last is not the newest once the zone changes (`SteamcLog.swift:122` says it is) |
| `!ArchivesBounded` | an archive that was renamed but not tagged when the process died is never cleaned up (XCGLogger calls its target "a guideline only") |
| `LogDispatch!NothingUnderGlobal` | the global threshold has no effect: `logln` reads the destinations' levels only |
| `!FatalHasExtraInfo` | what `extraInfo` returned for `fatal` is dropped |
| `UserReport!ReportHasNoGap` | a rotation between the two attachments moves lines to an archive that is in neither; the message of a user report with an Encodable object is lost as well (`SteamcLog.swift` 311-331) |
| `Redaction!OnlySafeProperties`, `RedactedIsNeverWhole`, `RequestsAreSafe` | interpolation prefers a type's own description to the safe `debugDescription`, with `requireRedacted`, too; without it the overload for Encodable prints a Redacted value whole; Netable's adapter prints URLs and descriptions of errors |
| `Registry!OwnedOnceAlways`, `NothingTorn` | two destinations attached at once: one array overwrites the other; a call may read an array while it is stored. A destination that is refused, because its identifier is taken (the default one is ""), has its level changed all the same, without a word |
| `AppState!CrashedLastMeansCrashed`, `ActiveTimeIsActive`, `BackgroundTimeIsBackground` | a user report or a torn file makes the next launch believe in a crash; time is counted to the wrong state |
| `CrashReportStore!ListedAreStored`, `ListedOnce`, `PrunesOldest` | reports come and go between counting, listing and reading; a recrash's file moved aside is counted |
| `CrashHandling!RecrashMeansSecondCrash`, `StartedMeansArmed` | a user report that is interrupted by a crash makes a recrash report; monitors are disarmed while another event is handled |
| `MonitorInstall!AlwaysRestored`, `ActiveMeansInstalled` | a `sigaction` that fails half-way; a monitor that fails is reported as active |
| `CrashCodes!CaughtIsNamed`, `OverflowIsInvalidAddress`, `SoftwareTellsTheSame` | SIGTRAP is caught but not in the table (SIGTERM is); the correction of a stack overflow tests a context that is not filled yet (`MachException.c:328`); codes of EXC_SOFTWARE do not translate back |
| `HandlerThreads!CursorIsOfTheException`, `CursorIsWhole`, `NobodyIsStray` | the C++ cursor is of the exception thrown last, by any thread, maybe half-filled; threads that start meanwhile run, and are resumed without having been suspended |
| `CachedThreads!EveryReportReadsLive`, `NamesMatch` | a user report suspends nobody; the pause after freezing orders nothing; a list that is too long drops the wrong threads |
| `AsyncHooks!ReportsReadLive`, `CallersAreKnown` | a report that suspends nobody may take a backtrace that is freed; threads whose numbers collide share a slot |
| `StackWalk!WalkIsDone`, `OverflowIsDeeper` | the flag for a walk that gave up is also set when the stack is just as deep as the limit |
| `Images!InstructionIsNamed`, `IndexIsTheImage`, `UUIDIsOfTheName` | one is subtracted from the first address as well, which is no return address; while others run an index may be another image's, and the name of an image that went is compared as NULL |
| `Rebinding!EarlierHookIsCalled`, `AlsoWhenReboundAgain`, `EveryCallIsSeen` | a hook of before is skipped; two libraries that rebind twice call each other for ever; the helper of a lazy pointer takes the hook out |
| `Introspection!ValidatedMeansAccessible`, `ValidIsAString` | `objectType` reads class data it has not checked, takes instances for unknown because it asks whether the instance itself is a class, compares a tag without a name with `strcmp`; a superclass's name, a first ivar and a first element are read unchecked; any valid object is copied as a string |
| `TextBuffers!NoMoreThanAsked`, `AllIsReadable`, `StaysInside` | more bytes than were asked for are said to be readable, and `isMemoryReadable` disagrees with `copySafely`; a lead surrogate at the end reads behind the string |
| `Descriptions!UTF16StaysInside`, `TaggedStaysInside`, `CutIsSeen`, `CountIsOfTheText` | terminators one byte behind the buffer; a text that was cut gets its quote; a piece that just fits counts as too long |
| `Zombies!AlsoAtOnce`, `AlsoMeanwhile`, `ZombieIsDead`, `TextsAreItsOwn` | two deallocs of one slot leave a wrong name; an address used again names a living object; a text that can not be read leaves that of the exception before. (`setCatchZombies(NO)` enables them.) |
| `ConsoleLog!LogIsNotLost`, `NoHoles`, `OthersAreSafe`, `LogStaysOpen`, `NothingIsForgotten` | a thread that fails to open the log sets the static descriptor to -1 between another's opening and storing: all later lines are lost; a descriptor closed under a writer, given to another file, closed twice; lines between the report and the new file; a NULL name (`Logger.h:242`) |
| `ReportData!UserInfoIsLive`, `ClassesAreThere`, `RingIsReady`, `FreedOnce`, `CrumbsInOrder`, `ExtrasAreTheScopes` | setters without a lock free twice or free before they replace; the ring is freed and filled anew on a restart; `removeContextForKey` overwrites the extras |
| `JSONWriter!NothingTruncated`, `JSONEmbed!NothingTwice`, `NoElementBreaksIt`, `JSONReading!OverflowDetected`, `JSONUnicode!DecodesTheCharacter` | a name with an invalid character is begun and left open (`JSONCodec.c:261-271`), so that an element of that name makes the report unreadable (`ReportIsReadable` excludes it); 0x10000 is not added when a surrogate pair is combined (`JSONCodec.c:1027`); strings with an invalid character, or with more escapes than fit the work buffer, are cut short; of a file that is torn, what the buffer held before is added again; digits beyond the type wrap |
| `BufferedFile!BufferIsNotOverrun`, `FillStaysInside`, `TextComesOut` | a failed flush is ignored and the buffer overrun, descriptor 0 is never flushed; after a read that fails lines are cut or do not come; the reader moves more than it has; long lines and the last one lose a byte, NUL hides a newline |
| `FileTree!OutsideIsKept`, `DeletedMeansGone`, `ReadingEnds`, `MadeIsADirectory` | links are followed when a folder is emptied, those that lead back into it, too; a file that can not be removed, or a folder that can not be listed, stays, and the call succeeds; reading a file that got shorter never ends; a path that ends in a file counts as made |
| `ReportSections!RemovedMeansEmbedded`, `DebugIsInPlace`, `CrashedThreadIsThere` | the first report is removed although a text in it was too long for the decoder and what follows was not copied (`JSONCodec.c:934`, `SentryCrashReport.c:1558`); a text that can not be decoded leaves containers open around what follows; beyond the maximum the thread that crashed may be left out |
| `ReportFixer!PartIsKept`, `OnlyTimestampsChange` | of a torn report nothing is kept; a number whose path is the beginning of that of a date (`report` at the root) is written as one, because `matchesPath` compares no further |

Limits of what passes: `FileSizeBounded` holds in one zone only, and of characters;
`SentBeforeDeleted` excepts reports that can not be converted, which are deleted
undelivered; `RequireRedactedHolds` names its two exceptions; `WrittenSurvives` follows
a too long text no further than the section before it;
`NothingOnDiskIsLost` is claimed for the budgets of its run, and fails with two
user terminations at once, or two events with a fault; `GivenAsOwned` and
`OwnedOnce` assume that destinations are attached one at a time, and
`ThreadListIsLive`, `DataOfReports` and `CursorStandsStill` speak of handlers
that suspended the other threads.

## 6. Not modelled

* Text: formatting of lines, emoji, encoders of Swift, stack traces as text,
  the values of numbers and dates in reports.
* Tables and facts: register names, CPU types, `sysctl`, system information;
  Objective-C glue that converts C values to objects; swizzling.
* The Sentry SDK above the crash reporter: envelopes, HTTP and rate limits,
  sessions, tracing. SteamcLog calls `capture` and `addBreadcrumb` only.
* Netable's requests; the exception bridge; the example application, whose
  initializer no longer matches the library, and its tests, which assert nothing.
* `FileLogDestination`, which nothing constructs; the deprecated analytics calls
  beyond what they print; `setUser`, which forwards to the SDK.
* Two SteamcLog instances over one folder: each writes at its own offset into a
  file that the other renames. Nothing in the repository makes two.
* The system emptying the Caches folder, a clock set back, a failure to read the
  attributes of the current file at launch. The first two are the environment
  breaking what the code relies on; the third leaves size 0 and the current time.
* Failures of the environment that the code passes over: a folder or attribute that can
  not be read while archives are listed (`AutoRotatingFileDestination.swift:202-211`, no
  archive is seen then), `task_threads` and `thread_suspend`
  (`SentryCrashMachineContext.c:174-244`), an exception port that can not be put back
  (`SentryCrashMonitor_MachException.c:160-170`), `calloc` and `strdup` in the cached list
  of threads.
* Values: floats are read and written as themselves (`sscanf`, `%lg`), infinities and NaN
  are not among them.
* Damage beyond what the walks are given: a field of an object that can not be read leaves
  the last one's value in use (`SentryCrashObjC.c:1127-1130`), sizes of fields and types of
  numbers are not checked, headers of images that are corrupt
  (`SentryCrashDynamicLinker.c:97`, `137`, `190`, `233`, `359`). The text of a message an
  image left is bounded by a constant, where the code reads up to its buffer of 10240 bytes.

## 7. Plan

1. Done: the logging library and its disk log; the crash reporter from the event to
   the report of the next launch. Proved: everything the runs `disk_log`, `dispatch`,
   `app_calls`, `crash_handling` and `crash_lifecycle` check but for liveness, the
   refinement, and of `crash_tools` all but the two walks through memory.
2. Next, proofs: `AddressesAreNamed`, the callers of a stack first.
