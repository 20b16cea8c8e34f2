--------------------------------- MODULE Images --------------------------------
(***************************************************************************)
(* The images of the program, as dyld lists them: which one an address is  *)
(* in and which symbol is nearest below it, for each entry of a backtrace, *)
(* the list of them in a report, and the one that has a name, whose UUID   *)
(* tells the application at launch.  Unless the other threads are          *)
(* suspended, images are loaded and unloaded meanwhile.                    *)
(***************************************************************************)
EXTENDS Integers, Sequences, SequencesExt

CONSTANTS
    Programs,       \* sequences of images
    Plugins,        \* images that may be loaded later
    Addresses,      \* of the entries of a backtrace
    Modulus,        \* of a word
    MaxMessage,     \* SENTRYCRASHDL_MaxCrashInfoStringLength
    Wanted,         \* the name that is looked for
    MaxLoads

\* An image: [name, slide, segments, linkedit, symbols, message].  A segment: [from, size].  linkedit:
\* whether it has one.  A symbol: [value, stripped, name].  message: of its crash info,
\* [version, readable, zero], where the readable bytes end and where the first 0 is.

VARIABLES
    images, suspended, loads,
    task,           \* "symbolicate", "list" or "uuid"
    address, isReturn,   \* isReturn: the address is that behind a call
    count, at,      \* the number of images, when the loop began, and where it is
    found,          \* the image it ended at
    answer, listed

vars == <<images, suspended, loads, task, address, isReturn, count, at, found, answer, listed>>

Unknown == [status |-> "unknown", slide |-> 0, symbol |-> "none"]
Pending == [status |-> "pending", slide |-> 0, symbol |-> "none"]
Fault   == [status |-> "fault", slide |-> 0, symbol |-> "none"]

TypeOK ==
    /\ suspended \in BOOLEAN /\ loads \in 0..MaxLoads /\ task \in {"symbolicate", "list", "uuid"}
    /\ count \in Nat /\ at \in 1..(count + 1) /\ found \in 0..count

Init ==
    /\ images \in Programs /\ suspended \in BOOLEAN /\ loads = 0
    /\ task \in {"symbolicate", "list", "uuid"} /\ address \in Addresses /\ isReturn \in BOOLEAN
    /\ (task # "symbolicate" => isReturn /\ address = CHOOSE a \in Addresses : TRUE)
    /\ count = Len(images) /\ at = 1 /\ found = 0 /\ answer = Pending /\ listed = <<>>
-----------------------------------------------------------------------------
Load(i) ==
    /\ ~suspended /\ loads < MaxLoads /\ i \notin ToSet(images)
    /\ images' = Append(images, i) /\ loads' = loads + 1
    /\ UNCHANGED <<suspended, task, address, isReturn, count, at, found, answer, listed>>
Unload(k) ==
    /\ ~suspended /\ loads < MaxLoads /\ images' = RemoveAt(images, k) /\ loads' = loads + 1
    /\ UNCHANGED <<suspended, task, address, isReturn, count, at, found, answer, listed>>

\* CALL_INSTRUCTION_FROM_RETURN_ADDRESS, whatever the address is.
Looked == (address - 1) % Modulus
Unslid(a, image) == (a - image.slide) % Modulus
Covers(image, a) ==
    \E s \in image.segments : Unslid(a, image) >= s.from /\ Unslid(a, image) < (s.from + s.size) % Modulus

\* imageIndexContainingAddress, an image at a time.
Look ==
    /\ task = "symbolicate" /\ answer.status = "pending" /\ found = 0
    /\ IF at > count THEN answer' = Unknown /\ UNCHANGED <<at, found>>
       ELSE IF at <= Len(images) /\ Covers(images[at], Looked) THEN found' = at /\ UNCHANGED <<at, answer>>
       ELSE at' = at + 1 /\ UNCHANGED <<found, answer>>
    /\ UNCHANGED <<images, suspended, loads, task, address, isReturn, count, listed>>

\* Mutant of Counts: the symbols of other images count, too.
CountsAll(s, a) == a >= s.value

\* A symbol without a value is that of another image.
Counts(s, a) == s.value # 0 /\ a >= s.value

\* The nearest symbol below an address; of several, the last in the table.
Best(image, a) ==
    FoldLeft(LAMBDA best, s : IF Counts(s, a) /\ (best = <<>> \/ a - s.value <= a - Head(best).value)
                              THEN <<s>> ELSE best, <<>>, image.symbols)
NameOf(s) == IF s.stripped THEN "none" ELSE s.name

\* sentrycrashdl_dladdr takes the image again by its index.  Without a LINKEDIT segment the tables
\* are looked for at the slide.
Resolve ==
    /\ task = "symbolicate" /\ answer.status = "pending" /\ found > 0
    /\ answer' =
          IF found > Len(images) THEN Fault
          ELSE LET image == images[found]
                   best  == Best(image, Unslid(Looked, image))
               IN  IF ~image.linkedit THEN IF image.slide = 0 THEN Unknown ELSE Fault
                   ELSE [status |-> "found", slide |-> image.slide,
                         symbol |-> IF best = <<>> THEN "none" ELSE NameOf(Head(best))]
    /\ UNCHANGED <<images, suspended, loads, task, address, isReturn, count, at, found, listed>>

\* isValidCrashInfoMessage: terminated within what can be read, and within the maximum.
Message(m) == IF m.version \in {4, 5} /\ m.zero < m.readable /\ m.zero <= MaxMessage THEN m.zero ELSE 0

\* writeBinaryImages: sentrycrashdl_getBinaryImage for each index; one that is not there is left out.
List ==
    /\ task = "list" /\ at <= count /\ at' = at + 1
    /\ listed' = IF at <= Len(images)
                 THEN Append(listed, [slide |-> images[at].slide, message |-> Message(images[at].message)])
                 ELSE listed
    /\ UNCHANGED <<images, suspended, loads, task, address, isReturn, count, found, answer>>

\* Mutant of NameFits: the name of any image will do.
NameFitsAlways(image) == TRUE
\* The name is that of the image, or is in it.
NameFits(image) == image.name = Wanted

\* sentrycrashdl_imageNamed; the name of an image that is gone by then is NULL, and is compared, too.
LookForName ==
    /\ task = "uuid" /\ answer.status = "pending" /\ found = 0
    /\ IF at > count THEN answer' = Unknown /\ UNCHANGED <<at, found>>
       ELSE IF at > Len(images) THEN answer' = Fault /\ UNCHANGED <<at, found>>
       ELSE IF NameFits(images[at]) THEN found' = at /\ UNCHANGED <<at, answer>>
       ELSE at' = at + 1 /\ UNCHANGED <<found, answer>>
    /\ UNCHANGED <<images, suspended, loads, task, address, isReturn, count, listed>>

\* sentrycrashdl_imageUUID takes the image again by its index: here its slide, which tells it apart.
TakeUUID ==
    /\ task = "uuid" /\ answer.status = "pending" /\ found > 0
    /\ answer' = IF found > Len(images) THEN Unknown
                 ELSE [status |-> "found", slide |-> images[found].slide, symbol |-> "none"]
    /\ UNCHANGED <<images, suspended, loads, task, address, isReturn, count, at, found, listed>>

Next == Look \/ Resolve \/ List \/ LookForName \/ TakeUUID \/ (\E i \in Plugins : Load(i)) \/ (\E k \in DOMAIN images : Unload(k))
Spec == Init /\ [][Next]_vars
-----------------------------------------------------------------------------
\* Nothing an image has in memory lies at the same place as another's, and no range wraps.
Places(image) == UNION {{(s.from + n + image.slide) % Modulus : n \in 0..(s.size - 1)} : s \in image.segments}

\* While the others are suspended, a frame behind a call is in the image it was called from, and is
\* named by the symbol whose code the call is in: the last that begins at or before it.
CallIsNamed ==
    task = "symbolicate" /\ suspended /\ isReturn /\ answer.status = "found" =>
        LET image == CHOOSE i \in ToSet(images) : Looked \in Places(i)
            below == {s \in ToSet(image.symbols) : s.value \in 1..Unslid(Looked, image)}
        IN  /\ answer.slide = image.slide
            /\ answer.symbol # "none" => \E s \in below :
                  s.name = answer.symbol /\ ~s.stripped /\ \A o \in below : o.value <= s.value
            /\ answer.symbol = "none" => below = {} \/ \E s \in below : s.stripped
EveryImageIsListed ==
    suspended /\ task = "list" /\ at > count =>
        [k \in DOMAIN listed |-> listed[k].slide] = [k \in DOMAIN images |-> images[k].slide]
AllAreFound ==
    task = "symbolicate" /\ suspended /\ answer.status = "unknown" => \A i \in ToSet(images) : i.linkedit => Looked \notin Places(i)
NoFault == suspended /\ (\A i \in ToSet(images) : i.linkedit) => answer.status # "fault"
\* As long as images are only loaded, the UUID is that of an image of the name, if there was one.
NamedIsFound ==
    task = "uuid" /\ Len(images) = count + loads =>
        /\ answer.status = "found" => \E i \in ToSet(images) : i.slide = answer.slide /\ i.name = Wanted
        /\ answer.status \in {"unknown", "fault"} => \A k \in 1..count : images[k].name # Wanted
MessagesCanBeRead == \A k \in DOMAIN listed : suspended => listed[k].message <= images[k].message.readable

(* What the code does not keep. *)

\* The first frame is no call, its address is that of the instruction: the first one of a function
\* is named by the function before it, the first one of an image by none.
InstructionIsNamed ==
    task = "symbolicate" /\ suspended /\ ~isReturn /\ answer.status # "pending" =>
        \A i \in ToSet(images) : i.linkedit /\ address \in Places(i) =>
            \A s \in ToSet(i.symbols) : s.value = Unslid(address, i) /\ ~s.stripped => answer.symbol = s.name
\* The index of an image stays its own: if the others run, another may have it meanwhile, or none.
IndexIsTheImage ==
    task = "symbolicate" /\ answer.status \in {"found", "fault"} /\ (\A i \in ToSet(images) : i.linkedit) =>
        \E i \in ToSet(images) : answer.slide = i.slide /\ Looked \in Places(i)
\* Nor is the UUID that of the image that had the name, or the name of an image always there.
UUIDIsOfTheName ==
    task = "uuid" => /\ answer.status # "fault"
                     /\ answer.status = "found" => \E i \in ToSet(images) : i.slide = answer.slide /\ i.name = Wanted
=============================================================================
