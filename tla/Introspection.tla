----------------------------- MODULE Introspection -----------------------------
(***************************************************************************)
(* What a report says of a memory address: the checks that tell objects,   *)
(* classes and C strings apart in memory that may be damaged, and the walk *)
(* from an object to what its ivars and arrays refer to.  A process that   *)
(* lives on after a user report may be reported, with other damage, again. *)
(* A word of memory holds an address; a block is a structure that starts   *)
(* at an address and can be read as any type: missing fields read as nil.  *)
(***************************************************************************)
EXTENDS Naturals, Sequences, FiniteSets, SequencesExt, FiniteSetsExt

CONSTANTS
    Heaps,         \* the memory of processes, before anything is damaged
    Targets,       \* addresses a damaged word may hold
    Roots,         \* addresses on the stack, in registers, in an exception's text
    MaxDamage,     \* bound: words overwritten and blocks unmapped
    MaxReports,    \* bound: reports in the life of the process
    Restricted,    \* restrictedClasses: their names
    SearchDepth,   \* kDefaultMemorySearchDepth
    MaxIvars       \* ivars[10]

VARIABLES
    memory,        \* address -> block
    damage,        \* how often it was damaged
    class,         \* g_classData[].class: type -> the class seen first, or "nil"
    reports,
    todo,          \* what writeMemoryContents has still to do: addresses, or ends of containers
    limit,
    written,       \* addresses written by this report
    level,         \* containers open
    fate           \* "idle", "writing", or what was read when the handler faulted

vars == <<memory, damage, class, reports, todo, limit, written, level, fate>>

Types   == {"string", "url", "date", "number", "cfarray", "nsarray"}
Words   == {"isa", "super", "data", "ro", "name", "ivars", "store"}
Tagged  == {"taggedString", "taggedDate", "taggedIndexPath"}
TypedTags == {"taggedString", "taggedDate"}

Block(a)    == memory[a]
Readable(a) == Block(a).readable
-----------------------------------------------------------------------------
(* A verdict is "yes", "no", or the name of what was read although it is   *)
(* not readable: then the handler itself has crashed.                      *)

InOrder(verdicts) ==
    LET bad == {i \in DOMAIN verdicts : verdicts[i] # "yes"}
    IN  IF bad = {} THEN "yes" ELSE verdicts[Min(bad)]

Check(a)      == IF Readable(a) THEN "yes" ELSE "no"
Read(what, a) == IF Readable(a) THEN "yes" ELSE what
If(p)         == IF p THEN "yes" ELSE "no"

\* getIsaPointer, decodeIsaPointer: the bits that are no part of the address are masked out.
IsaPointer(p) == Block(p).isa

RW(c)    == Block(c).data
HasExt(rw) == Block(rw).tag
Ext(rw)  == Block(rw).ro
RO(c)    == IF HasExt(RW(c)) THEN Block(Ext(RW(c))).ro ELSE Block(RW(c)).ro

\* getClassRO follows class, rw and perhaps ext.
GetClassRO(c) == InOrder(<<Read("class data", c), Read("class data", RW(c)),
                           IF HasExt(RW(c)) THEN Read("class data", Ext(RW(c))) ELSE "yes">>)
RootClass(c) == Block(RO(c)).root
MetaClass(c) == Block(RO(c)).meta
ClassName(c) == Block(Block(RO(c)).name).text

\* copyMaxPossible, then the characters themselves, up to the end of the string.
IsValidName(a) == IF Readable(a) /\ Block(a).text # "junk" THEN "yes" ELSE "no"

ContainsValidExtData(rw) ==
    InOrder(<<Read("class data", rw), IF HasExt(rw) THEN Check(Ext(rw)) ELSE "yes">>)

\* Mutant of ContainsValidROData: rw_ext is taken as it is.
ContainsValidRODataNoExt(c) ==
    InOrder(<<Check(c), Check(RW(c)), GetClassRO(c), Check(RO(c))>>)

ContainsValidROData(c) ==
    InOrder(<<Check(c), Check(RW(c)), ContainsValidExtData(RW(c)), GetClassRO(c), Check(RO(c))>>)

ContainsValidClassName(c) == InOrder(<<GetClassRO(c), IsValidName(Block(RO(c)).name)>>)

\* The loop starts at the second ivar.
ContainsValidIvarData(c) ==
    LET ivars == Block(RO(c)).ivars
        list  == Block(ivars).entries
    IN  IF ivars = "nil" THEN GetClassRO(c)
        ELSE InOrder(<<GetClassRO(c), Check(ivars)>>
                     \o [i \in 1..(Len(list) - 1) |-> IsValidName(list[i + 1].name)])

IsValidClass(c) ==
    InOrder(<<Check(c), ContainsValidROData(c), ContainsValidClassName(c), ContainsValidIvarData(c)>>)

IsValidObject(p) ==
    IF p \in Tagged THEN If(p \in TypedTags)
    ELSE InOrder(<<Check(p), Read("object", p), Check(IsaPointer(p)), IsValidClass(IsaPointer(p))>>)

\* baseClass: the class below the root, looking at no more than 20; only the class data of a
\* superclass is checked.
Above(c, n) == LET up[i \in 0..n] == IF i = 0 THEN c ELSE Block(up[i - 1]).super IN up[n]
BaseClass(c) ==
    LET Stops(n) == RootClass(Above(c, n)) \/ ContainsValidROData(Above(c, n + 1)) # "yes"
        stops    == {n \in 0..19 : Stops(n)}
    IN  IF stops = {} THEN "nil"
        ELSE IF ~RootClass(Above(c, Min(stops))) THEN "nil"
        ELSE Above(c, IF Min(stops) = 0 THEN 0 ELSE Min(stops) - 1)

IsBlockClass(c) ==
    IF BaseClass(c) = "nil" THEN "no"
    ELSE InOrder(<<Read("superclass name", Block(RO(BaseClass(c))).name),
                   If(ClassName(BaseClass(c)) = "NSBlock")>>)

\* Also an instance has to pass as a class.
ObjectType(p) ==
    LET valid == InOrder(<<IsValidObject(p), IsValidClass(p)>>)
        block == IsBlockClass(IsaPointer(p))
    IN  CASE p = "nil" -> "unknown"
          [] p \in Tagged -> "object"
          [] valid = "no" -> "unknown"
          [] valid \notin {"no", "yes"} -> valid
          [] block = "yes" -> "block"
          [] block = "no" -> IF MetaClass(IsaPointer(p)) THEN "class" ELSE "object"
          [] OTHER -> block
-----------------------------------------------------------------------------
(* The contents of an object that passed. *)

\* The data of a class that is known, or of one with a known name that was not seen before.
Seen(c) == {t \in Types : class[t] = c \/ (class[t] = "nil" /\ ClassName(c) = t)}
ClassData(p) ==
    CASE p = "taggedString" -> "string"
      [] p = "taggedDate" -> "date"
      [] p = "taggedIndexPath" -> "unknown"
      [] OTHER -> IF Seen(IsaPointer(p)) = {} THEN "unknown" ELSE CHOOSE t \in Seen(IsaPointer(p)) : TRUE
ClassType(p) ==
    IF p \notin Tagged /\ ClassName(IsaPointer(p)) \in Restricted THEN "restricted" ELSE ClassData(p)

\* copyStringContents: only the contents of 8-bit strings with a length of their own are copied
\* with care.  writeURLContents takes the URL itself for a string.
CopyText(p) == IF p \in Tagged \/ Block(p).form = "eightBit" THEN "yes"
               ELSE Read("text", Block(p).store)

\* The buckets of a deque are found through its store.
FirstEntry(p) ==
    IF ClassType(p) = "cfarray" THEN Read("deque", Block(p).store) ELSE "yes"

\* Mutant of StringIsValid: the structure is copied, but nothing of the text.
StringIsValidByItself(p) == Check(p)

\* stringIsValid: the structure, and the first byte of the text.
StringIsValid(p) == InOrder(<<Check(p), Check(Block(p).store)>>)

\* urlIsValid: a URL is a string with a structure around it.
UrlIsValid(p) == InOrder(<<Check(p), StringIsValid(Block(p).store)>>)

\* arrayIsValid: of an array that is a deque its store, too, unless it is NULL.
ArrayIsValid(p) ==
    InOrder(<<Check(p), IF ClassData(p) # "cfarray" \/ Block(p).store = "nil" THEN "yes"
                        ELSE Check(Block(p).store)>>)

\* dateIsValid, numberIsValid: the structure; objectIsValid asks for no more than was asked before.
PlainIsValid(p) == IF ClassData(p) = "unknown" THEN "yes" ELSE Check(p)

\* sentrycrashobjc_isValidObject, with what the data of its class add to the check.
IsValidOfItsClass(p) ==
    IF p \in Tagged THEN IsValidObject(p)
    ELSE InOrder(<<IsValidObject(p),
                   CASE ClassData(p) = "string" -> StringIsValid(p)
                     [] ClassData(p) = "url" -> UrlIsValid(p)
                     [] ClassData(p) \in {"cfarray", "nsarray"} -> ArrayIsValid(p)
                     [] OTHER -> PlainIsValid(p)>>)

\* ivarList: of each ivar the type is read and the name is written.
Ivars(p) == LET list == Block(Block(RO(IsaPointer(p))).ivars).entries
            IN  SubSeq(list, 1, Min({Len(list), MaxIvars}))
References(p) == SelectSeq(Ivars(p), LAMBDA ivar : ivar.type = "@")
ReadIvars(p) == InOrder([i \in 1..Len(Ivars(p)) |-> Read("first ivar", Ivars(p)[i].name)])

Faulted(verdict) == verdict \notin {"yes", "no", "unknown", "object", "class", "block"}

\* What an object refers to, and what it costs: a memory object costs one, ivars cost one and
\* one for each of them, written or not.
Children(p, type) ==
    CASE type \in {"cfarray", "nsarray"} /\ limit - 1 > 0 -> <<Block(p).store>>
      [] type = "unknown" /\ p \notin Tagged /\ limit - 1 > 0 ->
             [i \in 1..Len(References(p)) |-> References(p)[i].value] \o <<"end">>
      [] OTHER -> <<>>
\* Mutant of Cost: what is below an object is free.
CostOfNothing(p, type) == 0

Cost(p, type) == IF type = "unknown" /\ limit - 1 > 0
                 THEN 1 + (IF p \in Tagged THEN 0 ELSE Len(Ivars(p))) ELSE 0
\* isRestrictedClass compares the name, which an unknown tag has not.
ReadName(p) == IF p \in Tagged \ TypedTags /\ Restricted # {} THEN "name of a tag" ELSE "yes"
ReadContents(p, type) ==
    CASE type \in {"string", "url"} -> CopyText(p)
      [] type \in {"cfarray", "nsarray"} /\ limit - 1 > 0 -> FirstEntry(p)
      [] type = "unknown" /\ p \notin Tagged /\ limit - 1 > 0 -> ReadIvars(p)
      [] OTHER -> "yes"
-----------------------------------------------------------------------------
Init ==
    /\ memory \in Heaps /\ damage = 0 /\ class = [t \in Types |-> "nil"] /\ reports = 0
    /\ todo = <<>> /\ limit = 0 /\ written = <<>> /\ level = 0 /\ fate = "idle"

\* Between reports: a word is overwritten, a block goes away.
Damage ==
    /\ fate = "idle" /\ damage < MaxDamage
    /\ damage' = damage + 1
    /\ \E a \in DOMAIN memory \ (Tagged \cup {"nil", "wild"}) :
          \/ \E w \in Words, to \in Targets :
                /\ Block(a)[w] # "nil" /\ memory' = [memory EXCEPT ![a][w] = to]
          \/ memory' = [memory EXCEPT ![a].readable = FALSE]
          \/ \E i \in DOMAIN Block(a).entries, to \in Targets :
                \/ memory' = [memory EXCEPT ![a].entries[i].name = to]
                \/ memory' = [memory EXCEPT ![a].entries[i].value = to]
    /\ UNCHANGED <<class, reports, todo, limit, written, level, fate>>

\* writeMemoryContentsIfNotable, writeAddressReferencedByString: a search of its own.
Begin ==
    /\ fate = "idle" /\ reports < MaxReports
    /\ \E a \in Roots : todo' = <<a>>
    /\ reports' = reports + 1 /\ limit' = SearchDepth /\ written' = <<>> /\ fate' = "writing"
    /\ UNCHANGED <<memory, damage, class, level>>

\* writeObjCObject on an object: its class's name, then its contents.
WriteObject(p) ==
    LET type    == ClassType(p)
        verdict == InOrder(<<ReadName(p), ReadContents(p, type)>>)
        below   == Children(p, type)
    IN  /\ class' = IF p \notin Tagged /\ type \in Types
                    THEN [class EXCEPT ![type] = IsaPointer(p)] ELSE class
        /\ limit' = limit - 1 - Cost(p, type)
        /\ todo' = below \o <<"end">> \o Tail(todo)
        /\ level' = level + 1 + (IF type = "unknown" /\ below # <<>> THEN 1 ELSE 0)
        /\ fate' = IF Faulted(verdict) THEN verdict ELSE fate

\* writeMemoryContents on an address, or the end of an object it has begun.
Write ==
    /\ fate = "writing" /\ todo # <<>> /\ Head(todo) # "end"
    /\ LET p == Head(todo) IN
       /\ written' = Append(written, p)
       /\ IF ObjectType(p) = "object" THEN WriteObject(p)
          ELSE /\ fate' = IF Faulted(ObjectType(p)) THEN ObjectType(p) ELSE fate
               /\ limit' = limit - 1 /\ todo' = <<"end">> \o Tail(todo) /\ level' = level + 1
               /\ UNCHANGED class
    /\ UNCHANGED <<memory, damage, reports>>

EndContainer ==
    /\ fate = "writing" /\ todo # <<>> /\ Head(todo) = "end"
    /\ todo' = Tail(todo) /\ level' = level - 1
    /\ UNCHANGED <<memory, damage, class, reports, limit, written, fate>>

Finish ==
    /\ fate = "writing" /\ todo = <<>> /\ fate' = "idle"
    /\ UNCHANGED <<memory, damage, class, reports, todo, limit, written, level>>

Next == Damage \/ Begin \/ Write \/ EndContainer \/ Finish
Spec == Init /\ [][Next]_vars
-----------------------------------------------------------------------------
Unchecked == {"superclass name", "name of a tag", "first ivar", "text", "deque"}

\* The checks never read what they have not checked, however memory was damaged; what is read
\* without a check are names of superclasses and unknown tags, of first ivars, texts and deques,
\* and those only crash the handler if they were damaged.
FaultsOnlyWhereUnchecked ==
    fate \notin {"idle", "writing"} => fate \in Unchecked /\ damage > 0

\* A search ends although objects refer to each other: what it writes is bounded, and so is how
\* deep it is nested.
SearchIsBounded == Len(written) < SearchDepth + MaxIvars /\ level <= SearchDepth + 2

\* An object that passes the check of its class can be read as one of that class: the text of a
\* string as copyStringIvar does of an exception that goes, the first entry of an array.  Faults of
\* the check itself are those of the other checks.
ValidOfItsClassCanBeRead ==
    fate = "idle" => \A p \in Roots \ {"nil"} :
        /\ Faulted(IsValidOfItsClass(p)) => IsValidOfItsClass(p) \in Unchecked /\ damage > 0
        /\ IsValidOfItsClass(p) = "yes" =>
              /\ ClassData(p) = "string" => CopyText(p) = "yes"
              /\ ClassData(p) = "cfarray" /\ Block(p).store # "nil" => FirstEntry(p) = "yes"

(* What the code does not keep. *)

\* copyStringIvar takes whatever is valid of its class for a string.
ValidIsAString ==
    fate = "idle" => \A p \in Roots \ {"nil"} :
        IsValidOfItsClass(p) = "yes" /\ ClassData(p) # "unknown" => CopyText(p) = "yes"

\* The documentation of objectType: an object it names is accessible.
ValidatedMeansAccessible == fate \in {"idle", "writing", "superclass name"}
=============================================================================
