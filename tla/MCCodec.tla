-------------------------------- MODULE MCCodec --------------------------------
(***************************************************************************)
(* The JSON codec and what is built on it, in one run: the encoder, plain  *)
(* and pretty, the decoder, its \u escapes, texts embedded in a report,    *)
(* the fixing of a report at the next launch, the sections of a report,    *)
(* the buffers texts are converted and described in, and the files they    *)
(* are written to and read from.  One of them runs in a behaviour; the     *)
(* variables of the others stay as they are.                               *)
(***************************************************************************)
EXTENDS JSONWriter

VARIABLES
    part,
    text, cut, past,         \* of JSONReading
    quad, trail,             \* of JSONUnicode
    report, before, call,    \* of JSONEmbed
    written, file, fixed,    \* of ReportFixer
    buf_task, buf_memory, buf_byteCount, buf_try, buf_string, buf_length, buf_converted,
    buf_reason, buf_address,
    desc_object, desc_length, desc_buffer, desc_fill, desc_high, desc_pieces,
    bf_fd, bf_given, bf_file, bf_buffer, bf_failures, bf_start, bf_offset, bf_line, bf_lines,
    bf_outside,
    ft_tree, ft_before, ft_result, ft_size, ft_mem, ft_reading,
    rs_event, rs_todo, rs_w, rs_file, rs_pending, rs_old, rs_crashed, rs_pc   \* and of the rest

readingVars == <<text, cut, past>>
unicodeVars == <<quad, trail>>
embedVars == <<report, before, call>>
fixerVars == <<written, file, fixed>>
bufVars == <<buf_task, buf_memory, buf_byteCount, buf_try, buf_string, buf_length,
              buf_converted, buf_reason, buf_address>>
descVars == <<desc_object, desc_length, desc_buffer, desc_fill, desc_high, desc_pieces>>
bfVars == <<bf_fd, bf_given, bf_file, bf_buffer, bf_failures, bf_start, bf_offset, bf_line,
              bf_lines, bf_outside>>
ftVars == <<ft_tree, ft_before, ft_result, ft_size, ft_mem, ft_reading>>
rsVars == <<rs_event, rs_todo, rs_w, rs_file, rs_pending, rs_old, rs_crashed, rs_pc>>

-----------------------------------------------------------------------------
(* JSONWriter: one, two and three portions of two characters; escapes at   *)
(* every place; a character that can not be written in the first and in    *)
(* the second portion.                                                     *)
SomeStrings == {<<>>, <<"a">>, <<"quote", "a">>, <<"newline", "quote", "a", "a", "a">>,
                <<"control">>, <<"a", "a", "control">>}
GoodNames == {<<"a">>, <<"quote", "a", "bslash">>}
AllNames  == GoodNames \cup {NULL, <<"control">>}
SomeRooms == {-1, 3, 5, 8}
Pretty1   == INSTANCE JSONWriter WITH Pretty <- TRUE, Names <- GoodNames

(* JSONReading. *)
Q(s) == <<"quote">> \o s \o <<"quote">>
M(n, v) == Q(n) \o <<":">> \o v
Obj(ms) == <<"{">> \o ms \o <<"}">>
Two(a, b) == a \o <<",">> \o b
Lit == <<"lit">>
Scalars == {Lit, <<"1", "0", "5">>, <<"-", "1">>, <<"1", ".", "5">>, Q(<<>>), Q(<<"a">>),
            Q(<<"bslash", "quote", "}">>), Q(<<"a", "bslash", "n", ",">>)}
Few     == {Lit, <<"1", "0", "5">>, Q(<<"bslash", "quote", "}">>)}
InArray(V) == {<<"[", "]">>} \cup {<<"[">> \o v \o <<"]">> : v \in V}
              \cup {<<"[">> \o Two(v, w) \o <<"]">> : v \in V, w \in V}
TwoNames == {<<"a">>, <<"bslash", "bslash">>}
InObject1(V) == {Obj(<<>>)} \cup {Obj(M(n, v)) : n \in TwoNames, v \in V}
InObject2(V, W) == {Obj(Two(M(m, v), M(n, w))) : m \in TwoNames, n \in TwoNames, v \in V, w \in W}
Inner == InArray(Few) \cup InObject1(Few)
SomeTexts == {Lit, Q(<<"a">>)} \cup InArray(Scalars) \cup InObject1(Scalars)
             \cup InObject2(Scalars, Few) \cup InArray(Inner) \cup InObject1(Inner)
Reading1 == INSTANCE JSONReading WITH Texts <- SomeTexts, BufferSize <- 24, Modulus <- 256

(* JSONUnicode: 0 8 9 : D F G f g, with both sides of the ranges' ends; the *)
(* second quads DC00, DFFF, D83D, DG00 and 0041.                            *)
SomeChars == {48, 56, 57, 58, 68, 70, 71, 102, 103}
SomeTrails == {<<68, 67, 48, 48>>, <<68, 70, 70, 70>>, <<68, 56, 51, 68>>, <<68, 71, 48, 48>>,
               <<48, 48, 52, 49>>}
Unicode == INSTANCE JSONUnicode WITH Chars <- SomeChars, Trails <- SomeTrails

(* JSONEmbed. *)
Small    == M(<<"a">>, Lit)
Values   == {Obj(Small), <<"[">> \o Two(Lit, Q(<<"a", "bslash", "n">>)) \o <<"]">>, Q(<<"n">>)}
Objects  == {Obj(Two(Two(Small, M(<<"n">>, v)), Two(M(<<"a">>, w), Small))) : v \in Values, w \in Values}
            \cup {Q(<<"a">>), Lit, Obj(<<>>)}
LongString == Obj(Two(M(<<"a">>, Obj(M(<<"a">>, Q([i \in 1..9 |-> "a"])))), Small))
LongName   == Obj(M(<<"a", "a", "a", "a", "a">>, Lit))
BadValue   == Obj(Two(M(<<"n">>, Q(<<"bslash", "uControl">>)), Small))
BadName    == Obj(Two(M(<<"bslash", "uControl">>, Lit), Small))
Cut(T)     == UNION {{SubSeq(t, 1, n) : n \in 0..Len(t)} : t \in T}
SomeSources == Cut(Objects \cup {LongString, LongName, BadValue, BadName}) \cup {<<"[", "a", "]">>, <<"}">>}
Embed == INSTANCE JSONEmbed WITH enc <- report, BufLen <- 20, NameSize <- 4, StringSize <- 6,
                                 Sources <- SomeSources

(* ReportFixer: members as they are written, and as they are meant. *)
R == <<"a">>
T == <<"n">>
RR == <<"a", "n">>
Ev(kind, name, value) == <<[kind |-> kind, name |-> name, value |-> value]>>
Num(name)  == Ev("integer", name, <<1>>)
Str(name, s) == Ev("string", name, s)
In(kind, name, evs) == Ev(kind, name, <<>>) \o evs \o Ev("end", NULL, <<>>)
Same(evs) == [given |-> evs, meant |-> evs]
Wrap(kind, name, p) == [given |-> In(kind, name, p.given), meant |-> In(kind, name, p.meant)]
Time == [given |-> Num(T) \o Str(R, <<"newline">>),
         meant |-> Str(T, <<"a", "n", "a">>) \o Str(R, <<"newline">>)]
Date(name) == [given |-> Num(name), meant |-> Str(name, <<"a", "n", "a">>)]
Members == {Wrap("object", RR, Date(R)), Date(R), Date(RR), Wrap("object", R, Time), Wrap("object", RR, Wrap("object", R, Time)), Same(Num(T)),
            Same(In("object", RR, Num(T))), Same(In("object", T, In("object", R, Num(T)))),
            Same(In("array", R, Num(NULL) \o In("object", NULL, Num(T)))),
            Same(In("object", R, In("object", R, In("object", R, Num(T)))))}
SomeReports == {Wrap("object", NULL, [given |-> m.given \o n.given, meant |-> m.meant \o n.meant]) :
                   m \in Members, n \in Members}
Fixer == INSTANCE ReportFixer WITH Portion <- 256, Pretty <- TRUE, MaxDepth <- 3, ReportName <- R,
             RecrashName <- RR, TimeName <- T, Reports <- SomeReports, report <- written
(* TextBuffers: memory that ends anywhere, strings and reasons of up to    *)
(* four and six characters of every kind.                                  *)
SomeMemories == UNION {[1..n -> BOOLEAN] : n \in 0..6}
SomeStringsToConvert == UNION {[1..n -> {"ascii", "control", "two", "three", "lead", "tail"}] : n \in 0..4}
SomeReasons == UNION {[1..n -> {"0", "x", "1", "other"}] : n \in 0..6}

(* Descriptions: every kind of object, also as the first of an array. *)
Object(kind, t, first) == [kind |-> kind, text |-> t, readable |-> TRUE, first |-> first]
Nothing == [kind |-> "nothing"]
Simple == {Object("unknown", <<>>, Nothing), Object("date", <<":", "3">>, Nothing),
           Object("number", <<":", "1", "2">>, Nothing), Object("string", <<"a", "b", "c">>, Nothing),
           Object("string", <<>>, Nothing), [Object("string", <<"a", "b">>, Nothing) EXCEPT !.readable = FALSE],
           Object("utf16", <<"lead", "more", "lead", "more">>, Nothing),
           Object("taggedString", <<"a", "b", "c">>, Nothing)}
SomeObjects == Simple \cup {Object("array", <<>>, o) : o \in Simple \cup {Nothing}}

(* BufferedFile: lines of every length up to six, and NULs. *)
SomeFiles == UNION {[1..n -> {"a", "newline"}] : n \in 0..6}
             \cup {<<"a", "NUL", "a", "newline">>, <<"a", "NUL", "newline", "a", "newline">>}

(* FileTree: trees of up to six paths; links lead to b, or back to a. *)
Node(k) == [kind |-> k, to |-> IF k = "link" THEN <<"b">> ELSE <<>>]
Back == [kind |-> "link", to |-> <<"a">>]
AllPaths == {<<"a">>, <<"a", "a">>, <<"a", "b">>, <<"a", "a", "a">>, <<"b">>, <<"b", "a">>}
SomePaths == AllPaths \ {<<"b", "a">>}
SomeFaults == {"remove"} \X {<<"a", "a">>, <<"a", "a", "a">>, <<"b", "a">>} \cup {"list"} \X {<<"a">>, <<"a", "a">>}
SomeTrees ==
    {t \in UNION {[D -> {Node(k) : k \in {"dir", "file", "link", "socket"}} \cup {Back}] :
                     D \in {E \in SUBSET AllPaths : \A p \in E : Len(p) > 1 => Front(p) \in E}} :
        \A p \in DOMAIN t :
            /\ Len(p) > 1 => t[Front(p)] = Node("dir")
            /\ t[p] = Node("link") => <<"b">> \in DOMAIN t /\ p \notin {<<"b">>, <<"b", "a">>}
            /\ t[p] = Back => IsStrictPrefix(<<"a">>, p)}

(* ReportSections: crashes of every type, texts that end in open containers. *)
Embeds(kind, open) == [kind |-> kind, open |-> open]
PlainCrash == [type |-> "signal", full |-> FALSE, images |-> 1, frames |-> 1, threads |-> 2, offending |-> 1,
          self |-> 1, long |-> {}, introspect |-> TRUE, trace |-> Embeds("object", 0), scope |-> <<>>, crumbs |-> FALSE,
          user |-> Embeds("none", 0), callback |-> FALSE, snapshot |-> FALSE]
CrashTypes == {"deadlock", "mach", "cpp", "ns", "signal", "user"}
Texts == {Embeds("object", 0), Embeds("scalar", 0), Embeds("torn", 0), Embeds("torn", 1), Embeds("torn", 2)}
SomeEvents ==
    {[PlainCrash EXCEPT !.type = y, !.full = f, !.offending = o] : y \in CrashTypes, f \in BOOLEAN, o \in 1..2}
    \cup {[PlainCrash EXCEPT !.type = "user", !.full = TRUE, !.trace = x] : x \in Texts}
    \cup {[PlainCrash EXCEPT !.scope = <<x, y>>, !.crumbs = TRUE, !.user = u] :
             x \in Texts, y \in {Embeds("object", 0), Embeds("torn", 2)},
             u \in {Embeds("object", 0), Embeds("torn", 1), Embeds("none", 0)}}
    \cup {[PlainCrash EXCEPT !.user = u, !.callback = c, !.snapshot = n, !.threads = 3, !.offending = o,
                        !.introspect = FALSE] :
             u \in Texts \cup {Embeds("none", 0)}, c \in BOOLEAN, n \in BOOLEAN, o \in {1, 3}}
    \cup {[PlainCrash EXCEPT !.full = TRUE, !.long = {k}, !.scope = <<Embeds("object", 0)>>] :
             k \in {"crash_info_message", "reason", "member"}}

Buffers == INSTANCE TextBuffers WITH Memories <- SomeMemories, Counts <- {0, 1, 2, 3, 5, 7},
    TestBufferSize <- 3, Strings <- SomeStringsToConvert, Lengths <- {1, 2, 3, 5, 6, 8},
    MinLength <- 2, Reasons <- SomeReasons, MaxNybbles <- 2, task <- buf_task,
    memory <- buf_memory, byteCount <- buf_byteCount, try <- buf_try, string <- buf_string,
    length <- buf_length, converted <- buf_converted, reason <- buf_reason,
    address <- buf_address
Describing == INSTANCE Descriptions WITH Objects <- SomeObjects, Lengths <- 0..12 \cup {14},
    object <- desc_object, length <- desc_length, buffer <- desc_buffer, fill <- desc_fill,
    high <- desc_high, pieces <- desc_pieces
Buffered == INSTANCE BufferedFile WITH BufferLength <- 4, Lengths <- {1, 3, 5}, MaxGiven <- 9,
    MaxFailures <- 1, LineLength <- 4, Files <- SomeFiles, fd <- bf_fd, given <- bf_given,
    file <- bf_file, buffer <- bf_buffer, failures <- bf_failures, start <- bf_start,
    offset <- bf_offset, line <- bf_line, lines <- bf_lines, outside <- bf_outside
Tree == INSTANCE FileTree WITH Trees <- SomeTrees, Faults <- SomeFaults, MaxSize <- 4, Paths <- SomePaths,
    tree <- ft_tree, before <- ft_before, result <- ft_result, size <- ft_size, mem <- ft_mem,
    reading <- ft_reading
Sections == INSTANCE ReportSections WITH Events <- SomeEvents, MaxThreads <- 2,
    event <- rs_event, todo <- rs_todo, w <- rs_w, file <- rs_file, pending <- rs_pending,
    old <- rs_old, crashed <- rs_crashed, pc <- rs_pc
-----------------------------------------------------------------------------
Idle == "idle part"

MCInit ==
    /\ part \in {"writer", "pretty", "reading", "unicode", "embed", "fixer", "buffers", "describe",
                 "filewriter", "filereader", "tree", "treefile", "sections"}
    /\ IF part \in {"writer", "pretty"} THEN Init ELSE
           enc = BeginEncode(-1) /\ reader = Unread /\ inside = FALSE /\ failed = {} /\ ended = FALSE
    /\ IF part = "reading" THEN Reading1!Init ELSE text = Lit /\ cut = 1 /\ past = "NUL"
    /\ IF part = "unicode" THEN Unicode!Init ELSE quad = <<48, 48, 48, 48>> /\ trail = <<>>
    /\ IF part = "embed" THEN Embed!Init ELSE report = <<>> /\ before = <<>> /\ call = <<>>
    /\ IF part = "fixer" THEN Fixer!Init
       ELSE written = Same(Num(T)) /\ file = <<>> /\ fixed = [text |-> <<"unread">>]
    /\ IF part = "buffers" THEN Buffers!Init ELSE
            buf_task = Idle /\
            buf_memory = Idle /\ buf_byteCount = Idle /\ buf_try = Idle /\ buf_string = Idle /\
            buf_length = Idle /\ buf_converted = Idle /\ buf_reason = Idle /\
            buf_address = Idle
    /\ IF part = "describe" THEN Describing!Init ELSE
            desc_object = Idle /\
            desc_length = Idle /\ desc_buffer = Idle /\ desc_fill = Idle /\ desc_high = Idle /\
            desc_pieces = Idle
    /\ IF part = "filewriter" THEN Buffered!InitWriter ELSE IF part = "filereader" THEN Buffered!InitReader ELSE
            bf_fd = Idle /\ bf_given = Idle /\ bf_file = Idle /\ bf_buffer = Idle /\
            bf_failures = Idle /\ bf_start = Idle /\ bf_offset = Idle /\ bf_line = Idle /\
            bf_lines = Idle /\ bf_outside = Idle
    /\ IF part = "tree" THEN Tree!Init /\ ft_size = 0 ELSE IF part = "treefile" THEN Tree!Init /\ ft_tree = <<>> ELSE
            ft_tree = Idle /\ ft_before = Idle /\ ft_result = Idle /\ ft_size = Idle /\
            ft_mem = Idle /\ ft_reading = Idle
    /\ IF part = "sections" THEN Sections!Init ELSE
            rs_event = Idle /\
            rs_todo = Idle /\ rs_w = Idle /\ rs_file = Idle /\ rs_pending = Idle /\
            rs_old = Idle /\ rs_crashed = Idle /\ rs_pc = Idle

RunWriter == /\ part = "writer" /\ Next
    /\ UNCHANGED <<part, readingVars, unicodeVars, embedVars, fixerVars, bufVars, descVars,
                    bfVars, ftVars, rsVars>>
RunPretty == /\ part = "pretty" /\ Pretty1!Next
    /\ UNCHANGED <<part, readingVars, unicodeVars, embedVars, fixerVars, bufVars, descVars,
                    bfVars, ftVars, rsVars>>
RunReading == /\ part = "reading" /\ Reading1!Next
    /\ UNCHANGED <<part, vars, unicodeVars, embedVars, fixerVars, bufVars, descVars, bfVars,
                    ftVars, rsVars>>
RunUnicode == /\ part = "unicode" /\ Unicode!Next
    /\ UNCHANGED <<part, vars, readingVars, embedVars, fixerVars, bufVars, descVars, bfVars,
                    ftVars, rsVars>>
RunEmbed == /\ part = "embed" /\ Embed!Next
    /\ UNCHANGED <<part, vars, readingVars, unicodeVars, fixerVars, bufVars, descVars, bfVars,
                    ftVars, rsVars>>
RunFixer == /\ part = "fixer" /\ Fixer!Next
    /\ UNCHANGED <<part, vars, readingVars, unicodeVars, embedVars, bufVars, descVars, bfVars,
                    ftVars, rsVars>>
RunBuffers == /\ part = "buffers" /\ Buffers!Next
    /\ UNCHANGED <<part, vars, readingVars, unicodeVars, embedVars, fixerVars, descVars,
                    bfVars, ftVars, rsVars>>
RunDescribe == /\ part = "describe" /\ Describing!Next
    /\ UNCHANGED <<part, vars, readingVars, unicodeVars, embedVars, fixerVars, bufVars, bfVars,
                    ftVars, rsVars>>
RunFileWriter == /\ part = "filewriter" /\ Buffered!NextWriter
    /\ UNCHANGED <<part, vars, readingVars, unicodeVars, embedVars, fixerVars, bufVars,
                    descVars, ftVars, rsVars>>
RunFileReader == /\ part = "filereader" /\ Buffered!NextReader
    /\ UNCHANGED <<part, vars, readingVars, unicodeVars, embedVars, fixerVars, bufVars,
                    descVars, ftVars, rsVars>>
RunTree == /\ part = "tree" /\ Tree!NextTree
    /\ UNCHANGED <<part, vars, readingVars, unicodeVars, embedVars, fixerVars, bufVars,
                    descVars, bfVars, rsVars>>
RunTreeFile == /\ part = "treefile" /\ Tree!NextFile
    /\ UNCHANGED <<part, vars, readingVars, unicodeVars, embedVars, fixerVars, bufVars,
                    descVars, bfVars, rsVars>>
RunSections == /\ part = "sections" /\ Sections!Next
    /\ UNCHANGED <<part, vars, readingVars, unicodeVars, embedVars, fixerVars, bufVars,
                    descVars, bfVars, ftVars>>

MCNext == RunWriter \/ RunPretty \/ RunReading \/ RunUnicode \/ RunEmbed \/ RunFixer \/
          RunBuffers \/ RunDescribe \/ RunFileWriter \/ RunFileReader \/ RunTree \/
          RunTreeFile \/ RunSections
allVars == <<part, vars, readingVars, unicodeVars, embedVars, fixerVars, bufVars, descVars,
            bfVars, ftVars, rsVars>>
MCSpec == MCInit /\ [][MCNext]_allVars
-----------------------------------------------------------------------------
\* JSONWriter: while no call fails, what was written can be closed to a JSON text; when it was
\* ended without an error it is one; and with good names also after strings that could not be
\* written to their end.
WriterKeepsJSON ==
    /\ part \in {"writer", "pretty"} => ReadableSoFar /\ EndedMeansWhole
    /\ part = "pretty" => BadStringsAreClosed

\* JSONReading: a text that was cut is refused as such, and what the decoder reports of a whole
\* one is that text.  JSONUnicode: one wrong digit makes a quad invalid, surrogate pairs that
\* differ give characters that differ, and a reader of UTF-8 finds the character in its shortest
\* form.
TextsAreRead ==
    /\ part = "reading" => Reading1!CutMeansIncomplete /\ Reading1!WholeRoundTrips
    /\ part = "unicode" => Unicode!BadDigitsAreSeen /\ Unicode!UTF8RoundTrips /\ Unicode!PairsStayApart
\* JSONUnicode, not kept: the character that is decoded is the one the text means.
DecodesTheCharacter == part = "unicode" => Unicode!DecodesTheCharacter

\* JSONEmbed: a whole text that is embedded without an error is in the report as it is, one from
\* a file too if its elements fit half of the buffer, and the report is at the level it was at;
\* and no element keeps the report from being a JSON text, unless one of its names holds a character
\* that can not be written.
EmbeddedKeepsJSON ==
    part = "embed" => Embed!WholeIsCopied /\ Embed!WholeFileIsRead /\ Embed!LevelIsKept /\ Embed!ReportIsReadable

\* ReportFixer: a complete report comes out whole, with nothing changed but the timestamps of the
\* report and the report inside it; one that is torn or nested too deep gives nothing.
FixedReportIsTheReport ==
    part = "fixer" => Fixer!OnlyDatesChange /\ Fixer!AllOrNothing /\ Fixer!DeepIsRefused

\* TextBuffers: what is copied of damaged memory is all that can be read, a text that is converted
\* is a string, and the address in a reason is found.  Descriptions: a description stays in its
\* buffer, and as much of it is there as there is room for.
TextsStayInside ==
    /\ part = "buffers" => /\ Buffers!TypeOK /\ Buffers!CopiesThePrefix
                           /\ Buffers!ConvertedIsAString /\ Buffers!FirstAddressIsFound
    /\ part = "describe" => Describing!TypeOK /\ Describing!TruncatedInside

\* BufferedFile: nothing that is written through the buffer is lost unless a write fails, and the
\* lines of a text file come out unless a read fails.  FileTree: paths are made; the contents of a
\* directory are deleted as far as they can be removed and read, and outside of it only what is in
\* the directories its links lead to; of a file, if no call fails, the end is read.
FilesAreKept ==
    /\ part = "filewriter" => Buffered!TypeOK /\ Buffered!NothingIsLostUnlessAWriteFails
    /\ part = "filereader" => Buffered!TypeOK /\ Buffered!LinesComeOut
    /\ part = "tree" => Tree!TypeOK /\ Tree!PathsAreMade /\ Tree!ContentsAreDeleted
    /\ part = "treefile" => Tree!TypeOK /\ Tree!TailIsRead

\* ReportSections: a report whose texts leave no container open has every section where it belongs,
\* if what the user gave is an object; and a handler that crashes loses no section it had finished,
\* if no text in it is longer than the decoder takes.
SectionsOfReports ==
    part = "sections" => Sections!TypeOK /\ Sections!SectionsInPlace /\ Sections!WrittenSurvives
=============================================================================
