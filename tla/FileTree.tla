------------------------------- MODULE FileTree --------------------------------
(***************************************************************************)
(* Whole files and directories: reading a file or its last bytes while it  *)
(* may change, making a path, deleting what is in a directory.             *)
(***************************************************************************)
EXTENDS Integers, Sequences, SequencesExt, FiniteSetsExt

CONSTANTS
    Trees,         \* file systems: path -> [kind, to], a path being a sequence
    Faults,        \* calls that may fail: <<"remove", p>> and <<"list", p>>, at most one at a time
    MaxSize,       \* bound: the size of a file
    Paths          \* paths that are made or whose contents are deleted

VARIABLES
    tree,
    before,        \* ghost: the tree before the call
    result,        \* of the call: [call, path, ok], and what failed
    size, mem,     \* the file that is read, its bytes numbered from 1; what was read of it
    reading        \* readEntireFile: bytesToRead, left of it, where it reads; ghost: the size at stat

vars == <<tree, before, result, size, mem, reading>>
treeVars == <<tree, before, result>>
fileVars == <<size, mem, reading>>

Kinds == {"dir", "file", "socket", "link"}

TypeOK ==
    /\ \A p \in DOMAIN tree : tree[p].kind \in Kinds
    /\ size \in 0..MaxSize /\ mem \in Seq(1..MaxSize)
    /\ reading.pc \in {"stat", "open", "read", "done", "failed"} /\ reading.left <= MaxSize

Init ==
    /\ tree \in Trees /\ before = tree /\ result = [call |-> "none"]
    /\ size \in 0..MaxSize /\ mem = <<>>
    /\ reading = [pc |-> "stat", bytesToRead |-> 0, left |-> 0, at |-> 0, was |-> 0]
-----------------------------------------------------------------------------
(* Paths.                                                                  *)

Upto(p) == {SubSeq(p, 1, n) : n \in 1..Len(p)}
Children(t, p) == {q \in DOMAIN t : Len(q) = Len(p) + 1 /\ IsPrefix(p, q)}
\* stat and opendir follow a link, remove does not.
Real(t, p)  == IF t[p].kind = "link" THEN t[p].to ELSE p
Kind(t, p)  == t[Real(t, p)].kind

\* makePath: mkdir of each prefix; one that exists is fine, whatever it is.
MakePath(path) ==
    LET blocked(p) == \E q \in Upto(p) \ {p} : q \in DOMAIN tree /\ tree[q].kind # "dir"
        made == {p \in Upto(path) : p \notin DOMAIN tree /\ ~blocked(p)}
    IN  /\ result.call = "none" /\ \A p \in Upto(path) \cap DOMAIN tree : tree[p].kind # "link"
        /\ tree' = [p \in DOMAIN tree \cup made |-> IF p \in made THEN [kind |-> "dir", to |-> <<>>] ELSE tree[p]]
        /\ result' = [call |-> "make", path |-> path, ok |-> ~blocked(path)]
        /\ before' = tree /\ UNCHANGED fileVars

\* deletePathContents: for each path what is gone when it is to be deleted with all in it, bad being
\* the calls that fail, which nobody hears of.  A link that leads back is followed until the path has
\* more links than the system allows (on is those on the way), and is removed on the way back.
Gone(t, bad) ==
    LET links == {p \in DOMAIN t : t[p].kind = "link"}
        gone[on \in SUBSET links, p \in DOMAIN t] ==
            LET there  == Children(t, Real(t, p))
                listed == IF <<"list", Real(t, p)>> \in bad THEN {} ELSE there
                inside == UNION {gone[on \cup ({p} \cap links), q] : q \in listed}
                itself == {p} \ {q \in DOMAIN t : <<"remove", q>> \in bad}
            IN  CASE p \in on -> {}
                  [] p \notin on /\ Kind(t, p) = "dir" ->
                        inside \cup (IF p \in links \/ there \subseteq inside THEN itself ELSE {})
                  [] p \notin on /\ Kind(t, p) = "file" -> itself
                  [] OTHER -> {}
    IN  [p \in DOMAIN t |-> gone[{}, p]]

\* Mutant of Deleted: the directory itself goes too.
DeletedWithTop(path, bad) == Gone(tree, bad)[path]

Deleted(path, bad) ==
    IF Kind(tree, path) # "dir" THEN Gone(tree, bad)[path]
    ELSE IF <<"list", Real(tree, path)>> \in bad THEN {}
    ELSE UNION {Gone(tree, bad)[q] : q \in Children(tree, Real(tree, path))}

DeleteContents(path) ==
    /\ result.call = "none" /\ path \in DOMAIN tree
    /\ \E bad \in {{}} \cup {{f} : f \in Faults} :
          /\ tree' = [p \in DOMAIN tree \ Deleted(path, bad) |-> tree[p]]
          /\ result' = [call |-> "delete", path |-> path, ok |-> Kind(tree, path) \in {"dir", "file"}, bad |-> bad]
    /\ before' = tree /\ UNCHANGED fileVars
-----------------------------------------------------------------------------
(* readEntireFile.                                                         *)

Stat(maxLength) ==
    /\ reading.pc = "stat"
    /\ reading' = [reading EXCEPT !.pc = "open", !.was = size,
                                  !.bytesToRead = IF maxLength = 0 \/ maxLength >= size THEN size ELSE maxLength]
    /\ UNCHANGED <<size, mem, treeVars>>

\* To read but the end it seeks from the end the file has by then.
Open ==
    /\ reading.pc = "open"
    /\ LET n == reading.bytesToRead
           whole == n = reading.was
       IN  reading' = IF ~whole /\ n > size THEN [reading EXCEPT !.pc = "failed"]
                      ELSE [reading EXCEPT !.pc = "read", !.left = n, !.at = IF whole THEN 0 ELSE size - n]
    /\ UNCHANGED <<size, mem, treeVars>>

Readable == IF size > reading.at THEN Min({reading.left, size - reading.at}) ELSE 0

\* Mutant of AfterRead: a short read ends the loop.
AfterShortRead(n) == "done"

\* readBytesFromFD: on while something is left; a read at the end of the file gives 0 bytes.
AfterRead(n) == IF reading.left = n THEN "done" ELSE "read"

Read ==
    /\ reading.pc = "read"
    /\ \E n \in (IF Readable = 0 THEN {0} ELSE 1..Readable) :
          /\ mem' = mem \o [i \in 1..n |-> reading.at + i]
          /\ reading' = [reading EXCEPT !.pc = AfterRead(n), !.at = @ + n, !.left = @ - n]
    /\ UNCHANGED <<size, treeVars>>

\* stat, open, lseek, malloc or a read fails: nothing is returned.
Fail ==
    /\ reading.pc \in {"stat", "open", "read"} /\ reading' = [reading EXCEPT !.pc = "failed"] /\ mem' = <<>>
    /\ UNCHANGED <<size, treeVars>>

\* Another process, or a rotation, changes the file.
Change ==
    /\ reading.pc \in {"open", "read"} /\ size' \in 0..MaxSize
    /\ UNCHANGED <<mem, reading, treeVars>>

NextTree == \E p \in Paths : MakePath(p) \/ DeleteContents(p)
NextFile == \/ \E n \in 0..MaxSize : Stat(n)
            \/ Open \/ Read \/ Fail \/ Change
Next == NextTree \/ NextFile
Spec == Init /\ [][Next]_vars /\ WF_vars(Open) /\ WF_vars(Read)
-----------------------------------------------------------------------------
\* makePath says it is made exactly if all of the path is there, and changes nothing that was
\* there: when it is refused, the part before the obstacle has been made.
PathsAreMade ==
    result.call = "make" =>
        /\ result.ok <=> Upto(result.path) \subseteq DOMAIN tree
        /\ \A p \in DOMAIN before : p \in DOMAIN tree /\ tree[p] = before[p]

\* deleteContentsOfPath leaves the directory.  Of what is below it there stay only sockets, links to
\* them, what could not be removed, what is in a directory that could not be read, and the directories
\* all these are in; outside of it goes only what its links lead to, and the links that are there.
Follow(t, S) == S \cup {p \in DOMAIN t : \E l \in S : t[l].kind = "link" /\ IsStrictPrefix(t[l].to, p)}
Led(t, path) == FoldLeft(LAMBDA S, p : Follow(t, S), {p \in DOMAIN t : IsStrictPrefix(path, p)},
                         SetToSeq(DOMAIN t))
ContentsAreDeleted ==
    result.call = "delete" /\ before[result.path].kind = "dir" =>
        LET below == {p \in DOMAIN before : IsStrictPrefix(result.path, p)}
            stays(q) == \/ Kind(before, q) = "socket" \/ <<"remove", q>> \in result.bad
                        \/ \E d \in below \cup {result.path} :
                              <<"list", d>> \in result.bad /\ IsStrictPrefix(d, q)
        IN  /\ result.path \in DOMAIN tree
            /\ \A p \in below : p \in DOMAIN tree <=> \E q \in below : IsPrefix(p, q) /\ stays(q)
            /\ DOMAIN before \ DOMAIN tree \subseteq Led(before, result.path)

\* readEntireFile: if no call fails, what was read is as long as it was to be and one piece of the
\* file; all of it, or its end at the time of the seek.
TailIsRead ==
    reading.pc = "done" =>
        /\ Len(mem) = reading.bytesToRead
        /\ \A i \in DOMAIN mem : mem[i] = reading.at - Len(mem) + i
        /\ reading.bytesToRead = reading.was => reading.at = Len(mem)

(* What the code does not keep. *)

\* Nothing outside of the directory is deleted: what is in the directories that links lead to is.
OutsideIsKept ==
    result.call = "delete" => \A p \in DOMAIN before : p \in DOMAIN tree \/ IsPrefix(result.path, p)
\* What could be deleted is: a caller is told so though something stays.
DeletedMeansGone ==
    result.call = "delete" /\ result.ok => \A p \in DOMAIN tree : ~IsStrictPrefix(result.path, p)
\* Reading ends: never, if the file is shorter by then.
ReadingEnds == [](reading.pc \in {"open", "read"} => <>(reading.pc \in {"done", "failed"}))
\* A path that was made is a directory: the last part may be a file.
MadeIsADirectory == result.call = "make" /\ result.ok => tree[result.path].kind = "dir"
=============================================================================
