----------------------------- MODULE JarArchive -----------------------------
(***************************************************************************)
(* JarFile of pytecode-archive: a JAR read into memory, edited there and    *)
(* rewritten to disk.  A rewrite writes a temporary file entry by entry,    *)
(* renames it over the destination and reads the destination back.  Several *)
(* holders (JarFile objects, of one process or of several) may work on one  *)
(* path; an error or the death of the process may come between any two      *)
(* steps of a rewrite.                                                     *)
(*                                                                         *)
(* An entry that was not edited and needs no lowering is copied by its      *)
(* index in the archive that is at the holder's path when the rewrite       *)
(* begins (raw_copy_file), which keeps its ZIP metadata.                   *)
(***************************************************************************)
EXTENDS Naturals, Sequences

CONSTANTS
    Holders,        \* JarFile objects
    Paths,          \* paths of archives
    Start,          \* the archive on each path at first, or NoFile
    Names,          \* normalized entry names
    ClassNames,     \* those that end in .class
    DirNames,       \* those that end in a separator
    NewBytes,       \* contents a caller adds
    Contents,       \* what the bytes of an entry may be
    Empty,          \* the contents of a directory entry
    Lowered(_),     \* a class transformed and lowered anew
    NoFile, Missing, Closed,
    MaxEntries,     \* bound: entries in memory
    MaxEdits,       \* bound: adds and removals
    MaxRewrites     \* bound: rewrites begun

VARIABLES
    disk,       \* each path's archive: a sequence of [name, bytes, plain]
    jars,       \* each holder's JarFile: its path and entries, or Closed
    runs,       \* the rewrite each holder is in
    stale,      \* history: the holder's path was replaced since it was read
    edits, rewrites     \* counters for the bounds

vars == <<disk, jars, runs, stale, edits, rewrites>>

NoRun == [phase |-> "idle"]

\* An entry of an archive, and one in memory.
Item == [name : Names, bytes : Contents, plain : BOOLEAN]
Entry == [name : Names, bytes : Contents, dir : BOOLEAN, plain : BOOLEAN, original : Nat]

-----------------------------------------------------------------------------
(* Reading an archive.  original is the entry's index in it, or 0 for None. *)
(* plain: the entry has neither a comment nor extra data.                  *)

ReadEntries(archive) ==
    [i \in DOMAIN archive |->
        LET e == archive[i]
            dir == e.name \in DirNames
        IN  [name |-> e.name, bytes |-> IF dir THEN Empty ELSE e.bytes, dir |-> dir,
             plain |-> e.plain, original |-> i]]

Jar(path) == [file |-> path, entries |-> ReadEntries(disk[path])]

Idle(h) == jars[h] # Closed /\ runs[h] = NoRun

-----------------------------------------------------------------------------
(* Opening, re-reading and editing. *)

Open(h, path) ==
    /\ jars[h] = Closed
    /\ disk[path] # NoFile
    /\ jars' = [jars EXCEPT ![h] = Jar(path)]
    /\ stale' = [stale EXCEPT ![h] = FALSE]
    /\ UNCHANGED <<disk, runs, edits, rewrites>>

Read(h) ==
    /\ Idle(h)
    /\ disk[jars[h].file] # NoFile
    /\ jars' = [jars EXCEPT ![h] = Jar(jars[h].file)]
    /\ stale' = [stale EXCEPT ![h] = FALSE]
    /\ UNCHANGED <<disk, runs, edits, rewrites>>

Edit(h, entries) ==
    /\ Idle(h)
    /\ edits < MaxEdits
    /\ edits' = edits + 1
    /\ jars' = [jars EXCEPT ![h].entries = entries]
    /\ UNCHANGED <<disk, runs, stale, rewrites>>

Positions(h, name) == {i \in DOMAIN jars[h].entries : jars[h].entries[i].name = name}

First(S) == CHOOSE i \in S : \A j \in S : i <= j

\* A wrong replacement: the entry still counts as the one on disk.
ReplacedInPlace(e, bytes) == [e EXCEPT !.bytes = bytes]

\* add_file on a name that is there keeps all of the metadata, is_dir included.
Replaced(e, bytes) == [e EXCEPT !.bytes = bytes, !.original = 0]

AddFile(h, name, bytes) ==
    LET at == Positions(h, name)
        old == jars[h].entries
    IN  \/ /\ at # {}
           /\ Edit(h, [old EXCEPT ![First(at)] = Replaced(@, bytes)])
        \/ /\ at = {}
           /\ Len(old) < MaxEntries
           /\ Edit(h, Append(old, [name |-> name, bytes |-> bytes, dir |-> FALSE,
                                   plain |-> TRUE, original |-> 0]))

AddDirectory(h, name) ==
    LET at == Positions(h, name)
        old == jars[h].entries
    IN  \/ /\ at # {}
           /\ Edit(h, [old EXCEPT ![First(at)] =
                         [@ EXCEPT !.dir = TRUE, !.bytes = Empty, !.original = 0]])
        \/ /\ at = {}
           /\ Len(old) < MaxEntries
           /\ Edit(h, Append(old, [name |-> name, bytes |-> Empty, dir |-> TRUE,
                                   plain |-> TRUE, original |-> 0]))

RemoveFile(h, name) ==
    LET at == Positions(h, name)
        old == jars[h].entries
    IN  /\ at # {}
        /\ Edit(h, [i \in 1..(Len(old) - 1) |-> old[IF i < First(at) THEN i ELSE i + 1]])

-----------------------------------------------------------------------------
(* Rewriting.  relower: a transform is given, or an option other than       *)
(* preserving frames and debug information without a resolver.              *)

should_raw_copy_entry(e, relower) == ~relower /\ e.original # 0 /\ e.plain

\* What write_entry puts in the output.
Encoded(e, relower) ==
    [name |-> e.name, plain |-> e.plain,
     bytes |-> IF e.dir THEN Empty
               ELSE IF e.name \in ClassNames /\ relower THEN Lowered(e.bytes)
               ELSE e.bytes]

\* One entry of the output; Missing is an index the source does not have.
Written(e, source, relower) ==
    IF ~should_raw_copy_entry(e, relower) THEN Encoded(e, relower)
    ELSE IF e.original \in DOMAIN source THEN [source[e.original] EXCEPT !.name = e.name]
    ELSE Missing

Begin(h, dest, relower) ==
    /\ Idle(h)
    /\ rewrites < MaxRewrites
    /\ disk[jars[h].file] # NoFile
    /\ rewrites' = rewrites + 1
    /\ runs' = [runs EXCEPT ![h] = [phase |-> "writing", dest |-> dest, relower |-> relower,
                                    source |-> disk[jars[h].file], temp |-> <<>>,
                                    sure |-> ~stale[h]]]
    /\ UNCHANGED <<disk, jars, stale, edits>>

Writing(h) == runs[h].phase = "writing"

Finished(h) == Len(runs[h].temp) = Len(jars[h].entries)

\* A wrong writer: the entries go to the destination itself.
WriteInPlace(h) ==
    /\ Writing(h) /\ ~Finished(h)
    /\ LET next == Written(jars[h].entries[Len(runs[h].temp) + 1], runs[h].source, runs[h].relower)
       IN  /\ next # Missing
           /\ runs' = [runs EXCEPT ![h].temp = Append(@, next)]
           /\ disk' = [disk EXCEPT ![runs[h].dest] = Append(runs[h].temp, next)]
    /\ UNCHANGED <<jars, stale, edits, rewrites>>

WriteNext(h) ==
    /\ Writing(h) /\ ~Finished(h)
    /\ LET next == Written(jars[h].entries[Len(runs[h].temp) + 1], runs[h].source, runs[h].relower)
       IN  /\ next # Missing
           /\ runs' = [runs EXCEPT ![h].temp = Append(@, next)]
    /\ UNCHANGED <<disk, jars, stale, edits, rewrites>>

\* Any error before the rename, that of a transform and of an index the source
\* does not have among them: the temporary file stays behind, under a name
\* nobody reads, and memory and destination are as they were.
Fail(h) ==
    /\ Writing(h)
    /\ runs' = [runs EXCEPT ![h] = NoRun]
    /\ UNCHANGED <<disk, jars, stale, edits, rewrites>>

Rename(h) ==
    /\ Writing(h) /\ Finished(h)
    /\ disk' = [disk EXCEPT ![runs[h].dest] = runs[h].temp]
    /\ stale' = [g \in Holders |->
                    stale[g] \/ (jars[g] # Closed /\ jars[g].file = runs[h].dest)]
    /\ runs' = [runs EXCEPT ![h] = [phase |-> "renamed", dest |-> runs[h].dest]]
    /\ UNCHANGED <<jars, edits, rewrites>>

\* A wrong refresh: the entries are read back, the path is not taken over.
RefreshEntries(h) ==
    /\ runs[h].phase = "renamed"
    /\ disk[runs[h].dest] # NoFile
    /\ jars' = [jars EXCEPT ![h].entries = Jar(runs[h].dest).entries]
    /\ stale' = [stale EXCEPT ![h] = FALSE]
    /\ runs' = [runs EXCEPT ![h] = NoRun]
    /\ UNCHANGED <<disk, edits, rewrites>>

Refresh(h) ==
    /\ runs[h].phase = "renamed"
    /\ disk[runs[h].dest] # NoFile
    /\ jars' = [jars EXCEPT ![h] = Jar(runs[h].dest)]
    /\ stale' = [stale EXCEPT ![h] = FALSE]
    /\ runs' = [runs EXCEPT ![h] = NoRun]
    /\ UNCHANGED <<disk, edits, rewrites>>

\* Reading back fails: memory is put back to what it was before the rewrite.
RefreshFails(h) ==
    /\ runs[h].phase = "renamed"
    /\ runs' = [runs EXCEPT ![h] = NoRun]
    /\ UNCHANGED <<disk, jars, stale, edits, rewrites>>

\* The process ends, between any two steps; a new one may Open again.
Crash(h) ==
    /\ jars[h] # Closed
    /\ jars' = [jars EXCEPT ![h] = Closed]
    /\ runs' = [runs EXCEPT ![h] = NoRun]
    /\ UNCHANGED <<disk, stale, edits, rewrites>>

-----------------------------------------------------------------------------
Init ==
    /\ disk = Start
    /\ jars = [h \in Holders |-> Closed]
    /\ runs = [h \in Holders |-> NoRun]
    /\ stale = [h \in Holders |-> FALSE]
    /\ edits = 0 /\ rewrites = 0

Editing(h) ==
    \/ \E name \in Names, bytes \in NewBytes : Idle(h) /\ AddFile(h, name, bytes)
    \/ \E name \in DirNames : Idle(h) /\ AddDirectory(h, name)
    \/ \E name \in Names : Idle(h) /\ RemoveFile(h, name)

Rewriting(h) ==
    \/ \E dest \in Paths, relower \in BOOLEAN : Begin(h, dest, relower)
    \/ WriteNext(h) \/ Fail(h) \/ Rename(h)
    \/ Refresh(h) \/ RefreshFails(h)

Next ==
    \E h \in Holders :
        \/ \E path \in Paths : Open(h, path)
        \/ Read(h) \/ Editing(h) \/ Rewriting(h) \/ Crash(h)

Spec == Init /\ [][Next]_vars
-----------------------------------------------------------------------------
(* Assumptions. *)

ASSUME NameKinds ==
    /\ ClassNames \subseteq Names
    /\ DirNames \subseteq Names
    /\ ClassNames \cap DirNames = {}

ASSUME Bounds == MaxEntries \in Nat /\ MaxEdits \in Nat /\ MaxRewrites \in Nat

ASSUME ContentsClosed ==
    /\ NewBytes \subseteq Contents
    /\ Empty \in Contents
    /\ \A bytes \in Contents : Lowered(bytes) \in Contents

ASSUME StartArchives ==
    /\ Start \in [Paths -> Seq(Item) \cup {NoFile}]
    /\ \A path \in Paths :
        \/ Start[path] = NoFile
        \/ \A i, j \in DOMAIN Start[path] :
               Start[path][i].name = Start[path][j].name => i = j

-----------------------------------------------------------------------------
(* Properties. *)

\* Memory holds each name once, and an index kept there leads to the entry it was
\* read as, through every edit, failed rewrite and rewrite to another path, unless
\* the archive was replaced behind the holder: what copying by index relies on.
IndexesAgree ==
    \A h \in Holders :
        jars[h] # Closed /\ ~stale[h] =>
            \A i \in DOMAIN jars[h].entries :
                /\ \A j \in DOMAIN jars[h].entries :
                      jars[h].entries[i].name = jars[h].entries[j].name => i = j
                /\ LET e == jars[h].entries[i]
                       archive == disk[jars[h].file]
                   IN  e.original # 0 =>
                           /\ e.original \in DOMAIN archive
                           /\ archive[e.original].name = e.name
                           /\ archive[e.original].plain = e.plain
                           /\ e.dir \/ archive[e.original].bytes = e.bytes

Publishes(h) == Writing(h) /\ runs'[h].phase = "renamed"

\* What a rewrite publishes is what its holder has in memory: the same names in
\* the same order, each class lowered if asked, every other entry byte for byte;
\* for a rewrite that began with the archive its memory was read from, whoever
\* else rewrites meanwhile.
FreshRewriteIsExact ==
    [][\A h \in Holders :
         Publishes(h) /\ runs[h].sure =>
            LET archive == disk'[runs[h].dest]
                memory == jars[h].entries
            IN  /\ DOMAIN archive = DOMAIN memory
                /\ \A i \in DOMAIN archive :
                    /\ archive[i].name = memory[i].name
                    /\ \/ memory[i].dir
                       \/ archive[i].bytes = Encoded(memory[i], runs[h].relower).bytes]_vars

\* The documented "preserve non-class resources" for every rewrite: a resource
\* in memory is in the archive that is published, byte for byte.
ResourcesPreserved ==
    [][\A h \in Holders :
         Publishes(h) =>
            \A i \in DOMAIN jars[h].entries :
                LET e == jars[h].entries[i]
                IN  \/ e.dir \/ e.name \in ClassNames
                    \/ \E j \in DOMAIN disk'[runs[h].dest] :
                        LET f == disk'[runs[h].dest][j]
                        IN  f.name = e.name /\ f.bytes = e.bytes]_vars

\* The output a rewrite is working towards, settled when it opens its source.
Promise(h) ==
    IF Writing(h)
    THEN [dest |-> runs[h].dest,
          whole |-> [i \in DOMAIN jars[h].entries |->
                        Written(jars[h].entries[i], runs[h].source, runs[h].relower)]]
    ELSE NoRun

Abstract == INSTANCE AtomicReplace
    WITH Writers <- Holders, NoJob <- NoRun, job <- [h \in Holders |-> Promise(h)]

\* Rewrites are atomic: every path holds its old archive or the complete output
\* some holder promised, and changes in one step, through errors, deaths of the
\* process and rewrites of one path by several holders.
RewritesAreAtomic == Abstract!Spec
=============================================================================
