-------------------------- MODULE JarArchiveProofs --------------------------
(***************************************************************************)
(* Theorems about JarArchive for every set of holders, paths, names and     *)
(* contents, archives of any length and any number of edits and rewrites.   *)
(***************************************************************************)
EXTENDS JarArchive, WellFoundedInduction, TLAPS

-----------------------------------------------------------------------------
(* The invariant. *)

NamedOnce(s) == \A i, j \in DOMAIN s : s[i].name = s[j].name => i = j

IsArchive(a) == a \in Seq(Item) /\ NamedOnce(a)
IsMemory(s) == s \in Seq(Entry) /\ NamedOnce(s)

\* The entry was read from the archive at its index and says the same.
Agrees(e, archive) ==
    e.original # 0 =>
        /\ e.original \in DOMAIN archive
        /\ archive[e.original].name = e.name
        /\ archive[e.original].plain = e.plain
        /\ e.dir \/ archive[e.original].bytes = e.bytes

LeadsTo(entries, archive) == \A i \in DOMAIN entries : Agrees(entries[i], archive)

DiskOK ==
    /\ disk = [p \in Paths |-> disk[p]]
    /\ \A p \in Paths : disk[p] # NoFile => IsArchive(disk[p])

JarOK(h) ==
    jars[h] # Closed =>
        /\ jars[h] = [file |-> jars[h].file, entries |-> jars[h].entries]
        /\ jars[h].file \in Paths
        /\ IsMemory(jars[h].entries)
        /\ ~stale[h] => LeadsTo(jars[h].entries, disk[jars[h].file])

\* The temporary file holds the first entries as they are to be written.
WritingOK(h) ==
    LET r == runs[h]
        entries == jars[h].entries
    IN  /\ r = [phase |-> "writing", dest |-> r.dest, relower |-> r.relower,
                source |-> r.source, temp |-> r.temp, sure |-> r.sure]
        /\ jars[h] # Closed
        /\ r.dest \in Paths /\ r.relower \in BOOLEAN
        /\ IsArchive(r.source)
        /\ r.temp \in Seq(Item)
        /\ Len(r.temp) <= Len(entries)
        /\ \A i \in DOMAIN r.temp :
              r.temp[i] = Written(entries[i], r.source, r.relower) /\ r.temp[i] # Missing
        /\ r.sure => LeadsTo(entries, r.source)

RunOK(h) ==
    \/ runs[h] = NoRun
    \/ WritingOK(h)
    \/ runs[h] = [phase |-> "renamed", dest |-> runs[h].dest] /\ runs[h].dest \in Paths

IInv ==
    /\ DiskOK
    /\ jars = [h \in Holders |-> jars[h]]
    /\ runs = [h \in Holders |-> runs[h]]
    /\ stale \in [Holders -> BOOLEAN]
    /\ \A h \in Holders : JarOK(h) /\ RunOK(h)

-----------------------------------------------------------------------------
(* What the operators keep. *)

LEMMA EntriesRead ==
    ASSUME NEW a, IsArchive(a)
    PROVE  IsMemory(ReadEntries(a)) /\ LeadsTo(ReadEntries(a), a)
<1> DEFINE s == ReadEntries(a)
<1>1. DOMAIN a = 1..Len(a) /\ Len(a) \in Nat
  BY DEF IsArchive
<1>2. ASSUME NEW i \in DOMAIN a
      PROVE  /\ s[i] \in Entry
             /\ s[i].name = a[i].name
             /\ Agrees(s[i], a)
  <2>1. a[i] \in Item /\ i \in Nat BY <1>1 DEF IsArchive
  <2>2. s[i] = [name |-> a[i].name,
                bytes |-> IF a[i].name \in DirNames THEN Empty ELSE a[i].bytes,
                dir |-> a[i].name \in DirNames, plain |-> a[i].plain, original |-> i]
    BY DEF ReadEntries
  <2> HIDE DEF s
  <2>3. s[i] \in Entry BY <2>1, <2>2, ContentsClosed DEF Item, Entry
  <2>4. /\ s[i].name = a[i].name /\ s[i].plain = a[i].plain /\ s[i].original = i
        /\ s[i].dir = (a[i].name \in DirNames)
        /\ s[i].bytes = IF a[i].name \in DirNames THEN Empty ELSE a[i].bytes
    BY <2>2
  <2> QED BY <2>3, <2>4 DEF Agrees
<1>3. DOMAIN s = DOMAIN a
  BY DEF ReadEntries
<1>4. s \in Seq(Entry)
  <2>1. s = [i \in 1..Len(a) |-> s[i]] BY <1>1 DEF ReadEntries
  <2> HIDE DEF s
  <2> QED BY <1>1, <1>2, <2>1
<1>5. NamedOnce(s)
  BY <1>2, <1>3 DEF NamedOnce, IsArchive
<1> QED BY <1>2, <1>3, <1>4, <1>5 DEF IsMemory, LeadsTo

LEMMA WrittenOutcome ==
    ASSUME NEW e \in Entry, NEW source \in Seq(Item), NEW relower \in BOOLEAN,
           Written(e, source, relower) # Missing
    PROVE  /\ Written(e, source, relower) \in Item
           /\ Written(e, source, relower).name = e.name
           /\ Agrees(e, source) =>
                 e.dir \/ Written(e, source, relower).bytes = Encoded(e, relower).bytes
<1>1. Encoded(e, relower) \in Item /\ Encoded(e, relower).name = e.name
  BY ContentsClosed DEF Encoded, Item, Entry
<1>2. CASE ~should_raw_copy_entry(e, relower)
  BY <1>1, <1>2 DEF Written
<1>3. CASE should_raw_copy_entry(e, relower)
  <2>1. /\ e.original \in DOMAIN source
        /\ Written(e, source, relower) = [source[e.original] EXCEPT !.name = e.name]
    BY <1>3 DEF Written
  <2>2. source[e.original] \in Item
    BY <2>1
  <2> QED BY <1>3, <2>1, <2>2 DEF should_raw_copy_entry, Agrees, Encoded, Item, Entry
<1> QED BY <1>2, <1>3

LEMMA FirstIsLeast ==
    ASSUME NEW S \in SUBSET Nat, S # {}
    PROVE  First(S) \in S
<1> DEFINE R == {ss \in Nat \X Nat : ss[1] < ss[2]}
<1>1. IsWellFoundedOn(R, Nat)
  BY NatLessThanWellFounded DEF OpToRel
<1>2. PICK x \in S : \A y \in S : ~(<<y, x>> \in R)
  <2> HIDE DEF R
  <2> QED BY <1>1, WFMin
<1>3. ASSUME NEW y \in S PROVE x <= y
  <2>1. ~(y < x)
    BY <1>2
  <2> QED BY <2>1
<1> QED BY <1>3 DEF First

-----------------------------------------------------------------------------
(* Edits. *)

\* The new entries may stand for the old ones.
Keeps(old, new) ==
    /\ IsMemory(new)
    /\ \A archive : LeadsTo(old, archive) => LeadsTo(new, archive)

\* An entry that is replaced in place is no longer tied to the disk.
LEMMA ReplaceKeeps ==
    ASSUME NEW old, IsMemory(old), NEW k, NEW e,
           k \in DOMAIN old => e \in Entry /\ e.name = old[k].name /\ e.original = 0
    PROVE  Keeps(old, [old EXCEPT ![k] = e])
<1> DEFINE new == [old EXCEPT ![k] = e]
<1>1. \A i \in DOMAIN old : new[i] = IF i = k THEN e ELSE old[i]
  OBVIOUS
<1>2. DOMAIN new = DOMAIN old /\ new \in Seq(Entry)
  <2>1. Len(old) \in Nat /\ DOMAIN old = 1..Len(old) /\ \A i \in DOMAIN old : old[i] \in Entry
    BY DEF IsMemory
  <2>2. \A i \in 1..Len(old) : new[i] \in Entry
    BY <1>1, <2>1
  <2>3. DOMAIN new = 1..Len(old) /\ new = [i \in 1..Len(old) |-> new[i]]
    BY <2>1
  <2> HIDE DEF new
  <2> QED BY <2>1, <2>2, <2>3
<1>3. \A i \in DOMAIN old : new[i].name = old[i].name
  BY <1>1
<1> HIDE DEF new
<1>4. IsMemory(new)
  BY <1>2, <1>3 DEF IsMemory, NamedOnce
<1>5. ASSUME NEW archive, LeadsTo(old, archive) PROVE LeadsTo(new, archive)
  BY <1>1, <1>2, <1>5 DEF LeadsTo, Agrees
<1> QED BY <1>4, <1>5 DEF Keeps, new

LEMMA AppendKeeps ==
    ASSUME NEW old, IsMemory(old), NEW e \in Entry, e.original = 0,
           \A i \in DOMAIN old : old[i].name # e.name
    PROVE  Keeps(old, Append(old, e))
<1> DEFINE new == Append(old, e)
<1>1. /\ new \in Seq(Entry) /\ Len(new) = Len(old) + 1 /\ Len(old) \in Nat
      /\ DOMAIN new = 1..(Len(old) + 1) /\ DOMAIN old = 1..Len(old)
      /\ \A i \in DOMAIN old : new[i] = old[i]
      /\ new[Len(old) + 1] = e
  BY DEF IsMemory
<1> HIDE DEF new
<1>2. \A i \in DOMAIN new : i \in DOMAIN old \/ i = Len(old) + 1
  BY <1>1
<1>3. NamedOnce(new)
  BY <1>1, <1>2 DEF IsMemory, NamedOnce
<1>4. ASSUME NEW archive, LeadsTo(old, archive) PROVE LeadsTo(new, archive)
  BY <1>1, <1>2, <1>4 DEF LeadsTo, Agrees
<1> QED BY <1>1, <1>3, <1>4 DEF Keeps, IsMemory, new

LEMMA RemoveKeeps ==
    ASSUME NEW old, IsMemory(old), NEW k \in DOMAIN old
    PROVE  Keeps(old, [i \in 1..(Len(old) - 1) |-> old[IF i < k THEN i ELSE i + 1]])
<1> DEFINE from(i) == IF i < k THEN i ELSE i + 1
           new == [i \in 1..(Len(old) - 1) |-> old[from(i)]]
<1>1. Len(old) \in Nat /\ DOMAIN old = 1..Len(old) /\ Len(old) - 1 \in Nat
  BY DEF IsMemory
<1>2. \A i \in DOMAIN new : from(i) \in DOMAIN old /\ new[i] = old[from(i)]
  BY <1>1
<1>3. \A i, j \in DOMAIN new : from(i) = from(j) => i = j
  BY <1>1
<1>4. new \in Seq(Entry)
  <2>1. \A i \in 1..(Len(old) - 1) : old[from(i)] \in Entry
    BY <1>1 DEF IsMemory
  <2> HIDE DEF from
  <2> QED BY <1>1, <2>1
<1> HIDE DEF new, from
<1>5. NamedOnce(new)
  BY <1>2, <1>3 DEF IsMemory, NamedOnce
<1>6. ASSUME NEW archive, LeadsTo(old, archive) PROVE LeadsTo(new, archive)
  BY <1>2, <1>6 DEF LeadsTo
<1>7. Keeps(old, new)
  BY <1>4, <1>5, <1>6 DEF Keeps, IsMemory
<1> QED BY <1>7 DEF new, from

-----------------------------------------------------------------------------
(* Every step keeps the invariant. *)

LEMMA InitIInv == Init => IInv
<1> SUFFICES ASSUME Init PROVE IInv
  OBVIOUS
<1>1. DiskOK
  BY StartArchives DEF Init, DiskOK, IsArchive, NamedOnce
<1> QED BY <1>1 DEF Init, IInv, JarOK, RunOK

\* A holder that no variable was changed for is in order as before.
LEMMA JarUnmoved ==
    ASSUME NEW h, JarOK(h), jars'[h] = jars[h], stale'[h] = stale[h], disk' = disk
    PROVE  JarOK(h)'
BY DEF JarOK

LEMMA RunUnmoved ==
    ASSUME NEW h, RunOK(h), jars'[h] = jars[h], runs'[h] = runs[h]
    PROVE  RunOK(h)'
BY DEF RunOK, WritingOK

LEMMA EditIInv ==
    ASSUME IInv, NEW h \in Holders, NEW entries, Edit(h, entries),
           Keeps(jars[h].entries, entries)
    PROVE  IInv'
<1>1. /\ jars[h] # Closed /\ runs[h] = NoRun /\ UNCHANGED <<disk, runs, stale>>
      /\ jars' = [jars EXCEPT ![h].entries = entries]
  BY DEF Edit, Idle
<1>2. jars'[h] = [file |-> jars[h].file, entries |-> entries]
  BY <1>1 DEF IInv, JarOK
<1>3. \A g \in Holders \ {h} : jars'[g] = jars[g]
  BY <1>1 DEF IInv
<1>4. JarOK(h)'
  <2>1. jars[h].file \in Paths /\ (~stale[h] => LeadsTo(jars[h].entries, disk[jars[h].file]))
    BY <1>1 DEF IInv, JarOK
  <2> QED BY <1>1, <1>2, <2>1 DEF JarOK, Keeps
<1>5. RunOK(h)'
  BY <1>1 DEF RunOK
<1>6. \A g \in Holders \ {h} : JarOK(g)' /\ RunOK(g)'
  BY <1>1, <1>3, JarUnmoved, RunUnmoved DEF IInv
<1>7. jars' = [g \in Holders |-> jars'[g]]
  BY <1>1 DEF IInv
<1> QED BY <1>1, <1>4, <1>5, <1>6, <1>7 DEF IInv, DiskOK

LEMMA AddFileIInv ==
    ASSUME IInv, NEW h \in Holders, NEW name \in Names, NEW bytes \in NewBytes,
           Idle(h), AddFile(h, name, bytes)
    PROVE  IInv'
<1> DEFINE old == jars[h].entries
           at == Positions(h, name)
<1>1. IsMemory(old)
  BY DEF IInv, JarOK, Idle
<1>2. CASE at # {} /\ Edit(h, [old EXCEPT ![First(at)] = Replaced(@, bytes)])
  <2> DEFINE k == First(at)
             e == Replaced(old[k], bytes)
  <2> HIDE DEF k
  <2>1. k \in DOMAIN old => e \in Entry /\ e.name = old[k].name /\ e.original = 0
    <3>1. k \in DOMAIN old => old[k] \in Entry
      BY <1>1 DEF IsMemory
    <3> QED BY <3>1, ContentsClosed DEF Replaced, Entry
  <2>2. Keeps(old, [old EXCEPT ![k] = e])
    BY <1>1, <2>1, ReplaceKeeps
  <2>3. [old EXCEPT ![k] = e] = [old EXCEPT ![k] = Replaced(@, bytes)]
    OBVIOUS
  <2> QED BY <1>2, <2>2, <2>3, EditIInv DEF k
<1>3. ASSUME NEW e, e = [name |-> name, bytes |-> bytes, dir |-> FALSE, plain |-> TRUE, original |-> 0],
             at = {}, Edit(h, Append(old, e))
      PROVE  IInv'
  <2>1. e \in Entry /\ e.original = 0 /\ e.name = name
    BY <1>3, ContentsClosed DEF Entry
  <2>2. \A i \in DOMAIN old : old[i].name # e.name
    BY <1>3, <2>1 DEF Positions
  <2> QED BY <1>1, <1>3, <2>1, <2>2, AppendKeeps, EditIInv
<1> QED BY <1>2, <1>3 DEF AddFile

LEMMA AddDirectoryIInv ==
    ASSUME IInv, NEW h \in Holders, NEW name \in DirNames, Idle(h), AddDirectory(h, name)
    PROVE  IInv'
<1> DEFINE old == jars[h].entries
           at == Positions(h, name)
<1>1. IsMemory(old)
  BY DEF IInv, JarOK, Idle
<1>2. CASE at # {} /\ Edit(h, [old EXCEPT ![First(at)] =
                                [@ EXCEPT !.dir = TRUE, !.bytes = Empty, !.original = 0]])
  <2> DEFINE k == First(at)
             e == [old[k] EXCEPT !.dir = TRUE, !.bytes = Empty, !.original = 0]
  <2> HIDE DEF k
  <2>1. k \in DOMAIN old => e \in Entry /\ e.name = old[k].name /\ e.original = 0
    <3>1. k \in DOMAIN old => old[k] \in Entry
      BY <1>1 DEF IsMemory
    <3> QED BY <3>1, ContentsClosed DEF Entry
  <2>2. Keeps(old, [old EXCEPT ![k] = e])
    BY <1>1, <2>1, ReplaceKeeps
  <2>3. [old EXCEPT ![k] = e] =
        [old EXCEPT ![k] = [@ EXCEPT !.dir = TRUE, !.bytes = Empty, !.original = 0]]
    OBVIOUS
  <2> QED BY <1>2, <2>2, <2>3, EditIInv DEF k
<1>3. ASSUME NEW e, e = [name |-> name, bytes |-> Empty, dir |-> TRUE, plain |-> TRUE, original |-> 0],
             at = {}, Edit(h, Append(old, e))
      PROVE  IInv'
  <2>1. e \in Entry /\ e.original = 0 /\ e.name = name
    BY <1>3, ContentsClosed, NameKinds DEF Entry
  <2>2. \A i \in DOMAIN old : old[i].name # e.name
    BY <1>3, <2>1 DEF Positions
  <2> QED BY <1>1, <1>3, <2>1, <2>2, AppendKeeps, EditIInv
<1> QED BY <1>2, <1>3 DEF AddDirectory

LEMMA RemoveFileIInv ==
    ASSUME IInv, NEW h \in Holders, NEW name \in Names, Idle(h), RemoveFile(h, name)
    PROVE  IInv'
<1> DEFINE old == jars[h].entries
           at == Positions(h, name)
           new == [i \in 1..(Len(old) - 1) |-> old[IF i < First(at) THEN i ELSE i + 1]]
<1>1. IsMemory(old)
  BY DEF IInv, JarOK, Idle
<1>2. at # {} /\ Edit(h, new)
  BY DEF RemoveFile
<1>3. First(at) \in DOMAIN old
  <2>1. at \subseteq DOMAIN old /\ DOMAIN old \subseteq Nat
    BY <1>1 DEF Positions, IsMemory
  <2> HIDE DEF at
  <2>2. First(at) \in at
    BY <1>2, <2>1, FirstIsLeast
  <2> QED BY <2>1, <2>2
<1>4. Keeps(old, new)
  BY <1>1, <1>3, RemoveKeeps
<1> QED BY <1>2, <1>4, EditIInv

\* Entries read from the archive that is on the path now, by a holder that is not
\* writing.
LEMMA LoadIInv ==
    ASSUME IInv, NEW h \in Holders, NEW path \in Paths, disk[path] # NoFile,
           jars' = [jars EXCEPT ![h] = Jar(path)], stale' = [stale EXCEPT ![h] = FALSE],
           runs' = runs \/ runs' = [runs EXCEPT ![h] = NoRun],
           ~WritingOK(h) \/ runs'[h] = NoRun, disk' = disk
    PROVE  IInv'
<1>1. /\ jars'[h] = [file |-> path, entries |-> ReadEntries(disk[path])]
      /\ stale' \in [Holders -> BOOLEAN] /\ stale'[h] = FALSE
      /\ jars' = [g \in Holders |-> jars'[g]] /\ runs' = [g \in Holders |-> runs'[g]]
      /\ \A g \in Holders \ {h} : jars'[g] = jars[g] /\ runs'[g] = runs[g] /\ stale'[g] = stale[g]
  BY DEF IInv, Jar
<1>2. JarOK(h)'
  <2>1. IsMemory(ReadEntries(disk[path])) /\ LeadsTo(ReadEntries(disk[path]), disk[path])
    BY EntriesRead DEF IInv, DiskOK
  <2> QED BY <1>1, <2>1 DEF JarOK
<1>3. RunOK(h)'
  <2>1. CASE runs'[h] = NoRun
    BY <2>1 DEF RunOK
  <2>2. CASE runs'[h] # NoRun
    <3>1. runs'[h] = runs[h] /\ ~WritingOK(h)
      BY <2>2 DEF IInv
    <3> QED BY <3>1 DEF IInv, RunOK
  <2> QED BY <2>1, <2>2
<1>4. \A g \in Holders \ {h} : JarOK(g)' /\ RunOK(g)'
  BY <1>1, JarUnmoved, RunUnmoved DEF IInv
<1> QED BY <1>1, <1>2, <1>3, <1>4 DEF IInv, DiskOK

LEMMA OpenIInv ==
    ASSUME IInv, NEW h \in Holders, NEW path \in Paths, Open(h, path)
    PROVE  IInv'
<1>1. ~WritingOK(h)
  BY DEF Open, WritingOK
<1> QED BY <1>1, LoadIInv DEF Open

LEMMA ReadIInv ==
    ASSUME IInv, NEW h \in Holders, Read(h)
    PROVE  IInv'
<1>1. jars[h].file \in Paths /\ runs[h] = NoRun
  BY DEF Read, Idle, IInv, JarOK
<1> QED BY <1>1, LoadIInv DEF Read

LEMMA RefreshIInv ==
    ASSUME IInv, NEW h \in Holders, Refresh(h)
    PROVE  IInv'
<1>1. runs[h].dest \in Paths
  BY DEF Refresh, IInv, RunOK, NoRun, WritingOK
<1>2. runs'[h] = NoRun
  BY DEF Refresh, IInv
<1> QED BY <1>1, <1>2, LoadIInv DEF Refresh

\* A rewrite given up, with the holder's memory as it was.
LEMMA GiveUpIInv ==
    ASSUME IInv, NEW h \in Holders, runs' = [runs EXCEPT ![h] = NoRun],
           jars' = jars \/ jars' = [jars EXCEPT ![h] = Closed], UNCHANGED <<disk, stale>>
    PROVE  IInv'
<1>1. /\ runs'[h] = NoRun /\ (jars'[h] = jars[h] \/ jars'[h] = Closed)
      /\ jars' = [g \in Holders |-> jars'[g]] /\ runs' = [g \in Holders |-> runs'[g]]
      /\ \A g \in Holders \ {h} : jars'[g] = jars[g] /\ runs'[g] = runs[g]
  BY DEF IInv
<1>2. JarOK(h)' /\ RunOK(h)'
  BY <1>1 DEF IInv, JarOK, RunOK
<1>3. \A g \in Holders \ {h} : JarOK(g)' /\ RunOK(g)'
  BY <1>1, JarUnmoved, RunUnmoved DEF IInv
<1> QED BY <1>1, <1>2, <1>3 DEF IInv, DiskOK

LEMMA BeginIInv ==
    ASSUME IInv, NEW h \in Holders, NEW dest \in Paths, NEW relower \in BOOLEAN,
           Begin(h, dest, relower)
    PROVE  IInv'
<1> DEFINE source == disk[jars[h].file]
<1>1. /\ jars[h] # Closed /\ source # NoFile /\ UNCHANGED <<disk, jars, stale>>
      /\ runs' = [g \in Holders |-> runs'[g]]
      /\ \A g \in Holders \ {h} : runs'[g] = runs[g]
      /\ runs'[h] = [phase |-> "writing", dest |-> dest, relower |-> relower,
                     source |-> source, temp |-> <<>>, sure |-> ~stale[h]]
  BY DEF Begin, Idle, IInv
<1>2. jars[h].file \in Paths /\ (~stale[h] => LeadsTo(jars[h].entries, source))
      /\ IsMemory(jars[h].entries)
  BY <1>1 DEF IInv, JarOK
<1>3. IsArchive(source)
  BY <1>1, <1>2 DEF IInv, DiskOK
<1>4. <<>> \in Seq(Item) /\ Len(<<>>) <= Len(jars[h].entries) /\ DOMAIN <<>> = {}
  <2>1. Len(jars[h].entries) \in Nat BY <1>2 DEF IsMemory
  <2> QED BY <2>1
<1>5. WritingOK(h)'
  <2> DEFINE r == [phase |-> "writing", dest |-> dest, relower |-> relower,
                   source |-> source, temp |-> <<>>, sure |-> ~stale[h]]
  <2> HIDE DEF source
  <2>1. /\ r.dest = dest /\ r.relower = relower /\ r.source = source
        /\ r.temp = <<>> /\ r.sure = ~stale[h]
        /\ r = [phase |-> "writing", dest |-> r.dest, relower |-> r.relower,
                source |-> r.source, temp |-> r.temp, sure |-> r.sure]
    OBVIOUS
  <2>2. runs'[h] = r /\ jars'[h] = jars[h]
    BY <1>1 DEF source
  <2> HIDE DEF r
  <2> QED BY <1>1, <1>2, <1>3, <1>4, <2>1, <2>2 DEF WritingOK
<1>6. \A g \in Holders : JarOK(g)'
  BY <1>1, JarUnmoved DEF IInv
<1>7. \A g \in Holders \ {h} : RunOK(g)'
  BY <1>1, RunUnmoved DEF IInv
<1> QED BY <1>1, <1>5, <1>6, <1>7 DEF IInv, DiskOK, RunOK

\* What is known of a rewrite while it writes.
LEMMA WritingFacts ==
    ASSUME IInv, NEW h \in Holders, Writing(h)
    PROVE  /\ WritingOK(h) /\ jars[h] # Closed /\ runs[h] # NoRun
           /\ runs[h].dest \in Paths /\ runs[h].relower \in BOOLEAN
           /\ IsArchive(runs[h].source) /\ IsMemory(jars[h].entries)
           /\ runs[h].temp \in Seq(Item)
           /\ \A i \in DOMAIN runs[h].temp :
                 /\ runs[h].temp[i] = Written(jars[h].entries[i], runs[h].source, runs[h].relower)
                 /\ runs[h].temp[i] # Missing
           /\ runs[h].sure => LeadsTo(jars[h].entries, runs[h].source)
<1>1. runs[h] # NoRun /\ runs[h].phase # "renamed"
  BY DEF Writing, NoRun
<1>2. WritingOK(h)
  <2>1. ~(runs[h] = [phase |-> "renamed", dest |-> runs[h].dest])
    BY <1>1
  <2> QED BY <1>1, <2>1 DEF IInv, RunOK
<1>3. jars[h] # Closed
  BY <1>2 DEF WritingOK
<1>4. IsMemory(jars[h].entries)
  BY <1>3 DEF IInv, JarOK
<1> QED BY <1>1, <1>2, <1>3, <1>4 DEF WritingOK

LEMMA WriteNextIInv ==
    ASSUME IInv, NEW h \in Holders, WriteNext(h)
    PROVE  IInv'
<1> DEFINE r == runs[h]
           entries == jars[h].entries
           n == Len(r.temp) + 1
           next == Written(entries[n], r.source, r.relower)
           q == [r EXCEPT !.temp = Append(@, next)]
<1>1. Writing(h) /\ ~Finished(h) /\ next # Missing /\ UNCHANGED <<disk, jars, stale>>
      /\ runs' = [runs EXCEPT ![h] = q]
  BY DEF WriteNext
<1>2. /\ runs'[h] = q /\ runs' = [g \in Holders |-> runs'[g]]
      /\ \A g \in Holders \ {h} : runs'[g] = runs[g]
  BY <1>1 DEF IInv
<1>3. /\ Len(r.temp) \in Nat /\ Len(entries) \in Nat
      /\ n <= Len(entries) /\ n \in DOMAIN entries /\ entries[n] \in Entry
  <2>1. r.temp \in Seq(Item) /\ entries \in Seq(Entry) /\ Len(r.temp) <= Len(entries)
    BY <1>1, WritingFacts DEF IsMemory, WritingOK
  <2>2. Len(r.temp) # Len(entries)
    BY <1>1 DEF Finished
  <2>3. Len(r.temp) \in Nat /\ Len(entries) \in Nat /\ DOMAIN entries = 1..Len(entries)
    BY <2>1
  <2>4. n \in 1..Len(entries)
    <3> HIDE DEF entries, r
    <3> QED BY <2>1, <2>2, <2>3
  <2>5. entries[n] \in Entry
    <3> HIDE DEF entries, n
    <3> QED BY <2>1, <2>3, <2>4
  <2> QED BY <2>3, <2>4, <2>5
<1>4. next \in Item
  BY <1>1, <1>3, WritingFacts, WrittenOutcome DEF IsArchive
<1>5. /\ q.dest = r.dest /\ q.relower = r.relower /\ q.source = r.source /\ q.sure = r.sure
      /\ q.temp = Append(r.temp, next)
      /\ q = [phase |-> "writing", dest |-> q.dest, relower |-> q.relower,
              source |-> q.source, temp |-> q.temp, sure |-> q.sure]
  <2>1. r = [phase |-> "writing", dest |-> r.dest, relower |-> r.relower,
             source |-> r.source, temp |-> r.temp, sure |-> r.sure]
    BY <1>1, WritingFacts DEF WritingOK
  <2> HIDE DEF next, r
  <2>2. q = [phase |-> "writing", dest |-> r.dest, relower |-> r.relower,
             source |-> r.source, temp |-> Append(r.temp, next), sure |-> r.sure]
    BY <2>1
  <2> HIDE DEF q
  <2> QED BY <2>2
<1>6. /\ q.temp \in Seq(Item) /\ Len(q.temp) <= Len(entries)
      /\ \A i \in DOMAIN q.temp :
            q.temp[i] = Written(entries[i], r.source, r.relower) /\ q.temp[i] # Missing
  <2>1. /\ q.temp \in Seq(Item) /\ Len(q.temp) = n /\ DOMAIN q.temp = 1..n
        /\ \A i \in DOMAIN r.temp : q.temp[i] = r.temp[i]
        /\ q.temp[n] = next
        /\ \A i \in 1..n : i \in DOMAIN r.temp \/ i = n
    <3> HIDE DEF next, q
    <3>1. r.temp \in Seq(Item)
      BY <1>1, WritingFacts
    <3> QED BY <1>3, <1>4, <1>5, <3>1
  <2>2. ASSUME NEW i \in DOMAIN r.temp
        PROVE  r.temp[i] = Written(entries[i], r.source, r.relower) /\ r.temp[i] # Missing
    BY <1>1, WritingFacts
  <2>3. next # Missing /\ next = Written(entries[n], r.source, r.relower)
    BY <1>1
  <2> HIDE DEF q, next, n, r, entries
  <2> QED BY <1>3, <2>1, <2>2, <2>3
<1>7. WritingOK(h)'
  <2>1. /\ jars[h] # Closed /\ r.dest \in Paths /\ r.relower \in BOOLEAN
        /\ IsArchive(r.source) /\ (r.sure => LeadsTo(entries, r.source))
    BY <1>1, WritingFacts
  <2>2. runs'[h] = q /\ jars'[h] = jars[h]
    BY <1>1, <1>2
  <2> HIDE DEF q, next, r
  <2> QED BY <1>5, <1>6, <2>1, <2>2 DEF WritingOK
<1>8. \A g \in Holders : JarOK(g)'
  BY <1>1, JarUnmoved DEF IInv
<1>9. \A g \in Holders \ {h} : RunOK(g)'
  BY <1>1, <1>2, RunUnmoved DEF IInv
<1> QED BY <1>1, <1>2, <1>7, <1>8, <1>9 DEF IInv, DiskOK, RunOK

\* What is renamed is an archive: its names are those in memory.
LEMMA OutputIsArchive ==
    ASSUME IInv, NEW h \in Holders, Writing(h), Finished(h)
    PROVE  /\ IsArchive(runs[h].temp)
           /\ DOMAIN runs[h].temp = DOMAIN jars[h].entries
           /\ \A i \in DOMAIN runs[h].temp :
                 /\ runs[h].temp[i].name = jars[h].entries[i].name
                 /\ Agrees(jars[h].entries[i], runs[h].source) =>
                       \/ jars[h].entries[i].dir
                       \/ runs[h].temp[i].bytes = Encoded(jars[h].entries[i], runs[h].relower).bytes
<1>1. DOMAIN runs[h].temp = DOMAIN jars[h].entries
  BY WritingFacts DEF Finished, IsMemory
<1>2. ASSUME NEW i \in DOMAIN runs[h].temp
      PROVE  /\ runs[h].temp[i].name = jars[h].entries[i].name
             /\ Agrees(jars[h].entries[i], runs[h].source) =>
                   \/ jars[h].entries[i].dir
                   \/ runs[h].temp[i].bytes = Encoded(jars[h].entries[i], runs[h].relower).bytes
  <2>1. jars[h].entries[i] \in Entry
    BY <1>1, WritingFacts DEF IsMemory
  <2> QED BY <2>1, WritingFacts, WrittenOutcome DEF IsArchive
<1>3. NamedOnce(runs[h].temp)
  BY <1>1, <1>2, WritingFacts DEF NamedOnce, IsMemory
<1> QED BY <1>1, <1>2, <1>3, WritingFacts DEF IsArchive

LEMMA RenameIInv ==
    ASSUME IInv, NEW h \in Holders, Rename(h)
    PROVE  IInv'
<1>1. /\ Writing(h) /\ Finished(h) /\ jars' = jars
      /\ disk' = [disk EXCEPT ![runs[h].dest] = runs[h].temp]
      /\ stale' = [g \in Holders |->
                      stale[g] \/ (jars[g] # Closed /\ jars[g].file = runs[h].dest)]
      /\ runs' = [runs EXCEPT ![h] = [phase |-> "renamed", dest |-> runs[h].dest]]
  BY DEF Rename
<1>2. runs[h].dest \in Paths /\ IsArchive(runs[h].temp)
  BY <1>1, WritingFacts, OutputIsArchive
<1>3. DiskOK'
  BY <1>1, <1>2 DEF IInv, DiskOK
<1>4. \A g \in Holders : JarOK(g)'
  <2> SUFFICES ASSUME NEW g \in Holders, jars[g] # Closed
               PROVE  JarOK(g)'
    BY <1>1 DEF JarOK
  <2>1. CASE jars[g].file = runs[h].dest
    BY <1>1, <2>1 DEF IInv, JarOK
  <2>2. CASE jars[g].file # runs[h].dest
    <3>1. disk'[jars[g].file] = disk[jars[g].file] /\ (~stale'[g] => ~stale[g])
      BY <1>1, <2>2 DEF IInv, DiskOK, JarOK
    <3> QED BY <1>1, <3>1 DEF IInv, JarOK
  <2> QED BY <2>1, <2>2
<1>5. /\ runs'[h] = [phase |-> "renamed", dest |-> runs[h].dest]
      /\ runs' = [g \in Holders |-> runs'[g]]
      /\ \A g \in Holders \ {h} : runs'[g] = runs[g]
  BY <1>1 DEF IInv
<1>6. RunOK(h)'
  BY <1>2, <1>5 DEF RunOK
<1>7. \A g \in Holders \ {h} : RunOK(g)'
  BY <1>1, <1>5, RunUnmoved DEF IInv
<1>8. stale' \in [Holders -> BOOLEAN]
  BY <1>1
<1> QED BY <1>1, <1>3, <1>4, <1>5, <1>6, <1>7, <1>8 DEF IInv

LEMMA NextIInv == IInv /\ [Next]_vars => IInv'
<1> SUFFICES ASSUME IInv, [Next]_vars PROVE IInv'
  OBVIOUS
<1>1. CASE UNCHANGED vars
  BY <1>1, JarUnmoved, RunUnmoved DEF vars, IInv, DiskOK
<1>2. CASE Next
  <2> SUFFICES ASSUME NEW h \in Holders,
                      \/ \E path \in Paths : Open(h, path)
                      \/ Read(h) \/ Editing(h) \/ Rewriting(h) \/ Crash(h)
               PROVE  IInv'
    BY <1>2 DEF Next
  <2>1. ASSUME NEW path \in Paths, Open(h, path) PROVE IInv'
    BY <2>1, OpenIInv
  <2>2. CASE Read(h)
    BY <2>2, ReadIInv
  <2>3. CASE Editing(h)
    BY <2>3, AddFileIInv, AddDirectoryIInv, RemoveFileIInv DEF Editing
  <2>4. ASSUME NEW dest \in Paths, NEW relower \in BOOLEAN, Begin(h, dest, relower)
        PROVE  IInv'
    BY <2>4, BeginIInv
  <2>5. CASE WriteNext(h)
    BY <2>5, WriteNextIInv
  <2>6. CASE Fail(h)
    BY <2>6, GiveUpIInv DEF Fail
  <2>7. CASE Rename(h)
    BY <2>7, RenameIInv
  <2>8. CASE Refresh(h)
    BY <2>8, RefreshIInv
  <2>9. CASE RefreshFails(h)
    BY <2>9, GiveUpIInv DEF RefreshFails
  <2>10. CASE Crash(h)
    BY <2>10, GiveUpIInv DEF Crash
  <2> QED BY <2>1, <2>2, <2>3, <2>4, <2>5, <2>6, <2>7, <2>8, <2>9, <2>10 DEF Rewriting
<1> QED BY <1>1, <1>2

\* Memory, disk and the rewrites under way belong together in every state.
THEOREM Invariance == Spec => []IInv
<1> QED BY InitIInv, NextIInv, PTL DEF Spec

-----------------------------------------------------------------------------
(* What follows. *)

\* The indices that raw copying goes by are right, whatever was edited, refused,
\* rewritten elsewhere or lost since the archive was read (lib.rs: JarFile).
THEOREM IndexesAlwaysAgree == Spec => []IndexesAgree
<1>1. IInv => IndexesAgree
  <2> SUFFICES ASSUME IInv, NEW h \in Holders, jars[h] # Closed, ~stale[h],
                      NEW i \in DOMAIN jars[h].entries
               PROVE  /\ \A j \in DOMAIN jars[h].entries :
                            jars[h].entries[i].name = jars[h].entries[j].name => i = j
                      /\ Agrees(jars[h].entries[i], disk[jars[h].file])
    BY DEF IndexesAgree, Agrees
  <2>1. IsMemory(jars[h].entries) /\ LeadsTo(jars[h].entries, disk[jars[h].file])
    BY DEF IInv, JarOK
  <2> QED BY <2>1 DEF IsMemory, NamedOnce, LeadsTo
<1> QED BY <1>1, Invariance, PTL

\* A rewrite that began from the archive its memory was read from publishes that
\* memory, entry by entry, whoever else rewrites the path meanwhile.
THEOREM FreshRewritesAreExact == Spec => FreshRewriteIsExact
<1> DEFINE Exact(h) ==
        LET archive == disk'[runs[h].dest]
            memory == jars[h].entries
        IN  /\ DOMAIN archive = DOMAIN memory
            /\ \A i \in DOMAIN archive :
                /\ archive[i].name = memory[i].name
                /\ \/ memory[i].dir
                   \/ archive[i].bytes = Encoded(memory[i], runs[h].relower).bytes
<1>1. ASSUME IInv, [Next]_vars, NEW h \in Holders, Publishes(h), runs[h].sure
      PROVE  Exact(h)
  <2>1. Rename(h)
    <3>1. Writing(h) /\ runs'[h].phase = "renamed" /\ runs'[h] # runs[h]
      BY <1>1 DEF Publishes, Writing
    <3>2. PICK g \in Holders :
             \/ \E path \in Paths : Open(g, path)
             \/ Read(g) \/ Editing(g) \/ Rewriting(g) \/ Crash(g)
      BY <1>1, <3>1 DEF Next, vars
    <3>3. /\ \A path \in Paths : ~Open(g, path)
          /\ ~Read(g) /\ ~Editing(g)
      BY <3>1 DEF Open, Read, Editing, AddFile, AddDirectory, RemoveFile, Edit
    <3>4. g = h
      BY <1>1, <3>1, <3>2, <3>3 DEF Rewriting, Crash, Begin, WriteNext, Fail, Rename, Refresh,
                                    RefreshFails, IInv
    <3>5. ~Crash(h) /\ ~Fail(h) /\ ~Refresh(h) /\ ~RefreshFails(h)
      BY <1>1, <3>1 DEF Crash, Fail, Refresh, RefreshFails, NoRun, IInv
    <3>6. \A dest \in Paths, relower \in BOOLEAN : ~Begin(h, dest, relower)
      BY <1>1, <3>1 DEF Begin, Idle, Writing, NoRun
    <3>7. ~WriteNext(h)
      <4> SUFFICES ASSUME WriteNext(h) PROVE FALSE
        OBVIOUS
      <4>1. PICK next : runs' = [runs EXCEPT ![h] = [runs[h] EXCEPT !.temp = Append(@, next)]]
        BY DEF WriteNext
      <4>2. runs'[h] = [runs[h] EXCEPT !.temp = Append(@, next)]
        BY <1>1, <4>1 DEF IInv
      <4>3. runs[h] = [phase |-> "writing", dest |-> runs[h].dest, relower |-> runs[h].relower,
                       source |-> runs[h].source, temp |-> runs[h].temp, sure |-> runs[h].sure]
        BY <1>1, <3>1, WritingFacts DEF WritingOK
      <4> QED BY <3>1, <4>2, <4>3
    <3> QED BY <3>2, <3>3, <3>4, <3>5, <3>6, <3>7 DEF Rewriting
  <2>2. /\ Writing(h) /\ Finished(h)
        /\ disk'[runs[h].dest] = runs[h].temp
    BY <1>1, <2>1, WritingFacts DEF Rename, IInv, DiskOK
  <2>3. \A i \in DOMAIN jars[h].entries : Agrees(jars[h].entries[i], runs[h].source)
    BY <1>1, <2>2, WritingFacts DEF LeadsTo
  <2> QED BY <1>1, <2>2, <2>3, OutputIsArchive
<1>2. IInv /\ [Next]_vars =>
        [\A h \in Holders : Publishes(h) /\ runs[h].sure => Exact(h)]_vars
  BY <1>1
<1> QED BY <1>2, Invariance, PTL DEF Spec, FreshRewriteIsExact

-----------------------------------------------------------------------------
(* The refinement. *)

LEMMA PromiseUnmoved ==
    ASSUME NEW g, jars'[g] = jars[g], runs'[g] = runs[g]
    PROVE  Promise(g)' = Promise(g)
BY DEF Promise, Writing

\* Each step settles, publishes or abandons one output, or changes none.
LEMMA StepRefines ==
    IInv /\ [Next]_vars => [Abstract!Next]_(Abstract!vars)
<1> DEFINE job == [h \in Holders |-> Promise(h)]
<1> SUFFICES ASSUME IInv, [Next]_vars
             PROVE  Abstract!Next \/ (disk' = disk /\ job' = job)
  BY DEF Abstract!vars
<1>1. CASE UNCHANGED vars
  BY <1>1, PromiseUnmoved DEF vars
<1>2. ASSUME NEW h \in Holders, disk' = disk,
             \A g \in Holders \ {h} : jars'[g] = jars[g] /\ runs'[g] = runs[g],
             ~Writing(h)'
      PROVE  Abstract!Next
  <2>1. Promise(h)' = NoRun
    BY <1>2 DEF Promise
  <2>2. job' = [job EXCEPT ![h] = NoRun]
    BY <1>2, <2>1, PromiseUnmoved
  <2>3. Abstract!Abandon(h)
    BY <1>2, <2>2 DEF Abstract!Abandon
  <2> QED BY <2>3 DEF Abstract!Next
<1>3. ASSUME NEW h \in Holders,
             \/ \E path \in Paths : Open(h, path)
             \/ Read(h) \/ Editing(h) \/ Rewriting(h) \/ Crash(h)
      PROVE  Abstract!Next \/ (disk' = disk /\ job' = job)
  <2>1. CASE Rename(h)
    <3>1. /\ Writing(h) /\ Finished(h) /\ jars' = jars
          /\ disk' = [disk EXCEPT ![runs[h].dest] = runs[h].temp]
          /\ runs' = [runs EXCEPT ![h] = [phase |-> "renamed", dest |-> runs[h].dest]]
      BY <2>1 DEF Rename
    <3>2. Promise(h)' = NoRun
      BY <3>1 DEF Promise, Writing, IInv
    <3>3. job' = [job EXCEPT ![h] = NoRun]
      <4>1. \A g \in Holders \ {h} : Promise(g)' = Promise(g)
        BY <3>1, PromiseUnmoved DEF IInv
      <4> QED BY <3>2, <4>1
    <3>4. /\ job[h].dest = runs[h].dest
          /\ job[h].whole = [i \in DOMAIN jars[h].entries |->
                               Written(jars[h].entries[i], runs[h].source, runs[h].relower)]
          /\ job[h] # NoRun
      BY <3>1 DEF Promise, NoRun
    <3>5. /\ DOMAIN runs[h].temp = DOMAIN jars[h].entries
          /\ \A i \in DOMAIN runs[h].temp :
                /\ runs[h].temp[i] = Written(jars[h].entries[i], runs[h].source, runs[h].relower)
                /\ runs[h].temp[i] # Missing
          /\ runs[h].temp = [i \in DOMAIN runs[h].temp |-> runs[h].temp[i]]
      BY <3>1, OutputIsArchive, WritingFacts
    <3>6. job[h].whole = runs[h].temp
      BY <3>4, <3>5
    <3>7. Abstract!Publish(h)
      BY <3>1, <3>3, <3>4, <3>5, <3>6 DEF Abstract!Publish
    <3> QED BY <3>7 DEF Abstract!Next
  <2>2. ASSUME NEW dest \in Paths, NEW relower \in BOOLEAN, Begin(h, dest, relower)
        PROVE  Abstract!Next
    <3>1. /\ runs[h] = NoRun /\ UNCHANGED <<disk, jars>>
          /\ \A g \in Holders \ {h} : runs'[g] = runs[g]
      BY <2>2 DEF Begin, Idle, IInv
    <3>2. job[h] = NoRun
      BY <3>1 DEF Promise, Writing, NoRun
    <3>3. job' = [job EXCEPT ![h] = job'[h]]
      BY <3>1, PromiseUnmoved
    <3>4. Abstract!Settle(h)
      BY <3>1, <3>2, <3>3 DEF Abstract!Settle
    <3> QED BY <3>4 DEF Abstract!Next
  <2>3. CASE WriteNext(h)
    <3>1. /\ Writing(h) /\ UNCHANGED <<disk, jars>>
          /\ \A g \in Holders \ {h} : runs'[g] = runs[g]
      BY <2>3 DEF WriteNext, IInv
    <3>2. PICK next : runs'[h] = [runs[h] EXCEPT !.temp = Append(@, next)]
      BY <2>3 DEF WriteNext, IInv
    <3>3. runs[h] = [phase |-> "writing", dest |-> runs[h].dest, relower |-> runs[h].relower,
                     source |-> runs[h].source, temp |-> runs[h].temp, sure |-> runs[h].sure]
      BY <3>1, WritingFacts DEF WritingOK
    <3>4. /\ runs'[h].phase = "writing" /\ runs'[h].dest = runs[h].dest
          /\ runs'[h].source = runs[h].source /\ runs'[h].relower = runs[h].relower
      BY <3>2, <3>3
    <3>5. Promise(h)' = Promise(h)
      BY <3>1, <3>4 DEF Promise, Writing
    <3>6. job' = job
      BY <3>1, <3>5, PromiseUnmoved
    <3> QED BY <3>1, <3>6
  <2>4. CASE (\E path \in Paths : Open(h, path)) \/ Read(h) \/ Editing(h)
    <3>1. /\ disk' = disk /\ runs' = runs /\ ~Writing(h)
          /\ \A g \in Holders \ {h} : jars'[g] = jars[g]
      <4>1. ASSUME NEW path \in Paths, Open(h, path) PROVE ~Writing(h)
        BY <4>1, WritingFacts DEF Open
      <4>2. ASSUME Read(h) \/ Editing(h) PROVE ~Writing(h)
        <5>1. Idle(h)
          BY <4>2 DEF Read, Editing
        <5> QED BY <5>1 DEF Idle, Writing, NoRun
      <4> QED BY <2>4, <4>1, <4>2 DEF Open, Read, Editing, AddFile, AddDirectory, RemoveFile,
                                      Edit, IInv
    <3>2. ~Writing(h)'
      BY <3>1 DEF Writing
    <3> QED BY <1>2, <3>1, <3>2
  <2>5. CASE Fail(h) \/ Refresh(h) \/ RefreshFails(h) \/ Crash(h)
    <3>1. /\ disk' = disk /\ runs'[h] = NoRun
          /\ \A g \in Holders \ {h} : jars'[g] = jars[g] /\ runs'[g] = runs[g]
      BY <2>5 DEF Fail, Refresh, RefreshFails, Crash, IInv
    <3>2. ~Writing(h)'
      BY <3>1 DEF Writing, NoRun
    <3> QED BY <1>2, <3>1, <3>2
  <2> QED BY <1>3, <2>1, <2>2, <2>3, <2>4, <2>5 DEF Rewriting
<1> QED BY <1>1, <1>3 DEF Next

\* Through errors, deaths and rewrites of one path by several holders, a path holds
\* its old archive or a complete output that some holder promised.
THEOREM RewritesAreAlwaysAtomic == Spec => RewritesAreAtomic
<1>1. Init => Abstract!Init
  BY DEF Init, Abstract!Init, Promise, Writing, NoRun
<1> QED BY <1>1, StepRefines, Invariance, PTL DEF Spec, RewritesAreAtomic, Abstract!Spec
=============================================================================
