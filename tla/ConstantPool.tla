---------------------------- MODULE ConstantPool ----------------------------
(***************************************************************************)
(* The constant-pool builder of the engine (model/constant_pool_builder.rs) *)
(* interns class-file constants: asking twice for one constant gives one   *)
(* index.  It is a vector of slots, indexed from 0, and a map from keys to *)
(* indices.  Slot 0 is never used, a Long or Double takes two slots, and   *)
(* a compound constant refers to its parts by index.                       *)
(*                                                                         *)
(* A PoolKey holds exactly the fields of the entry it is made from, so     *)
(* keys and entries are the same records here.                             *)
(***************************************************************************)
EXTENDS Naturals, FiniteSets

CONSTANTS
    Strings,        \* texts a caller interns
    LongStrings,    \* those of them whose encoding exceeds UTF8_MAX_BYTES
    Owners,         \* those that name the class of a member
    Signatures,     \* the pairs of a name and a descriptor
    Numbers,        \* number payloads: constants, handle kinds, bootstrap indices
    Tags,           \* the kinds of constant in use
    HandleTargets,  \* indices a caller passes to add_method_handle
    MaxIndex,       \* CP_MAX_SINGLE_INDEX, the last usable slot
    RawPools,       \* pools read from class files
    NoEntry,        \* an unused slot
    NoData          \* the payload of an entry that has none

VARIABLES
    pool,   \* the builder
    mark,   \* the length a caller noted, to truncate to
    saved   \* history: the builder at that moment

vars == <<pool, mark, saved>>

-----------------------------------------------------------------------------
(* Entries. *)

WideTags == {"Long", "Double"}
LeafTags == {"Integer", "Float"} \cup WideTags
NamedTags == {"Class", "String", "MethodType", "Module", "Package"}
MemberTags == {"FieldRef", "MethodRef", "InterfaceMethodRef"}
DynamicTags == {"Dynamic", "InvokeDynamic"}
AllTags == {"Utf8", "NameAndType", "MethodHandle"} \cup LeafTags \cup NamedTags
             \cup MemberTags \cup DynamicTags

Slots == 0..MaxIndex
NoIndex == MaxIndex + 1     \* an error, or a key that is not in the map

\* a and b are the indices of the parts, 0 where the tag has no such part.
Utf8(s) == [tag |-> "Utf8", data |-> s, a |-> 0, b |-> 0]
Leaf(tag, n) == [tag |-> tag, data |-> n, a |-> 0, b |-> 0]
Part(tag, data, a) == [tag |-> tag, data |-> data, a |-> a, b |-> 0]
Pair(tag, a, b) == [tag |-> tag, data |-> NoData, a |-> a, b |-> b]

Entry ==
    {Utf8(s) : s \in Strings}
    \cup {Leaf(t, n) : t \in LeafTags, n \in Numbers}
    \cup {Part(t, NoData, i) : t \in NamedTags, i \in Slots}
    \cup {Part(t, n, i) : t \in DynamicTags \cup {"MethodHandle"}, n \in Numbers, i \in Slots}
    \cup {Pair(t, i, j) : t \in MemberTags \cup {"NameAndType"}, i \in Slots, j \in Slots}

IsWide(e) == e.tag \in WideTags

\* A wrong limit: one bound for both widths.
OneLimit(e) == MaxIndex

\* The last index at which an entry of this width may start.
CP_MAX_INDEX(e) == IF IsWide(e) THEN MaxIndex - 1 ELSE MaxIndex

-----------------------------------------------------------------------------
(* The builder: len is Vec::len of the slots, slots from len on do not      *)
(* exist and are kept at NoEntry.                                          *)

LiveSlots(p) == {i \in 1..(p.len - 1) : p.entries[i] # NoEntry}

NewPool == [len |-> 1, entries |-> [i \in Slots |-> NoEntry], index |-> [k \in {} |-> 0]]

Least(S) == CHOOSE i \in S : \A j \in S : i <= j

\* First pass of from_pool: of equal entries, the lowest is the canonical one.
RawIndex(r) ==
    [k \in {r.entries[i] : i \in LiveSlots(r)} |->
        Least({i \in LiveSlots(r) : r.entries[i] = k})]

\* A wrong second pass: the parts stay as they are stored.
AsStored(r, e) == e

\* The canonical slot of what a slot holds.
Remap(r, i) == IF i \in LiveSlots(r) THEN RawIndex(r)[r.entries[i]] ELSE i

\* The entry with each part replaced by the canonical slot of that part.  It
\* looks one level down: the parts of the parts stay as they are.
Canonical(r, e) ==
    [tag |-> e.tag, data |-> e.data, a |-> Remap(r, e.a), b |-> Remap(r, e.b)]

\* The parts of the constants that other constants refer to are stored once, or
\* referred to by their canonical slot: one level down is then far enough.  A
\* handle's target does not count.
Flat(r) ==
    \A i \in LiveSlots(r) :
        LET e == r.entries[i]
        IN  e.tag # "MethodHandle"
              => \A j \in {e.a, e.b} \cap LiveSlots(r) : Canonical(r, r.entries[j]) = r.entries[j]

FromPool(r) ==
    LET raw == RawIndex(r)
        canonical == {Canonical(r, r.entries[i]) : i \in LiveSlots(r)}
    IN  [len |-> r.len, entries |-> r.entries,
         index |-> [k \in DOMAIN raw \cup canonical |->
            IF k \in DOMAIN raw
            THEN raw[k]
            ELSE Least({i \in LiveSlots(r) : Canonical(r, r.entries[i]) = k})]]

Lookup(p, k) == IF k \in DOMAIN p.index THEN p.index[k] ELSE NoIndex

Push(p, e) ==
    [len |-> p.len + (IF IsWide(e) THEN 2 ELSE 1),
     entries |-> [p.entries EXCEPT ![p.len] = e],
     index |-> [k \in DOMAIN p.index \cup {e} |-> IF k = e THEN p.len ELSE p.index[k]]]

\* A wrong truncate: the keys of the dropped slots stay in the map.
TruncatedSlots(p, n) ==
    IF n < p.len
    THEN [len |-> n,
          entries |-> [i \in Slots |-> IF i < n THEN p.entries[i] ELSE NoEntry],
          index |-> p.index]
    ELSE p

Truncated(p, n) ==
    IF n < p.len
    THEN [len |-> n,
          entries |-> [i \in Slots |-> IF i < n THEN p.entries[i] ELSE NoEntry],
          index |-> [k \in {k \in DOMAIN p.index : p.index[k] < n} |-> p.index[k]]]
    ELSE p

-----------------------------------------------------------------------------
(* The add_* methods: each returns the builder after the call and the index *)
(* or NoIndex.  A compound add that fails keeps the parts it has added.     *)

Result(p, i) == [pool |-> p, index |-> i]

\* A wrong add: it appends without asking the map.
AppendEntry(p, e) ==
    IF p.len > CP_MAX_INDEX(e) THEN Result(p, NoIndex) ELSE Result(Push(p, e), p.len)

AddEntry(p, e) ==
    IF e \in DOMAIN p.index THEN Result(p, p.index[e])
    ELSE IF p.len > CP_MAX_INDEX(e) THEN Result(p, NoIndex)
    ELSE Result(Push(p, e), p.len)

AddUtf8(p, s) == IF s \in LongStrings THEN Result(p, NoIndex) ELSE AddEntry(p, Utf8(s))

AddNamed(p, tag, s) ==
    LET name == AddUtf8(p, s)
    IN  IF name.index = NoIndex THEN name
        ELSE AddEntry(name.pool, Part(tag, NoData, name.index))

AddNameAndType(p, n, d) ==
    LET name == AddUtf8(p, n)
        desc == AddUtf8(name.pool, d)
    IN  IF name.index = NoIndex THEN name
        ELSE IF desc.index = NoIndex THEN desc
        ELSE AddEntry(desc.pool, Pair("NameAndType", name.index, desc.index))

AddMember(p, tag, o, n, d) ==
    LET owner == AddNamed(p, "Class", o)
        nat == AddNameAndType(owner.pool, n, d)
    IN  IF owner.index = NoIndex THEN owner
        ELSE IF nat.index = NoIndex THEN nat
        ELSE AddEntry(nat.pool, Pair(tag, owner.index, nat.index))

AddDynamic(p, tag, bsm, n, d) ==
    LET nat == AddNameAndType(p, n, d)
    IN  IF nat.index = NoIndex THEN nat
        ELSE AddEntry(nat.pool, Part(tag, bsm, nat.index))

-----------------------------------------------------------------------------
(* The find_* methods: the same path through the map, adding nothing.  (The  *)
(* builder has no find for InvokeDynamic, Module and Package: for those the  *)
(* operators below only look where add_* would.)                            *)

FindUtf8(p, s) == Lookup(p, Utf8(s))

FindNamed(p, tag, s) ==
    LET name == FindUtf8(p, s)
    IN  IF name = NoIndex THEN NoIndex ELSE Lookup(p, Part(tag, NoData, name))

FindNameAndType(p, n, d) ==
    LET name == FindUtf8(p, n)
        desc == FindUtf8(p, d)
    IN  IF NoIndex \in {name, desc} THEN NoIndex
        ELSE Lookup(p, Pair("NameAndType", name, desc))

FindMember(p, tag, o, n, d) ==
    LET owner == FindNamed(p, "Class", o)
        nat == FindNameAndType(p, n, d)
    IN  IF NoIndex \in {owner, nat} THEN NoIndex ELSE Lookup(p, Pair(tag, owner, nat))

FindDynamic(p, tag, bsm, n, d) ==
    LET nat == FindNameAndType(p, n, d)
    IN  IF nat = NoIndex THEN NoIndex ELSE Lookup(p, Part(tag, bsm, nat))

-----------------------------------------------------------------------------
(* A constant as its caller names it, and the methods by kind of constant.  *)

Values ==
    {<<"Utf8", s>> : s \in Strings}
    \cup {<<t, n>> : t \in Tags \cap LeafTags, n \in Numbers}
    \cup {<<t, s>> : t \in Tags \cap NamedTags, s \in Strings}
    \cup {<<"NameAndType", x[1], x[2]>> : x \in Signatures}
    \cup {<<t, o, x[1], x[2]>> : t \in Tags \cap MemberTags, o \in Owners, x \in Signatures}
    \cup {<<t, m, x[1], x[2]>> : t \in Tags \cap DynamicTags, m \in Numbers, x \in Signatures}
    \cup {<<t, k, i>> : t \in Tags \cap {"MethodHandle"}, k \in Numbers, i \in HandleTargets}

AddValue(p, v) ==
    CASE v[1] = "Utf8" -> AddUtf8(p, v[2])
      [] v[1] \in LeafTags -> AddEntry(p, Leaf(v[1], v[2]))
      [] v[1] \in NamedTags -> AddNamed(p, v[1], v[2])
      [] v[1] = "NameAndType" -> AddNameAndType(p, v[2], v[3])
      [] v[1] \in MemberTags -> AddMember(p, v[1], v[2], v[3], v[4])
      [] v[1] \in DynamicTags -> AddDynamic(p, v[1], v[2], v[3], v[4])
      [] v[1] = "MethodHandle" -> AddEntry(p, Part(v[1], v[2], v[3]))

Find(p, v) ==
    CASE v[1] = "Utf8" -> FindUtf8(p, v[2])
      [] v[1] \in LeafTags -> Lookup(p, Leaf(v[1], v[2]))
      [] v[1] \in NamedTags -> FindNamed(p, v[1], v[2])
      [] v[1] = "NameAndType" -> FindNameAndType(p, v[2], v[3])
      [] v[1] \in MemberTags -> FindMember(p, v[1], v[2], v[3], v[4])
      [] v[1] \in DynamicTags -> FindDynamic(p, v[1], v[2], v[3], v[4])
      [] v[1] = "MethodHandle" -> Lookup(p, Part(v[1], v[2], v[3]))

-----------------------------------------------------------------------------
(* The resolve_* methods: what a slot stands for.  An index that does not   *)
(* lead to an entry of the expected kind resolves to NoData, an error.      *)

Holds(p, i, tag) == i \in LiveSlots(p) /\ p.entries[i].tag = tag

Text(p, i) == IF Holds(p, i, "Utf8") THEN p.entries[i].data ELSE NoData

ClassName(p, i) == IF Holds(p, i, "Class") THEN Text(p, p.entries[i].a) ELSE NoData

Name(p, i) == IF Holds(p, i, "NameAndType") THEN Text(p, p.entries[i].a) ELSE NoData

Descriptor(p, i) == IF Holds(p, i, "NameAndType") THEN Text(p, p.entries[i].b) ELSE NoData

Meaning(p, i) ==
    LET e == p.entries[i]
    IN  IF i \notin LiveSlots(p) THEN <<NoData>> ELSE
        CASE e.tag = "Utf8" \/ e.tag \in LeafTags -> <<e.tag, e.data>>
          [] e.tag \in NamedTags -> <<e.tag, Text(p, e.a)>>
          [] e.tag = "NameAndType" -> <<e.tag, Text(p, e.a), Text(p, e.b)>>
          [] e.tag \in MemberTags ->
                <<e.tag, ClassName(p, e.a), Name(p, e.b), Descriptor(p, e.b)>>
          [] e.tag \in DynamicTags -> <<e.tag, e.data, Name(p, e.a), Descriptor(p, e.a)>>
          [] e.tag = "MethodHandle" -> <<e.tag, e.data, e.a>>

\* Two slots that hold one entry; two constants that differ at most in naming
\* a handle's target by one or the other of such slots.
Same(p, i, j) ==
    \/ i = j
    \/ i \in LiveSlots(p) /\ j \in LiveSlots(p) /\ p.entries[i] = p.entries[j]

Alike(p, v, w) ==
    \/ v = w
    \/ /\ v[1] = "MethodHandle" /\ w[1] = "MethodHandle"
       /\ v[2] = w[2]
       /\ Same(p, v[3], w[3])

-----------------------------------------------------------------------------
(* Initial states and steps. *)

Init ==
    /\ pool \in {NewPool} \cup {FromPool(r) : r \in RawPools}
    /\ mark = pool.len
    /\ saved = pool

\* One call of an add_* method; it may fail and still leave parts in the pool.
Add(v) ==
    /\ pool' = AddValue(pool, v).pool
    /\ UNCHANGED <<mark, saved>>

\* len() counts the entries in use: not slot 0, and not the second slots.
LiveCount(p) == Cardinality(LiveSlots(p))

\* A wrong caller: it notes len() where truncate wants a number of slots.
NoteLiveCount ==
    /\ mark' = LiveCount(pool)
    /\ saved' = pool
    /\ UNCHANGED pool

\* A caller notes count(), the number of slots.
NoteCount ==
    /\ mark' = pool.len
    /\ saved' = pool
    /\ UNCHANGED pool

Truncate ==
    /\ pool' = Truncated(pool, mark)
    /\ UNCHANGED <<mark, saved>>

Next ==
    \/ \E v \in Values : Add(v)
    \/ NoteCount
    \/ Truncate

Spec == Init /\ [][Next]_vars

-----------------------------------------------------------------------------
(* What the class-file writer asks of a pool before it writes it.           *)

WideAt(p, i) == p.entries[i] # NoEntry /\ IsWide(p.entries[i])

Writable(p) ==
    /\ p.len \in 1..NoIndex
    /\ p.entries[0] = NoEntry
    /\ \A i \in 1..(p.len - 1) : p.entries[i] = NoEntry <=> i > 1 /\ WideAt(p, i - 1)
    /\ ~WideAt(p, p.len - 1)

-----------------------------------------------------------------------------
(* Assumptions. *)

ASSUME MaxIndexPositive == MaxIndex \in Nat \ {0}

ASSUME SentinelsApart == NoEntry \notin Entry /\ NoData \notin Strings \cup Numbers

ASSUME CallersInput ==
    /\ LongStrings \subseteq Strings
    /\ Owners \subseteq Strings
    /\ Signatures \subseteq Strings \X Strings
    /\ HandleTargets \subseteq Slots
    /\ Tags \subseteq AllTags

\* What the reader builds from a class file.  It also accepts a file that ends
\* its pool in the first half of a Long, which the writer then refuses before
\* and after any add: those files are left out.
ASSUME PoolsRead ==
    \A r \in RawPools :
        /\ r.len \in 1..NoIndex
        /\ r.entries \in [Slots -> Entry \cup {NoEntry}]
        /\ \A i \in Slots : i >= r.len => r.entries[i] = NoEntry
        /\ Writable(r)

-----------------------------------------------------------------------------
(* Properties. *)

PoolOK(p) ==
    /\ p.len \in 0..NoIndex
    /\ p.entries \in [Slots -> Entry \cup {NoEntry}]
    /\ \A i \in Slots : i >= p.len => p.entries[i] = NoEntry
    /\ p.index \in [DOMAIN p.index -> Slots]
    /\ DOMAIN p.index \subseteq Entry
    /\ \A k \in DOMAIN p.index : p.index[k] \in LiveSlots(p)

\* The type invariant: slots past the end are empty, and the map's keys lead to
\* slots in use (add_entry and truncate keep the vector and the map together).
TypeOK ==
    /\ PoolOK(pool)
    /\ PoolOK(saved)
    /\ mark \in 0..NoIndex

\* Whatever was added, refused or truncated, the writer accepts the pool: a
\* Long or Double is followed by an empty slot, no other slot is empty, and the
\* number of slots fits the u16 that count() casts it to (at the limit too).
WriterAccepts == Writable(pool)

\* The index that a lookup finds for a constant resolves to that constant: no
\* key is left over from a truncated pool, and an alias key that from_pool made
\* leads to an equal constant.
FindResolves ==
    \A v \in Values :
        LET i == Find(pool, v) IN i # NoIndex => Alike(pool, Meaning(pool, i), v)

\* Truncating to a noted number of slots gives back the noted builder, slots
\* and map, however many adds succeeded, failed or failed half-way since.
RollbackRestores == Truncated(pool, mark) = saved

\* A constant that is in the pool already is never added again, at any level of
\* a compound add: the comment in from_pool that no duplicate is added.
AddsNoDuplicate ==
    [][\A i \in LiveSlots(pool') \ LiveSlots(pool), j \in LiveSlots(pool') :
            j < i => Meaning(pool', j) # Meaning(pool', i)]_vars

-----------------------------------------------------------------------------
(* What a builder is to its callers.                                        *)

\* The table a builder holds; handles are left out, as two of them may name
\* equal targets by different slots and then share an index.
Interned == {v \in Values : v[1] # "MethodHandle"}
TableOf(p) == {x \in {<<v, Find(p, v)>> : v \in Interned} : x[2] # NoIndex}

I == INSTANCE Interning WITH table <- TableOf(pool), kept <- TableOf(saved)

\* Every add, note and truncate is a step of the interning table: an index once
\* given keeps its constant, two constants never share one, and an add that
\* fails, at the first part or the last, takes nothing back.
Interns == I!Spec
=============================================================================
