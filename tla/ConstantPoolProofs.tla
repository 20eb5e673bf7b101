------------------------- MODULE ConstantPoolProofs -------------------------
(***************************************************************************)
(* Theorems about ConstantPool for every set of strings, owners, numbers    *)
(* and pools, and every size of the pool: the builder's invariant, that it   *)
(* implements Interning, and that it does not grow by what it has.          *)
(***************************************************************************)
EXTENDS ConstantPool, Induction

-----------------------------------------------------------------------------
(* The builder's own invariant. *)

\* A key leads to an entry with the same contents, up to parts that are equal
\* entries in other slots (the alias keys of from_pool).
Links(p) ==
    \A k \in DOMAIN p.index :
        LET e == p.entries[p.index[k]]
        IN  k.tag = e.tag /\ k.data = e.data /\ Same(p, k.a, e.a) /\ Same(p, k.b, e.b)

IsPool(p) ==
    /\ p = [len |-> p.len, entries |-> p.entries, index |-> p.index]
    /\ PoolOK(p)
    /\ Writable(p)
    /\ Links(p)

\* q is p with more slots: cut back to any length p had, it is p cut back.
Continues(p, q) ==
    /\ IsPool(q)
    /\ p.len <= q.len
    /\ \A n \in 1..p.len : Truncated(q, n) = Truncated(p, n)

\* What an add returns.
Outcome(p, r) ==
    /\ Continues(p, r.pool)
    /\ r.index \in Slots \cup {NoIndex}

LEMMA ContinuesReflexive ==
    ASSUME NEW p, IsPool(p) PROVE Continues(p, p)
<1>1. p.len \in Nat
  BY MaxIndexPositive DEF IsPool, PoolOK, NoIndex
<1> QED BY <1>1 DEF Continues

LEMMA ContinuesTransitive ==
    ASSUME NEW p, NEW q, NEW r, IsPool(p), Continues(p, q), Continues(q, r)
    PROVE Continues(p, r)
<1>1. p.len \in Nat /\ q.len \in Nat /\ r.len \in Nat
  BY MaxIndexPositive DEF Continues, IsPool, PoolOK, NoIndex
<1>2. p.len <= r.len
  BY <1>1 DEF Continues
<1>3. ASSUME NEW n \in 1..p.len PROVE Truncated(r, n) = Truncated(p, n)
  <2>1. n \in 1..q.len BY <1>1 DEF Continues
  <2> QED BY <2>1 DEF Continues
<1> QED BY <1>2, <1>3 DEF Continues

LEMMA PushContinues ==
    ASSUME NEW p, IsPool(p), NEW e \in Entry, e \notin DOMAIN p.index,
           p.len <= CP_MAX_INDEX(e)
    PROVE Continues(p, Push(p, e))
<1> DEFINE q == Push(p, e)
<1>1. /\ p.len \in 1..MaxIndex
      /\ IsWide(e) => p.len \in 1..(MaxIndex - 1)
  BY MaxIndexPositive DEF IsPool, Writable, NoIndex, CP_MAX_INDEX
<1>2. q.len = p.len + (IF IsWide(e) THEN 2 ELSE 1) /\ q.len \in 2..NoIndex
  BY <1>1, MaxIndexPositive DEF Push, NoIndex
<1>3. /\ q.entries = [p.entries EXCEPT ![p.len] = e]
      /\ p.entries \in [Slots -> Entry \cup {NoEntry}]
      /\ q.entries \in [Slots -> Entry \cup {NoEntry}]
      /\ q.entries[p.len] = e
      /\ \A i \in Slots : i # p.len => q.entries[i] = p.entries[i]
  BY <1>1, MaxIndexPositive DEF Push, IsPool, PoolOK, Slots
<1>4. \A i \in Slots : i >= p.len => p.entries[i] = NoEntry
  BY DEF IsPool, PoolOK
<1>5. e # NoEntry
  BY SentinelsApart
<1>6. LiveSlots(q) = LiveSlots(p) \cup {p.len}
  BY <1>1, <1>2, <1>3, <1>4, <1>5, MaxIndexPositive DEF LiveSlots, Slots, NoIndex
<1>7. /\ DOMAIN q.index = DOMAIN p.index \cup {e}
      /\ q.index[e] = p.len
      /\ \A k \in DOMAIN p.index : q.index[k] = p.index[k] /\ p.index[k] \in LiveSlots(p)
      /\ q.index = [k \in DOMAIN q.index |-> q.index[k]]
  BY DEF Push, IsPool, PoolOK
<1>8. PoolOK(q)
  <2>1. \A k \in DOMAIN q.index : q.index[k] \in LiveSlots(q)
    BY <1>6, <1>7
  <2>2. LiveSlots(q) \subseteq Slots
    BY <1>2, MaxIndexPositive DEF LiveSlots, Slots, NoIndex
  <2>3. q.index \in [DOMAIN q.index -> Slots]
    BY <2>1, <2>2, <1>7
  <2>4. DOMAIN q.index \subseteq Entry
    BY <1>7 DEF IsPool, PoolOK
  <2>5. \A i \in Slots : i >= q.len => q.entries[i] = NoEntry
    BY <1>1, <1>2, <1>3, <1>4 DEF Slots
  <2>6. q.len \in 0..NoIndex
    BY <1>2, MaxIndexPositive DEF NoIndex
  <2> QED BY <2>1, <2>3, <2>4, <2>5, <2>6, <1>3 DEF PoolOK
<1>9. Writable(q)
  <2>1. q.entries[0] = NoEntry
    BY <1>1, <1>3, MaxIndexPositive DEF IsPool, Writable, Slots
  <2>2. ~WideAt(q, q.len - 1)
    BY SMTT(30), <1>1, <1>2, <1>3, <1>4, <1>5, MaxIndexPositive DEF WideAt, Slots, NoIndex
  <2>3. ASSUME NEW i \in 1..(q.len - 1)
        PROVE q.entries[i] = NoEntry <=> i > 1 /\ WideAt(q, i - 1)
    <3>1. CASE i < p.len
      BY SMTT(30), <3>1, <1>1, <1>2, <1>3, MaxIndexPositive DEF WideAt, Slots, NoIndex, IsPool, Writable
    <3>2. CASE i = p.len
      <4>1. ~WideAt(p, p.len - 1)
        BY DEF IsPool, Writable
      <4>2. q.entries[p.len - 1] = p.entries[p.len - 1]
        BY <1>1, <1>3, MaxIndexPositive DEF Slots
      <4> QED BY <4>1, <4>2, <3>2, <1>3, <1>5 DEF WideAt
    <3>3. CASE i = p.len + 1
      <4>1. IsWide(e) /\ i \in Slots /\ i > 1 /\ i - 1 = p.len
        BY <3>3, <1>1, <1>2, MaxIndexPositive DEF Slots, NoIndex
      <4> QED BY <4>1, <3>3, <1>1, <1>3, <1>4, <1>5 DEF WideAt
    <3> QED BY <3>1, <3>2, <3>3, <1>1, <1>2
  <2>4. q.len \in 1..NoIndex
    BY <1>2, MaxIndexPositive DEF NoIndex
  <2> QED BY <2>1, <2>2, <2>3, <2>4 DEF Writable
<1>10. ASSUME NEW n \in 1..p.len PROVE Truncated(q, n) = Truncated(p, n)
  <2>1. n < q.len
    BY <1>1, <1>2
  <2> DEFINE cut == [i \in Slots |-> IF i < n THEN p.entries[i] ELSE NoEntry]
             keys == {k \in DOMAIN p.index : p.index[k] < n}
  <2>2. [i \in Slots |-> IF i < n THEN q.entries[i] ELSE NoEntry] = cut
    BY <1>1, <1>3 DEF Slots
  <2>3. {k \in DOMAIN q.index : q.index[k] < n} = keys
    BY <1>1, <1>7
  <2>4. [k \in keys |-> q.index[k]] = [k \in keys |-> p.index[k]]
    BY <1>7
  <2>5. Truncated(q, n) = [len |-> n, entries |-> cut, index |-> [k \in keys |-> p.index[k]]]
    BY <2>1, <2>2, <2>3, <2>4 DEF Truncated
  <2>6. CASE n < p.len
    BY <2>5, <2>6 DEF Truncated
  <2>7. CASE n = p.len
    <3>1. cut = p.entries
      <4>1. \A i \in Slots : (IF i < n THEN p.entries[i] ELSE NoEntry) = p.entries[i]
        BY <2>7, <1>1, <1>4, MaxIndexPositive DEF Slots
      <4>2. p.entries = [i \in Slots |-> p.entries[i]]
        BY <1>3
      <4> QED BY <4>1, <4>2
    <3>2. keys = DOMAIN p.index
      BY <2>7, <1>1, <1>7 DEF LiveSlots
    <3>3. [k \in keys |-> p.index[k]] = p.index
      BY <3>2 DEF IsPool, PoolOK
    <3>4. ~(n < p.len) /\ p = [len |-> p.len, entries |-> p.entries, index |-> p.index]
      BY <2>7, <1>1 DEF IsPool
    <3> QED BY <3>1, <3>3, <3>4, <2>5, <2>7 DEF Truncated
  <2> QED BY <2>6, <2>7, <1>1
<1>11. q = [len |-> q.len, entries |-> q.entries, index |-> q.index]
  BY DEF Push
<1>12. p.len <= q.len
  BY <1>1, <1>2
<1>13. Links(q)
  <2> HIDE DEF q
  <2>1. \A i \in LiveSlots(p) : i \in LiveSlots(q) /\ q.entries[i] = p.entries[i]
    BY <1>1, <1>3, <1>6, MaxIndexPositive DEF LiveSlots, Slots
  <2>2. \A i, j : Same(p, i, j) => Same(q, i, j)
    BY <2>1 DEF Same
  <2>3. ASSUME NEW k \in DOMAIN p.index
        PROVE LET f == q.entries[q.index[k]]
              IN  k.tag = f.tag /\ k.data = f.data /\ Same(q, k.a, f.a) /\ Same(q, k.b, f.b)
    BY <2>1, <2>2, <1>7 DEF IsPool, Links
  <2>4. q.entries[q.index[e]] = e /\ \A i : Same(q, i, i)
    BY <1>3, <1>7 DEF Same
  <2> QED BY <2>3, <2>4, <1>7 DEF Links
<1> QED BY <1>8, <1>9, <1>10, <1>11, <1>12, <1>13 DEF Continues, IsPool

-----------------------------------------------------------------------------
(* The adds. *)

LEMMA AddEntryOutcome ==
    ASSUME NEW p, IsPool(p), NEW e \in Entry PROVE Outcome(p, AddEntry(p, e))
<1>1. CASE e \in DOMAIN p.index
  <2>1. p.index[e] \in Slots
    BY <1>1 DEF IsPool, PoolOK
  <2> QED BY <2>1, <1>1, ContinuesReflexive DEF AddEntry, Result, Outcome
<1>2. CASE e \notin DOMAIN p.index /\ p.len > CP_MAX_INDEX(e)
  BY <1>2, ContinuesReflexive DEF AddEntry, Result, Outcome
<1>3. CASE e \notin DOMAIN p.index /\ ~(p.len > CP_MAX_INDEX(e))
  <2>1. p.len \in 1..NoIndex /\ CP_MAX_INDEX(e) \in Nat /\ CP_MAX_INDEX(e) <= MaxIndex
    BY MaxIndexPositive DEF IsPool, Writable, CP_MAX_INDEX
  <2>2. p.len <= CP_MAX_INDEX(e) /\ p.len \in Slots
    BY <2>1, <1>3, MaxIndexPositive DEF NoIndex, Slots
  <2>3. Continues(p, Push(p, e))
    BY <2>2, <1>3, PushContinues
  <2> QED BY <2>2, <2>3, <1>3 DEF AddEntry, Result, Outcome
<1> QED BY <1>1, <1>2, <1>3

\* An add that goes on from an earlier one is an add to the pool it began with.
LEMMA OutcomeThen ==
    ASSUME NEW p, NEW r, NEW t, IsPool(p), Outcome(p, r), Outcome(r.pool, t)
    PROVE Outcome(p, t)
BY ContinuesTransitive DEF Outcome

LEMMA OutcomeIsPool ==
    ASSUME NEW p, NEW r, Outcome(p, r), r.index # NoIndex
    PROVE IsPool(r.pool) /\ r.index \in Slots
BY DEF Outcome, Continues

LEMMA EntryTypes ==
    /\ \A s \in Strings : Utf8(s) \in Entry
    /\ \A t \in LeafTags, n \in Numbers : Leaf(t, n) \in Entry
    /\ \A t \in NamedTags, i \in Slots : Part(t, NoData, i) \in Entry
    /\ \A t \in DynamicTags, n \in Numbers, i \in Slots : Part(t, n, i) \in Entry
    /\ \A n \in Numbers, i \in Slots : Part("MethodHandle", n, i) \in Entry
    /\ \A t \in MemberTags \cup {"NameAndType"}, i, j \in Slots : Pair(t, i, j) \in Entry
<1>1. \A s \in Strings : Utf8(s) \in Entry
  BY DEF Entry
<1>2. \A t \in LeafTags, n \in Numbers : Leaf(t, n) \in Entry
  BY DEF Entry
<1>3. \A t \in NamedTags, i \in Slots : Part(t, NoData, i) \in Entry
  BY DEF Entry
<1>4. \A t \in DynamicTags, n \in Numbers, i \in Slots : Part(t, n, i) \in Entry
  BY DEF Entry
<1>5. \A n \in Numbers, i \in Slots : Part("MethodHandle", n, i) \in Entry
  BY DEF Entry
<1>6. \A t \in MemberTags \cup {"NameAndType"}, i, j \in Slots : Pair(t, i, j) \in Entry
  BY DEF Entry
<1> QED BY <1>1, <1>2, <1>3, <1>4, <1>5, <1>6

LEMMA AddUtf8Outcome ==
    ASSUME NEW p, IsPool(p), NEW s \in Strings PROVE Outcome(p, AddUtf8(p, s))
BY AddEntryOutcome, ContinuesReflexive, EntryTypes DEF AddUtf8, Outcome, Result

LEMMA AddNamedOutcome ==
    ASSUME NEW p, IsPool(p), NEW s \in Strings, NEW t \in NamedTags
    PROVE Outcome(p, AddNamed(p, t, s))
<1> DEFINE name == AddUtf8(p, s)
<1>1. Outcome(p, name)
  BY AddUtf8Outcome
<1>2. ASSUME name.index # NoIndex
      PROVE Outcome(p, AddEntry(name.pool, Part(t, NoData, name.index)))
  <2>1. IsPool(name.pool) /\ name.index \in Slots
    BY <1>1, <1>2, OutcomeIsPool
  <2>2. Outcome(name.pool, AddEntry(name.pool, Part(t, NoData, name.index)))
    BY <2>1, AddEntryOutcome, EntryTypes
  <2> HIDE DEF name
  <2> QED BY <2>2, <1>1, OutcomeThen
<1> QED BY <1>1, <1>2 DEF AddNamed

LEMMA AddNameAndTypeOutcome ==
    ASSUME NEW p, IsPool(p), NEW n \in Strings, NEW d \in Strings
    PROVE Outcome(p, AddNameAndType(p, n, d))
<1> DEFINE name == AddUtf8(p, n)
           desc == AddUtf8(name.pool, d)
           whole == AddEntry(desc.pool, Pair("NameAndType", name.index, desc.index))
<1>1. Outcome(p, name)
  BY AddUtf8Outcome
<1>2. ASSUME name.index # NoIndex PROVE name.index \in Slots /\ Outcome(p, desc)
  <2>1. IsPool(name.pool) /\ name.index \in Slots
    BY <1>1, <1>2, OutcomeIsPool
  <2>2. Outcome(name.pool, desc)
    BY <2>1, AddUtf8Outcome
  <2> HIDE DEF name, desc
  <2> QED BY <2>1, <2>2, <1>1, OutcomeThen
<1>3. ASSUME name.index # NoIndex, desc.index # NoIndex PROVE Outcome(p, whole)
  <2>1. IsPool(desc.pool) /\ desc.index \in Slots
    BY <1>2, <1>3, OutcomeIsPool
  <2>2. Outcome(desc.pool, whole)
    BY <2>1, <1>2, <1>3, AddEntryOutcome, EntryTypes
  <2> HIDE DEF name, desc, whole
  <2> QED BY <2>2, <1>2, <1>3, OutcomeThen
<1> QED BY <1>1, <1>2, <1>3 DEF AddNameAndType

LEMMA AddMemberOutcome ==
    ASSUME NEW p, IsPool(p), NEW t \in MemberTags,
           NEW o \in Strings, NEW n \in Strings, NEW d \in Strings
    PROVE Outcome(p, AddMember(p, t, o, n, d))
<1> DEFINE owner == AddNamed(p, "Class", o)
           nat == AddNameAndType(owner.pool, n, d)
           whole == AddEntry(nat.pool, Pair(t, owner.index, nat.index))
<1>1. Outcome(p, owner)
  BY AddNamedOutcome DEF NamedTags
<1>2. ASSUME owner.index # NoIndex PROVE owner.index \in Slots /\ Outcome(p, nat)
  <2>1. IsPool(owner.pool) /\ owner.index \in Slots
    BY <1>1, <1>2, OutcomeIsPool
  <2>2. Outcome(owner.pool, nat)
    BY <2>1, AddNameAndTypeOutcome
  <2> HIDE DEF owner, nat
  <2> QED BY <2>1, <2>2, <1>1, OutcomeThen
<1>3. ASSUME owner.index # NoIndex, nat.index # NoIndex PROVE Outcome(p, whole)
  <2>1. IsPool(nat.pool) /\ nat.index \in Slots
    BY <1>2, <1>3, OutcomeIsPool
  <2>2. Outcome(nat.pool, whole)
    BY <2>1, <1>2, <1>3, AddEntryOutcome, EntryTypes
  <2> HIDE DEF owner, nat, whole
  <2> QED BY <2>2, <1>2, <1>3, OutcomeThen
<1> QED BY <1>1, <1>2, <1>3 DEF AddMember

LEMMA AddDynamicOutcome ==
    ASSUME NEW p, IsPool(p), NEW t \in DynamicTags,
           NEW m \in Numbers, NEW n \in Strings, NEW d \in Strings
    PROVE Outcome(p, AddDynamic(p, t, m, n, d))
<1> DEFINE nat == AddNameAndType(p, n, d)
           whole == AddEntry(nat.pool, Part(t, m, nat.index))
<1>1. Outcome(p, nat)
  BY AddNameAndTypeOutcome
<1>2. ASSUME nat.index # NoIndex PROVE Outcome(p, whole)
  <2>1. IsPool(nat.pool) /\ nat.index \in Slots
    BY <1>1, <1>2, OutcomeIsPool
  <2>2. Outcome(nat.pool, whole)
    BY <2>1, AddEntryOutcome, EntryTypes
  <2> HIDE DEF nat, whole
  <2> QED BY <2>2, <1>1, OutcomeThen
<1> QED BY <1>1, <1>2 DEF AddDynamic

\* AddValue takes the method of the constant's kind.
LEMMA AddValueCases ==
    ASSUME NEW p, NEW v, NEW t, v[1] = t
    PROVE  /\ t = "Utf8" => AddValue(p, v) = AddUtf8(p, v[2])
           /\ t \in LeafTags => AddValue(p, v) = AddEntry(p, Leaf(t, v[2]))
           /\ t \in NamedTags => AddValue(p, v) = AddNamed(p, t, v[2])
           /\ t = "NameAndType" => AddValue(p, v) = AddNameAndType(p, v[2], v[3])
           /\ t \in MemberTags => AddValue(p, v) = AddMember(p, t, v[2], v[3], v[4])
           /\ t \in DynamicTags => AddValue(p, v) = AddDynamic(p, t, v[2], v[3], v[4])
           /\ t = "MethodHandle" => AddValue(p, v) = AddEntry(p, Part(t, v[2], v[3]))
BY DEF AddValue, LeafTags, WideTags, NamedTags, MemberTags, DynamicTags

LEMMA AddValueOutcome ==
    ASSUME NEW p, IsPool(p), NEW v \in Values PROVE Outcome(p, AddValue(p, v))
<1>1. ASSUME NEW s \in Strings, v = <<"Utf8", s>> PROVE Outcome(p, AddValue(p, v))
  <2>1. v[1] = "Utf8" /\ v[2] = s BY <1>1
  <2> QED BY <2>1, AddUtf8Outcome, AddValueCases
<1>2. ASSUME NEW t \in LeafTags, NEW n \in Numbers, v = <<t, n>>
      PROVE Outcome(p, AddValue(p, v))
  <2>1. v[1] = t /\ v[2] = n BY <1>2
  <2> QED BY <2>1, AddEntryOutcome, EntryTypes, AddValueCases
<1>3. ASSUME NEW t \in NamedTags, NEW s \in Strings, v = <<t, s>>
      PROVE Outcome(p, AddValue(p, v))
  <2>1. v[1] = t /\ v[2] = s BY <1>3
  <2> QED BY <2>1, AddNamedOutcome, AddValueCases
<1>4. ASSUME NEW n \in Strings, NEW d \in Strings, v = <<"NameAndType", n, d>>
      PROVE Outcome(p, AddValue(p, v))
  <2>1. v[1] = "NameAndType" /\ v[2] = n /\ v[3] = d BY <1>4
  <2> QED BY <2>1, AddNameAndTypeOutcome, AddValueCases
<1>5. ASSUME NEW t \in MemberTags, NEW o \in Strings, NEW n \in Strings, NEW d \in Strings,
             v = <<t, o, n, d>>
      PROVE Outcome(p, AddValue(p, v))
  <2>1. v[1] = t /\ v[2] = o /\ v[3] = n /\ v[4] = d BY <1>5
  <2> QED BY <2>1, AddMemberOutcome, AddValueCases
<1>6. ASSUME NEW t \in DynamicTags, NEW m \in Numbers, NEW n \in Strings, NEW d \in Strings,
             v = <<t, m, n, d>>
      PROVE Outcome(p, AddValue(p, v))
  <2>1. v[1] = t /\ v[2] = m /\ v[3] = n /\ v[4] = d BY <1>6
  <2> QED BY <2>1, AddDynamicOutcome, AddValueCases
<1>7. ASSUME NEW k \in Numbers, NEW i \in Slots, v = <<"MethodHandle", k, i>>
      PROVE Outcome(p, AddValue(p, v))
  <2>1. v[1] = "MethodHandle" /\ v[2] = k /\ v[3] = i BY <1>7
  <2> QED BY <2>1, AddEntryOutcome, EntryTypes, AddValueCases
<1>8. ASSUME NEW x \in Signatures PROVE x[1] \in Strings /\ x[2] \in Strings
  BY CallersInput
<1> QED BY <1>1, <1>2, <1>3, <1>4, <1>5, <1>6, <1>7, <1>8, CallersInput DEF Values

-----------------------------------------------------------------------------
(* The builders a run starts from. *)

LEMMA LeastExists ==
    ASSUME NEW S \in SUBSET Nat, S # {}
    PROVE  Least(S) \in S /\ \A j \in S : Least(S) <= j
<1>1. \E i \in S : \A j \in S : i <= j
  BY LeastNumber
<1> QED BY <1>1 DEF Least

LEMMA NewPoolIsPool == IsPool(NewPool)
<1>1. LiveSlots(NewPool) = {}
  BY DEF NewPool, LiveSlots
<1>2. PoolOK(NewPool)
  BY <1>1, MaxIndexPositive DEF PoolOK, NewPool, NoIndex, Slots
<1>3. Writable(NewPool)
  BY MaxIndexPositive DEF Writable, NewPool, NoIndex, Slots, WideAt
<1>4. Links(NewPool)
  BY DEF Links, NewPool
<1> QED BY <1>2, <1>3, <1>4 DEF IsPool, NewPool

LEMMA RawIndexIsLive ==
    ASSUME NEW r \in RawPools, NEW i \in LiveSlots(r)
    PROVE  /\ r.entries[i] \in DOMAIN RawIndex(r)
           /\ RawIndex(r)[r.entries[i]] \in LiveSlots(r)
           /\ r.entries[RawIndex(r)[r.entries[i]]] = r.entries[i]
<1> DEFINE same == {j \in LiveSlots(r) : r.entries[j] = r.entries[i]}
<1>1. same \in SUBSET Nat /\ i \in same
  BY PoolsRead, MaxIndexPositive DEF LiveSlots, NoIndex
<1>2. Least(same) \in same
  BY <1>1, LeastExists
<1>3. RawIndex(r)[r.entries[i]] = Least(same) /\ r.entries[i] \in DOMAIN RawIndex(r)
  BY DEF RawIndex
<1> QED BY <1>2, <1>3

LEMMA LiveEntries ==
    ASSUME NEW r \in RawPools, NEW i \in LiveSlots(r)
    PROVE  i \in Slots /\ r.entries[i] \in Entry
BY PoolsRead, MaxIndexPositive DEF LiveSlots, Slots, NoIndex

\* An entry has the fields of its kind; other parts leave it an entry, if it has
\* none where it had none.
LEMMA EntryFields ==
    ASSUME NEW e \in Entry
    PROVE  /\ e = [tag |-> e.tag, data |-> e.data, a |-> e.a, b |-> e.b]
           /\ e.a \in Slots /\ e.b \in Slots
BY MaxIndexPositive DEF Entry, Utf8, Leaf, Part, Pair, Slots

LEMMA EntryWithParts ==
    ASSUME NEW e \in Entry, NEW i \in Slots, NEW j \in Slots, e.a = 0 => i = 0, e.b = 0 => j = 0
    PROVE  [tag |-> e.tag, data |-> e.data, a |-> i, b |-> j] \in Entry
<1> DEFINE f == [tag |-> e.tag, data |-> e.data, a |-> i, b |-> j]
<1>1. ASSUME NEW s \in Strings, e = Utf8(s) PROVE f \in Entry
  <2>1. f = e BY <1>1 DEF Utf8
  <2> QED BY <2>1
<1>2. ASSUME NEW t \in LeafTags, NEW n \in Numbers, e = Leaf(t, n) PROVE f \in Entry
  <2>1. f = e BY <1>2 DEF Leaf
  <2> QED BY <2>1
<1>3. ASSUME NEW t \in NamedTags, NEW k \in Slots, e = Part(t, NoData, k) PROVE f \in Entry
  <2>1. f = Part(t, NoData, i) BY <1>3 DEF Part
  <2> HIDE DEF f
  <2> QED BY <2>1, EntryTypes
<1>4. ASSUME NEW t \in DynamicTags \cup {"MethodHandle"}, NEW n \in Numbers, NEW k \in Slots,
             e = Part(t, n, k)
      PROVE f \in Entry
  <2>1. f = Part(t, n, i) BY <1>4 DEF Part
  <2> HIDE DEF f
  <2> QED BY <2>1, EntryTypes
<1>5. ASSUME NEW t \in MemberTags \cup {"NameAndType"}, NEW k \in Slots, NEW l \in Slots,
             e = Pair(t, k, l)
      PROVE f \in Entry
  <2>1. f = Pair(t, i, j) BY <1>5 DEF Pair
  <2> HIDE DEF f
  <2> QED BY <2>1, EntryTypes
<1> HIDE DEF f
<1> QED BY <1>1, <1>2, <1>3, <1>4, <1>5 DEF Entry, f

LEMMA CanonicalIsEntry ==
    ASSUME NEW r \in RawPools, NEW i \in LiveSlots(r)
    PROVE  Canonical(r, r.entries[i]) \in Entry
<1>1. \A j \in Slots : Remap(r, j) \in Slots
  BY RawIndexIsLive, LiveEntries DEF Remap
<1>2. r.entries[i] \in Entry /\ r.entries[i].a \in Slots /\ r.entries[i].b \in Slots
  BY LiveEntries, EntryFields
<1>3. Remap(r, 0) = 0
  BY DEF LiveSlots, Remap
<1> QED BY <1>1, <1>2, <1>3, EntryWithParts DEF Canonical

LEMMA CanonicalFields ==
    ASSUME NEW r, NEW e
    PROVE  LET k == Canonical(r, e)
           IN  k.tag = e.tag /\ k.data = e.data /\ k.a = Remap(r, e.a) /\ k.b = Remap(r, e.b)
BY DEF Canonical

LEMMA FromPoolIsPool ==
    ASSUME NEW r \in RawPools PROVE IsPool(FromPool(r))
<1> DEFINE q == FromPool(r)
           raw == RawIndex(r)
           canonical == {Canonical(r, r.entries[i]) : i \in LiveSlots(r)}
<1>1. q.len = r.len /\ q.entries = r.entries
  BY DEF FromPool
<1>2. /\ DOMAIN q.index = DOMAIN raw \cup canonical
      /\ q.index = [k \in DOMAIN q.index |-> q.index[k]]
      /\ \A k \in DOMAIN raw : q.index[k] = raw[k]
      /\ \A k \in canonical \ DOMAIN raw :
            q.index[k] = Least({i \in LiveSlots(r) : Canonical(r, r.entries[i]) = k})
  BY DEF FromPool
<1>3. LiveSlots(q) = LiveSlots(r)
  BY <1>1 DEF LiveSlots
<1>4. DOMAIN raw = {r.entries[i] : i \in LiveSlots(r)}
  BY DEF RawIndex
<1>5. \A k \in DOMAIN raw : raw[k] \in LiveSlots(r)
  BY <1>4, RawIndexIsLive
<1>6. ASSUME NEW k \in canonical
      PROVE Least({i \in LiveSlots(r) : Canonical(r, r.entries[i]) = k}) \in LiveSlots(r)
  <2> DEFINE same == {i \in LiveSlots(r) : Canonical(r, r.entries[i]) = k}
  <2>1. same \in SUBSET Nat /\ same # {}
    BY <1>6, PoolsRead, MaxIndexPositive DEF LiveSlots, NoIndex
  <2>2. Least(same) \in same
    BY <2>1, LeastExists
  <2> QED BY <2>2
<1>7. \A k \in DOMAIN q.index : q.index[k] \in LiveSlots(q)
  BY <1>2, <1>3, <1>5, <1>6
<1>8. DOMAIN q.index \subseteq Entry
  BY <1>2, <1>4, LiveEntries, CanonicalIsEntry
<1>9. q.index \in [DOMAIN q.index -> Slots]
  BY <1>2, <1>3, <1>7, LiveEntries
<1>10. PoolOK(q)
  BY <1>1, <1>7, <1>8, <1>9, PoolsRead, MaxIndexPositive DEF PoolOK, NoIndex
<1>11. Writable(q)
  BY <1>1, PoolsRead DEF Writable, WideAt
<1>12. q = [len |-> q.len, entries |-> q.entries, index |-> q.index]
  BY DEF FromPool
<1>13. \A i, j : Same(r, i, j) <=> Same(q, i, j)
  BY <1>1, <1>3 DEF Same
<1>14. ASSUME NEW k \in DOMAIN raw
       PROVE LET f == q.entries[q.index[k]]
             IN  k.tag = f.tag /\ k.data = f.data /\ Same(q, k.a, f.a) /\ Same(q, k.b, f.b)
  <2>1. q.entries[q.index[k]] = k
    BY <1>1, <1>2, <1>4, RawIndexIsLive
  <2> QED BY <2>1 DEF Same
<1>15. ASSUME NEW k \in canonical \ DOMAIN raw
       PROVE LET f == q.entries[q.index[k]]
             IN  k.tag = f.tag /\ k.data = f.data /\ Same(q, k.a, f.a) /\ Same(q, k.b, f.b)
  <2> DEFINE same == {i \in LiveSlots(r) : Canonical(r, r.entries[i]) = k}
  <2>1. same \in SUBSET Nat /\ same # {}
    BY <1>15, PoolsRead, MaxIndexPositive DEF LiveSlots, NoIndex
  <2>2. q.index[k] \in same
    BY ZenonT(40), <2>1, LeastExists, <1>2
  <2>3. PICK f : f = q.entries[q.index[k]] /\ f \in Entry /\ k = Canonical(r, f)
    BY <2>2, <1>1, LiveEntries
  <2>4. \A j : Same(r, Remap(r, j), j)
    BY RawIndexIsLive DEF Same, Remap
  <2>5. k.tag = f.tag /\ k.data = f.data /\ k.a = Remap(r, f.a) /\ k.b = Remap(r, f.b)
    BY <2>3, CanonicalFields
  <2>6. Same(r, k.a, f.a) /\ Same(r, k.b, f.b)
    BY <2>4, <2>5
  <2> QED BY <2>3, <2>5, <2>6, <1>13
<1>16. Links(q)
  <2> HIDE DEF q
  <2> QED BY <1>2, <1>14, <1>15 DEF Links
<1> QED BY <1>10, <1>11, <1>12, <1>16 DEF IsPool

-----------------------------------------------------------------------------
(* The inductive invariant: the noted builder is what truncating gives.     *)

IInv ==
    /\ IsPool(pool)
    /\ IsPool(saved)
    /\ mark = saved.len
    /\ mark <= pool.len
    /\ Truncated(pool, mark) = saved

LEMMA TruncatedToLength ==
    ASSUME NEW p, IsPool(p) PROVE Truncated(p, p.len) = p
BY MaxIndexPositive DEF Truncated, IsPool, PoolOK, NoIndex

LEMMA InitIInv == Init => IInv
<1> SUFFICES ASSUME Init PROVE IInv
  OBVIOUS
<1>1. IsPool(pool)
  BY NewPoolIsPool, FromPoolIsPool DEF Init
<1>2. pool.len \in Nat
  BY <1>1, MaxIndexPositive DEF IsPool, PoolOK, NoIndex
<1> QED BY <1>1, <1>2, TruncatedToLength DEF Init, IInv

LEMMA NextIInv == IInv /\ [Next]_vars => IInv'
<1> SUFFICES ASSUME IInv, [Next]_vars PROVE IInv'
  OBVIOUS
<1>0. mark \in 1..NoIndex /\ pool.len \in Nat
  BY MaxIndexPositive DEF IInv, IsPool, PoolOK, Writable, NoIndex
<1>1. ASSUME NEW v \in Values, Add(v) PROVE IInv'
  <2>1. Continues(pool, pool')
    BY <1>1, AddValueOutcome DEF IInv, Add, Outcome
  <2>2. mark <= pool'.len /\ pool'.len \in Nat
    BY <2>1, <1>0, MaxIndexPositive DEF Continues, IInv, IsPool, PoolOK, NoIndex
  <2>3. Truncated(pool', mark) = saved
    BY <2>1, <1>0 DEF Continues, IInv
  <2> QED BY <1>1, <2>1, <2>2, <2>3 DEF IInv, Add, Continues
<1>2. CASE NoteCount
  BY <1>0, <1>2, TruncatedToLength DEF IInv, NoteCount
<1>3. CASE Truncate
  <2>1. pool' = saved /\ mark' = mark /\ saved' = saved
    BY <1>3 DEF IInv, Truncate
  <2> QED BY <2>1, <1>0, TruncatedToLength DEF IInv
<1>4. CASE UNCHANGED vars
  BY <1>4 DEF IInv, vars
<1> QED BY <1>1, <1>2, <1>3, <1>4 DEF Next

\* IInv is an invariant of the builder under adds, notes and truncations.
THEOREM Invariance == Spec => []IInv
BY InitIInv, NextIInv, PTL DEF Spec

\* The vector and the map stay together: what TypeOK says, for every size.
THEOREM TypeCorrect == Spec => []TypeOK
<1>1. IInv => TypeOK
  BY MaxIndexPositive DEF IInv, IsPool, TypeOK, PoolOK, NoIndex
<1> QED BY <1>1, Invariance, PTL

\* Any pool the builder holds is one the writer accepts.
THEOREM WriterAlwaysAccepts == Spec => []WriterAccepts
<1>1. IInv => WriterAccepts
  BY DEF IInv, IsPool, WriterAccepts
<1> QED BY <1>1, Invariance, PTL

\* Truncating to the number of slots noted always restores the builder noted,
\* whatever was added, refused or half added since.
THEOREM RollbackAlwaysRestores == Spec => []RollbackRestores
<1>1. IInv => RollbackRestores
  BY DEF IInv, RollbackRestores
<1> QED BY <1>1, Invariance, PTL

-----------------------------------------------------------------------------
(* What a lookup finds is what was asked for. *)

LEMMA LookupFinds ==
    ASSUME NEW p, IsPool(p), NEW k, Lookup(p, k) # NoIndex
    PROVE  LET i == Lookup(p, k)
               e == p.entries[i]
           IN  /\ i \in LiveSlots(p)
               /\ e.tag = k.tag /\ e.data = k.data
               /\ Same(p, k.a, e.a) /\ Same(p, k.b, e.b)
BY DEF Lookup, IsPool, PoolOK, Links

\* Equal entries in two slots are read alike.
LEMMA SameReads ==
    ASSUME NEW p, NEW i, NEW j, Same(p, i, j)
    PROVE  /\ Text(p, i) = Text(p, j)
           /\ ClassName(p, i) = ClassName(p, j)
           /\ Name(p, i) = Name(p, j)
           /\ Descriptor(p, i) = Descriptor(p, j)
BY DEF Same, Text, ClassName, Name, Descriptor, Holds

LEMMA FindUtf8Resolves ==
    ASSUME NEW p, IsPool(p), NEW s, FindUtf8(p, s) # NoIndex
    PROVE  Text(p, FindUtf8(p, s)) = s
<1>1. Utf8(s).tag = "Utf8" /\ Utf8(s).data = s
  BY DEF Utf8
<1> QED BY <1>1, LookupFinds DEF FindUtf8, Text, Holds

LEMMA FindNamedResolves ==
    ASSUME NEW p, IsPool(p), NEW t, NEW s, FindNamed(p, t, s) # NoIndex
    PROVE  LET i == FindNamed(p, t, s)
           IN  Holds(p, i, t) /\ Text(p, p.entries[i].a) = s
<1> DEFINE i == FindNamed(p, t, s)
           name == FindUtf8(p, s)
           k == Part(t, NoData, name)
<1>1. name # NoIndex /\ i = Lookup(p, k)
  BY DEF FindNamed
<1>2. k.tag = t /\ k.a = name
  BY DEF Part
<1>3. Holds(p, i, t) /\ Same(p, name, p.entries[i].a)
  BY <1>1, <1>2, LookupFinds DEF Holds
<1> QED BY <1>1, <1>3, FindUtf8Resolves, SameReads

LEMMA FindNameAndTypeResolves ==
    ASSUME NEW p, IsPool(p), NEW n, NEW d, FindNameAndType(p, n, d) # NoIndex
    PROVE  LET i == FindNameAndType(p, n, d)
           IN  Holds(p, i, "NameAndType") /\ Name(p, i) = n /\ Descriptor(p, i) = d
<1> DEFINE i == FindNameAndType(p, n, d)
           name == FindUtf8(p, n)
           desc == FindUtf8(p, d)
           k == Pair("NameAndType", name, desc)
<1>1. name # NoIndex /\ desc # NoIndex /\ i = Lookup(p, k)
  BY DEF FindNameAndType
<1>2. k.tag = "NameAndType" /\ k.a = name /\ k.b = desc
  BY DEF Pair
<1>3. /\ Holds(p, i, "NameAndType")
      /\ Same(p, name, p.entries[i].a) /\ Same(p, desc, p.entries[i].b)
  BY <1>1, <1>2, LookupFinds DEF Holds
<1> QED BY <1>1, <1>3, FindUtf8Resolves, SameReads DEF Name, Descriptor

LEMMA FindMemberResolves ==
    ASSUME NEW p, IsPool(p), NEW t, NEW o, NEW n, NEW d, FindMember(p, t, o, n, d) # NoIndex
    PROVE  LET i == FindMember(p, t, o, n, d)
               e == p.entries[i]
           IN  /\ Holds(p, i, t)
               /\ ClassName(p, e.a) = o /\ Name(p, e.b) = n /\ Descriptor(p, e.b) = d
<1> DEFINE i == FindMember(p, t, o, n, d)
           owner == FindNamed(p, "Class", o)
           nat == FindNameAndType(p, n, d)
           k == Pair(t, owner, nat)
<1>1. owner # NoIndex /\ nat # NoIndex /\ i = Lookup(p, k)
  BY DEF FindMember
<1>2. k.tag = t /\ k.a = owner /\ k.b = nat
  BY DEF Pair
<1>3. Holds(p, i, t) /\ Same(p, owner, p.entries[i].a) /\ Same(p, nat, p.entries[i].b)
  BY <1>1, <1>2, LookupFinds DEF Holds
<1>4. ClassName(p, owner) = o
  BY <1>1, FindNamedResolves DEF ClassName
<1> QED BY <1>1, <1>3, <1>4, FindNameAndTypeResolves, SameReads

LEMMA FindDynamicResolves ==
    ASSUME NEW p, IsPool(p), NEW t, NEW m, NEW n, NEW d, FindDynamic(p, t, m, n, d) # NoIndex
    PROVE  LET i == FindDynamic(p, t, m, n, d)
               e == p.entries[i]
           IN  Holds(p, i, t) /\ e.data = m /\ Name(p, e.a) = n /\ Descriptor(p, e.a) = d
<1> DEFINE i == FindDynamic(p, t, m, n, d)
           nat == FindNameAndType(p, n, d)
           k == Part(t, m, nat)
<1>1. nat # NoIndex /\ i = Lookup(p, k)
  BY DEF FindDynamic
<1>2. k.tag = t /\ k.data = m /\ k.a = nat
  BY DEF Part
<1>3. Holds(p, i, t) /\ p.entries[i].data = m /\ Same(p, nat, p.entries[i].a)
  BY <1>1, <1>2, LookupFinds DEF Holds
<1> QED BY <1>1, <1>3, FindNameAndTypeResolves, SameReads

\* Find and Meaning take the method of the constant's kind.
LEMMA FindCases ==
    ASSUME NEW p, NEW v, NEW t, v[1] = t
    PROVE  /\ t = "Utf8" => Find(p, v) = FindUtf8(p, v[2])
           /\ t \in LeafTags => Find(p, v) = Lookup(p, Leaf(t, v[2]))
           /\ t \in NamedTags => Find(p, v) = FindNamed(p, t, v[2])
           /\ t = "NameAndType" => Find(p, v) = FindNameAndType(p, v[2], v[3])
           /\ t \in MemberTags => Find(p, v) = FindMember(p, t, v[2], v[3], v[4])
           /\ t \in DynamicTags => Find(p, v) = FindDynamic(p, t, v[2], v[3], v[4])
           /\ t = "MethodHandle" => Find(p, v) = Lookup(p, Part(t, v[2], v[3]))
BY DEF Find, LeafTags, WideTags, NamedTags, MemberTags, DynamicTags

LEMMA MeaningCases ==
    ASSUME NEW p, NEW i, NEW t, Holds(p, i, t)
    PROVE  LET e == p.entries[i]
           IN  /\ t = "Utf8" => Meaning(p, i) = <<t, e.data>>
               /\ t \in LeafTags => Meaning(p, i) = <<t, e.data>>
               /\ t \in NamedTags => Meaning(p, i) = <<t, Text(p, e.a)>>
               /\ t = "NameAndType" => Meaning(p, i) = <<t, Text(p, e.a), Text(p, e.b)>>
               /\ t \in MemberTags
                    => Meaning(p, i) = <<t, ClassName(p, e.a), Name(p, e.b), Descriptor(p, e.b)>>
               /\ t \in DynamicTags
                    => Meaning(p, i) = <<t, e.data, Name(p, e.a), Descriptor(p, e.a)>>
               /\ t = "MethodHandle" => Meaning(p, i) = <<t, e.data, e.a>>
BY DEF Meaning, Holds, LeafTags, WideTags, NamedTags, MemberTags, DynamicTags

LEMMA FindAlike ==
    ASSUME NEW p, IsPool(p), NEW v \in Values, Find(p, v) # NoIndex
    PROVE  Alike(p, Meaning(p, Find(p, v)), v)
<1> DEFINE i == Find(p, v)
           e == p.entries[i]
<1>1. ASSUME NEW s, v = <<"Utf8", s>> PROVE Meaning(p, i) = v
  <2>1. v[1] = "Utf8" /\ v[2] = s BY <1>1
  <2>2. i = FindUtf8(p, s) BY <2>1, FindCases
  <2>3. Utf8(s).tag = "Utf8" /\ Utf8(s).data = s BY DEF Utf8
  <2>4. Holds(p, i, "Utf8") /\ e.data = s
    BY <2>2, <2>3, LookupFinds DEF FindUtf8, Holds
  <2> QED BY <2>4, <1>1, MeaningCases
<1>2. ASSUME NEW t \in LeafTags, NEW n, v = <<t, n>> PROVE Meaning(p, i) = v
  <2>1. v[1] = t /\ v[2] = n BY <1>2
  <2>2. i = Lookup(p, Leaf(t, n)) BY <2>1, FindCases
  <2>3. Leaf(t, n).tag = t /\ Leaf(t, n).data = n BY DEF Leaf
  <2>4. Holds(p, i, t) /\ e.data = n
    BY <2>2, <2>3, LookupFinds DEF Holds
  <2> QED BY <2>4, <1>2, MeaningCases
<1>3. ASSUME NEW t \in NamedTags, NEW s, v = <<t, s>> PROVE Meaning(p, i) = v
  <2>1. v[1] = t /\ v[2] = s BY <1>3
  <2>2. i = FindNamed(p, t, s) BY <2>1, FindCases
  <2> QED BY <2>2, <1>3, FindNamedResolves, MeaningCases
<1>4. ASSUME NEW n, NEW d, v = <<"NameAndType", n, d>> PROVE Meaning(p, i) = v
  <2>1. v[1] = "NameAndType" /\ v[2] = n /\ v[3] = d BY <1>4
  <2>2. i = FindNameAndType(p, n, d) BY <2>1, FindCases
  <2>3. Holds(p, i, "NameAndType") /\ Name(p, i) = n /\ Descriptor(p, i) = d
    BY <2>2, FindNameAndTypeResolves
  <2> QED BY <2>3, <1>4, MeaningCases DEF Name, Descriptor
<1>5. ASSUME NEW t \in MemberTags, NEW o, NEW n, NEW d, v = <<t, o, n, d>>
      PROVE Meaning(p, i) = v
  <2>1. v[1] = t /\ v[2] = o /\ v[3] = n /\ v[4] = d BY <1>5
  <2>2. i = FindMember(p, t, o, n, d) BY <2>1, FindCases
  <2> QED BY <2>2, <1>5, FindMemberResolves, MeaningCases
<1>6. ASSUME NEW t \in DynamicTags, NEW m, NEW n, NEW d, v = <<t, m, n, d>>
      PROVE Meaning(p, i) = v
  <2>1. v[1] = t /\ v[2] = m /\ v[3] = n /\ v[4] = d BY <1>6
  <2>2. i = FindDynamic(p, t, m, n, d) BY <2>1, FindCases
  <2> QED BY <2>2, <1>6, FindDynamicResolves, MeaningCases
<1>7. ASSUME NEW m, NEW j, v = <<"MethodHandle", m, j>> PROVE Alike(p, Meaning(p, i), v)
  <2> DEFINE k == Part("MethodHandle", m, j)
  <2>1. v[1] = "MethodHandle" /\ v[2] = m /\ v[3] = j BY <1>7
  <2>2. i = Lookup(p, k) BY <2>1, FindCases
  <2>3. k.tag = "MethodHandle" /\ k.data = m /\ k.a = j BY DEF Part
  <2>4. Holds(p, i, "MethodHandle") /\ e.data = m /\ Same(p, j, e.a)
    BY <2>2, <2>3, LookupFinds DEF Holds
  <2>5. Meaning(p, i) = <<"MethodHandle", m, e.a>>
    BY <2>4, MeaningCases
  <2>6. Same(p, e.a, j)
    BY <2>4 DEF Same
  <2> QED BY <2>1, <2>5, <2>6 DEF Alike
<1>8. Meaning(p, i) = v => Alike(p, Meaning(p, i), v)
  BY DEF Alike
<1> QED BY <1>1, <1>2, <1>3, <1>4, <1>5, <1>6, <1>7, <1>8 DEF Values

\* In every state the index a lookup returns resolves to the constant asked
\* for, through the alias keys of from_pool and after any truncation.
THEOREM FindAlwaysResolves == Spec => []FindResolves
<1>1. IInv => FindResolves
  BY FindAlike DEF IInv, FindResolves
<1> QED BY <1>1, Invariance, PTL

-----------------------------------------------------------------------------
(* What a pool has found it finds again after any add. *)

LEMMA KeysKept ==
    ASSUME NEW p, NEW q, IsPool(p), Continues(p, q), NEW k \in DOMAIN p.index
    PROVE  k \in DOMAIN q.index /\ q.index[k] = p.index[k]
<1>1. /\ p.len \in 1..p.len /\ p.len <= q.len
      /\ p.len \in Nat /\ q.len \in Nat
  BY MaxIndexPositive DEF Continues, IsPool, PoolOK, Writable, NoIndex
<1>2. Truncated(q, p.len) = p
  BY <1>1, TruncatedToLength DEF Continues
<1>3. CASE p.len < q.len
  <2>1. p.index = [x \in {x \in DOMAIN q.index : q.index[x] < p.len} |-> q.index[x]]
    BY <1>2, <1>3 DEF Truncated
  <2> QED BY <2>1
<1>4. CASE ~(p.len < q.len)
  BY <1>2, <1>4 DEF Truncated
<1> QED BY <1>3, <1>4

LEMMA LookupKept ==
    ASSUME NEW p, NEW q, IsPool(p), Continues(p, q), NEW k, Lookup(p, k) # NoIndex
    PROVE  Lookup(q, k) = Lookup(p, k)
BY KeysKept DEF Lookup

LEMMA FindKept ==
    ASSUME NEW p, NEW q, IsPool(p), Continues(p, q), NEW v \in Values, Find(p, v) # NoIndex
    PROVE  Find(q, v) = Find(p, v)
<1>1. \A s : FindUtf8(p, s) # NoIndex => FindUtf8(q, s) = FindUtf8(p, s)
  BY LookupKept DEF FindUtf8
<1>2. \A t, s : FindNamed(p, t, s) # NoIndex => FindNamed(q, t, s) = FindNamed(p, t, s)
  BY <1>1, LookupKept DEF FindNamed
<1>3. \A n, d : FindNameAndType(p, n, d) # NoIndex => FindNameAndType(q, n, d) = FindNameAndType(p, n, d)
  BY <1>1, LookupKept DEF FindNameAndType
<1>4. \A t, o, n, d : FindMember(p, t, o, n, d) # NoIndex
                        => FindMember(q, t, o, n, d) = FindMember(p, t, o, n, d)
  BY <1>2, <1>3, LookupKept DEF FindMember
<1>5. \A t, m, n, d : FindDynamic(p, t, m, n, d) # NoIndex
                        => FindDynamic(q, t, m, n, d) = FindDynamic(p, t, m, n, d)
  BY <1>3, LookupKept DEF FindDynamic
<1>6. v[1] \in AllTags
  BY CallersInput DEF Values, AllTags
<1>7. PICK t \in AllTags : v[1] = t
  BY <1>6
<1> QED BY <1>1, <1>2, <1>3, <1>4, <1>5, <1>7, LookupKept, FindCases DEF AllTags

-----------------------------------------------------------------------------
(* The refinement. *)

\* In the table of any pool one constant has one index and the other way round.
LEMMA TableAgrees ==
    ASSUME NEW p, IsPool(p), NEW x \in TableOf(p), NEW y \in TableOf(p)
    PROVE  I!Agree(x, y)
<1>1. PICK v \in Interned : x = <<v, Find(p, v)>> /\ Find(p, v) # NoIndex
  BY DEF TableOf
<1>2. PICK w \in Interned : y = <<w, Find(p, w)>> /\ Find(p, w) # NoIndex
  BY DEF TableOf
<1>3. \A u \in Interned : Find(p, u) # NoIndex => Meaning(p, Find(p, u)) = u
  BY FindAlike DEF Alike, Interned
<1>4. Find(p, v) = Find(p, w) => v = w
  BY <1>1, <1>2, <1>3
<1> QED BY <1>1, <1>2, <1>4 DEF I!Agree

LEMMA TableGrows ==
    ASSUME NEW p, NEW q, IsPool(p), Continues(p, q)
    PROVE  TableOf(p) \subseteq TableOf(q)
<1> SUFFICES ASSUME NEW x \in TableOf(p) PROVE x \in TableOf(q)
  OBVIOUS
<1>1. PICK v \in Interned : x = <<v, Find(p, v)>> /\ Find(p, v) # NoIndex
  BY DEF TableOf
<1>2. Find(q, v) = Find(p, v)
  BY <1>1, FindKept DEF Interned
<1> QED BY <1>1, <1>2 DEF TableOf

LEMMA StepInterns == IInv /\ IInv' /\ [Next]_vars => [I!Next]_(I!vars)
<1> SUFFICES ASSUME IInv, IInv', [Next]_vars PROVE I!Next \/ UNCHANGED I!vars
  OBVIOUS
<1>1. ASSUME NEW v \in Values, Add(v) PROVE I!Intern
  <2>1. Continues(pool, pool')
    BY <1>1, AddValueOutcome DEF IInv, Add, Outcome
  <2>2. TableOf(pool) \subseteq TableOf(pool')
    BY <2>1, TableGrows DEF IInv
  <2>3. \A x, y \in TableOf(pool') : I!Agree(x, y)
    BY <2>1, TableAgrees DEF Continues
  <2>4. TableOf(saved)' = TableOf(saved)
    BY <1>1 DEF Add, TableOf
  <2>5. TableOf(pool)' = TableOf(pool')
    BY DEF TableOf
  <2> QED BY <2>2, <2>3, <2>4, <2>5 DEF I!Intern
<1>2. CASE NoteCount
  BY <1>2 DEF NoteCount, I!Next, I!Keep, TableOf
<1>3. CASE Truncate
  <2>1. pool' = saved /\ saved' = saved
    BY <1>3 DEF Truncate, IInv
  <2> QED BY <2>1 DEF I!Next, I!GoBack, TableOf
<1>4. CASE UNCHANGED vars
  BY <1>4 DEF vars, I!vars, TableOf
<1> QED BY <1>1, <1>2, <1>3, <1>4 DEF Next, I!Next

\* The builder implements the interning table: every index it has given keeps its
\* constant through adds that succeed, fail or fail half-way, and truncating
\* brings back the noted table (constant_pool_builder.rs).
THEOREM PoolAlwaysInterns == Spec => Interns
<1>1. Init => I!Init
  BY InitIInv, TableAgrees DEF Init, IInv, I!Init
<1>2. [Next]_vars /\ IInv /\ IInv' => [I!Next]_(I!vars)
  BY StepInterns
<1> QED BY <1>1, <1>2, Invariance, PTL DEF Spec, Interns, I!Spec

-----------------------------------------------------------------------------
(* Slots that hold one constant have one canonical slot. *)

\* The slot the map gives for what a slot holds.
Rep(p, i) == IF i \in LiveSlots(p) THEN p.index[p.entries[i]] ELSE i

\* The key an add_* method asks the map for: parts are canonical slots, but a
\* handle's target is the slot its caller passes.
Key(p, e) ==
    IF e.tag = "MethodHandle" THEN e
    ELSE [tag |-> e.tag, data |-> e.data, a |-> Rep(p, e.a), b |-> Rep(p, e.b)]

Parts(e) == {e.a, e.b}

\* What is stored, and what an add_* method asks for it, is in the map.
Stored(p) ==
    \A i \in LiveSlots(p) :
        /\ p.entries[i] \in DOMAIN p.index
        /\ Key(p, p.entries[i]) \in DOMAIN p.index

\* The map leads to slots that are their own canonical slots.
Normal(p) == \A k \in DOMAIN p.index : p.index[p.entries[p.index[k]]] = p.index[k]

\* A part of a constant is found by what an add_* method asks for it.
Reached(p) ==
    \A i \in LiveSlots(p) :
        p.entries[i].tag # "MethodHandle"
          => \A j \in Parts(p.entries[i]) \cap LiveSlots(p) :
                p.index[Key(p, p.entries[j])] = Rep(p, j)

Good(p) == IsPool(p) /\ Stored(p) /\ Normal(p) /\ Reached(p)

\* A slot that every add_* method for its constant returns.
Settled(p, i) ==
    /\ i \in LiveSlots(p)
    /\ Rep(p, i) = i
    /\ p.index[Key(p, p.entries[i])] = i

\* The parts of an entry are of the kinds it refers to.
Resolved(p, e) ==
    /\ e.tag \in NamedTags => Text(p, e.a) # NoData
    /\ e.tag = "NameAndType" => Text(p, e.a) # NoData /\ Text(p, e.b) # NoData
    /\ e.tag \in MemberTags
         => ClassName(p, e.a) # NoData /\ Name(p, e.b) # NoData /\ Descriptor(p, e.b) # NoData
    /\ e.tag \in DynamicTags => Name(p, e.a) # NoData /\ Descriptor(p, e.a) # NoData

\* q is p with new constants, each in a slot of its own.
Grows(p, q) ==
    /\ Good(q)
    /\ Continues(p, q)
    /\ \A i \in LiveSlots(q) \ LiveSlots(p) : Settled(q, i) /\ Resolved(q, q.entries[i])

LEMMA PoolFacts ==
    ASSUME NEW p, IsPool(p)
    PROVE  /\ p.len \in 1..NoIndex
           /\ 0 \notin LiveSlots(p)
           /\ \A i \in LiveSlots(p) : i \in Slots /\ i < p.len /\ p.entries[i] \in Entry
           /\ \A k \in DOMAIN p.index : p.index[k] \in LiveSlots(p)
BY MaxIndexPositive DEF IsPool, PoolOK, Writable, LiveSlots, Slots, NoIndex

LEMMA ContinuesKeeps ==
    ASSUME NEW p, NEW q, IsPool(p), Continues(p, q), NEW i \in LiveSlots(p)
    PROVE  i \in LiveSlots(q) /\ q.entries[i] = p.entries[i]
<1>1. p.len \in 1..NoIndex /\ q.len \in 1..NoIndex /\ p.len <= q.len /\ i \in Slots /\ i < p.len
  BY PoolFacts DEF Continues
<1>2. Truncated(q, p.len) = p
  BY <1>1, MaxIndexPositive, TruncatedToLength DEF Continues, NoIndex
<1>3. q.entries[i] = p.entries[i]
  <2>1. CASE p.len < q.len
    BY <2>1, <1>1, <1>2 DEF Truncated
  <2>2. CASE ~(p.len < q.len)
    BY <2>2, <1>2 DEF Truncated
  <2> QED BY <2>1, <2>2
<1> QED BY <1>1, <1>3, MaxIndexPositive DEF LiveSlots, NoIndex

LEMMA ReadsKept ==
    ASSUME NEW p, NEW q, IsPool(p), Continues(p, q), NEW i
    PROVE  /\ Text(p, i) # NoData => Text(q, i) = Text(p, i)
           /\ ClassName(p, i) # NoData => ClassName(q, i) = ClassName(p, i)
           /\ Name(p, i) # NoData => Name(q, i) = Name(p, i)
           /\ Descriptor(p, i) # NoData => Descriptor(q, i) = Descriptor(p, i)
<1>1. \A j, t : Holds(p, j, t) => Holds(q, j, t) /\ q.entries[j] = p.entries[j]
  BY ContinuesKeeps DEF Holds
<1>2. \A j : Text(p, j) # NoData => Text(q, j) = Text(p, j)
  BY <1>1 DEF Text
<1> QED BY <1>1, <1>2 DEF ClassName, Name, Descriptor

LEMMA ResolvedKept ==
    ASSUME NEW p, NEW q, IsPool(p), Continues(p, q), NEW e, Resolved(p, e)
    PROVE  Resolved(q, e)
BY ReadsKept DEF Resolved

LEMMA GrowsKeeps ==
    ASSUME NEW p, NEW q, Good(p), Grows(p, q)
    PROVE  /\ \A i : Rep(q, i) = Rep(p, i)
           /\ \A e : Key(q, e) = Key(p, e)
           /\ \A i : Settled(p, i) => Settled(q, i)
<1>1. IsPool(p) /\ Continues(p, q)
  BY DEF Good, Grows
<1>2. ASSUME NEW i PROVE Rep(q, i) = Rep(p, i)
  <2>1. CASE i \in LiveSlots(p)
    BY <2>1, <1>1, ContinuesKeeps, KeysKept DEF Rep, Good, Stored
  <2>2. CASE i \in LiveSlots(q) \ LiveSlots(p)
    BY <2>2 DEF Rep, Grows, Settled
  <2>3. CASE i \notin LiveSlots(q) /\ i \notin LiveSlots(p)
    BY <2>3 DEF Rep
  <2> QED BY <2>1, <2>2, <2>3
<1>3. ASSUME NEW e PROVE Key(q, e) = Key(p, e)
  BY <1>2 DEF Key
<1>4. ASSUME NEW i, Settled(p, i) PROVE Settled(q, i)
  <2>1. i \in LiveSlots(p) /\ Key(p, p.entries[i]) \in DOMAIN p.index
    BY <1>4 DEF Settled, Good, Stored
  <2> QED BY <2>1, <1>1, <1>2, <1>3, <1>4, ContinuesKeeps, KeysKept DEF Settled
<1> QED BY <1>2, <1>3, <1>4

LEMMA GrowsTransitive ==
    ASSUME NEW p, NEW q, NEW r, Good(p), Grows(p, q), Grows(q, r)
    PROVE  Grows(p, r)
<1>1. Good(q) /\ IsPool(p) /\ IsPool(q) /\ Continues(p, q) /\ Continues(q, r) /\ Good(r)
  BY DEF Good, Grows
<1>2. Continues(p, r)
  BY <1>1, ContinuesTransitive
<1>3. ASSUME NEW i \in LiveSlots(r) \ LiveSlots(p) PROVE Settled(r, i) /\ Resolved(r, r.entries[i])
  <2>1. CASE i \in LiveSlots(q)
    <3>1. Settled(q, i) /\ Resolved(q, q.entries[i])
      BY <2>1, <1>3 DEF Grows
    <3> QED BY <3>1, <2>1, <1>1, GrowsKeeps, ResolvedKept, ContinuesKeeps
  <2>2. CASE i \notin LiveSlots(q)
    BY <2>2, <1>3 DEF Grows
  <2> QED BY <2>1, <2>2
<1> QED BY <1>1, <1>2, <1>3 DEF Grows

LEMMA GrowsReflexive ==
    ASSUME NEW p, Good(p) PROVE Grows(p, p)
BY ContinuesReflexive DEF Good, Grows

-----------------------------------------------------------------------------
(* The adds only grow a pool. *)

\* What an add returns, to a pool that is Good: the pool grows, and an index
\* leads to a settled slot.
Adds(p, r) ==
    /\ Grows(p, r.pool)
    /\ r.index # NoIndex => Settled(r.pool, r.index)

LEMMA PushGrows ==
    ASSUME NEW p, Good(p), NEW e \in Entry, e \notin DOMAIN p.index, p.len <= CP_MAX_INDEX(e),
           Resolved(p, e),
           e.tag # "MethodHandle" => \A j \in Parts(e) : j = 0 \/ Settled(p, j)
    PROVE  Grows(p, Push(p, e)) /\ Settled(Push(p, e), p.len)
<1> DEFINE q == Push(p, e)
           i == p.len
<1>1. IsPool(p) /\ Continues(p, q) /\ IsPool(q)
  BY PushContinues DEF Good, Continues
<1>2. i \in Slots
  BY PoolFacts, <1>1, MaxIndexPositive DEF CP_MAX_INDEX, Slots, NoIndex
<1>3. /\ LiveSlots(q) = LiveSlots(p) \cup {i}
      /\ i \notin LiveSlots(p)
      /\ q.entries[i] = e
      /\ \A j \in LiveSlots(p) : q.entries[j] = p.entries[j]
  <2>1. q.len \in Nat /\ i < q.len
    BY <1>2 DEF Push, Slots
  <2>2. q.entries[i] = e /\ \A j \in Slots : j # i => q.entries[j] = p.entries[j]
    BY <1>1, <1>2 DEF Push, IsPool, PoolOK
  <2>3. \A j \in Slots : j >= i => p.entries[j] = NoEntry
    BY <1>1 DEF IsPool, PoolOK
  <2>4. i \in Nat \ {0} /\ q.len <= i + 2 /\ (\A j \in 1..(q.len - 1) : j \in Slots)
    BY <1>1, <1>2, PoolFacts, MaxIndexPositive DEF Slots, Push, NoIndex
  <2>5. e # NoEntry
    BY SentinelsApart
  <2> HIDE DEF q
  <2> QED BY <1>1, <2>1, <2>2, <2>3, <2>4, <2>5, ContinuesKeeps, PoolFacts
             DEF LiveSlots, Slots
<1>4. /\ DOMAIN q.index = DOMAIN p.index \cup {e}
      /\ q.index[e] = i
      /\ \A k \in DOMAIN p.index : q.index[k] = p.index[k] /\ p.index[k] \in LiveSlots(p)
  BY <1>1, PoolFacts DEF Push
<1> HIDE DEF q
<1>5. ASSUME NEW j PROVE Rep(q, j) = Rep(p, j)
  BY <1>3, <1>4 DEF Rep, Good, Stored
<1>6. ASSUME NEW f PROVE Key(q, f) = Key(p, f)
  BY <1>5 DEF Key
<1>7. Key(p, e) = e
  <2>1. CASE e.tag = "MethodHandle"
    BY <2>1 DEF Key
  <2>2. CASE e.tag # "MethodHandle"
    <3>1. Rep(p, 0) = 0
      BY <1>1, PoolFacts DEF Rep
    <3>2. Rep(p, e.a) = e.a /\ Rep(p, e.b) = e.b
      BY <2>2, <3>1 DEF Parts, Settled
    <3> QED BY <3>2, <2>2, EntryFields DEF Key
  <2> QED BY <2>1, <2>2
<1>8. Stored(q)
  BY <1>3, <1>4, <1>6, <1>7 DEF Good, Stored
<1>9. Normal(q)
  BY <1>3, <1>4 DEF Good, Stored, Normal
<1>10. Reached(q)
  <2> SUFFICES ASSUME NEW x \in LiveSlots(q), q.entries[x].tag # "MethodHandle",
                      NEW j \in Parts(q.entries[x]) \cap LiveSlots(q)
               PROVE  q.index[Key(q, q.entries[j])] = Rep(q, j)
    BY DEF Reached
  <2>1. CASE j = i
    BY <2>1, <1>3, <1>4, <1>6, <1>7 DEF Rep
  <2>2. CASE x = i /\ j # i
    <3>1. Settled(p, j)
      BY <2>2, <1>1, <1>3, PoolFacts
    <3>2. Key(p, p.entries[j]) \in DOMAIN p.index
      BY <3>1 DEF Settled, Good, Stored
    <3> QED BY <3>1, <3>2, <1>3, <1>4, <1>5, <1>6 DEF Settled
  <2>3. CASE x # i /\ j # i
    <3>1. /\ x \in LiveSlots(p) /\ j \in LiveSlots(p)
          /\ q.entries[x] = p.entries[x] /\ q.entries[j] = p.entries[j]
      BY <2>3, <1>3
    <3>2. Key(p, p.entries[j]) \in DOMAIN p.index
      BY <3>1 DEF Good, Stored
    <3> QED BY <3>1, <3>2, <1>4, <1>5, <1>6 DEF Good, Reached
  <2> QED BY <2>1, <2>2, <2>3
<1>11. Settled(q, i)
  BY <1>3, <1>4, <1>6, <1>7 DEF Settled, Rep
<1>12. Resolved(q, q.entries[i])
  BY <1>1, <1>3, ResolvedKept
<1>13. Grows(p, q)
  BY <1>1, <1>3, <1>8, <1>9, <1>10, <1>11, <1>12 DEF Grows, Good
<1> QED BY <1>11, <1>13 DEF q

\* add_entry: the index it returns is the one the map then gives for the key.
LEMMA AddEntryAdds ==
    ASSUME NEW p, Good(p), NEW e \in Entry, Resolved(p, e),
           e.tag # "MethodHandle" => \A j \in Parts(e) : j = 0 \/ Settled(p, j)
    PROVE  LET r == AddEntry(p, e)
           IN  /\ Adds(p, r)
               /\ r.index # NoIndex => Lookup(r.pool, e) = r.index
<1> DEFINE r == AddEntry(p, e)
<1>0. IsPool(p)
  BY DEF Good
<1>1. CASE e \in DOMAIN p.index
  <2> DEFINE i == p.index[e]
             f == p.entries[i]
  <2>1. r.pool = p /\ r.index = i
    BY <1>1 DEF AddEntry, Result
  <2>2. i \in LiveSlots(p) /\ f \in Entry
    BY <1>0, <1>1, PoolFacts
  <2>3. e.tag = f.tag /\ e.data = f.data /\ Same(p, e.a, f.a) /\ Same(p, e.b, f.b)
    BY <1>0, <1>1 DEF IsPool, Links
  <2>4. Rep(p, i) = i
    BY <1>1, <2>2 DEF Good, Normal, Rep
  <2>5. p.index[Key(p, f)] = i
    <3>1. CASE e.tag = "MethodHandle"
      BY <3>1, <1>1, <2>3 DEF Good, Normal, Key
    <3>2. CASE e.tag # "MethodHandle"
      <4>1. \A x, y : Same(p, x, y) => Rep(p, x) = Rep(p, y)
        BY DEF Same, Rep
      <4>2. Rep(p, 0) = 0
        BY <1>0, PoolFacts DEF Rep
      <4>3. Rep(p, e.a) = e.a /\ Rep(p, e.b) = e.b
        BY <3>2, <4>2 DEF Parts, Settled
      <4>4. Rep(p, f.a) = e.a /\ Rep(p, f.b) = e.b
        BY <4>1, <4>3, <2>3
      <4>5. Key(p, f) = e
        <5> HIDE DEF f
        <5> QED BY <4>4, <3>2, <2>3, EntryFields DEF Key
      <4> QED BY <4>5
    <3> QED BY <3>1, <3>2
  <2>6. Settled(p, i)
    BY <2>2, <2>4, <2>5 DEF Settled
  <2> QED BY <2>1, <2>6, <1>1, GrowsReflexive DEF Adds, Lookup
<1>2. CASE e \notin DOMAIN p.index /\ p.len > CP_MAX_INDEX(e)
  BY <1>2, GrowsReflexive DEF AddEntry, Result, Adds
<1>3. CASE e \notin DOMAIN p.index /\ ~(p.len > CP_MAX_INDEX(e))
  <2>1. p.len <= CP_MAX_INDEX(e)
    BY <1>0, <1>3, PoolFacts, MaxIndexPositive DEF CP_MAX_INDEX, NoIndex
  <2>2. r.pool = Push(p, e) /\ r.index = p.len
    BY <1>3 DEF AddEntry, Result
  <2>3. Lookup(r.pool, e) = r.index
    BY <2>2 DEF Lookup, Push
  <2> QED BY <2>1, <2>2, <2>3, <1>3, PushGrows DEF Adds
<1> QED BY <1>1, <1>2, <1>3

LEMMA AddsThen ==
    ASSUME NEW p, NEW r, NEW t, Good(p), Adds(p, r), Adds(r.pool, t)
    PROVE  Adds(p, t)
BY GrowsTransitive DEF Adds

LEMMA AddUtf8Adds ==
    ASSUME NEW p, Good(p), NEW s \in Strings
    PROVE  LET r == AddUtf8(p, s)
           IN  /\ Adds(p, r)
               /\ r.index # NoIndex => Text(r.pool, r.index) = s
<1> DEFINE r == AddUtf8(p, s)
           e == Utf8(s)
<1>1. CASE s \in LongStrings
  BY <1>1, GrowsReflexive DEF AddUtf8, Result, Adds
<1>2. CASE s \notin LongStrings
  <2>1. r = AddEntry(p, e)
    BY <1>2 DEF AddUtf8
  <2>2. e \in Entry /\ e.tag = "Utf8" /\ e.data = s /\ e.a = 0 /\ e.b = 0
    BY EntryTypes DEF Utf8
  <2>3. Resolved(p, e)
    BY <2>2 DEF Resolved, NamedTags, MemberTags, DynamicTags
  <2> HIDE DEF r, e
  <2>4. Adds(p, r) /\ (r.index # NoIndex => Lookup(r.pool, e) = r.index)
    BY <2>1, <2>2, <2>3, AddEntryAdds DEF Parts
  <2>5. IsPool(r.pool)
    BY <2>4 DEF Adds, Grows, Good
  <2> QED BY <2>2, <2>4, <2>5, LookupFinds DEF Text, Holds, r
<1> QED BY <1>1, <1>2

LEMMA AddNamedAdds ==
    ASSUME NEW p, Good(p), NEW s \in Strings, NEW t \in NamedTags
    PROVE  LET r == AddNamed(p, t, s)
           IN  /\ Adds(p, r)
               /\ r.index # NoIndex => Holds(r.pool, r.index, t)
                                       /\ Text(r.pool, r.pool.entries[r.index].a) = s
<1> DEFINE r == AddNamed(p, t, s)
           name == AddUtf8(p, s)
           e == Part(t, NoData, name.index)
<1>1. Adds(p, name) /\ (name.index # NoIndex => Text(name.pool, name.index) = s)
  BY AddUtf8Adds
<1>2. CASE name.index = NoIndex
  <2>1. r = name
    BY <1>2 DEF AddNamed
  <2> QED BY <2>1, <1>1, <1>2
<1>3. CASE name.index # NoIndex
  <2>1. r = AddEntry(name.pool, e)
    BY <1>3 DEF AddNamed
  <2>2. e.tag = t /\ e.a = name.index /\ e.b = 0
    BY DEF Part
  <2> HIDE DEF r, name
  <2>3. Good(name.pool) /\ IsPool(name.pool) /\ Settled(name.pool, name.index)
    BY <1>1, <1>3 DEF Adds, Grows, Good
  <2>4. name.index \in Slots
    BY <2>3, PoolFacts DEF Settled
  <2>5. e \in Entry
    BY <2>4, EntryTypes
  <2>6. s # NoData
    BY SentinelsApart
  <2> HIDE DEF e
  <2>7. Resolved(name.pool, e)
    BY <2>2, <2>6, <1>1, <1>3 DEF Resolved, NamedTags, MemberTags, DynamicTags
  <2>8. Adds(name.pool, r) /\ (r.index # NoIndex => Lookup(r.pool, e) = r.index)
    BY <2>1, <2>2, <2>3, <2>5, <2>7, AddEntryAdds DEF Parts
  <2>9. IsPool(r.pool) /\ Continues(name.pool, r.pool)
    BY <2>8 DEF Adds, Grows, Good
  <2>10. Text(r.pool, name.index) = s
    BY <2>3, <2>6, <2>9, <1>1, <1>3, ReadsKept
  <2>11. ASSUME r.index # NoIndex
         PROVE  Holds(r.pool, r.index, t) /\ Text(r.pool, r.pool.entries[r.index].a) = s
    BY <2>2, <2>8, <2>9, <2>10, <2>11, LookupFinds, SameReads DEF Holds
  <2>12. Adds(p, r)
    BY <1>1, <2>8, AddsThen
  <2> QED BY <2>11, <2>12 DEF r
<1> QED BY <1>2, <1>3

LEMMA AddNameAndTypeAdds ==
    ASSUME NEW p, Good(p), NEW n \in Strings, NEW d \in Strings
    PROVE  LET r == AddNameAndType(p, n, d)
           IN  /\ Adds(p, r)
               /\ r.index # NoIndex
                    => Name(r.pool, r.index) = n /\ Descriptor(r.pool, r.index) = d
<1> DEFINE r == AddNameAndType(p, n, d)
           name == AddUtf8(p, n)
           desc == AddUtf8(name.pool, d)
           e == Pair("NameAndType", name.index, desc.index)
<1>1. Adds(p, name) /\ (name.index # NoIndex => Text(name.pool, name.index) = n)
  BY AddUtf8Adds
<1>2. CASE name.index = NoIndex
  <2>1. r = name
    BY <1>2 DEF AddNameAndType
  <2> QED BY <2>1, <1>1, <1>2
<1>3. Good(name.pool) /\ IsPool(name.pool)
  BY <1>1 DEF Adds, Grows, Good
<1>4. Adds(name.pool, desc) /\ (desc.index # NoIndex => Text(desc.pool, desc.index) = d)
  BY <1>3, AddUtf8Adds
<1>5. Adds(p, desc)
  BY <1>1, <1>4, AddsThen
<1>6. CASE name.index # NoIndex /\ desc.index = NoIndex
  <2>1. r = desc
    BY <1>6 DEF AddNameAndType
  <2> QED BY <2>1, <1>5, <1>6
<1>7. CASE name.index # NoIndex /\ desc.index # NoIndex
  <2>1. r = AddEntry(desc.pool, e)
    BY <1>7 DEF AddNameAndType
  <2>2. e.tag = "NameAndType" /\ e.a = name.index /\ e.b = desc.index
    BY DEF Pair
  <2> HIDE DEF r, name, desc
  <2>3. n # NoData /\ d # NoData
    BY SentinelsApart
  <2>4. /\ Good(desc.pool) /\ IsPool(desc.pool) /\ Continues(name.pool, desc.pool)
        /\ Settled(desc.pool, name.index) /\ Settled(desc.pool, desc.index)
    BY <1>1, <1>3, <1>4, <1>7, GrowsKeeps DEF Adds, Grows, Good
  <2>5. name.index \in Slots /\ desc.index \in Slots
    BY <2>4, PoolFacts DEF Settled
  <2>6. e \in Entry
    BY <2>5, EntryTypes
  <2> HIDE DEF e
  <2>7. Text(desc.pool, name.index) = n /\ Text(desc.pool, desc.index) = d
    BY <2>3, <2>4, <1>1, <1>3, <1>4, <1>7, ReadsKept
  <2>8. Resolved(desc.pool, e)
    BY <2>2, <2>3, <2>7 DEF Resolved, NamedTags, MemberTags, DynamicTags
  <2>9. Adds(desc.pool, r) /\ (r.index # NoIndex => Lookup(r.pool, e) = r.index)
    BY <2>1, <2>2, <2>4, <2>6, <2>8, AddEntryAdds DEF Parts
  <2>10. IsPool(r.pool) /\ Continues(desc.pool, r.pool)
    BY <2>9 DEF Adds, Grows, Good
  <2>11. Text(r.pool, name.index) = n /\ Text(r.pool, desc.index) = d
    BY <2>3, <2>4, <2>7, <2>10, ReadsKept
  <2>12. ASSUME r.index # NoIndex
         PROVE  Name(r.pool, r.index) = n /\ Descriptor(r.pool, r.index) = d
    BY <2>2, <2>9, <2>10, <2>11, <2>12, LookupFinds, SameReads DEF Holds, Name, Descriptor
  <2>13. Adds(p, r)
    BY <1>5, <2>9, AddsThen
  <2> QED BY <2>12, <2>13 DEF r
<1> QED BY <1>2, <1>6, <1>7

LEMMA AddMemberAdds ==
    ASSUME NEW p, Good(p), NEW t \in MemberTags,
           NEW o \in Strings, NEW n \in Strings, NEW d \in Strings
    PROVE  Adds(p, AddMember(p, t, o, n, d))
<1> DEFINE r == AddMember(p, t, o, n, d)
           owner == AddNamed(p, "Class", o)
           nat == AddNameAndType(owner.pool, n, d)
           e == Pair(t, owner.index, nat.index)
<1>1. /\ Adds(p, owner)
      /\ owner.index # NoIndex => ClassName(owner.pool, owner.index) = o
  BY AddNamedAdds DEF NamedTags, ClassName
<1>2. CASE owner.index = NoIndex
  <2>1. r = owner
    BY <1>2 DEF AddMember
  <2> QED BY <2>1, <1>1
<1>3. Good(owner.pool) /\ IsPool(owner.pool)
  BY <1>1 DEF Adds, Grows, Good
<1>4. /\ Adds(owner.pool, nat)
      /\ nat.index # NoIndex => Name(nat.pool, nat.index) = n /\ Descriptor(nat.pool, nat.index) = d
  BY <1>3, AddNameAndTypeAdds
<1>5. Adds(p, nat)
  BY <1>1, <1>4, AddsThen
<1>6. CASE owner.index # NoIndex /\ nat.index = NoIndex
  <2>1. r = nat
    BY <1>6 DEF AddMember
  <2> QED BY <2>1, <1>5
<1>7. CASE owner.index # NoIndex /\ nat.index # NoIndex
  <2>1. r = AddEntry(nat.pool, e)
    BY <1>7 DEF AddMember
  <2>2. e.tag = t /\ e.a = owner.index /\ e.b = nat.index
    BY DEF Pair
  <2> HIDE DEF r, owner, nat
  <2>3. n # NoData /\ d # NoData /\ o # NoData
    BY SentinelsApart
  <2>4. /\ Good(nat.pool) /\ IsPool(nat.pool) /\ Continues(owner.pool, nat.pool)
        /\ Settled(nat.pool, owner.index) /\ Settled(nat.pool, nat.index)
    BY <1>1, <1>3, <1>4, <1>7, GrowsKeeps DEF Adds, Grows, Good
  <2>5. owner.index \in Slots /\ nat.index \in Slots
    BY <2>4, PoolFacts DEF Settled
  <2>6. e \in Entry
    BY <2>5, EntryTypes
  <2> HIDE DEF e
  <2>7. ClassName(nat.pool, owner.index) = o
    BY <2>3, <2>4, <1>1, <1>3, <1>7, ReadsKept
  <2>8. Resolved(nat.pool, e)
    BY <2>2, <2>3, <2>7, <1>4, <1>7 DEF Resolved, NamedTags, MemberTags, DynamicTags
  <2>9. Adds(nat.pool, r)
    BY <2>1, <2>2, <2>4, <2>6, <2>8, AddEntryAdds DEF Parts
  <2>10. Adds(p, r)
    BY <1>5, <2>9, AddsThen
  <2> QED BY <2>10 DEF r
<1> QED BY <1>2, <1>6, <1>7

LEMMA AddDynamicAdds ==
    ASSUME NEW p, Good(p), NEW t \in DynamicTags,
           NEW m \in Numbers, NEW n \in Strings, NEW d \in Strings
    PROVE  Adds(p, AddDynamic(p, t, m, n, d))
<1> DEFINE r == AddDynamic(p, t, m, n, d)
           nat == AddNameAndType(p, n, d)
           e == Part(t, m, nat.index)
<1>1. /\ Adds(p, nat)
      /\ nat.index # NoIndex => Name(nat.pool, nat.index) = n /\ Descriptor(nat.pool, nat.index) = d
  BY AddNameAndTypeAdds
<1>2. CASE nat.index = NoIndex
  <2>1. r = nat
    BY <1>2 DEF AddDynamic
  <2> QED BY <2>1, <1>1
<1>3. CASE nat.index # NoIndex
  <2>1. r = AddEntry(nat.pool, e)
    BY <1>3 DEF AddDynamic
  <2>2. e.tag = t /\ e.a = nat.index /\ e.b = 0
    BY DEF Part
  <2> HIDE DEF r, nat
  <2>3. n # NoData /\ d # NoData
    BY SentinelsApart
  <2>4. Good(nat.pool) /\ IsPool(nat.pool) /\ Settled(nat.pool, nat.index)
    BY <1>1, <1>3 DEF Adds, Grows, Good
  <2>5. nat.index \in Slots
    BY <2>4, PoolFacts DEF Settled
  <2>6. e \in Entry
    BY <2>5, EntryTypes
  <2> HIDE DEF e
  <2>7. Resolved(nat.pool, e)
    BY <2>2, <2>3, <1>1, <1>3 DEF Resolved, NamedTags, MemberTags, DynamicTags
  <2>8. Adds(nat.pool, r)
    BY <2>1, <2>2, <2>4, <2>6, <2>7, AddEntryAdds DEF Parts
  <2>9. Adds(p, r)
    BY <1>1, <2>8, AddsThen
  <2> QED BY <2>9 DEF r
<1> QED BY <1>2, <1>3

LEMMA AddValueAdds ==
    ASSUME NEW p, Good(p), NEW v \in Values PROVE Adds(p, AddValue(p, v))
<1>1. ASSUME NEW s \in Strings, v = <<"Utf8", s>> PROVE Adds(p, AddValue(p, v))
  <2>1. v[1] = "Utf8" /\ v[2] = s BY <1>1
  <2> QED BY <2>1, AddUtf8Adds, AddValueCases
<1>2. ASSUME NEW t \in LeafTags, NEW n \in Numbers, v = <<t, n>>
      PROVE Adds(p, AddValue(p, v))
  <2>1. v[1] = t /\ v[2] = n BY <1>2
  <2>2. AddValue(p, v) = AddEntry(p, Leaf(t, n))
    BY <2>1, AddValueCases
  <2>3. Leaf(t, n).tag = t /\ Leaf(t, n).a = 0 /\ Leaf(t, n).b = 0
    BY DEF Leaf
  <2>4. Resolved(p, Leaf(t, n))
    BY <2>3 DEF Resolved, NamedTags, MemberTags, DynamicTags, LeafTags, WideTags
  <2> QED BY <2>2, <2>3, <2>4, AddEntryAdds, EntryTypes DEF Parts
<1>3. ASSUME NEW t \in NamedTags, NEW s \in Strings, v = <<t, s>>
      PROVE Adds(p, AddValue(p, v))
  <2>1. v[1] = t /\ v[2] = s BY <1>3
  <2> QED BY <2>1, AddNamedAdds, AddValueCases
<1>4. ASSUME NEW n \in Strings, NEW d \in Strings, v = <<"NameAndType", n, d>>
      PROVE Adds(p, AddValue(p, v))
  <2>1. v[1] = "NameAndType" /\ v[2] = n /\ v[3] = d BY <1>4
  <2> QED BY <2>1, AddNameAndTypeAdds, AddValueCases
<1>5. ASSUME NEW t \in MemberTags, NEW o \in Strings, NEW n \in Strings, NEW d \in Strings,
             v = <<t, o, n, d>>
      PROVE Adds(p, AddValue(p, v))
  <2>1. v[1] = t /\ v[2] = o /\ v[3] = n /\ v[4] = d BY <1>5
  <2> QED BY <2>1, AddMemberAdds, AddValueCases
<1>6. ASSUME NEW t \in DynamicTags, NEW m \in Numbers, NEW n \in Strings, NEW d \in Strings,
             v = <<t, m, n, d>>
      PROVE Adds(p, AddValue(p, v))
  <2>1. v[1] = t /\ v[2] = m /\ v[3] = n /\ v[4] = d BY <1>6
  <2> QED BY <2>1, AddDynamicAdds, AddValueCases
<1>7. ASSUME NEW k \in Numbers, NEW i \in Slots, v = <<"MethodHandle", k, i>>
      PROVE Adds(p, AddValue(p, v))
  <2>1. v[1] = "MethodHandle" /\ v[2] = k /\ v[3] = i BY <1>7
  <2>2. AddValue(p, v) = AddEntry(p, Part("MethodHandle", k, i))
    BY <2>1, AddValueCases
  <2>3. Part("MethodHandle", k, i).tag = "MethodHandle"
    BY DEF Part
  <2>4. Resolved(p, Part("MethodHandle", k, i))
    BY <2>3 DEF Resolved, NamedTags, MemberTags, DynamicTags
  <2> QED BY <2>2, <2>3, <2>4, AddEntryAdds, EntryTypes
<1>8. ASSUME NEW x \in Signatures PROVE x[1] \in Strings /\ x[2] \in Strings
  BY CallersInput
<1> QED BY <1>1, <1>2, <1>3, <1>4, <1>5, <1>6, <1>7, <1>8, CallersInput DEF Values

-----------------------------------------------------------------------------
(* Constants with one meaning have one key. *)

\* The fields that an entry of a kind leaves empty.
LEMMA EntryKinds ==
    ASSUME NEW e \in Entry
    PROVE  /\ e.tag \in AllTags
           /\ e.tag \in {"Utf8"} \cup LeafTags => e.a = 0 /\ e.b = 0
           /\ e.tag \in NamedTags => e.data = NoData /\ e.b = 0
           /\ e.tag \in MemberTags \cup {"NameAndType"} => e.data = NoData
           /\ e.tag \in DynamicTags \cup {"MethodHandle"} => e.b = 0
<1> DEFINE fits == /\ e.tag \in AllTags
                   /\ e.tag \in {"Utf8"} \cup LeafTags => e.a = 0 /\ e.b = 0
                   /\ e.tag \in NamedTags => e.data = NoData /\ e.b = 0
                   /\ e.tag \in MemberTags \cup {"NameAndType"} => e.data = NoData
                   /\ e.tag \in DynamicTags \cup {"MethodHandle"} => e.b = 0
<1> USE DEF AllTags, LeafTags, WideTags, NamedTags, MemberTags, DynamicTags
<1>1. ASSUME NEW s \in Strings, e = Utf8(s) PROVE fits
  BY <1>1 DEF Utf8
<1>2. ASSUME NEW t \in LeafTags, NEW n \in Numbers, e = Leaf(t, n) PROVE fits
  BY <1>2 DEF Leaf
<1>3. ASSUME NEW t \in NamedTags, NEW k \in Slots, e = Part(t, NoData, k) PROVE fits
  BY <1>3 DEF Part
<1>4. ASSUME NEW t \in DynamicTags \cup {"MethodHandle"}, NEW n \in Numbers, NEW k \in Slots,
             e = Part(t, n, k)
      PROVE fits
  BY <1>4 DEF Part
<1>5. ASSUME NEW t \in MemberTags \cup {"NameAndType"}, NEW k \in Slots, NEW l \in Slots,
             e = Pair(t, k, l)
      PROVE fits
  BY <1>5 DEF Pair
<1> HIDE DEF fits, AllTags, LeafTags, WideTags, NamedTags, MemberTags, DynamicTags
<1>6. fits
  BY <1>1, <1>2, <1>3, <1>4, <1>5 DEF Entry
<1> QED BY <1>6 DEF fits

\* A slot found by the key of what it holds, as the parts of constants are.
Found(p, i) == i \in LiveSlots(p) => p.index[Key(p, p.entries[i])] = Rep(p, i)

LEMMA SameText ==
    ASSUME NEW p, IsPool(p), NEW i, NEW j, Text(p, i) # NoData, Text(p, i) = Text(p, j)
    PROVE  Rep(p, i) = Rep(p, j)
<1>1. Holds(p, i, "Utf8") /\ Holds(p, j, "Utf8") /\ p.entries[i].data = p.entries[j].data
  BY DEF Text
<1>2. p.entries[i] \in Entry /\ p.entries[j] \in Entry
  BY <1>1, PoolFacts DEF Holds
<1>3. p.entries[i] = p.entries[j]
  BY <1>1, <1>2, EntryFields, EntryKinds DEF Holds
<1> QED BY <1>1, <1>3 DEF Holds, Rep

LEMMA SameClass ==
    ASSUME NEW p, IsPool(p), NEW i, NEW j, Found(p, i), Found(p, j),
           ClassName(p, i) # NoData, ClassName(p, i) = ClassName(p, j)
    PROVE  Rep(p, i) = Rep(p, j)
<1> DEFINE e == p.entries[i]
           f == p.entries[j]
<1>1. /\ Holds(p, i, "Class") /\ Holds(p, j, "Class")
      /\ Text(p, e.a) # NoData /\ Text(p, e.a) = Text(p, f.a)
  BY DEF ClassName
<1>2. Rep(p, e.a) = Rep(p, f.a)
  BY <1>1, SameText
<1>3. e.data = NoData /\ f.data = NoData /\ e.b = 0 /\ f.b = 0
  BY <1>1, PoolFacts, EntryKinds DEF Holds, NamedTags
<1>4. Key(p, e) = Key(p, f)
  BY <1>1, <1>2, <1>3 DEF Key, Holds
<1> QED BY <1>1, <1>4 DEF Found, Holds

LEMMA SameNameAndType ==
    ASSUME NEW p, IsPool(p), NEW i, NEW j, Found(p, i), Found(p, j),
           Name(p, i) # NoData, Name(p, i) = Name(p, j),
           Descriptor(p, i) # NoData, Descriptor(p, i) = Descriptor(p, j)
    PROVE  Rep(p, i) = Rep(p, j)
<1> DEFINE e == p.entries[i]
           f == p.entries[j]
<1>1. /\ Holds(p, i, "NameAndType") /\ Holds(p, j, "NameAndType")
      /\ Text(p, e.a) # NoData /\ Text(p, e.a) = Text(p, f.a)
      /\ Text(p, e.b) # NoData /\ Text(p, e.b) = Text(p, f.b)
  BY DEF Name, Descriptor
<1>2. Rep(p, e.a) = Rep(p, f.a) /\ Rep(p, e.b) = Rep(p, f.b)
  BY <1>1, SameText
<1>3. e.data = NoData /\ f.data = NoData
  BY <1>1, PoolFacts, EntryKinds DEF Holds
<1>4. Key(p, e) = Key(p, f)
  BY <1>1, <1>2, <1>3 DEF Key, Holds
<1> QED BY <1>1, <1>4 DEF Found, Holds

LEMMA SameFields ==
    ASSUME NEW p, NEW e, NEW f, e.tag = f.tag, e.tag # "MethodHandle", e.data = f.data,
           Rep(p, e.a) = Rep(p, f.a), Rep(p, e.b) = Rep(p, f.b)
    PROVE  Key(p, e) = Key(p, f)
BY DEF Key

LEMMA SameMeaning ==
    ASSUME NEW p, Good(p), NEW i \in LiveSlots(p), NEW j \in LiveSlots(p),
           Resolved(p, p.entries[i]), Meaning(p, i) = Meaning(p, j)
    PROVE  Key(p, p.entries[i]) = Key(p, p.entries[j])
<1> DEFINE e == p.entries[i]
           f == p.entries[j]
<1>1. IsPool(p) /\ e \in Entry /\ f \in Entry
  BY PoolFacts DEF Good
<1>2. Holds(p, i, e.tag) /\ Holds(p, j, f.tag)
  BY DEF Holds
<1>3. e.tag \in AllTags /\ f.tag \in AllTags
  BY <1>1, EntryKinds
<1>4. ASSUME NEW x \in LiveSlots(p), p.entries[x].tag \in AllTags
      PROVE  Meaning(p, x)[1] = p.entries[x].tag
  <2>1. PICK t \in AllTags : t = p.entries[x].tag
    BY <1>4
  <2>2. Holds(p, x, t)
    BY <2>1 DEF Holds
  <2> QED BY <2>1, <2>2, MeaningCases DEF AllTags
<1>5. PICK t \in AllTags : e.tag = t /\ f.tag = t
  BY <1>3, <1>4
<1>6. t # "MethodHandle"
        => Found(p, e.a) /\ Found(p, e.b) /\ Found(p, f.a) /\ Found(p, f.b)
  BY <1>5 DEF Good, Reached, Found, Parts
<1>7. CASE t = "Utf8" \/ t \in LeafTags
  <2>1. e.data = f.data
    BY <1>2, <1>5, <1>7, MeaningCases
  <2>2. e.a = f.a /\ e.b = f.b
    BY <1>1, <1>5, <1>7, EntryKinds
  <2> QED BY <2>1, <2>2, <1>1, <1>5, EntryFields
<1>8. CASE t \in NamedTags
  <2>1. Text(p, e.a) # NoData /\ Text(p, e.a) = Text(p, f.a)
    BY <1>2, <1>5, <1>8, MeaningCases DEF Resolved
  <2>2. e.data = f.data /\ e.b = f.b
    BY <1>1, <1>5, <1>8, EntryKinds
  <2>3. t # "MethodHandle"
    BY <1>8 DEF NamedTags
  <2>4. Rep(p, e.a) = Rep(p, f.a)
    BY <2>1, <1>1, SameText
  <2> QED BY <2>2, <2>3, <2>4, <1>5, SameFields
<1>9. CASE t = "NameAndType"
  <2>1. /\ Text(p, e.a) # NoData /\ Text(p, e.a) = Text(p, f.a)
        /\ Text(p, e.b) # NoData /\ Text(p, e.b) = Text(p, f.b)
    BY <1>2, <1>5, <1>9, MeaningCases DEF Resolved
  <2>2. e.data = f.data
    BY <1>1, <1>5, <1>9, EntryKinds
  <2>3. Rep(p, e.a) = Rep(p, f.a) /\ Rep(p, e.b) = Rep(p, f.b)
    BY <2>1, <1>1, SameText
  <2> QED BY <2>2, <2>3, <1>5, <1>9, SameFields
<1>10. CASE t \in MemberTags
  <2>1. /\ ClassName(p, e.a) # NoData /\ ClassName(p, e.a) = ClassName(p, f.a)
        /\ Name(p, e.b) # NoData /\ Name(p, e.b) = Name(p, f.b)
        /\ Descriptor(p, e.b) # NoData /\ Descriptor(p, e.b) = Descriptor(p, f.b)
    BY <1>2, <1>5, <1>10, MeaningCases DEF Resolved
  <2>2. e.data = f.data
    BY <1>1, <1>5, <1>10, EntryKinds
  <2>3. t # "MethodHandle"
    BY <1>10 DEF MemberTags
  <2>4. Rep(p, e.a) = Rep(p, f.a) /\ Rep(p, e.b) = Rep(p, f.b)
    BY <2>1, <2>3, <1>1, <1>6, SameClass, SameNameAndType
  <2> QED BY <2>2, <2>3, <2>4, <1>5, SameFields
<1>11. CASE t \in DynamicTags
  <2>1. /\ Name(p, e.a) # NoData /\ Name(p, e.a) = Name(p, f.a)
        /\ Descriptor(p, e.a) # NoData /\ Descriptor(p, e.a) = Descriptor(p, f.a)
        /\ e.data = f.data
    BY <1>2, <1>5, <1>11, MeaningCases DEF Resolved
  <2>2. e.b = f.b
    BY <1>1, <1>5, <1>11, EntryKinds
  <2>3. t # "MethodHandle"
    BY <1>11 DEF DynamicTags
  <2>4. Rep(p, e.a) = Rep(p, f.a)
    BY <2>1, <2>3, <1>1, <1>6, SameNameAndType
  <2> QED BY <2>1, <2>2, <2>3, <2>4, <1>5, SameFields
<1>12. CASE t = "MethodHandle"
  <2>1. e.data = f.data /\ e.a = f.a
    BY <1>2, <1>5, <1>12, MeaningCases
  <2>2. e.b = f.b
    BY <1>1, <1>5, <1>12, EntryKinds
  <2> QED BY <2>1, <2>2, <1>1, <1>5, EntryFields
<1> QED BY <1>7, <1>8, <1>9, <1>10, <1>11, <1>12 DEF AllTags

-----------------------------------------------------------------------------
(* No constant is added twice. *)

LEMMA NewPoolIsGood == Good(NewPool)
<1>1. LiveSlots(NewPool) = {} /\ DOMAIN NewPool.index = {}
  BY DEF NewPool, LiveSlots
<1> QED BY <1>1, NewPoolIsPool DEF Good, Stored, Normal, Reached

LEMMA FromPoolIsGood ==
    ASSUME NEW r \in RawPools, Flat(r) PROVE Good(FromPool(r))
<1> DEFINE q == FromPool(r)
           raw == RawIndex(r)
           canonical == {Canonical(r, r.entries[i]) : i \in LiveSlots(r)}
<1>1. q.len = r.len /\ q.entries = r.entries
  BY DEF FromPool
<1>2. /\ DOMAIN q.index = DOMAIN raw \cup canonical
      /\ \A k \in DOMAIN raw : q.index[k] = raw[k]
      /\ \A k \in canonical \ DOMAIN raw :
            q.index[k] = Least({i \in LiveSlots(r) : Canonical(r, r.entries[i]) = k})
  BY DEF FromPool
<1>3. IsPool(q) /\ LiveSlots(q) = LiveSlots(r)
  BY <1>1, FromPoolIsPool DEF LiveSlots
<1> HIDE DEF q
<1>4. ASSUME NEW i \in LiveSlots(r)
      PROVE  /\ r.entries[i] \in DOMAIN raw
             /\ raw[r.entries[i]] \in LiveSlots(r)
             /\ r.entries[raw[r.entries[i]]] = r.entries[i]
  BY RawIndexIsLive
<1>5. \A k \in DOMAIN raw : \E i \in LiveSlots(r) : k = r.entries[i]
  BY DEF RawIndex
<1>6. \A i : Rep(q, i) = Remap(r, i)
  BY <1>1, <1>2, <1>3, <1>4 DEF Rep, Remap
<1>7. \A e : Key(q, e) = IF e.tag = "MethodHandle" THEN e ELSE Canonical(r, e)
  BY <1>6 DEF Key, Canonical
<1>8. Stored(q)
  BY <1>1, <1>2, <1>3, <1>4, <1>7 DEF Stored
<1>9. Normal(q)
  <2> SUFFICES ASSUME NEW k \in DOMAIN q.index
               PROVE  q.index[q.entries[q.index[k]]] = q.index[k]
    BY DEF Normal
  <2>1. CASE k \in DOMAIN raw
    BY <2>1, <1>1, <1>2, <1>4, <1>5
  <2>2. CASE k \in canonical \ DOMAIN raw
    <3> DEFINE alike == {i \in LiveSlots(r) : Canonical(r, r.entries[i]) = k}
               l == q.index[k]
               equal == {i \in LiveSlots(r) : r.entries[i] = r.entries[l]}
    <3>1. alike \in SUBSET Nat /\ alike # {}
      BY <2>2, PoolsRead, MaxIndexPositive DEF LiveSlots, NoIndex
    <3>2. l = Least(alike)
      BY <2>2, <1>2
    <3>3. l \in alike /\ \A i \in alike : l <= i
      BY <3>1, <3>2, LeastExists
    <3>4. equal \in SUBSET Nat /\ l \in equal
      BY <3>3, <3>1, PoolsRead, MaxIndexPositive DEF LiveSlots, NoIndex
    <3>5. raw[r.entries[l]] = Least(equal)
      BY <3>3 DEF RawIndex
    <3>6. Least(equal) \in equal /\ Least(equal) <= l
      BY <3>4, LeastExists
    <3>7. Least(equal) \in alike
      BY <3>3, <3>6
    <3>8. l <= Least(equal) /\ l \in Nat /\ Least(equal) \in Nat
      BY <3>1, <3>3, <3>7
    <3>9. Least(equal) = l
      BY <3>6, <3>8
    <3>10. r.entries[l] \in DOMAIN raw
      BY <3>3, <1>4
    <3> QED BY <3>5, <3>9, <3>10, <1>1, <1>2
  <2> QED BY <2>1, <2>2, <1>2
<1>10. Reached(q)
  <2> SUFFICES ASSUME NEW i \in LiveSlots(r), r.entries[i].tag # "MethodHandle",
                      NEW j \in Parts(r.entries[i]) \cap LiveSlots(r)
               PROVE  q.index[Key(q, r.entries[j])] = Rep(q, j)
    BY <1>1, <1>3 DEF Reached
  <2>1. Canonical(r, r.entries[j]) = r.entries[j]
    BY DEF Flat, Parts
  <2>2. Key(q, r.entries[j]) = r.entries[j]
    BY <2>1, <1>7
  <2> QED BY <2>2, <1>1, <1>3 DEF Rep
<1>11. Good(q)
  BY <1>3, <1>8, <1>9, <1>10 DEF Good
<1> QED BY <1>11 DEF q

LEMMA AddsOnce ==
    ASSUME NEW p, NEW q, Good(p), Grows(p, q),
           NEW i \in LiveSlots(q) \ LiveSlots(p), NEW j \in LiveSlots(q), j < i
    PROVE  Meaning(q, j) # Meaning(q, i)
<1> SUFFICES ASSUME Meaning(q, j) = Meaning(q, i) PROVE FALSE
  OBVIOUS
<1>1. Good(q) /\ Settled(q, i) /\ Resolved(q, q.entries[i])
  BY DEF Grows
<1>2. IsPool(p) /\ IsPool(q) /\ Continues(p, q)
  BY <1>1 DEF Good, Grows
<1>3. i \in Nat /\ j \in Nat
  BY <1>2, PoolFacts, MaxIndexPositive DEF Slots
<1>4. q.index[Key(q, q.entries[j])] = i
  BY <1>1, SameMeaning DEF Settled
<1>5. CASE j \notin LiveSlots(p)
  <2>1. q.index[Key(q, q.entries[j])] = j
    BY <1>5 DEF Grows, Settled
  <2> QED BY <2>1, <1>3, <1>4
<1>6. CASE j \in LiveSlots(p)
  <2>1. Key(p, p.entries[j]) \in DOMAIN p.index
    BY <1>6 DEF Good, Stored
  <2>2. Key(q, q.entries[j]) = Key(p, p.entries[j])
    BY <1>2, <1>6, ContinuesKeeps, GrowsKeeps
  <2>3. i \in LiveSlots(p)
    BY <2>1, <2>2, <1>2, <1>4, KeysKept, PoolFacts
  <2> QED BY <2>3
<1> QED BY <1>5, <1>6

\* Where the constants that others refer to are stored once in every pool read,
\* no add puts a constant in the pool that is there, at any level of a compound
\* add and on its failing paths (from_pool and add_entry).
THEOREM NoDuplicateIsAdded == (\A r \in RawPools : Flat(r)) => (Spec => AddsNoDuplicate)
<1> SUFFICES ASSUME \A r \in RawPools : Flat(r) PROVE Spec => AddsNoDuplicate
  OBVIOUS
<1> DEFINE Goods == Good(pool) /\ Good(saved)
<1>1. Init => Goods
  BY NewPoolIsGood, FromPoolIsGood DEF Init
<1>2. IInv /\ Goods /\ [Next]_vars => Goods'
  <2> SUFFICES ASSUME IInv, Goods, [Next]_vars PROVE Goods'
    OBVIOUS
  <2>1. ASSUME NEW v \in Values, Add(v) PROVE Goods'
    BY <2>1, AddValueAdds DEF Add, Adds, Grows
  <2>2. CASE NoteCount
    BY <2>2 DEF NoteCount
  <2>3. CASE Truncate
    BY <2>3 DEF Truncate, IInv
  <2>4. CASE UNCHANGED vars
    BY <2>4 DEF vars
  <2> QED BY <2>1, <2>2, <2>3, <2>4 DEF Next
<1>3. IInv /\ Goods /\ [Next]_vars
        => \A i \in LiveSlots(pool') \ LiveSlots(pool), j \in LiveSlots(pool') :
              j < i => Meaning(pool', j) # Meaning(pool', i)
  <2> SUFFICES ASSUME IInv, Goods, [Next]_vars,
                      NEW i \in LiveSlots(pool') \ LiveSlots(pool), NEW j \in LiveSlots(pool'),
                      j < i
               PROVE  Meaning(pool', j) # Meaning(pool', i)
    OBVIOUS
  <2>1. ASSUME NEW v \in Values, Add(v) PROVE Meaning(pool', j) # Meaning(pool', i)
    BY <2>1, AddValueAdds, AddsOnce DEF Add, Adds
  <2>2. CASE Truncate
    <3>1. pool' = Truncated(pool, mark)
      BY <2>2 DEF Truncate
    <3>2. mark \in 1..NoIndex /\ pool.len \in Nat
      BY MaxIndexPositive DEF IInv, IsPool, PoolOK, Writable, NoIndex
    <3>3. LiveSlots(pool') \subseteq LiveSlots(pool)
      BY <3>1, <3>2, MaxIndexPositive DEF Truncated, LiveSlots, Slots, NoIndex
    <3> QED BY <3>3
  <2>3. CASE NoteCount \/ UNCHANGED vars
    BY <2>3 DEF NoteCount, vars
  <2> QED BY <2>1, <2>2, <2>3 DEF Next
<1> QED BY <1>1, <1>2, <1>3, Invariance, PTL DEF Spec, AddsNoDuplicate
=============================================================================
