------------------------------ MODULE CodeModel ------------------------------
(***************************************************************************)
(* A method's code between two class files (model/mod.rs): it is read, its   *)
(* byte offsets become labels among the instructions, transforms edit the   *)
(* instructions, and writing turns labels into offsets again.  Branches,    *)
(* handlers and debug tables are held by label; a StackMapTable is held as  *)
(* it was read, and is written again only for code that was not edited.     *)
(*                                                                         *)
(* Every branch is short here: CodeLayout is about those that are not.      *)
(* Which blocks get a frame when frames are recomputed is left open: that   *)
(* is what FrameSim is about.                                               *)
(***************************************************************************)
EXTENDS CodeEdits

CONSTANTS
    Codes,      \* Code attributes to read
    Shortest,   \* the length of each operation in its shortest form
    Matchers,   \* what a matcher selects: sets of operations, "label" among them
    Patterns,   \* sequences of matchers
    Snippets,   \* what an edit puts in: sequences of operations
    Redirected, \* operations that a redirect replaces, and by which
    NoCode,
    MaxEdits,   \* bound: edits
    MaxChanges  \* bound: edits and writes together

VARIABLES
    file,       \* the Code attribute in the class file
    code,       \* the CodeModel, or NoCode
    origin,     \* history: the Code attribute it was lifted from
    wrote,      \* history: how file was written
    edits, writes   \* counters for the bounds

ASSUME BoundsAreNaturals == MaxEdits \in Nat /\ MaxChanges \in Nat

Ops == DOMAIN Shortest

ASSUME OpsHaveLengths == Shortest \in [Ops -> Nat \ {0}] /\ "label" \notin Ops

\* The transforms do nothing for an empty pattern and insert nothing for no items.
ASSUME PatternsMatchSomething == \A p \in Patterns : p # <<>> /\ p \in Seq(SUBSET (Ops \cup {"label"}))
ASSUME SnippetsAreCode == \A s \in Snippets : s # <<>> /\ s \in Seq(Ops)
ASSUME RedirectsKeepOps == DOMAIN Redirected \subseteq Ops /\ Redirected \in [DOMAIN Redirected -> Ops]

vars == <<file, code, origin, wrote, edits, writes>>

-----------------------------------------------------------------------------
(* A Code attribute.  Instructions are [op, id, size, targets], handlers    *)
(* [id, start, end, handler], attributes [kind, at]: the offsets a table     *)
(* names, or nothing.  Ids are not in the class file: they say which        *)
(* instruction is which, 0 for one that an edit put in.                     *)

Instructions == [op : Ops, id : Nat, size : Nat \ {0}, targets : Seq(Nat)]
Handlers == [id : Nat, start : Nat, end : Nat, handler : Nat]

DebugKinds == {"lines", "locals", "types"}

\* The kinds the code knows, and those of the attributes that it keeps as they are.
AttributeKinds ==
    DebugKinds \cup {"frames", "added"} \cup (UNION {{a.kind : a \in Range(c.attrs)} : c \in Codes})

Attributes == [kind : AttributeKinds, at : Seq(Nat)]

IsCode(c) ==
    /\ c \in [insns : Seq(Instructions), handlers : Seq(Handlers), attrs : Seq(Attributes)]
    /\ \A i, j \in DOMAIN c.insns : c.insns[i].id = c.insns[j].id => i = j \/ c.insns[i].id = 0
    /\ \A i, j \in DOMAIN c.handlers : c.handlers[i].id = c.handlers[j].id => i = j

ASSUME CodesAreParsed == \A c \in Codes : IsCode(c)

Offsets(insns) ==
    LET at[i \in 1..(Len(insns) + 1)] == IF i = 1 THEN 0 ELSE at[i - 1] + insns[i - 1].size
    IN  at

Kinds(attrs) == [i \in DOMAIN attrs |-> attrs[i].kind]

OfKind(attrs, kinds) == Kept(attrs, {i \in DOMAIN attrs : attrs[i].kind \in kinds})

NotOfKind(attrs, kinds) == Kept(attrs, {i \in DOMAIN attrs : attrs[i].kind \notin kinds})

-----------------------------------------------------------------------------
(* Lifting.  A label is named by the offset it is made for.                 *)

Label(l) == [op |-> "label", id |-> l, targets |-> <<>>]

\* Every offset that code or a debug table names gets a label.
Places(c) ==
    (UNION {Range(c.insns[i].targets) : i \in DOMAIN c.insns})
    \cup (UNION {{h.start, h.end, h.handler} : h \in Range(c.handlers)})
    \cup (UNION {Range(a.at) : a \in Range(OfKind(c.attrs, DebugKinds))})

\* A wrong lift: no label for the end of the code.
LiftedWithoutEnd(c) ==
    LET at == Offsets(c.insns)
        label(i) == IF at[i] \in Places(c) THEN <<Label(at[i])>> ELSE <<>>
        insn(i) == [op |-> c.insns[i].op, id |-> c.insns[i].id, targets |-> c.insns[i].targets]
    IN  FlattenSeq([i \in DOMAIN c.insns |-> Append(label(i), insn(i))])

LiftedItems(c) ==
    LET at == Offsets(c.insns)
        label(i) == IF at[i] \in Places(c) THEN <<Label(at[i])>> ELSE <<>>
        insn(i) == [op |-> c.insns[i].op, id |-> c.insns[i].id, targets |-> c.insns[i].targets]
    IN  FlattenSeq([i \in DOMAIN c.insns |-> Append(label(i), insn(i))]) \o label(Len(c.insns) + 1)

\* A later table of a kind takes the place of an earlier one.
Table(attrs, kind) ==
    LET tables == OfKind(attrs, {kind})
    IN  IF tables = <<>> THEN <<>> ELSE Last(tables).at

lift_code_model(c) ==
    [items |-> LiftedItems(c), handlers |-> c.handlers,
     tables |-> [kind \in DebugKinds |-> Table(c.attrs, kind)],
     attributes |-> NotOfKind(c.attrs, DebugKinds),
     layout |-> Kinds(c.attrs), stale |-> FALSE,
     original |-> [items |-> LiftedItems(c), handlers |-> c.handlers]]

Bounded == edits + writes < MaxChanges

Read ==
    /\ Bounded
    /\ code' = lift_code_model(file)
    /\ origin' = file
    /\ UNCHANGED <<file, wrote, edits, writes>>

-----------------------------------------------------------------------------
(* Editing. *)

\* Each item, or each item of a sequence, whose operation the matcher selects.
Selected(matcher, items) == {i \in DOMAIN items : items[i].op \in matcher}

SelectedBy(pattern, items) == [k \in DOMAIN pattern |-> Selected(pattern[k], items)]

find_insns(items, matcher) == Positions(items, Selected(matcher, items))

find_non_overlapping_sequences(items, pattern) == NonOverlapping(items, SelectedBy(pattern, items))

Inserted(snippet) == [i \in DOMAIN snippet |-> [op |-> snippet[i], id |-> 0, targets |-> <<>>]]

replace_insns(items, matcher, new) == SpliceAll(items, find_insns(items, matcher), 0, 1, new)

remove_insns(items, matcher) == Kept(items, DOMAIN items \ Selected(matcher, items))

insert_before(items, matcher, new) == SpliceAll(items, find_insns(items, matcher), 0, 0, new)

insert_after(items, matcher, new) == SpliceAll(items, find_insns(items, matcher), 1, 0, new)

replace_sequences(items, pattern, new) ==
    SpliceAll(items, find_non_overlapping_sequences(items, pattern), 0, Len(pattern), new)

Redirect(items) ==
    [i \in DOMAIN items |->
        IF items[i].op \in DOMAIN Redirected THEN [items[i] EXCEPT !.op = Redirected[@]] ELSE items[i]]

\* The items after one code transform.
Transformed(items) ==
    {Redirect(items)}
    \cup {remove_insns(items, m) : m \in Matchers}
    \cup {replace_insns(items, m, Inserted(s)) : m \in Matchers, s \in Snippets}
    \cup {insert_before(items, m, Inserted(s)) : m \in Matchers, s \in Snippets}
    \cup {insert_after(items, m, Inserted(s)) : m \in Matchers, s \in Snippets}
    \cup {replace_sequences(items, p, Inserted(s)) : p \in Patterns, s \in Snippets \cup {<<>>}}

Edited(model) ==
    /\ code # NoCode /\ edits < MaxEdits /\ Bounded
    /\ code' = model
    /\ edits' = edits + 1
    /\ UNCHANGED <<file, origin, wrote, writes>>

Transform == \E items \in Transformed(code.items) : Edited([code EXCEPT !.items = items])

RemoveHandler(k) == Edited([code EXCEPT !.handlers = RemoveAt(@, k)])

RemoveAttribute(k) == Edited([code EXCEPT !.attributes = RemoveAt(@, k)])

AddAttribute == Edited([code EXCEPT !.attributes = Append(@, [kind |-> "added", at |-> <<>>])])

mark_method_debug_info_stale == Edited([code EXCEPT !.stale = TRUE])

-----------------------------------------------------------------------------
(* Writing. *)

\* What two items must share to be equal: not which instruction they once were.
Shape(items) ==
    [i \in DOMAIN items |->
        IF items[i].op = "label" THEN items[i] ELSE [items[i] EXCEPT !.id = 0]]

\* A wrong comparison: the instructions only by their number.
LengthEdited(model) == Len(model.items) # Len(model.original.items)

code_shape_edited(model) ==
    \/ Shape(model.items) # Shape(model.original.items)
    \/ model.handlers # model.original.handlers

ensure_frame_sensitive_attrs_supported(model) ==
    code_shape_edited(model) => OfKind(model.attributes, {"frames"}) = <<>>

instruction_size(item) == IF item.op = "label" THEN 0 ELSE Shortest[item.op]

ItemOffsets(items) ==
    Offsets([i \in DOMAIN items |-> [size |-> instruction_size(items[i])]])

LabelsIn(items) == {items[i].id : i \in {i \in DOMAIN items : items[i].op = "label"}}

\* A wrong order: the instruction behind a label is counted before the label is placed.
LabelsBehind(items) ==
    [l \in LabelsIn(items) |->
        Append(Tail(ItemOffsets(items)), Last(ItemOffsets(items)))[
            SelectLastInSeq(items, LAMBDA item : item = Label(l)) + 1]]

\* The offset of a label: that of the last item that places it.
compute_label_offsets(items) ==
    [l \in LabelsIn(items) |->
        ItemOffsets(items)[SelectLastInSeq(items, LAMBDA item : item = Label(l))]]

\* A wrong policy: what the caller asks for, whatever state the tables are in.
AskedFor(model, strip) == strip

strip_debug_info(model, strip) == strip \/ model.stale

\* Everything that must have an offset when the code is written.
Referenced(model, strip) ==
    (UNION {Range(item.targets) : item \in Range(model.items)})
    \cup (UNION {{h.start, h.end, h.handler} : h \in Range(model.handlers)})
    \cup (IF strip_debug_info(model, strip) THEN {}
          ELSE UNION {Range(model.tables[kind]) : kind \in DebugKinds})

LoweredInsns(items, at) ==
    LET insns == Kept(items, {i \in DOMAIN items : items[i].op # "label"})
    IN  [i \in DOMAIN insns |->
            [op |-> insns[i].op, id |-> insns[i].id, size |-> instruction_size(insns[i]),
             targets |-> [k \in DOMAIN insns[i].targets |-> at[insns[i].targets[k]]]]]

LoweredHandlers(handlers, at) ==
    [k \in DOMAIN handlers |->
        [id |-> handlers[k].id, start |-> at[handlers[k].start], end |-> at[handlers[k].end],
         handler |-> at[handlers[k].handler]]]

\* A table of debug information, unless it is empty or stripped.
LoweredTable(model, kind, strip, at) ==
    IF strip_debug_info(model, strip) \/ model.tables[kind] = <<>> THEN <<>>
    ELSE <<[kind |-> kind,
            at |-> [k \in DOMAIN model.tables[kind] |-> at[model.tables[kind][k]]]]>>

JumpedTo(model) ==
    (UNION {Range(item.targets) : item \in Range(model.items)}) \cup {h.handler : h \in Range(model.handlers)}

\* Where frames may stand: at what is jumped to and behind a jump, but for the entry.
BlockStarts(model, at) ==
    LET jump(i) == model.items[i].op # "label" /\ model.items[i].targets # <<>>
        behind == {ItemOffsets(model.items)[i + 1] : i \in {i \in DOMAIN model.items : jump(i)}}
    IN  (behind \cup {at[l] : l \in JumpedTo(model)}) \ {0, Last(ItemOffsets(model.items))}

\* Recomputed frames: those of the blocks that are reached, in the order of the code.
RecomputedFrames(model, at) ==
    LET starts == Offsets(LoweredInsns(model.items, at))
    IN  {[kind |-> "frames", at |-> Kept(starts, {i \in DOMAIN starts : starts[i] \in reached})] :
            reached \in SUBSET BlockStarts(model, at)}

\* A wrong order: the tables that stood between the others come behind them.
TablesLast(layout, attributes, tables, recompute) ==
    attributes \o tables["lines"] \o tables["locals"] \o tables["types"] \o tables["frames"]

\* Attributes go back to where they were read, in the order of their kinds; what
\* has no place comes at the end.
lower_nested_attributes(layout, attributes, tables, recompute) ==
    LET place(acc, kind) ==
            IF kind \notin DebugKinds /\ ~(kind = "frames" /\ recompute)
            THEN IF acc.others = <<>> THEN acc
                 ELSE [acc EXCEPT !.out = Append(@, Head(acc.others)), !.others = Tail(@)]
            ELSE [acc EXCEPT !.out = @ \o acc.tables[kind], !.tables[kind] = <<>>]
        others == IF recompute THEN NotOfKind(attributes, {"frames"}) ELSE attributes
        placed[i \in 0..Len(layout)] ==
            IF i = 0 THEN [out |-> <<>>, others |-> others, tables |-> tables]
            ELSE place(placed[i - 1], layout[i])
        all == placed[Len(layout)]
        left(kind) == all.tables[kind]
    IN  all.out \o all.others \o left("lines") \o left("locals") \o left("types") \o left("frames")

Lowered(model, strip, frames, recompute) ==
    LET at == compute_label_offsets(model.items)
        tables == [kind \in DebugKinds \cup {"frames"} |->
                    IF kind = "frames" THEN frames ELSE LoweredTable(model, kind, strip, at)]
    IN  [insns |-> LoweredInsns(model.items, at),
         handlers |-> LoweredHandlers(model.handlers, at),
         attrs |-> lower_nested_attributes(model.layout, model.attributes, tables, recompute)]

Written(c, how) ==
    /\ file' = c
    /\ wrote' = how
    /\ writes' = writes + 1
    /\ UNCHANGED <<code, origin, edits>>

Writable(strip) ==
    /\ code # NoCode /\ Bounded
    /\ Referenced(code, strip) \subseteq LabelsIn(code.items)

WritePreserving(strip) ==
    /\ Writable(strip)
    /\ ensure_frame_sensitive_attrs_supported(code)
    /\ Written(Lowered(code, strip, <<>>, FALSE), [frames |-> "preserved", strip |-> strip])

\* The analysis wants instructions, and one behind every label that is jumped to.
\* Code with subroutines gets no frames, if its class file is old enough.
WriteRecomputing(strip) ==
    LET at == compute_label_offsets(code.items)
        end == Last(ItemOffsets(code.items))
    IN  /\ Writable(strip)
        /\ end # 0 /\ \A l \in JumpedTo(code) : at[l] # end
        /\ \E frames \in {<<>>} \cup {<<f>> : f \in RecomputedFrames(code, at)} :
                Written(Lowered(code, strip, frames, TRUE), [frames |-> "recomputed", strip |-> strip])

-----------------------------------------------------------------------------
Init ==
    /\ file \in Codes
    /\ code = NoCode /\ origin = NoCode
    /\ wrote = [frames |-> "none", strip |-> FALSE]
    /\ edits = 0 /\ writes = 0

Edit ==
    /\ code # NoCode
    /\ \/ Transform
       \/ \E k \in DOMAIN code.handlers : RemoveHandler(k)
       \/ \E k \in DOMAIN code.attributes : RemoveAttribute(k)
       \/ AddAttribute
       \/ mark_method_debug_info_stale

Write == \E strip \in BOOLEAN : WritePreserving(strip) \/ WriteRecomputing(strip)

Next == Read \/ Edit \/ Write

Spec == Init /\ [][Next]_vars

-----------------------------------------------------------------------------
(* Properties. *)

Ids(c) == {c.insns[i].id : i \in DOMAIN c.insns} \ {0}

\* The instructions before an offset.
Before(c, p) ==
    {c.insns[i].id : i \in {i \in DOMAIN c.insns : Offsets(c.insns)[i] < p}} \ {0}

\* Offset q of d divides the instructions that c and d share as offset p of c does.
Follows(c, p, d, q) ==
    /\ q \in Range(Offsets(d.insns))
    /\ Before(d, q) \cap Ids(c) = Before(c, p) \cap Ids(d)

AllFollow(c, ps, d, qs) ==
    /\ Len(ps) = Len(qs)
    /\ \A k \in DOMAIN ps : Follows(c, ps[k], d, qs[k])

\* Whatever was inserted, removed or replaced, and however often the file was read
\* and written: branches, handlers and debug tables of the file written name the
\* starts of instructions, the ones they named when the code was read
\* (compute_label_offsets, lower_code_model and the lowering of the tables).
PlacesFollow ==
    [][writes' # writes =>
        /\ \A j \in DOMAIN file'.insns : \A i \in DOMAIN origin.insns :
                origin.insns[i].id = file'.insns[j].id /\ origin.insns[i].id # 0 =>
                    AllFollow(origin, origin.insns[i].targets, file', file'.insns[j].targets)
        /\ \A h \in Range(file'.handlers) : \A g \in Range(origin.handlers) :
                g.id = h.id =>
                    AllFollow(origin, <<g.start, g.end, g.handler>>, file', <<h.start, h.end, h.handler>>)
        /\ \A kind \in DebugKinds : \A table \in Range(OfKind(file'.attrs, {kind})) :
                AllFollow(origin, Table(origin.attrs, kind), file', table.at)]_vars

ShortestForms(c) == \A i \in DOMAIN c.insns : c.insns[i].size = Shortest[c.insns[i].op]

\* Offset q of d begins the instruction of the same number as offset p of c does.
SameStart(c, p, d, q) ==
    \E i \in DOMAIN Offsets(c.insns) \cap DOMAIN Offsets(d.insns) :
        Offsets(c.insns)[i] = p /\ Offsets(d.insns)[i] = q

AllStart(c, ps, d, qs) ==
    /\ Len(ps) = Len(qs)
    /\ \A k \in DOMAIN ps : SameStart(c, ps[k], d, qs[k])

\* d does what c does, instruction for instruction.
SameCode(c, d) ==
    /\ Len(c.insns) = Len(d.insns) /\ Len(c.handlers) = Len(d.handlers)
    /\ \A i \in DOMAIN c.insns :
        /\ c.insns[i].op = d.insns[i].op
        /\ AllStart(c, c.insns[i].targets, d, d.insns[i].targets)
    /\ \A k \in DOMAIN c.handlers :
        LET h == c.handlers[k]
            g == d.handlers[k]
        IN  AllStart(c, <<h.start, h.end, h.handler>>, d, <<g.start, g.end, g.handler>>)

\* Frames are written only for the code they were read with, and stand where they stood.
FramesFollow(c, d) ==
    \A table \in Range(OfKind(d.attrs, {"frames"})) :
        /\ SameCode(c, d)
        /\ \E read \in Range(OfKind(c.attrs, {"frames"})) : AllStart(c, read.at, d, table.at)

FramesStand(c) ==
    \A table \in Range(OfKind(c.attrs, {"frames"})) : Range(table.at) \subseteq Range(Offsets(c.insns))

\* A StackMapTable that is preserved holds for the code it is written with: it is
\* never written for code in which something moved (code_shape_edited).  The code
\* read must be in shortest forms (see PreservedFramesHold) and its frames in place.
FramesOfShortFormsHold ==
    [][writes' # writes /\ wrote'.frames = "preserved" /\ ShortestForms(origin) /\ FramesStand(origin)
        => FramesFollow(origin, file')]_vars

\* The same of any code read.  docs/design/validation-framework.md:150: "For roundtrip
\* classes, the original StackMapTable is preserved if code is not modified."
PreservedFramesHold ==
    [][writes' # writes /\ wrote'.frames = "preserved" /\ FramesStand(origin)
        => FramesFollow(origin, file')]_vars

\* Whatever was removed, added, stripped or recomputed: what is in no table comes out as
\* it is and in its order, and a debug table that was read comes out once, unless it is
\* empty, stripped or stale (lower_nested_attributes).  Where several tables of one kind
\* were read, which the JVMS allows of these three kinds, all but the last are lost: the
\* property says nothing of that kind.
AttributesKept ==
    [][writes' # writes =>
        LET stripped == wrote'.strip \/ code.stale
            recomputed == wrote'.frames = "recomputed"
            others(attrs) == NotOfKind(attrs, DebugKinds \cup IF recomputed THEN {"frames"} ELSE {})
        IN  /\ others(file'.attrs) = others(code.attributes)
            /\ recomputed => Len(OfKind(file'.attrs, {"frames"})) <= 1
            /\ \A kind \in DebugKinds : Len(OfKind(origin.attrs, {kind})) <= 1 =>
                Len(OfKind(file'.attrs, {kind})) =
                    IF stripped \/ Table(origin.attrs, kind) = <<>> THEN 0 ELSE 1]_vars

\* What writing makes of code: shortest forms, no empty table, one table of a kind.
Settled(c) ==
    /\ ShortestForms(c)
    /\ \A kind \in DebugKinds :
        LET tables == OfKind(c.attrs, {kind})
        IN  Len(tables) <= 1 /\ \A table \in Range(tables) : table.at # <<>>

\* A class file that was written once comes back from reading and writing, unedited,
\* instruction for instruction and attribute for attribute; one from elsewhere does
\* when it is settled already (lift_code_model and lower_code_model are inverse).
RoundTripIsExact ==
    [][writes' # writes =>
        /\ Settled(file')
        /\ code = lift_code_model(origin) /\ wrote' = [frames |-> "preserved", strip |-> FALSE]
           /\ Settled(origin) => file' = origin]_vars

\* Code whose offsets all name instructions or the end is never refused unedited, and
\* all code written is such code: each offset gets a label and each label its place
\* (the place behind the last instruction included).
WrittenCodeIsWritable ==
    writes > 0 \/ Places(file) \subseteq Range(Offsets(file.insns)) =>
        LET model == lift_code_model(file)
        IN  Referenced(model, FALSE) \subseteq LabelsIn(model.items)

\* The items rewritten from left to right in one pass, for comparison.
Rewritten(items, pattern, new) ==
    LET width == Len(pattern)
        hits == SelectedBy(pattern, items)
        from[i \in 1..(Len(items) + width)] ==
            IF i > Len(items) THEN <<>>
            ELSE IF SequenceAt(hits, i) THEN new \o from[i + width]
            ELSE <<items[i]>> \o from[i + 1]
    IN  from[1]

Spread(items, matcher, replacement(_)) ==
    FlattenSeq([i \in DOMAIN items |->
        IF items[i].op \in matcher THEN replacement(items[i]) ELSE <<items[i]>>])

\* An edit touches exactly what matches, also where matches lie side by side or overlap
\* and although each splice moves the items behind it.
EditsAreExact ==
    code # NoCode =>
        \A s \in Snippets :
            LET new == Inserted(s)
                items == code.items
            IN  /\ \A m \in Matchers :
                    /\ replace_insns(items, m, new) = Spread(items, m, LAMBDA x : new)
                    /\ insert_before(items, m, new) = Spread(items, m, LAMBDA x : Append(new, x))
                    /\ insert_after(items, m, new) = Spread(items, m, LAMBDA x : <<x>> \o new)
                /\ \A p \in Patterns :
                    replace_sequences(items, p, new) = Rewritten(items, p, new)
=============================================================================
