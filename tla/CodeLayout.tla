----------------------------- MODULE CodeLayout -----------------------------
(***************************************************************************)
(* Lowering of a method's code from items with labels to instructions with  *)
(* offsets (compute_code_layout and lower_code_model of model/mod.rs).      *)
(*                                                                         *)
(* The size of a branch depends on the distance to its label, the padding   *)
(* of a switch on its offset, and all distances on all sizes.  The code     *)
(* starts with every branch short and repeats: offsets of the labels for    *)
(* the present encodings, then encodings for these offsets; it stops when   *)
(* nothing changes, and after MaxRounds in any case.                        *)
(***************************************************************************)
EXTENDS Integers, Sequences

CONSTANTS
    Programs,   \* the codes to lower: sequences of items
    Reach,      \* the largest forward distance of a short branch, i16::MAX
    MaxRounds   \* rounds of the loop, 8 in the code

VARIABLES
    program,
    encodings,  \* of each item: short, wide, inverted
    labels,     \* the offset of each label, from the last round
    round,
    changed,    \* the last round changed an encoding
    phase       \* "layout", "emitted", "refused"

vars == <<program, encodings, labels, round, changed, phase>>

-----------------------------------------------------------------------------
(* Items.  A plain item has one size in every round (an ldc keeps the       *)
(* constant-pool index of the first); the rest of a switch is its table.    *)

Label(l) == [kind |-> "label", label |-> l]
Plain(size) == [kind |-> "plain", size |-> size]
Goto(l) == [kind |-> "branch", target |-> l, jump |-> TRUE]
If(l) == [kind |-> "branch", target |-> l, jump |-> FALSE]
Switch(l, table) == [kind |-> "switch", target |-> l, size |-> table]

Places(p, l) == {i \in DOMAIN p : p[i].kind = "label" /\ p[i].label = l}

Targets(p) == {p[i].target : i \in {i \in DOMAIN p : p[i].kind \in {"branch", "switch"}}}

LabelsOf(p) == {p[i].label : i \in {i \in DOMAIN p : p[i].kind = "label"}}

switch_padding(offset) == (4 - ((offset + 1) % 4)) % 4

\* A wrong size of an inverted branch: two short ones.
SizeTooShort(item, encoding, offset) ==
    CASE item.kind = "label" -> 0
      [] item.kind = "plain" -> item.size
      [] item.kind = "switch" -> 1 + switch_padding(offset) + item.size
      [] item.kind = "branch" /\ encoding = "short" -> 3
      [] item.kind = "branch" /\ encoding = "wide" -> 5
      [] item.kind = "branch" /\ encoding = "inverted" -> 6

instruction_size(item, encoding, offset) ==
    CASE item.kind = "label" -> 0
      [] item.kind = "plain" -> item.size
      [] item.kind = "switch" -> 1 + switch_padding(offset) + item.size
      [] item.kind = "branch" /\ encoding = "short" -> 3
      [] item.kind = "branch" /\ encoding = "wide" -> 5
      [] item.kind = "branch" /\ encoding = "inverted" -> 8

fits_i16(delta) == delta \in -(Reach + 1)..Reach

-----------------------------------------------------------------------------
(* One round. *)

\* compute_label_offsets: item by item; of a label that stands twice the last
\* place counts.
Starts(p, enc) ==
    LET start[i \in 1..(Len(p) + 1)] ==
            IF i = 1 THEN 0
            ELSE start[i - 1] + instruction_size(p[i - 1], enc[i - 1], start[i - 1])
    IN  start

compute_label_offsets(p, enc) ==
    LET start == Starts(p, enc)
    IN  [l \in LabelsOf(p) |->
            start[CHOOSE i \in Places(p, l) : \A j \in Places(p, l) : j <= i]]

Required(item, offset, offsets) ==
    IF item.kind # "branch" \/ fits_i16(offsets[item.target] - offset) THEN "short"
    ELSE IF item.jump THEN "wide" ELSE "inverted"

\* The walk of a round: labels bring the offset back to the round's label
\* offsets, sizes are those of the encodings just chosen.
Walk(p, offsets) ==
    LET at[i \in 1..(Len(p) + 1)] ==
            IF i = 1 THEN 0
            ELSE LET item == p[i - 1]
                 IN  IF item.kind = "label" THEN offsets[item.label]
                     ELSE at[i - 1] + instruction_size(item, Required(item, at[i - 1], offsets), at[i - 1])
    IN  at

Round ==
    /\ phase = "layout" /\ changed /\ round < MaxRounds
    /\ Targets(program) \subseteq LabelsOf(program)
    /\ round' = round + 1
    /\ labels' = compute_label_offsets(program, encodings)
    /\ encodings' = [i \in DOMAIN program |->
                        Required(program[i], Walk(program, labels')[i], labels')]
    /\ changed' = (encodings' # encodings)
    /\ UNCHANGED <<program, phase>>

\* A branch or switch to a label that is nowhere.
MissingTarget ==
    /\ phase = "layout"
    /\ ~(Targets(program) \subseteq LabelsOf(program))
    /\ phase' = "refused"
    /\ UNCHANGED <<program, encodings, labels, round, changed>>

-----------------------------------------------------------------------------
(* The instructions that are written. *)

\* item_offsets: the same walk with the encodings as they are.
item_offsets ==
    LET at[i \in 1..(Len(program) + 1)] ==
            IF i = 1 THEN 0
            ELSE LET item == program[i - 1]
                 IN  IF item.kind = "label" THEN labels[item.label]
                     ELSE at[i - 1] + instruction_size(item, encodings[i - 1], at[i - 1])
    IN  at

\* The lengths of the instructions an item becomes; the writer pads a switch by
\* the offset noted in it.
Lowered(item, encoding, offset) ==
    CASE item.kind = "label" -> <<>>
      [] item.kind = "plain" -> <<item.size>>
      [] item.kind = "switch" -> <<1 + switch_padding(offset) + item.size>>
      [] item.kind = "branch" /\ encoding = "short" -> <<3>>
      [] item.kind = "branch" /\ encoding = "wide" -> <<5>>
      [] item.kind = "branch" /\ encoding = "inverted" -> <<3, 5>>

Bytes(i) ==
    LET lengths == Lowered(program[i], encodings[i], item_offsets[i])
    IN  CASE Len(lengths) = 0 -> 0 [] Len(lengths) = 1 -> lengths[1]
          [] Len(lengths) = 2 -> lengths[1] + lengths[2]

\* Where each item's instructions really are in the method's bytes.
Positions ==
    LET at[i \in 1..(Len(program) + 1)] == IF i = 1 THEN 0 ELSE at[i - 1] + Bytes(i - 1)
    IN  at

\* i16::try_from of the distance of a branch that stayed short.
Encodable(delta) == delta \in -(Reach + 1)..Reach

Distance(i) == labels[program[i].target] - item_offsets[i]

Emit ==
    /\ phase = "layout"
    /\ round > 0 /\ (~changed \/ round = MaxRounds)
    /\ phase' = IF \A i \in DOMAIN program :
                    program[i].kind = "branch" /\ encodings[i] = "short" => Encodable(Distance(i))
                THEN "emitted" ELSE "refused"
    /\ UNCHANGED <<program, encodings, labels, round, changed>>

-----------------------------------------------------------------------------
Init ==
    /\ program \in Programs
    /\ encodings = [i \in DOMAIN program |-> "short"]
    /\ labels = [l \in {} |-> 0]
    /\ round = 0
    /\ changed = TRUE
    /\ phase = "layout"

Next == Round \/ MissingTarget \/ Emit

Spec == Init /\ [][Next]_vars

-----------------------------------------------------------------------------
(* Assumptions. *)

ASSUME LayoutLimits == Reach \in Nat /\ MaxRounds \in Nat \ {0}

\* Codes are sequences of items, and the sizes of plain items and tables numbers.
ASSUME ItemShapes ==
    \A p \in Programs :
        /\ Len(p) \in Nat /\ DOMAIN p = 1..Len(p)
        /\ \A i \in DOMAIN p :
              /\ p[i].kind \in {"label", "plain", "switch", "branch"}
              /\ p[i].kind \in {"plain", "switch"} => p[i].size \in Nat

\* Codes that hold no label twice, as every code lifted from a class file does.
ASSUME LabelsOnce ==
    \A p \in Programs : \A i, j \in DOMAIN p :
        p[i].kind = "label" /\ p[j].kind = "label" /\ p[i].label = p[j].label => i = j

-----------------------------------------------------------------------------
(* Properties. *)

\* Every branch and switch lands on its label, the second half of an inverted
\* pair is skipped to the next instruction, switch tables are aligned, and the
\* labels that handlers and debug tables use stand where they should.
LayoutIsReal ==
    \A i \in DOMAIN program :
        LET item == program[i]
            target == CHOOSE j \in Places(program, item.target) : TRUE
        IN  /\ item.kind = "label" => labels[item.label] = Positions[i]
            /\ item.kind \in {"branch", "switch"} => Positions[i] + Distance(i) = Positions[target]
            /\ item.kind = "branch" /\ encodings[i] = "inverted" => Positions[i] + 8 = Positions[i + 1]
            /\ item.kind = "switch" => (Positions[i] + 1 + switch_padding(item_offsets[i])) % 4 = 0

\* When the loop stopped because nothing changed, the bytes are right: no jump
\* goes astray through widening, padding or shrinking again.
SettledLayoutIsReal == phase = "emitted" /\ ~changed => LayoutIsReal

\* Whatever is written has its branches on instructions: "all branch targets
\* are valid instruction offsets".
EveryLayoutIsReal == phase = "emitted" => LayoutIsReal
=============================================================================
