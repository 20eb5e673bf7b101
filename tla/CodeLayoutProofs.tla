-------------------------- MODULE CodeLayoutProofs --------------------------
(***************************************************************************)
(* When the loop that chooses the branch encodings stops because nothing    *)
(* changes, the offsets it worked with are those of the bytes, for every    *)
(* program and every reach.                                                 *)
(***************************************************************************)
EXTENDS CodeLayout, Induction

-----------------------------------------------------------------------------
(* The invariant. *)

Encodings == {"short", "wide", "inverted"}

Encoded(p) == [DOMAIN p -> Encodings]

\* The labels of a round without a change are those of the present encodings,
\* and these are what the round asked for.
LInv ==
    /\ program \in Programs
    /\ encodings \in Encoded(program)
    /\ ~changed =>
         /\ Targets(program) \subseteq LabelsOf(program)
         /\ labels = compute_label_offsets(program, encodings)
         /\ encodings = [i \in DOMAIN program |-> Required(program[i], Walk(program, labels)[i], labels)]

LEMMA RequiredIsEncoding ==
    ASSUME NEW item, NEW offset, NEW offsets
    PROVE  Required(item, offset, offsets) \in Encodings
BY DEF Required, Encodings

LEMMA InitLInv == Init => LInv
BY DEF Init, LInv, Encoded, Encodings

LEMMA NextLInv == LInv /\ [Next]_vars => LInv'
<1> SUFFICES ASSUME LInv, [Next]_vars PROVE LInv'
  OBVIOUS
<1>1. CASE Round
  <2> DEFINE walk == Walk(program, labels')
  <2>1. /\ Targets(program) \subseteq LabelsOf(program) /\ program' = program
        /\ labels' = compute_label_offsets(program, encodings)
        /\ encodings' = [i \in DOMAIN program |-> Required(program[i], walk[i], labels')]
        /\ changed' = (encodings' # encodings)
    BY <1>1 DEF Round
  <2> HIDE DEF walk
  <2>2. encodings' \in Encoded(program)
    BY <2>1, RequiredIsEncoding DEF Encoded
  <2>3. ~changed' => encodings' = encodings
    BY <2>1
  <2> QED BY <2>1, <2>2, <2>3 DEF LInv, walk
<1>2. CASE MissingTarget
  BY <1>2 DEF MissingTarget, LInv
<1>3. CASE Emit
  BY <1>3 DEF Emit, LInv
<1>4. CASE UNCHANGED vars
  BY <1>4 DEF vars, LInv
<1> QED BY <1>1, <1>2, <1>3, <1>4 DEF Next

\* Labels and encodings belong together in every state in which the last round
\* changed nothing (model/mod.rs: compute_code_layout).
THEOREM LayoutInvariance == Spec => []LInv
<1> QED BY InitLInv, NextLInv, PTL DEF Spec

-----------------------------------------------------------------------------
(* Offsets of items. *)

\* What one item takes at an offset.
LEMMA SizeIsNat ==
    ASSUME NEW p \in Programs, NEW i \in 1..Len(p), NEW e \in Encodings, NEW o \in Nat
    PROVE  instruction_size(p[i], e, o) \in Nat
<1> DEFINE item == p[i]
<1>1. /\ item.kind \in {"label", "plain", "switch", "branch"}
      /\ item.kind \in {"plain", "switch"} => item.size \in Nat
  BY ItemShapes
<1> HIDE DEF item
<1>2. switch_padding(o) \in Nat
  BY DEF switch_padding
<1> HIDE DEF switch_padding
<1>3. CASE item.kind = "label"
  BY <1>3 DEF instruction_size, item
<1>4. CASE item.kind = "plain"
  BY <1>1, <1>4 DEF instruction_size, item
<1>5. CASE item.kind = "switch"
  BY <1>1, <1>2, <1>5 DEF instruction_size, item
<1>6. CASE item.kind = "branch"
  BY <1>6 DEF instruction_size, item, Encodings
<1> QED BY <1>1, <1>3, <1>4, <1>5, <1>6 DEF item

LEMMA StartsFacts ==
    ASSUME NEW p \in Programs, NEW enc \in Encoded(p)
    PROVE  LET start == Starts(p, enc)
           IN  /\ \A i \in 1..(Len(p) + 1) : start[i] \in Nat
               /\ start[1] = 0
               /\ \A i \in 1..Len(p) : start[i + 1] = start[i] + instruction_size(p[i], enc[i], start[i])
<1> DEFINE n == Len(p)
           next(i, o) == o + instruction_size(p[i], enc[i], o)
           step == [i \in 1..n |-> [o \in Nat |-> next(i, o)]]
           Fits(f) == f = [i \in 1..(n + 1) |-> IF i = 1 THEN 0 ELSE next(i - 1, f[i - 1])]
           start == CHOOSE f : Fits(f)
<1>1. n \in Nat /\ DOMAIN p = 1..n
  BY ItemShapes
<1>2. \A i \in 1..n, o \in Nat : next(i, o) \in Nat
  <2> SUFFICES ASSUME NEW i \in 1..n, NEW o \in Nat PROVE next(i, o) \in Nat
    OBVIOUS
  <2>1. enc[i] \in Encodings
    BY <1>1 DEF Encoded
  <2>2. instruction_size(p[i], enc[i], o) \in Nat
    BY <2>1, SizeIsNat
  <2> QED BY <2>2
<1> HIDE DEF n, next
<1>3. step \in [1..n -> [Nat -> Nat]] /\ \A i \in 1..n, o \in Nat : step[i][o] = next(i, o)
  BY <1>2
<1> HIDE DEF step
<1>4. PICK f \in [1..(n + 1) -> Nat] : RecursiveFromOne(n, 0, step, f)
  <2> DEFINE zero == 0
  <2>1. zero \in Nat
    OBVIOUS
  <2> HIDE DEF zero
  <2>2. \E f \in [1..(n + 1) -> Nat] : RecursiveFromOne(n, zero, step, f)
    BY <1>1, <1>3, <2>1, RecursionFromOne
  <2> QED BY <2>2 DEF zero
<1>5. ASSUME NEW i \in 1..(n + 1), i # 1 PROVE f[i] = next(i - 1, f[i - 1])
  <2>1. i - 1 \in 1..n /\ i - 1 \in 1..(n + 1) /\ (i - 1) + 1 = i
    BY <1>1, <1>5
  <2>2. f[i] = step[i - 1][f[i - 1]]
    BY <2>1, <1>4 DEF RecursiveFromOne
  <2>3. f[i - 1] \in Nat
    BY <2>1
  <2> QED BY <2>1, <2>2, <2>3, <1>3
<1>6. Fits(f)
  <2>1. f = [i \in 1..(n + 1) |-> f[i]]
    OBVIOUS
  <2>2. \A i \in 1..(n + 1) : f[i] = IF i = 1 THEN 0 ELSE next(i - 1, f[i - 1])
    BY <1>4, <1>5 DEF RecursiveFromOne
  <2> QED BY <2>1, <2>2
<1>7. Fits(start)
  <2> HIDE DEF Fits
  <2> QED BY <1>6
<1>8. start[1] = 0 /\ \A i \in 1..n : start[i + 1] = next(i, start[i])
  <2> HIDE DEF start
  <2>1. \A i \in 1..n : i + 1 \in 1..(n + 1) /\ (i + 1) # 1 /\ (i + 1) - 1 = i
    BY <1>1
  <2>2. \A i \in 1..(n + 1) : start[i] = IF i = 1 THEN 0 ELSE next(i - 1, start[i - 1])
    BY <1>7
  <2>3. 1 \in 1..(n + 1)
    BY <1>1
  <2> QED BY <2>1, <2>2, <2>3
<1>9. \A i \in 1..(n + 1) : start[i] \in Nat
  <2> DEFINE T == {i \in 1..(n + 1) : start[i] \in Nat}
  <2> HIDE DEF start
  <2>1. 1 \in T
    BY <1>1, <1>8
  <2>2. ASSUME NEW i \in 1..n, i \in T PROVE i + 1 \in T
    <3>1. next(i, start[i]) \in Nat
      BY <1>2, <2>2
    <3>2. i + 1 \in 1..(n + 1) /\ start[i + 1] \in Nat
      BY <1>1, <1>8, <3>1
    <3> QED BY <3>2
  <2>3. 1..(n + 1) \subseteq T
    <3> HIDE DEF T
    <3> QED BY <1>1, <2>1, <2>2, UpToFromOne
  <2> QED BY <2>3
<1>10. Starts(p, enc) = start
  BY DEF Starts, Fits, next, n
<1> HIDE DEF start
<1> QED BY <1>8, <1>9, <1>10 DEF n, next

\* A label has the offset of the place where it stands.
LEMMA LabelOffset ==
    ASSUME NEW p \in Programs, NEW enc, NEW i \in 1..Len(p), p[i].kind = "label"
    PROVE  compute_label_offsets(p, enc)[p[i].label] = Starts(p, enc)[i]
<1> DEFINE l == p[i].label
           start == Starts(p, enc)
<1>1. DOMAIN p = 1..Len(p)
  BY ItemShapes
<1>2. l \in LabelsOf(p)
  BY <1>1 DEF LabelsOf
<1>3. Places(p, l) = {i}
  BY <1>1, LabelsOnce DEF Places
<1>4. (CHOOSE k \in Places(p, l) : \A j \in Places(p, l) : j <= k) = i
  BY <1>1, <1>3, ItemShapes
<1> HIDE DEF l, start
<1>5. compute_label_offsets(p, enc)[l] =
         start[CHOOSE k \in Places(p, l) : \A j \in Places(p, l) : j <= k]
  BY <1>2 DEF compute_label_offsets, start
<1> QED BY <1>4, <1>5 DEF l, start

\* The invariant in a state where the last round changed nothing.
Settled == LInv /\ ~changed

LEMMA SettledFacts ==
    ASSUME Settled
    PROVE  LET start == Starts(program, encodings)
               n == Len(program)
           IN  /\ n \in Nat /\ DOMAIN program = 1..n
               /\ start[1] = 0 /\ \A i \in 1..(n + 1) : start[i] \in Nat
               /\ \A i \in 1..n : start[i + 1] =
                     start[i] + instruction_size(program[i], encodings[i], start[i])
               /\ \A i \in 1..n : program[i].kind = "label" =>
                     labels[program[i].label] = start[i] /\ start[i + 1] = start[i]
<1>1. program \in Programs /\ encodings \in Encoded(program)
      /\ labels = compute_label_offsets(program, encodings)
  BY DEF Settled, LInv
<1> DEFINE start == Starts(program, encodings)
           n == Len(program)
<1>2. n \in Nat /\ DOMAIN program = 1..n
  BY <1>1, ItemShapes
<1>3. /\ start[1] = 0 /\ \A i \in 1..(n + 1) : start[i] \in Nat
      /\ \A i \in 1..n : start[i + 1] =
            start[i] + instruction_size(program[i], encodings[i], start[i])
  BY <1>1, StartsFacts
<1>4. ASSUME NEW i \in 1..n, program[i].kind = "label"
      PROVE  labels[program[i].label] = start[i] /\ start[i + 1] = start[i]
  <2>1. labels[program[i].label] = start[i]
    BY <1>1, <1>4, LabelOffset
  <2>2. instruction_size(program[i], encodings[i], start[i]) = 0
    BY <1>4 DEF instruction_size
  <2>3. start[i] \in Nat
    <3> HIDE DEF start, n
    <3>1. i \in 1..(n + 1)
      BY <1>2
    <3> QED BY <3>1, <1>3
  <2> HIDE DEF start, n
  <2> QED BY <2>1, <2>2, <2>3, <1>3
<1> QED BY <1>2, <1>3, <1>4

\* Offsets found from the encodings and the labels are those the labels came from.
LEMMA OffsetsAreStarts ==
    ASSUME Settled
    PROVE  \A i \in 1..(Len(program) + 1) : item_offsets[i] = Starts(program, encodings)[i]
<1> DEFINE start == Starts(program, encodings)
           n == Len(program)
           next(i, o) == IF program[i].kind = "label" THEN labels[program[i].label]
                         ELSE o + instruction_size(program[i], encodings[i], o)
           Fits(f) == f = [i \in 1..(n + 1) |-> IF i = 1 THEN 0 ELSE next(i - 1, f[i - 1])]
           at == CHOOSE f : Fits(f)
           s == [i \in 1..(n + 1) |-> start[i]]
<1>1. /\ n \in Nat /\ start[1] = 0
      /\ \A i \in 1..n : start[i + 1] = next(i, start[i])
  BY SettledFacts
<1>2. item_offsets = at
  BY DEF item_offsets
<1> HIDE DEF start, n, next
<1>3. Fits(s)
  <2>1. \A i \in 1..(n + 1) : i # 1 => i - 1 \in 1..n /\ i - 1 \in 1..(n + 1) /\ (i - 1) + 1 = i
    BY <1>1
  <2>2. \A i \in 1..(n + 1) : s[i] = IF i = 1 THEN 0 ELSE next(i - 1, s[i - 1])
    BY <1>1, <2>1
  <2>3. s = [i \in 1..(n + 1) |-> s[i]]
    OBVIOUS
  <2> HIDE DEF s
  <2> QED BY <2>2, <2>3
<1>4. Fits(at)
  <2> HIDE DEF Fits, s
  <2> QED BY <1>3
<1> HIDE DEF at
<1>5. at[1] = 0 /\ \A i \in 1..n : at[i + 1] = next(i, at[i])
  <2>1. \A i \in 1..n : i + 1 \in 1..(n + 1) /\ (i + 1) # 1 /\ (i + 1) - 1 = i
    BY <1>1
  <2>2. \A i \in 1..(n + 1) : at[i] = IF i = 1 THEN 0 ELSE next(i - 1, at[i - 1])
    BY <1>4
  <2>3. 1 \in 1..(n + 1)
    BY <1>1
  <2> QED BY <2>1, <2>2, <2>3
<1> DEFINE T == {i \in 1..(n + 1) : at[i] = start[i]}
<1>6. 1 \in T /\ \A i \in 1..n : i \in T => i + 1 \in T
  BY <1>1, <1>5
<1>7. 1..(n + 1) \subseteq T
  <2> HIDE DEF T
  <2> QED BY <1>1, <1>6, UpToFromOne
<1> QED BY <1>2, <1>7 DEF n, start

\* An item becomes as many bytes as its size.
LEMMA BytesAreSize ==
    ASSUME Settled, NEW i \in 1..Len(program)
    PROVE  Bytes(i) = instruction_size(program[i], encodings[i], item_offsets[i])
<1> DEFINE item == program[i]
           e == encodings[i]
           o == item_offsets[i]
           pad == switch_padding(o)
<1>1. item.kind \in {"label", "plain", "switch", "branch"}
  BY ItemShapes DEF Settled, LInv
<1>2. e \in Encodings
  BY SettledFacts DEF Settled, LInv, Encoded
<1> HIDE DEF item, e, o
<1>3. Bytes(i) = LET lengths == Lowered(item, e, o)
                 IN  CASE Len(lengths) = 0 -> 0 [] Len(lengths) = 1 -> lengths[1]
                       [] Len(lengths) = 2 -> lengths[1] + lengths[2]
  BY DEF Bytes, item, e, o
<1>4. ASSUME NEW x PROVE Len(<<x>>) = 1 /\ <<x>>[1] = x
  OBVIOUS
<1>5. Len(<<>>) = 0 /\ Len(<<3, 5>>) = 2 /\ <<3, 5>>[1] = 3 /\ <<3, 5>>[2] = 5
  OBVIOUS
<1>6. CASE item.kind = "label"
  <2>1. Lowered(item, e, o) = <<>>
    BY <1>6 DEF Lowered
  <2> QED BY <2>1, <1>3, <1>5, <1>6 DEF instruction_size, item, e, o
<1>7. CASE item.kind = "plain"
  <2>1. Lowered(item, e, o) = <<item.size>>
    BY <1>7 DEF Lowered
  <2>2. Bytes(i) = item.size
    BY <2>1, <1>3, <1>4
  <2> QED BY <2>2, <1>7 DEF instruction_size, item, e, o
<1>8. CASE item.kind = "switch"
  <2>1. Lowered(item, e, o) = <<1 + switch_padding(o) + item.size>>
    BY <1>8 DEF Lowered
  <2>2. Bytes(i) = 1 + switch_padding(o) + item.size
    BY <2>1, <1>3, <1>4
  <2> QED BY <2>2, <1>8 DEF instruction_size, item, e, o
<1>9. CASE item.kind = "branch" /\ e = "short"
  <2>1. Lowered(item, e, o) = <<3>>
    BY <1>9 DEF Lowered
  <2>2. Bytes(i) = 3
    BY <2>1, <1>3, <1>4
  <2> QED BY <2>2, <1>9 DEF instruction_size, item, e, o
<1>10. CASE item.kind = "branch" /\ e = "wide"
  <2>1. Lowered(item, e, o) = <<5>>
    BY <1>10 DEF Lowered
  <2>2. Bytes(i) = 5
    BY <2>1, <1>3, <1>4
  <2> QED BY <2>2, <1>10 DEF instruction_size, item, e, o
<1>11. CASE item.kind = "branch" /\ e = "inverted"
  <2>1. Lowered(item, e, o) = <<3, 5>>
    BY <1>11 DEF Lowered
  <2>2. Bytes(i) = 8
    BY <2>1, <1>3, <1>5
  <2> QED BY <2>2, <1>11 DEF instruction_size, item, e, o
<1> QED BY <1>1, <1>2, <1>6, <1>7, <1>8, <1>9, <1>10, <1>11 DEF Encodings

\* The bytes are where the offsets say.
LEMMA PositionsAreStarts ==
    ASSUME Settled
    PROVE  \A i \in 1..(Len(program) + 1) : Positions[i] = Starts(program, encodings)[i]
<1> DEFINE start == Starts(program, encodings)
           n == Len(program)
           next(i, o) == o + Bytes(i)
           Fits(f) == f = [i \in 1..(n + 1) |-> IF i = 1 THEN 0 ELSE next(i - 1, f[i - 1])]
           at == CHOOSE f : Fits(f)
           s == [i \in 1..(n + 1) |-> start[i]]
<1>1. n \in Nat /\ start[1] = 0
  BY SettledFacts
<1>2. ASSUME NEW i \in 1..n PROVE start[i + 1] = next(i, start[i])
  <2>1. start[i + 1] = start[i] + instruction_size(program[i], encodings[i], start[i])
    BY SettledFacts
  <2>2. i \in 1..(n + 1)
    BY <1>1
  <2>3. Bytes(i) = instruction_size(program[i], encodings[i], start[i])
    BY <2>2, BytesAreSize, OffsetsAreStarts
  <2> QED BY <2>1, <2>3
<1>3. Positions = at
  BY DEF Positions
<1> HIDE DEF start, n, next
<1>4. Fits(s)
  <2>1. \A i \in 1..(n + 1) : i # 1 => i - 1 \in 1..n /\ i - 1 \in 1..(n + 1) /\ (i - 1) + 1 = i
    BY <1>1
  <2>2. \A i \in 1..(n + 1) : s[i] = IF i = 1 THEN 0 ELSE next(i - 1, s[i - 1])
    BY <1>1, <1>2, <2>1
  <2>3. s = [i \in 1..(n + 1) |-> s[i]]
    OBVIOUS
  <2> HIDE DEF s
  <2> QED BY <2>2, <2>3
<1>5. Fits(at)
  <2> HIDE DEF Fits, s
  <2> QED BY <1>4
<1> HIDE DEF at
<1>6. at[1] = 0 /\ \A i \in 1..n : at[i + 1] = next(i, at[i])
  <2>1. \A i \in 1..n : i + 1 \in 1..(n + 1) /\ (i + 1) # 1 /\ (i + 1) - 1 = i
    BY <1>1
  <2>2. \A i \in 1..(n + 1) : at[i] = IF i = 1 THEN 0 ELSE next(i - 1, at[i - 1])
    BY <1>5
  <2>3. 1 \in 1..(n + 1)
    BY <1>1
  <2> QED BY <2>1, <2>2, <2>3
<1> DEFINE T == {i \in 1..(n + 1) : at[i] = start[i]}
<1>7. 1 \in T /\ \A i \in 1..n : i \in T => i + 1 \in T
  BY <1>1, <1>2, <1>6
<1>8. 1..(n + 1) \subseteq T
  <2> HIDE DEF T
  <2> QED BY <1>1, <1>7, UpToFromOne
<1> QED BY <1>3, <1>8 DEF n, start

-----------------------------------------------------------------------------
(* What follows. *)

\* Tables of switches begin at multiples of four.
LEMMA TableAligned ==
    ASSUME NEW o \in Nat
    PROVE  (o + 1 + switch_padding(o)) % 4 = 0
BY DEF switch_padding

LEMMA SettledIsReal ==
    ASSUME Settled
    PROVE  LayoutIsReal
<1> DEFINE start == Starts(program, encodings)
           n == Len(program)
<1>1. /\ n \in Nat /\ DOMAIN program = 1..n
      /\ \A i \in 1..(n + 1) : start[i] \in Nat
      /\ \A i \in 1..n : start[i + 1] =
            start[i] + instruction_size(program[i], encodings[i], start[i])
      /\ \A i \in 1..n : program[i].kind = "label" => labels[program[i].label] = start[i]
  BY SettledFacts
<1>2. \A i \in 1..(n + 1) : Positions[i] = start[i] /\ item_offsets[i] = start[i]
  BY PositionsAreStarts, OffsetsAreStarts
<1>3. /\ program \in Programs /\ encodings \in Encoded(program)
      /\ Targets(program) \subseteq LabelsOf(program)
  BY DEF Settled, LInv
<1> HIDE DEF start, n
<1>4. \A i \in 1..n : i \in 1..(n + 1) /\ i + 1 \in 1..(n + 1)
  BY <1>1
<1> SUFFICES ASSUME NEW i \in 1..n
             PROVE  LET item == program[i]
                        target == CHOOSE j \in Places(program, item.target) : TRUE
                    IN  /\ item.kind = "label" => labels[item.label] = Positions[i]
                        /\ item.kind \in {"branch", "switch"} => Positions[i] + Distance(i) = Positions[target]
                        /\ item.kind = "branch" /\ encodings[i] = "inverted" => Positions[i] + 8 = Positions[i + 1]
                        /\ item.kind = "switch" => (Positions[i] + 1 + switch_padding(item_offsets[i])) % 4 = 0
  BY <1>1 DEF LayoutIsReal
<1> DEFINE item == program[i]
           target == CHOOSE j \in Places(program, item.target) : TRUE
<1>5. item.kind = "label" => labels[item.label] = Positions[i]
  BY <1>1, <1>2, <1>4
<1>6. ASSUME item.kind \in {"branch", "switch"}
      PROVE  Positions[i] + Distance(i) = Positions[target]
  <2>1. item.target \in LabelsOf(program)
    BY <1>1, <1>3, <1>6 DEF Targets
  <2>2. PICK k \in 1..n : program[k].kind = "label" /\ program[k].label = item.target
    BY <2>1, <1>1 DEF LabelsOf
  <2>3. k \in Places(program, item.target)
    BY <2>2, <1>1 DEF Places
  <2>4. target \in Places(program, item.target)
    BY <2>3
  <2> HIDE DEF target
  <2>5. target \in 1..n /\ program[target].kind = "label" /\ program[target].label = item.target
    BY <2>4, <1>1 DEF Places
  <2>6. labels[item.target] = start[target]
    BY <2>5, <1>1
  <2>7. Distance(i) = start[target] - start[i]
    BY <2>6, <1>2, <1>4 DEF Distance
  <2>8. start[i] \in Nat /\ start[target] \in Nat
    BY <2>5, <1>1, <1>4
  <2> QED BY <2>5, <2>7, <2>8, <1>2, <1>4
<1>7. item.kind = "branch" /\ encodings[i] = "inverted" => Positions[i] + 8 = Positions[i + 1]
  <2>1. item.kind = "branch" /\ encodings[i] = "inverted" =>
           instruction_size(item, encodings[i], start[i]) = 8
    BY DEF instruction_size
  <2> QED BY <2>1, <1>1, <1>2, <1>4
<1>8. (Positions[i] + 1 + switch_padding(item_offsets[i])) % 4 = 0
  <2>1. start[i] \in Nat /\ Positions[i] = start[i] /\ item_offsets[i] = start[i]
    BY <1>1, <1>2, <1>4
  <2> QED BY <2>1, TableAligned
<1> HIDE DEF target
<1> QED BY <1>5, <1>6, <1>7, <1>8 DEF target

\* A layout whose last round changed nothing has every jump, label and table
\* where the bytes have it (model/mod.rs: compute_code_layout, lower_code_model),
\* whatever the program, the reach of a short branch and the number of rounds.
THEOREM SettledLayoutIsAlwaysReal == Spec => []SettledLayoutIsReal
<1>1. LInv => SettledLayoutIsReal
  BY SettledIsReal DEF Settled, SettledLayoutIsReal
<1> QED BY <1>1, LayoutInvariance, PTL

-----------------------------------------------------------------------------
(* Short branches reach. *)

\* The walk that chose the encodings saw the offsets of the bytes too.
LEMMA WalkIsStarts ==
    ASSUME Settled
    PROVE  \A i \in 1..Len(program) : Walk(program, labels)[i] = Starts(program, encodings)[i]
<1> DEFINE start == Starts(program, encodings)
           n == Len(program)
           size(i, o) == instruction_size(program[i], Required(program[i], o, labels), o)
           next(i, o) == IF program[i].kind = "label" THEN labels[program[i].label] ELSE o + size(i, o)
           step == [i \in 1..n |-> [o \in Nat |-> next(i, o)]]
           Fits(f) == f = [i \in 1..(n + 1) |-> IF i = 1 THEN 0 ELSE next(i - 1, f[i - 1])]
           at == CHOOSE f : Fits(f)
<1>1. /\ n \in Nat /\ DOMAIN program = 1..n
      /\ start[1] = 0 /\ \A i \in 1..(n + 1) : start[i] \in Nat
      /\ \A i \in 1..n : start[i + 1] =
            start[i] + instruction_size(program[i], encodings[i], start[i])
      /\ \A i \in 1..n : program[i].kind = "label" =>
            labels[program[i].label] = start[i] /\ start[i + 1] = start[i]
  BY SettledFacts
<1>2. /\ program \in Programs
      /\ encodings = [i \in DOMAIN program |-> Required(program[i], Walk(program, labels)[i], labels)]
  BY DEF Settled, LInv
<1>3. \A i \in 1..n, o \in Nat : size(i, o) \in Nat
  BY <1>2, RequiredIsEncoding, SizeIsNat
<1> HIDE DEF size
<1>4. Walk(program, labels) = at
  BY DEF Walk, size
<1>5. \A i \in 1..n, o \in Nat : next(i, o) \in Nat
  <2> SUFFICES ASSUME NEW i \in 1..n, NEW o \in Nat PROVE next(i, o) \in Nat
    OBVIOUS
  <2>1. size(i, o) \in Nat /\ start[i] \in Nat
    <3> HIDE DEF start, n
    <3>1. i \in 1..(n + 1)
      BY <1>1
    <3> QED BY <3>1, <1>1, <1>3
  <2> HIDE DEF start
  <2> QED BY <2>1, <1>1
<1> HIDE DEF start, n, next
<1>6. step \in [1..n -> [Nat -> Nat]] /\ \A i \in 1..n, o \in Nat : step[i][o] = next(i, o)
  BY <1>5
<1> HIDE DEF step
<1>7. PICK f \in [1..(n + 1) -> Nat] : RecursiveFromOne(n, 0, step, f)
  <2> DEFINE zero == 0
  <2>1. zero \in Nat
    OBVIOUS
  <2> HIDE DEF zero
  <2>2. \E f \in [1..(n + 1) -> Nat] : RecursiveFromOne(n, zero, step, f)
    BY <1>1, <1>6, <2>1, RecursionFromOne
  <2> QED BY <2>2 DEF zero
<1>8. ASSUME NEW i \in 1..(n + 1), i # 1 PROVE f[i] = next(i - 1, f[i - 1])
  <2>1. i - 1 \in 1..n /\ i - 1 \in 1..(n + 1) /\ (i - 1) + 1 = i
    BY <1>1, <1>8
  <2>2. f[i] = step[i - 1][f[i - 1]]
    BY <2>1, <1>7 DEF RecursiveFromOne
  <2>3. f[i - 1] \in Nat
    BY <2>1
  <2> QED BY <2>1, <2>2, <2>3, <1>6
<1>9. Fits(f)
  <2>1. f = [i \in 1..(n + 1) |-> f[i]]
    OBVIOUS
  <2>2. \A i \in 1..(n + 1) : f[i] = IF i = 1 THEN 0 ELSE next(i - 1, f[i - 1])
    BY <1>7, <1>8 DEF RecursiveFromOne
  <2> QED BY <2>1, <2>2
<1>10. Fits(at)
  <2> HIDE DEF Fits
  <2> QED BY <1>9
<1> HIDE DEF at
<1>11. at[1] = 0 /\ \A i \in 1..n : at[i + 1] = next(i, at[i])
  <2>1. \A i \in 1..n : i + 1 \in 1..(n + 1) /\ (i + 1) # 1 /\ (i + 1) - 1 = i
    BY <1>1
  <2>2. \A i \in 1..(n + 1) : at[i] = IF i = 1 THEN 0 ELSE next(i - 1, at[i - 1])
    BY <1>10
  <2>3. 1 \in 1..(n + 1)
    BY <1>1
  <2> QED BY <2>1, <2>2, <2>3
<1> DEFINE T == {i \in 1..(n + 1) : at[i] = start[i]}
<1>12. ASSUME NEW i \in 1..n, i \in T PROVE i + 1 \in T
  <2>1. i + 1 \in 1..(n + 1) /\ at[i + 1] = next(i, start[i])
    BY <1>1, <1>11, <1>12
  <2>2. encodings[i] = Required(program[i], start[i], labels)
    BY <1>1, <1>2, <1>4, <1>12
  <2>3. next(i, start[i]) = start[i + 1]
    BY <2>2, <1>1 DEF next, size
  <2> QED BY <2>1, <2>3
<1>13. 1 \in T
  BY <1>1, <1>11
<1>14. 1..(n + 1) \subseteq T
  <2> HIDE DEF T
  <2> QED BY <1>1, <1>12, <1>13, UpToFromOne
<1>15. \A i \in 1..n : i \in 1..(n + 1)
  BY <1>1
<1> QED BY <1>4, <1>14, <1>15 DEF n, start

\* A layout whose last round changed nothing is not refused for a branch that
\* stayed short and does not reach (model/mod.rs: i16::try_from in lower_code_model).
SettledIsWritten == [][Emit /\ ~changed => phase' = "emitted"]_vars

\* So it is written, however far its jumps reach.
THEOREM SettledIsAlwaysWritten == Spec => SettledIsWritten
<1>1. ASSUME LInv, Emit, ~changed PROVE phase' = "emitted"
  <2> SUFFICES ASSUME NEW i \in DOMAIN program, program[i].kind = "branch", encodings[i] = "short"
               PROVE  Encodable(Distance(i))
    BY <1>1 DEF Emit
  <2>1. Settled
    BY <1>1 DEF Settled
  <2>2. i \in 1..Len(program) /\ i \in 1..(Len(program) + 1)
    BY <2>1, SettledFacts
  <2>3. encodings[i] = Required(program[i], item_offsets[i], labels)
    BY <2>1, <2>2, WalkIsStarts, OffsetsAreStarts DEF Settled, LInv
  <2>4. fits_i16(Distance(i))
    BY <2>3 DEF Required, Distance
  <2> QED BY <2>4 DEF fits_i16, Encodable
<1>2. LInv /\ [Next]_vars => [Emit /\ ~changed => phase' = "emitted"]_vars
  BY <1>1
<1> QED BY <1>2, LayoutInvariance, PTL DEF Spec, SettledIsWritten
=============================================================================
