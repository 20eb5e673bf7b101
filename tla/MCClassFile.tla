---------------------------- MODULE MCClassFile -----------------------------
(***************************************************************************)
(* The files of the run: one class for each attribute payload the reader's *)
(* layouts allow within small lists, each pool of up to two constants,     *)
(* names made of the bytes where modified UTF-8 has its edges, classes     *)
(* whose indices name what they should with each byte varied and with all  *)
(* combinations of flags, and the texts that may be types.                 *)
(***************************************************************************)
EXTENDS ClassFile, FiniteSetsExt

CONSTANTS Nesting,      \* how deep a layout that contains itself is unfolded
          NameLength,   \* the longest name
          TypeLength,   \* the longest text that may be a type
          LinkBytes     \* the values each byte of a linked file takes

Slot == -1   \* a byte whose value does not matter; each place gets another one
Fill(s) == [i \in DOMAIN s |-> IF s[i] = Slot THEN (i % 40) + 1 ELSE s[i]]
Scalar(n) == [i \in 1..n |-> Slot]
U2At(x) == R!Bytes(2, x)

RECURSIVE Samples(_, _)
Longest(S) == CHOOSE s \in S : \A t \in S : Len(t) <= Len(s)
\* One field at a time takes each of its samples, the others their longest.
Fields(fs, d) ==
    LET of   == [i \in DOMAIN fs |-> Samples(fs[i][2], d)]
        full == [i \in DOMAIN fs |-> Longest(of[i])]
    IN  {FlattenSeq(full)} \cup
        UNION {{FlattenSeq([full EXCEPT ![i] = s]) : s \in of[i]} : i \in DOMAIN fs}
Count(f, d) ==    \* how many elements, with the elements
    LET longest == Longest(Samples(f, d))
    IN  {<<0, <<>>>>, <<2, longest \o longest>>} \cup {<<1, s>> : s \in Samples(f, d)}
Extremes(tags) == {Min(tags), Max(tags)}
Counted(n, C) == {R!Bytes(n, c[1]) \o c[2] : c \in C}
NestedAttribute == {U2At(2) \o R!Bytes(4, 6) \o U2At(1) \o Scalar(4)}

Samples(f, d) ==
    CASE f.k = "uint"   -> {Scalar(f.n)}
      [] f.k = "oneof"  -> {<<b>> : b \in Extremes(f.of)}
      [] f.k = "zero"   -> {[i \in 1..f.n |-> 0]}
      [] f.k = "rest"   -> {<<>>, Scalar(2)}
      [] f.k = "struct" -> Fields(f.of, d)
      [] f.k = "list"   -> Counted(f.n, Count(f.of, d))
      [] f.k = "times"  -> Fields([i \in 1..f.n |-> <<i, f.of>>], d)
      [] f.k = "sized"  -> {R!Bytes(f.n, Len(s)) \o s : s \in Samples(f.of, d)}
      [] f.k = "all"    -> {[i \in 1..3 |-> 0] \o s : s \in Samples(f.of, d)}
      [] f.k = "choice" -> UNION {{<<t>> \o s : t \in Extremes(f.of[i].tags),
                                                s \in Samples(f.of[i].of, d)} : i \in DOMAIN f.of}
      [] f.k = "padding" -> {<<>>}
      [] f.k = "table"  -> {R!Bytes(4, 1) \o R!Bytes(4, n) \o Scalar(4 * n) : n \in 0..2}
                           \cup {<<255, 255, 255, 255>> \o high \o Scalar(8) :    \* from -1
                                    high \in {<<0, 0, 0, 0>>, <<127, 255, 255, 255>>}}
      [] f.k = "attribute"  -> NestedAttribute
      [] f.k = "annotation" -> IF d = 0 THEN {Scalar(2) \o U2At(0)}
                               ELSE Samples(R!AnnotationLayout, d - 1)
      [] f.k = "element_value" -> IF d = 0 THEN {<<66>> \o Scalar(2)}
                                  ELSE Samples(R!ElementValueLayout, d - 1)

-----------------------------------------------------------------------------
Utf8(s) == <<1>> \o U2At(Len(s)) \o s
ClassWith(count, entries, attributes) ==
    Fill(R!Magic \o U2At(0) \o U2At(69) \o U2At(count) \o entries
         \o Scalar(6) \o U2At(0) \o U2At(0) \o U2At(0) \o attributes)

Name(i) == <<R!FirstName + i - 1>>
LineNumbers == 7    \* LineNumberTable in AttributeNames, the attribute nested in others
\* The invisible annotations are read as the visible ones; theirs are not nested.
Depth(name) == IF SubSeq(name, 1, 9) = "RuntimeIn" THEN 0 ELSE Nesting
Payloads(i) == Samples(R!Payload(R!AttributeNames[i]), Depth(R!AttributeNames[i]))
AttributeFiles ==
    UNION {{ClassWith(3, Utf8(Name(i)) \o Utf8(Name(LineNumbers)),
                      U2At(1) \o U2At(1) \o R!Bytes(4, Len(p)) \o p) :
            p \in Payloads(i)} : i \in DOMAIN R!AttributeNames}

\* An interface, a field with an attribute and two methods.
MemberFiles ==
    LET field   == Scalar(6) \o U2At(1) \o CHOOSE a \in NestedAttribute : TRUE
        method  == Scalar(6) \o U2At(0)
    IN  {Fill(R!Magic \o U2At(0) \o U2At(69) \o U2At(3) \o Utf8(Name(1)) \o Utf8(Name(LineNumbers))
              \o Scalar(6) \o U2At(1) \o Scalar(2) \o U2At(1) \o field
              \o U2At(2) \o method \o method \o U2At(0))}

Entries == Samples(R!PoolEntry, 0)
Slots(entry) == IF entry[1] \in {5, 6} THEN 2 ELSE 1
PoolFiles ==
    {ClassWith(1 + Slots(e) + Slots(f), e \o f, U2At(0)) :
        e \in Entries, f \in {x \in Entries : x[1] \in {5, 7}}}
    \cup {ClassWith(2, e, U2At(0)) : e \in Entries}

EdgeBytes == {0, 1, 127, 128, 191, 192, 193, 194, 223, 224, 237, 239, 159, 160, 176}
LongForms == {<<a, b, c>> : a \in {224, 237, 239}, b \in {128, 159, 160, 176, 191}, c \in {127, 128}}
Surrogates == {<<237, b, 128, 237, c, 191>> : b \in {159, 160, 176}, c \in {159, 160, 176}}
NameFiles == {ClassWith(2, Utf8(s), U2At(0)) :
                 s \in BoundedSeq(EdgeBytes, NameLength) \cup LongForms \cup Surrogates}

-----------------------------------------------------------------------------
\* Linked files: classes whose indices name what they should.
Text == [a |-> <<97>>, b |-> <<98>>, I |-> <<73>>, V |-> <<40, 41, 86>>]
AttributeNamed(name) == Name(CHOOSE i \in DOMAIN R!AttributeNames : R!AttributeNames[i] = name)
LinkedPool ==    \* a constant, and the slots before the next
    << Utf8(Text.a), <<7>> \o U2At(1), Utf8(Text.b), <<7>> \o U2At(3), Utf8(Text.I), Utf8(Text.V),
       Utf8(AttributeNamed("Code")), Utf8(AttributeNamed("Signature")), Utf8(AttributeNamed("BootstrapMethods")),
       <<12>> \o U2At(1) \o U2At(6), <<10>> \o U2At(2) \o U2At(10), <<15, 6>> \o U2At(11),
       <<12>> \o U2At(1) \o U2At(5), <<17>> \o U2At(0) \o U2At(13), <<16>> \o U2At(6),
       Utf8(Text.a), <<7>> \o U2At(16), Utf8(AttributeNamed("Synthetic")),
       <<5>> \o U2At(0) \o U2At(0) \o U2At(0) \o U2At(7) >>
LinkedSlots == 21
CodeOf(instructions) ==
    U2At(7) \o R!Bytes(4, 12 + Len(instructions)) \o U2At(0) \o U2At(1)
    \o R!Bytes(4, Len(instructions)) \o instructions \o U2At(0) \o U2At(0)
Return == CodeOf(<<177>>)
Mark == U2At(18) \o R!Bytes(4, 0)
SignatureOf(index) == U2At(8) \o R!Bytes(4, 2) \o U2At(index)
Bootstraps == U2At(9) \o R!Bytes(4, 8) \o U2At(1) \o U2At(12) \o U2At(1) \o U2At(15)
MemberOf(flags, name, descriptor, attributes) ==
    U2At(flags) \o U2At(name) \o U2At(descriptor) \o U2At(Len(attributes)) \o FlattenSeq(attributes)
Linked(pool, slots, flags, links, fields, methods, attributes) ==
    R!Magic \o U2At(0) \o U2At(69) \o U2At(slots) \o FlattenSeq(pool)
    \o U2At(flags) \o U2At(links[1]) \o U2At(links[2])
    \o U2At(Len(links) - 2) \o FlattenSeq([i \in 1..(Len(links) - 2) |-> U2At(links[i + 2])])
    \o U2At(Len(fields)) \o FlattenSeq(fields) \o U2At(Len(methods)) \o FlattenSeq(methods)
    \o U2At(Len(attributes)) \o FlattenSeq(attributes)
ClassOf(flags, links, fields, methods) ==
    Linked(LinkedPool, LinkedSlots, flags, links, fields, methods, <<Bootstraps>>)

Full == ClassOf(33, <<2, 4, 17>>, <<MemberOf(2, 1, 5, <<Mark>>)>>,
                <<MemberOf(1, 1, 6, <<Mark, Return>>), MemberOf(1025, 3, 6, <<SignatureOf(6)>>)>>)
\* The second class of the name, a body between attributes, two bodies, a body alone,
\* no members.
Others == {ClassOf(33, <<17, 2>>, <<>>, <<MemberOf(1, 1, 6, <<SignatureOf(6), Return, Mark>>)>>),
           ClassOf(33, <<2, 4>>, <<>>, <<MemberOf(1, 1, 6, <<Return, CodeOf(<<0, 177>>)>>)>>),
           ClassOf(33, <<2, 4>>, <<>>, <<MemberOf(1, 1, 6, <<Return>>), MemberOf(1025, 3, 6, <<SignatureOf(6), Mark>>)>>),
           ClassOf(33, <<4, 2>>, <<>>, <<>>)}
Root == {Linked(<<Utf8(V!JavaLangObject), <<7>> \o U2At(1)>>, 3, 33, <<2, s>>, <<>>, <<>>, <<>>) : s \in {0, 2}}
Halves == {Linked(<<Utf8(Text.a), <<7>> \o U2At(1), <<5>> \o Scalar(8)>>, 4, 33, <<2, 2>>, <<>>, <<>>, <<>>)}

Sums(bits) == {FoldSet(LAMBDA b, sum : b + sum, 0, S) : S \in SUBSET bits}
Varied == {[Full EXCEPT ![i] = b] : i \in DOMAIN Full, b \in LinkBytes}
Flagged ==
    {ClassOf(f, <<2, s>>, <<>>, <<>>) : f \in Sums({16, 512, 1024, 8192, 16384, 32768}), s \in {0, 4}}
    \cup {ClassOf(33, <<2, 4>>, <<MemberOf(f, 1, 5, <<>>)>>, <<>>) : f \in Sums({1, 2, 4, 16, 64})}
    \cup {ClassOf(33, <<2, 4>>, <<>>, <<MemberOf(f, 1, 6, c)>>) : f \in Sums({1, 2, 4, 256, 1024}), c \in {<<>>, <<Return>>}}

\* Texts that may be types: one beginning to a file, with all its endings.
TypeChars == {66, 76, 97, 47, 59, 91}
Results == {<<>>, <<86>>, <<66>>, <<91, 86>>, <<76, 97, 59>>}
TextsFrom(p) == {p \o <<c>> : c \in TypeChars} \cup {<<40>> \o p \o <<41>> \o r : r \in Results}
TextsFile(S) ==
    ClassWith(Cardinality(S) + 1, FoldSet(LAMBDA t, all : all \o Utf8(t), <<>>, S), U2At(0))
TypeFiles == {TextsFile(TextsFrom(p)) : p \in BoundedSeq(TypeChars, TypeLength - 1)}

MCFragile == AttributeFiles \cup MemberFiles \cup PoolFiles
MCReworked == {Full} \cup Others \cup Root \cup Halves
MCLifted == MCReworked \cup Varied \cup Flagged
MCFiles == MCFragile \cup NameFiles \cup MCLifted \cup TypeFiles
MCTexts == {Text.a, Text.b, Text.I, Text.V, <<99>>, <<97, 46, 98>>, <<60>>}
=============================================================================
