------------------------------ MODULE ClassFile ------------------------------
(***************************************************************************)
(* A class file through the engine: parse_class, an edit of the raw        *)
(* ClassFile (raw/info.rs: every field is public) or of the ClassModel it  *)
(* is lifted to, write_class.  A file may be damaged before it is read, by *)
(* one byte changed, lost or added.                                        *)
(***************************************************************************)
EXTENDS Integers, Sequences, FiniteSets, SequencesExt

CONSTANTS Files,       \* the byte strings a run starts from
          Fragile,     \* those of them that may be damaged, or edited once they are read
          Lifted,      \* those that are lifted
          Reworked,    \* those of them whose model is edited
          Texts,       \* the texts an edit may name a class or a type
          ClassFlags,  \* the access flags an edit may give a class
          Damages,     \* the values a damaged byte may take
          ListLengths  \* the lengths an edit may give a list with a one-byte count

R == INSTANCE ClassReader
W == INSTANCE ClassWriter
L == INSTANCE ClassLift
V == INSTANCE FileVerifier
M == INSTANCE ModelVerifier

VARIABLES file,   \* the bytes to be read
          class,  \* the ClassFile they were read as, or were lowered to
          model,  \* the ClassModel it was lifted to
          out,    \* the bytes write_class returned
          edit,   \* what was edited, or "none"
          pc
vars == <<file, class, model, out, edit, pc>>

NoClass == [none |-> TRUE]

-----------------------------------------------------------------------------
\* A byte changed, the last byte lost, or a byte more.
Damaged(s) ==
    {[s EXCEPT ![i] = b] : i \in DOMAIN s, b \in Damages} \cup {Front(s)}
    \cup {Append(s, b) : b \in Damages}

\* The raw edits a caller makes on the attributes of the class: more entries in a
\* list, or another type byte in a frame or a target.
Lengthened(list, entry) ==
    {list \o [i \in 1..(n - Len(list)) |-> entry] : n \in {m \in ListLengths : m > Len(list)}}
Retagged(list, tags) ==
    {[list EXCEPT ![j].tag = t] : j \in DOMAIN list, t \in tags}
    \cup {[list EXCEPT ![j].v.locals = Tail(list[j].v.locals)] :
             j \in {k \in DOMAIN list : list[k].variant = "Append"}}
Retargeted(list, tags) == {[list EXCEPT ![j].target.tag = t] : j \in DOMAIN list, t \in tags}

ParameterAnnotations == {"RuntimeVisibleParameterAnnotations",
                         "RuntimeInvisibleParameterAnnotations"}
TypeBytes == {0, 64, 247, 248, 251, 252, 253, 254, 255}
TargetBytes == {0, 16, 17, 19, 22, 23, 64, 66, 67, 71}

EditedPayloads(attr) ==
    CASE attr.name \in ParameterAnnotations -> Lengthened(attr.v, <<>>)
      [] attr.name = "MethodParameters" /\ attr.v # <<>> -> Lengthened(attr.v, attr.v[1])
      [] attr.name = "StackMapTable"  -> Retagged(attr.v, TypeBytes)
      [] attr.name \in {"RuntimeVisibleTypeAnnotations", "RuntimeInvisibleTypeAnnotations"} ->
            Retargeted(attr.v, TargetBytes)
      [] OTHER -> {}

EditedAttributes(c) ==
    UNION {{[c EXCEPT !.body.attributes[i].v = v] : v \in EditedPayloads(c.body.attributes[i])} :
              i \in DOMAIN c.body.attributes}

\* Entries of the pool taken out or doubled, with their gap or without it, in a
\* class with nothing in it that names a constant by its place.
EditedPools(c) ==
    IF c.body.attributes = <<>> /\ c.body.fields = <<>>
    THEN {[c EXCEPT !.constant_pool = RemoveAt(@, i)] : i \in DOMAIN c.constant_pool}
         \cup {[c EXCEPT !.constant_pool = InsertAt(@, i, @[i])] : i \in DOMAIN c.constant_pool}
    ELSE {}

\* Edits of a model: other names, one more member, other flags, the body or the
\* attributes of another method.
EditedModels(m) ==
    LET other == Last(m.methods)
        field(t) == [access_flags |-> R!Bytes(2, 2), name |-> t, descriptor |-> t, attributes |-> <<>>]
    IN  UNION {{[m EXCEPT !.name = t], [m EXCEPT !.super_name = <<t>>],
                [m EXCEPT !.interfaces = Append(@, t)], [m EXCEPT !.fields = Append(@, field(t))]} : t \in Texts}
        \cup {[m EXCEPT !.super_name = <<>>]}
        \cup {[m EXCEPT !.access_flags = R!Bytes(2, f)] : f \in ClassFlags}
        \cup IF m.methods = <<>> THEN {} ELSE
                UNION {{[m EXCEPT !.methods[1].name = t], [m EXCEPT !.methods[1].descriptor = t]} : t \in Texts}
                \cup {[m EXCEPT !.methods[1].code = other.code],
                       [m EXCEPT !.methods[1].attributes = other.attributes]}

-----------------------------------------------------------------------------
Init ==
    /\ file \in Files
    /\ class = NoClass /\ model = NoClass /\ out = <<>> /\ edit = "none" /\ pc = "given"

Damage ==
    /\ pc = "given" /\ edit = "none" /\ file \in Fragile
    /\ file' \in Damaged(file)
    /\ edit' = "damaged"
    /\ UNCHANGED <<class, model, out, pc>>

ReadClass ==
    /\ pc = "given"
    /\ LET r == R!ParseClass(file)
       IN  /\ class' = IF r.ok THEN r.v ELSE NoClass
           /\ pc' = IF r.ok THEN "read" ELSE "refused"
    /\ UNCHANGED <<file, model, out, edit>>

EditAttribute ==
    /\ pc = "read" /\ edit = "none" /\ file \in Fragile
    /\ class' \in EditedAttributes(class)
    /\ edit' = "attribute"
    /\ UNCHANGED <<file, model, out, pc>>

EditPool ==
    /\ pc = "read" /\ edit = "none" /\ file \in Fragile
    /\ class' \in EditedPools(class)
    /\ edit' = "pool"
    /\ UNCHANGED <<file, model, out, pc>>

WriteClass ==
    /\ pc = "read"
    /\ LET w == W!ClassBytes(class)
       IN  /\ out' = w.b
           /\ pc' = IF w.ok THEN "written" ELSE "unwritable"
    /\ UNCHANGED <<file, class, model, edit>>

\* ClassModel::from_classfile.
LiftClass ==
    /\ pc = "read" /\ edit = "none" /\ file \in Lifted /\ L!PlainBodies(class)
    /\ model' = IF L!Lifts(class) THEN L!from_classfile(class) ELSE NoClass
    /\ pc' = IF L!Lifts(class) THEN "lifted" ELSE "unliftable"
    /\ UNCHANGED <<file, class, out, edit>>

EditModel ==
    /\ pc = "lifted" /\ edit = "none" /\ file \in Reworked
    /\ model' \in EditedModels(model)
    /\ edit' = "model"
    /\ UNCHANGED <<file, class, out, pc>>

\* ClassModel::to_classfile: the class to be written from here on.
LowerClass ==
    /\ pc = "lifted"
    /\ class' = IF L!Lowers(model) THEN L!to_classfile(model) ELSE class
    /\ pc' = IF L!Lowers(model) THEN "read" ELSE "unlowerable"
    /\ edit' = "lowered"
    /\ UNCHANGED <<file, model, out>>

Next ==
    \/ Damage \/ ReadClass \/ EditAttribute \/ EditPool \/ WriteClass
    \/ LiftClass \/ EditModel \/ LowerClass

Spec == Init /\ [][Next]_vars

-----------------------------------------------------------------------------
Wraps == edit = "attribute" /\ \E attr \in Range(class.body.attributes) :
            attr.name \in ParameterAnnotations \cup {"MethodParameters"} /\ Len(attr.v) > 255

\* The switch padding of the file that is not zero: the bytes in which a file and
\* what is written for it may differ.
IsPadding(s, i) == \E d \in 1..3 : i > d /\ s[i - d] \in {170, 171}

\* What was read is written back byte for byte, whatever the reader accepted and
\* however damaged: no field is lost, swapped or given another width, and no byte
\* is skipped but the padding of a switch (zeroed) and what follows the class.
ReadIsWrittenBack ==
    (pc = "written" /\ edit \in {"none", "damaged"}) =>
        /\ Len(out) <= Len(file)
        /\ \A i \in DOMAIN out : out[i] = file[i] \/ (out[i] = 0 /\ IsPadding(file, i))

\* verify_classfile and write_class, which follow the wide constants of a pool
\* each in its own way, agree on which slots must be empty: the writer refuses
\* exactly the classes of whose slots the verifier complains, whatever was read
\* and whatever was done to the pool.
PoolVerdictsAgree ==
    (edit # "attribute" /\ pc \in {"written", "unwritable"}) =>
        ((pc = "unwritable") <=> \E d \in V!verify_constant_pool(class) : d[2] \in V!SlotRules)

\* Whatever a caller makes of a class, bytes that write_class returns are read
\* back to a class that writes the same bytes: a frame, a target or a pool the
\* reader would take for something else is refused first.  Lists too long for
\* their one-byte count are excepted.
WrittenReadsBack ==
    (pc = "written" /\ ~Wraps) =>
        LET again == R!ParseClass(out)
        IN  /\ again.ok /\ again.at = Len(out)
            /\ W!ClassBytes(again.v).b = out

\* A name is written the way it was read: decode_modified_utf8 accepts one form
\* of a string only, the one encode_modified_utf8 produces.
NamesHaveOneForm ==
    pc = "read" => \A entry \in Range(class.constant_pool) :
        (entry.variant = "Utf8" /\ R!Decodes(entry.v)) =>
            R!Encode(R!DecodeUnits(entry.v).units) = entry.v

\* The texts in which every word of a signature is a word of a descriptor.
Erased(text) == \A i \in DOMAIN text : text[i] \notin {42, 43, 45, 46, 58, 60, 62, 84, 94}

BracketInName(text) ==
    \E i, j \in DOMAIN text : i < j /\ text[i] = 76 /\ text[j] = 91 /\ \A k \in i..j : text[k] # 59

\* The two parsers of types agree: without generics, the types descriptors.rs
\* accepts and those signatures.rs accepts are the same (a field signature is no
\* primitive), but for a name with a bracket in it, which only a descriptor may have.
DescriptorsAreSignatures ==
    pc = "read" => \A entry \in Range(class.constant_pool) :
        entry.variant = "Utf8" /\ R!Decodes(entry.v) =>
            LET text == R!DecodeUnits(entry.v).units
            IN  Erased(text) /\ ~BracketInName(text) =>
                    /\ L!is_valid_method_descriptor(text) <=> L!parse_method_signature(text)
                    /\ (L!is_valid_field_descriptor(text) /\ text[1] \notin L!BaseTypes)
                       <=> L!parse_field_signature(text)

\* Rules both verifiers have.  A module needs no super class for one of them, and
\* one of them says of a final interface what the other says of a final class.
Shared(complaints) ==
    {d \in complaints : d[1][1] \in {"class", "field", "method"} /\
       (\/ d[2] \in {"interface not abstract", "annotation no interface"}
        \/ d[2] \in {"descriptor", "visibility", "final and volatile", "must have code", "must not have code"}
        \/ d[2] = "no super class" /\ ~V!Flag(class.body.access_flags, V!MODULE_FLAG)
        \/ d[2] = "final and abstract" /\ ~V!Flag(class.body.access_flags, V!INTERFACE))}

\* verify_classfile of a class and verify_classmodel of its model, two programs,
\* complain of the same places by every rule they share.
VerifiersAgree ==
    (pc = "lifted" /\ edit = "none") =>
        Shared(V!verify_classfile(class)) = Shared(M!verify_classmodel(model))

Special(m) == V!Flag(m.access_flags, V!MODULE_FLAG) \/ m.name = V!JavaLangObject

\* A class verify_classfile finds no fault with is lifted.  While verify_classmodel
\* finds none with its model, edited or not, the model is lowered, and to a class
\* verify_classfile finds no fault with.  What verify_classmodel does not look at
\* is excepted: what is special about modules and about java/lang/Object.
CleanClassesPass ==
    [][/\ pc' = "unliftable" => V!verify_classfile(class) # {}
       /\ pc = "lifted" /\ pc' # "lifted" /\ (edit = "none" \/ ~Special(model))
          /\ V!verify_classfile(class) = {} /\ M!verify_classmodel(model) = {}
          => pc' = "read" /\ V!verify_classfile(class') = {}]_vars

\* What a model is lowered to says what the model says: lifted again it gives the
\* same names, types, bodies and attributes in the same order, and every index the
\* raw attributes hold still names the constant it named.
LoweredSaysTheSame ==
    (pc = "read" /\ edit = "lowered") =>
        /\ IsPrefix(model.constant_pool, class.constant_pool)
        /\ L!Lifts(class)
        /\ LET again == L!from_classfile(class)
               said(m) == [m EXCEPT !.constant_pool = <<>>,
                                    !.methods = [i \in DOMAIN @ |-> [@[i] EXCEPT !.attribute_layout = <<>>]]]
           IN  said(again) = said(model)

\* validation-framework.md: an unmodified class is written back byte for byte.
UnmodifiedIsIdentical == (pc = "written" /\ edit \in {"none", "damaged"}) => out = file

\* validation-framework.md: what is written is parseable.
WrittenIsParseable == pc = "written" => R!ParseClass(out).ok
=============================================================================
