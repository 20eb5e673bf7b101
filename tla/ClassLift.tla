----------------------------- MODULE ClassLift ------------------------------
(***************************************************************************)
(* model/mod.rs: a ClassFile lifted to a ClassModel and lowered again, with  *)
(* Preserve for debug information and frames.  The model has names where the *)
(* file has indices; attributes stay raw and the pool travels along.  A text *)
(* is a sequence of code units.  What becomes of instructions is CodeModel's *)
(* business: here a body is kept as it was read.                             *)
(***************************************************************************)
EXTENDS ClassReader, Descriptors

-----------------------------------------------------------------------------
(* ConstantPoolBuilder::from_pool and the adders it is used with.  A slot of  *)
(* the builder is a slot of the pool; 0 stands for none.  The pools are far   *)
(* from its limit.                                                           *)

IndexFields == {"class_index", "name_and_type_index", "name_index", "descriptor_index", "reference_index"}
OneIndex == {"Class", "String", "MethodType", "Module", "Package"}

First(S) == IF S = {} THEN 0 ELSE Min(S)

\* Of equal constants the first is the canonical one; the gaps are no constants.
SlotOf(pool, entry) == First({i \in DOMAIN pool : pool[i] = entry})

Remapped(pool, index) ==
    IF Num(index) \in DOMAIN pool /\ pool[Num(index)].variant # "Gap"
    THEN Bytes(2, SlotOf(pool, pool[Num(index)])) ELSE index

Canonical(pool, entry) ==
    CASE entry.variant \in OneIndex -> [entry EXCEPT !.v = Remapped(pool, @)]
      [] entry.variant \in {"Utf8", "Integer", "Float", "Long", "Double", "Gap"} -> entry
      [] OTHER -> [entry EXCEPT !.v =
            [f \in DOMAIN @ |-> IF f \in IndexFields THEN Remapped(pool, @[f]) ELSE @[f]]]

Find(pool, entry) ==
    IF SlotOf(pool, entry) # 0 THEN SlotOf(pool, entry)
    ELSE First({i \in DOMAIN pool : Canonical(pool, pool[i]) = entry})

add_entry(pool, entry) ==
    IF Find(pool, entry) # 0 THEN [pool |-> pool, index |-> Bytes(2, Find(pool, entry))]
    ELSE [pool |-> Append(pool, entry), index |-> Bytes(2, Len(pool) + 1)]

add_utf8(pool, text) == add_entry(pool, [variant |-> "Utf8", tag |-> 1, v |-> Encode(text)])

add_class(pool, text) ==
    LET name == add_utf8(pool, text)
    IN  add_entry(name.pool, [variant |-> "Class", tag |-> 7, v |-> name.index])

-----------------------------------------------------------------------------
(* Lifting. *)

resolve_utf8(pool, index) == DecodeUnits(pool[Num(index)].v).units

NamesClass(pool, index) ==
    /\ Num(index) \in DOMAIN pool
    /\ pool[Num(index)].variant = "Class"
    /\ IsUtf8(pool, pool[Num(index)].v)

resolve_class_name(pool, index) == resolve_utf8(pool, pool[Num(index)].v)

\* A body of instructions without operands, nothing of which CodeModel would change.
PlainBody(code) ==
    /\ code.code # <<>> /\ \A i \in Range(code.code) : i.variant = "Simple"
    /\ code.exception_table = <<>> /\ code.attributes = <<>>

Codes(attributes) == SelectSeq(attributes, LAMBDA a : a.name = "Code")
PlainBodies(c) == \A m \in Range(c.body.methods) : \A a \in Range(Codes(m.attributes)) : PlainBody(a.v)

MemberLifts(pool, member) == IsUtf8(pool, member.name_index) /\ IsUtf8(pool, member.descriptor_index)

lift_field_model(pool, field) ==
    [access_flags |-> field.access_flags,
     name |-> resolve_utf8(pool, field.name_index),
     descriptor |-> resolve_utf8(pool, field.descriptor_index),
     attributes |-> field.attributes]

\* The last of several bodies is kept; the layout remembers where each stood.
lift_method_model(pool, method) ==
    LET codes == Codes(method.attributes)
    IN  [access_flags |-> method.access_flags,
         name |-> resolve_utf8(pool, method.name_index),
         descriptor |-> resolve_utf8(pool, method.descriptor_index),
         code |-> IF codes = <<>> THEN <<>> ELSE <<Last(codes)>>,
         attributes |-> SelectSeq(method.attributes, LAMBDA a : a.name # "Code"),
         attribute_layout |-> [i \in DOMAIN method.attributes |->
                                  IF method.attributes[i].name = "Code" THEN "Code" ELSE "Other"]]

\* from_classfile succeeds.
Lifts(c) ==
    LET b == c.body
        pool == c.constant_pool
    IN  /\ NamesClass(pool, b.this_class)
        /\ Num(b.super_class) = 0 \/ NamesClass(pool, b.super_class)
        /\ \A i \in Range(b.interfaces) : NamesClass(pool, i)
        /\ \A m \in Range(b.fields \o b.methods) : MemberLifts(pool, m)

from_classfile(c) ==
    LET b == c.body
        pool == c.constant_pool
    IN  [version |-> <<c.major_version, c.minor_version>>,
         access_flags |-> b.access_flags,
         name |-> resolve_class_name(pool, b.this_class),
         super_name |-> IF Num(b.super_class) = 0 THEN <<>> ELSE <<resolve_class_name(pool, b.super_class)>>,
         interfaces |-> [i \in DOMAIN b.interfaces |-> resolve_class_name(pool, b.interfaces[i])],
         fields |-> [i \in DOMAIN b.fields |-> lift_field_model(pool, b.fields[i])],
         methods |-> [i \in DOMAIN b.methods |-> lift_method_model(pool, b.methods[i])],
         attributes |-> b.attributes,
         constant_pool |-> pool]

-----------------------------------------------------------------------------
(* Lowering. *)

\* A wrong placement: attributes the layout does not know of are left behind.
PlacedByLayout(method) ==
    FoldLeft(LAMBDA acc, kind :
                CASE kind = "Code" -> [acc EXCEPT !.placed = @ \o acc.code, !.code = <<>>]
                  [] kind = "Other" /\ acc.others # <<>> ->
                        [acc EXCEPT !.placed = Append(@, Head(acc.others)), !.others = Tail(@)]
                  [] OTHER -> acc,
             [placed |-> <<>>, code |-> method.code, others |-> method.attributes],
             method.attribute_layout).placed

\* Each attribute in its old place while the layout lasts, then those left, the body last.
PlacedAttributes(method) ==
    LET walk == FoldLeft(LAMBDA acc, kind :
                CASE kind = "Code" -> [acc EXCEPT !.placed = @ \o acc.code, !.code = <<>>]
                  [] kind = "Other" /\ acc.others # <<>> ->
                        [acc EXCEPT !.placed = Append(@, Head(acc.others)), !.others = Tail(@)]
                  [] OTHER -> acc,
             [placed |-> <<>>, code |-> method.code, others |-> method.attributes],
             method.attribute_layout)
    IN  walk.placed \o walk.others \o walk.code

\* A body keeps its bytes; its attribute is named anew, by the first of equal names.
lower_code_model(pool, code) == [code EXCEPT !.index = Remapped(pool, @)]

\* A list lowered by one adder after the other, each with the pool the one before left.
LowerClasses(pool, names) ==
    FoldLeft(LAMBDA acc, name : LET r == add_class(acc.pool, name)
                                IN  [pool |-> r.pool, list |-> Append(acc.list, r.index)],
             [pool |-> pool, list |-> <<>>], names)

lower_member(pool, member, attributes) ==
    LET name == add_utf8(pool, member.name)
        descriptor == add_utf8(name.pool, member.descriptor)
    IN  [pool |-> descriptor.pool,
         member |-> [access_flags |-> member.access_flags, name_index |-> name.index,
                     descriptor_index |-> descriptor.index, attributes |-> attributes]]

lower_field_models(pool, fields) ==
    FoldLeft(LAMBDA acc, f : LET r == lower_member(acc.pool, f, f.attributes)
                             IN  [pool |-> r.pool, list |-> Append(acc.list, r.member)],
             [pool |-> pool, list |-> <<>>], fields)

lower_method_models(pool, methods) ==
    FoldLeft(LAMBDA acc, m : LET bodies == [i \in DOMAIN m.code |-> lower_code_model(acc.pool, m.code[i])]
                                 r == lower_member(acc.pool, m, PlacedAttributes([m EXCEPT !.code = bodies]))
                             IN  [pool |-> r.pool, list |-> Append(acc.list, r.member)],
             [pool |-> pool, list |-> <<>>], methods)

\* to_classfile succeeds.
Lowers(model) ==
    /\ \A f \in Range(model.fields) : is_valid_field_descriptor(f.descriptor)
    /\ \A m \in Range(model.methods) : is_valid_method_descriptor(m.descriptor)

to_classfile(model) ==
    LET this == add_class(model.constant_pool, model.name)
        super == IF model.super_name = <<>> THEN [pool |-> this.pool, index |-> Bytes(2, 0)]
                 ELSE add_class(this.pool, model.super_name[1])
        interfaces == LowerClasses(super.pool, model.interfaces)
        fields == lower_field_models(interfaces.pool, model.fields)
        methods == lower_method_models(fields.pool, model.methods)
    IN  [magic |-> Magic, minor_version |-> model.version[2], major_version |-> model.version[1],
         constant_pool |-> methods.pool,
         body |-> [access_flags |-> model.access_flags,
                   this_class |-> this.index, super_class |-> super.index,
                   interfaces |-> interfaces.list, fields |-> fields.list,
                   methods |-> methods.list, attributes |-> model.attributes]]
=============================================================================
