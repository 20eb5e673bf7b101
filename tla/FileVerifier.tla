---------------------------- MODULE FileVerifier -----------------------------
(***************************************************************************)
(* verify_classfile of analysis/verify.rs: what it reports of a ClassFile as  *)
(* parse_class builds it.  A diagnostic is a pair of a place, <<kind, index>>, *)
(* and a rule; its wording, category and class name are left out.  All are    *)
(* errors.  fail_fast is not looked at.                                       *)
(***************************************************************************)
EXTENDS ClassReader, Descriptors

W == INSTANCE ClassWriter

\* From pairs of a condition and a rule, the rules whose condition holds.
Complaints(where, rules) == {<<where, r[2]>> : r \in {r \in rules : r[1]}}

Flag(access, bit) == (Num(access) \div bit) % 2 = 1

PUBLIC == 1
PRIVATE == 2
PROTECTED == 4
FINAL == 16
VOLATILE == 64
NATIVE == 256
INTERFACE == 512
ABSTRACT == 1024
ANNOTATION == 8192
MODULE_FLAG == 32768

visibility_count(access) == Cardinality({bit \in {PUBLIC, PRIVATE, PROTECTED} : Flag(access, bit)})

-----------------------------------------------------------------------------
(* The constant pool. *)

IsZero(index) == Num(index) = 0

cp_entry(c, index, variants) ==
    Num(index) \in DOMAIN c.constant_pool /\ c.constant_pool[Num(index)].variant \in variants

EntryAt(c, index) == c.constant_pool[Num(index)]

cp_utf8(c, index) == IsUtf8(c.constant_pool, index)

TextAt(c, index) == DecodeUnits(EntryAt(c, index).v).units

\* A class, a module or a package whose name is a text.
Names(c, index, variant) == cp_entry(c, index, {variant}) /\ cp_utf8(c, EntryAt(c, index).v)

cp_class_name(c, index) == Names(c, index, "Class")

cp_name_and_type(c, index) ==
    /\ cp_entry(c, index, {"NameAndType"})
    /\ cp_utf8(c, EntryAt(c, index).v.name_index)
    /\ cp_utf8(c, EntryAt(c, index).v.descriptor_index)

FieldTyped(c, index) == is_valid_field_descriptor(TextAt(c, EntryAt(c, index).v.descriptor_index))
MethodTyped(c, index) == is_valid_method_descriptor(TextAt(c, EntryAt(c, index).v.descriptor_index))

HasFieldType(c, member) ==
    cp_utf8(c, member.descriptor_index) /\ is_valid_field_descriptor(TextAt(c, member.descriptor_index))
HasMethodType(c, member) ==
    cp_utf8(c, member.descriptor_index) /\ is_valid_method_descriptor(TextAt(c, member.descriptor_index))

MethodRefs == {"MethodRef", "InterfaceMethodRef"}

\* The entries a method handle of a kind may refer to.
HandleTargets(c, kind) ==
    CASE kind \in 1..4 -> {"FieldRef"}
      [] kind \in {5, 8} -> {"MethodRef"}
      [] kind \in {6, 7} -> IF Num(c.major_version) >= 52 THEN MethodRefs ELSE {"MethodRef"}
      [] kind = 9 -> {"InterfaceMethodRef"}
      [] OTHER -> {}

InitName == <<60, 105, 110, 105, 116, 62>>               \* <init>
ClinitName == <<60, 99, 108, 105, 110, 105, 116, 62>>     \* <clinit>

verify_method_handle(c, handle) ==
    LET kind == handle.reference_kind[1]
        target == EntryAt(c, handle.reference_index)
        found == cp_entry(c, handle.reference_index, HandleTargets(c, kind))
        name == TextAt(c, EntryAt(c, target.v.name_and_type_index).v.name_index)
        named == found /\ cp_name_and_type(c, target.v.name_and_type_index)
    IN  {<<kind \notin 1..9, "reference kind">>,
         <<kind \in 1..9 /\ ~found, "reference target">>,
         <<named /\ kind = 8 /\ name # InitName, "must reference <init>">>,
         <<named /\ kind \in {5, 6, 7, 9} /\ name \in {InitName, ClinitName}, "must not reference <init>">>}

bootstrap_method_index_valid(c, index) ==
    LET methods == SelectSeq(c.body.attributes, LAMBDA a : a.name = "BootstrapMethods")
    IN  methods # <<>> /\ Num(index) < Len(methods[1].v)

EntryRules(c, entry) ==
    LET v == entry.v
        text == {<<~cp_utf8(c, v), "text">>}
        typed(Typed(_, _)) ==
            {<<~cp_name_and_type(c, v.name_and_type_index), "name and type">>,
             <<cp_name_and_type(c, v.name_and_type_index) /\ ~Typed(c, v.name_and_type_index), "descriptor">>}
        owner == {<<~cp_class_name(c, v.class_index), "class index">>}
        bootstrap == {<<~bootstrap_method_index_valid(c, v.bootstrap_method_attr_index), "bootstrap method">>}
    IN  CASE entry.variant = "Gap" -> {<<TRUE, "empty slot">>}
          [] entry.variant \in {"Class", "String", "Module", "Package"} -> text
          [] entry.variant = "MethodType" ->
                text \cup {<<cp_utf8(c, v) /\ ~is_valid_method_descriptor(TextAt(c, v)), "descriptor">>}
          [] entry.variant = "FieldRef" -> owner \cup typed(FieldTyped)
          [] entry.variant \in MethodRefs -> owner \cup typed(MethodTyped)
          [] entry.variant = "NameAndType" ->
                {<<~cp_utf8(c, v.name_index), "name">>, <<~cp_utf8(c, v.descriptor_index), "descriptor text">>}
          [] entry.variant = "MethodHandle" -> verify_method_handle(c, v)
          [] entry.variant = "Dynamic" -> typed(FieldTyped) \cup bootstrap
          [] entry.variant = "InvokeDynamic" -> typed(MethodTyped) \cup bootstrap
          [] OTHER -> {}

\* A wrong expectation: nothing is expected past the end.
ExpectedInside(pool) ==
    LET gap[i \in 1..(Len(pool) + 1)] == i \in 2..Len(pool) /\ ~gap[i - 1] /\ IsWide(pool[i - 1])
    IN  gap

\* The slots that must be empty; the slot past the end among them, which cannot be.
Expected(pool) ==
    LET gap[i \in 1..(Len(pool) + 1)] == i > 1 /\ ~gap[i - 1] /\ IsWide(pool[i - 1])
    IN  gap

verify_constant_pool(c) ==
    LET pool == c.constant_pool
        gap == Expected(pool)
    IN  UNION {Complaints(<<"pool", i>>, IF gap[i] THEN {<<pool[i].variant # "Gap", "gap expected">>}
                                         ELSE EntryRules(c, pool[i])) : i \in DOMAIN pool}
        \cup Complaints(<<"pool", 0>>, {<<gap[Len(pool) + 1], "gap missing">>})

\* Of the diagnostics of a pool, those about its slots.
SlotRules == {"empty slot", "gap expected", "gap missing"}

-----------------------------------------------------------------------------
(* Attributes. *)

Annotated == {"RuntimeVisibleAnnotations", "RuntimeInvisibleAnnotations"}
TypeAnnotated == {"RuntimeVisibleTypeAnnotations", "RuntimeInvisibleTypeAnnotations"}
ParameterAnnotated == {"RuntimeVisibleParameterAnnotations", "RuntimeInvisibleParameterAnnotations"}
Marks == {"Synthetic", "Deprecated"}
ModuleAttributes == {"Module", "ModulePackages", "ModuleMainClass"}

attribute_allowed_on_owner(owner) ==
    {"Unknown"} \cup TypeAnnotated \cup
    CASE owner = "class" ->
            {"Signature", "SourceFile", "SourceDebugExtension", "InnerClasses", "EnclosingMethod",
             "NestHost", "NestMembers", "BootstrapMethods", "Record", "PermittedSubclasses"}
            \cup Marks \cup Annotated \cup ModuleAttributes
      [] owner = "field" -> {"ConstantValue", "Signature"} \cup Marks \cup Annotated
      [] owner = "method" ->
            {"Signature", "Exceptions", "Code", "MethodParameters", "AnnotationDefault"}
            \cup Marks \cup Annotated \cup ParameterAnnotated
      [] owner = "code" ->
            {"StackMapTable", "LineNumberTable", "LocalVariableTable", "LocalVariableTypeTable"}
      [] owner = "component" -> {"Signature"} \cup Annotated

attribute_minimum_major(name) ==
    CASE name = "StackMapTable" -> 50
      [] name = "BootstrapMethods" -> 51
      [] name = "MethodParameters" -> 52
      [] name \in ModuleAttributes -> 53
      [] name \in {"NestHost", "NestMembers"} -> 55
      [] name = "Record" -> 60
      [] name = "PermittedSubclasses" -> 61
      [] OTHER -> 0

validate_signature_attribute(owner, text) ==
    CASE owner = "class" -> parse_class_signature(text)
      [] owner \in {"field", "component"} -> parse_field_signature(text)
      [] owner = "method" -> parse_method_signature(text)
      [] owner = "code" -> TRUE

Loadable == {"Integer", "Float", "Long", "Double", "String", "Class", "MethodHandle", "MethodType", "Dynamic"}

LacksClass(c, indexes) == \E i \in Range(indexes) : ~cp_class_name(c, i)
LacksModule(c, indexes) == \E i \in Range(indexes) : ~Names(c, i, "Module")
LacksPackage(c, indexes) == \E i \in Range(indexes) : ~Names(c, i, "Package")
LacksText(c, index) == ~IsZero(index) /\ ~cp_utf8(c, index)

ModuleRules(c, m) ==
    {<<LacksModule(c, <<m.module_name_index>>), "module name">>,
     <<LacksText(c, m.module_version_index), "module version">>,
     <<\E r \in Range(m.requires) : LacksModule(c, <<r.requires_index>>), "requires">>,
     <<\E r \in Range(m.requires) : LacksText(c, r.requires_version_index), "requires version">>,
     <<\E e \in Range(m.exports) : LacksPackage(c, <<e.exports_index>>), "exports">>,
     <<\E e \in Range(m.exports) : LacksModule(c, e.exports_to_index), "exports to">>,
     <<\E o \in Range(m.opens) : LacksPackage(c, <<o.opens_index>>), "opens">>,
     <<\E o \in Range(m.opens) : LacksModule(c, o.opens_to_index), "opens to">>,
     <<LacksClass(c, m.uses_index), "uses">>,
     <<\E p \in Range(m.provides) : LacksClass(c, <<p.provides_index>>), "provides">>,
     <<\E p \in Range(m.provides) : LacksClass(c, p.provides_with_index), "provides with">>}

verify_attribute_contents(c, attr, owner) ==
    LET v == attr.v
    IN  CASE attr.name = "Signature" ->
                {<<~cp_utf8(c, v), "signature text">>,
                 <<cp_utf8(c, v) /\ ~validate_signature_attribute(owner, TextAt(c, v)), "signature">>}
          [] attr.name = "SourceFile" -> {<<~cp_utf8(c, v), "source file">>}
          [] attr.name \in {"Exceptions", "NestMembers", "PermittedSubclasses"} -> {<<LacksClass(c, v), "classes">>}
          [] attr.name \in {"NestHost", "ModuleMainClass"} -> {<<LacksClass(c, <<v>>), "class">>}
          [] attr.name = "ModulePackages" -> {<<LacksPackage(c, v), "packages">>}
          [] attr.name = "EnclosingMethod" ->
                {<<LacksClass(c, <<v.class_index>>), "enclosing class">>,
                 <<~IsZero(v.method_index) /\ ~cp_name_and_type(c, v.method_index), "enclosing method">>}
          [] attr.name = "MethodParameters" ->
                {<<\E p \in Range(v) : LacksText(c, p.name_index), "parameter names">>}
          [] attr.name = "BootstrapMethods" ->
                {<<\E b \in Range(v) : ~cp_entry(c, b.bootstrap_method_ref, {"MethodHandle"}), "bootstrap handle">>,
                 <<\E b \in Range(v) : \E i \in Range(b.bootstrap_arguments) : ~cp_entry(c, i, Loadable),
                   "bootstrap arguments">>}
          [] attr.name = "LocalVariableTypeTable" ->
                {<<\E e \in Range(v) : ~cp_utf8(c, e.name_index), "variable name">>,
                 <<\E e \in Range(v) : ~cp_utf8(c, e.signature_index), "variable signature text">>,
                 <<\E e \in Range(v) : cp_utf8(c, e.signature_index)
                                       /\ ~parse_field_signature(TextAt(c, e.signature_index)), "variable signature">>}
          [] attr.name = "Module" -> ModuleRules(c, v)
          [] OTHER -> {}

AttributeRules(c, attr, owner) ==
    verify_attribute_contents(c, attr, owner) \cup
    {<<~cp_utf8(c, attr.index), "attribute name">>,
     <<attr.name \notin attribute_allowed_on_owner(owner), "not allowed here">>,
     <<attr.name \in ModuleAttributes /\ ~Flag(c.body.access_flags, MODULE_FLAG), "only in modules">>,
     <<Num(c.major_version) < attribute_minimum_major(attr.name), "class version">>}

attribute_must_be_unique(name) == name # "Unknown"

HowMany(attributes, name) == Cardinality({i \in DOMAIN attributes : attributes[i].name = name})

verify_attributes(c, attributes, owner, where) ==
    UNION {Complaints(where \o <<a.name>>, AttributeRules(c, a, owner)) : a \in Range(attributes)}
    \cup {<<where \o <<a.name>>, "more than one">> :
            a \in {a \in Range(attributes) : attribute_must_be_unique(a.name) /\ HowMany(attributes, a.name) > 1}}
    \cup Complaints(where, {<<owner = "class" /\ Flag(c.body.access_flags, MODULE_FLAG)
                              /\ HowMany(attributes, "Module") # 1, "one Module attribute">>})

verify_record_components(c, record, where) ==
    UNION {Complaints(where, {<<~cp_utf8(c, r.name_index), "component name">>,
                              <<~HasFieldType(c, r), "component descriptor">>})
           \cup verify_attributes(c, r.attributes, "component", where) : r \in Range(record)}

verify_class_attributes(c) ==
    verify_attributes(c, c.body.attributes, "class", <<"class">>)
    \cup UNION {verify_record_components(c, a.v, <<"component">>) :
                   a \in {a \in Range(c.body.attributes) : a.name = "Record"}}

-----------------------------------------------------------------------------
(* The class and its members. *)

JavaLangObject == <<106, 97, 118, 97, 47, 108, 97, 110, 103, 47, 79, 98, 106, 101, 99, 116>>

verify_class_structure(c) ==
    LET b == c.body
        is_module == Flag(b.access_flags, MODULE_FLAG)
        is_object == cp_class_name(c, b.this_class)
                     /\ TextAt(c, EntryAt(c, b.this_class).v) = JavaLangObject
    IN  {<<~IsZero(b.this_class) /\ ~cp_class_name(c, b.this_class), "this class">>,
         <<is_module /\ ~IsZero(b.super_class), "module with a super class">>,
         <<is_module /\ b.interfaces # <<>>, "module with interfaces">>,
         <<is_module /\ b.fields # <<>>, "module with fields">>,
         <<is_module /\ b.methods # <<>>, "module with methods">>,
         <<~is_module /\ is_object /\ ~IsZero(b.super_class), "Object with a super class">>,
         <<~is_module /\ ~is_object /\ IsZero(b.super_class), "no super class">>,
         <<~is_module /\ ~is_object /\ ~IsZero(b.super_class) /\ ~cp_class_name(c, b.super_class),
           "super class">>,
         <<LacksClass(c, b.interfaces), "interfaces">>}

verify_class_access_flags(c) ==
    LET flag(bit) == Flag(c.body.access_flags, bit)
    IN  {<<flag(INTERFACE) /\ ~flag(ABSTRACT), "interface not abstract">>,
         <<flag(ANNOTATION) /\ ~flag(INTERFACE), "annotation no interface">>,
         <<flag(FINAL) /\ flag(ABSTRACT), "final and abstract">>}

\* A wrong field: only its type has to be a text.
FieldByType(c, field, where) ==
    Complaints(where,
        {<<~HasFieldType(c, field), "descriptor">>,
         <<visibility_count(field.access_flags) > 1, "visibility">>,
         <<Flag(field.access_flags, FINAL) /\ Flag(field.access_flags, VOLATILE), "final and volatile">>})
    \cup verify_attributes(c, field.attributes, "field", where)

verify_field(c, field, where) ==
    Complaints(where,
        {<<~cp_utf8(c, field.name_index), "name">>,
         <<~HasFieldType(c, field), "descriptor">>,
         <<visibility_count(field.access_flags) > 1, "visibility">>,
         <<Flag(field.access_flags, FINAL) /\ Flag(field.access_flags, VOLATILE), "final and volatile">>})
    \cup verify_attributes(c, field.attributes, "field", where)

code_length(code) == Len(W!Write(W!All(W!WriteInstruction), code).b)

verify_handlers(code) ==
    {<<\E h \in Range(code.exception_table) :
          Num(h.start_pc) >= Num(h.end_pc) \/ Num(h.end_pc) > code_length(code.code) % 65536, "handler range">>}

verify_method(c, method, where) ==
    LET codes == SelectSeq(method.attributes, LAMBDA a : a.name = "Code")
        bodiless == Flag(method.access_flags, ABSTRACT) \/ Flag(method.access_flags, NATIVE)
    IN  Complaints(where,
            {<<~cp_utf8(c, method.name_index), "name">>,
             <<~HasMethodType(c, method), "descriptor">>,
             <<visibility_count(method.access_flags) > 1, "visibility">>,
             <<bodiless /\ codes # <<>>, "must not have code">>,
             <<~bodiless /\ codes = <<>>, "must have code">>}
            \cup IF codes = <<>> THEN {} ELSE verify_handlers(codes[1].v))
        \cup verify_attributes(c, method.attributes, "method", where)
        \cup IF codes = <<>> THEN {} ELSE verify_attributes(c, codes[1].v.attributes, "code", where)

verify_classfile(c) ==
    LET b == c.body
    IN  Complaints(<<"class">>,
            {<<c.magic # Magic, "magic">>,
             <<~VersionSupported(Num(c.major_version), Num(c.minor_version)), "version">>,
             <<IsZero(b.this_class), "this class is zero">>}
            \cup verify_class_structure(c) \cup verify_class_access_flags(c))
        \cup verify_constant_pool(c)
        \cup verify_class_attributes(c)
        \cup UNION {verify_field(c, b.fields[i], <<"field", i>>) : i \in DOMAIN b.fields}
        \cup UNION {verify_method(c, b.methods[i], <<"method", i>>) : i \in DOMAIN b.methods}
=============================================================================
