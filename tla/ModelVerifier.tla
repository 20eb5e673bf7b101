--------------------------- MODULE ModelVerifier ----------------------------
(***************************************************************************)
(* verify_classmodel of analysis/verify.rs on what ClassLift lifts: names,    *)
(* access flags, duplicates, members.  A diagnostic is a pair of a place and  *)
(* a rule, as in FileVerifier; all are errors but "no super class".  What it  *)
(* says of a body (verify_code_model) and of debug information is left out,   *)
(* and so is fail_fast, which stops at the first error.                       *)
(***************************************************************************)
EXTENDS Integers, Sequences, FiniteSets

LOCAL INSTANCE SequencesExt
LOCAL INSTANCE FileVerifier

ENUM == 16384
SYNTHETIC == 4096
STATIC == 8
SYNCHRONIZED == 32
BRIDGE == 64
STRICT == 2048
NoArgumentsNoResult == <<40, 41, 86>>     \* ()V

Holds(text, chars) == \E i \in DOMAIN text : text[i] \in chars

is_valid_internal_name(name) ==
    /\ name # <<>> /\ ~Holds(name, {Dot, Semicolon, Bracket})
    /\ \A i \in DOMAIN name : name[i] = Slash => 1 < i /\ i < Len(name) /\ name[i + 1] # Slash

is_valid_unqualified_name(name) == name # <<>> /\ ~Holds(name, {Dot, Semicolon, Bracket, Slash})

is_valid_method_name(name) ==
    \/ name \in {InitName, ClinitName}
    \/ name # <<>> /\ ~Holds(name, {Dot, Semicolon, Bracket, Slash, Less, Greater})

Repeats(list) == Cardinality(Range(list)) < Len(list)

verify_model_names(model) ==
    {<<~is_valid_internal_name(model.name), "class name">>,
     <<\E name \in Range(model.super_name) : ~is_valid_internal_name(name), "super class name">>,
     <<model.super_name = <<>> /\ model.name # JavaLangObject, "no super class">>,
     <<\E name \in Range(model.interfaces) : ~is_valid_internal_name(name), "interface name">>,
     <<Repeats(model.interfaces), "duplicate interface">>}

verify_model_class_flags(access) ==
    LET flag(bit) == Flag(access, bit)
        others == {2^b : b \in 0..15} \ {MODULE_FLAG, SYNTHETIC}
    IN  {<<flag(INTERFACE) /\ ~flag(ABSTRACT), "interface not abstract">>,
         <<flag(INTERFACE) /\ flag(FINAL), "interface final">>,
         <<flag(INTERFACE) /\ flag(ENUM), "interface enum">>,
         <<flag(ANNOTATION) /\ ~flag(INTERFACE), "annotation no interface">>,
         <<flag(MODULE_FLAG) /\ \E bit \in others : flag(bit), "module flags">>,
         <<flag(FINAL) /\ flag(ABSTRACT) /\ ~flag(INTERFACE), "final and abstract">>}

Keys(members) == [i \in DOMAIN members |-> <<members[i].name, members[i].descriptor>>]

verify_model_duplicates(model) ==
    {<<Repeats(Keys(model.fields)), "duplicate field">>,
     <<Repeats(Keys(model.methods)), "duplicate method">>}

verify_model_field(field, is_interface) ==
    LET flag(bit) == Flag(field.access_flags, bit)
    IN  {<<~is_valid_unqualified_name(field.name), "name">>,
         <<~is_valid_field_descriptor(field.descriptor), "descriptor">>,
         <<visibility_count(field.access_flags) > 1, "visibility">>,
         <<flag(FINAL) /\ flag(VOLATILE), "final and volatile">>,
         <<is_interface /\ ~(flag(PUBLIC) /\ flag(STATIC) /\ flag(FINAL)), "interface field">>}

verify_model_method_flags(method, is_interface, major) ==
    LET flag(bit) == Flag(method.access_flags, bit)
        any(bits) == \E bit \in bits : flag(bit)
        name == method.name
    IN  {<<visibility_count(method.access_flags) > 1, "visibility">>,
         <<flag(ABSTRACT) /\ any({PRIVATE, STATIC, FINAL, SYNCHRONIZED, NATIVE, STRICT}), "abstract flags">>,
         <<is_interface /\ name \notin {InitName, ClinitName} /\ major < 52 /\ ~(flag(PUBLIC) /\ flag(ABSTRACT)),
           "old interface method">>,
         <<is_interface /\ name \notin {InitName, ClinitName} /\ major >= 52 /\ ~flag(PUBLIC)
             /\ (major < 53 \/ ~flag(PRIVATE)), "interface method">>,
         <<name = InitName /\ any({STATIC, FINAL, SYNCHRONIZED, NATIVE, ABSTRACT, BRIDGE}), "<init> flags">>,
         <<name = ClinitName /\ ~flag(STATIC), "<clinit> not static">>}

\* A wrong method: only an abstract one goes without a body.
MethodByAbstract(method, is_interface, major) ==
    verify_model_method_flags(method, is_interface, major) \cup
    {<<~is_valid_method_name(method.name), "name">>,
     <<~is_valid_method_descriptor(method.descriptor), "descriptor">>,
     <<method.name = ClinitName /\ method.descriptor # NoArgumentsNoResult, "<clinit> descriptor">>,
     <<Flag(method.access_flags, ABSTRACT) /\ method.code # <<>>, "must not have code">>,
     <<~Flag(method.access_flags, ABSTRACT) /\ method.code = <<>>, "must have code">>}

verify_model_method(method, is_interface, major) ==
    LET bodiless == Flag(method.access_flags, ABSTRACT) \/ Flag(method.access_flags, NATIVE)
    IN  verify_model_method_flags(method, is_interface, major) \cup
        {<<~is_valid_method_name(method.name), "name">>,
         <<~is_valid_method_descriptor(method.descriptor), "descriptor">>,
         <<method.name = ClinitName /\ method.descriptor # NoArgumentsNoResult, "<clinit> descriptor">>,
         <<bodiless /\ method.code # <<>>, "must not have code">>,
         <<~bodiless /\ method.code = <<>>, "must have code">>}

verify_classmodel(model) ==
    LET is_interface == Flag(model.access_flags, INTERFACE)
        major == Num(model.version[1])
    IN  Complaints(<<"class">>, verify_model_names(model) \cup verify_model_class_flags(model.access_flags)
                                \cup verify_model_duplicates(model))
        \cup UNION {Complaints(<<"field", i>>, verify_model_field(model.fields[i], is_interface)) :
                       i \in DOMAIN model.fields}
        \cup UNION {Complaints(<<"method", i>>, verify_model_method(model.methods[i], is_interface, major)) :
                       i \in DOMAIN model.methods}
=============================================================================
