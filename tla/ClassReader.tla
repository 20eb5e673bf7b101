---------------------------- MODULE ClassReader -----------------------------
(***************************************************************************)
(* crates/pytecode-engine/src/reader.rs: parse_class.  One layout for each *)
(* structure as the reader consumes it, and Read, which follows a layout   *)
(* over a byte string.  A value read is a byte string (a scalar), a        *)
(* sequence (a list), a record by field name (a struct) or a record        *)
(* [variant, tag, v] (a tagged alternative).                               *)
(*                                                                         *)
(* A Utf8 constant of the model is one byte long when it names something:  *)
(* AttributeOf tells which attribute a name byte stands for.               *)
(***************************************************************************)
EXTENDS ByteFormat, ModifiedUtf8, SequencesExt

\* The names parse_attribute_payload knows, each a one-byte Utf8 from FirstName on.
AttributeNames == <<
    "Synthetic", "Deprecated", "ConstantValue", "Signature", "SourceFile",
    "SourceDebugExtension", "LineNumberTable", "LocalVariableTable",
    "LocalVariableTypeTable", "StackMapTable", "Exceptions", "InnerClasses",
    "EnclosingMethod", "Code", "MethodParameters", "NestHost", "NestMembers",
    "RuntimeVisibleAnnotations", "RuntimeInvisibleAnnotations",
    "RuntimeVisibleParameterAnnotations", "RuntimeInvisibleParameterAnnotations",
    "RuntimeVisibleTypeAnnotations", "RuntimeInvisibleTypeAnnotations",
    "AnnotationDefault", "BootstrapMethods", "Module", "ModulePackages",
    "ModuleMainClass", "Record", "PermittedSubclasses" >>
FirstName == 65
AttributeOf(utf8) ==
    IF Len(utf8) = 1 /\ utf8[1] - FirstName + 1 \in DOMAIN AttributeNames
    THEN AttributeNames[utf8[1] - FirstName + 1]
    ELSE "Unknown"

-----------------------------------------------------------------------------
(***************************************************************************)
(* Constants of the pool.                                                  *)
(***************************************************************************)
PoolEntry == Choice(<<
    Row("Utf8", {1}, Sized(2, Rest)),
    Row("Integer", {3}, U4), Row("Float", {4}, U4),
    Row("Long", {5}, Struct(<< <<"high_bytes", U4>>, <<"low_bytes", U4>> >>)),
    Row("Double", {6}, Struct(<< <<"high_bytes", U4>>, <<"low_bytes", U4>> >>)),
    Row("Class", {7}, U2), Row("String", {8}, U2),
    Row("FieldRef", {9}, Struct(<< <<"class_index", U2>>, <<"name_and_type_index", U2>> >>)),
    Row("MethodRef", {10}, Struct(<< <<"class_index", U2>>, <<"name_and_type_index", U2>> >>)),
    Row("InterfaceMethodRef", {11},
        Struct(<< <<"class_index", U2>>, <<"name_and_type_index", U2>> >>)),
    Row("NameAndType", {12}, Struct(<< <<"name_index", U2>>, <<"descriptor_index", U2>> >>)),
    Row("MethodHandle", {15},
        Struct(<< <<"reference_kind", OneOf(1..9)>>, <<"reference_index", U2>> >>)),
    Row("MethodType", {16}, U2),
    Row("Dynamic", {17},
        Struct(<< <<"bootstrap_method_attr_index", U2>>, <<"name_and_type_index", U2>> >>)),
    Row("InvokeDynamic", {18},
        Struct(<< <<"bootstrap_method_attr_index", U2>>, <<"name_and_type_index", U2>> >>)),
    Row("Module", {19}, U2), Row("Package", {20}, U2) >>)

IsWide(entry) == entry.variant \in {"Long", "Double"}

-----------------------------------------------------------------------------
(***************************************************************************)
(* Instructions.  An opcode no row has is refused.                         *)
(***************************************************************************)
WideOpcodes == (21..25) \cup (54..58) \cup {169}

Instruction == Choice(<<
    Row("Byte", {16}, U1), Row("Short", {17}, U2),
    Row("ConstantPoolIndex1", {18}, U1),
    Row("ConstantPoolIndexWide", {19, 20, 187, 189, 192, 193} \cup (178..184), U2),
    Row("LocalIndex", WideOpcodes, U1),
    Row("IInc", {132}, Struct(<< <<"index", U1>>, <<"value", U1>> >>)),
    Row("Branch", (153..168) \cup {198, 199}, U2),
    Row("BranchWide", {200, 201}, U4),
    Row("InvokeInterface", {185},
        Struct(<< <<"index", U2>>, <<"count", U1>>, <<"reserved", Zero(1)>> >>)),
    Row("InvokeDynamic", {186}, Struct(<< <<"index", U2>>, <<"reserved", Zero(2)>> >>)),
    Row("NewArray", {188}, OneOf(4..11)),
    Row("Wide", {196}, Choice(<<
        Row("index", WideOpcodes, U2),
        Row("iinc", {132}, Struct(<< <<"index", U2>>, <<"value", U2>> >>)) >>)),
    Row("MultiANewArray", {197}, Struct(<< <<"index", U2>>, <<"dimensions", U1>> >>)),
    Row("TableSwitch", {170},
        Struct(<< <<"offset", Padding>>, <<"default_offset", U4>>, <<"table", Table>> >>)),
    Row("LookupSwitch", {171},
        Struct(<< <<"offset", Padding>>, <<"default_offset", U4>>,
                  <<"pairs", List(4, Struct(<< <<"match_value", U4>>, <<"offset", U4>> >>))>> >>)),
    Row("Simple", (0..15) \cup (26..53) \cup (59..131) \cup (133..152) \cup (172..177)
                    \cup (190..191) \cup (194..195) \cup {202}, Nothing) >>)

-----------------------------------------------------------------------------
(***************************************************************************)
(* Stack map frames.                                                       *)
(***************************************************************************)
VerificationType == Choice(<<
    Row("Top", {0}, Nothing), Row("Integer", {1}, Nothing), Row("Float", {2}, Nothing),
    Row("Double", {3}, Nothing), Row("Long", {4}, Nothing), Row("Null", {5}, Nothing),
    Row("UninitializedThis", {6}, Nothing),
    Row("Object", {7}, U2), Row("Uninitialized", {8}, U2) >>)

AppendFrame(n) ==
    Row("Append", {251 + n},
        Struct(<< <<"offset_delta", U2>>, <<"locals", Times(n, VerificationType)>> >>))

StackMapFrame == Choice(<<
    Row("Same", 0..63, Nothing),
    Row("SameLocals1StackItem", 64..127, VerificationType),
    Row("SameLocals1StackItemExtended", {247},
        Struct(<< <<"offset_delta", U2>>, <<"stack", VerificationType>> >>)),
    Row("Chop", 248..250, U2),
    Row("SameExtended", {251}, U2),
    AppendFrame(1), AppendFrame(2), AppendFrame(3),
    Row("Full", {255}, Struct(<< <<"offset_delta", U2>>,
                                 <<"locals", List(2, VerificationType)>>,
                                 <<"stack", List(2, VerificationType)>> >>)) >>)

-----------------------------------------------------------------------------
(***************************************************************************)
(* Annotations.  Characters are their codes: B C D F I J S Z s, then e, c, *)
(* @ and [.                                                                *)
(***************************************************************************)
ConstTags == {66, 67, 68, 70, 73, 74, 83, 90, 115}
Pairs == List(2, Struct(<< <<"element_name_index", U2>>, <<"element_value", ElementValue>> >>))

ElementValueLayout == Choice(<<
    Row("Const", ConstTags, U2),
    Row("Enum", {101}, Struct(<< <<"type_name_index", U2>>, <<"const_name_index", U2>> >>)),
    Row("Class", {99}, U2),
    Row("Annotation", {64}, Annotation),
    Row("Array", {91}, List(2, ElementValue)) >>)

AnnotationLayout == Struct(<< <<"type_index", U2>>, <<"pairs", Pairs>> >>)

\* TargetInfoType::from_target_type: the layout each target_type byte selects.
TargetInfo == Choice(<<
    Row("TypeParameter", {0, 1}, U1),
    Row("Supertype", {16}, U2),
    Row("TypeParameterBound", {17, 18},
        Struct(<< <<"type_parameter_index", U1>>, <<"bound_index", U1>> >>)),
    Row("Empty", {19, 20, 21}, Nothing),
    Row("FormalParameter", {22}, U1),
    Row("Throws", {23}, U2),
    Row("Localvar", {64, 65},
        List(2, Struct(<< <<"start_pc", U2>>, <<"length", U2>>, <<"index", U2>> >>))),
    Row("Catch", {66}, U2),
    Row("Offset", 67..70, U2),
    Row("TypeArgument", 71..75,
        Struct(<< <<"offset", U2>>, <<"type_argument_index", U1>> >>)) >>)

TypePath == List(1, Struct(<< <<"type_path_kind", OneOf(0..3)>>, <<"type_argument_index", U1>> >>))

TypeAnnotation == Struct(<< <<"target", TargetInfo>>, <<"target_path", TypePath>>,
                            <<"type_index", U2>>, <<"pairs", Pairs>> >>)

Annotations          == List(2, Annotation)
ParameterAnnotations == List(1, List(2, Annotation))
TypeAnnotations      == List(2, TypeAnnotation)

-----------------------------------------------------------------------------
(***************************************************************************)
(* Attributes.                                                             *)
(***************************************************************************)
Indexes == List(2, U2)
LineNumberTable == List(2, Struct(<< <<"start_pc", U2>>, <<"line_number", U2>> >>))
LocalVariableTable ==
    List(2, Struct(<< <<"start_pc", U2>>, <<"length", U2>>, <<"name_index", U2>>,
                      <<"descriptor_index", U2>>, <<"index", U2>> >>))
LocalVariableTypeTable ==
    List(2, Struct(<< <<"start_pc", U2>>, <<"length", U2>>, <<"name_index", U2>>,
                      <<"signature_index", U2>>, <<"index", U2>> >>))
StackMapTable == List(2, StackMapFrame)
InnerClasses ==
    List(2, Struct(<< <<"inner_class_info_index", U2>>, <<"outer_class_info_index", U2>>,
                      <<"inner_name_index", U2>>, <<"inner_class_access_flags", U2>> >>))
EnclosingMethod == Struct(<< <<"class_index", U2>>, <<"method_index", U2>> >>)
Code ==
    Struct(<< <<"max_stack", U2>>, <<"max_locals", U2>>, <<"code", Sized(4, All(Instruction))>>,
              <<"exception_table",
                List(2, Struct(<< <<"start_pc", U2>>, <<"end_pc", U2>>, <<"handler_pc", U2>>,
                                  <<"catch_type", U2>> >>))>>,
              <<"attributes", List(2, Attribute)>> >>)
MethodParameters == List(1, Struct(<< <<"name_index", U2>>, <<"access_flags", U2>> >>))
BootstrapMethods ==
    List(2, Struct(<< <<"bootstrap_method_ref", U2>>, <<"bootstrap_arguments", List(2, U2)>> >>))
Module ==
    Struct(<< <<"module_name_index", U2>>, <<"module_flags", U2>>, <<"module_version_index", U2>>,
      <<"requires", List(2, Struct(<< <<"requires_index", U2>>, <<"requires_flags", U2>>,
                                      <<"requires_version_index", U2>> >>))>>,
      <<"exports", List(2, Struct(<< <<"exports_index", U2>>, <<"exports_flags", U2>>,
                                     <<"exports_to_index", List(2, U2)>> >>))>>,
      <<"opens", List(2, Struct(<< <<"opens_index", U2>>, <<"opens_flags", U2>>,
                                   <<"opens_to_index", List(2, U2)>> >>))>>,
      <<"uses_index", List(2, U2)>>,
      <<"provides", List(2, Struct(<< <<"provides_index", U2>>,
                                      <<"provides_with_index", List(2, U2)>> >>))>> >>)
Record ==
    List(2, Struct(<< <<"name_index", U2>>, <<"descriptor_index", U2>>,
                      <<"attributes", List(2, Attribute)>> >>))

\* parse_attribute_payload: the layout of the payload of a named attribute.
Payload(name) ==
    CASE name \in {"Synthetic", "Deprecated"} -> Nothing
      [] name \in {"ConstantValue", "Signature", "SourceFile", "NestHost", "ModuleMainClass"} -> U2
      [] name \in {"SourceDebugExtension", "Unknown"} -> Rest
      [] name \in {"Exceptions", "NestMembers", "ModulePackages", "PermittedSubclasses"} ->
            Indexes
      [] name = "LineNumberTable" -> LineNumberTable
      [] name = "LocalVariableTable" -> LocalVariableTable
      [] name = "LocalVariableTypeTable" -> LocalVariableTypeTable
      [] name = "StackMapTable" -> StackMapTable
      [] name = "InnerClasses" -> InnerClasses
      [] name = "EnclosingMethod" -> EnclosingMethod
      [] name = "Code" -> Code
      [] name = "MethodParameters" -> MethodParameters
      [] name \in {"RuntimeVisibleAnnotations", "RuntimeInvisibleAnnotations"} ->
            Annotations
      [] name \in {"RuntimeVisibleParameterAnnotations", "RuntimeInvisibleParameterAnnotations"} ->
            ParameterAnnotations
      [] name \in {"RuntimeVisibleTypeAnnotations", "RuntimeInvisibleTypeAnnotations"} ->
            TypeAnnotations
      [] name = "AnnotationDefault" -> ElementValue
      [] name = "BootstrapMethods" -> BootstrapMethods
      [] name = "Module" -> Module
      [] name = "Record" -> Record

Member == Struct(<< <<"access_flags", U2>>, <<"name_index", U2>>, <<"descriptor_index", U2>>,
                    <<"attributes", List(2, Attribute)>> >>)
Header == Struct(<< <<"magic", U4>>, <<"minor_version", U2>>, <<"major_version", U2>>,
                    <<"constant_pool_count", U2>> >>)
Body == Struct(<< <<"access_flags", U2>>, <<"this_class", U2>>, <<"super_class", U2>>,
                  <<"interfaces", List(2, U2)>>, <<"fields", List(2, Member)>>,
                  <<"methods", List(2, Member)>>, <<"attributes", List(2, Attribute)>> >>)

-----------------------------------------------------------------------------
(***************************************************************************)
(* Following a layout.  A read starts after the first `at` bytes of s and  *)
(* ends with the value and the place it stopped at, or is Refused.         *)
(***************************************************************************)
Refused       == [ok |-> FALSE, v |-> <<>>, at |-> 0]
Read_(v, at)  == [ok |-> TRUE, v |-> v, at |-> at]
Then(r, F(_)) == IF r.ok THEN F(r) ELSE Refused

\* ByteReader::read_bytes.
Take(s, at, n) == IF Len(s) - at < n THEN Refused ELSE Read_(SubSeq(s, at + 1, at + n), at + n)

\* constant_pool_utf8: the decoded Utf8 constant an index names, or none.
IsUtf8(pool, index) ==
    /\ Num(index) \in DOMAIN pool
    /\ pool[Num(index)].variant = "Utf8"
    /\ Decodes(pool[Num(index)].v)

RECURSIVE Read(_, _, _, _), ReadTimes(_, _, _, _, _), ReadAll(_, _, _, _),
          ReadStruct(_, _, _, _)

\* n elements one after the other, the first half and the second.  No element is
\* empty, so more elements than bytes run into the end of the stream.
ReadTimes(f, n, pool, s, at) ==
    CASE n = 0           -> Read_(<<>>, at)
      [] n > Len(s) - at -> Refused
      [] n = 1           -> Then(Read(f, pool, s, at), LAMBDA r : Read_(<<r.v>>, r.at))
      [] OTHER           ->
            Then(ReadTimes(f, n \div 2, pool, s, at), LAMBDA r :
                Then(ReadTimes(f, n - (n \div 2), pool, s, r.at), LAMBDA rest :
                    Read_(r.v \o rest.v, rest.at)))

ReadStruct(fields, pool, s, at) ==
    IF fields = <<>> THEN Read_(<<>>, at)
    ELSE Then(Read(Head(fields)[2], pool, s, at), LAMBDA r :
             Then(ReadStruct(Tail(fields), pool, s, r.at), LAMBDA rest :
                 Read_((Head(fields)[1] :> r.v) @@ rest.v, rest.at)))

ReadChoice(rows, pool, s, at) ==
    Then(Take(s, at, 1), LAMBDA tag :
        LET row == SelectSeq(rows, LAMBDA r : tag.v[1] \in r.tags)
        IN  IF row = <<>> THEN Refused
            ELSE Then(Read(row[1].of, pool, s, tag.at), LAMBDA r :
                     Read_([variant |-> row[1].variant, tag |-> tag.v[1], v |-> r.v], r.at)))

\* A wrong ReadSized: bytes the payload does not use are passed over.
ReadSizedLoose(n, f, pool, s, at) ==
    Then(Take(s, at, n), LAMBDA size :
        Then(Take(s, size.at, Num(size.v)), LAMBDA body :
            Then(Read(f, pool, body.v, 0), LAMBDA r : Read_(r.v, body.at))))

\* A length, and a reader of its own for that many bytes, which must use them all.
ReadSized(n, f, pool, s, at) ==
    Then(Take(s, at, n), LAMBDA size :
        Then(Take(s, size.at, Num(size.v)), LAMBDA body :
            Then(Read(f, pool, body.v, 0), LAMBDA r :
                IF r.at = Len(body.v) THEN Read_(r.v, body.at) ELSE Refused)))

\* parse_instructions: one after the other until the code is used up.
ReadAll(f, pool, s, at) ==
    IF at = Len(s) THEN Read_(<<>>, at)
    ELSE Then(Read(f, pool, s, at), LAMBDA r :
             Then(ReadAll(f, pool, s, r.at), LAMBDA rest :
                 Read_(<<r.v>> \o rest.v, rest.at)))

\* high - low + 1 of two signed numbers, by halves of which the upper has the sign;
\* 0 - 1 stands for those that are further apart, or overflow.
Upper(i4) == Num(SubSeq(i4, 1, 2)) - (IF i4[1] < 128 THEN 0 ELSE 65536)

TableLength(low, high) ==
    LET apart == Upper(high) - Upper(low)
    IN  IF apart \notin {0 - 1, 0, 1} THEN 0 - 1
        ELSE apart * 65536 + Num(SubSeq(high, 3, 4)) - Num(SubSeq(low, 3, 4)) + 1

ReadTable(pool, s, at) ==
    Then(Read(Struct(<< <<"low", U4>>, <<"high", U4>> >>), pool, s, at), LAMBDA range :
        LET count == TableLength(range.v.low, range.v.high)
        IN  IF count \notin 0..65536 THEN Refused
            ELSE Then(ReadTimes(U4, count, pool, s, range.at), LAMBDA r :
                     Read_(("offsets" :> r.v) @@ range.v, r.at)))

\* read_attribute and read_attribute_from_payload: the payload is cut out
\* first, then the name is looked up, then the payload is parsed to its end.
ReadAttribute(pool, s, at) ==
    Then(Take(s, at, 2), LAMBDA index :
        IF IsUtf8(pool, index.v)
        THEN LET name == AttributeOf(pool[Num(index.v)].v)
             IN  Then(ReadSized(4, Payload(name), pool, s, index.at), LAMBDA r :
                     Read_([name |-> name, index |-> index.v, v |-> r.v], r.at))
        ELSE Refused)

Read(f, pool, s, at) ==
    CASE f.k = "uint"          -> Take(s, at, f.n)
      [] f.k = "oneof"         -> Then(Take(s, at, 1), LAMBDA r :
                                      IF r.v[1] \in f.of THEN r ELSE Refused)
      [] f.k = "zero"          -> Then(Take(s, at, f.n), LAMBDA r :
                                      IF Num(r.v) = 0 THEN r ELSE Refused)
      [] f.k = "rest"          -> Take(s, at, Len(s) - at)
      [] f.k = "struct"        -> ReadStruct(f.of, pool, s, at)
      [] f.k = "times"         -> ReadTimes(f.of, f.n, pool, s, at)
      [] f.k = "list"          -> Then(Take(s, at, f.n), LAMBDA count :
                                      ReadTimes(f.of, Num(count.v), pool, s, count.at))
      [] f.k = "sized"         -> ReadSized(f.n, f.of, pool, s, at)
      [] f.k = "all"           -> ReadAll(f.of, pool, s, at)
      [] f.k = "choice"        -> ReadChoice(f.of, pool, s, at)
      [] f.k = "padding"       -> Then(Take(s, at, (4 - (at % 4)) % 4), LAMBDA r : Read_(at, r.at))
      [] f.k = "table"         -> ReadTable(pool, s, at)
      [] f.k = "attribute"     -> ReadAttribute(pool, s, at)
      [] f.k = "annotation"    -> Read(AnnotationLayout, pool, s, at)
      [] f.k = "element_value" -> Read(ElementValueLayout, pool, s, at)

-----------------------------------------------------------------------------
(***************************************************************************)
(* parse_class.                                                            *)
(***************************************************************************)
Magic == <<202, 254, 186, 190>>

\* class_version_supported_by_java_se_25.
VersionSupported(major, minor) ==
    \/ major \in 45..55
    \/ major \in 56..69 /\ minor \in {0, 65535}

Gap == [variant |-> "Gap", tag |-> 0, v |-> <<>>]

\* Slots 1..count - 1.  A wide constant takes two; in the last slot it has no
\* second one, and the loop simply ends.  No constant is empty: see ReadTimes.
RECURSIVE ReadPool(_, _, _)
ReadPool(s, at, slots) ==
    CASE slots = 0      -> Read_(<<>>, at)
      [] slots > Len(s) -> Refused
      [] OTHER          ->
            Then(Read(PoolEntry, <<>>, s, at), LAMBDA r :
                LET taken == IF IsWide(r.v) /\ slots > 1 THEN <<r.v, Gap>> ELSE <<r.v>>
                IN  Then(ReadPool(s, r.at, slots - Len(taken)), LAMBDA rest :
                        Read_(taken \o rest.v, rest.at)))

\* Nothing looks at the bytes after the last attribute.
ParseClass(s) ==
    Then(Read(Header, <<>>, s, 0), LAMBDA head :
        IF \/ head.v.magic # Magic
           \/ ~VersionSupported(Num(head.v.major_version), Num(head.v.minor_version))
           \/ Num(head.v.constant_pool_count) = 0
        THEN Refused
        ELSE Then(ReadPool(s, head.at, Num(head.v.constant_pool_count) - 1), LAMBDA pool :
                 Then(Read(Body, pool.v, s, pool.at), LAMBDA body :
                     Read_([magic |-> head.v.magic, minor_version |-> head.v.minor_version,
                            major_version |-> head.v.major_version,
                            constant_pool |-> pool.v, body |-> body.v], body.at))))
=============================================================================
