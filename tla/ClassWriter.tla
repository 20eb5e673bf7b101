---------------------------- MODULE ClassWriter -----------------------------
(***************************************************************************)
(* crates/pytecode-engine/src/writer.rs: write_class.  One layout for each *)
(* structure as the writer emits it, stated apart from the reader's, and   *)
(* Write, which follows a layout over a value.  Counts and lengths come    *)
(* from the value; a count is cast to its width without a look at its      *)
(* size, except the four that write_class checks.                          *)
(***************************************************************************)
EXTENDS ByteFormat, SequencesExt

\* A count refused when it does not fit (u16::try_from).
CheckedList(n, f) == [k |-> "checked_list", n |-> n, of |-> f]

-----------------------------------------------------------------------------
(***************************************************************************)
(* Constants, instructions.  The tag of a constant follows from its        *)
(* variant; an instruction is written with the opcode it holds.            *)
(***************************************************************************)
Class_NameAndType == Struct(<< <<"class_index", U2>>, <<"name_and_type_index", U2>> >>)
Bootstrap_NameAndType ==
    Struct(<< <<"bootstrap_method_attr_index", U2>>, <<"name_and_type_index", U2>> >>)
HighLow == Struct(<< <<"high_bytes", U4>>, <<"low_bytes", U4>> >>)

WritePoolEntry == Choice(<<
    Row("Utf8", {1}, Sized(2, Rest)), Row("Integer", {3}, U4), Row("Float", {4}, U4),
    Row("Long", {5}, HighLow), Row("Double", {6}, HighLow),
    Row("Class", {7}, U2), Row("String", {8}, U2),
    Row("FieldRef", {9}, Class_NameAndType), Row("MethodRef", {10}, Class_NameAndType),
    Row("InterfaceMethodRef", {11}, Class_NameAndType),
    Row("NameAndType", {12}, Struct(<< <<"name_index", U2>>, <<"descriptor_index", U2>> >>)),
    Row("MethodHandle", {15}, Struct(<< <<"reference_kind", U1>>, <<"reference_index", U2>> >>)),
    Row("MethodType", {16}, U2), Row("Dynamic", {17}, Bootstrap_NameAndType),
    Row("InvokeDynamic", {18}, Bootstrap_NameAndType),
    Row("Module", {19}, U2), Row("Package", {20}, U2) >>)

WriteInstruction == Choice(<<
    Row("Simple", Byte, Nothing), Row("LocalIndex", Byte, U1),
    Row("ConstantPoolIndex1", Byte, U1), Row("ConstantPoolIndexWide", Byte, U2),
    Row("Byte", Byte, U1), Row("Short", Byte, U2),
    Row("Branch", Byte, U2), Row("BranchWide", Byte, U4),
    Row("IInc", {132}, Struct(<< <<"index", U1>>, <<"value", U1>> >>)),
    Row("InvokeDynamic", {186}, Struct(<< <<"index", U2>>, <<"reserved", U2>> >>)),
    Row("InvokeInterface", {185},
        Struct(<< <<"index", U2>>, <<"count", U1>>, <<"reserved", U1>> >>)),
    Row("NewArray", {188}, U1),
    Row("MultiANewArray", {197}, Struct(<< <<"index", U2>>, <<"dimensions", U1>> >>)),
    Row("LookupSwitch", {171},
        Struct(<< <<"offset", Padding>>, <<"default_offset", U4>>,
                  <<"pairs", List(4, Struct(<< <<"match_value", U4>>, <<"offset", U4>> >>))>> >>)),
    Row("TableSwitch", {170},
        Struct(<< <<"offset", Padding>>, <<"default_offset", U4>>, <<"table", Table>> >>)),
    Row("Wide", {196}, Choice(<<
        Row("index", Byte, U2),
        Row("iinc", Byte, Struct(<< <<"index", U2>>, <<"value", U2>> >>)) >>)) >>)

-----------------------------------------------------------------------------
(***************************************************************************)
(* Frames: the type byte is a field of its own, so each variant checks it. *)
(***************************************************************************)
WriteVerificationType == Choice(<<
    Row("Top", {0}, Nothing), Row("Integer", {1}, Nothing), Row("Float", {2}, Nothing),
    Row("Double", {3}, Nothing), Row("Long", {4}, Nothing), Row("Null", {5}, Nothing),
    Row("UninitializedThis", {6}, Nothing),
    Row("Object", {7}, U2), Row("Uninitialized", {8}, U2) >>)

WriteAppend(n) ==
    Row("Append", {251 + n},
        Struct(<< <<"offset_delta", U2>>, <<"locals", Times(n, WriteVerificationType)>> >>))

WriteStackMapFrame == Choice(<<
    Row("Same", 0..63, Nothing),
    Row("SameLocals1StackItem", 64..127, WriteVerificationType),
    Row("SameLocals1StackItemExtended", {247},
        Struct(<< <<"offset_delta", U2>>, <<"stack", WriteVerificationType>> >>)),
    Row("Chop", 248..250, U2),
    Row("SameExtended", {251}, U2),
    WriteAppend(1), WriteAppend(2), WriteAppend(3),
    Row("Full", {255}, Struct(<< <<"offset_delta", U2>>,
                                 <<"locals", List(2, WriteVerificationType)>>,
                                 <<"stack", List(2, WriteVerificationType)>> >>)) >>)

-----------------------------------------------------------------------------
(***************************************************************************)
(* Annotations.                                                            *)
(***************************************************************************)
WritePairs == List(2, Struct(<< <<"element_name_index", U2>>, <<"element_value", ElementValue>> >>))

WriteElementValue == Choice(<<
    Row("Const", {66, 67, 68, 70, 73, 74, 83, 90, 115}, U2),
    Row("Enum", {101}, Struct(<< <<"type_name_index", U2>>, <<"const_name_index", U2>> >>)),
    Row("Class", {99}, U2),
    Row("Annotation", {64}, Annotation),
    Row("Array", {91}, List(2, ElementValue)) >>)

WriteAnnotation == Struct(<< <<"type_index", U2>>, <<"pairs", WritePairs>> >>)

\* matches_target_type: the target_type byte each variant may be written with.
MatchingTargets == [
    TypeParameter |-> {0, 1}, Supertype |-> {16}, TypeParameterBound |-> {17, 18},
    Empty |-> {19, 20, 21}, FormalParameter |-> {22}, Throws |-> {23},
    Localvar |-> {64, 65}, Catch |-> {66}, Offset |-> {67, 68, 69, 70},
    TypeArgument |-> {71, 72, 73, 74, 75} ]

TargetRow(variant, f) == Row(variant, MatchingTargets[variant], f)

WriteTargetInfo == Choice(<<
    TargetRow("TypeParameter", U1), TargetRow("Supertype", U2),
    TargetRow("TypeParameterBound",
        Struct(<< <<"type_parameter_index", U1>>, <<"bound_index", U1>> >>)),
    TargetRow("Empty", Nothing), TargetRow("FormalParameter", U1), TargetRow("Throws", U2),
    TargetRow("Localvar",
        List(2, Struct(<< <<"start_pc", U2>>, <<"length", U2>>, <<"index", U2>> >>))),
    TargetRow("Catch", U2), TargetRow("Offset", U2),
    TargetRow("TypeArgument", Struct(<< <<"offset", U2>>, <<"type_argument_index", U1>> >>)) >>)

WriteTypePath == List(1, Struct(<< <<"type_path_kind", U1>>, <<"type_argument_index", U1>> >>))

WriteTypeAnnotation ==
    Struct(<< <<"target", WriteTargetInfo>>, <<"target_path", WriteTypePath>>,
              <<"type_index", U2>>, <<"pairs", WritePairs>> >>)

WriteAnnotations          == List(2, Annotation)
WriteParameterAnnotations == List(1, List(2, Annotation))
WriteTypeAnnotations      == List(2, WriteTypeAnnotation)

-----------------------------------------------------------------------------
(***************************************************************************)
(* Attributes.                                                             *)
(***************************************************************************)
WriteIndexes == List(2, U2)
WriteLineNumberTable == List(2, Struct(<< <<"start_pc", U2>>, <<"line_number", U2>> >>))
WriteLocalVariableTable ==
    List(2, Struct(<< <<"start_pc", U2>>, <<"length", U2>>, <<"name_index", U2>>,
                      <<"descriptor_index", U2>>, <<"index", U2>> >>))
WriteLocalVariableTypeTable ==
    List(2, Struct(<< <<"start_pc", U2>>, <<"length", U2>>, <<"name_index", U2>>,
                      <<"signature_index", U2>>, <<"index", U2>> >>))
WriteStackMapTable == List(2, WriteStackMapFrame)
WriteInnerClasses ==
    List(2, Struct(<< <<"inner_class_info_index", U2>>, <<"outer_class_info_index", U2>>,
                      <<"inner_name_index", U2>>, <<"inner_class_access_flags", U2>> >>))
WriteEnclosingMethod == Struct(<< <<"class_index", U2>>, <<"method_index", U2>> >>)
WriteCode ==
    Struct(<< <<"max_stack", U2>>, <<"max_locals", U2>>,
              <<"code", Sized(4, All(WriteInstruction))>>,
              <<"exception_table",
                List(2, Struct(<< <<"start_pc", U2>>, <<"end_pc", U2>>, <<"handler_pc", U2>>,
                                  <<"catch_type", U2>> >>))>>,
              <<"attributes", List(2, Attribute)>> >>)
WriteMethodParameters == List(1, Struct(<< <<"name_index", U2>>, <<"access_flags", U2>> >>))
WriteBootstrapMethods ==
    List(2, Struct(<< <<"bootstrap_method_ref", U2>>, <<"bootstrap_arguments", List(2, U2)>> >>))
WriteModule ==
    Struct(<< <<"module_name_index", U2>>, <<"module_flags", U2>>, <<"module_version_index", U2>>,
      <<"requires", List(2, Struct(<< <<"requires_index", U2>>, <<"requires_flags", U2>>,
                                      <<"requires_version_index", U2>> >>))>>,
      <<"exports", List(2, Struct(<< <<"exports_index", U2>>, <<"exports_flags", U2>>,
                                     <<"exports_to_index", List(2, U2)>> >>))>>,
      <<"opens", List(2, Struct(<< <<"opens_index", U2>>, <<"opens_flags", U2>>,
                                   <<"opens_to_index", List(2, U2)>> >>))>>,
      <<"uses_index", List(2, U2)>>,
      <<"provides", List(2, Struct(<< <<"provides_index", U2>>,
                                      <<"provides_with_index", List(2, U2)>> >>))>> >>)
WriteRecord ==
    List(2, Struct(<< <<"name_index", U2>>, <<"descriptor_index", U2>>,
                      <<"attributes", List(2, Attribute)>> >>))

\* write_attribute: the payload of each kind.
WritePayload(name) ==
    CASE name \in {"Synthetic", "Deprecated"} -> Nothing
      [] name \in {"ConstantValue", "Signature", "SourceFile", "NestHost", "ModuleMainClass"} -> U2
      [] name \in {"SourceDebugExtension", "Unknown"} -> Rest
      [] name \in {"Exceptions", "NestMembers", "ModulePackages", "PermittedSubclasses"} ->
            WriteIndexes
      [] name = "LineNumberTable" -> WriteLineNumberTable
      [] name = "LocalVariableTable" -> WriteLocalVariableTable
      [] name = "LocalVariableTypeTable" -> WriteLocalVariableTypeTable
      [] name = "StackMapTable" -> WriteStackMapTable
      [] name = "InnerClasses" -> WriteInnerClasses
      [] name = "EnclosingMethod" -> WriteEnclosingMethod
      [] name = "Code" -> WriteCode
      [] name = "MethodParameters" -> WriteMethodParameters
      [] name \in {"RuntimeVisibleAnnotations", "RuntimeInvisibleAnnotations"} ->
            WriteAnnotations
      [] name \in {"RuntimeVisibleParameterAnnotations", "RuntimeInvisibleParameterAnnotations"} ->
            WriteParameterAnnotations
      [] name \in {"RuntimeVisibleTypeAnnotations", "RuntimeInvisibleTypeAnnotations"} ->
            WriteTypeAnnotations
      [] name = "AnnotationDefault" -> ElementValue
      [] name = "BootstrapMethods" -> WriteBootstrapMethods
      [] name = "Module" -> WriteModule
      [] name = "Record" -> WriteRecord

WriteMember == Struct(<< <<"access_flags", U2>>, <<"name_index", U2>>, <<"descriptor_index", U2>>,
                         <<"attributes", List(2, Attribute)>> >>)
WriteBody ==
    Struct(<< <<"access_flags", U2>>, <<"this_class", U2>>, <<"super_class", U2>>,
              <<"interfaces", CheckedList(2, U2)>>, <<"fields", CheckedList(2, WriteMember)>>,
              <<"methods", CheckedList(2, WriteMember)>>, <<"attributes", List(2, Attribute)>> >>)

-----------------------------------------------------------------------------
(***************************************************************************)
(* Following a layout: [ok, b], or Unwritable.                             *)
(***************************************************************************)
Unwritable == [ok |-> FALSE, b |-> <<>>]
Put(b)     == [ok |-> TRUE, b |-> b]
Cat(p, q)  == IF p.ok /\ q.ok THEN Put(p.b \o q.b) ELSE Unwritable

RECURSIVE Write(_, _), WriteEach(_, _), WriteFields(_, _)

\* One after the other, the first half and the second.
WriteEach(f, seq) ==
    LET half == Len(seq) \div 2
    IN  CASE seq = <<>>   -> Put(<<>>)
          [] Len(seq) = 1 -> Write(f, seq[1])
          [] OTHER        -> Cat(WriteEach(f, SubSeq(seq, 1, half)),
                                 WriteEach(f, SubSeq(seq, half + 1, Len(seq))))
WriteFields(fs, v) ==
    IF fs = <<>> THEN Put(<<>>)
    ELSE Cat(Write(Head(fs)[2], v[Head(fs)[1]]), WriteFields(Tail(fs), v))

\* The variant's row writes the tag and the rest; a tag that is not the
\* variant's (or an Append frame of the wrong length) is refused.
WriteChoice(rows, v) ==
    LET row == SelectSeq(rows, LAMBDA r : r.variant = v.variant /\ v.tag \in r.tags)
    IN  IF row = <<>> THEN Unwritable ELSE Cat(Put(<<v.tag>>), Write(row[1].of, v.v))

\* A payload is written on the side, then its length and itself.
WriteSized(n, f, v) ==
    LET payload == Write(f, v) IN Cat(Put(Bytes(n, Len(payload.b))), payload)

Write(f, v) ==
    CASE f.k = "uint"          -> Put(v)
      [] f.k = "rest"          -> Put(v)
      [] f.k = "struct"        -> WriteFields(f.of, v)
      [] f.k = "list"          -> Cat(Put(Bytes(f.n, Len(v))), WriteEach(f.of, v))
      [] f.k = "checked_list"  -> IF Len(v) >= 256^f.n THEN Unwritable
                                  ELSE Cat(Put(Bytes(f.n, Len(v))), WriteEach(f.of, v))
      [] f.k = "times"         -> IF Len(v) = f.n THEN WriteEach(f.of, v) ELSE Unwritable
      [] f.k = "all"           -> WriteEach(f.of, v)
      [] f.k = "sized"         -> WriteSized(f.n, f.of, v)
      [] f.k = "choice"        -> WriteChoice(f.of, v)
      [] f.k = "padding"       -> Put([i \in 1..((4 - (v % 4)) % 4) |-> 0])
      [] f.k = "table"         -> Cat(Put(v.low \o v.high), WriteEach(U4, v.offsets))
      [] f.k = "attribute"     -> Cat(Put(v.index), WriteSized(4, WritePayload(v.name), v.v))
      [] f.k = "annotation"    -> Write(WriteAnnotation, v)
      [] f.k = "element_value" -> Write(WriteElementValue, v)

-----------------------------------------------------------------------------
(***************************************************************************)
(* write_class.                                                            *)
(***************************************************************************)
Wide(entry) == entry.variant \in {"Long", "Double"}

\* A wrong GapsAreRight: only the end of the pool is looked at.
GapsAnywhere(pool) == pool # <<>> => ~Wide(Last(pool))

\* iter_constant_pool_entries: after each wide constant and nowhere else, a gap.
GapsAreRight(pool) ==
    /\ \A i \in DOMAIN pool :
          (pool[i].variant = "Gap") <=> (i > 1 /\ Wide(pool[i - 1]))
    /\ pool # <<>> => ~Wide(Last(pool))

WritePool(pool) ==
    IF GapsAreRight(pool) /\ Len(pool) + 1 < 65536
    THEN Cat(Put(Bytes(2, Len(pool) + 1)),
             WriteEach(WritePoolEntry, SelectSeq(pool, LAMBDA e : e.variant # "Gap")))
    ELSE Unwritable

ClassBytes(class) ==
    IF class.magic # <<202, 254, 186, 190>> THEN Unwritable
    ELSE Cat(Put(class.magic \o class.minor_version \o class.major_version),
             Cat(WritePool(class.constant_pool), Write(WriteBody, class.body)))
=============================================================================
