------------------------------ MODULE Matchers ------------------------------
(***************************************************************************)
(* What a transform applies to: trees of conditions on a class, a field, a  *)
(* method or an instruction.  A tree is interpreted (matcher_spec.rs, the    *)
(* *MatcherSpec enums), compiled first (the Compiled* enums), or made of     *)
(* closures (transform/mod.rs), which are compiled trees from the start.     *)
(*                                                                         *)
(* A regular expression is what the two ways of building it give: alone and *)
(* wrapped in ^(?:...)$ it is valid or not, and then matches some texts.     *)
(***************************************************************************)
EXTENDS Trees

CONSTANT NoCode   \* the code of a method without any

NoText == "(none)"   \* a constant that is no string, a superclass that is absent

ClassFlags == {"public", "final", "super", "interface", "abstract", "synthetic",
               "annotation", "enum", "module"}
FieldFlags == {"public", "private", "protected", "static", "final", "volatile",
               "transient", "synthetic", "enum"}
MethodFlags == {"public", "private", "protected", "static", "final", "synchronized",
                "bridge", "varargs", "native", "abstract", "strict", "synthetic"}
Visibility == {"public", "private", "protected"}

HasAll(x, flags) == flags \subseteq x.access
HasSome(x, flags) == flags \cap x.access # {}

\* The wrapped expression, if it is one: a set with what it matches, or nothing.
fullmatch_regex(pattern) == IF pattern.wrapped THEN {pattern.whole} ELSE {}

-----------------------------------------------------------------------------
(* Items of code: [k, op, owner, name, descriptor, slot, value, label,       *)
(* targets, id]; what a kind has no use for is left at a default.            *)

NamedCalls == {"Method", "InterfaceMethod"}
Calls == NamedCalls \cup {"InvokeDynamic"}
Jumps == {"Branch", "LookupSwitch", "TableSwitch"}
Returns == 172..177

\* The opcodes an item answers to; a constant answers to every form of ldc.
Opcodes(item) ==
    CASE item.k = "Label" -> {}
      [] item.k = "Ldc" -> 18..20
      [] item.k = "InterfaceMethod" -> {185}
      [] item.k = "IInc" -> {132}
      [] item.k = "InvokeDynamic" -> {186}
      [] item.k = "MultiANewArray" -> {197}
      [] item.k = "LookupSwitch" -> {171}
      [] item.k = "TableSwitch" -> {170}
      [] OTHER -> {item.op}

insn_matches_opcode(item, opcode) == opcode \in Opcodes(item)

is_return_opcode(opcode) == opcode \in Returns

-----------------------------------------------------------------------------
(* Conditions, interpreted.  "is" compares a part of the class, member or    *)
(* instruction with a value, "matches" with a regular expression.            *)

MatchesText(pattern, text) == \E texts \in fullmatch_regex(pattern) : text \in texts

ClassLeaf(m, class) ==
    CASE m.node = "any" -> TRUE
      [] m.node = "is" -> class[m.part] = m.value
      [] m.node = "matches" -> MatchesText(m.pattern, class.name)
      [] m.node = "access_all" -> HasAll(class, m.flags \cap ClassFlags)
      [] m.node = "access_any" -> HasSome(class, m.flags \cap ClassFlags)
      [] m.node = "package_private" -> ~HasAll(class, {"public"})
      [] m.node = "implements" -> m.name \in Range(class.interfaces)
      [] m.node = "version" -> class.version = m.major
      [] m.node = "version_at_least" -> class.version >= m.major
      [] m.node = "version_below" -> class.version < m.major

FieldLeaf(m, field) ==
    CASE m.node = "any" -> TRUE
      [] m.node = "is" -> field[m.part] = m.value
      [] m.node = "matches" -> MatchesText(m.pattern, field[m.part])
      [] m.node = "access_all" -> HasAll(field, m.flags \cap FieldFlags)
      [] m.node = "access_any" -> HasSome(field, m.flags \cap FieldFlags)
      [] m.node = "package_private" -> ~HasSome(field, Visibility)

\* The descriptor of a method is a pair of its parameters and its result.
extract_return_descriptor(descriptor) == descriptor[2]

MethodLeaf(m, method) ==
    CASE m.node = "any" -> TRUE
      [] m.node = "is" -> method[m.part] = m.value
      [] m.node = "matches" -> MatchesText(m.pattern, method[m.part])
      [] m.node = "access_all" -> HasAll(method, m.flags \cap MethodFlags)
      [] m.node = "access_any" -> HasSome(method, m.flags \cap MethodFlags)
      [] m.node = "package_private" -> ~HasSome(method, Visibility)
      [] m.node = "has_code" -> method.code # NoCode
      [] m.node = "returns" -> extract_return_descriptor(method.descriptor) = m.result

\* "ref" compares several parts, in instructions of some kinds only.
InsnLeaf(m, item) ==
    CASE m.node = "any" -> TRUE
      [] m.node = "opcode" -> \E opcode \in m.opcodes : insn_matches_opcode(item, opcode)
      [] m.node = "kind" -> item.k \in m.kinds
      [] m.node = "return" -> item.k = "Raw" /\ is_return_opcode(item.op)
      [] m.node = "ref" -> /\ item.k \in m.kinds
                           /\ \A part \in DOMAIN m.parts : item[part] = m.parts[part]
      [] m.node = "matches" -> item.k \in m.kinds /\ MatchesText(m.pattern, item[m.part])

Leaf(of, m, x) ==
    CASE of = "class" -> ClassLeaf(m, x)
      [] of = "field" -> FieldLeaf(m, x)
      [] of = "method" -> MethodLeaf(m, x)
      [] of = "insn" -> InsnLeaf(m, x)

Connectives == {"and", "or", "not"}

Leaves(of) ==
    {"any", "matches"} \cup
    CASE of = "class" -> {"is", "access_all", "access_any", "package_private", "implements",
                          "version", "version_at_least", "version_below"}
      [] of = "field" -> {"is", "access_all", "access_any", "package_private"}
      [] of = "method" -> {"is", "access_all", "access_any", "package_private", "has_code", "returns"}
      [] of = "insn" -> {"opcode", "kind", "return", "ref"}

\* What the enums can hold; of a class the name alone is matched with an expression.
IsCondition(of, m) ==
    /\ "node" \in DOMAIN m /\ m.node \in Connectives \cup Leaves(of)
    /\ DOMAIN m \cap {"of", "transform"} = IF m.node \in Connectives THEN {"of"} ELSE {}
    /\ m.node \in Connectives => m.of \in Seq(Range(m.of)) /\ (m.node = "not" => Len(m.of) = 1)
    /\ m.node \in {"access_all", "access_any"} => "flags" \in DOMAIN m
    /\ of = "class" /\ m.node = "matches" => m.part = "name"

IsMatcher(of, matcher) == IsTree(matcher, LAMBDA m : IsCondition(of, m))

Matches(of, matcher, x) ==
    FoldTree(matcher, LAMBDA m, holds :
        CASE m.node = "and" -> \A i \in DOMAIN holds : holds[i]
          [] m.node = "or" -> \E i \in DOMAIN holds : holds[i]
          [] m.node = "not" -> ~holds[1]
          [] OTHER -> Leaf(of, m, x))

-----------------------------------------------------------------------------
(* Compiled trees: each regular expression is replaced by what it matches,   *)
(* flags are cut down to those there are.  One that is not valid panics.     *)

Compiles(matcher) ==
    FoldTree(matcher, LAMBDA m, compiles :
        CASE m.node \in {"and", "or", "not"} -> \A i \in DOMAIN compiles : compiles[i]
          [] m.node = "matches" -> fullmatch_regex(m.pattern) # {}
          [] OTHER -> TRUE)

Regex(m, texts) == [node |-> "regex", part |-> m.part, texts |-> texts, kinds |-> m.kinds]

Compiled(known, matcher) ==
    FoldTree(matcher, LAMBDA m, compiled :
        CASE m.node \in {"and", "or", "not"} -> [m EXCEPT !.of = compiled]
          [] m.node = "matches" -> Regex(m, CHOOSE texts \in fullmatch_regex(m.pattern) : TRUE)
          [] m.node \in {"access_all", "access_any"} -> [m EXCEPT !.flags = @ \cap known]
          [] OTHER -> m)

CompiledClass(m) == Compiled(ClassFlags, m)
CompiledField(m) == Compiled(FieldFlags, m)
CompiledMethod(m) == Compiled(MethodFlags, m)
CompiledInsn(m) == Compiled({}, m)

CompiledClassLeaf(m, class) ==
    CASE m.node = "any" -> TRUE
      [] m.node = "is" -> class[m.part] = m.value
      [] m.node = "regex" -> class[m.part] \in m.texts
      [] m.node = "access_all" -> HasAll(class, m.flags)
      [] m.node = "access_any" -> HasSome(class, m.flags)
      [] m.node = "package_private" -> ~HasAll(class, {"public"})
      [] m.node = "implements" -> m.name \in Range(class.interfaces)
      [] m.node = "version" -> class.version = m.major
      [] m.node = "version_at_least" -> class.version >= m.major
      [] m.node = "version_below" -> class.version < m.major

CompiledFieldLeaf(m, field) ==
    CASE m.node = "any" -> TRUE
      [] m.node = "is" -> field[m.part] = m.value
      [] m.node = "regex" -> field[m.part] \in m.texts
      [] m.node = "access_all" -> HasAll(field, m.flags)
      [] m.node = "access_any" -> HasSome(field, m.flags)
      [] m.node = "package_private" -> ~HasSome(field, Visibility)

\* A wrong visibility: only public methods count as visible elsewhere.
OnlyPublicCounts(m, method) ==
    CASE m.node = "any" -> TRUE
      [] m.node = "is" -> method[m.part] = m.value
      [] m.node = "regex" -> method[m.part] \in m.texts
      [] m.node = "access_all" -> HasAll(method, m.flags)
      [] m.node = "access_any" -> HasSome(method, m.flags)
      [] m.node = "package_private" -> ~HasSome(method, {"public"})
      [] m.node = "has_code" -> method.code # NoCode
      [] m.node = "returns" -> extract_return_descriptor(method.descriptor) = m.result

CompiledMethodLeaf(m, method) ==
    CASE m.node = "any" -> TRUE
      [] m.node = "is" -> method[m.part] = m.value
      [] m.node = "regex" -> method[m.part] \in m.texts
      [] m.node = "access_all" -> HasAll(method, m.flags)
      [] m.node = "access_any" -> HasSome(method, m.flags)
      [] m.node = "package_private" -> ~HasSome(method, Visibility)
      [] m.node = "has_code" -> method.code # NoCode
      [] m.node = "returns" -> extract_return_descriptor(method.descriptor) = m.result

CompiledInsnLeaf(m, item) ==
    CASE m.node = "any" -> TRUE
      [] m.node = "opcode" -> \E opcode \in m.opcodes : insn_matches_opcode(item, opcode)
      [] m.node = "kind" -> item.k \in m.kinds
      [] m.node = "return" -> item.k = "Raw" /\ is_return_opcode(item.op)
      [] m.node = "ref" -> /\ item.k \in m.kinds
                           /\ \A part \in DOMAIN m.parts : item[part] = m.parts[part]
      [] m.node = "regex" -> item.k \in m.kinds /\ item[m.part] \in m.texts

CompiledLeaf(of, m, x) ==
    CASE of = "class" -> CompiledClassLeaf(m, x)
      [] of = "field" -> CompiledFieldLeaf(m, x)
      [] of = "method" -> CompiledMethodLeaf(m, x)
      [] of = "insn" -> CompiledInsnLeaf(m, x)

CompiledMatches(of, matcher, x) ==
    FoldTree(matcher, LAMBDA m, holds :
        CASE m.node = "and" -> \A i \in DOMAIN holds : holds[i]
          [] m.node = "or" -> \E i \in DOMAIN holds : holds[i]
          [] m.node = "not" -> ~holds[1]
          [] OTHER -> CompiledLeaf(of, m, x))

-----------------------------------------------------------------------------
(* Conditions by name. *)

Always == [node |-> "any"]
Is(part, value) == [node |-> "is", part |-> part, value |-> value]
AccessAll(flags) == [node |-> "access_all", flags |-> flags]
AccessAny(flags) == [node |-> "access_any", flags |-> flags]
Not(m) == [node |-> "not", of |-> <<m>>]
And(ms) == [node |-> "and", of |-> ms]
Or(ms) == [node |-> "or", of |-> ms]
TextMatches(part, pattern) ==
    [node |-> "matches", part |-> part, pattern |-> pattern, kinds |-> {}]

Opcode(opcodes) == [node |-> "opcode", opcodes |-> opcodes]
Kind(kinds) == [node |-> "kind", kinds |-> kinds]
Ref(kinds, parts) == [node |-> "ref", kinds |-> kinds, parts |-> parts]
RefMatches(kinds, part, pattern) ==
    [node |-> "matches", part |-> part, pattern |-> pattern, kinds |-> kinds]

FieldOwner(owner) == Ref({"Field"}, [owner |-> owner])
FieldNamed(name) == Ref({"Field"}, [name |-> name])
FieldDescriptor(descriptor) == Ref({"Field"}, [descriptor |-> descriptor])
MethodOwner(owner) == Ref(NamedCalls, [owner |-> owner])
MethodNamed(name) == Ref(Calls, [name |-> name])
MethodDescriptor(descriptor) == Ref(Calls, [descriptor |-> descriptor])
Field(ref) == Ref({"Field"}, ref)
Method(ref) == Ref(NamedCalls, ref)
TypeDescriptor(descriptor) == Ref({"Type", "MultiANewArray"}, [descriptor |-> descriptor])
LdcString(value) == Ref({"Ldc"}, [value |-> value])
VarSlot(slot) == Ref({"Var"}, [slot |-> slot])
IsReturn == [node |-> "return"]

-----------------------------------------------------------------------------
(* Closures.  They are built as compiled conditions; a name is looked for    *)
(* anywhere in the text, and flags are typed, so that there are no others.   *)

not_(m) == Not(m)
all_of(ms) == And(ms)
any_of(ms) == Or(ms)

\* The expression as it was written, searched for: the caller has seen it is valid.
Search(part, pattern) ==
    [node |-> "regex", part |-> part, texts |-> pattern.found, kinds |-> {}]

class_named(name) == Is("name", name)
class_name_matches(pattern) == Search("name", pattern)
class_access(flags) == AccessAll(flags)
class_access_any(flags) == AccessAny(flags)
extends(name) == Is("super", name)
implements(name) == [node |-> "implements", name |-> name]

field_named(name) == Is("name", name)
field_name_matches(pattern) == Search("name", pattern)
field_descriptor(descriptor) == Is("descriptor", descriptor)
field_access(flags) == AccessAll(flags)
field_access_any(flags) == AccessAny(flags)

method_named(name) == Is("name", name)
method_name_matches(pattern) == Search("name", pattern)
method_descriptor(descriptor) == Is("descriptor", descriptor)
method_access(flags) == AccessAll(flags)
method_access_any(flags) == AccessAny(flags)
has_code == [node |-> "has_code"]
is_constructor == method_named("<init>")
is_static_initializer == method_named("<clinit>")
=============================================================================
