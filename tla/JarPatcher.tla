----------------------------- MODULE JarPatcher ------------------------------
(***************************************************************************)
(* The rules of patch-jar (pytecode-cli/src/jar_patcher.rs): a plan is       *)
(* checked and compiled into one transform for each rule, and each of them   *)
(* counts what it matched and what it changed in every class.                *)
(*                                                                         *)
(* A rule is [kind, owner, matcher, action, code].  owner and matcher are    *)
(* functions from the criteria that the rule gives to their values.          *)
(***************************************************************************)
EXTENDS Transforms

NoAction == [do |-> "nothing"]

All(S) == all_of(SetToSeq(S))

Either(wanted, m) == IF wanted THEN m ELSE not_(m)

ClassActions == {"add_access_flags", "remove_access_flags", "set_access_flags",
                 "set_super_class", "add_interface", "remove_interface"}
MemberActions == {"rename", "remove", "add_access_flags", "remove_access_flags", "set_access_flags"}

-----------------------------------------------------------------------------
(* Criteria. *)

ClassCriterion(key, v) ==
    CASE key = "name" -> class_named(v)
      [] key = "name_matches" -> class_name_matches(v)
      [] key = "access_all" -> class_access(v)
      [] key = "access_any" -> class_access_any(v)
      [] key = "package_private" -> Either(~v, class_access_any({"public"}))
      [] key = "extends" -> extends(v)
      [] key = "implements" -> All({implements(name) : name \in v})
      [] key \in {"version", "version_at_least", "version_below"} -> [node |-> key, major |-> v]

build_class_matcher(config) == All({ClassCriterion(key, config[key]) : key \in DOMAIN config})

FieldCriterion(key, v) ==
    CASE key = "name" -> field_named(v)
      [] key = "name_matches" -> field_name_matches(v)
      [] key = "descriptor" -> field_descriptor(v)
      [] key = "descriptor_matches" -> Search("descriptor", v)
      [] key = "access_all" -> field_access(v)
      [] key = "access_any" -> field_access_any(v)
      [] key = "package_private" -> Either(~v, field_access_any(Visibility))

build_field_matcher(config) == All({FieldCriterion(key, config[key]) : key \in DOMAIN config})

MethodCriterion(key, v) ==
    CASE key = "name" -> method_named(v)
      [] key = "name_matches" -> method_name_matches(v)
      [] key = "descriptor" -> method_descriptor(v)
      [] key = "descriptor_matches" -> Search("descriptor", v)
      [] key = "access_all" -> method_access(v)
      [] key = "access_any" -> method_access_any(v)
      [] key = "package_private" -> Either(~v, method_access_any(Visibility))
      [] key = "has_code" -> Either(v, has_code)

build_method_matcher(config) == All({MethodCriterion(key, config[key]) : key \in DOMAIN config})

InsnCriterion(key, v) ==
    CASE key = "opcode" -> Opcode({v})
      [] key = "opcode_any" -> Opcode(v)
      [] key = "kind" -> Kind(v)
      [] key = "is_return" -> IsReturn
      [] key = "field_owner" -> FieldOwner(v)
      [] key = "field_name" -> FieldNamed(v)
      [] key = "field_descriptor" -> FieldDescriptor(v)
      [] key = "method_owner" -> MethodOwner(v)
      [] key = "method_name" -> MethodNamed(v)
      [] key = "method_descriptor" -> MethodDescriptor(v)
      [] key = "type_descriptor" -> TypeDescriptor(v)
      [] key = "ldc_string" -> LdcString(v)
      [] key = "var_slot" -> VarSlot(v)
      [] key = "field_owner_matches" -> RefMatches({"Field"}, "owner", v)
      [] key = "method_owner_matches" -> RefMatches(NamedCalls, "owner", v)
      [] key = "method_name_matches" -> RefMatches(Calls, "name", v)

build_code_insn_matcher(config) == All({InsnCriterion(key, config[key]) : key \in DOMAIN config})

PatternKeys == {"name_matches", "descriptor_matches", "field_owner_matches",
                "method_owner_matches", "method_name_matches"}

\* Every expression is tried as it was written.
ConfigRefused(config) == \E key \in DOMAIN config \cap PatternKeys : ~config[key].alone

-----------------------------------------------------------------------------
(* Items that a plan puts in.  Their labels are made when the plan is loaded, *)
(* one for each name of a block.                                             *)

LabelsOf(items) == {items[i].label : i \in {i \in DOMAIN items : items[i].k = "Label"}}

lookup_label(block, name) == <<block, name>>

build_code_replacement_item(block, item) ==
    [item EXCEPT !.label = IF item.k = "Label" THEN lookup_label(block, @) ELSE @,
                 !.targets = [i \in DOMAIN @ |-> lookup_label(block, @[i])]]

build_code_replacement_items(block, items) ==
    [i \in DOMAIN items |-> build_code_replacement_item(block, items[i])]

ItemsRefused(items) ==
    \/ \E i, j \in DOMAIN items : i # j /\ items[i].k = "Label" /\ items[j].k = "Label"
                                    /\ items[i].label = items[j].label
    \/ \E i \in DOMAIN items :
        \/ ~(Range(items[i].targets) \subseteq LabelsOf(items))
        \/ /\ items[i].k = "TableSwitch"
           /\ Len(items[i].targets) - 1 # items[i].value[2] - items[i].value[1] + 1

-----------------------------------------------------------------------------
(* Code actions: what is counted, and the transform that is applied when the  *)
(* count is not zero.                                                        *)

Singles == {"replace_insn", "insert_before", "insert_after"}
Sequences == {"replace_sequence", "remove_sequence"}

CodeStepRefused(a) ==
    CASE a.do \in Singles ->
            \/ ConfigRefused(a.matcher) \/ ItemsRefused(a.items)
            \/ a.do # "replace_insn" /\ a.items = <<>>
      [] a.do \in Sequences ->
            \/ a.pattern = <<>> \/ ItemsRefused(a.items)
            \/ \E i \in DOMAIN a.pattern : ConfigRefused(a.pattern[i])
      [] OTHER -> FALSE

CodeRefused(action) ==
    LET steps == Flat(action)
    IN  \E i \in DOMAIN steps : CodeStepRefused(steps[i])

Counted(pattern, transform) == <<[pattern |-> pattern, transform |-> transform]>>

CompiledCodeStep(a) ==
    CASE a.do \in Singles ->
            LET matcher == build_code_insn_matcher(a.matcher)
            IN  Counted(<<matcher>>, [do |-> a.do, matcher |-> matcher,
                                      items |-> build_code_replacement_items(a.block, a.items)])
      [] a.do = "remove_insn" ->
            Counted(<<Opcode({a.opcode})>>, [do |-> a.do, matcher |-> Opcode({a.opcode})])
      [] a.do \in Sequences ->
            LET pattern == [i \in DOMAIN a.pattern |-> build_code_insn_matcher(a.pattern[i])]
            IN  Counted(pattern, [do |-> a.do, pattern |-> pattern,
                                  items |-> build_code_replacement_items(a.block, a.items)])
      [] a.do = "redirect_method_call" -> Counted(<<Method(a.from)>>, a)
      [] a.do = "redirect_field_access" ->
            Counted(<<And(<<Kind({"Field"}), FieldOwner(a.from.owner), FieldNamed(a.from.name)>>)>>, a)
      [] a.do = "replace_string" -> Counted(<<LdcString(a.from)>>, a)

build_compiled_code_actions(action) ==
    LET steps == Flat(action)
    IN  FlattenSeq([i \in DOMAIN steps |-> CompiledCodeStep(steps[i])])

count_matching_insns(items, matcher) == Len(Found(CompiledInsn(matcher), items))

\* A wrong count: matches that overlap are counted each.
OverlappingMatches(items, pattern) ==
    Cardinality({i \in DOMAIN items : SequenceAt(SequenceHits(pattern, items), i)})

count_matching_sequences(items, pattern) ==
    LET hits == SequenceHits(pattern, items)
        from[i \in Nat] ==
            CASE i + Len(pattern) - 1 > Len(items) -> 0
              [] SequenceAt(hits, i) -> 1 + from[i + Len(pattern)]
              [] OTHER -> from[i + 1]
    IN  from[1]

CountMatches(items, action) ==
    IF Len(action.pattern) = 1 THEN count_matching_insns(items, action.pattern[1])
    ELSE count_matching_sequences(items, action.pattern)

-----------------------------------------------------------------------------
(* Applying a rule to a class: what is left of it, and the counts.            *)

Outcome(class, matched, changed) == [class |-> class, matched |-> matched, changed |-> changed]

One(class, changed) == Outcome(class, 1, IF changed THEN 1 ELSE 0)

\* A wrong order: the superclass is compared after it was set.
ComparedAfterwards(class, a) ==
    CASE a.do = "set_super_class" -> One([class EXCEPT !.super = a.to], FALSE)
      [] OTHER -> One(ClassApply(a, class), ClassApply(a, class) # class)

apply_class_action(class, a) ==
    CASE a.do = "add_access_flags" ->
            One([class EXCEPT !.access = @ \cup a.flags], ~HasAll(class, a.flags))
      [] a.do = "remove_access_flags" ->
            One([class EXCEPT !.access = @ \ a.flags], HasSome(class, a.flags))
      [] a.do = "set_access_flags" -> One([class EXCEPT !.access = a.flags], class.access # a.flags)
      [] a.do = "set_super_class" -> One([class EXCEPT !.super = a.to], class.super # a.to)
      [] a.do = "add_interface" ->
            IF a.name \in Range(class.interfaces) THEN One(class, FALSE)
            ELSE One([class EXCEPT !.interfaces = Append(@, a.name)], TRUE)
      [] a.do = "remove_interface" ->
            LET left == WithoutInterface(class.interfaces, a.name)
            IN  One([class EXCEPT !.interfaces = left], Len(left) # Len(class.interfaces))

Edited(member, a) ==
    CASE a.do = "rename" -> [member EXCEPT !.name = a.to]
      [] a.do = "add_access_flags" -> [member EXCEPT !.access = @ \cup a.flags]
      [] a.do = "remove_access_flags" -> [member EXCEPT !.access = @ \ a.flags]
      [] a.do = "set_access_flags" -> [member EXCEPT !.access = a.flags]

Changes(member, a) ==
    CASE a.do = "rename" -> member.name # a.to
      [] a.do = "add_access_flags" -> ~HasAll(member, a.flags)
      [] a.do = "remove_access_flags" -> HasSome(member, a.flags)
      [] a.do = "set_access_flags" -> member.access # a.flags

\* The members left, how many matched and how many changed.
Members(of, members, m, a) ==
    LET hit == {i \in DOMAIN members : CompiledMatches(of, m, members[i])}
    IN  CASE a.do = "nothing" -> Outcome(members, 0, 0)
          [] a.do = "remove" ->
                Outcome(Kept(members, DOMAIN members \ hit), Cardinality(hit), Cardinality(hit))
          [] OTHER ->
                Outcome([i \in DOMAIN members |->
                            IF i \in hit /\ Changes(members[i], a) THEN Edited(members[i], a) ELSE members[i]],
                        Cardinality(hit), Cardinality({i \in hit : Changes(members[i], a)}))

apply_field_action(class, m, a) ==
    LET done == Members("field", class.fields, m, a)
    IN  [done EXCEPT !.class = [class EXCEPT !.fields = done.class]]

apply_method_action(class, m, a) ==
    LET done == Members("method", class.methods, m, a)
    IN  [done EXCEPT !.class = [class EXCEPT !.methods = done.class]]

apply_code_action(class, m, action) ==
    LET matches(method) ==
            IF method.code # NoCode /\ CompiledMatches("method", m, method)
            THEN CountMatches(method.code.items, action) ELSE 0
        total == FoldLeft(LAMBDA sum, method : sum + matches(method), 0, class.methods)
    IN  Outcome([class EXCEPT !.methods = [i \in DOMAIN @ |->
                    IF matches(@[i]) = 0 THEN @[i] ELSE OnCode(action.transform, @[i])]],
                total, total)

\* The action comes first: the code actions see the methods as it left them.
apply_method_actions(class, m, a, code) ==
    LET after[n \in 0..Len(code)] ==
            IF n = 0 THEN apply_method_action(class, m, a)
            ELSE LET next == apply_code_action(after[n - 1].class, m, code[n])
                 IN  Outcome(next.class, after[n - 1].matched + next.matched, after[n - 1].changed + next.changed)
    IN  after[Len(code)]

CompiledCode(rule) == FlattenSeq([i \in DOMAIN rule.code |-> build_compiled_code_actions(rule.code[i])])

\* What the enums of a plan can hold; only what is done to a method is optional.
IsRule(rule) ==
    /\ rule.kind \in {"class", "field", "method"}
    /\ rule.action.do \in CASE rule.kind = "class" -> ClassActions
                             [] rule.kind = "field" -> MemberActions
                             [] rule.kind = "method" -> MemberActions \cup {NoAction.do}
    /\ DOMAIN rule.action \cap {"of", "transform"} = {}
    /\ rule.action.do \in {"add_access_flags", "remove_access_flags", "set_access_flags"} =>
        rule.action.flags \subseteq CASE rule.kind = "class" -> ClassFlags
                                     [] rule.kind = "field" -> FieldFlags
                                     [] rule.kind = "method" -> MethodFlags
    /\ CompiledCode(rule) \in Seq(Range(CompiledCode(rule)))

ApplyRule(rule, class) ==
    IF ~CompiledMatches("class", build_class_matcher(rule.owner), class) THEN Outcome(class, 0, 0)
    ELSE CASE rule.kind = "class" -> apply_class_action(class, rule.action)
           [] rule.kind = "field" ->
                apply_field_action(class, build_field_matcher(rule.matcher), rule.action)
           [] rule.kind = "method" ->
                apply_method_actions(class, build_method_matcher(rule.matcher), rule.action, CompiledCode(rule))

NoCounts == [matched_classes |-> 0, changed_classes |-> 0, matched_targets |-> 0, changed_targets |-> 0]

CountRule(counts, done) ==
    [matched_classes |-> counts.matched_classes + (IF done.matched > 0 THEN 1 ELSE 0),
     changed_classes |-> counts.changed_classes + (IF done.changed > 0 THEN 1 ELSE 0),
     matched_targets |-> counts.matched_targets + done.matched,
     changed_targets |-> counts.changed_targets + done.changed]

RuleRefused(rule) ==
    \/ ConfigRefused(rule.owner) \/ ConfigRefused(rule.matcher)
    \/ \E i \in DOMAIN rule.code : CodeRefused(rule.code[i])

\* An expression that is valid alone and not when wrapped panics where it is first used.
RulePanics(rule, class) ==
    /\ rule.kind = "method"
    /\ CompiledMatches("class", build_class_matcher(rule.owner), class)
    /\ LET m == build_method_matcher(rule.matcher)
           left == apply_method_action(class, m, rule.action).class.methods
       IN  \E method \in Range(left), action \in Range(CompiledCode(rule)) :
            /\ method.code # NoCode /\ CompiledMatches("method", m, method)
            /\ \E i \in DOMAIN action.pattern : ~Compiles(action.pattern[i])
            /\ Len(action.pattern) > 1 => Len(action.pattern) <= Len(method.code.items)
=============================================================================
