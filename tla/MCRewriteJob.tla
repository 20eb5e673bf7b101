---------------------------- MODULE MCRewriteJob ----------------------------
(* Jobs on a JAR of two classes, and the cleanup of methods of three blocks. *)
EXTENDS RewriteJob

-----------------------------------------------------------------------------
(* Items. *)

Item(k, op, id) ==
    [k |-> k, op |-> op, id |-> id, owner |-> NoText, name |-> NoText, descriptor |-> NoText,
     slot |-> 0, value |-> <<>>, label |-> <<>>, targets |-> <<>>]

Label(name) == [Item("Label", 0, 0) EXCEPT !.label = name]
Jump(op, id, to) == [Item("Branch", op, id) EXCEPT !.targets = <<to>>]
Raw(op, id) == Item("Raw", op, id)
Call(k, op, owner, name, descriptor) ==
    [Item(k, op, 0) EXCEPT !.owner = owner, !.name = name, !.descriptor = descriptor]
Text(t) == [Item("Ldc", 18, 0) EXCEPT !.value = <<t>>]
Fetch(slot) == [Item("Var", 21, 0) EXCEPT !.slot = slot]
Switch(low, high, targets) ==
    [Item("TableSwitch", 170, 0) EXCEPT !.value = <<low, high>>, !.targets = targets]

-----------------------------------------------------------------------------
(* A JAR. *)

L(n) == <<n>>

Body ==
    [items |-> <<Label(L(1)), Fetch(1), Fetch(1), Fetch(1), Text("old"),
                 Call("Method", 182, "P", "print", "(T)"), Call("Field", 180, "A", "f", "I"),
                 Label(L(2)), Raw(177, 0), Label(L(3))>>,
     handlers |-> <<[start |-> L(1), end |-> L(2), handler |-> L(2)]>>]

Method1 == [name |-> "m", descriptor |-> <<"I", "V">>, access |-> {"static"}, code |-> Body]
Method2 == [name |-> "n", descriptor |-> <<"", "I">>, access |-> {"protected", "abstract"}, code |-> NoCode]
Method3 ==
    [name |-> "run", descriptor |-> <<"", "V">>, access |-> {"public"},
     code |-> [items |-> <<Fetch(1), Fetch(2), Fetch(1), Fetch(1), Text("other"), Raw(177, 0)>>, handlers |-> <<>>]]

ClassA ==
    [name |-> "A", super |-> "Object", interfaces |-> <<"I", "J">>, version |-> 61,
     access |-> {"public", "super", "bit 0x0002"},
     fields |-> <<[name |-> "f", descriptor |-> "I", access |-> {"private"}],
                  [name |-> "g", descriptor |-> "J", access |-> {}]>>,
     methods |-> <<Method1, Method2>>]
ClassB ==
    [name |-> "B", super |-> NoText, interfaces |-> <<>>, version |-> 52, access |-> {"final"},
     fields |-> <<>>, methods |-> <<Method3>>]

TwoClasses == <<ClassA, ClassB>>

-----------------------------------------------------------------------------
(* Plans. *)

Anything == <<>>   \* no criterion

\* As it is and wrapped, an expression is one or not; then it is found in, or is, some texts.
Pattern(texts) == [alone |-> TRUE, wrapped |-> TRUE, found |-> texts \cup {"print", "m"}, whole |-> texts]
Broken == [Pattern({}) EXCEPT !.alone = FALSE, !.wrapped = FALSE]
OnlyAlone == [Pattern({}) EXCEPT !.wrapped = FALSE]

Rule(kind, owner, matcher, action, code) ==
    [kind |-> kind, owner |-> owner, matcher |-> matcher, action |-> action, code |-> code]
ClassRule(owner, action) == Rule("class", owner, Anything, action, <<>>)
CodeRule(matcher, code) == Rule("method", Anything, matcher, NoAction, <<code>>)

Flags(do, flags) == [do |-> do, flags |-> flags]
Interface(do, name) == [do |-> do, name |-> name]
Single(do, matcher, block, items) == [do |-> do, matcher |-> matcher, block |-> block, items |-> items]
Several(do, pattern, block, items) == [do |-> do, pattern |-> pattern, block |-> block, items |-> items]

TwoLoads == <<[opcode |-> 21], [opcode |-> 21]>>
Loop == <<Label("again"), Raw(0, 0), Jump(167, 0, "again")>>

ClassRules ==
    <<ClassRule([name |-> "A"], Flags("add_access_flags", {"final", "public"})),
      ClassRule([package_private |-> TRUE], Flags("set_access_flags", {"public"})),
      ClassRule([package_private |-> FALSE, version_at_least |-> 61], Flags("remove_access_flags", {"super"})),
      ClassRule([name_matches |-> Pattern({"A"})], [do |-> "set_super_class", to |-> "S"]),
      ClassRule([extends |-> "S", access_all |-> {"public"}], Interface("add_interface", "K")),
      ClassRule([implements |-> {"I"}, version |-> 61], Interface("remove_interface", "I")),
      ClassRule([access_any |-> {"final"}, version_below |-> 61], Interface("add_interface", "K"))>>

MemberRules ==
    <<Rule("field", [name |-> "A"], [name |-> "f"], [do |-> "rename", to |-> "h"], <<>>),
      Rule("field", Anything, [package_private |-> TRUE], Flags("add_access_flags", {"public"}), <<>>),
      Rule("field", Anything, [descriptor_matches |-> Pattern({"J"})], Flags("remove_access_flags", {"final"}), <<>>),
      Rule("field", Anything, [name |-> "g"], Flags("set_access_flags", {"public"}), <<>>),
      Rule("field", Anything, [name |-> "h"], [do |-> "remove"], <<>>),
      Rule("method", Anything, [has_code |-> FALSE], [do |-> "remove"], <<>>),
      Rule("method", Anything, [name |-> "m"], [do |-> "rename", to |-> "q"],
           <<[do |-> "replace_string", from |-> <<"old">>, to |-> <<"new">>]>>),
      Rule("method", Anything, [name_matches |-> Pattern({"q", "run"})], Flags("add_access_flags", {"final"}),
           <<Single("insert_after", [var_slot |-> 1], "b5", <<Raw(0, 0)>>)>>),
      Rule("method", Anything, [name |-> "q"], [do |-> "rename", to |-> "p"],
           <<Single("insert_after", [var_slot |-> 1], "b6", <<Raw(0, 0)>>)>>),
      Rule("method", Anything, [descriptor |-> <<"", "V">>, access_any |-> {"public"}],
           Flags("set_access_flags", {"static"}), <<>>)>>

CodeRules ==
    <<CodeRule(Anything, Several("replace_sequence", TwoLoads, "b1", <<Fetch(7)>>)),
      CodeRule([name_matches |-> Pattern({"m"})], Single("insert_after", [method_name |-> "print"], "b2", Loop)),
      CodeRule([has_code |-> TRUE], Single("insert_before", [is_return |-> TRUE], "b3", <<Text("bye")>>)),
      CodeRule(Anything, [do |-> "sequence", of |->
        <<[do |-> "replace_string", from |-> <<"old">>, to |-> <<"new">>],
          [do |-> "redirect_method_call", from |-> [owner |-> "P", name |-> "print"],
           to |-> [owner |-> "Q", name |-> "write", descriptor |-> Same]]>>]),
      CodeRule(Anything, [do |-> "redirect_field_access", from |-> [owner |-> "A", name |-> "f"],
                     to |-> [owner |-> "B", name |-> Same]]),
      CodeRule([name |-> "run"], Single("replace_insn", [var_slot |-> 2], "b7", <<Fetch(2)>>)),
      CodeRule(Anything, [do |-> "remove_insn", opcode |-> 180]),
      CodeRule(Anything, Several("remove_sequence", <<[ldc_string |-> <<"other">>], [opcode_any |-> {177}]>>, "b4", <<>>))>>

TwiceTheLabel == <<CodeRule(Anything, Single("replace_insn", [var_slot |-> 1], "b1", Loop))>>
LosesLabels == <<CodeRule([name |-> "m"], Several("remove_sequence", <<Anything, [ldc_string |-> <<"old">>], Anything, Anything, Anything>>, "b1", <<>>))>>
RefusedPlans ==
    <<CodeRule(Anything, Single("insert_before", Anything, "b1", <<>>)),
      CodeRule(Anything, Single("replace_insn", Anything, "b1", <<Switch(1, 3, <<"x", "x">>), Label("x")>>)),
      CodeRule(Anything, Several("replace_sequence", <<>>, "b1", <<>>)),
      CodeRule(Anything, Single("replace_insn", [method_name_matches |-> Broken], "b1", <<>>)),
      ClassRule([name_matches |-> Broken], Flags("set_access_flags", {}))>>
PanickingPlan == <<CodeRule(Anything, Single("replace_insn", [method_owner_matches |-> OnlyAlone], "b1", <<>>))>>

-----------------------------------------------------------------------------
(* Pipelines and closures. *)

Step(on, owner, member, action) == [on |-> on, owner |-> owner, member |-> member, action |-> action]

Named(name) == TextMatches("name", Pattern({name}))

Steps ==
    <<Step("class", And(<<Named("A"), Not(AccessAny({"final"}))>>), Always,
           [do |-> "sequence", of |-> <<Flags("add_access_flags", {"final"}), Interface("remove_interface", "I")>>]),
      Step("field", Or(<<Is("super", NoText), implements("J")>>), [node |-> "package_private"],
           [do |-> "rename_field", from |-> "f", to |-> "h"]),
      Step("method", [node |-> "package_private"], [node |-> "package_private"],
           [do |-> "remove_method", name |-> "run", descriptor |-> <<"", "V">>]),
      Step("method", Always, AccessAll({"static", "flag 0x4000"}),
           [do |-> "set_method_access_flags", name |-> "m", flags |-> {"public"}]),
      Step("method", Always, [node |-> "package_private"], Flags("add_access_flags", {"synthetic"})),
      Step("code", [node |-> "version_at_least", major |-> 52], And(<<has_code, [node |-> "returns", result |-> "V"]>>),
           [do |-> "sequence", of |->
             <<[do |-> "replace_insn", matcher |-> RefMatches(Calls, "name", Pattern({"print"})), items |-> <<Raw(0, 0)>>],
               [do |-> "remove_insn", matcher |-> Or(<<VarSlot(2),
                  Field([owner |-> "A", name |-> "f", descriptor |-> "I"]), TypeDescriptor("[I")>>)]>>])>>

CodeStep(matcher) ==
    Step("class", Always, Always,
         [do |-> "code_transform", name |-> Same, descriptor |-> Same,
          transform |-> [do |-> "remove_insn", matcher |-> matcher]])

PanickingSteps == <<CodeStep(IsReturn), CodeStep(RefMatches(Calls, "owner", Broken))>>
BrokenSteps == <<Step("class", TextMatches("name", Broken), Always, Flags("set_access_flags", {}))>>

Lift(on, where, owner, parts, fails) ==
    [on |-> on, where |-> where, owner |-> owner, parts |-> parts, fails |-> fails]

Lifts ==
    <<Lift("class", Always, class_access({"public"}), [access |-> {"public"}], NoText),
      Lift("field", field_named("f"), Always, [access |-> {"public"}], NoText),
      Lift("method", any_of(<<method_named("n"), is_constructor, is_static_initializer, method_access({"static"})>>), not_(class_named("B")),
           [access |-> {"public"}], NoText),
      Lift("code", has_code, Always, [handlers |-> <<>>], NoText)>>

FailingLifts == <<Lifts[1], Lift("code", has_code, Always, [handlers |-> <<>>], "run")>>
FailingFields == <<Lift("field", Always, Always, [access |-> {"public"}], "g")>>

-----------------------------------------------------------------------------
(* The cleanup: every method of three blocks and a return. *)

Bodies(b) ==
    <<<<>>, <<Raw(0, 0)>>, <<Raw(1, 10 * b)>>, <<Jump(153, 10 * b, L(1))>>, <<Jump(153, 10 * b, L(3))>>,
      <<Raw(0, 0), Jump(167, 0, L(2))>>, <<Raw(1, 10 * b), Jump(167, 0, L(3))>>, <<Jump(200, 0, L(3)), Raw(0, 0)>>,
      <<Jump(167, 0, L(1))>>, <<Jump(167, 0, L(2))>>, <<Jump(167, 0, L(3))>>>>

Blocks(b1, b2, b3) ==
    <<Label(L(1))>> \o b1 \o <<Label(L(2))>> \o b2 \o <<Label(L(3))>> \o b3 \o <<Raw(177, 40), Label(L(4))>>

Cleanup(items) ==
    [job |-> [kind |-> "deobfuscate", steps |-> <<>>],
     jar |-> <<[ClassB EXCEPT !.methods =
                 <<[Method3 EXCEPT !.code = [items |-> items,
                                             handlers |-> <<[start |-> L(1), end |-> L(2), handler |-> L(3)]>>]],
                   Method2>>]>>]

\* One for each choice of three bodies.
Cleanups ==
    LET B(b, n) == Bodies(b)[(n % 11) + 1]
    IN  [n \in 1..1331 |-> Cleanup(Blocks(B(1, n), B(2, n \div 11), B(3, n \div 121)))]

-----------------------------------------------------------------------------

Request(kind, steps) == [job |-> [kind |-> kind, steps |-> steps], jar |-> TwoClasses]

\* Each rule alone, and all of them.
Plans(plan) == [i \in 1..(Len(plan) + 1) |-> Request("patch", IF i > Len(plan) THEN plan ELSE <<plan[i]>>)]

SafeRequests ==
    Plans(ClassRules) \o Plans(MemberRules) \o Plans(CodeRules) \o Plans(RefusedPlans)
    \o <<Request("patch", LosesLabels), Request("patch", PanickingPlan),
         Request("pipeline", Steps), Request("pipeline", PanickingSteps), Request("pipeline", BrokenSteps),
         Request("closures", Lifts), Request("closures", FailingLifts), Request("closures", FailingFields),
         Request("callback", <<"first", "second">>)>>
    \o Cleanups

PatchRequests == Plans(CodeRules) \o <<Request("patch", TwiceTheLabel)>>

PythonEdits == {[access |-> {"public"}], [name |-> "Z"]}
=============================================================================
