----------------------------- MODULE Transforms ------------------------------
(***************************************************************************)
(* What a transform does to a class model: the declarative transforms of     *)
(* code and of classes (transform_spec.rs), the steps of a pipeline          *)
(* (pipeline_spec.rs), and closures lifted to the members of a class         *)
(* (transform/mod.rs).                                                       *)
(*                                                                         *)
(* A class is [name, super, interfaces, version, access, fields, methods],   *)
(* a field [name, descriptor, access], a method that with code, NoCode or    *)
(* [items, handlers].                                                       *)
(***************************************************************************)
EXTENDS Matchers, CodeEdits

CONSTANT Same   \* an optional argument that is absent

Optional(argument, value) == argument = Same \/ argument = value

HasName(x, name) == x.name = name

-----------------------------------------------------------------------------
(* Code. *)

Selected(m, item) == CompiledMatches("insn", m, item)

Hits(m, items) == {i \in DOMAIN items : Selected(m, items[i])}

Found(m, items) == Positions(items, Hits(m, items))

SequenceHits(pattern, items) == [k \in DOMAIN pattern |-> Hits(CompiledInsn(pattern[k]), items)]

FoundSequences(pattern, items) == NonOverlapping(items, SequenceHits(pattern, items))

Redirected(items, kinds, from, to) ==
    [i \in DOMAIN items |->
        IF items[i].k \in kinds /\ \A part \in DOMAIN from : items[i][part] = from[part]
        THEN [part \in DOMAIN items[i] |->
                IF part \in DOMAIN to /\ to[part] # Same THEN to[part] ELSE items[i][part]]
        ELSE items[i]]

\* One transform, no sequence.
CodeTransformed(t, items) ==
    CASE t.do = "replace_insn" ->
            SpliceAll(items, Found(CompiledInsn(t.matcher), items), 0, 1, t.items)
      [] t.do = "remove_insn" ->
            SelectSeq(items, LAMBDA item : ~Selected(CompiledInsn(t.matcher), item))
      [] t.do = "insert_before" ->
            SpliceAll(items, Found(CompiledInsn(t.matcher), items), 0, 0, t.items)
      [] t.do = "insert_after" ->
            SpliceAll(items, Found(CompiledInsn(t.matcher), items), 1, 0, t.items)
      [] t.do \in {"replace_sequence", "remove_sequence"} ->
            LET new == IF t.do = "remove_sequence" THEN <<>> ELSE t.items
            IN  SpliceAll(items, FoundSequences(t.pattern, items), 0, Len(t.pattern), new)
      [] t.do = "redirect_method_call" -> Redirected(items, NamedCalls, t.from, t.to)
      [] t.do = "redirect_field_access" -> Redirected(items, {"Field"}, t.from, t.to)
      [] t.do = "replace_string" ->
            Redirected(items, {"Ldc"}, [value |-> t.from], [value |-> t.to])

CodeSteps(steps, items) ==
    LET after[n \in 0..Len(steps)] ==
            IF n = 0 THEN items ELSE CodeTransformed(steps[n], after[n - 1])
    IN  after[Len(steps)]

CodeApply(t, items) == CodeSteps(Flat(t), items)

OnCode(t, method) ==
    IF method.code = NoCode THEN method ELSE [method EXCEPT !.code.items = CodeApply(t, @)]

-----------------------------------------------------------------------------
(* Classes. *)

RemovedMembers(members, t) ==
    Kept(members, {i \in DOMAIN members :
                    ~(HasName(members[i], t.name) /\ Optional(t.descriptor, members[i].descriptor))})

RenamedMembers(members, t) ==
    [i \in DOMAIN members |->
        IF HasName(members[i], t.from) THEN [members[i] EXCEPT !.name = t.to] ELSE members[i]]

FlaggedMembers(members, t, known) ==
    [i \in DOMAIN members |->
        IF HasName(members[i], t.name) THEN [members[i] EXCEPT !.access = t.flags \cap known]
        ELSE members[i]]

WithoutInterface(interfaces, name) == SelectSeq(interfaces, LAMBDA i : i # name)

\* A wrong addition: flags that are there already are taken away.
ToggledFlags(t, access) == (access \cup (t.flags \cap ClassFlags)) \ (access \cap t.flags)

AddedFlags(t, access) == access \cup (t.flags \cap ClassFlags)

\* &= with a complement, which has declared flags only: bits of the class that are
\* not declared go too.
RemovedFlags(t, access) == access \cap (ClassFlags \ t.flags)

ClassStep(t, class) ==
    CASE t.do = "rename_class" -> [class EXCEPT !.name = t.to]
      [] t.do = "set_access_flags" -> [class EXCEPT !.access = t.flags \cap ClassFlags]
      [] t.do = "add_access_flags" -> [class EXCEPT !.access = AddedFlags(t, @)]
      [] t.do = "remove_access_flags" -> [class EXCEPT !.access = RemovedFlags(t, @)]
      [] t.do = "set_super_class" -> [class EXCEPT !.super = t.to]
      [] t.do = "add_interface" ->
            IF t.name \in Range(class.interfaces) THEN class
            ELSE [class EXCEPT !.interfaces = Append(@, t.name)]
      [] t.do = "remove_interface" -> [class EXCEPT !.interfaces = WithoutInterface(@, t.name)]
      [] t.do = "remove_method" -> [class EXCEPT !.methods = RemovedMembers(@, t)]
      [] t.do = "remove_field" -> [class EXCEPT !.fields = RemovedMembers(@, t)]
      [] t.do = "rename_method" -> [class EXCEPT !.methods = RenamedMembers(@, t)]
      [] t.do = "rename_field" -> [class EXCEPT !.fields = RenamedMembers(@, t)]
      [] t.do = "set_method_access_flags" ->
            [class EXCEPT !.methods = FlaggedMembers(@, t, MethodFlags)]
      [] t.do = "set_field_access_flags" ->
            [class EXCEPT !.fields = FlaggedMembers(@, t, FieldFlags)]
      [] t.do = "code_transform" ->
            [class EXCEPT !.methods = [i \in DOMAIN @ |->
                IF Optional(t.name, @[i].name) /\ Optional(t.descriptor, @[i].descriptor)
                THEN OnCode(t.transform, @[i]) ELSE @[i]]]

ClassSteps(steps, class) ==
    LET after[n \in 0..Len(steps)] ==
            IF n = 0 THEN class ELSE ClassStep(steps[n], after[n - 1])
    IN  after[Len(steps)]

ClassApply(t, class) == ClassSteps(Flat(t), class)

-----------------------------------------------------------------------------
(* The steps of a pipeline.  A step on fields or methods acts on the class,  *)
(* once, if one of them matches.                                             *)

StepCompiles(step) == Compiles(step.owner) /\ Compiles(step.member)

\* Matching instructions are compiled while a step is applied, not before.
InsnMatchers(action) ==
    FoldTree(action, LAMBDA t, within :
        CASE t.do \in {"sequence", "code_transform"} -> UNION Range(within)
          [] t.do \in {"replace_insn", "remove_insn", "insert_before", "insert_after"} -> {t.matcher}
          [] t.do \in {"replace_sequence", "remove_sequence"} -> Range(t.pattern)
          [] OTHER -> {})

compile(step) ==
    [step EXCEPT !.owner = CompiledClass(@),
                 !.member = CASE step.on = "field" -> CompiledField(@)
                              [] step.on \in {"method", "code"} -> CompiledMethod(@)
                              [] OTHER -> @]

apply(step, class) ==
    CASE ~CompiledMatches("class", step.owner, class) -> class
      [] step.on = "field" ->
            IF \E i \in DOMAIN class.fields : CompiledMatches("field", step.member, class.fields[i])
            THEN ClassApply(step.action, class) ELSE class
      [] step.on = "method" ->
            IF \E i \in DOMAIN class.methods : CompiledMatches("method", step.member, class.methods[i])
            THEN ClassApply(step.action, class) ELSE class
      [] step.on = "code" ->
            [class EXCEPT !.methods = [i \in DOMAIN @ |->
                IF CompiledMatches("method", step.member, @[i]) THEN OnCode(step.action, @[i]) ELSE @[i]]]
      [] OTHER -> ClassApply(step.action, class)

\* Whether an expression for instructions that is not valid is met on the way.
ClassStepPanics(t, class) ==
    /\ t.do = "code_transform"
    /\ \E m \in Range(class.methods) :
        /\ m.code # NoCode
        /\ Optional(t.name, m.name) /\ Optional(t.descriptor, m.descriptor)
    /\ \E m \in InsnMatchers(t.transform) : ~Compiles(m)

ActionPanics(action, class) ==
    LET steps == Flat(action)
    IN  \E i \in DOMAIN steps : ClassStepPanics(steps[i], ClassSteps(SubSeq(steps, 1, i - 1), class))

MeetsStep(step, class) ==
    /\ CompiledMatches("class", step.owner, class)
    /\ CASE step.on = "field" ->
                \E x \in Range(class.fields) : CompiledMatches("field", step.member, x)
         [] step.on = "method" ->
                \E x \in Range(class.methods) : CompiledMatches("method", step.member, x)
         [] step.on = "code" ->
                \E x \in Range(class.methods) : x.code # NoCode /\ CompiledMatches("method", step.member, x)
         [] OTHER -> TRUE

StepPanics(step, class) ==
    /\ MeetsStep(step, class)
    /\ IF step.on = "code" THEN \E m \in InsnMatchers(step.action) : ~Compiles(m)
       ELSE ActionPanics(step.action, class)

-----------------------------------------------------------------------------
(* Closures lifted to a class or to its members: the parts a closure sets,   *)
(* and the name at which it fails.                                           *)

Set(x, parts) == [part \in DOMAIN x |-> IF part \in DOMAIN parts THEN parts[part] ELSE x[part]]

SetAll(of, members, where, parts) ==
    [i \in DOMAIN members |->
        IF CompiledMatches(of, where, members[i]) THEN Set(members[i], parts) ELSE members[i]]

on_classes(lift, class) == Set(class, lift.parts)

on_fields(lift, class) == [class EXCEPT !.fields = SetAll("field", @, lift.where, lift.parts)]

on_methods(lift, class) == [class EXCEPT !.methods = SetAll("method", @, lift.where, lift.parts)]

on_code(lift, class) ==
    [class EXCEPT !.methods = [i \in DOMAIN @ |->
        IF @[i].code # NoCode /\ CompiledMatches("method", lift.where, @[i])
        THEN [@[i] EXCEPT !.code = Set(@, lift.parts)] ELSE @[i]]]

Lifted(lift, class) ==
    CASE ~CompiledMatches("class", lift.owner, class) -> class
      [] lift.on = "class" -> on_classes(lift, class)
      [] lift.on = "field" -> on_fields(lift, class)
      [] lift.on = "method" -> on_methods(lift, class)
      [] lift.on = "code" -> on_code(lift, class)

\* The closure is called with what matches, and fails at the first it does not like.
LiftFails(lift, class) ==
    /\ CompiledMatches("class", lift.owner, class)
    /\ CASE lift.on = "class" -> class.name = lift.fails
         [] lift.on = "field" ->
                \E x \in Range(class.fields) :
                    x.name = lift.fails /\ CompiledMatches("field", lift.where, x)
         [] OTHER ->
                \E x \in Range(class.methods) :
                    /\ x.name = lift.fails /\ CompiledMatches("method", lift.where, x)
                    /\ lift.on = "code" => x.code # NoCode
=============================================================================
