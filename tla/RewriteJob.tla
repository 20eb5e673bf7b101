------------------------------ MODULE RewriteJob ------------------------------
(***************************************************************************)
(* A rewrite of the classes of a JAR, class by class in memory, and then of   *)
(* its file: by the rules of a plan (patch-jar), by the cleanup of            *)
(* deobfuscate rewrite, by a declarative pipeline, by lifted closures, or by  *)
(* a Python callback.  The steps of one class are actions of their own; what  *)
(* a rewrite does to the archive itself is in JarArchive.                     *)
(*                                                                         *)
(* A job is [kind, steps].  Classes that come out are lowered before the next *)
(* is taken: a label that is used and not placed ends the job.                *)
(***************************************************************************)
EXTENDS Integers, JarPatcher, Deobfuscator

CONSTANTS Requests,  \* the jobs that may be asked for, each with the classes of a JAR
          Edits,     \* what a Python callback may set in a class
          NoClass    \* no class is being rewritten

LabelsOnce(items) ==
    \A i, j \in DOMAIN items :
        IsLabel(items[i]) /\ IsLabel(items[j]) /\ items[i].label = items[j].label => i = j

\* Items as they are lifted from a class file: each label is placed once.
AreLifted(items) ==
    /\ items \in Seq(Range(items))
    /\ \A item \in Range(items) : {"k", "op", "label", "targets"} \subseteq DOMAIN item
    /\ LabelsOnce(items)

IsRecord(x) == x = [part \in DOMAIN x |-> x[part]]

HasLifted(method) ==
    /\ "code" \in DOMAIN method
    /\ method.code = NoCode \/ ({"items", "handlers"} \subseteq DOMAIN method.code /\ AreLifted(method.code.items))

ASSUME JarsAreLifted ==
    \A r \in DOMAIN Requests :
        /\ Requests[r].jar \in Seq(Range(Requests[r].jar))
        /\ \A class \in Range(Requests[r].jar) :
            /\ {"fields", "methods"} \subseteq DOMAIN class
            /\ class.fields \in Seq(Range(class.fields)) /\ class.methods \in Seq(Range(class.methods))
            /\ \A m \in DOMAIN class.methods : HasLifted(class.methods[m])
            /\ \A x \in Range(class.fields) \cup Range(class.methods) : IsRecord(x)

ASSUME PlansAreTyped ==
    \A r \in DOMAIN Requests : Requests[r].job.kind = "patch" =>
        /\ Requests[r].job.steps \in Seq(Range(Requests[r].job.steps))
        /\ \A rule \in Range(Requests[r].job.steps) : IsRule(rule)

\* A pipeline is given as trees of the enums of matcher_spec.rs, which own their parts.
ASSUME PipelinesAreTyped ==
    \A r \in DOMAIN Requests : Requests[r].job.kind = "pipeline" =>
        \A i \in DOMAIN Requests[r].job.steps :
            LET given == Requests[r].job.steps[i]
            IN  /\ {"on", "owner", "member"} \subseteq DOMAIN given
                /\ given.on \in {"class", "field", "method", "code"}
                /\ IsMatcher("class", given.owner)
                /\ given.on # "class" => IsMatcher(IF given.on = "field" THEN "field" ELSE "method", given.member)
                /\ \A m \in InsnMatchers(given.action) : IsMatcher("insn", m)

VARIABLES job, jar, status,
          done,      \* the classes rewritten so far
          work,      \* the class being rewritten
          step,      \* the next step of the job; of a cleanup, the next method
          clean,     \* whether that method has lost its nops
          rules,     \* the counts of each rule
          stats,     \* what the cleanup did to this class
          totals,    \* and to the classes before it
          error,     \* the first error of a callback
          file       \* the classes at the destination

vars == <<job, jar, status, done, work, step, clean, rules, stats, totals, error, file>>

NoStats == [nops_removed |-> 0, noop_gotos_removed |-> 0, goto_redirects |-> 0]

Working == status = "running" /\ work # NoClass

HasStep(kind) == Working /\ job.kind = kind /\ step <= Len(job.steps)

Init ==
    /\ \E r \in DOMAIN Requests : job = Requests[r].job /\ jar = Requests[r].jar
    /\ status = "loading" /\ done = <<>> /\ work = NoClass /\ file = jar   \* in place
    /\ step = 1 /\ clean = FALSE /\ error = "none"
    /\ rules = [i \in DOMAIN job.steps |-> NoCounts]
    /\ stats = NoStats /\ totals = NoStats @@ [classes_changed |-> 0]

\* A plan is checked whole, a pipeline compiled whole, before the first class.
Load ==
    /\ status = "loading"
    /\ status' = CASE job.kind = "patch" /\ (\E i \in DOMAIN job.steps : RuleRefused(job.steps[i])) -> "failed"
                   [] job.kind = "pipeline" /\ (\E i \in DOMAIN job.steps : ~StepCompiles(job.steps[i])) -> "panicked"
                   [] OTHER -> "running"
    /\ UNCHANGED <<job, jar, done, work, step, clean, rules, stats, totals, error, file>>

TakeClass ==
    /\ status = "running" /\ work = NoClass /\ Len(done) < Len(jar)
    /\ work' = jar[Len(done) + 1] /\ step' = 1 /\ clean' = FALSE /\ stats' = NoStats
    /\ UNCHANGED <<job, jar, status, done, rules, totals, error, file>>

Stop(how) == status' = how /\ UNCHANGED <<work, step>>

Advance(class) == work' = class /\ step' = step + 1 /\ UNCHANGED status

-----------------------------------------------------------------------------
(* patch-jar. *)

PatchStep ==
    /\ HasStep("patch")
    /\ LET rule == job.steps[step]
       IN  IF RulePanics(rule, work) THEN Stop("panicked") /\ UNCHANGED rules
           ELSE LET out == ApplyRule(rule, work)
                IN  /\ Advance(out.class)
                    /\ rules' = [rules EXCEPT ![step] = CountRule(@, out)]
    /\ UNCHANGED <<job, jar, done, clean, stats, totals, error, file>>

-----------------------------------------------------------------------------
(* Pipelines, closures, callbacks. *)

PipelineStep ==
    /\ HasStep("pipeline")
    /\ LET compiled == compile(job.steps[step])
       IN  IF StepPanics(compiled, work) THEN Stop("panicked") ELSE Advance(apply(compiled, work))
    /\ UNCHANGED <<job, jar, done, clean, rules, stats, totals, error, file>>

ClosureStep ==
    /\ HasStep("closures")
    /\ IF LiftFails(job.steps[step], work) THEN Stop("failed")
       ELSE Advance(Lifted(job.steps[step], work))
    /\ UNCHANGED <<job, jar, done, clean, rules, stats, totals, error, file>>

store_callback_error(slot, e) == IF slot = "none" THEN e ELSE slot

\* A wrong binding: the error is kept for later, and the rewrite goes on.
RememberedOnly(result) ==
    IF result = "none" THEN UNCHANGED <<status, error>>
    ELSE error' = store_callback_error(error, result) /\ UNCHANGED status

CallbackResult(result) ==
    CASE result = "none" -> UNCHANGED <<status, error>>
      [] result = "panicked" -> status' = "panicked" /\ UNCHANGED error
      [] OTHER -> error' = store_callback_error(error, result) /\ status' = "failed"

\* The callback may edit the class whatever comes of it: None, another value, an error, or a
\* panic, which call1 resumes: it ends the rewrite where it is, with nothing stored.
CallbackStep ==
    /\ HasStep("callback")
    /\ \E parts \in Edits : work' = Set(work, parts)
    /\ \E result \in {"none", "value", "raised", "panicked"} : CallbackResult(result)
    /\ step' = step + 1
    /\ UNCHANGED <<job, jar, done, clean, rules, stats, totals, file>>

-----------------------------------------------------------------------------
(* deobfuscate rewrite. *)

CleansMethod == Working /\ job.kind = "deobfuscate" /\ step <= Len(work.methods)

HasItems == work.methods[step].code # NoCode

SkipMethod ==
    /\ CleansMethod /\ ~HasItems
    /\ step' = step + 1 /\ clean' = FALSE
    /\ UNCHANGED <<job, jar, status, done, work, rules, stats, totals, error, file>>

RemoveNops ==
    /\ CleansMethod /\ HasItems /\ ~clean
    /\ LET items == work.methods[step].code.items
       IN  /\ work' = [work EXCEPT !.methods[step].code.items = remove_nops(items)]
           /\ stats' = [stats EXCEPT !.nops_removed = @ + Len(items) - Len(remove_nops(items))]
    /\ clean' = TRUE
    /\ UNCHANGED <<job, jar, status, done, step, rules, totals, error, file>>

\* One turn of the loop; it ends with the turn that finds nothing.
Round ==
    /\ CleansMethod /\ HasItems /\ clean
    /\ \E items \in {work.methods[step].code.items} :
       \E straight \in {redirect_goto_chains(items)}, redirected \in {Cardinality(Redirectable(items))} :
       \E removed \in {Cardinality(NoopGotos(straight))} :
        /\ work' = [work EXCEPT !.methods[step].code.items = remove_noop_gotos(straight)]
        /\ stats' = [stats EXCEPT !.goto_redirects = @ + redirected, !.noop_gotos_removed = @ + removed]
        /\ IF redirected = 0 /\ removed = 0 THEN step' = step + 1 /\ clean' = FALSE
           ELSE UNCHANGED <<step, clean>>
    /\ UNCHANGED <<job, jar, status, done, rules, totals, error, file>>

-----------------------------------------------------------------------------
(* The end of a class, and of the job. *)

Placed(code) == LabelsOf(code.items)

Lowers(code) ==
    /\ \A x \in Range(code.items) : x.k \in Jumps => Range(x.targets) \subseteq Placed(code)
    /\ \A h \in Range(code.handlers) : {h.start, h.end, h.handler} \subseteq Placed(code)

Changed == stats # NoStats

Summed ==
    [totals EXCEPT !.classes_changed = @ + (IF Changed THEN 1 ELSE 0),
                   !.nops_removed = @ + stats.nops_removed,
                   !.noop_gotos_removed = @ + stats.noop_gotos_removed,
                   !.goto_redirects = @ + stats.goto_redirects]

FinishClass ==
    /\ Working
    /\ step > IF job.kind = "deobfuscate" THEN Len(work.methods) ELSE Len(job.steps)
    /\ totals' = Summed
    /\ IF \A method \in Range(work.methods) : method.code = NoCode \/ Lowers(method.code)
       THEN done' = Append(done, work) /\ work' = NoClass /\ UNCHANGED status
       ELSE status' = "failed" /\ UNCHANGED <<done, work>>
    /\ UNCHANGED <<job, jar, step, clean, rules, stats, error, file>>

Write ==
    /\ status = "running" /\ work = NoClass /\ Len(done) = Len(jar)
    /\ status' = "written" /\ file' = done
    /\ UNCHANGED <<job, jar, done, work, step, clean, rules, stats, totals, error>>

Next ==
    \/ Load \/ TakeClass
    \/ PatchStep \/ PipelineStep \/ ClosureStep \/ CallbackStep
    \/ SkipMethod \/ RemoveNops \/ Round
    \/ FinishClass \/ Write

Spec == Init /\ [][Next]_vars

-----------------------------------------------------------------------------
(* Properties. *)

\* Positions are followed through labels, nops and gotos; the first that is none of
\* these is where a run gets to, 0 if it gets nowhere, 1 past the end.
Hops(items) ==
    [i \in 0..(Len(items) + 1) |->
        IF i \notin DOMAIN items THEN i
        ELSE CASE IsLabel(items[i]) \/ IsNop(items[i]) -> i + 1
               [] is_unconditional_goto(items[i]) -> LabelAt(items, items[i].targets[1])
               [] OTHER -> i]

Arrivals(items) ==
    LET hops == Hops(items)
    IN  [i \in DOMAIN hops |->
            LET at == AfterHops(hops, i, Len(items))
            IN  CASE at = 0 \/ hops[at] # at -> 0
                  [] at > Len(items) -> 1
                  [] OTHER -> items[at].id]

FallsThrough(item) == item.op \notin Returns \cup {170, 171, 191}

Real(items) ==
    {i \in DOMAIN items : ~IsLabel(items[i]) /\ ~IsNop(items[i]) /\ ~is_unconditional_goto(items[i])}

Guards(code, i) ==
    {h \in DOMAIN code.handlers : /\ LabelAt(code.items, code.handlers[h].start) < i
                                  /\ i < LabelAt(code.items, code.handlers[h].end)}

Trace(code) ==
    LET items == code.items
        to == Arrivals(items)
        jump(label) == to[LabelAt(items, label)]
    IN  [entry |-> to[1],
         steps |-> {<<items[i], Guards(code, i), IF FallsThrough(items[i]) THEN to[i + 1] ELSE 0,
                      [t \in DOMAIN items[i].targets |-> jump(items[i].targets[t])]>> : i \in Real(items)},
         catches |-> [h \in DOMAIN code.handlers |-> jump(code.handlers[h].handler)]]

\* Whatever the cleanup has done so far, every instruction that is not a nop or a goto
\* is still there, leads to the same instructions, and is guarded by the same handlers
\* (deobfuscate.rs, rewrite_class).
TraceKept ==
    Working /\ job.kind = "deobfuscate" =>
        \A m \in DOMAIN work.methods :
            work.methods[m].code = NoCode \/
            Trace(work.methods[m].code) = Trace(jar[Len(done) + 1].methods[m].code)

Smaller(after, before) ==
    \/ Len(after) < Len(before)
    \/ Len(after) = Len(before) /\ Cardinality(Redirectable(after)) < Cardinality(Redirectable(before))

\* The loop over a method comes to rest, with cycles of gotos in it too: a turn after which
\* there is another has left fewer items, or as many with fewer gotos to cut short (the loop
\* in rewrite_class has no bound of its own).
RoundsShrink ==
    [][Working /\ job.kind = "deobfuscate" /\ clean /\ clean' /\ step' = step =>
        Smaller(work'.methods[step].code.items, work.methods[step].code.items)]_vars

\* A compiled condition says of every class, member and instruction what the interpreted
\* one says (matcher_spec.rs holds both, leaf by leaf).
CompiledSaysTheSame ==
    Working /\ job.kind = "pipeline" =>
        \A i \in DOMAIN job.steps :
            LET given == job.steps[i]
                made == compile(given)
                of == IF given.on = "field" THEN "field" ELSE "method"
            IN  /\ CompiledMatches("class", made.owner, work) <=> Matches("class", given.owner, work)
                /\ given.on # "class" =>
                    \A x \in Range(IF of = "field" THEN work.fields ELSE work.methods) :
                        CompiledMatches(of, made.member, x) <=> Matches(of, given.member, x)
                /\ \A m \in {m \in InsnMatchers(given.action) : Compiles(m)}, x \in Range(work.methods) :
                    x.code = NoCode \/
                    \A item \in Range(x.code.items) :
                        CompiledMatches("insn", CompiledInsn(m), item) <=> Matches("insn", m, item)

\* A report counts every class that a rule or the cleanup has changed, and only those unless
\* the rule edits code, where an edit that puts in what was there counts; and of a rule no more
\* changes than matches (the booleans of apply_*_action are computed beside the edit).
ReportSaysWhatChanged ==
    [][/\ HasStep("patch") /\ step' # step =>
            LET before == rules[step]
                after == rules'[step]
            IN  /\ work' # work => after.changed_classes = before.changed_classes + 1
                /\ work' = work /\ job.steps[step].code = <<>> =>
                        after.changed_classes = before.changed_classes
                /\ after.changed_targets <= after.matched_targets
       /\ Working /\ job.kind = "deobfuscate" /\ work' = NoClass =>
            totals'.classes_changed = totals.classes_changed +
                (IF work # jar[Len(done) + 1] THEN 1 ELSE 0)]_vars

CodeSize(class) ==
    FoldLeft(LAMBDA sum, m : sum + (IF m.code = NoCode THEN 0 ELSE Len(m.code.items)), 0, class.methods)

Growth(action) ==
    CASE action.transform.do \in {"insert_before", "insert_after"} -> Len(action.transform.items)
      [] action.transform.do \in {"replace_insn", "replace_sequence"} ->
            Len(action.transform.items) - Len(action.pattern)
      [] action.transform.do \in {"remove_insn", "remove_sequence"} -> 0 - Len(action.pattern)
      [] OTHER -> 0

\* The methods that the action of a rule acts on, before its code actions.
ActedOn(rule, class) ==
    IF rule.action = NoAction \/ ~CompiledMatches("class", build_class_matcher(rule.owner), class) THEN {}
    ELSE {i \in DOMAIN class.methods :
            CompiledMatches("method", build_method_matcher(rule.matcher), class.methods[i])}

\* What a code action counts is what it edits: the matches are counted before the edit, by a
\* walk of their own (count_matching_sequences against replace_sequences), and both look for
\* the methods that match as the action of the rule left them.
CountsAreEdits ==
    [][HasStep("patch") /\ step' # step =>
        LET rule == job.steps[step]
            code == CompiledCode(rule)
        IN  rule.kind = "method" /\ rule.action.do # "remove" /\ Len(code) = 1 =>
                CodeSize(work') - CodeSize(work) =
                    Growth(code[1]) * (rules'[step].matched_targets - rules[step].matched_targets
                                        - Cardinality(ActedOn(rule, work)))]_vars

Equivalent(rule) ==
    IF rule.kind = "class" THEN rule.action
    ELSE CASE rule.action.do = "rename" ->
            [do |-> IF rule.kind = "field" THEN "rename_field" ELSE "rename_method",
             from |-> rule.matcher["name"], to |-> rule.action.to]
      [] rule.action.do = "set_access_flags" ->
            [do |-> IF rule.kind = "field" THEN "set_field_access_flags" ELSE "set_method_access_flags",
             name |-> rule.matcher["name"], flags |-> rule.action.flags]
      [] rule.action.do = "remove" ->
            [do |-> IF rule.kind = "field" THEN "remove_field" ELSE "remove_method",
             name |-> rule.matcher["name"], descriptor |-> Same]

HasEquivalent(rule) ==
    \/ rule.kind = "class"
    \/ /\ DOMAIN rule.matcher = {"name"} /\ rule.code = <<>>
       /\ rule.action.do \in {"rename", "set_access_flags", "remove"}

\* What the declarative transform leaves where a rule leaves class.
AsDeclared(rule, class) ==
    IF rule.action.do = "remove_access_flags" THEN [class EXCEPT !.access = @ \cap ClassFlags]
    ELSE class

\* A rule does what the declarative transform of the same name does, but that the transform
\* remove_access_flags also takes away bits of a class that are not declared, which the rule
\* keeps: the two are written apart, in jar_patcher.rs and in transform_spec.rs.
RulesAndSpecsAgree ==
    Working /\ job.kind = "patch" =>
        \A i \in DOMAIN job.steps :
            LET rule == job.steps[i]
            IN  HasEquivalent(rule) /\ CompiledMatches("class", build_class_matcher(rule.owner), work) =>
                    ClassApply(Equivalent(rule), work) = AsDeclared(rule, ApplyRule(rule, work).class)

\* An error of a callback ends the rewrite with the file as it was, although classes
\* before have been transformed and the failing one has been put back edited; and so
\* does a panic, of a callback or of an expression of a plan (archive.rs of the Python
\* binding).
ErrorsKeepTheFile == error # "none" \/ status = "panicked" => file = jar

\* A plan that was loaded places every label once (README.md: control-flow edits that are
\* malformed fail while the plan is loaded).
LabelsPlacedOnce ==
    Working /\ job.kind = "patch" =>
        \A m \in Range(work.methods) : m.code = NoCode \/ LabelsOnce(m.code.items)
=============================================================================
