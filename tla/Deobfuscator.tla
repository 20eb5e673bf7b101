---------------------------- MODULE Deobfuscator -----------------------------
(***************************************************************************)
(* The cleanup of deobfuscate rewrite (pytecode-cli/src/deobfuscate.rs): nops *)
(* go, chains of gotos are cut short, and gotos to what follows them go.      *)
(* Items are those of Matchers; a goto is a Branch with one target.          *)
(***************************************************************************)
EXTENDS Subsequences, SequencesExt

IsLabel(item) == item.k = "Label"

IsNop(item) == item.k = "Raw" /\ item.op = 0

is_unconditional_goto(item) == item.k = "Branch" /\ item.op \in {167, 200}

Gotos(items) == {i \in DOMAIN items : is_unconditional_goto(items[i])}

remove_nops(items) == Kept(items, {i \in DOMAIN items : ~IsNop(items[i])})

\* The first item that is no label, from position i on; one past the end if none is.
FirstInsn(items, i) ==
    LET insns == {j \in i..Len(items) : ~IsLabel(items[j])}
    IN  IF insns = {} THEN Len(items) + 1 ELSE Min(insns)

\* A wrong fallthrough: the label may stand anywhere behind the goto.
LabelSomewhereBehind(items, i, target) ==
    \E j \in (i + 1)..Len(items) : IsLabel(items[j]) /\ items[j].label = target

targets_immediate_fallthrough(items, i, target) ==
    \E j \in (i + 1)..(FirstInsn(items, i + 1) - 1) : items[j].label = target

NoopGotos(items) ==
    {i \in Gotos(items) : targets_immediate_fallthrough(items, i, items[i].targets[1])}

remove_noop_gotos(items) == Kept(items, DOMAIN items \ NoopGotos(items))

\* The map is built front to back: the last place of a label counts.
LabelAt(items, label) == SelectLastInSeq(items, LAMBDA x : IsLabel(x) /\ x.label = label)

\* Where so many hops lead.
AfterHops(hops, from, n) ==
    LET at[k \in 0..n] == IF k = 0 THEN from ELSE hops[at[k - 1]] IN at[n]

Follower(items, label) == FirstInsn(items, LabelAt(items, label) + 1)

BeforeGoto(items, label) == LabelAt(items, label) # 0 /\ Follower(items, label) \in Gotos(items)

\* From the target of a goto to that of the goto which follows it.
Onwards(items) ==
    [label \in {items[i].targets[1] : i \in Gotos(items)} |->
        IF BeforeGoto(items, label) THEN items[Follower(items, label)].targets[1] ELSE label]

NoLabel == <<>>

\* A wrong end: one goto further, wherever that leads.
OneHop(items, start) ==
    CASE LabelAt(items, start) = 0 -> NoLabel
      [] BeforeGoto(items, start) -> items[Follower(items, start)].targets[1]
      [] OTHER -> start

\* The walk ends at a label it has seen: one that has made as many hops as there are items
\* and could go on is on a cycle.
resolve_terminal_goto_target(items, start) ==
    LET end == AfterHops(Onwards(items), start, Len(items))
    IN  IF LabelAt(items, end) = 0 \/ BeforeGoto(items, end) THEN NoLabel ELSE end

Redirectable(items) ==
    {i \in Gotos(items) :
        LET end == resolve_terminal_goto_target(items, items[i].targets[1])
        IN  end # NoLabel /\ end # items[i].targets[1]}

redirect_goto_chains(items) ==
    [i \in DOMAIN items |->
        IF i \in Redirectable(items)
        THEN [items[i] EXCEPT !.targets =
                <<resolve_terminal_goto_target(items, items[i].targets[1])>>]
        ELSE items[i]]
=============================================================================
