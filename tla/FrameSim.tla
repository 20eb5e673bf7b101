------------------------------ MODULE FrameSim ------------------------------
(***************************************************************************)
(* Recomputation of stack map frames (analysis/mod.rs): a worklist over the  *)
(* instructions of a method finds, for each of them, the types on the stack  *)
(* and in the locals at its entry; where paths meet, types are merged.       *)
(*                                                                         *)
(* Beside it stands what the frames are for: a machine that runs the code    *)
(* by the rules of the JVM (actions Enter, Execute, Throw), with a type in   *)
(* place of each value.                                                      *)
(***************************************************************************)
EXTENDS Hierarchy, SequencesExt

CONSTANTS
    Codes,      \* methods: items, handlers, locals for this, parameter types
    Resolvers,  \* sets of at most one resolver: recomputation may have none
    Classes,    \* the names of classes
    ThisClass,  \* the class of the method
    Throwable

VARIABLES
    code, resolver,
    phase,          \* "simulating", "done", "failed"
    entry_frames,   \* per node a set of at most one frame: empty if not reached
    worklist,
    edges,          \* out of the node visited last, still to be propagated
    max_stack, max_locals,
    machine         \* at most one running machine: its node, stack and locals

vars == <<code, resolver, phase, entry_frames, worklist, edges, max_stack, max_locals, machine>>

-----------------------------------------------------------------------------
(* Types.  A long takes two slots, the second of which holds Top.            *)

Top == [kind |-> "top"]
Integer == [kind |-> "integer"]
Long == [kind |-> "long"]
Null == [kind |-> "null"]
UninitializedThis == [kind |-> "this"]
Uninitialized(node) == [kind |-> "new", node |-> node]
ReturnAddress(targets) == [kind |-> "return", targets |-> targets]
ObjectOf(class) == [kind |-> "object", class |-> class]

is_category2(type) == type = Long

is_reference(type) == type.kind \in {"null", "object", "this", "new"}

Slots(types) == FlattenSeq([i \in DOMAIN types |->
                    IF is_category2(types[i]) THEN <<types[i], Top>> ELSE <<types[i]>>])

Joined(left, right) ==
    LET answers == UNION {common_superclass(r, left, right) : r \in resolver}
    IN  IF answers = {} THEN Object ELSE CHOOSE c \in answers : TRUE

\* A wrong merge: the first of two classes stays.
MergeKeepsFirst(left, right) ==
    CASE left = right -> left
      [] left # right /\ left.kind = "object" /\ right.kind = "object" -> left
      [] OTHER -> Top

merge_vtypes(left, right) ==
    CASE left = right -> left
      [] left # right /\ left.kind = "return" /\ right.kind = "return" ->
            ReturnAddress(left.targets \cup right.targets)
      [] left = Null /\ right # Null /\ is_reference(right) -> right
      [] right = Null /\ left # Null /\ is_reference(left) -> left
      [] left # right /\ left.kind = "object" /\ right.kind = "object" ->
            ObjectOf(Joined(left.class, right.class))
      [] OTHER -> Top

-----------------------------------------------------------------------------
(* Frames. *)

Frame(stack, locals) == [stack |-> stack, locals |-> locals]

\* Paths that meet with stacks of different depths are an error: no frame.
merge_frames(left, right) ==
    LET local(f, i) == IF i \in DOMAIN f.locals THEN f.locals[i] ELSE Top
        longer == IF Len(left.locals) < Len(right.locals) THEN Len(right.locals) ELSE Len(left.locals)
    IN  IF Len(left.stack) # Len(right.stack) THEN {}
        ELSE {Frame([i \in DOMAIN left.stack |-> merge_vtypes(left.stack[i], right.stack[i])],
                    [i \in 1..longer |-> merge_vtypes(local(left, i), local(right, i))])}

push(f, types) == Frame(f.stack \o Slots(types), f.locals)

\* The frame without n slots of the stack; none if there are fewer.
pop(f, n) ==
    IF Len(f.stack) < n THEN {} ELSE {Frame(SubSeq(f.stack, 1, Len(f.stack) - n), f.locals)}

\* A wrong store: a long takes one slot.
StoreInOneSlot(f, slot, type) ==
    LET size == IF Len(f.locals) < slot + 1 THEN slot + 1 ELSE Len(f.locals)
    IN  Frame(f.stack,
              [i \in 1..size |->
                  IF i = slot + 1 THEN type ELSE IF i \in DOMAIN f.locals THEN f.locals[i] ELSE Top])

\* Locals are numbered from 0.  The slot before is left as it is.
set_local(f, slot, type) ==
    LET last == slot + Len(Slots(<<type>>))
        size == IF Len(f.locals) < last THEN last ELSE Len(f.locals)
    IN  Frame(f.stack,
              [i \in 1..size |->
                  IF i \in (slot + 1)..last THEN Slots(<<type>>)[i - slot]
                  ELSE IF i \in DOMAIN f.locals THEN f.locals[i] ELSE Top])

\* The type in a slot, none if nothing is known of it.
get_local(f, slot) ==
    IF slot + 1 \in DOMAIN f.locals /\ f.locals[slot + 1] # Top THEN {f.locals[slot + 1]} ELSE {}

initial_frame == Frame(<<>>, code.this \o Slots(code.params))

Replaced(f, old, new) ==
    LET swap(types) == [i \in DOMAIN types |-> IF types[i] = old THEN new ELSE types[i]]
    IN  Frame(swap(f.stack), swap(f.locals))

-----------------------------------------------------------------------------
(* Instructions, numbered as the nodes of the control flow graph; a label    *)
(* behind the last one is the number after it.  Opcodes that the analysis    *)
(* treats alike are one instruction: Plain takes operands of some types and  *)
(* gives a value, Shuffle is dup, swap and their kind, Jump is a branch or a *)
(* switch, End a return or athrow.                                           *)

Plain(takes, gives) == [op |-> "plain", takes |-> takes, gives |-> gives]
Shuffle(needs, order) == [op |-> "shuffle", needs |-> needs, order |-> order]
Load(slot) == [op |-> "aload", slot |-> slot]
Store(slot, type) == [op |-> "store", slot |-> slot, type |-> type]
StoreTop(slot) == [op |-> "astore", slot |-> slot]
IInc(slot) == [op |-> "iinc", slot |-> slot]
New(class) == [op |-> "new", class |-> class]
Construct(owner) == [op |-> "init", owner |-> owner]
Jump(takes, targets, falls) == [op |-> "jump", takes |-> takes, targets |-> targets, falls |-> falls]
Jsr(target) == [op |-> "jsr", targets |-> <<target>>]
Ret(slot) == [op |-> "ret", slot |-> slot]
End(takes) == [op |-> "end", takes |-> takes]

Nodes == DOMAIN code.items

NodeTargets(n) == IF code.items[n].op \in {"jump", "jsr"} THEN code.items[n].targets ELSE <<>>

\* A code that build_cfg refuses: no instruction, or a label at the end.
Refused ==
    \/ code.items = <<>>
    \/ \E n \in Nodes : ~(Range(NodeTargets(n)) \subseteq Nodes)
    \/ \E h \in Range(code.handlers) : h.handler \notin Nodes

Next1(n) == IF n + 1 \in Nodes THEN <<n + 1>> ELSE <<>>

normal_successors(n) ==
    LET item == code.items[n]
    IN  CASE item.op = "jump" -> item.targets \o (IF item.falls THEN Next1(n) ELSE <<>>)
          [] item.op = "jsr" -> item.targets
          [] item.op \in {"end", "ret"} -> <<>>
          [] OTHER -> Next1(n)

\* The numbers of a set up to a last one, in order.
InOrder(numbers, last) ==
    LET upto[i \in 0..last] ==
            IF i = 0 THEN <<>>
            ELSE IF i \in numbers THEN Append(upto[i - 1], i) ELSE upto[i - 1]
    IN  upto[last]

ReturnTargets(types) == UNION {t.targets : t \in {t \in types : t.kind = "return"}}

dynamic_successors(n, f) ==
    IF code.items[n].op # "ret" THEN normal_successors(n)
    ELSE InOrder(ReturnTargets(get_local(f, code.items[n].slot)), Len(code.items))

HandlersOf(n) ==
    LET covers == {k \in DOMAIN code.handlers : code.handlers[k].start <= n /\ n < code.handlers[k].end}
        at == InOrder(covers, Len(code.handlers))
    IN  [k \in DOMAIN at |-> code.handlers[at[k]]]

jump_targets == (UNION {Range(NodeTargets(n)) : n \in Nodes}) \cup {h.handler : h \in Range(code.handlers)}

leaders ==
    {1} \cup jump_targets
        \cup {n \in Nodes : n - 1 \in Nodes /\ code.items[n - 1].op \in {"jump", "jsr", "ret", "end"}}

initialize_receiver(f, receiver, class) ==
    IF receiver.kind \in {"this", "new"} THEN Replaced(f, receiver, ObjectOf(class)) ELSE f

\* The frame after an instruction; none when the analysis fails at it.
simulate_item(item, f, n) ==
    CASE item.op = "plain" -> {push(g, item.gives) : g \in pop(f, Len(Slots(item.takes)))}
      [] item.op \in {"jump", "end"} -> pop(f, Len(Slots(item.takes)))
      [] item.op = "shuffle" ->
            {Frame(g.stack \o [k \in DOMAIN item.order |-> f.stack[Len(g.stack) + item.order[k]]], f.locals) :
                g \in pop(f, item.needs)}
      [] item.op = "aload" -> {push(f, <<type>>) : type \in get_local(f, item.slot)}
      [] item.op = "store" ->
            {set_local(g, item.slot, item.type) : g \in pop(f, Len(Slots(<<item.type>>)))}
      [] item.op = "astore" -> {set_local(g, item.slot, Last(f.stack)) : g \in pop(f, 1)}
      [] item.op = "iinc" -> {g \in {f} : get_local(f, item.slot) = {Integer}}
      [] item.op = "new" -> {push(f, <<Uninitialized(n)>>)}
      [] item.op = "init" -> {initialize_receiver(g, Last(f.stack), item.owner) : g \in pop(f, 1)}
      [] item.op = "jsr" -> {push(f, <<ReturnAddress({m})>>) : m \in Range(Next1(n))}
      [] item.op = "ret" -> {g \in {f} : \E t \in get_local(f, item.slot) : t.kind = "return"}

-----------------------------------------------------------------------------
(* The analysis. *)

Edges(targets, f) == [k \in DOMAIN targets |-> [target |-> targets[k], frame |-> f]]

\* A handler starts with the exception on the stack and the locals from before
\* the instruction that throws.
ExceptionEdges(n, f) ==
    LET handlers == HandlersOf(n)
    IN  [k \in DOMAIN handlers |->
            [target |-> handlers[k].handler, frame |-> Frame(<<ObjectOf(handlers[k].catch)>>, f.locals)]]

EdgesOf(n, f, next) == ExceptionEdges(n, f) \o Edges(dynamic_successors(n, f), next)

\* A turn of the loop of simulate begins with the next node of the worklist.
Visit ==
    /\ phase = "simulating" /\ edges = <<>> /\ worklist # <<>>
    /\ LET n == Head(worklist)
       IN  \E f \in entry_frames[n] :
            \/ /\ simulate_item(code.items[n], f, n) = {}
               /\ phase' = "failed"
               /\ UNCHANGED <<worklist, edges, max_stack, max_locals>>
            \/ \E next \in simulate_item(code.items[n], f, n) :
               /\ edges' = EdgesOf(n, f, next)
               /\ worklist' = Tail(worklist)
               /\ max_stack' = Max({max_stack, Len(f.stack), Len(next.stack)})
               /\ max_locals' = Max({max_locals, Len(f.locals), Len(next.locals)})
               /\ UNCHANGED phase
    /\ UNCHANGED <<code, resolver, entry_frames, machine>>

\* A wrong merge: the frame that comes last stays.
TakeLast(old, frame) == {frame}

\* What a node's frame becomes when another one flows into it.
Merged(old, frame) == IF old = {} THEN {frame} ELSE UNION {merge_frames(f, frame) : f \in old}

\* Wrong queues: a node that has a frame is not visited again; a node is visited
\* again although nothing changed.
QueueOnce(target, old, new) ==
    IF old # {} \/ target \in Range(worklist) THEN worklist ELSE Append(worklist, target)

QueueAlways(target, old, new) ==
    IF target \in Range(worklist) THEN worklist ELSE Append(worklist, target)

\* A node whose frame changed is visited again, unless it waits already.
Queue(target, old, new) ==
    IF new = old \/ target \in Range(worklist) THEN worklist ELSE Append(worklist, target)

\* One call of propagate for each edge out of the visited node.
Propagate ==
    /\ phase = "simulating" /\ edges # <<>>
    /\ LET target == Head(edges).target
           old == entry_frames[target]
           new == Merged(old, Head(edges).frame)
       IN  \/ /\ new = {}
              /\ phase' = "failed"
              /\ UNCHANGED <<entry_frames, worklist, edges>>
           \/ /\ new # {}
              /\ entry_frames' = [entry_frames EXCEPT ![target] = new]
              /\ worklist' = Queue(target, old, new)
              /\ edges' = Tail(edges)
              /\ UNCHANGED phase
    /\ UNCHANGED <<code, resolver, max_stack, max_locals, machine>>

Finish ==
    /\ phase = "simulating" /\ edges = <<>> /\ worklist = <<>>
    /\ phase' = "done"
    /\ UNCHANGED <<code, resolver, entry_frames, worklist, edges, max_stack, max_locals, machine>>

-----------------------------------------------------------------------------
(* The frames that are written.  A long says by itself that it takes two     *)
(* slots, and its second slot is written again.                              *)

Written(n) ==
    {Frame(Slots(f.stack), Slots(f.locals)) : f \in {f \in entry_frames[n] : n # 1 /\ n \in leaders}}

-----------------------------------------------------------------------------
(* The JVM. *)

Subclass(class, above) ==
    \/ above \in {Object, class}
    \/ \E r \in resolver : above \in Range(Climb(r, class))

Covers(type, actual) ==
    \/ type \in {Top, actual}
    \/ type.kind = "return" /\ actual.kind = "return" /\ actual.targets \subseteq type.targets
    \/ type.kind = "object" /\ actual = Null
    \/ type.kind = "object" /\ actual.kind = "object" /\ Subclass(actual.class, type.class)

Describes(f, m) ==
    /\ Len(f.stack) = Len(m.stack)
    /\ \A i \in DOMAIN f.stack : Covers(f.stack[i], m.stack[i])
    /\ \A i \in DOMAIN f.locals :
            Covers(f.locals[i], IF i \in DOMAIN m.locals THEN m.locals[i] ELSE Top)

\* Both halves of a long stay together.
WellPaired(stack) ==
    \A i \in 0..Len(stack) : (i > 0 /\ stack[i] = Long) <=> (i < Len(stack) /\ stack[i + 1] = Top)

Operands(types, stack) ==
    LET base == Len(stack) - Len(Slots(types))
    IN  base >= 0 /\ \A k \in DOMAIN Slots(types) :
            LET want == Slots(types)[k]
                actual == stack[base + k]
            IN  want = actual \/ (want.kind = "object" /\ Covers(want, actual))

\* What the verifier lets the machine do.
Legal(item, f) ==
    CASE item.op \in {"plain", "jump", "end"} -> Operands(item.takes, f.stack)
      [] item.op = "shuffle" -> \A g \in simulate_item(item, f, 0) : WellPaired(g.stack)
      [] item.op = "aload" -> \A t \in get_local(f, item.slot) : is_reference(t)
      [] item.op = "store" -> Operands(<<item.type>>, f.stack)
      [] item.op = "astore" -> f.stack # <<>> /\ (is_reference(Last(f.stack)) \/ Last(f.stack).kind = "return")
      [] item.op = "init" -> /\ f.stack # <<>> /\ Last(f.stack).kind \in {"this", "new"}
                             /\ Last(f.stack).kind = "new" =>
                                    code.items[Last(f.stack).node].class = item.owner
      [] OTHER -> TRUE

\* A store breaks the long whose second half it hits.
BreakPair(f, slot) ==
    IF slot \in DOMAIN f.locals /\ f.locals[slot] = Long
    THEN [f EXCEPT !.locals[slot] = Top] ELSE f

ByRules(item, f, n) ==
    CASE item.op \in {"store", "astore"} -> simulate_item(item, BreakPair(f, item.slot), n)
      [] item.op = "init" /\ Last(f.stack) = UninitializedThis ->
            simulate_item([item EXCEPT !.owner = ThisClass], f, n)
      [] item.op = "new" -> {push(Replaced(f, Uninitialized(n), Top), <<Uninitialized(n)>>)}
      [] OTHER -> simulate_item(item, f, n)

Enter ==
    /\ phase = "done" /\ machine = {}
    /\ machine' = {[node |-> 1, frame |-> initial_frame]}
    /\ UNCHANGED <<code, resolver, phase, entry_frames, worklist, edges, max_stack, max_locals>>

Execute ==
    /\ \E m \in machine : LET item == code.items[m.node]
        IN  /\ Legal(item, m.frame)
            /\ \E f \in ByRules(item, m.frame, m.node), n \in Range(dynamic_successors(m.node, m.frame)) :
                    machine' = {[node |-> n, frame |-> f]}
    /\ UNCHANGED <<code, resolver, phase, entry_frames, worklist, edges, max_stack, max_locals>>

Throw ==
    /\ \E m \in machine : \E edge \in Range(ExceptionEdges(m.node, m.frame)) :
            machine' = {[node |-> edge.target, frame |-> edge.frame]}
    /\ UNCHANGED <<code, resolver, phase, entry_frames, worklist, edges, max_stack, max_locals>>

-----------------------------------------------------------------------------
Init ==
    /\ code \in Codes /\ resolver \in Resolvers
    /\ phase = IF Refused THEN "failed" ELSE "simulating"
    /\ entry_frames = [n \in Nodes |-> IF n = 1 THEN {initial_frame} ELSE {}]
    /\ worklist = <<1>> /\ edges = <<>>
    /\ max_stack = 0 /\ max_locals = 0
    /\ machine = {}

Simulate == Visit \/ Propagate \/ Finish

Next == Simulate \/ Enter \/ Execute \/ Throw

Spec == Init /\ [][Next]_vars

\* simulate is a plain loop.
FairSpec == Spec /\ WF_vars(Simulate)

-----------------------------------------------------------------------------
(* Assumptions. *)

\* The types that descriptors and instructions name.
ValueTypes == {Integer, Long, Null} \cup {ObjectOf(c) : c \in Classes}

ItemOK(item) ==
    /\ item.op = "plain" => item.takes \in Seq(ValueTypes) /\ item.gives \in Seq(ValueTypes)
    /\ item.op \in {"jump", "end"} => item.takes \in Seq(ValueTypes)
    /\ item.op \in {"jump", "jsr"} => item.targets \in Seq(Nat)
    /\ item.op = "jump" => item.falls \in BOOLEAN
    /\ item.op = "shuffle" => item.needs \in Nat /\ item.order \in Seq(1..item.needs)
    /\ item.op \in {"aload", "store", "astore", "iinc", "ret"} => item.slot \in Nat
    /\ item.op = "store" => item.type \in ValueTypes
    /\ item.op = "new" => item.class \in Classes
    /\ item.op = "init" => item \in [op : {"init"}, owner : Classes]

Ops == {"plain", "shuffle", "aload", "astore", "iinc", "ret", "store", "new", "init", "jump", "jsr", "end"}

ASSUME CodeShapes ==
    \A c \in Codes :
        /\ c.this \in Seq(ValueTypes \cup {UninitializedThis}) /\ c.params \in Seq(ValueTypes)
        /\ Len(c.items) \in Nat /\ DOMAIN c.items = 1..Len(c.items)
        /\ \A n \in DOMAIN c.items : c.items[n].op \in Ops /\ ItemOK(c.items[n])
        /\ c.handlers \in Seq([start : Nat, end : Nat, handler : Nat, catch : Classes])

\* An array is no superclass.
ASSUME ResolverShapes ==
    \A known \in Resolvers :
        /\ \A r \in known, s \in known : r = s
        /\ \A r \in known :
              /\ IsFiniteSet(DOMAIN r)
              /\ \A c \in DOMAIN r : r[c] \in (Classes \ Arrays) \cup {NoClass}

ASSUME ClassNames == {Object, ThisClass, Throwable} \subseteq Classes /\ NoClass \notin Classes

-----------------------------------------------------------------------------
(* Codes of which the analysis is known to say something else than the JVM.  *)

\* A super constructor gives this the type of the superclass.
CallsSuper == code.this = <<UninitializedThis>>
              /\ \E n \in Nodes : code.items[n].op = "init" /\ code.items[n].owner # ThisClass

\* A store to the second half of a long leaves the long in the first.
SplitsLong ==
    \E m \in Nodes :
        /\ code.items[m].op \in {"store", "astore"}
        /\ \/ \E n \in Nodes : code.items[n] = Store(code.items[m].slot - 1, Long)
           \/ /\ code.items[m].slot \in DOMAIN initial_frame.locals
              /\ initial_frame.locals[code.items[m].slot] = Long

\* Null merged with an object under construction is that object.
MixesNull ==
    /\ \E n \in Nodes : code.items[n].op = "plain" /\ Null \in Range(code.items[n].gives)
    /\ code.this = <<UninitializedThis>> \/ \E n \in Nodes : code.items[n].op = "new"

-----------------------------------------------------------------------------
(* Properties. *)

\* A frame is only ever replaced by one that says less: types that went up do
\* not come down again, which is why the loop ends.
FramesOnlyGrow ==
    [][\A n \in DOMAIN entry_frames :
            \A f \in entry_frames[n] : \E g \in entry_frames'[n] : merge_frames(f, g) = {g}]_vars

\* At the end each frame is the merge of all frames that flow into its node, in
\* whatever order they are taken: no path was forgotten when a frame changed
\* after it had been used, and the order of the worklist does not show.
FramesAreJoins ==
    LET after(m) == UNION {simulate_item(code.items[m], f, m) : f \in entry_frames[m]}
        flow == UNION {UNION {Range(EdgesOf(m, f, g)) : f \in entry_frames[m], g \in after(m)} : m \in Nodes}
        into(n) == {e.frame : e \in {e \in flow : e.target = n}} \cup {f \in {initial_frame} : n = 1}
        merged(fs) == FoldLeft(LAMBDA acc, f : IF acc = {} THEN {f} ELSE UNION {merge_frames(g, f) : g \in acc},
                               {}, SetToSeq(fs))
    IN  phase = "done" => \A n \in Nodes : entry_frames[n] = merged(into(n))

\* Whatever way the method runs, at each instruction the values on the stack and
\* in the locals are of the types of its frame.
FramesDescribeRuns ==
    CallsSuper \/ SplitsLong \/ MixesNull
    \/ \A m \in machine : \E f \in entry_frames[m.node] : Describes(f, m.frame)

\* No run needs a deeper stack or other locals than the recomputed limits allow.
LimitsHold ==
    \A m \in machine : LET item == code.items[m.node]
                       IN  /\ Len(m.frame.stack) <= max_stack
                           /\ item.op \in {"aload", "astore", "iinc", "ret"} => item.slot + 1 <= max_locals
                           /\ item.op = "store" => item.slot + Len(Slots(<<item.type>>)) <= max_locals

\* The analysis comes to an end on every code and with every resolver, cyclic
\* hierarchies included.
Terminates == <>(phase # "simulating")

\* A run that comes to the target of a jump or to a handler finds a frame
\* written for it, and is in the state the frame says.
WrittenFramesHold ==
    \A m \in machine : m.node \in jump_targets /\ m # [node |-> 1, frame |-> initial_frame] =>
        \E f \in Written(m.node) : Describes(f, m.frame)

=============================================================================
