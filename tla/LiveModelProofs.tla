--------------------------- MODULE LiveModelProofs ---------------------------
(***************************************************************************)
(* Theorems about LiveModel for every number of models, lists, handles and  *)
(* pipelines, and calls of apply nested to any depth and ended by panics:   *)
(* which models are on loan, whose error a slot holds, where the class is,   *)
(* and what a ref follows.                                                  *)
(***************************************************************************)
EXTENDS LiveModel, Induction, TLAPS

-----------------------------------------------------------------------------
(* The invariant. *)

Frame == [model : Models, pipeline : Pipelines, callback : Models \cup {NoModel},
          steps : Nat, raised : BOOLEAN, reentered : BOOLEAN, leftover : BOOLEAN]

Panic == [pipeline : Pipelines, callback : Models]

HandleOK(h) ==
    handles[h] # NoHandle =>
        /\ handles[h].list \in Lists
        /\ \/ /\ handles[h].kind = "owned" /\ handles[h].name \in Names
              /\ handles[h] = [kind |-> "owned", list |-> handles[h].list, name |-> handles[h].name]
           \/ /\ handles[h].kind \in {"view", "ref"}
              /\ handles[h].model \in Models /\ handles[h].generation \in Nat

Shapes ==
    /\ applies \in Seq(Frame)
    /\ slot \in [Pipelines -> BOOLEAN]
    /\ bypassed \in [Models -> [Lists -> BOOLEAN]]
    /\ unwound \subseteq Panic
    /\ handles = [h \in Handles |-> handles[h]]
    /\ states = [m \in Models |-> states[m]]

Typed ==
    /\ \A h \in Handles : HandleOK(h)
    /\ \A m \in Models : Live(m) => states[m] \in State

\* The applies that run have models of their own, lent to callbacks that have
\* theirs; a callback's model is borrowed only by applies that it called.
Loans ==
    /\ Live(Outer)
    /\ \A i \in DOMAIN applies :
          /\ Live(applies[i].model)
          /\ i < Len(applies) => applies[i].callback # NoModel
          /\ \A j \in DOMAIN applies : applies[j].model = applies[i].model => i = j
    /\ \A i \in DOMAIN applies : applies[i].callback # NoModel =>
          /\ Live(applies[i].callback) /\ applies[i].callback # Outer
          /\ \A j \in DOMAIN applies :
                /\ applies[j].callback = applies[i].callback => i = j
                /\ applies[j].model = applies[i].callback => i < j

\* Somebody may still hold the model for good reason.
Known(m) ==
    \/ m = Outer
    \/ \E i \in DOMAIN applies : applies[i].callback = m
    \/ \E u \in unwound : u.callback = m

OnlyKnownLive == \A m \in Models : Live(m) => Known(m)

LentOut(m) == \E i \in DOMAIN applies : applies[i].model = m /\ applies[i].callback # NoModel

\* One model has the class that was read, and one that is lent out has not;
\* every other has until a panic.
Holdings ==
    /\ \A m \in Models : LentOut(m) => ~HasTheClass(m)
    /\ \E m \in Models : HasTheClass(m) /\ \A n \in Models : HasTheClass(n) => n = m
    /\ unwound = {} => \A m \in Models : Live(m) /\ ~HasTheClass(m) => LentOut(m)

Left(p) == \E u \in unwound : u.pipeline = p

\* A slot is set for an apply that is running or that a panic ended, and for a
\* running one alone unless a pipeline was applied within itself.
SlotsOwned ==
    /\ \A p \in Pipelines : slot[p] => Left(p) \/ \E i \in DOMAIN applies : applies[i].pipeline = p
    /\ \A i \in DOMAIN applies :
          ~applies[i].reentered =>
             /\ slot[applies[i].pipeline] <=> applies[i].raised \/ applies[i].leftover
             /\ applies[i].leftover => Left(applies[i].pipeline)
             /\ \A j \in DOMAIN applies : applies[j].pipeline = applies[i].pipeline => i = j

IInv == Shapes /\ Typed /\ Loans /\ OnlyKnownLive /\ Holdings /\ SlotsOwned

-----------------------------------------------------------------------------
(* What steps do to the applies. *)

\* All that no step of an apply changes.
SameFrame(f, g) ==
    /\ f.model = g.model /\ f.pipeline = g.pipeline
    /\ f.reentered = g.reentered /\ f.leftover = g.leftover

\* No apply begins or ends, and no callback.
SameCalls ==
    /\ applies' \in Seq(Frame)
    /\ Len(applies') = Len(applies) /\ DOMAIN applies' = DOMAIN applies
    /\ \A i \in DOMAIN applies :
          /\ SameFrame(applies'[i], applies[i])
          /\ applies'[i].callback = applies[i].callback
          /\ applies'[i].raised = applies[i].raised

\* The innermost apply begins or ends a callback.
TopCalls(callback, raised) ==
    /\ applies' \in Seq(Frame)
    /\ Len(applies') = Len(applies) /\ DOMAIN applies' = DOMAIN applies
    /\ \A i \in DOMAIN applies :
          /\ SameFrame(applies'[i], applies[i])
          /\ applies'[i].callback = IF i = Len(applies) THEN callback ELSE applies[i].callback
          /\ applies'[i].raised = IF i = Len(applies) THEN raised ELSE applies[i].raised

\* A new innermost apply.
Begins(m, p) ==
    /\ applies' \in Seq(Frame)
    /\ Len(applies') = Len(applies) + 1 /\ DOMAIN applies' = 1..(Len(applies) + 1)
    /\ \A i \in DOMAIN applies :
          /\ applies'[i].model = applies[i].model
          /\ applies'[i].pipeline = applies[i].pipeline
          /\ applies'[i].callback = applies[i].callback
          /\ applies'[i].raised = applies[i].raised
          /\ applies'[i].leftover = applies[i].leftover
          /\ ~applies'[i].reentered => ~applies[i].reentered /\ applies[i].pipeline # p
    /\ LET f == applies'[Len(applies) + 1]
       IN  /\ f.model = m /\ f.pipeline = p /\ f.callback = NoModel
           /\ f.raised = FALSE /\ f.leftover = slot[p]
           /\ ~f.reentered => \A i \in DOMAIN applies : applies[i].pipeline # p

\* The innermost apply is over.
Ends ==
    /\ applies' \in Seq(Frame)
    /\ Len(applies') = Len(applies) - 1 /\ DOMAIN applies' = 1..(Len(applies) - 1)
    /\ \A i \in DOMAIN applies' : i \in DOMAIN applies /\ applies'[i] = applies[i]
    /\ \A i \in DOMAIN applies : i \in DOMAIN applies' \/ i = Len(applies)

LEMMA Positions ==
    ASSUME Shapes
    PROVE  /\ Len(applies) \in Nat /\ DOMAIN applies = 1..Len(applies)
           /\ \A i \in DOMAIN applies :
                 /\ applies[i] \in Frame
                 /\ applies[i].model \in Models /\ applies[i].pipeline \in Pipelines
                 /\ applies[i].callback \in Models \cup {NoModel}
                 /\ applies[i].raised \in BOOLEAN /\ applies[i].leftover \in BOOLEAN
           /\ NoModel \notin Models
<1>1. \A i \in DOMAIN applies : applies[i] \in Frame
  BY DEF Shapes
<1> QED BY <1>1, OuterModel DEF Frame, Shapes

LEMMA TopFacts ==
    ASSUME Shapes, applies # <<>>
    PROVE  /\ Len(applies) \in DOMAIN applies /\ Len(applies) \in Nat
           /\ DOMAIN applies = 1..Len(applies)
           /\ Top \in Frame /\ Top = applies[Len(applies)]
           /\ Top.model \in Models /\ Top.pipeline \in Pipelines
           /\ Top.callback \in Models \cup {NoModel}
<1>1. /\ Len(applies) \in DOMAIN applies /\ Len(applies) \in Nat
      /\ DOMAIN applies = 1..Len(applies) /\ Top \in Frame
  BY DEF Shapes, Top
<1> QED BY <1>1 DEF Top, Frame

\* The frame of an apply after a step.
After(t, steps, callback, raised) ==
    [model |-> t.model, pipeline |-> t.pipeline, callback |-> callback, steps |-> steps,
     raised |-> raised, reentered |-> t.reentered, leftover |-> t.leftover]

LEMMA FrameAfter ==
    ASSUME NEW t \in Frame, NEW n \in Nat, NEW c \in Models \cup {NoModel}, NEW r \in BOOLEAN
    PROVE  /\ After(t, n, c, r) \in Frame
           /\ SameFrame(After(t, n, c, r), t)
           /\ After(t, n, c, r).callback = c
           /\ After(t, n, c, r).raised = r
BY DEF Frame, After, SameFrame

LEMMA FrameIsRecord ==
    ASSUME NEW t \in Frame
    PROVE  t = [model |-> t.model, pipeline |-> t.pipeline, callback |-> t.callback, steps |-> t.steps,
                raised |-> t.raised, reentered |-> t.reentered, leftover |-> t.leftover]
BY DEF Frame

LEMMA TopBecomes ==
    ASSUME Shapes, applies # <<>>, NEW n \in Nat, NEW c \in Models \cup {NoModel}, NEW r \in BOOLEAN,
           applies' = [applies EXCEPT ![Len(applies)] = After(Top, n, c, r)]
    PROVE  TopCalls(c, r)
<1> DEFINE f == After(Top, n, c, r)
<1>1. /\ Len(applies) \in DOMAIN applies /\ Len(applies) \in Nat
      /\ DOMAIN applies = 1..Len(applies) /\ Top = applies[Len(applies)] /\ Top \in Frame
      /\ f \in Frame /\ SameFrame(f, Top) /\ f.callback = c /\ f.raised = r
  <2>1. /\ Len(applies) \in DOMAIN applies /\ Len(applies) \in Nat
        /\ DOMAIN applies = 1..Len(applies) /\ Top = applies[Len(applies)] /\ Top \in Frame
    BY TopFacts
  <2>2. f \in Frame /\ SameFrame(f, Top) /\ f.callback = c /\ f.raised = r
    BY <2>1, FrameAfter
  <2> QED BY <2>1, <2>2
<1> HIDE DEF f
<1>2. applies' = [applies EXCEPT ![Len(applies)] = f]
  BY DEF f
<1>3. \A i \in DOMAIN applies : applies'[i] = IF i = Len(applies) THEN f ELSE applies[i]
  BY <1>1, <1>2 DEF Shapes
<1>4. \A i \in 1..Len(applies) : applies'[i] \in Frame
  BY <1>1, <1>3 DEF Shapes
<1>5. applies' = [i \in 1..Len(applies) |-> applies'[i]]
  BY <1>1, <1>2
<1>6. applies' \in Seq(Frame) /\ Len(applies') = Len(applies)
  <2>1. PICK k \in Nat : k = Len(applies)
    BY <1>1
  <2>2. PICK s : s = applies'
    OBVIOUS
  <2>3. s = [i \in 1..k |-> s[i]] /\ \A i \in 1..k : s[i] \in Frame
    BY <1>4, <1>5, <2>1, <2>2
  <2>4. s \in Seq(Frame) /\ Len(s) = k
    BY <2>3
  <2> QED BY <2>1, <2>2, <2>4
<1> QED BY <1>1, <1>3, <1>5, <1>6 DEF TopCalls, SameFrame

LEMMA StepDoneCalls ==
    ASSUME Shapes, NextStep, NEW c \in Models \cup {NoModel}, StepDone(c, FALSE)
    PROVE  TopCalls(c, Top.raised)
<1> DEFINE r == Top.raised \/ FALSE
<1>1. applies # <<>> /\ Top \in Frame
  BY TopFacts DEF NextStep
<1>2. r = Top.raised /\ r \in BOOLEAN /\ Top.steps + 1 \in Nat
  BY <1>1 DEF Frame
<1>3. applies' = [applies EXCEPT ![Len(applies)] =
                     [Top EXCEPT !.steps = Top.steps + 1, !.callback = c, !.raised = r]]
  BY DEF StepDone
<1> HIDE DEF r
<1>4. [Top EXCEPT !.steps = Top.steps + 1, !.callback = c, !.raised = r] = After(Top, Top.steps + 1, c, r)
  <2> SUFFICES ASSUME NEW g, g = [Top EXCEPT !.steps = Top.steps + 1, !.callback = c, !.raised = r]
               PROVE  g = After(Top, Top.steps + 1, c, r)
    OBVIOUS
  <2>1. Top = [model |-> Top.model, pipeline |-> Top.pipeline, callback |-> Top.callback,
               steps |-> Top.steps, raised |-> Top.raised, reentered |-> Top.reentered,
               leftover |-> Top.leftover]
    BY <1>1, FrameIsRecord
  <2> QED BY <2>1 DEF After
<1> QED BY <1>1, <1>2, <1>3, <1>4, TopBecomes

\* A step that calls nothing.
LEMMA StepCalls ==
    ASSUME Shapes, NextStep, StepDone(NoModel, FALSE)
    PROVE  SameCalls
<1>1. PICK c \in Models \cup {NoModel} : c = NoModel
  OBVIOUS
<1>2. TopCalls(c, Top.raised)
  BY <1>1, StepDoneCalls
<1>3. Top = applies[Len(applies)] /\ Top.callback = c
  BY <1>1, TopFacts DEF NextStep
<1> QED BY <1>2, <1>3 DEF TopCalls, SameCalls

LEMMA ReturnCalls ==
    ASSUME Shapes, NEW raises \in BOOLEAN, Return(raises)
    PROVE  TopCalls(NoModel, Top.raised \/ raises)
<1> DEFINE r == Top.raised \/ raises
<1>1. /\ applies # <<>> /\ Top \in Frame
      /\ applies' = [applies EXCEPT ![Len(applies)] = [Top EXCEPT !.callback = NoModel, !.raised = r]]
  BY TopFacts DEF Return
<1>2. r \in BOOLEAN /\ Top.steps \in Nat
  BY <1>1 DEF Frame
<1> HIDE DEF r
<1>3. PICK c \in Models \cup {NoModel} : c = NoModel
  OBVIOUS
<1>4. [Top EXCEPT !.callback = c, !.raised = r] = After(Top, Top.steps, c, r)
  <2> SUFFICES ASSUME NEW g, g = [Top EXCEPT !.callback = c, !.raised = r]
               PROVE  g = After(Top, Top.steps, c, r)
    OBVIOUS
  <2>1. Top = [model |-> Top.model, pipeline |-> Top.pipeline, callback |-> Top.callback,
               steps |-> Top.steps, raised |-> Top.raised, reentered |-> Top.reentered,
               leftover |-> Top.leftover]
    BY <1>1, FrameIsRecord
  <2> QED BY <2>1 DEF After
<1>5. TopCalls(c, r)
  BY <1>1, <1>2, <1>3, <1>4, TopBecomes
<1> QED BY <1>3, <1>5 DEF r

\* Every apply of the same pipeline is noted as reentered.
LEMMA ApplyCalls ==
    ASSUME Shapes, NEW m \in Models, NEW p \in Pipelines, Apply(m, p)
    PROVE  Begins(m, p)
<1> DEFINE n == Len(applies)
           both(i) == applies[i].reentered \/ applies[i].pipeline = p
           marked(i) == [applies[i] EXCEPT !.reentered = @ \/ applies[i].pipeline = p]
           s == [i \in DOMAIN applies |-> marked(i)]
           again == \E i \in DOMAIN applies : applies[i].pipeline = p
           f == [model |-> m, pipeline |-> p, callback |-> NoModel, steps |-> 0,
                 raised |-> FALSE, reentered |-> again, leftover |-> slot[p]]
<1>1. DOMAIN applies = 1..n /\ n \in Nat /\ \A i \in 1..n : applies[i] \in Frame
  BY DEF Shapes
<1>2. ASSUME NEW i \in 1..n
      PROVE  /\ marked(i) \in Frame
             /\ marked(i).model = applies[i].model
             /\ marked(i).pipeline = applies[i].pipeline
             /\ marked(i).callback = applies[i].callback
             /\ marked(i).raised = applies[i].raised
             /\ marked(i).leftover = applies[i].leftover
             /\ marked(i).reentered = both(i)
  <2>1. PICK r \in Frame, b \in BOOLEAN : r = applies[i] /\ b = both(i)
    BY <1>1
  <2>2. marked(i) = [r EXCEPT !.reentered = b]
    BY <2>1
  <2> HIDE DEF both, marked
  <2>3. /\ marked(i) \in Frame
        /\ marked(i).model = r.model /\ marked(i).pipeline = r.pipeline
        /\ marked(i).callback = r.callback /\ marked(i).raised = r.raised
        /\ marked(i).leftover = r.leftover /\ marked(i).reentered = b
    BY <2>2 DEF Frame
  <2> QED BY <2>1, <2>3
<1>3. f \in Frame
  <2>1. PICK b \in BOOLEAN, e \in BOOLEAN : b = again /\ e = slot[p]
    BY DEF Shapes
  <2>2. f = [model |-> m, pipeline |-> p, callback |-> NoModel, steps |-> 0,
             raised |-> FALSE, reentered |-> b, leftover |-> e]
    BY <2>1
  <2> HIDE DEF f
  <2> QED BY <2>2 DEF Frame
<1>4. applies' = Append(s, f)
  BY DEF Apply
<1>5. /\ f.model = m /\ f.pipeline = p /\ f.callback = NoModel /\ f.raised = FALSE
      /\ f.reentered = again /\ f.leftover = slot[p]
  OBVIOUS
<1> HIDE DEF f, marked, n
<1>6. s \in Seq(Frame) /\ Len(s) = n /\ DOMAIN s = 1..n /\ \A i \in 1..n : s[i] = marked(i)
  <2>1. s = [i \in 1..n |-> marked(i)] /\ \A i \in 1..n : marked(i) \in Frame
    BY <1>1, <1>2
  <2> HIDE DEF s
  <2> QED BY <1>1, <2>1
<1> HIDE DEF s
<1>7. /\ applies' \in Seq(Frame) /\ Len(applies') = n + 1 /\ DOMAIN applies' = 1..(n + 1)
      /\ \A i \in 1..n : applies'[i] = marked(i)
      /\ applies'[n + 1] = f
  BY <1>1, <1>3, <1>4, <1>6
<1>8. n = Len(applies)
  BY DEF n
<1>9. \A i \in DOMAIN applies : applies'[i] = marked(i) /\ i \in 1..n
  BY <1>1, <1>7
<1>10. applies'[Len(applies) + 1] = f
  BY <1>7, <1>8
<1> QED BY <1>2, <1>5, <1>7, <1>8, <1>9, <1>10 DEF Begins

LEMMA EndCalls ==
    ASSUME Shapes, applies # <<>>, applies' = SubSeq(applies, 1, Len(applies) - 1)
    PROVE  Ends
<1>1. /\ Len(applies) \in 1..Len(applies) /\ Len(applies) \in Nat /\ DOMAIN applies = 1..Len(applies)
      /\ applies \in Seq(Frame)
  BY TopFacts DEF Shapes
<1>2. /\ applies' \in Seq(Frame) /\ Len(applies') = Len(applies) - 1
      /\ DOMAIN applies' = 1..(Len(applies) - 1)
      /\ \A i \in 1..(Len(applies) - 1) : applies'[i] = applies[i]
  BY <1>1
<1> QED BY <1>1, <1>2 DEF Ends

-----------------------------------------------------------------------------
(* Facts about lists. *)

LEMMA WithoutIsList ==
    ASSUME NEW S, NEW list \in Seq(S), NEW name PROVE Without(list, name) \in Seq(S)
<1> DEFINE n == Len(list)
           V == Seq(S)
           next(i, kept) == IF list[i].name = name THEN kept ELSE Append(kept, list[i])
           step == [i \in 1..n |-> [s \in V |-> next(i, s)]]
           Fits(f) == f = [i \in 0..n |-> IF i = 0 THEN <<>> ELSE next(i, f[i - 1])]
           kept == CHOOSE f : Fits(f)
<1>1. n \in Nat /\ \A i \in 1..n : list[i] \in S
  OBVIOUS
<1>2. <<>> \in V /\ \A i \in 1..n, s \in V : next(i, s) \in V
  BY <1>1
<1>3. step \in [1..n -> [V -> V]] /\ \A i \in 1..n, s \in V : step[i][s] = next(i, s)
  <2> HIDE DEF next, n, V
  <2> QED BY <1>2
<1> HIDE DEF step, n, V
<1>4. PICK f \in [0..n -> V] : Recursive(n, <<>>, step, f)
  <2> DEFINE none == <<>>
  <2>1. n \in Nat /\ none \in V /\ step \in [1..n -> [V -> V]]
    BY <1>1, <1>2, <1>3
  <2> HIDE DEF none
  <2>2. \E f \in [0..n -> V] : Recursive(n, none, step, f)
    BY <2>1, Recursion
  <2> QED BY <2>2 DEF none
<1>5. ASSUME NEW i \in 1..n PROVE f[i] = next(i, f[i - 1])
  <2> HIDE DEF next
  <2>1. i - 1 \in 0..n
    BY <1>1
  <2>2. f[i - 1] \in V
    BY <2>1, <1>4
  <2> QED BY <2>2, <1>3, <1>4 DEF Recursive
<1>6. Fits(f)
  <2> HIDE DEF next
  <2>1. \A i \in 0..n : i = 0 \/ i \in 1..n
    BY <1>1
  <2>2. f = [i \in 0..n |-> f[i]]
    BY <1>4
  <2>3. \A i \in 0..n : f[i] = IF i = 0 THEN <<>> ELSE next(i, f[i - 1])
    BY <2>1, <1>4, <1>5 DEF Recursive
  <2> QED BY <2>2, <2>3
<1>7. Fits(kept)
  <2> HIDE DEF Fits
  <2> QED BY <1>6
<1>8. kept[0] = <<>> /\ \A i \in 1..n : kept[i] = next(i, kept[i - 1])
  <2> HIDE DEF next, kept
  <2> QED BY <1>1, <1>7
<1>9. \A i \in 0..n : kept[i] \in V
  <2> DEFINE T == {i \in 0..n : kept[i] \in V}
  <2> HIDE DEF kept
  <2>1. 0 \in T
    BY <1>1, <1>2, <1>8
  <2>2. \A i \in 1..n : i - 1 \in T => i \in T
    <3> HIDE DEF next
    <3> QED BY <1>1, <1>2, <1>8
  <2>3. 0..n \subseteq T
    <3> HIDE DEF T
    <3> QED BY <1>1, <2>1, <2>2, UpTo
  <2> QED BY <2>3
<1>10. Without(list, name) = kept[n]
  BY DEF Without, n
<1> HIDE DEF kept
<1> QED BY <1>1, <1>9, <1>10 DEF V

LEMMA NamedIsList ==
    ASSUME NEW m \in Models, NEW l \in Lists, NEW g \in Nat, NEW n \in Nat,
           NEW names \in [1..n -> Names]
    PROVE  Named(m, l, g, names) \in Seq(Member)
<1> DEFINE member(i) == [id |-> <<m, l, g, i>>, name |-> names[i]]
<1>1. \A i \in 1..n : member(i) \in Member
  BY DEF Member
<1>2. Named(m, l, g, names) = [i \in 1..n |-> member(i)]
  BY DEF Named
<1> HIDE DEF member
<1> QED BY <1>1, <1>2

\* The same members, by other names.
SameMembers(old, new) == DOMAIN new = DOMAIN old /\ \A i \in DOMAIN old : new[i].id = old[i].id

LEMMA RenamedMember ==
    ASSUME NEW r \in Member, NEW name \in Names
    PROVE  [r EXCEPT !.name = name] \in Member /\ [r EXCEPT !.name = name].id = r.id
BY DEF Member

-----------------------------------------------------------------------------
(* What steps do to the models. *)

LiveNext(m) == states'[m] \notin {Unused, Gone}

LEMMA StateFacts ==
    ASSUME NEW s \in State
    PROVE  /\ s = [lists |-> s.lists, generation |-> s.generation, class |-> s.class]
           /\ s \notin {Unused, Gone}
           /\ s.lists \in Contents /\ s.generation \in [Lists -> Nat] /\ s.class \in Class
BY PlaceholdersApart DEF State

LEMMA StateRecord ==
    ASSUME NEW lists \in Contents, NEW g \in [Lists -> Nat], NEW c \in Class,
           NEW s, s = [lists |-> lists, generation |-> g, class |-> c]
    PROVE  s \in State /\ s.lists = lists /\ s.generation = g /\ s.class = c
BY DEF State

\* One list of the model x is another, of the generation g.
EditOf(x, l, list, g) ==
    /\ states' = [m \in Models |-> states'[m]]
    /\ \A m \in Models \ {x} : states'[m] = states[m]
    /\ states'[x] \in State /\ states'[x].class = states[x].class
    /\ states'[x].lists[l] = list /\ states'[x].generation[l] = g
    /\ \A k \in Lists \ {l} :
          /\ states'[x].lists[k] = states[x].lists[k]
          /\ states'[x].generation[k] = states[x].generation[k]

Bypass(x, l, b) ==
    /\ bypassed' \in [Models -> [Lists -> BOOLEAN]]
    /\ bypassed'[x][l] = b
    /\ \A m \in Models, k \in Lists : m # x \/ k # l => bypassed'[m][k] = bypassed[m][k]

\* A list of a model that is not lent out keeps its members, or is noted as
\* changed, or gets a new generation.
EditStep ==
    \E x \in Models, l \in Lists, list \in Seq(Member), g \in Nat, b \in BOOLEAN :
        /\ Live(x) /\ ~LentOut(x)
        /\ EditOf(x, l, list, g) /\ Bypass(x, l, b)
        /\ SameCalls /\ UNCHANGED <<handles, slot, unwound>>
        /\ \/ /\ g = states[x].generation[l] /\ SameMembers(states[x].lists[l], list)
              /\ b = bypassed[x][l]
           \/ g = states[x].generation[l] /\ b
           \/ g = states[x].generation[l] + 1

LEMMA Edited ==
    ASSUME Shapes, NEW x \in Models, states[x] \in State,
           NEW l \in Lists, NEW list \in Seq(Member), NEW g \in Nat,
           states' = [m \in Models |-> states'[m]],
           \A m \in Models \ {x} : states'[m] = states[m],
           states'[x] = [lists |-> [states[x].lists EXCEPT ![l] = list],
                         generation |-> [states[x].generation EXCEPT ![l] = g],
                         class |-> states[x].class]
    PROVE  EditOf(x, l, list, g)
<1> DEFINE lists == states[x].lists
           gens == states[x].generation
           newLists == [lists EXCEPT ![l] = list]
           newGens == [gens EXCEPT ![l] = g]
<1>1. lists \in Contents /\ gens \in [Lists -> Nat] /\ states[x].class \in Class
  BY StateFacts
<1>2. /\ newLists \in Contents /\ newLists[l] = list
      /\ \A k \in Lists \ {l} : newLists[k] = lists[k]
  BY <1>1 DEF Contents
<1>3. /\ newGens \in [Lists -> Nat] /\ newGens[l] = g
      /\ \A k \in Lists \ {l} : newGens[k] = gens[k]
  BY <1>1
<1>4. PICK c \in Class : c = states[x].class
  BY <1>1
<1>5. states'[x] = [lists |-> newLists, generation |-> newGens, class |-> c]
  BY <1>4
<1> HIDE DEF newLists, newGens
<1>6. /\ states'[x] \in State /\ states'[x].lists = newLists
      /\ states'[x].generation = newGens /\ states'[x].class = states[x].class
  <2>1. newLists \in Contents /\ newGens \in [Lists -> Nat] /\ c \in Class
    BY <1>2, <1>3
  <2>2. PICK s : s = states'[x]
    OBVIOUS
  <2>3. s \in State /\ s.lists = newLists /\ s.generation = newGens /\ s.class = c
    BY <1>5, <2>1, <2>2, StateRecord
  <2> QED BY <1>4, <2>2, <2>3
<1> QED BY <1>2, <1>3, <1>6 DEF EditOf

LEMMA UsableFacts ==
    ASSUME Shapes, Typed, NEW m \in Models, Usable(m)
    PROVE  Live(m) /\ ~LentOut(m) /\ states[m] \in State
BY DEF Usable, Borrowed, LentOut, Typed

LEMMA TopIsFree ==
    ASSUME Shapes, Typed, Loans, applies # <<>>, Top.callback = NoModel
    PROVE  /\ Top.model \in Models /\ Live(Top.model) /\ ~LentOut(Top.model)
           /\ states[Top.model] \in State
<1>1. /\ Len(applies) \in DOMAIN applies /\ Top = applies[Len(applies)] /\ Top.model \in Models
  BY TopFacts
<1>2. Live(Top.model)
  BY <1>1 DEF Loans
<1>3. ~LentOut(Top.model)
  BY <1>1 DEF Loans, LentOut
<1> QED BY <1>1, <1>2, <1>3 DEF Typed

LEMMA RemoveEdits ==
    ASSUME Shapes, Typed, Loans, NEW l \in Lists, NEW name \in Names, Remove(l, name)
    PROVE  EditStep
<1>1. applies # <<>> /\ Top.callback = NoModel /\ SameCalls
  BY StepCalls DEF Remove, NextStep
<1>2. PICK x \in Models : x = Top.model
  BY <1>1, TopIsFree
<1>3. Live(x) /\ ~LentOut(x) /\ states[x] \in State
  BY <1>1, <1>2, TopIsFree
<1>4. PICK old, new : old = states[x].lists[l] /\ new = Without(old, name)
  OBVIOUS
<1>5. PICK g \in Nat : g = states[x].generation[l]
  BY <1>3, StateFacts
<1>6. PICK lists \in Contents, gens \in [Lists -> Nat] :
         /\ lists = states[x].lists /\ gens = states[x].generation
         /\ states[x] = [lists |-> lists, generation |-> gens, class |-> states[x].class]
  BY <1>3, StateFacts
<1>7. new \in Seq(Member)
  BY <1>4, <1>6, WithoutIsList DEF Contents
<1>8. states' = [states EXCEPT ![x].lists[l] = new]
  BY <1>2, <1>4 DEF Remove
<1>9. /\ states'[x] = [states[x] EXCEPT !.lists = [lists EXCEPT ![l] = new]]
      /\ \A m \in Models \ {x} : states'[m] = states[m]
      /\ states' = [m \in Models |-> states'[m]]
  BY <1>6, <1>8 DEF Shapes, Contents
<1>10. states'[x] = [lists |-> [lists EXCEPT ![l] = new], generation |-> gens, class |-> states[x].class]
  BY <1>6, <1>9
<1>11. gens = [gens EXCEPT ![l] = g]
  BY <1>5, <1>6
<1>12. EditOf(x, l, new, g)
  BY <1>3, <1>6, <1>7, <1>9, <1>10, <1>11, Edited
<1>13. PICK b \in BOOLEAN : b = (bypassed[x][l] \/ new # old)
  OBVIOUS
<1>14. Bypass(x, l, b)
  <2>1. bypassed' = [bypassed EXCEPT ![x][l] = b]
    BY <1>2, <1>4, <1>13 DEF Remove
  <2> QED BY <2>1 DEF Bypass, Shapes
<1>15. \/ SameMembers(old, new) /\ b = bypassed[x][l]
       \/ b
  <2>1. CASE new = old
    <3>1. b = bypassed[x][l]
      BY <1>13, <2>1 DEF Shapes
    <3> QED BY <2>1, <3>1 DEF SameMembers
  <2>2. CASE new # old
    BY <1>13, <2>2
  <2> QED BY <2>1, <2>2
<1>16. UNCHANGED <<handles, slot, unwound>>
  BY DEF Remove
<1> QED BY <1>1, <1>3, <1>4, <1>5, <1>7, <1>12, <1>14, <1>15, <1>16 DEF EditStep

LEMMA RenameEdits ==
    ASSUME Shapes, Typed, Loans, NEW l \in Lists, NEW from \in Names, NEW to \in Names,
           Rename(l, from, to)
    PROVE  EditStep
<1>1. applies # <<>> /\ Top.callback = NoModel /\ SameCalls
  BY StepCalls DEF Rename, NextStep
<1>2. PICK x \in Models : x = Top.model
  BY <1>1, TopIsFree
<1>3. Live(x) /\ ~LentOut(x) /\ states[x] \in State
  BY <1>1, <1>2, TopIsFree
<1>4. PICK g \in Nat : g = states[x].generation[l]
  BY <1>3, StateFacts
<1>5. PICK lists \in Contents, gens \in [Lists -> Nat] :
         /\ lists = states[x].lists /\ gens = states[x].generation
         /\ states[x] = [lists |-> lists, generation |-> gens, class |-> states[x].class]
  BY <1>3, StateFacts
<1> DEFINE old == lists[l]
           renamed(i) == IF old[i].name = from THEN [old[i] EXCEPT !.name = to] ELSE old[i]
           new == [i \in DOMAIN old |-> renamed(i)]
<1>6. new \in Seq(Member) /\ SameMembers(old, new)
  <2>1. old \in Seq(Member)
    BY <1>5 DEF Contents
  <2> HIDE DEF old
  <2>2. \A i \in DOMAIN old : old[i] \in Member
    BY <2>1
  <2>3. \A i \in DOMAIN old : renamed(i) \in Member /\ renamed(i).id = old[i].id
    BY <2>2, RenamedMember
  <2> HIDE DEF renamed
  <2> QED BY <2>1, <2>3 DEF SameMembers
<1>7. states' = [states EXCEPT ![x].lists[l] = new]
  BY <1>2, <1>5 DEF Rename, Contents
<1> HIDE DEF new
<1>8. /\ states'[x] = [states[x] EXCEPT !.lists = [lists EXCEPT ![l] = new]]
      /\ \A m \in Models \ {x} : states'[m] = states[m]
      /\ states' = [m \in Models |-> states'[m]]
  BY <1>5, <1>7 DEF Shapes, Contents
<1>9. states'[x] = [lists |-> [lists EXCEPT ![l] = new], generation |-> gens, class |-> states[x].class]
  BY <1>5, <1>8
<1>10. gens = [gens EXCEPT ![l] = g]
  BY <1>4, <1>5
<1>11. EditOf(x, l, new, g)
  BY <1>3, <1>5, <1>6, <1>8, <1>9, <1>10, Edited
<1>12. PICK b \in BOOLEAN : b = bypassed[x][l]
  BY DEF Shapes
<1>13. UNCHANGED <<handles, slot, bypassed, unwound>>
  BY DEF Rename
<1>14. Bypass(x, l, b)
  BY <1>12, <1>13 DEF Bypass, Shapes
<1> QED BY <1>1, <1>3, <1>4, <1>5, <1>6, <1>11, <1>12, <1>13, <1>14 DEF EditStep

LEMMA SetNameEdits ==
    ASSUME Shapes, Typed, NEW h \in Handles, NEW name \in Names,
           SetName(h, name), handles[h].kind = "ref"
    PROVE  EditStep
<1>1. Answers(h) /\ handles[h] # NoHandle /\ handles[h].index \in DOMAIN Items(h)
  BY DEF SetName, CanClone
<1>2. PICK x, l, i : x = handles[h].model /\ l = handles[h].list /\ i = handles[h].index
  OBVIOUS
<1>3. x \in Models /\ l \in Lists /\ Live(x) /\ ~LentOut(x) /\ states[x] \in State
  <2>1. x \in Models /\ l \in Lists
    BY <1>1, <1>2 DEF Typed, HandleOK
  <2> QED BY <1>1, <1>2, <2>1, UsableFacts DEF Answers
<1>4. PICK g \in Nat : g = states[x].generation[l]
  BY <1>3, StateFacts
<1>5. PICK lists \in Contents, gens \in [Lists -> Nat] :
         /\ lists = states[x].lists /\ gens = states[x].generation
         /\ states[x] = [lists |-> lists, generation |-> gens, class |-> states[x].class]
  BY <1>3, StateFacts
<1>6. PICK old \in Seq(Member) : old = lists[l]
  BY <1>3, <1>5 DEF Contents
<1>7. i \in DOMAIN old /\ old[i] \in Member
  BY <1>1, <1>2, <1>5, <1>6 DEF Items
<1>8. PICK r \in Member : r = [old[i] EXCEPT !.name = name] /\ r.id = old[i].id
  BY <1>7, RenamedMember
<1>9. PICK new : new = [old EXCEPT ![i] = r]
  OBVIOUS
<1>10. new \in Seq(Member) /\ SameMembers(old, new)
  BY <1>7, <1>8, <1>9 DEF SameMembers
<1>11. states' = [states EXCEPT ![x].lists[l][i].name = name] /\ UNCHANGED <<handles, applies, slot, bypassed, unwound>>
  BY <1>2 DEF SetName
<1>12. /\ states'[x] = [states[x] EXCEPT !.lists = [lists EXCEPT ![l] = new]]
       /\ \A m \in Models \ {x} : states'[m] = states[m]
       /\ states' = [m \in Models |-> states'[m]]
  BY <1>3, <1>5, <1>6, <1>8, <1>9, <1>11 DEF Shapes
<1>13. states'[x] = [lists |-> [lists EXCEPT ![l] = new], generation |-> gens, class |-> states[x].class]
  BY <1>5, <1>12
<1>14. gens = [gens EXCEPT ![l] = g]
  BY <1>3, <1>4, <1>5
<1>15. EditOf(x, l, new, g)
  BY <1>3, <1>5, <1>10, <1>12, <1>13, <1>14, Edited
<1>16. PICK b \in BOOLEAN : b = bypassed[x][l]
  BY <1>3 DEF Shapes
<1>17. Bypass(x, l, b)
  BY <1>11, <1>16 DEF Bypass, Shapes
<1>18. SameCalls
  BY <1>11 DEF SameCalls, SameFrame, Shapes
<1> QED BY <1>3, <1>4, <1>5, <1>6, <1>10, <1>11, <1>15, <1>16, <1>17, <1>18 DEF EditStep

LEMMA NameIsName ==
    ASSUME Shapes, Typed, NEW h \in Handles, CanClone(h)
    PROVE  NameOf(h) \in Names
<1>1. CASE handles[h].kind = "owned"
  BY <1>1 DEF CanClone, Typed, HandleOK, NameOf
<1>2. CASE handles[h].kind # "owned"
  <2>1. /\ handles[h].kind = "ref" /\ Answers(h) /\ handles[h] # NoHandle
        /\ handles[h].index \in DOMAIN Items(h)
    BY <1>2 DEF CanClone
  <2>2. handles[h].model \in Models /\ handles[h].list \in Lists
    BY <2>1 DEF Typed, HandleOK
  <2>3. states[handles[h].model] \in State
    BY <2>1, <2>2, UsableFacts DEF Answers
  <2>4. Items(h) \in Seq(Member)
    BY <2>2, <2>3, StateFacts DEF Items, Contents
  <2>5. Items(h)[handles[h].index] \in Member
    BY <2>1, <2>4
  <2> QED BY <1>2, <2>5 DEF NameOf, Member
<1> QED BY <1>1, <1>2

LEMMA SetListEdits ==
    ASSUME Shapes, Typed, NEW x \in Models, NEW l \in Lists,
           NEW n \in Nat, NEW members \in [1..n -> Handles], SetList(x, l, members)
    PROVE  EditStep
<1>1. Live(x) /\ ~LentOut(x) /\ states[x] \in State
  BY UsableFacts DEF SetList, Assign
<1>2. PICK lists \in Contents, gens \in [Lists -> Nat] :
         /\ lists = states[x].lists /\ gens = states[x].generation
         /\ states[x] = [lists |-> lists, generation |-> gens, class |-> states[x].class]
  BY <1>1, StateFacts
<1>3. PICK g \in Nat : g = gens[l] + 1
  BY <1>2
<1>4. PICK names \in [1..n -> Names] : names = [i \in DOMAIN members |-> NameOf(members[i])]
  <2>1. \A i \in 1..n : members[i] \in Handles /\ CanClone(members[i])
    BY DEF SetList
  <2>2. \A i \in 1..n : NameOf(members[i]) \in Names
    BY <2>1, NameIsName
  <2> QED BY <2>2
<1>5. PICK new \in Seq(Member) : new = Named(x, l, g, names)
  BY NamedIsList
<1>6. /\ states' = [states EXCEPT ![x].lists[l] = new, ![x].generation[l] = gens[l] + 1]
      /\ bypassed' = [bypassed EXCEPT ![x][l] = FALSE] /\ UNCHANGED <<handles, applies, slot, unwound>>
  BY <1>2, <1>3, <1>4, <1>5 DEF SetList, Assign
<1>7. /\ states'[x] = [lists |-> [lists EXCEPT ![l] = new], generation |-> [gens EXCEPT ![l] = g],
                       class |-> states[x].class]
      /\ \A m \in Models \ {x} : states'[m] = states[m]
      /\ states' = [m \in Models |-> states'[m]]
  BY <1>2, <1>3, <1>6 DEF Shapes
<1>8. EditOf(x, l, new, g)
  BY <1>1, <1>2, <1>7, Edited
<1>9. PICK b \in BOOLEAN : b = FALSE
  OBVIOUS
<1>10. Bypass(x, l, b)
  BY <1>6, <1>9 DEF Bypass, Shapes
<1>11. SameCalls
  BY <1>6 DEF SameCalls, SameFrame, Shapes
<1> QED BY <1>1, <1>2, <1>3, <1>6, <1>8, <1>10, <1>11 DEF EditStep

\* Python gets another handle: an owned member, or a view or a ref of a list
\* that is there.
HandleStep ==
    \E h \in Handles : \E r :
        /\ handles' = [handles EXCEPT ![h] = r]
        /\ UNCHANGED <<states, applies, slot, bypassed, unwound>>
        /\ r.list \in Lists
        /\ \/ r.kind = "owned" /\ r.name \in Names /\ r = [kind |-> "owned", list |-> r.list, name |-> r.name]
           \/ r.kind = "view" /\ r.model \in Models /\ r.generation \in Nat
           \/ /\ r.kind = "ref" /\ r.model \in Models /\ r.generation \in Nat
              /\ Live(r.model) /\ ~LentOut(r.model)
              /\ r.generation = states[r.model].generation[r.list]
              /\ r.index \in DOMAIN states[r.model].lists[r.list]
              /\ states[r.model].lists[r.list][r.index].id = r.of

LEMMA TakeViewHandles ==
    ASSUME Shapes, Typed, NEW h \in Handles, NEW m \in Models, NEW l \in Lists, TakeView(h, m, l)
    PROVE  HandleStep
<1>1. PICK r : r = [kind |-> "view", model |-> m, list |-> l, generation |-> states[m].generation[l]]
  OBVIOUS
<1>2. states[m].generation[l] \in Nat
  BY UsableFacts, StateFacts DEF TakeView
<1>3. handles' = [handles EXCEPT ![h] = r] /\ UNCHANGED <<states, applies, slot, bypassed, unwound>>
  BY <1>1 DEF TakeView
<1>4. r.list = l /\ r.kind = "view" /\ r.model = m /\ r.generation \in Nat
  BY <1>1, <1>2
<1> QED BY <1>3, <1>4 DEF HandleStep

LEMMA GetItemHandles ==
    ASSUME Shapes, Typed, NEW h \in Handles, NEW view \in Handles, GetItem(h, view)
    PROVE  HandleStep
<1>1. /\ handles[view] # NoHandle /\ Answers(view)
      /\ UNCHANGED <<states, applies, slot, bypassed, unwound>>
  BY DEF GetItem
<1>2. PICK m, l, g : m = handles[view].model /\ l = handles[view].list /\ g = handles[view].generation
  OBVIOUS
<1>3. m \in Models /\ l \in Lists /\ g \in Nat /\ g = states[m].generation[l]
  BY <1>1, <1>2 DEF Typed, HandleOK, Answers
<1>4. Live(m) /\ ~LentOut(m) /\ states[m] \in State
  BY <1>1, <1>2, <1>3, UsableFacts DEF Answers
<1>5. PICK items \in Seq(Member) : items = states[m].lists[l] /\ items = Items(view)
  BY <1>2, <1>3, <1>4, StateFacts DEF Items, Contents
<1>6. PICK i \in 1..Len(items) :
         handles' = [handles EXCEPT ![h] =
            [kind |-> "ref", model |-> m, list |-> l, generation |-> g, index |-> i, of |-> items[i].id]]
  BY <1>2, <1>5 DEF GetItem, normalize_index
<1>7. PICK r : r = [kind |-> "ref", model |-> m, list |-> l, generation |-> g, index |-> i,
                    of |-> items[i].id]
  OBVIOUS
<1>8. /\ r.kind = "ref" /\ r.model = m /\ r.list = l /\ r.generation = g /\ r.index = i
      /\ r.of = items[i].id
  BY <1>7
<1>9. handles' = [handles EXCEPT ![h] = r]
  BY <1>6, <1>7
<1>10. r.index \in DOMAIN items
  BY <1>8
<1> QED BY <1>1, <1>3, <1>4, <1>5, <1>8, <1>9, <1>10 DEF HandleStep

LEMMA OwnedHandles ==
    ASSUME NEW h \in Handles, NEW l \in Lists, NEW name \in Names,
           handles' = [handles EXCEPT ![h] = [kind |-> "owned", list |-> l, name |-> name]],
           UNCHANGED <<states, applies, slot, bypassed, unwound>>
    PROVE  HandleStep
<1>1. PICK r : r = [kind |-> "owned", list |-> l, name |-> name]
  OBVIOUS
<1>2. r.list = l /\ r.kind = "owned" /\ r.name = name
  BY <1>1
<1>3. handles' = [handles EXCEPT ![h] = r]
  BY <1>1
<1> QED BY <1>1, <1>2, <1>3 DEF HandleStep

LEMMA SetNameHandles ==
    ASSUME Shapes, Typed, NEW h \in Handles, NEW name \in Names,
           SetName(h, name), handles[h].kind = "owned"
    PROVE  HandleStep
<1>1. /\ handles[h] # NoHandle /\ handles' = [handles EXCEPT ![h].name = name]
      /\ UNCHANGED <<states, applies, slot, bypassed, unwound>>
  BY DEF SetName, CanClone
<1>2. PICK l \in Lists : handles[h] = [kind |-> "owned", list |-> l, name |-> handles[h].name]
  BY <1>1 DEF Typed, HandleOK
<1>3. handles' = [handles EXCEPT ![h] = [kind |-> "owned", list |-> l, name |-> name]]
  <2> SUFFICES ASSUME NEW r, r = [handles[h] EXCEPT !.name = name]
               PROVE  r = [kind |-> "owned", list |-> l, name |-> name]
    BY <1>1
  <2> QED BY <1>2
<1> QED BY <1>1, <1>3, OwnedHandles

\* Whatever Python does but begin an apply.
LEMMA PythonSteps ==
    ASSUME Shapes, Typed, Python
    PROVE  \/ HandleStep
           \/ EditStep
           \/ \E m \in Models, p \in Pipelines : Apply(m, p)
<1>1. ASSUME NEW h \in Handles, NEW m \in Models, NEW l \in Lists, TakeView(h, m, l)
      PROVE  HandleStep
  BY <1>1, TakeViewHandles
<1>2. ASSUME NEW h \in Handles, NEW view \in Handles, GetItem(h, view)
      PROVE  HandleStep
  BY <1>2, GetItemHandles
<1>3. ASSUME NEW h \in Handles, NEW l \in Lists, NEW name \in Names, NewOwned(h, l, name)
      PROVE  HandleStep
  BY <1>3, OwnedHandles DEF NewOwned
<1>4. ASSUME NEW h \in Handles, NEW name \in Names, SetName(h, name)
      PROVE  HandleStep \/ EditStep
  BY <1>4, SetNameHandles, SetNameEdits DEF SetName
<1>5. ASSUME NEW m \in Models, NEW l \in Lists, NEW n \in Nat,
             NEW members \in [1..n -> Handles], SetList(m, l, members)
      PROVE  EditStep
  BY <1>5, SetListEdits
<1>6. \A n \in 0..MaxMembers : n \in Nat
  BY MemberBound
<1> QED BY <1>1, <1>2, <1>3, <1>4, <1>5, <1>6 DEF Python

-----------------------------------------------------------------------------
(* Callbacks. *)

\* The contents of the model that the innermost apply works on go to the model k.
CallStep(k) ==
    /\ applies # <<>> /\ Top.callback = NoModel
    /\ TopCalls(k, Top.raised)
    /\ states[k] = Unused /\ k # Top.model
    /\ states' = [m \in Models |-> states'[m]]
    /\ \A m \in Models : m # k /\ m # Top.model => states'[m] = states[m]
    /\ states'[k] \in State /\ states'[Top.model] \in State
    /\ states'[k].lists = states[Top.model].lists
    /\ states'[k].class = states[Top.model].class
    /\ states'[Top.model].class = "default"
    /\ states'[Top.model].generation = states[Top.model].generation
    /\ UNCHANGED <<handles, slot, bypassed, unwound>>

LEMMA CallFacts ==
    ASSUME Shapes, Typed, Loans, NEW k \in Models, Call(k)
    PROVE  CallStep(k)
<1>1. /\ applies # <<>> /\ Top.callback = NoModel /\ states[k] = Unused
      /\ UNCHANGED <<handles, slot, bypassed, unwound>>
  BY DEF Call, NextStep
<1>2. TopCalls(k, Top.raised)
  BY StepDoneCalls DEF Call
<1>3. PICK t \in Models : t = Top.model
  BY <1>1, TopIsFree
<1>4. Live(t) /\ states[t] \in State /\ t # k
  BY <1>1, <1>3, TopIsFree DEF Live
<1>5. PICK lists \in Contents, gens \in [Lists -> Nat], c \in Class :
         /\ lists = states[t].lists /\ gens = states[t].generation /\ c = states[t].class
         /\ states[t] = [lists |-> lists, generation |-> gens, class |-> c]
  <2>1. /\ states[t].lists \in Contents /\ states[t].generation \in [Lists -> Nat]
        /\ states[t].class \in Class
        /\ states[t] = [lists |-> states[t].lists, generation |-> states[t].generation,
                        class |-> states[t].class]
    BY <1>4, StateFacts
  <2> QED BY <2>1
<1>6. PICK zeros \in [Lists -> Nat] : zeros = [l \in Lists |-> 0]
  OBVIOUS
<1>7. PICK empty \in Contents : empty = [l \in Lists |-> <<>>]
  <2>1. <<>> \in Seq(Member)
    OBVIOUS
  <2> QED BY <2>1 DEF Contents
<1>8. PICK none \in Class : none = "default"
  BY DEF Class
<1>9. /\ states' = [states EXCEPT ![k] = [states[t] EXCEPT !.generation = zeros],
                                  ![t] = [@ EXCEPT !.lists = empty, !.class = none]]
  BY <1>3, <1>6, <1>7, <1>8 DEF Call, Lent, Emptied
<1>10. states'[k] = [lists |-> lists, generation |-> zeros, class |-> c]
  <2>1. states'[k] = [states[t] EXCEPT !.generation = zeros]
    BY <1>4, <1>9 DEF Shapes
  <2> QED BY <1>5, <2>1
<1>11. states'[t] = [lists |-> empty, generation |-> gens, class |-> none]
  <2>1. states'[t] = [states[t] EXCEPT !.lists = empty, !.class = none]
    BY <1>4, <1>9 DEF Shapes
  <2> QED BY <1>5, <2>1
<1>12. /\ states' = [m \in Models |-> states'[m]]
       /\ \A m \in Models : m # k /\ m # t => states'[m] = states[m]
  BY <1>9 DEF Shapes
<1>13. /\ states'[k] \in State /\ states'[k].lists = lists /\ states'[k].class = c
  BY <1>10, StateRecord
<1>14. /\ states'[t] \in State /\ states'[t].class = "default" /\ states'[t].generation = gens
  BY <1>8, <1>11, StateRecord
<1> QED BY <1>1, <1>2, <1>3, <1>4, <1>5, <1>12, <1>13, <1>14 DEF CallStep

\* The contents come back, and what the callback did to its lists with them.
ReturnStep(k, raises) ==
    /\ applies # <<>> /\ k = Top.callback /\ k \in Models
    /\ TopCalls(NoModel, Top.raised \/ raises)
    /\ k # Top.model /\ states'[k] = Gone
    /\ states' = [m \in Models |-> states'[m]]
    /\ \A m \in Models : m # k /\ m # Top.model => states'[m] = states[m]
    /\ states'[Top.model] \in State
    /\ states'[Top.model].lists = states[k].lists
    /\ states'[Top.model].class = states[k].class
    /\ states'[Top.model].generation = states[Top.model].generation
    /\ slot' \in [Pipelines -> BOOLEAN]
    /\ slot'[Top.pipeline] <=> slot[Top.pipeline] \/ raises
    /\ \A p \in Pipelines : p # Top.pipeline => slot'[p] = slot[p]
    /\ bypassed' \in [Models -> [Lists -> BOOLEAN]]
    /\ \A m \in Models : m # k /\ m # Top.model => bypassed'[m] = bypassed[m]
    /\ \A l \in Lists :
          bypassed'[Top.model][l] <=>
            bypassed[Top.model][l] \/ bypassed[k][l] \/ states[k].generation[l] > 0
    /\ UNCHANGED <<handles, unwound>>

LEMMA CallbackFacts ==
    ASSUME Shapes, Typed, Loans, applies # <<>>, Top.callback # NoModel
    PROVE  /\ Top.callback \in Models /\ Top.model \in Models /\ Top.callback # Top.model
           /\ states[Top.callback] \in State /\ states[Top.model] \in State
           /\ Live(Top.callback) /\ Live(Top.model)
           /\ ~LentOut(Top.callback) /\ LentOut(Top.model)
<1>1. /\ Len(applies) \in DOMAIN applies /\ Len(applies) \in Nat /\ DOMAIN applies = 1..Len(applies)
      /\ Top = applies[Len(applies)] /\ Top.model \in Models /\ Top.callback \in Models
  BY TopFacts
<1>2. Live(Top.callback) /\ Live(Top.model)
  BY <1>1 DEF Loans
<1>3. \A j \in DOMAIN applies : applies[j].model # Top.callback
  <2> SUFFICES ASSUME NEW j \in DOMAIN applies, applies[j].model = Top.callback PROVE FALSE
    OBVIOUS
  <2>1. Len(applies) < j
    BY <1>1 DEF Loans
  <2> QED BY <1>1, <2>1
<1> QED BY <1>1, <1>2, <1>3 DEF Typed, LentOut

LEMMA ReturnFacts ==
    ASSUME Shapes, Typed, Loans, NEW raises \in BOOLEAN, Return(raises)
    PROVE  ReturnStep(Top.callback, raises)
<1>1. applies # <<>> /\ Top.callback # NoModel /\ UNCHANGED <<handles, unwound>>
  BY DEF Return
<1>2. PICK k \in Models : k = Top.callback
  BY <1>1, CallbackFacts
<1>3. PICK t \in Models : t = Top.model
  BY <1>1, CallbackFacts
<1>4. k # t /\ states[k] \in State /\ states[t] \in State
  BY <1>1, <1>2, <1>3, CallbackFacts
<1>5. PICK lists \in Contents, c \in Class : lists = states[k].lists /\ c = states[k].class
  BY <1>4, StateFacts
<1>6. PICK gens \in [Lists -> Nat] :
         /\ gens = states[t].generation
         /\ states[t] = [lists |-> states[t].lists, generation |-> gens, class |-> states[t].class]
  BY <1>4, StateFacts
<1>7. /\ states' = [states EXCEPT ![k] = Gone, ![t] = [@ EXCEPT !.lists = lists, !.class = c]]
      /\ slot' = [slot EXCEPT ![Top.pipeline] = @ \/ raises]
      /\ bypassed' = Bypassing(k)
  BY <1>2, <1>3, <1>5 DEF Return, TakeBack, Returned
<1>8. states'[t] = [lists |-> lists, generation |-> gens, class |-> c]
  <2>1. states'[t] = [states[t] EXCEPT !.lists = lists, !.class = c]
    BY <1>4, <1>7 DEF Shapes
  <2> QED BY <1>6, <2>1
<1>9. /\ states' = [m \in Models |-> states'[m]] /\ states'[k] = Gone
      /\ \A m \in Models : m # k /\ m # t => states'[m] = states[m]
  BY <1>4, <1>7 DEF Shapes
<1>10. /\ states'[t] \in State /\ states'[t].lists = lists /\ states'[t].class = c
       /\ states'[t].generation = gens
  BY <1>8, StateRecord
<1>11. /\ slot' \in [Pipelines -> BOOLEAN]
       /\ slot'[Top.pipeline] <=> slot[Top.pipeline] \/ raises
       /\ \A p \in Pipelines : p # Top.pipeline => slot'[p] = slot[p]
  <2>1. Top.pipeline \in Pipelines
    BY <1>1, TopFacts
  <2>2. PICK b \in BOOLEAN : b = (slot[Top.pipeline] \/ raises)
    BY <2>1 DEF Shapes
  <2>3. slot' = [slot EXCEPT ![Top.pipeline] = b]
    BY <1>7, <2>2
  <2> QED BY <2>1, <2>2, <2>3 DEF Shapes
<1>12. /\ bypassed' \in [Models -> [Lists -> BOOLEAN]]
       /\ \A m \in Models : m # k /\ m # t => bypassed'[m] = bypassed[m]
       /\ \A l \in Lists :
             bypassed'[t][l] <=> bypassed[t][l] \/ bypassed[k][l] \/ states[k].generation[l] > 0
  <2> DEFINE none == [l \in Lists |-> FALSE]
             all == [l \in Lists |-> bypassed[t][l] \/ bypassed[k][l] \/ states[k].generation[l] > 0]
  <2>1. none \in [Lists -> BOOLEAN] /\ all \in [Lists -> BOOLEAN]
        /\ \A l \in Lists : all[l] <=> bypassed[t][l] \/ bypassed[k][l] \/ states[k].generation[l] > 0
    OBVIOUS
  <2>2. bypassed' = [bypassed EXCEPT ![k] = none, ![t] = all]
    BY <1>3, <1>4, <1>7 DEF Bypassing, Shapes
  <2> HIDE DEF none, all
  <2> QED BY <1>4, <2>1, <2>2 DEF Shapes
<1>13. TopCalls(NoModel, Top.raised \/ raises)
  BY ReturnCalls
<1> QED BY <1>1, <1>2, <1>3, <1>4, <1>5, <1>6, <1>9, <1>10, <1>11, <1>12, <1>13 DEF ReturnStep

\* A panic ends the innermost apply where it is.
UnwindStep(k) ==
    /\ applies # <<>> /\ k = Top.callback /\ k \in Models /\ Ends
    /\ unwound' = unwound \cup {[pipeline |-> Top.pipeline, callback |-> k]}
    /\ bypassed' \in [Models -> [Lists -> BOOLEAN]]
    /\ \A m \in Models : m # Top.model => bypassed'[m] = bypassed[m]
    /\ \A l \in Lists : bypassed'[Top.model][l]
    /\ UNCHANGED <<states, handles, slot>>

LEMMA UnwindFacts ==
    ASSUME Shapes, Typed, Loans, Unwind
    PROVE  UnwindStep(Top.callback)
<1>1. /\ applies # <<>> /\ Top.callback # NoModel /\ Ends
      /\ unwound' = unwound \cup {[pipeline |-> Top.pipeline, callback |-> Top.callback]}
      /\ UNCHANGED <<states, handles, slot>>
  BY EndCalls DEF Unwind
<1>2. Top.callback \in Models /\ Top.model \in Models
  BY <1>1, CallbackFacts
<1>3. PICK all \in [Lists -> BOOLEAN] : all = [l \in Lists |-> TRUE]
  OBVIOUS
<1>4. bypassed' = [bypassed EXCEPT ![Top.model] = all]
  BY <1>3 DEF Unwind
<1> QED BY <1>1, <1>2, <1>3, <1>4 DEF UnwindStep, Shapes

FinishStep ==
    /\ applies # <<>> /\ Top.callback = NoModel /\ Ends
    /\ returned' = IF slot[Top.pipeline] THEN "error" ELSE "ok"
    /\ slot' \in [Pipelines -> BOOLEAN] /\ ~slot'[Top.pipeline]
    /\ \A p \in Pipelines : p # Top.pipeline => slot'[p] = slot[p]
    /\ UNCHANGED <<states, handles, bypassed, unwound>>

LEMMA FinishFacts ==
    ASSUME Shapes, Finish
    PROVE  FinishStep
<1>1. /\ applies # <<>> /\ Top.callback = NoModel /\ Ends /\ Top.pipeline \in Pipelines
      /\ slot' = [slot EXCEPT ![Top.pipeline] = FALSE]
      /\ returned' = IF slot[Top.pipeline] THEN "error" ELSE "ok"
      /\ UNCHANGED <<states, handles, bypassed, unwound>>
  BY TopFacts, EndCalls DEF Finish
<1> QED BY <1>1 DEF FinishStep, Shapes

\* The steps of the program, by what they do.
LEMMA Steps ==
    ASSUME Shapes, Typed, Loans, Next
    PROVE  \/ HandleStep
           \/ EditStep
           \/ \E m \in Models, p \in Pipelines : Apply(m, p)
           \/ \E k \in Models : CallStep(k)
           \/ \E k \in Models, raises \in BOOLEAN : ReturnStep(k, raises)
           \/ \E k \in Models : UnwindStep(k) /\ returned' = "panic"
           \/ FinishStep
<1>1. CASE Python
  BY <1>1, PythonSteps
<1>2. CASE \E l \in Lists, name \in Names : Remove(l, name)
  BY <1>2, RemoveEdits
<1>3. CASE \E l \in Lists, from, to \in Names : Rename(l, from, to)
  BY <1>3, RenameEdits
<1>4. CASE \E k \in Models : Call(k)
  BY <1>4, CallFacts
<1>5. ASSUME NEW raises \in BOOLEAN, Return(raises)
      PROVE  \E k \in Models : ReturnStep(k, raises)
  <2>1. ReturnStep(Top.callback, raises)
    BY <1>5, ReturnFacts
  <2> QED BY <2>1 DEF ReturnStep
<1>6. ASSUME Unwind PROVE \E k \in Models : UnwindStep(k) /\ returned' = "panic"
  <2>1. UnwindStep(Top.callback) /\ returned' = "panic"
    BY <1>6, UnwindFacts DEF Unwind
  <2> QED BY <2>1 DEF UnwindStep
<1>7. CASE Finish
  BY <1>7, FinishFacts
<1> QED BY <1>1, <1>2, <1>3, <1>4, <1>5, <1>6, <1>7 DEF Next, Engine

-----------------------------------------------------------------------------
(* Types. *)

LEMMA InitIInv == Init => IInv
<1> SUFFICES ASSUME Init PROVE IInv
  OBVIOUS
<1>1. PICK zeros \in [Lists -> Nat], start \in Contents :
         states = [m \in Models |-> IF m = Outer
                                    THEN [lists |-> start, generation |-> zeros, class |-> "read"]
                                    ELSE Unused]
  <2> DEFINE list(l) == Named(Outer, l, 0, StartNames[l])
  <2>1. ASSUME NEW l \in Lists PROVE list(l) \in Seq(Member)
    <3>0. PICK n \in Nat : StartNames[l] \in [1..n -> Names]
      BY MemberBound
    <3>1. PICK names \in [1..n -> Names], none \in Nat : names = StartNames[l] /\ none = 0
      BY <3>0
    <3>2. Named(Outer, l, none, names) \in Seq(Member)
      BY OuterModel, NamedIsList
    <3> QED BY <3>1, <3>2
  <2> HIDE DEF list
  <2>2. [l \in Lists |-> list(l)] \in Contents
    BY <2>1 DEF Contents
  <2>3. [l \in Lists |-> 0] \in [Lists -> Nat]
    OBVIOUS
  <2> QED BY <2>2, <2>3 DEF Init, list
<1>2. PICK read \in Class : read = "read"
  BY DEF Class
<1>3. states[Outer] \in State /\ states[Outer].class = "read" /\ Live(Outer)
  <2>1. PICK s : s = [lists |-> start, generation |-> zeros, class |-> read]
    OBVIOUS
  <2>2. s \in State /\ s.class = read
    BY <2>1, StateRecord
  <2> QED BY <1>1, <1>2, <2>1, <2>2, OuterModel, StateFacts DEF Live
<1>4. \A m \in Models : Live(m) => m = Outer
  BY <1>1 DEF Live
<1>5. applies = <<>> /\ unwound = {} /\ slot = [p \in Pipelines |-> FALSE]
      /\ handles = [h \in Handles |-> NoHandle]
      /\ bypassed = [m \in Models |-> [l \in Lists |-> FALSE]]
  BY DEF Init
<1>6. Shapes /\ Typed
  BY <1>1, <1>3, <1>4, <1>5 DEF Shapes, Typed, HandleOK
<1>7. Loans /\ OnlyKnownLive /\ SlotsOwned
  BY <1>3, <1>4, <1>5 DEF Loans, OnlyKnownLive, Known, SlotsOwned
<1>8. Holdings
  BY <1>3, <1>4, <1>5, OuterModel DEF Holdings, HasTheClass, LentOut
<1> QED BY <1>6, <1>7, <1>8 DEF IInv

LEMMA HandleTypes ==
    ASSUME Shapes, Typed, HandleStep
    PROVE  Shapes' /\ Typed'
<1>1. PICK h \in Handles :
         \E r : /\ handles' = [handles EXCEPT ![h] = r]
                /\ UNCHANGED <<states, applies, slot, bypassed, unwound>>
                /\ r.list \in Lists
                /\ \/ r.kind = "owned" /\ r.name \in Names
                      /\ r = [kind |-> "owned", list |-> r.list, name |-> r.name]
                   \/ r.kind \in {"view", "ref"} /\ r.model \in Models /\ r.generation \in Nat
  BY DEF HandleStep
<1>0. PICK r : /\ handles' = [handles EXCEPT ![h] = r]
               /\ UNCHANGED <<states, applies, slot, bypassed, unwound>>
               /\ r.list \in Lists
               /\ \/ r.kind = "owned" /\ r.name \in Names
                     /\ r = [kind |-> "owned", list |-> r.list, name |-> r.name]
                  \/ r.kind \in {"view", "ref"} /\ r.model \in Models /\ r.generation \in Nat
  BY <1>1
<1>2. handles'[h] = r /\ (\A g \in Handles \ {h} : handles'[g] = handles[g])
      /\ handles' = [g \in Handles |-> handles'[g]]
  BY <1>0 DEF Shapes
<1>3. \A g \in Handles : HandleOK(g)'
  BY <1>0, <1>2 DEF Typed, HandleOK
<1> QED BY <1>0, <1>2, <1>3 DEF Shapes, Typed, Live

LEMMA EditTypes ==
    ASSUME Shapes, Typed, EditStep
    PROVE  /\ Shapes' /\ Typed' /\ SameCalls /\ UNCHANGED <<handles, slot, unwound>>
           /\ \A m \in Models : /\ LiveNext(m) <=> Live(m)
                                /\ Live(m) => states'[m].class = states[m].class
<1>1. PICK x \in Models, l \in Lists, list \in Seq(Member), g \in Nat, b \in BOOLEAN :
         /\ Live(x) /\ EditOf(x, l, list, g) /\ Bypass(x, l, b)
         /\ SameCalls /\ UNCHANGED <<handles, slot, unwound>>
  BY DEF EditStep
<1>2. /\ states' = [m \in Models |-> states'[m]]
      /\ \A m \in Models \ {x} : states'[m] = states[m]
      /\ states'[x] \in State /\ states'[x].class = states[x].class
  BY <1>1 DEF EditOf
<1>3. \A m \in Models : /\ LiveNext(m) <=> Live(m)
                        /\ Live(m) => states'[m].class = states[m].class /\ states'[m] \in State
  BY <1>1, <1>2, StateFacts DEF Live, LiveNext, Typed
<1>4. Shapes'
  BY <1>1, <1>2 DEF Shapes, SameCalls, Bypass
<1>5. Typed'
  BY <1>1, <1>3 DEF Typed, HandleOK, Live, LiveNext
<1> QED BY <1>1, <1>3, <1>4, <1>5

\* The steps that leave handles alone and move contents between live models.
LEMMA MoveTypes ==
    ASSUME Shapes, Typed, applies' \in Seq(Frame), handles' = handles,
           slot' \in [Pipelines -> BOOLEAN], bypassed' \in [Models -> [Lists -> BOOLEAN]],
           unwound' \subseteq Panic, states' = [m \in Models |-> states'[m]],
           \A m \in Models : LiveNext(m) => states'[m] \in State
    PROVE  Shapes' /\ Typed'
<1>1. Shapes'
  BY DEF Shapes
<1>2. Typed'
  BY DEF Typed, HandleOK, Live, LiveNext
<1> QED BY <1>1, <1>2

-----------------------------------------------------------------------------
(* Models that are lent. *)

LEMMA SameLoans ==
    ASSUME IInv, SameCalls, unwound' = unwound,
           \A m \in Models : /\ LiveNext(m) <=> Live(m)
                             /\ Live(m) => states'[m].class = states[m].class
    PROVE  /\ Loans' /\ OnlyKnownLive' /\ Holdings'
           /\ \A m \in Models : LentOut(m)' <=> LentOut(m)
<1>1. /\ DOMAIN applies' = DOMAIN applies /\ Len(applies') = Len(applies)
      /\ \A i \in DOMAIN applies :
            /\ applies'[i].model = applies[i].model /\ applies'[i].callback = applies[i].callback
            /\ applies[i].model \in Models
            /\ applies[i].callback # NoModel => applies[i].callback \in Models
  BY Positions DEF SameCalls, SameFrame, IInv
<1>2. \A m \in Models : Live(m)' <=> Live(m)
  BY DEF Live, LiveNext
<1>3. Loans'
  BY <1>1, OuterModel DEF IInv, Loans, Live, LiveNext
<1>4. OnlyKnownLive'
  BY <1>1, <1>2 DEF IInv, OnlyKnownLive, Known
<1>5. \A m \in Models : LentOut(m)' <=> LentOut(m)
  BY <1>1 DEF LentOut
<1>6. \A m \in Models : HasTheClass(m)' <=> HasTheClass(m)
  BY <1>2 DEF HasTheClass
<1>7. Holdings'
  <2>1. \A m \in Models : LentOut(m)' => ~HasTheClass(m)'
    BY <1>5, <1>6 DEF IInv, Holdings
  <2>2. \E m \in Models : HasTheClass(m)' /\ \A n \in Models : HasTheClass(n)' => n = m
    BY <1>6 DEF IInv, Holdings
  <2>3. unwound' = {} => \A m \in Models : Live(m)' /\ ~HasTheClass(m)' => LentOut(m)'
    BY <1>2, <1>5, <1>6 DEF IInv, Holdings
  <2> QED BY <2>1, <2>2, <2>3 DEF Holdings
<1> QED BY <1>3, <1>4, <1>5, <1>7

LEMMA BeginLoans ==
    ASSUME IInv, NEW m \in Models, NEW p \in Pipelines, Begins(m, p), Usable(m), PythonRuns,
           UNCHANGED <<states, unwound>>
    PROVE  /\ Loans' /\ OnlyKnownLive' /\ Holdings'
           /\ \A x \in Models : LentOut(x)' <=> LentOut(x)
<1>1. PICK n \in Nat : n = Len(applies) /\ DOMAIN applies = 1..n
  BY Positions DEF IInv
<1>2. /\ DOMAIN applies' = 1..(n + 1) /\ Len(applies') = n + 1
      /\ \A i \in 1..n : /\ applies'[i].model = applies[i].model
                         /\ applies'[i].callback = applies[i].callback
      /\ applies'[n + 1].model = m /\ applies'[n + 1].callback = NoModel
  BY <1>1 DEF Begins
<1>3. Live(m) /\ \A i \in 1..n : applies[i].model # m
  BY <1>1 DEF Usable, Borrowed
<1>4. \A i \in 1..(n + 1) : i \in 1..n \/ i = n + 1
  BY <1>1
<1>5. \A x : Live(x)' <=> Live(x)
  BY DEF Live
<1>6. /\ Live(Outer)
      /\ \A i \in 1..n :
          /\ Live(applies[i].model)
          /\ i < n => applies[i].callback # NoModel
          /\ \A j \in 1..n : applies[j].model = applies[i].model => i = j
      /\ \A i \in 1..n : applies[i].callback # NoModel =>
          /\ Live(applies[i].callback) /\ applies[i].callback # Outer
          /\ \A j \in 1..n :
                /\ applies[j].callback = applies[i].callback => i = j
                /\ applies[j].model = applies[i].callback => i < j
  BY <1>1 DEF IInv, Loans
<1>7. \A i \in 1..n : applies[i].callback # NoModel
  <2> SUFFICES ASSUME NEW i \in 1..n PROVE applies[i].callback # NoModel
    OBVIOUS
  <2>1. CASE i = n
    BY <1>1, <2>1 DEF PythonRuns, Top
  <2>2. CASE i # n
    BY <1>6, <2>2
  <2> QED BY <2>1, <2>2
<1>8. Loans'
  <2>1. ASSUME NEW i \in 1..(n + 1)
        PROVE  /\ states'[applies'[i].model] \notin {Unused, Gone}
               /\ i < n + 1 => applies'[i].callback # NoModel
               /\ \A j \in 1..(n + 1) : applies'[j].model = applies'[i].model => i = j
    <3>1. CASE i \in 1..n
      BY <1>2, <1>3, <1>4, <1>6, <1>7, <3>1 DEF Live
    <3>2. CASE i = n + 1
      BY <1>2, <1>3, <1>4, <3>2 DEF Live
    <3> QED BY <1>4, <3>1, <3>2
  <2>2. ASSUME NEW i \in 1..(n + 1), applies'[i].callback # NoModel
        PROVE  /\ states'[applies'[i].callback] \notin {Unused, Gone} /\ applies'[i].callback # Outer
               /\ \A j \in 1..(n + 1) :
                     /\ applies'[j].callback = applies'[i].callback => i = j
                     /\ applies'[j].model = applies'[i].callback => i < j
    <3>1. i \in 1..n /\ i < n + 1
      BY <1>2, <1>4, <2>2
    <3> QED BY <1>2, <1>4, <1>6, <2>2, <3>1 DEF Live
  <2> QED BY <1>2, <1>6, <2>1, <2>2 DEF Loans, Live
<1>9. \A x \in Models : LentOut(x)' <=> LentOut(x)
  BY <1>1, <1>2, <1>4 DEF LentOut
<1>10. OnlyKnownLive'
  <2>1. \A x \in Models : Known(x) => Known(x)'
    BY <1>1, <1>2, <1>4 DEF Known
  <2> QED BY <1>5, <2>1 DEF IInv, OnlyKnownLive
<1>11. Holdings'
  BY <1>9 DEF IInv, Holdings, HasTheClass, Live
<1> QED BY <1>8, <1>9, <1>10, <1>11

LEMMA CallLoans ==
    ASSUME IInv, NEW k \in Models, CallStep(k)
    PROVE  /\ Loans' /\ OnlyKnownLive' /\ Holdings'
           /\ \A m \in Models : LentOut(m)' <=> LentOut(m) \/ m = Top.model
           /\ \A m \in Models : LiveNext(m) <=> Live(m) \/ m = k
<1>1. PICK n \in Nat : n = Len(applies) /\ DOMAIN applies = 1..n /\ n \in 1..n /\ Top = applies[n]
  BY TopFacts DEF IInv, CallStep
<1>2. PICK t \in Models : t = Top.model
  BY TopFacts DEF IInv, CallStep
<1>3. /\ DOMAIN applies' = 1..n /\ Len(applies') = n
      /\ \A i \in 1..n : /\ applies'[i].model = applies[i].model
                         /\ applies'[i].callback = IF i = n THEN k ELSE applies[i].callback
  BY <1>1 DEF CallStep, TopCalls, SameFrame
<1>4. /\ applies[n].callback = NoModel /\ applies[n].model = t /\ ~Live(k) /\ k # t
      /\ \A m \in Models : m # k /\ m # t => states'[m] = states[m]
      /\ LiveNext(k) /\ LiveNext(t)
      /\ states'[k].class = states[t].class /\ states'[t].class = "default"
      /\ unwound' = unwound
  BY <1>1, <1>2, StateFacts DEF CallStep, Live, LiveNext
<1>5. /\ Live(Outer)
      /\ \A i \in 1..n :
          /\ Live(applies[i].model) /\ applies[i].model \in Models
          /\ i < n => applies[i].callback # NoModel
          /\ \A j \in 1..n : applies[j].model = applies[i].model => i = j
      /\ \A i \in 1..n : applies[i].callback # NoModel =>
          /\ Live(applies[i].callback) /\ applies[i].callback # Outer /\ applies[i].callback \in Models
          /\ \A j \in 1..n :
                /\ applies[j].callback = applies[i].callback => i = j
                /\ applies[j].model = applies[i].callback => i < j
      /\ NoModel \notin Models
  BY <1>1, Positions DEF IInv, Loans
<1>6. \A m \in Models : LiveNext(m) <=> Live(m) \/ m = k
  <2>1. Live(t)
    BY <1>1, <1>4, <1>5
  <2> QED BY <1>4, <2>1 DEF Live, LiveNext
<1>7. Loans'
  <2>1. ASSUME NEW i \in 1..n
        PROVE  /\ LiveNext(applies'[i].model)
               /\ i < n => applies'[i].callback # NoModel
               /\ \A j \in 1..n : applies'[j].model = applies'[i].model => i = j
    BY <1>3, <1>5, <1>6
  <2>2. ASSUME NEW i \in 1..n, applies'[i].callback # NoModel
        PROVE  /\ LiveNext(applies'[i].callback) /\ applies'[i].callback # Outer
               /\ \A j \in 1..n :
                     /\ applies'[j].callback = applies'[i].callback => i = j
                     /\ applies'[j].model = applies'[i].callback => i < j
    <3>1. \A j \in 1..n : applies[j].callback # k /\ applies[j].model # k
      BY <1>4, <1>5
    <3>2. CASE i = n
      BY <1>3, <1>4, <1>5, <3>1, <3>2
    <3>3. CASE i # n
      <4>1. applies'[i].callback = applies[i].callback /\ applies[i].callback # NoModel
        BY <1>3, <2>2, <3>3
      <4>2. LiveNext(applies[i].callback) /\ applies[i].callback # Outer /\ applies[i].callback # k
        BY <1>5, <1>6, <3>1, <4>1
      <4> QED BY <1>3, <1>5, <4>1, <4>2
    <3> QED BY <3>2, <3>3
  <2>3. LiveNext(Outer)
    BY <1>5, <1>6, OuterModel
  <2> QED BY <1>3, <2>1, <2>2, <2>3 DEF Loans, Live, LiveNext
<1>8. \A m \in Models : LentOut(m)' <=> LentOut(m) \/ m = t
  <2> SUFFICES ASSUME NEW m \in Models PROVE LentOut(m)' <=> LentOut(m) \/ m = t
    OBVIOUS
  <2>1. CASE m = t
    BY <1>1, <1>3, <1>4, <1>5, <2>1 DEF LentOut
  <2>2. CASE m # t
    BY <1>1, <1>3, <1>4, <1>5, <2>2 DEF LentOut
  <2> QED BY <2>1, <2>2
<1>9. OnlyKnownLive'
  <2> SUFFICES ASSUME NEW m \in Models, LiveNext(m) PROVE Known(m)'
    BY DEF OnlyKnownLive, Live, LiveNext
  <2>1. CASE m = k
    BY <1>1, <1>3, <2>1 DEF Known
  <2>2. CASE Live(m)
    <3>1. Known(m)
      BY <2>2 DEF IInv, OnlyKnownLive
    <3> QED BY <1>1, <1>3, <1>4, <1>5, <3>1 DEF Known
  <2> QED BY <1>6, <2>1, <2>2
<1>10. Holdings'
  <2>1. /\ \A m \in Models : LentOut(m) => ~HasTheClass(m)
        /\ \A m \in Models : m # k /\ m # t => (HasTheClass(m)' <=> HasTheClass(m))
        /\ HasTheClass(k)' <=> HasTheClass(t)
        /\ ~HasTheClass(t)' /\ ~HasTheClass(k) /\ ~LentOut(k) /\ ~LentOut(t)
    <3>1. Live(t)
      BY <1>1, <1>4, <1>5
    <3>2. ~LentOut(k) /\ ~LentOut(t)
      BY <1>1, <1>4, <1>5 DEF LentOut
    <3> QED BY <1>4, <3>1, <3>2 DEF IInv, Holdings, HasTheClass, Live, LiveNext
  <2>2. \A m \in Models : LentOut(m)' => ~HasTheClass(m)'
    BY <1>8, <2>1
  <2>3. \E m \in Models : HasTheClass(m)' /\ \A x \in Models : HasTheClass(x)' => x = m
    <3>1. PICK m \in Models : HasTheClass(m) /\ \A x \in Models : HasTheClass(x) => x = m
      BY DEF IInv, Holdings
    <3>2. CASE m = t
      BY <1>4, <2>1, <3>1, <3>2
    <3>3. CASE m # t
      <4>1. m # k
        BY <2>1, <3>1
      <4> QED BY <2>1, <3>1, <3>3, <4>1
    <3> QED BY <3>2, <3>3
  <2>4. ASSUME unwound' = {}, NEW m \in Models, LiveNext(m), ~HasTheClass(m)'
        PROVE  LentOut(m)'
    <3>1. \A x \in Models : Live(x) /\ ~HasTheClass(x) => LentOut(x)
      BY <1>4, <2>4 DEF IInv, Holdings
    <3>2. Live(t)
      BY <1>1, <1>4, <1>5
    <3>3. m # k
      BY <2>1, <2>4, <3>1, <3>2
    <3> QED BY <1>6, <1>8, <2>1, <2>4, <3>1, <3>3
  <2> QED BY <2>2, <2>3, <2>4 DEF Holdings, Live, LiveNext
<1> QED BY <1>2, <1>6, <1>7, <1>8, <1>9, <1>10

LEMMA ReturnLoans ==
    ASSUME IInv, NEW k \in Models, NEW raises \in BOOLEAN, ReturnStep(k, raises)
    PROVE  /\ Loans' /\ OnlyKnownLive' /\ Holdings'
           /\ \A m \in Models : LentOut(m)' <=> LentOut(m) /\ m # Top.model
           /\ \A m \in Models : LiveNext(m) <=> Live(m) /\ m # k
<1>1. PICK n \in Nat : n = Len(applies) /\ DOMAIN applies = 1..n /\ n \in 1..n /\ Top = applies[n]
  BY TopFacts DEF IInv, ReturnStep
<1>2. PICK t \in Models : t = Top.model
  BY TopFacts DEF IInv, ReturnStep
<1>3. /\ DOMAIN applies' = 1..n /\ Len(applies') = n
      /\ \A i \in 1..n : /\ applies'[i].model = applies[i].model
                         /\ applies'[i].callback = IF i = n THEN NoModel ELSE applies[i].callback
  BY <1>1 DEF ReturnStep, TopCalls, SameFrame
<1>4. /\ applies[n].callback = k /\ applies[n].model = t /\ k # t /\ ~LiveNext(k) /\ LiveNext(t)
      /\ \A m \in Models : m # k /\ m # t => states'[m] = states[m]
      /\ states'[t].class = states[k].class
      /\ unwound' = unwound
  BY <1>1, <1>2, StateFacts DEF ReturnStep, LiveNext
<1>5. /\ Live(Outer)
      /\ \A i \in 1..n :
          /\ Live(applies[i].model) /\ applies[i].model \in Models
          /\ i < n => applies[i].callback # NoModel
          /\ \A j \in 1..n : applies[j].model = applies[i].model => i = j
      /\ \A i \in 1..n : applies[i].callback # NoModel =>
          /\ Live(applies[i].callback) /\ applies[i].callback # Outer /\ applies[i].callback \in Models
          /\ \A j \in 1..n :
                /\ applies[j].callback = applies[i].callback => i = j
                /\ applies[j].model = applies[i].callback => i < j
      /\ NoModel \notin Models
  BY <1>1, Positions DEF IInv, Loans
<1>6. /\ Live(t) /\ Live(k) /\ k # Outer /\ k # NoModel
      /\ \A j \in 1..n : applies[j].model # k /\ (applies[j].callback = k => j = n)
  BY <1>1, <1>4, <1>5
<1>7. \A m \in Models : LiveNext(m) <=> Live(m) /\ m # k
  BY <1>4, <1>6 DEF Live, LiveNext
<1>8. Loans'
  <2>1. ASSUME NEW i \in 1..n
        PROVE  /\ LiveNext(applies'[i].model)
               /\ i < n => applies'[i].callback # NoModel
               /\ \A j \in 1..n : applies'[j].model = applies'[i].model => i = j
    BY <1>3, <1>5, <1>6, <1>7
  <2>2. ASSUME NEW i \in 1..n, applies'[i].callback # NoModel
        PROVE  /\ LiveNext(applies'[i].callback) /\ applies'[i].callback # Outer
               /\ \A j \in 1..n :
                     /\ applies'[j].callback = applies'[i].callback => i = j
                     /\ applies'[j].model = applies'[i].callback => i < j
    <3>1. i # n /\ applies'[i].callback = applies[i].callback
      BY <1>3, <2>2
    <3>2. applies[i].callback # k /\ applies[i].callback # NoModel /\ applies[i].callback \in Models
      BY <1>5, <1>6, <2>2, <3>1
    <3> QED BY <1>3, <1>5, <1>7, <3>1, <3>2
  <2>3. LiveNext(Outer)
    BY <1>5, <1>6, <1>7, OuterModel
  <2> QED BY <1>3, <2>1, <2>2, <2>3 DEF Loans, Live, LiveNext
<1>9. \A m \in Models : LentOut(m)' <=> LentOut(m) /\ m # t
  <2> SUFFICES ASSUME NEW m \in Models PROVE LentOut(m)' <=> LentOut(m) /\ m # t
    OBVIOUS
  <2>1. CASE m = t
    BY <1>1, <1>3, <1>4, <1>5, <2>1 DEF LentOut
  <2>2. CASE m # t
    BY <1>1, <1>3, <1>4, <1>5, <2>2 DEF LentOut
  <2> QED BY <2>1, <2>2
<1>10. OnlyKnownLive'
  <2> SUFFICES ASSUME NEW m \in Models, LiveNext(m) PROVE Known(m)'
    BY DEF OnlyKnownLive, Live, LiveNext
  <2>1. Known(m) /\ m # k
    BY <1>7 DEF IInv, OnlyKnownLive
  <2>2. CASE \E i \in 1..n : applies[i].callback = m
    <3>1. PICK i \in 1..n : applies[i].callback = m
      BY <2>2
    <3>2. applies'[i].callback = m
      BY <1>3, <1>4, <2>1, <3>1
    <3> QED BY <1>3, <3>2 DEF Known
  <2> QED BY <1>1, <1>4, <2>1, <2>2 DEF Known
<1>11. Holdings'
  <2>1. LentOut(t)
    BY <1>1, <1>4, <1>6 DEF LentOut
  <2>2. /\ \A m \in Models : LentOut(m) => ~HasTheClass(m)
        /\ \A m \in Models : m # k /\ m # t => (HasTheClass(m)' <=> HasTheClass(m))
        /\ HasTheClass(t)' <=> HasTheClass(k)
        /\ ~HasTheClass(t) /\ ~HasTheClass(k)' /\ ~LentOut(k)
    <3>1. ~LentOut(k)
      BY <1>1, <1>6 DEF LentOut
    <3> QED BY <1>4, <1>6, <2>1, <3>1 DEF IInv, Holdings, HasTheClass, Live, LiveNext
  <2>3. \A m \in Models : LentOut(m)' => ~HasTheClass(m)'
    BY <1>9, <2>2
  <2>4. \E m \in Models : HasTheClass(m)' /\ \A x \in Models : HasTheClass(x)' => x = m
    <3>1. PICK m \in Models : HasTheClass(m) /\ \A x \in Models : HasTheClass(x) => x = m
      BY DEF IInv, Holdings
    <3>2. CASE m = k
      BY <1>4, <2>2, <3>1, <3>2
    <3>3. CASE m # k
      <4>1. m # t
        BY <2>2, <3>1
      <4> QED BY <2>2, <3>1, <3>3, <4>1
    <3> QED BY <3>2, <3>3
  <2>5. ASSUME unwound' = {}, NEW m \in Models, LiveNext(m), ~HasTheClass(m)'
        PROVE  LentOut(m)'
    <3>1. \A x \in Models : Live(x) /\ ~HasTheClass(x) => LentOut(x)
      BY <1>4, <2>5 DEF IInv, Holdings
    <3>2. m # t
      BY <1>6, <2>2, <2>5, <3>1
    <3> QED BY <1>7, <1>9, <2>2, <2>5, <3>1, <3>2
  <2> QED BY <2>3, <2>4, <2>5 DEF Holdings, Live, LiveNext
<1> QED BY <1>2, <1>7, <1>8, <1>9, <1>10, <1>11

\* The innermost apply is over, with its callback or without one.
LEMMA EndLoans ==
    ASSUME IInv, applies # <<>>, Ends, states' = states, unwound \subseteq unwound',
           IF Top.callback = NoModel THEN unwound' = unwound
           ELSE \E u \in unwound' : u.callback = Top.callback
    PROVE  /\ Loans' /\ OnlyKnownLive' /\ Holdings'
           /\ \A m \in Models : LentOut(m)' <=> LentOut(m) /\ m # Top.model
<1>1. PICK n \in Nat : n = Len(applies) /\ DOMAIN applies = 1..n /\ n \in 1..n /\ Top = applies[n]
  BY TopFacts DEF IInv
<1>2. /\ DOMAIN applies' = 1..(n - 1) /\ Len(applies') = n - 1
      /\ \A i \in 1..(n - 1) : i \in 1..n /\ i # n /\ applies'[i] = applies[i]
      /\ \A i \in 1..n : i \in 1..(n - 1) \/ i = n
  BY <1>1 DEF Ends
<1>3. \A m : Live(m)' <=> Live(m)
  BY DEF Live
<1>4. \A m : HasTheClass(m)' <=> HasTheClass(m)
  BY DEF HasTheClass, Live
<1>5. Loans'
  <2>1. \A i \in 1..(n - 1) : i < n - 1 => i < n
    OBVIOUS
  <2>2. /\ Live(Outer)
        /\ \A i \in 1..n :
            /\ Live(applies[i].model)
            /\ i < n => applies[i].callback # NoModel
            /\ \A j \in 1..n : applies[j].model = applies[i].model => i = j
        /\ \A i \in 1..n : applies[i].callback # NoModel =>
            /\ Live(applies[i].callback) /\ applies[i].callback # Outer
            /\ \A j \in 1..n :
                  /\ applies[j].callback = applies[i].callback => i = j
                  /\ applies[j].model = applies[i].callback => i < j
    BY <1>1 DEF IInv, Loans
  <2>3. ASSUME NEW i \in 1..(n - 1)
        PROVE  /\ Live(applies'[i].model)
               /\ i < n - 1 => applies'[i].callback # NoModel
               /\ \A j \in 1..(n - 1) : applies'[j].model = applies'[i].model => i = j
    BY <1>2, <2>1, <2>2
  <2>4. ASSUME NEW i \in 1..(n - 1), applies'[i].callback # NoModel
        PROVE  /\ Live(applies'[i].callback) /\ applies'[i].callback # Outer
               /\ \A j \in 1..(n - 1) :
                     /\ applies'[j].callback = applies'[i].callback => i = j
                     /\ applies'[j].model = applies'[i].callback => i < j
    BY <1>2, <2>2, <2>4
  <2> QED BY <1>2, <2>2, <2>3, <2>4 DEF Loans, Live
<1>6. \A m \in Models : LentOut(m)' <=> LentOut(m) /\ m # Top.model
  <2> SUFFICES ASSUME NEW m \in Models PROVE LentOut(m)' <=> LentOut(m) /\ m # Top.model
    OBVIOUS
  <2>1. \A i \in 1..n : applies[i].model = applies[n].model => i = n
    BY <1>1 DEF IInv, Loans
  <2> QED BY <1>1, <1>2, <2>1 DEF LentOut
<1>7. OnlyKnownLive'
  <2> SUFFICES ASSUME NEW m \in Models, Live(m) PROVE Known(m)'
    BY <1>3 DEF OnlyKnownLive
  <2>1. Known(m)
    BY DEF IInv, OnlyKnownLive
  <2>2. CASE \E i \in 1..n : applies[i].callback = m
    <3>1. PICK i \in 1..n : applies[i].callback = m
      BY <2>2
    <3>2. CASE i = n
      <4>1. m # NoModel
        BY OuterModel
      <4> QED BY <1>1, <3>1, <3>2, <4>1 DEF Known
    <3>3. CASE i # n
      BY <1>2, <3>1, <3>3 DEF Known
    <3> QED BY <3>2, <3>3
  <2> QED BY <1>1, <2>1, <2>2 DEF Known
<1>8. Holdings'
  <2>1. \A m \in Models : LentOut(m)' => ~HasTheClass(m)'
    BY <1>4, <1>6 DEF IInv, Holdings
  <2>2. \E m \in Models : HasTheClass(m)' /\ \A x \in Models : HasTheClass(x)' => x = m
    BY <1>4 DEF IInv, Holdings
  <2>3. ASSUME unwound' = {}, NEW m \in Models, Live(m)', ~HasTheClass(m)'
        PROVE  LentOut(m)'
    <3>1. Top.callback = NoModel /\ unwound = {}
      BY <2>3
    <3>2. LentOut(m)
      BY <1>3, <1>4, <2>3, <3>1 DEF IInv, Holdings
    <3>3. ~LentOut(Top.model)
      BY <1>1, <3>1 DEF IInv, Loans, LentOut
    <3> QED BY <1>6, <3>2, <3>3
  <2> QED BY <2>1, <2>2, <2>3 DEF Holdings
<1> QED BY <1>5, <1>6, <1>7, <1>8

-----------------------------------------------------------------------------
(* Slots. *)

LeftNext(p) == \E u \in unwound' : u.pipeline = p

\* Between the ends of callbacks and of applies nothing is put into a slot.
LEMMA SameSlots ==
    ASSUME IInv, slot' = slot, unwound' = unwound,
           SameCalls \/ \E c : TopCalls(c, Top.raised) /\ applies # <<>>
    PROVE  SlotsOwned'
<1>1. /\ DOMAIN applies' = DOMAIN applies
      /\ \A i \in DOMAIN applies :
            /\ SameFrame(applies'[i], applies[i]) /\ applies'[i].raised = applies[i].raised
  BY DEF SameCalls, TopCalls, Top
<1> QED BY <1>1 DEF IInv, SlotsOwned, SameFrame, Left

LEMMA BeginSlots ==
    ASSUME IInv, NEW m \in Models, NEW p \in Pipelines, Begins(m, p), UNCHANGED <<slot, unwound>>
    PROVE  SlotsOwned'
<1>1. PICK n \in Nat : n = Len(applies) /\ DOMAIN applies = 1..n
  BY Positions DEF IInv
<1>2. /\ DOMAIN applies' = 1..(n + 1) /\ n + 1 \in 1..(n + 1)
      /\ \A i \in 1..n : /\ i \in 1..(n + 1) /\ applies'[i].pipeline = applies[i].pipeline
                         /\ applies'[i].raised = applies[i].raised
                         /\ applies'[i].leftover = applies[i].leftover
                         /\ ~applies'[i].reentered => ~applies[i].reentered /\ applies[i].pipeline # p
      /\ applies'[n + 1].pipeline = p /\ applies'[n + 1].raised = FALSE
      /\ applies'[n + 1].leftover = slot[p]
      /\ ~applies'[n + 1].reentered => \A i \in 1..n : applies[i].pipeline # p
      /\ \A i \in 1..(n + 1) : i \in 1..n \/ i = n + 1
  BY <1>1 DEF Begins
<1>3. \A q \in Pipelines : LeftNext(q) <=> Left(q)
  BY DEF Left, LeftNext
<1>4. \A i \in 1..n : applies[i].pipeline \in Pipelines
  BY <1>1, Positions DEF IInv
<1>5. \A q \in Pipelines : slot'[q] => LeftNext(q) \/ \E i \in DOMAIN applies' : applies'[i].pipeline = q
  BY <1>1, <1>2, <1>3 DEF IInv, SlotsOwned
<1>6. ASSUME NEW i \in 1..(n + 1), ~applies'[i].reentered
      PROVE  /\ slot'[applies'[i].pipeline] <=> applies'[i].raised \/ applies'[i].leftover
             /\ applies'[i].leftover => LeftNext(applies'[i].pipeline)
             /\ \A j \in 1..(n + 1) : applies'[j].pipeline = applies'[i].pipeline => i = j
  <2>1. CASE i = n + 1
    <3>1. \A j \in 1..n : applies[j].pipeline # p
      BY <1>2, <1>6, <2>1
    <3>2. slot[p] => Left(p)
      BY <1>1, <3>1 DEF IInv, SlotsOwned
    <3> QED BY <1>2, <1>3, <2>1, <3>1, <3>2
  <2>2. CASE i \in 1..n
    <3>1. ~applies[i].reentered /\ applies[i].pipeline # p
      BY <1>2, <1>6, <2>2
    <3>2. /\ slot[applies[i].pipeline] <=> applies[i].raised \/ applies[i].leftover
          /\ applies[i].leftover => Left(applies[i].pipeline)
          /\ \A j \in 1..n : applies[j].pipeline = applies[i].pipeline => i = j
      BY <1>1, <2>2, <3>1 DEF IInv, SlotsOwned
    <3> QED BY <1>2, <1>3, <1>4, <2>2, <3>1, <3>2
  <2> QED BY <1>2, <2>1, <2>2
<1> QED BY <1>2, <1>5, <1>6 DEF SlotsOwned, Left, LeftNext

LEMMA ReturnSlots ==
    ASSUME IInv, NEW k \in Models, NEW raises \in BOOLEAN, ReturnStep(k, raises)
    PROVE  SlotsOwned'
<1>1. PICK n \in Nat : n = Len(applies) /\ DOMAIN applies = 1..n /\ n \in 1..n /\ Top = applies[n]
  BY TopFacts DEF IInv, ReturnStep
<1>2. PICK p \in Pipelines : p = applies[n].pipeline
  BY <1>1, Positions DEF IInv
<1>3. /\ DOMAIN applies' = 1..n
      /\ \A i \in 1..n : /\ applies'[i].pipeline = applies[i].pipeline
                         /\ applies'[i].reentered = applies[i].reentered
                         /\ applies'[i].leftover = applies[i].leftover
                         /\ i # n => applies'[i].raised = applies[i].raised
      /\ applies'[n].raised <=> applies[n].raised \/ raises
  BY <1>1 DEF ReturnStep, TopCalls, SameFrame
<1>4. /\ slot'[p] <=> slot[p] \/ raises
      /\ \A q \in Pipelines : q # p => slot'[q] = slot[q]
  BY <1>1, <1>2 DEF ReturnStep
<1>5. \A q \in Pipelines : LeftNext(q) <=> Left(q)
  BY DEF Left, LeftNext, ReturnStep
<1>6. \A i \in 1..n : applies[i].pipeline \in Pipelines
  BY <1>1, Positions DEF IInv
<1>7. \A q \in Pipelines : slot'[q] => LeftNext(q) \/ \E i \in DOMAIN applies' : applies'[i].pipeline = q
  BY <1>1, <1>2, <1>3, <1>4, <1>5 DEF IInv, SlotsOwned
<1>8. ASSUME NEW i \in 1..n, ~applies'[i].reentered
      PROVE  /\ slot'[applies'[i].pipeline] <=> applies'[i].raised \/ applies'[i].leftover
             /\ applies'[i].leftover => LeftNext(applies'[i].pipeline)
             /\ \A j \in 1..n : applies'[j].pipeline = applies'[i].pipeline => i = j
  <2>1. /\ slot[applies[i].pipeline] <=> applies[i].raised \/ applies[i].leftover
        /\ applies[i].leftover => Left(applies[i].pipeline)
        /\ \A j \in 1..n : applies[j].pipeline = applies[i].pipeline => i = j
    BY <1>1, <1>3, <1>8 DEF IInv, SlotsOwned
  <2>2. CASE i = n
    BY <1>2, <1>3, <1>4, <1>5, <1>6, <2>1, <2>2
  <2>3. CASE i # n
    BY <1>1, <1>2, <1>3, <1>4, <1>5, <1>6, <2>1, <2>3
  <2> QED BY <2>2, <2>3
<1> QED BY <1>3, <1>7, <1>8 DEF SlotsOwned, Left, LeftNext

LEMMA EndSlots ==
    ASSUME IInv, applies # <<>>, Ends,
           \A q \in Pipelines : q # Top.pipeline => slot'[q] = slot[q],
           \/ ~slot'[Top.pipeline] /\ unwound' = unwound
           \/ slot' = slot /\ unwound' = unwound \cup {[pipeline |-> Top.pipeline, callback |-> Top.callback]}
    PROVE  SlotsOwned'
<1>1. PICK n \in Nat : n = Len(applies) /\ DOMAIN applies = 1..n /\ n \in 1..n /\ Top = applies[n]
  BY TopFacts DEF IInv
<1>2. PICK p \in Pipelines : p = applies[n].pipeline /\ p = Top.pipeline
  BY <1>1, Positions DEF IInv
<1>3. /\ DOMAIN applies' = 1..(n - 1)
      /\ \A i \in 1..(n - 1) : i \in 1..n /\ i # n /\ applies'[i] = applies[i]
      /\ \A i \in 1..n : i \in 1..(n - 1) \/ i = n
  BY <1>1 DEF Ends
<1>4. \A q \in Pipelines : Left(q) => LeftNext(q)
  BY DEF Left, LeftNext
<1>5. slot'[p] => LeftNext(p) /\ slot'[p] = slot[p]
  <2>1. CASE ~slot'[p]
    BY <2>1
  <2>2. CASE slot' = slot /\ unwound' = unwound \cup {[pipeline |-> p, callback |-> Top.callback]}
    <3>1. [pipeline |-> p, callback |-> Top.callback].pipeline = p
      OBVIOUS
    <3>2. [pipeline |-> p, callback |-> Top.callback] \in unwound'
      BY <2>2
    <3> QED BY <2>2, <3>1, <3>2 DEF LeftNext
  <2> QED BY <1>2, <2>1, <2>2
<1>6. \A q \in Pipelines : slot'[q] => LeftNext(q) \/ \E i \in DOMAIN applies' : applies'[i].pipeline = q
  <2> SUFFICES ASSUME NEW q \in Pipelines, slot'[q], q # p
               PROVE  LeftNext(q) \/ \E i \in DOMAIN applies' : applies'[i].pipeline = q
    BY <1>5
  <2>1. slot[q]
    BY <1>2
  <2>2. Left(q) \/ \E i \in 1..n : applies[i].pipeline = q
    BY <1>1, <2>1 DEF IInv, SlotsOwned
  <2> QED BY <1>2, <1>3, <1>4, <2>2
<1>7. ASSUME NEW i \in 1..(n - 1), ~applies'[i].reentered
      PROVE  /\ slot'[applies'[i].pipeline] <=> applies'[i].raised \/ applies'[i].leftover
             /\ applies'[i].leftover => LeftNext(applies'[i].pipeline)
             /\ \A j \in 1..(n - 1) : applies'[j].pipeline = applies'[i].pipeline => i = j
  <2>1. i \in 1..n /\ i # n /\ applies'[i] = applies[i] /\ applies[i].pipeline \in Pipelines
    BY <1>1, <1>3, Positions DEF IInv
  <2>2. /\ slot[applies[i].pipeline] <=> applies[i].raised \/ applies[i].leftover
        /\ applies[i].leftover => Left(applies[i].pipeline)
        /\ \A j \in 1..n : applies[j].pipeline = applies[i].pipeline => i = j
    BY <1>1, <1>7, <2>1 DEF IInv, SlotsOwned
  <2>3. applies[i].pipeline # p
    BY <1>1, <1>2, <2>1, <2>2
  <2> QED BY <1>2, <1>3, <1>4, <2>1, <2>2, <2>3
<1> QED BY <1>3, <1>6, <1>7 DEF SlotsOwned, Left, LeftNext

-----------------------------------------------------------------------------
(* The theorems. *)

LEMMA NextIInv == ASSUME IInv, Next PROVE IInv'
<1>0. Shapes /\ Typed /\ Loans
  BY DEF IInv
<1>1. CASE HandleStep
  <2>1. Shapes' /\ Typed'
    BY <1>0, <1>1, HandleTypes
  <2>2. UNCHANGED <<states, applies, slot, unwound>>
    BY <1>1 DEF HandleStep
  <2>3. Loans' /\ OnlyKnownLive' /\ Holdings' /\ SlotsOwned'
    BY <2>2 DEF IInv, Loans, OnlyKnownLive, Known, Holdings, HasTheClass, LentOut, SlotsOwned, Left, Live
  <2> QED BY <2>1, <2>3 DEF IInv
<1>2. CASE EditStep
  <2>1. /\ Shapes' /\ Typed' /\ SameCalls /\ UNCHANGED <<handles, slot, unwound>>
        /\ \A m \in Models : /\ LiveNext(m) <=> Live(m)
                             /\ Live(m) => states'[m].class = states[m].class
    BY <1>0, <1>2, EditTypes
  <2>2. Loans' /\ OnlyKnownLive' /\ Holdings'
    BY <2>1, SameLoans
  <2> QED BY <2>1, <2>2, SameSlots DEF IInv
<1>3. ASSUME NEW m \in Models, NEW p \in Pipelines, Apply(m, p) PROVE IInv'
  <2>1. Begins(m, p)
    BY <1>0, <1>3, ApplyCalls
  <2>2. UNCHANGED <<states, handles, slot, bypassed, unwound>> /\ Usable(m) /\ PythonRuns
    BY <1>3 DEF Apply
  <2>3. Shapes' /\ Typed'
    BY <1>0, <2>1, <2>2 DEF Begins, Shapes, Typed, HandleOK, Live
  <2>4. Loans' /\ OnlyKnownLive' /\ Holdings'
    BY <2>1, <2>2, BeginLoans
  <2>5. SlotsOwned'
    BY <2>1, <2>2, BeginSlots
  <2> QED BY <2>3, <2>4, <2>5 DEF IInv
<1>4. ASSUME NEW k \in Models, CallStep(k) PROVE IInv'
  <2>1. /\ Loans' /\ OnlyKnownLive' /\ Holdings'
        /\ \A m \in Models : LiveNext(m) <=> Live(m) \/ m = k
    BY <1>4, CallLoans
  <2>2. \A m \in Models : LiveNext(m) => states'[m] \in State
    BY <1>0, <1>4, <2>1 DEF CallStep, Typed
  <2>3. Shapes' /\ Typed'
    BY <1>0, <1>4, <2>2, MoveTypes DEF CallStep, TopCalls, Shapes
  <2>4. SlotsOwned'
    BY <1>4, SameSlots DEF CallStep
  <2> QED BY <2>1, <2>3, <2>4 DEF IInv
<1>5. ASSUME NEW k \in Models, NEW raises \in BOOLEAN, ReturnStep(k, raises) PROVE IInv'
  <2>1. /\ Loans' /\ OnlyKnownLive' /\ Holdings'
        /\ \A m \in Models : LiveNext(m) <=> Live(m) /\ m # k
    BY <1>5, ReturnLoans
  <2>2. \A m \in Models : LiveNext(m) => states'[m] \in State
    BY <1>0, <1>5, <2>1 DEF ReturnStep, Typed
  <2>3. Shapes' /\ Typed'
    BY <1>0, <1>5, <2>2, MoveTypes DEF ReturnStep, TopCalls, Shapes
  <2>4. SlotsOwned'
    BY <1>5, ReturnSlots
  <2> QED BY <2>1, <2>3, <2>4 DEF IInv
<1>6. ASSUME NEW k \in Models, UnwindStep(k) PROVE IInv'
  <2>1. /\ applies # <<>> /\ Ends /\ states' = states /\ k = Top.callback /\ Top.pipeline \in Pipelines
        /\ unwound' = unwound \cup {[pipeline |-> Top.pipeline, callback |-> k]}
    BY <1>0, <1>6, TopFacts DEF UnwindStep
  <2>2. PICK u : u = [pipeline |-> Top.pipeline, callback |-> k]
    OBVIOUS
  <2>3. u \in unwound' /\ u \in Panic /\ u.callback = Top.callback /\ Top.callback # NoModel
    BY <2>1, <2>2, OuterModel DEF Panic
  <2>4. Loans' /\ OnlyKnownLive' /\ Holdings'
    BY <2>1, <2>3, EndLoans
  <2>5. unwound' \subseteq Panic
    BY <1>0, <2>1, <2>2, <2>3 DEF Shapes
  <2>6. Shapes' /\ Typed'
    BY <1>0, <1>6, <2>5 DEF UnwindStep, Ends, Shapes, Typed, HandleOK, Live
  <2>7. SlotsOwned'
    BY <1>6, <2>1, EndSlots DEF UnwindStep
  <2> QED BY <2>4, <2>6, <2>7 DEF IInv
<1>7. CASE FinishStep
  <2>1. /\ applies # <<>> /\ Ends /\ states' = states /\ unwound' = unwound /\ Top.callback = NoModel
    BY <1>7 DEF FinishStep
  <2>2. Loans' /\ OnlyKnownLive' /\ Holdings'
    BY <2>1, EndLoans
  <2>3. Shapes' /\ Typed'
    BY <1>0, <1>7 DEF FinishStep, Ends, Shapes, Typed, HandleOK, Live
  <2>4. SlotsOwned'
    BY <1>7, <2>1, EndSlots DEF FinishStep
  <2> QED BY <2>2, <2>3, <2>4 DEF IInv
<1> QED BY <1>0, <1>1, <1>2, <1>3, <1>4, <1>5, <1>6, <1>7, Steps

LEMMA StutterIInv == ASSUME IInv, UNCHANGED vars PROVE IInv'
BY DEF vars, IInv, Shapes, Typed, HandleOK, Loans, OnlyKnownLive, Known, Holdings, HasTheClass,
       LentOut, SlotsOwned, Left, Live

\* Everything keeps its type, running applies work on models of their own, whatever
\* is live is known to somebody, the class that was read is in one model, and a slot
\* holds the errors of the apply that runs its pipeline or of one that a panic ended.
THEOREM Invariance == Spec => []IInv
<1>1. Init => IInv
  BY InitIInv
<1>2. IInv /\ [Next]_vars => IInv'
  BY NextIInv, StutterIInv
<1> QED BY <1>1, <1>2, PTL DEF Spec

\* A callback's model answers nothing once the callback is over, unless a panic
\* left it, for every number of handles, models and nested calls (CallbackModelsDie).
THEOREM CallbackModelsAlwaysDie == Spec => []CallbackModelsDie
<1>1. IInv => CallbackModelsDie
  BY DEF IInv, CallbackModelsDie, Answers, Usable, Typed, HandleOK, OnlyKnownLive, Known
<1> QED BY <1>1, Invariance, PTL

\* The class that was read is in one model at all times, and until a panic nobody
\* can use a model that holds the default instead (ContentsInOnePlace).
THEOREM ContentsAlwaysInOnePlace == Spec => []ContentsInOnePlace
<1>1. IInv => ContentsInOnePlace
  <2> SUFFICES ASSUME IInv PROVE ContentsInOnePlace
    OBVIOUS
  <2>1. \A m \in Models : Usable(m) => Live(m) /\ ~LentOut(m)
    BY DEF Usable, Borrowed, LentOut
  <2> QED BY <2>1 DEF IInv, Holdings, ContentsInOnePlace
<1> QED BY <1>1, Invariance, PTL

\* Only the end of an apply makes the applies fewer without a panic.
LEMMA ReturnsFinish ==
    ASSUME IInv, Next, Returns
    PROVE  FinishStep
<1>0. Shapes /\ Typed /\ Loans /\ Len(applies) \in Nat
  BY Positions DEF IInv
<1>1. ~HandleStep
  BY <1>0 DEF HandleStep, Returns
<1>2. ~EditStep
  BY <1>0 DEF EditStep, SameCalls, Returns
<1>3. ~\E m \in Models, p \in Pipelines : Apply(m, p)
  <2> SUFFICES ASSUME NEW m \in Models, NEW p \in Pipelines, Apply(m, p) PROVE FALSE
    OBVIOUS
  <2>1. Len(applies') = Len(applies) + 1
    BY <1>0, ApplyCalls DEF Begins
  <2> QED BY <1>0, <2>1 DEF Returns
<1>4. ~\E k \in Models : CallStep(k)
  BY <1>0 DEF CallStep, TopCalls, Returns
<1>5. ~\E k \in Models, raises \in BOOLEAN : ReturnStep(k, raises)
  BY <1>0 DEF ReturnStep, TopCalls, Returns
<1>6. ~\E k \in Models : UnwindStep(k) /\ returned' = "panic"
  BY DEF Returns
<1> QED BY <1>0, <1>1, <1>2, <1>3, <1>4, <1>5, <1>6, Steps

\* No error of a callback is lost and none turns up in an apply that did not raise
\* it, but for what an apply ended by a panic left in the slot of its pipeline
\* (ErrorsReachTheCaller).
THEOREM ErrorsAlwaysReachTheCaller == Spec => ErrorsReachTheCaller
<1>1. ASSUME IInv, Next, Returns, ~Top.reentered
      PROVE  /\ returned' = "error" <=> Top.raised \/ Top.leftover
             /\ Top.leftover => \E u \in unwound : u.pipeline = Top.pipeline
  <2>1. FinishStep
    BY <1>1, ReturnsFinish
  <2>2. Len(applies) \in DOMAIN applies /\ Top = applies[Len(applies)]
    BY <1>1, <2>1, TopFacts DEF IInv, FinishStep
  <2>3. /\ slot[Top.pipeline] <=> Top.raised \/ Top.leftover
        /\ Top.leftover => Left(Top.pipeline)
    BY <1>1, <2>2 DEF IInv, SlotsOwned
  <2> QED BY <2>1, <2>3 DEF FinishStep, Left
<1>2. ASSUME IInv, UNCHANGED vars, Returns
      PROVE  FALSE
  <2>1. Len(applies) \in Nat /\ applies' = applies
    BY <1>2, Positions DEF IInv, vars
  <2> QED BY <1>2, <2>1 DEF Returns
<1>3. IInv /\ [Next]_vars =>
        [Returns /\ ~Top.reentered =>
            /\ returned' = "error" <=> Top.raised \/ Top.leftover
            /\ Top.leftover => \E u \in unwound : u.pipeline = Top.pipeline]_vars
  BY <1>1, <1>2
<1> QED BY <1>3, Invariance, PTL DEF Spec, ErrorsReachTheCaller

-----------------------------------------------------------------------------
(* Refs. *)

Ref(h) == handles[h] # NoHandle /\ handles[h].kind = "ref"

RefsKnown ==
    \A h \in Handles : Ref(h) =>
        /\ states[handles[h].model] # Unused
        /\ Live(handles[h].model) =>
              handles[h].generation <= states[handles[h].model].generation[handles[h].list]

\* The lists as Python last saw them, those of the models that are lent out included.
Shown(seen) == \A m \in Models : Live(m) /\ ~LentOut(m) => seen[m] = states[m].lists

Follows(seen, h) ==
    /\ handles[h].index \in DOMAIN seen[handles[h].model][handles[h].list]
    /\ seen[handles[h].model][handles[h].list][handles[h].index].id = handles[h].of

Current(h) ==
    /\ Ref(h) /\ Live(handles[h].model)
    /\ handles[h].generation = states[handles[h].model].generation[handles[h].list]
    /\ ~bypassed[handles[h].model][handles[h].list]

Untouched(m, l) == states[m].generation[l] = 0 /\ ~bypassed[m][l]

\* What is lent to a callback keeps its members as long as nothing is assigned there.
Lends(seen) ==
    \A i \in DOMAIN applies : applies[i].callback # NoModel =>
        \A l \in Lists : Untouched(applies[i].callback, l) =>
            SameMembers(seen[applies[i].model][l], seen[applies[i].callback][l])

Sees(seen) ==
    /\ Shown(seen)
    /\ \A h \in Handles : Current(h) => Follows(seen, h)
    /\ Lends(seen)

RInv == IInv /\ RefsKnown /\ \E seen \in [Models -> Contents] : Sees(seen)

LEMMA RefFacts ==
    ASSUME IInv, NEW h \in Handles, Ref(h)
    PROVE  /\ handles[h].model \in Models /\ handles[h].list \in Lists /\ handles[h].generation \in Nat
           /\ Live(handles[h].model) =>
                 states[handles[h].model].generation[handles[h].list] \in Nat
<1>1. handles[h].model \in Models /\ handles[h].list \in Lists /\ handles[h].generation \in Nat
  BY DEF Ref, IInv, Typed, HandleOK
<1>2. ASSUME Live(handles[h].model)
      PROVE  states[handles[h].model].generation[handles[h].list] \in Nat
  <2>1. states[handles[h].model] \in State
    BY <1>1, <1>2 DEF IInv, Typed
  <2> QED BY <1>1, <2>1, StateFacts
<1> QED BY <1>1, <1>2

LEMMA HandleSees ==
    ASSUME IInv, RefsKnown, NEW seen, Sees(seen), HandleStep
    PROVE  RefsKnown' /\ Sees(seen)'
<1>1. PICK h \in Handles :
         \E r : /\ handles' = [handles EXCEPT ![h] = r]
                /\ UNCHANGED <<states, applies, slot, bypassed, unwound>>
                /\ r.kind = "ref" =>
                    /\ r.model \in Models /\ r.generation \in Nat /\ r.list \in Lists
                    /\ Live(r.model) /\ ~LentOut(r.model)
                    /\ r.generation = states[r.model].generation[r.list]
                    /\ r.index \in DOMAIN states[r.model].lists[r.list]
                    /\ states[r.model].lists[r.list][r.index].id = r.of
  BY DEF HandleStep
<1>2. PICK r : /\ handles' = [handles EXCEPT ![h] = r]
               /\ UNCHANGED <<states, applies, slot, bypassed, unwound>>
               /\ r.kind = "ref" =>
                    /\ r.model \in Models /\ r.generation \in Nat /\ r.list \in Lists
                    /\ Live(r.model) /\ ~LentOut(r.model)
                    /\ r.generation = states[r.model].generation[r.list]
                    /\ r.index \in DOMAIN states[r.model].lists[r.list]
                    /\ states[r.model].lists[r.list][r.index].id = r.of
  BY <1>1
<1>3. handles'[h] = r /\ \A g \in Handles \ {h} : handles'[g] = handles[g]
  BY <1>2 DEF IInv, Shapes
<1>4. RefsKnown'
  BY <1>2, <1>3 DEF RefsKnown, Ref, Live
<1>5. Shown(seen)'
  BY <1>2 DEF Sees, Shown, Live, LentOut
<1>6. Lends(seen)'
  BY <1>2 DEF Sees, Lends, Untouched
<1>7. ASSUME NEW g \in Handles, Current(g)' PROVE Follows(seen, g)'
  <2>1. CASE g = h
    <3>1. r.kind = "ref"
      BY <1>3, <1>7, <2>1 DEF Current, Ref
    <3>2. seen[r.model] = states[r.model].lists
      BY <1>2, <3>1 DEF Sees, Shown
    <3> QED BY <1>2, <1>3, <2>1, <3>1, <3>2 DEF Follows
  <2>2. CASE g # h
    BY <1>2, <1>3, <1>7, <2>2 DEF Sees, Current, Ref, Live, Follows
  <2> QED BY <2>1, <2>2
<1> QED BY <1>4, <1>5, <1>6, <1>7 DEF Sees

\* The models keep what they have but for the model x, and no ref is made.
LEMMA OthersSeen ==
    ASSUME IInv, RefsKnown, NEW seen, Sees(seen), handles' = handles,
           NEW h \in Handles, Ref(h), NEW next, NEW x \in Models,
           handles[h].model # x, Live(handles[h].model)' => Live(handles[h].model),
           Live(handles[h].model) =>
              states'[handles[h].model].generation = states[handles[h].model].generation,
           bypassed'[handles[h].model] = bypassed[handles[h].model],
           next[handles[h].model] = seen[handles[h].model], Current(h)'
    PROVE  Follows(next, h)'
<1>1. Current(h)
  BY DEF Current, Ref, Live
<1>2. Follows(seen, h)
  BY <1>1 DEF Sees
<1> QED BY <1>2 DEF Follows

LEMMA SameMembersAgain ==
    ASSUME NEW a, NEW b, NEW c, SameMembers(a, b), SameMembers(b, c)
    PROVE  SameMembers(a, c)
BY DEF SameMembers

LEMMA EditSees ==
    ASSUME IInv, RefsKnown, NEW seen \in [Models -> Contents], Sees(seen), EditStep
    PROVE  RefsKnown' /\ \E next \in [Models -> Contents] : Sees(next)'
<1>1. PICK x \in Models, l \in Lists, list \in Seq(Member), g \in Nat, b \in BOOLEAN :
         /\ Live(x) /\ ~LentOut(x)
         /\ EditOf(x, l, list, g) /\ Bypass(x, l, b)
         /\ SameCalls /\ UNCHANGED <<handles, slot, unwound>>
         /\ \/ /\ g = states[x].generation[l] /\ SameMembers(states[x].lists[l], list)
               /\ b = bypassed[x][l]
            \/ g = states[x].generation[l] /\ b
            \/ g = states[x].generation[l] + 1
  BY DEF EditStep
<1>2. PICK lists \in Contents, gens \in [Lists -> Nat], news \in Contents, newGens \in [Lists -> Nat] :
         /\ lists = states[x].lists /\ gens = states[x].generation
         /\ news = states'[x].lists /\ newGens = states'[x].generation
  <2>1. states[x] \in State /\ states'[x] \in State
    BY <1>1 DEF IInv, Typed, EditOf
  <2> QED BY <2>1, StateFacts
<1>3. /\ \A m \in Models \ {x} : states'[m] = states[m] /\ bypassed'[m] = bypassed[m]
      /\ LiveNext(x)
      /\ news[l] = list /\ newGens[l] = g /\ bypassed'[x][l] = b
      /\ \A k \in Lists \ {l} : /\ news[k] = lists[k] /\ newGens[k] = gens[k]
                                /\ bypassed'[x][k] = bypassed[x][k]
  <2>1. \A m \in Models \ {x} : bypassed'[m] = bypassed[m]
    <3> SUFFICES ASSUME NEW m \in Models \ {x} PROVE bypassed'[m] = bypassed[m]
      OBVIOUS
    <3>1. bypassed'[m] \in [Lists -> BOOLEAN] /\ bypassed[m] \in [Lists -> BOOLEAN]
      BY <1>1 DEF Bypass, IInv, Shapes
    <3>2. \A k \in Lists : bypassed'[m][k] = bypassed[m][k]
      BY <1>1 DEF Bypass
    <3> QED BY <3>1, <3>2
  <2>2. LiveNext(x)
    BY <1>1, StateFacts DEF EditOf, LiveNext
  <2> QED BY <1>1, <1>2, <2>1, <2>2 DEF EditOf, Bypass
<1>4. seen[x] = lists
  BY <1>1, <1>2 DEF Sees, Shown
<1>5. PICK next \in [Models -> Contents] : next = [seen EXCEPT ![x] = news]
  OBVIOUS
<1>6. next[x] = news /\ \A m \in Models \ {x} : next[m] = seen[m]
  BY <1>5
<1>7. \A m \in Models : (Live(m)' <=> Live(m)) /\ (LentOut(m)' <=> LentOut(m))
  <2>1. \A m \in Models : Live(m)' <=> Live(m)
    BY <1>1, <1>3 DEF Live, LiveNext
  <2>2. \A m \in Models : LentOut(m)' <=> LentOut(m)
    BY <1>1 DEF LentOut, SameCalls, SameFrame
  <2> QED BY <2>1, <2>2
<1>8. Shown(next)'
  BY <1>2, <1>3, <1>6, <1>7 DEF Sees, Shown
<1>9. \A k \in Lists : newGens[k] = 0 /\ ~bypassed'[x][k] =>
         Untouched(x, k) /\ SameMembers(lists[k], news[k])
  <2> SUFFICES ASSUME NEW k \in Lists, newGens[k] = 0, ~bypassed'[x][k]
               PROVE  Untouched(x, k) /\ SameMembers(lists[k], news[k])
    OBVIOUS
  <2>1. CASE k # l
    BY <1>2, <1>3, <2>1 DEF Untouched, SameMembers
  <2>2. CASE k = l
    <3>1. gens[l] \in Nat
      BY <1>2
    <3>2. g = gens[l] /\ SameMembers(lists[l], list) /\ b = bypassed[x][l]
      BY <1>1, <1>2, <1>3, <2>2, <3>1
    <3> QED BY <1>2, <1>3, <2>2, <3>2 DEF Untouched
  <2> QED BY <2>1, <2>2
<1>10. Lends(next)'
  <2> SUFFICES ASSUME NEW i \in DOMAIN applies, applies[i].callback # NoModel, NEW k \in Lists,
                      states'[applies[i].callback].generation[k] = 0,
                      ~bypassed'[applies[i].callback][k]
               PROVE  SameMembers(next[applies[i].model][k], next[applies[i].callback][k])
    BY <1>1 DEF Lends, SameCalls, SameFrame, Untouched
  <2>1. PICK m \in Models, c \in Models : m = applies[i].model /\ c = applies[i].callback
    BY Positions DEF IInv
  <2>2. m # x
    BY <1>1, <2>1 DEF LentOut
  <2>3. CASE c = x
    <3>1. Untouched(x, k) /\ SameMembers(lists[k], news[k])
      BY <1>2, <1>9, <2>1, <2>3
    <3>2. SameMembers(seen[m][k], lists[k])
      BY <1>4, <2>1, <2>3, <3>1 DEF Sees, Lends
    <3>3. SameMembers(seen[m][k], news[k])
      BY <3>1, <3>2, SameMembersAgain
    <3> QED BY <1>6, <2>1, <2>2, <2>3, <3>3
  <2>4. CASE c # x
    <3>1. Untouched(c, k)
      BY <1>3, <2>1, <2>4 DEF Untouched
    <3>2. SameMembers(seen[m][k], seen[c][k])
      BY <2>1, <3>1 DEF Sees, Lends
    <3> QED BY <1>6, <2>1, <2>2, <2>4, <3>2
  <2> QED BY <2>3, <2>4
<1>11. ASSUME NEW h \in Handles, Current(h)' PROVE Follows(next, h)'
  <2>1. Ref(h) /\ handles' = handles
    BY <1>1, <1>11 DEF Current, Ref
  <2>2. PICK m \in Models, k \in Lists : m = handles[h].model /\ k = handles[h].list
    BY <2>1, RefFacts
  <2>3. CASE m # x
    BY <1>3, <1>6, <1>7, <1>11, <2>1, <2>2, <2>3, OthersSeen
  <2>4. CASE m = x
    <3>1. handles[h].generation = newGens[k] /\ ~bypassed'[x][k]
      BY <1>2, <1>11, <2>1, <2>2, <2>4 DEF Current
    <3>2. handles[h].generation <= gens[k] /\ gens[k] \in Nat
      BY <1>1, <1>2, <2>1, <2>2, <2>4 DEF RefsKnown
    <3>3. newGens[k] = gens[k] /\ ~bypassed[x][k] /\ SameMembers(lists[k], news[k])
      <4>1. CASE k # l
        BY <1>3, <3>1, <4>1 DEF SameMembers
      <4>2. CASE k = l
        <5>1. g # gens[l] + 1
          BY <1>3, <3>1, <3>2, <4>2
        <5> QED BY <1>1, <1>2, <1>3, <3>1, <4>2, <5>1
      <4> QED BY <4>1, <4>2
    <3>4. Current(h)
      BY <1>1, <1>2, <2>1, <2>2, <2>4, <3>1, <3>3 DEF Current
    <3>5. handles[h].index \in DOMAIN lists[k] /\ lists[k][handles[h].index].id = handles[h].of
      BY <1>4, <2>2, <2>4, <3>4 DEF Sees, Follows
    <3>6. handles[h].index \in DOMAIN news[k] /\ news[k][handles[h].index].id = handles[h].of
      BY <3>3, <3>5 DEF SameMembers
    <3> QED BY <1>6, <2>1, <2>2, <2>4, <3>6 DEF Follows
  <2> QED BY <2>3, <2>4
<1>12. RefsKnown'
  <2> SUFFICES ASSUME NEW h \in Handles, Ref(h)
               PROVE  /\ states'[handles[h].model] # Unused
                      /\ LiveNext(handles[h].model) =>
                            handles[h].generation
                               <= states'[handles[h].model].generation[handles[h].list]
    BY <1>1 DEF RefsKnown, Ref, Live, LiveNext
  <2>1. PICK m \in Models, k \in Lists, e \in Nat :
           m = handles[h].model /\ k = handles[h].list /\ e = handles[h].generation
    BY RefFacts
  <2>2. states[m] # Unused /\ (Live(m) => e <= states[m].generation[k])
    BY <2>1 DEF RefsKnown
  <2>3. CASE m # x
    BY <1>3, <2>1, <2>2, <2>3 DEF Live, LiveNext
  <2>4. CASE m = x
    <3>1. gens[k] \in Nat /\ gens[k] <= newGens[k]
      BY <1>1, <1>2, <1>3
    <3>2. e <= gens[k]
      BY <1>1, <1>2, <2>2, <2>4
    <3>3. e <= newGens[k] /\ states'[x] # Unused
      BY <1>3, <3>1, <3>2 DEF LiveNext
    <3> QED BY <1>2, <2>1, <2>4, <3>3
  <2> QED BY <2>3, <2>4
<1> QED BY <1>8, <1>10, <1>11, <1>12 DEF Sees

LEMMA BeginSees ==
    ASSUME IInv, RefsKnown, NEW seen, Sees(seen), NEW m \in Models, NEW p \in Pipelines, Apply(m, p)
    PROVE  RefsKnown' /\ Sees(seen)'
<1>1. /\ Begins(m, p) /\ Usable(m) /\ PythonRuns
      /\ UNCHANGED <<states, handles, slot, bypassed, unwound>>
  BY ApplyCalls DEF Apply, IInv
<1>2. \A x \in Models : LentOut(x)' <=> LentOut(x)
  BY <1>1, BeginLoans
<1>3. PICK n \in Nat : n = Len(applies) /\ DOMAIN applies = 1..n
  BY Positions DEF IInv
<1>4. /\ DOMAIN applies' = 1..(n + 1)
      /\ \A i \in 1..n : /\ applies'[i].model = applies[i].model
                         /\ applies'[i].callback = applies[i].callback
      /\ applies'[n + 1].callback = NoModel
      /\ \A i \in 1..(n + 1) : i \in 1..n \/ i = n + 1
  BY <1>1, <1>3 DEF Begins
<1>5. Shown(seen)'
  BY <1>1, <1>2 DEF Sees, Shown, Live
<1>6. Lends(seen)'
  BY <1>1, <1>3, <1>4 DEF Sees, Lends, Untouched
<1>7. RefsKnown' /\ \A h \in Handles : Current(h)' => Follows(seen, h)'
  BY <1>1 DEF Sees, RefsKnown, Current, Follows, Ref, Live
<1> QED BY <1>5, <1>6, <1>7 DEF Sees

LEMMA CallSees ==
    ASSUME IInv, RefsKnown, NEW seen \in [Models -> Contents], Sees(seen),
           NEW k \in Models, CallStep(k)
    PROVE  RefsKnown' /\ \E next \in [Models -> Contents] : Sees(next)'
<1>1. PICK n \in Nat : n = Len(applies) /\ DOMAIN applies = 1..n /\ n \in 1..n /\ Top = applies[n]
  BY TopFacts DEF IInv, CallStep
<1>2. PICK t \in Models : t = Top.model
  BY TopFacts DEF IInv, CallStep
<1>3. Live(t) /\ ~LentOut(t) /\ states[t] \in State
  BY <1>2, TopIsFree DEF IInv, CallStep
<1>4. PICK lists \in Contents : lists = states[t].lists /\ lists = seen[t]
  BY <1>3, StateFacts DEF Sees, Shown
<1>5. PICK next \in [Models -> Contents] : next = [seen EXCEPT ![k] = lists]
  OBVIOUS
<1>6. /\ k # t /\ ~Live(k) /\ states[k] = Unused /\ handles' = handles /\ bypassed' = bypassed
      /\ states'[k].lists = lists /\ states'[t].generation = states[t].generation
      /\ \A m \in Models : m # k /\ m # t => states'[m] = states[m]
      /\ next[k] = lists /\ \A m \in Models : m # k => next[m] = seen[m]
      /\ LiveNext(t)
  BY <1>2, <1>4, <1>5, StateFacts DEF CallStep, Live, LiveNext
<1>7. /\ \A m \in Models : LentOut(m)' <=> LentOut(m) \/ m = t
      /\ \A m \in Models : LiveNext(m) <=> Live(m) \/ m = k
  BY <1>2, CallLoans
<1>8. /\ DOMAIN applies' = 1..n
      /\ \A i \in 1..n : /\ applies'[i].model = applies[i].model
                         /\ applies'[i].callback = IF i = n THEN k ELSE applies[i].callback
      /\ applies[n].model = t
  BY <1>1, <1>2 DEF CallStep, TopCalls, SameFrame
<1>9. Shown(next)'
  <2> SUFFICES ASSUME NEW m \in Models, LiveNext(m), m # t, ~LentOut(m)
               PROVE  next[m] = states'[m].lists
    BY <1>7 DEF Shown, Live, LiveNext
  <2> QED BY <1>6, <1>7 DEF Sees, Shown
<1>10. \A i \in 1..n : applies[i].model # k /\ applies[i].callback # k /\ applies[i].model \in Models
  BY <1>1, <1>6, OuterModel, Positions DEF IInv, Loans
<1>11. Lends(next)'
  <2> SUFFICES ASSUME NEW i \in 1..n, applies'[i].callback # NoModel, NEW l \in Lists,
                      states'[applies'[i].callback].generation[l] = 0,
                      ~bypassed[applies'[i].callback][l]
               PROVE  SameMembers(next[applies[i].model][l], next[applies'[i].callback][l])
    BY <1>6, <1>8 DEF Lends, Untouched
  <2>1. CASE i = n
    BY <1>4, <1>6, <1>8, <2>1 DEF SameMembers
  <2>2. CASE i # n
    <3>1. PICK c \in Models : c = applies[i].callback /\ c = applies'[i].callback /\ c # k
      BY <1>1, <1>8, <1>10, <2>2, Positions DEF IInv
    <3>2. Untouched(c, l)
      BY <1>6, <3>1 DEF Untouched
    <3>3. SameMembers(seen[applies[i].model][l], seen[c][l])
      BY <1>1, <1>8, <2>2, <3>1, <3>2 DEF Sees, Lends
    <3> QED BY <1>6, <1>10, <3>1, <3>3
  <2> QED BY <2>1, <2>2
<1>12. ASSUME NEW h \in Handles, Current(h)' PROVE Follows(next, h)'
  <2>1. Ref(h)
    BY <1>6, <1>12 DEF Current, Ref
  <2>2. PICK m \in Models : m = handles[h].model
    BY <2>1, RefFacts
  <2>3. m # k
    BY <1>6, <2>1, <2>2 DEF RefsKnown
  <2>4. Live(m)' => Live(m)
    BY <1>7, <2>3 DEF Live, LiveNext
  <2>5. states'[m].generation = states[m].generation
    BY <1>6, <2>3
  <2>6. bypassed'[m] = bypassed[m] /\ next[m] = seen[m]
    BY <1>6, <2>3
  <2> QED BY <1>6, <1>12, <2>1, <2>2, <2>3, <2>4, <2>5, <2>6, OthersSeen
<1>13. RefsKnown'
  <2> SUFFICES ASSUME NEW h \in Handles, Ref(h)
               PROVE  /\ states'[handles[h].model] # Unused
                      /\ LiveNext(handles[h].model) =>
                            handles[h].generation
                               <= states'[handles[h].model].generation[handles[h].list]
    BY <1>6 DEF RefsKnown, Ref, Live, LiveNext
  <2>1. PICK m \in Models : m = handles[h].model
    BY RefFacts
  <2>2. states[m] # Unused /\ (Live(m) => handles[h].generation <= states[m].generation[handles[h].list])
    BY <2>1 DEF RefsKnown
  <2>3. m # k
    BY <1>6, <2>2
  <2> QED BY <1>3, <1>6, <1>7, <2>1, <2>2, <2>3 DEF LiveNext
<1> QED BY <1>9, <1>11, <1>12, <1>13 DEF Sees

LEMMA ReturnSees ==
    ASSUME IInv, RefsKnown, NEW seen \in [Models -> Contents], Sees(seen),
           NEW k \in Models, NEW raises \in BOOLEAN, ReturnStep(k, raises)
    PROVE  RefsKnown' /\ \E next \in [Models -> Contents] : Sees(next)'
<1>1. PICK n \in Nat : n = Len(applies) /\ DOMAIN applies = 1..n /\ n \in 1..n /\ Top = applies[n]
  BY TopFacts DEF IInv, ReturnStep
<1>2. PICK t \in Models : t = Top.model
  BY TopFacts DEF IInv, ReturnStep
<1>3. /\ k = Top.callback /\ k # NoModel /\ Live(k) /\ ~LentOut(k) /\ states[k] \in State
      /\ Live(t)
  BY <1>2, CallbackFacts, OuterModel DEF IInv, ReturnStep
<1>4. PICK lists \in Contents, gens \in [Lists -> Nat] :
         lists = states[k].lists /\ lists = seen[k] /\ gens = states[k].generation
  BY <1>3, StateFacts DEF Sees, Shown
<1>5. PICK next \in [Models -> Contents] : next = [seen EXCEPT ![t] = lists]
  OBVIOUS
<1>6. /\ k # t /\ ~LiveNext(k) /\ states'[k] # Unused /\ handles' = handles
      /\ states'[t].lists = lists /\ states'[t].generation = states[t].generation
      /\ \A m \in Models : m # k /\ m # t => states'[m] = states[m] /\ bypassed'[m] = bypassed[m]
      /\ next[t] = lists /\ \A m \in Models : m # t => next[m] = seen[m]
      /\ LiveNext(t)
      /\ \A l \in Lists : bypassed'[t][l] <=> bypassed[t][l] \/ bypassed[k][l] \/ gens[l] > 0
  BY <1>2, <1>4, <1>5, PlaceholdersApart, StateFacts DEF ReturnStep, LiveNext
<1>7. /\ \A m \in Models : LentOut(m)' <=> LentOut(m) /\ m # t
      /\ \A m \in Models : LiveNext(m) <=> Live(m) /\ m # k
  BY <1>2, ReturnLoans
<1>8. /\ DOMAIN applies' = 1..n
      /\ \A i \in 1..n : /\ applies'[i].model = applies[i].model
                         /\ applies'[i].callback = IF i = n THEN NoModel ELSE applies[i].callback
      /\ applies[n].model = t /\ applies[n].callback = k
  BY <1>1, <1>2, <1>3 DEF ReturnStep, TopCalls, SameFrame
<1>9. Shown(next)'
  <2> SUFFICES ASSUME NEW m \in Models, LiveNext(m), LentOut(m) => m = t
               PROVE  next[m] = states'[m].lists
    BY <1>7 DEF Shown, Live, LiveNext
  <2> QED BY <1>6, <1>7 DEF Sees, Shown
\* What came back has the members that were lent, if nothing is noted.
<1>10. \A l \in Lists : ~bypassed'[t][l] => ~bypassed[t][l] /\ SameMembers(seen[t][l], lists[l])
  <2> SUFFICES ASSUME NEW l \in Lists, ~bypassed'[t][l]
               PROVE  ~bypassed[t][l] /\ SameMembers(seen[t][l], lists[l])
    OBVIOUS
  <2>1. ~bypassed[t][l] /\ ~bypassed[k][l] /\ gens[l] \in Nat /\ ~(gens[l] > 0)
    BY <1>6
  <2>2. Untouched(k, l)
    BY <1>4, <2>1 DEF Untouched
  <2> QED BY <1>1, <1>3, <1>4, <1>8, <2>1, <2>2 DEF Sees, Lends
<1>11. \A i \in 1..n : i # n /\ applies[i].callback # NoModel =>
          /\ applies[i].model \in Models /\ applies[i].model # t
          /\ applies[i].callback \in Models /\ applies[i].callback # k
  <2> SUFFICES ASSUME NEW i \in 1..n, i # n, applies[i].callback # NoModel
               PROVE  /\ applies[i].model \in Models /\ applies[i].model # t
                      /\ applies[i].callback \in Models /\ applies[i].callback # k
    OBVIOUS
  <2>1. applies[i].model \in Models /\ applies[i].callback \in Models
    BY <1>1, Positions DEF IInv
  <2>2. applies[i].model # t /\ applies[i].callback # k
    BY <1>1, <1>3, <1>8 DEF IInv, Loans
  <2> QED BY <2>1, <2>2
<1>12. Lends(next)'
  <2> SUFFICES ASSUME NEW i \in 1..n, i # n, applies[i].callback # NoModel, NEW l \in Lists,
                      states'[applies[i].callback].generation[l] = 0,
                      ~bypassed'[applies[i].callback][l]
               PROVE  SameMembers(next[applies[i].model][l], next[applies[i].callback][l])
    BY <1>8 DEF Lends, Untouched
  <2>1. PICK m \in Models, c \in Models : /\ m = applies[i].model /\ c = applies[i].callback
                                          /\ m # t /\ c # k
    BY <1>11
  <2>2. CASE c = t
    <3>1. Untouched(t, l) /\ SameMembers(seen[t][l], lists[l])
      BY <1>6, <1>10, <2>1, <2>2 DEF Untouched
    <3>2. SameMembers(seen[m][l], seen[t][l])
      BY <1>1, <2>1, <2>2, <3>1 DEF Sees, Lends
    <3>3. SameMembers(seen[m][l], lists[l])
      BY <3>1, <3>2, SameMembersAgain
    <3> QED BY <1>6, <2>1, <2>2, <3>3
  <2>3. CASE c # t
    <3>1. Untouched(c, l)
      BY <1>6, <2>1, <2>3 DEF Untouched
    <3>2. SameMembers(seen[m][l], seen[c][l])
      BY <1>1, <2>1, <3>1 DEF Sees, Lends
    <3> QED BY <1>6, <2>1, <2>3, <3>2
  <2> QED BY <2>2, <2>3
<1>13. ASSUME NEW h \in Handles, Current(h)' PROVE Follows(next, h)'
  <2>1. Ref(h)
    BY <1>6, <1>13 DEF Current, Ref
  <2>2. PICK m \in Models, l \in Lists : m = handles[h].model /\ l = handles[h].list
    BY <2>1, RefFacts
  <2>3. LiveNext(m)
    BY <1>6, <1>13, <2>2 DEF Current, Live, LiveNext
  <2>4. m # k /\ Live(m)
    BY <1>6, <1>7, <2>3
  <2>5. CASE m # t
    <3>1. Live(m)' => Live(m)
      BY <2>4
    <3>2. states'[m].generation = states[m].generation /\ bypassed'[m] = bypassed[m]
      BY <1>6, <2>4, <2>5
    <3>3. next[m] = seen[m]
      BY <1>6, <2>5
    <3> QED BY <1>6, <1>13, <2>1, <2>2, <2>5, <3>1, <3>2, <3>3, OthersSeen
  <2>6. CASE m = t
    <3>1. ~bypassed'[t][l] /\ handles[h].generation = states[t].generation[l]
      BY <1>6, <1>13, <2>2, <2>6 DEF Current
    <3>2. Current(h) /\ SameMembers(seen[t][l], lists[l])
      BY <1>10, <2>1, <2>2, <2>4, <2>6, <3>1 DEF Current
    <3>3. handles[h].index \in DOMAIN seen[t][l] /\ seen[t][l][handles[h].index].id = handles[h].of
      BY <2>2, <2>6, <3>2 DEF Sees, Follows
    <3>4. handles[h].index \in DOMAIN lists[l] /\ lists[l][handles[h].index].id = handles[h].of
      BY <3>2, <3>3 DEF SameMembers
    <3> QED BY <1>6, <2>2, <2>6, <3>4 DEF Follows
  <2> QED BY <2>5, <2>6
<1>14. RefsKnown'
  <2> SUFFICES ASSUME NEW h \in Handles, Ref(h)
               PROVE  /\ states'[handles[h].model] # Unused
                      /\ LiveNext(handles[h].model) =>
                            handles[h].generation
                               <= states'[handles[h].model].generation[handles[h].list]
    BY <1>6 DEF RefsKnown, Ref, Live, LiveNext
  <2>1. PICK m \in Models : m = handles[h].model
    BY RefFacts
  <2>2. states[m] # Unused /\ (Live(m) => handles[h].generation <= states[m].generation[handles[h].list])
    BY <2>1 DEF RefsKnown
  <2>3. CASE m = k
    BY <1>6, <2>1, <2>3
  <2>4. CASE m # k
    <3>1. states'[m] # Unused
      BY <1>6, <2>2, <2>4 DEF LiveNext
    <3>2. LiveNext(m) => Live(m) /\ states'[m].generation = states[m].generation
      BY <1>6, <1>7, <2>4
    <3> QED BY <2>1, <2>2, <3>1, <3>2
  <2> QED BY <2>3, <2>4
<1> QED BY <1>9, <1>12, <1>13, <1>14 DEF Sees

\* After a panic Python sees the model of the apply that ended as it was left.
LEMMA UnwindSees ==
    ASSUME IInv, RefsKnown, NEW seen \in [Models -> Contents], Sees(seen),
           NEW k \in Models, UnwindStep(k)
    PROVE  RefsKnown' /\ \E next \in [Models -> Contents] : Sees(next)'
<1>1. PICK n \in Nat : n = Len(applies) /\ DOMAIN applies = 1..n /\ n \in 1..n /\ Top = applies[n]
  BY TopFacts DEF IInv, UnwindStep
<1>2. PICK t \in Models : t = Top.model
  BY TopFacts DEF IInv, UnwindStep
<1>3. Live(t) /\ states[t] \in State /\ Top.callback # NoModel
  BY <1>2, CallbackFacts, OuterModel DEF IInv, UnwindStep
<1>4. PICK lists \in Contents : lists = states[t].lists
  BY <1>3, StateFacts
<1>5. PICK next \in [Models -> Contents] : next = [seen EXCEPT ![t] = lists]
  OBVIOUS
<1>6. /\ states' = states /\ handles' = handles
      /\ \A m \in Models : m # t => bypassed'[m] = bypassed[m]
      /\ next[t] = lists /\ \A m \in Models : m # t => next[m] = seen[m]
      /\ \A l \in Lists : bypassed'[t][l]
  BY <1>2, <1>5 DEF UnwindStep
<1>7. \A m \in Models : LentOut(m)' <=> LentOut(m) /\ m # t
  <2>1. PICK u : u = [pipeline |-> Top.pipeline, callback |-> k]
    OBVIOUS
  <2>2. u \in unwound' /\ u.callback = Top.callback /\ unwound \subseteq unwound' /\ Ends
        /\ applies # <<>>
    BY <2>1 DEF UnwindStep
  <2> QED BY <1>2, <1>3, <1>6, <2>2, EndLoans
<1>8. /\ DOMAIN applies' = 1..(n - 1)
      /\ \A i \in 1..(n - 1) : i \in 1..n /\ i # n /\ applies'[i] = applies[i]
      /\ \A i \in 1..(n - 1) : applies[i].model # t
  <2>1. /\ DOMAIN applies' = 1..(n - 1)
        /\ \A i \in 1..(n - 1) : i \in 1..n /\ i # n /\ applies'[i] = applies[i]
    BY <1>1 DEF UnwindStep, Ends
  <2>2. \A i \in 1..n : applies[i].model = applies[n].model => i = n
    BY <1>1 DEF IInv, Loans
  <2> QED BY <1>1, <1>2, <2>1, <2>2
<1>9. Shown(next)'
  <2> SUFFICES ASSUME NEW m \in Models, Live(m), LentOut(m) => m = t
               PROVE  next[m] = states[m].lists
    BY <1>6, <1>7 DEF Shown, Live
  <2> QED BY <1>4, <1>6 DEF Sees, Shown
<1>10. Lends(next)'
  <2> SUFFICES ASSUME NEW i \in 1..(n - 1), applies[i].callback # NoModel, NEW l \in Lists,
                      states[applies[i].callback].generation[l] = 0,
                      ~bypassed'[applies[i].callback][l]
               PROVE  SameMembers(next[applies[i].model][l], next[applies[i].callback][l])
    BY <1>6, <1>8 DEF Lends, Untouched
  <2>1. PICK m \in Models, c \in Models : m = applies[i].model /\ c = applies[i].callback /\ m # t
    BY <1>1, <1>8, Positions DEF IInv
  <2>2. c # t
    BY <1>6, <2>1
  <2>3. Untouched(c, l)
    BY <1>6, <2>1, <2>2 DEF Untouched
  <2>4. SameMembers(seen[m][l], seen[c][l])
    BY <1>1, <1>8, <2>1, <2>3 DEF Sees, Lends
  <2> QED BY <1>6, <2>1, <2>2, <2>4
<1>11. ASSUME NEW h \in Handles, Current(h)' PROVE Follows(next, h)'
  <2>1. Ref(h) /\ Live(handles[h].model)
    BY <1>6, <1>11 DEF Current, Ref, Live
  <2>2. PICK m \in Models : m = handles[h].model /\ handles[h].list \in Lists
    BY <2>1, RefFacts
  <2>3. m # t
    BY <1>6, <1>11, <2>2 DEF Current
  <2> QED BY <1>6, <1>11, <2>1, <2>2, <2>3, OthersSeen
<1>12. RefsKnown'
  BY <1>6 DEF RefsKnown, Ref, Live
<1> QED BY <1>9, <1>10, <1>11, <1>12 DEF Sees

LEMMA FinishSees ==
    ASSUME IInv, RefsKnown, NEW seen, Sees(seen), FinishStep
    PROVE  RefsKnown' /\ Sees(seen)'
<1>1. /\ states' = states /\ handles' = handles /\ bypassed' = bypassed /\ unwound' = unwound
      /\ Top.callback = NoModel /\ Ends /\ applies # <<>>
  BY DEF FinishStep
<1>2. PICK n \in Nat : n = Len(applies) /\ DOMAIN applies = 1..n
  BY Positions DEF IInv
<1>3. /\ DOMAIN applies' = 1..(n - 1)
      /\ \A i \in 1..(n - 1) : i \in 1..n /\ applies'[i] = applies[i]
  BY <1>1, <1>2 DEF Ends
<1>4. ~LentOut(Top.model)
  BY <1>1, TopIsFree DEF IInv
<1>5. \A m \in Models : LentOut(m)' <=> LentOut(m)
  BY <1>1, <1>4, EndLoans
<1>6. Shown(seen)'
  BY <1>1, <1>5 DEF Sees, Shown, Live
<1>7. Lends(seen)'
  BY <1>1, <1>2, <1>3 DEF Sees, Lends, Untouched
<1>8. RefsKnown' /\ \A h \in Handles : Current(h)' => Follows(seen, h)'
  BY <1>1 DEF Sees, RefsKnown, Current, Follows, Ref, Live
<1> QED BY <1>6, <1>7, <1>8 DEF Sees

LEMMA InitSees == Init => RInv
<1> SUFFICES ASSUME Init PROVE RInv
  OBVIOUS
<1>1. IInv
  BY InitIInv
<1>2. states[Outer] \in State /\ \A m \in Models : Live(m) => m = Outer
  BY <1>1, OuterModel DEF IInv, Typed, Loans, Init, Live
<1>3. PICK lists \in Contents : lists = states[Outer].lists
  BY <1>2, StateFacts
<1>4. PICK seen \in [Models -> Contents] : seen = [m \in Models |-> lists]
  OBVIOUS
<1>5. applies = <<>> /\ \A h \in Handles : handles[h] = NoHandle
  BY DEF Init
<1>6. Sees(seen) /\ RefsKnown
  BY <1>2, <1>3, <1>4, <1>5 DEF Sees, Shown, Lends, Current, Ref, RefsKnown
<1> QED BY <1>1, <1>6 DEF RInv

LEMMA NextSees ==
    ASSUME RInv, Next
    PROVE  RefsKnown' /\ \E next \in [Models -> Contents] : Sees(next)'
<1>0. IInv /\ Shapes /\ Typed /\ Loans /\ RefsKnown
  BY DEF RInv, IInv
<1>1. PICK seen \in [Models -> Contents] : Sees(seen)
  BY DEF RInv
<1>2. CASE HandleStep
  BY <1>0, <1>1, <1>2, HandleSees
<1>3. CASE EditStep
  BY <1>0, <1>1, <1>3, EditSees
<1>4. CASE \E m \in Models, p \in Pipelines : Apply(m, p)
  BY <1>0, <1>1, <1>4, BeginSees
<1>5. CASE \E k \in Models : CallStep(k)
  BY <1>0, <1>1, <1>5, CallSees
<1>6. CASE \E k \in Models, raises \in BOOLEAN : ReturnStep(k, raises)
  BY <1>0, <1>1, <1>6, ReturnSees
<1>7. CASE \E k \in Models : UnwindStep(k)
  BY <1>0, <1>1, <1>7, UnwindSees
<1>8. CASE FinishStep
  BY <1>0, <1>1, <1>8, FinishSees
<1> QED BY <1>0, <1>2, <1>3, <1>4, <1>5, <1>6, <1>7, <1>8, Steps

\* A ref that is current follows its member through all that Python and pipelines
\* do to the lists, those that are lent out and come back included.
THEOREM RefsInvariance == Spec => []RInv
<1>1. RInv /\ Next => RInv'
  BY NextIInv, NextSees DEF RInv
<1>2. RInv /\ UNCHANGED vars => RInv'
  <2> SUFFICES ASSUME RInv, UNCHANGED vars PROVE RInv'
    OBVIOUS
  <2>1. IInv'
    BY StutterIInv DEF RInv
  <2>2. RefsKnown'
    BY DEF RInv, RefsKnown, Ref, Live, vars
  <2>3. PICK seen \in [Models -> Contents] : Sees(seen)
    BY DEF RInv
  <2>4. Sees(seen)'
    BY <2>3 DEF Sees, Shown, Lends, Current, Follows, Ref, Live, LentOut, Untouched, vars
  <2> QED BY <2>1, <2>2, <2>4 DEF RInv
<1> QED BY <1>1, <1>2, InitSees, PTL DEF Spec

\* A ref that answers answers for the member it was taken for, for every number of
\* members, assignments, applies and panics (RefsTrue).
THEOREM RefsAreAlwaysTrue == Spec => []RefsTrue
<1>1. RInv => RefsTrue
  <2> SUFFICES ASSUME RInv, NEW h \in Handles, Answers(h), handles[h].kind = "ref",
                      ~bypassed[handles[h].model][handles[h].list]
               PROVE  Truthful(h)
    BY DEF RefsTrue
  <2>1. Current(h) /\ handles[h].model \in Models
    BY RefFacts DEF Answers, Usable, Current, Ref, RInv
  <2>2. Live(handles[h].model) /\ ~LentOut(handles[h].model)
    BY DEF Answers, Usable, Borrowed, LentOut
  <2>3. PICK seen \in [Models -> Contents] : Sees(seen)
    BY DEF RInv
  <2>4. Follows(seen, h) /\ seen[handles[h].model] = states[handles[h].model].lists
    BY <2>1, <2>2, <2>3 DEF Sees, Shown
  <2> QED BY <2>4 DEF Truthful, Items, Follows
<1> QED BY <1>1, RefsInvariance, PTL
=============================================================================
