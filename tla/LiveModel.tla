------------------------------ MODULE LiveModel ------------------------------
(***************************************************************************)
(* A class model as Python holds it (pytecode-python/src/model.rs) and the  *)
(* pipelines applied to it (transforms.rs).  A ClassModel is a shared state *)
(* with a list of fields and one of methods; Python takes list views and    *)
(* from those refs, which remember an index and the generation of the list  *)
(* and answer only while that generation is current.  Attribute views, code *)
(* models and code lists carry the index and generation of their ref and    *)
(* are not told apart from it.                                              *)
(*                                                                         *)
(* apply() holds the state borrowed while a pipeline runs; a step that is a *)
(* Python callback moves the contents into a model of its own, calls Python *)
(* with that, and moves them back.  A panic that leaves the callback ends   *)
(* apply() where it is: nothing is moved back.  Python is one thread: its    *)
(* steps come between calls and inside callbacks, where apply() may be      *)
(* called again.                                                           *)
(***************************************************************************)
EXTENDS Naturals, Sequences

CONSTANTS
    Lists,          \* the lists of a model: fields, methods
    Names,          \* names of members
    Handles,        \* Python variables
    Models,         \* shared states
    Outer,          \* the one that Python read from bytes
    StartNames,     \* the names of its members, list by list
    Pipelines,      \* each with its slot for the error of a callback
    NoHandle, NoModel, Unused,
    Gone,           \* a model whose contents were taken for good (None)
    MaxMembers,     \* bound: members of a list that is assigned
    MaxGeneration,  \* bound: assignments to one list
    MaxApplies,     \* bound: calls of apply
    MaxSteps        \* bound: steps of one pipeline that match

VARIABLES
    states,     \* per model Unused, Gone, or its lists, their generations, and whether
                \* the rest of it is the class that was read or that of Default
    handles,
    applies,    \* the calls of apply that are running, innermost last
    slot,       \* per pipeline: the error of a callback is stored
    returned,   \* how the last apply ended: "ok", "error" or "panic"
    begun,      \* counter for the bound
    bypassed,   \* history: the list was changed without a new generation
    unwound     \* history: the applies that a panic of their callback ended

vars == <<states, handles, applies, slot, returned, begun, bypassed, unwound>>

-----------------------------------------------------------------------------
(* Members and models. *)

Named(m, l, generation, names) ==
    [i \in DOMAIN names |-> [id |-> <<m, l, generation, i>>, name |-> names[i]]]

Live(m) == states[m] \notin {Unused, Gone}

Borrowed(m) == \E i \in DOMAIN applies : applies[i].model = m

\* with_live_model: a dead model is an error, and a borrowed one a panic of its RefCell
\* (through the ClassModel itself, an error of PyO3).  Either changes nothing; what a
\* panic does when the callback lets it go is Unwind.
Usable(m) == Live(m) /\ ~Borrowed(m)

Top == applies[Len(applies)]

\* Python runs, and not the Rust side of a pipeline.
PythonRuns == applies # <<>> => Top.callback # NoModel

Items(h) == states[handles[h].model].lists[handles[h].list]

\* The check of every access through a view or a ref.
Answers(h) ==
    /\ handles[h] # NoHandle
    /\ handles[h].kind \in {"view", "ref"}
    /\ Usable(handles[h].model)
    /\ states[handles[h].model].generation[handles[h].list] = handles[h].generation

\* clone_inner succeeds; past the end of the list it panics, and changes nothing.
CanClone(h) ==
    /\ handles[h] # NoHandle
    /\ \/ handles[h].kind = "owned"
       \/ handles[h].kind = "ref" /\ Answers(h) /\ handles[h].index \in DOMAIN Items(h)

NameOf(h) ==
    IF handles[h].kind = "owned" THEN handles[h].name ELSE Items(h)[handles[h].index].name

-----------------------------------------------------------------------------
(* What Python does between calls and inside callbacks.                     *)

TakeView(h, m, l) ==
    /\ PythonRuns
    /\ Usable(m)
    /\ handles' = [handles EXCEPT ![h] =
            [kind |-> "view", model |-> m, list |-> l, generation |-> states[m].generation[l]]]
    /\ UNCHANGED <<states, applies, slot, returned, begun, bypassed, unwound>>

normalize_index(list) == 1..Len(list)

GetItem(h, view) ==
    /\ PythonRuns
    /\ handles[view] # NoHandle /\ handles[view].kind = "view"
    /\ Answers(view)
    /\ \E i \in normalize_index(Items(view)) :
        handles' = [handles EXCEPT ![h] =
            [kind |-> "ref", model |-> handles[view].model, list |-> handles[view].list,
             generation |-> handles[view].generation, index |-> i, of |-> Items(view)[i].id]]
    /\ UNCHANGED <<states, applies, slot, returned, begun, bypassed, unwound>>

\* FieldModel(...) or MethodModel(...): a member of no list, in a cell of its own.
NewOwned(h, l, name) ==
    /\ PythonRuns
    /\ handles' = [handles EXCEPT ![h] = [kind |-> "owned", list |-> l, name |-> name]]
    /\ UNCHANGED <<states, applies, slot, returned, begun, bypassed, unwound>>

SetName(h, name) ==
    /\ PythonRuns
    /\ CanClone(h)
    /\ \/ /\ handles[h].kind = "owned"
          /\ handles' = [handles EXCEPT ![h].name = name]
          /\ UNCHANGED states
       \/ /\ handles[h].kind = "ref"
          /\ states' = [states EXCEPT
                ![handles[h].model].lists[handles[h].list][handles[h].index].name = name]
          /\ UNCHANGED handles
    /\ UNCHANGED <<applies, slot, returned, begun, bypassed, unwound>>

\* A wrong assignment: the list is replaced and its generation stays.
AssignSilently(m, l, members) ==
    /\ Usable(m)
    /\ states' = [states EXCEPT
            ![m].lists[l] =
                Named(m, l, states[m].generation[l] + 1, [i \in DOMAIN members |-> NameOf(members[i])])]
    /\ bypassed' = [bypassed EXCEPT ![m][l] = FALSE]

Assign(m, l, members) ==
    /\ Usable(m)
    /\ states' = [states EXCEPT
            ![m].lists[l] =
                Named(m, l, states[m].generation[l] + 1, [i \in DOMAIN members |-> NameOf(members[i])]),
            ![m].generation[l] = @ + 1]
    /\ bypassed' = [bypassed EXCEPT ![m][l] = FALSE]

\* model.methods = [...]: every value is cloned first, and one that cannot be
\* leaves everything as it was.
SetList(m, l, members) ==
    /\ PythonRuns
    /\ Live(m) /\ states[m].generation[l] < MaxGeneration
    /\ \A i \in DOMAIN members : CanClone(members[i]) /\ handles[members[i]].list = l
    /\ Assign(m, l, members)
    /\ UNCHANGED <<handles, applies, slot, returned, begun, unwound>>

-----------------------------------------------------------------------------
(* Pipelines. *)

Apply(m, p) ==
    /\ PythonRuns
    /\ Usable(m)
    /\ begun < MaxApplies
    /\ begun' = begun + 1
    /\ LET again == \E i \in DOMAIN applies : applies[i].pipeline = p
       IN  applies' =
            Append([i \in DOMAIN applies |->
                        [applies[i] EXCEPT !.reentered = @ \/ applies[i].pipeline = p]],
                   [model |-> m, pipeline |-> p, callback |-> NoModel, steps |-> 0,
                    raised |-> FALSE, reentered |-> again, leftover |-> slot[p]])
    /\ UNCHANGED <<states, handles, slot, returned, bypassed, unwound>>

StepDone(callback, raised) ==
    applies' = [applies EXCEPT ![Len(applies)] =
        [Top EXCEPT !.steps = Top.steps + 1, !.callback = callback, !.raised = Top.raised \/ raised]]

NextStep == applies # <<>> /\ Top.callback = NoModel /\ Top.steps < MaxSteps

Without(list, name) ==
    LET kept[i \in 0..Len(list)] ==
            IF i = 0 THEN <<>>
            ELSE IF list[i].name = name THEN kept[i - 1] ELSE Append(kept[i - 1], list[i])
    IN  kept[Len(list)]

\* RemoveMethod and RemoveField.
Remove(l, name) ==
    /\ NextStep
    /\ states' = [states EXCEPT ![Top.model].lists[l] = Without(@, name)]
    /\ bypassed' = [bypassed EXCEPT ![Top.model][l] =
            @ \/ Without(states[Top.model].lists[l], name) # states[Top.model].lists[l]]
    /\ StepDone(NoModel, FALSE)
    /\ UNCHANGED <<handles, slot, returned, begun, unwound>>

\* RenameMethod and RenameField; the other transforms change members and the
\* class in place too.
Rename(l, from, to) ==
    /\ NextStep
    /\ states' = [states EXCEPT ![Top.model].lists[l] =
            [i \in DOMAIN @ |-> IF @[i].name = from THEN [@[i] EXCEPT !.name = to] ELSE @[i]]]
    /\ StepDone(NoModel, FALSE)
    /\ UNCHANGED <<handles, slot, returned, begun, bypassed, unwound>>

\* What mem::take leaves behind.
Emptied(state) == [state EXCEPT !.lists = [l \in Lists |-> <<>>], !.class = "default"]

\* from_model: the contents in a model of their own.
Lent(state) == [state EXCEPT !.generation = [l \in Lists |-> 0]]

Call(m) ==
    /\ NextStep
    /\ states[m] = Unused
    /\ states' = [states EXCEPT ![m] = Lent(states[Top.model]), ![Top.model] = Emptied(@)]
    /\ StepDone(m, FALSE)
    /\ UNCHANGED <<handles, slot, returned, begun, bypassed, unwound>>

\* take_inner's contents in the place they were lent from.
Returned(state, m) == [state EXCEPT !.lists = states[m].lists, !.class = states[m].class]

\* The lists that came back were changed under the outer generations.
Bypassing(m) ==
    [bypassed EXCEPT ![m] = [l \in Lists |-> FALSE],
        ![Top.model] = [l \in Lists |-> @[l] \/ bypassed[m][l] \/ states[m].generation[l] > 0]]

\* Wrong returns: an error leaves at once, a later success clears an earlier
\* error, and the callback's model stays alive.
LeaveOnError(raises) ==
    LET m == Top.callback
    IN  /\ states' = IF raises THEN [states EXCEPT ![m] = Gone]
                     ELSE [states EXCEPT ![m] = Gone, ![Top.model] = Returned(@, m)]
        /\ slot' = [slot EXCEPT ![Top.pipeline] = @ \/ raises]
        /\ bypassed' = Bypassing(m)

ClearOnSuccess(raises) ==
    LET m == Top.callback
    IN  /\ states' = [states EXCEPT ![m] = Gone, ![Top.model] = Returned(@, m)]
        /\ slot' = [slot EXCEPT ![Top.pipeline] = raises]
        /\ bypassed' = Bypassing(m)

KeepAlive(raises) ==
    LET m == Top.callback
    IN  /\ states' = [states EXCEPT ![Top.model] = Returned(@, m)]
        /\ slot' = [slot EXCEPT ![Top.pipeline] = @ \/ raises]
        /\ bypassed' = Bypassing(m)

TakeBack(raises) ==
    LET m == Top.callback
    IN  /\ states' = [states EXCEPT ![m] = Gone, ![Top.model] = Returned(@, m)]
        /\ slot' = [slot EXCEPT ![Top.pipeline] = @ \/ raises]
        /\ bypassed' = Bypassing(m)

\* The callback returns or raises; the steps after it run in either case.
Return(raises) ==
    /\ applies # <<>> /\ Top.callback # NoModel
    /\ TakeBack(raises)
    /\ applies' = [applies EXCEPT ![Len(applies)] =
                    [Top EXCEPT !.callback = NoModel, !.raised = Top.raised \/ raises]]
    /\ UNCHANGED <<handles, returned, begun, unwound>>

\* A panic leaves the callback: a touch of the borrowed model, a member past the
\* end, a PanicException that Python caught before.  call1 resumes the unwinding,
\* so the contents are not moved back, the callback's model is not emptied and the
\* slot is not read; the borrow ends, and Python sees the panic where it called apply.
Unwind ==
    /\ applies # <<>> /\ Top.callback # NoModel
    /\ unwound' = unwound \cup {[pipeline |-> Top.pipeline, callback |-> Top.callback]}
    /\ returned' = "panic"
    /\ bypassed' = [bypassed EXCEPT ![Top.model] = [l \in Lists |-> TRUE]]
    /\ applies' = SubSeq(applies, 1, Len(applies) - 1)
    /\ UNCHANGED <<states, handles, slot, begun>>

\* take_callback_error: the slot is emptied into the result.
Finish ==
    /\ applies # <<>> /\ Top.callback = NoModel
    /\ returned' = IF slot[Top.pipeline] THEN "error" ELSE "ok"
    /\ slot' = [slot EXCEPT ![Top.pipeline] = FALSE]
    /\ applies' = SubSeq(applies, 1, Len(applies) - 1)
    /\ UNCHANGED <<states, handles, begun, bypassed, unwound>>

-----------------------------------------------------------------------------
Init ==
    /\ states = [m \in Models |->
            IF m = Outer
            THEN [lists |-> [l \in Lists |-> Named(m, l, 0, StartNames[l])],
                  generation |-> [l \in Lists |-> 0], class |-> "read"]
            ELSE Unused]
    /\ handles = [h \in Handles |-> NoHandle]
    /\ applies = <<>>
    /\ slot = [p \in Pipelines |-> FALSE]
    /\ returned = "ok"
    /\ begun = 0
    /\ bypassed = [m \in Models |-> [l \in Lists |-> FALSE]]
    /\ unwound = {}

Python ==
    \/ \E h \in Handles, m \in Models, l \in Lists : TakeView(h, m, l)
    \/ \E h, view \in Handles : GetItem(h, view)
    \/ \E h \in Handles, l \in Lists, name \in Names : NewOwned(h, l, name)
    \/ \E h \in Handles, name \in Names : SetName(h, name)
    \/ \E m \in Models, l \in Lists, n \in 0..MaxMembers :
        \E members \in [1..n -> Handles] : SetList(m, l, members)
    \/ \E m \in Models, p \in Pipelines : Apply(m, p)

Engine ==
    \/ \E l \in Lists, name \in Names : Remove(l, name)
    \/ \E l \in Lists, from, to \in Names : Rename(l, from, to)
    \/ \E m \in Models : Call(m)
    \/ \E raises \in BOOLEAN : Return(raises)
    \/ Unwind
    \/ Finish

Next == Python \/ Engine

Spec == Init /\ [][Next]_vars

-----------------------------------------------------------------------------
(* Assumptions. *)

ASSUME OuterModel == Outer \in Models /\ NoModel \notin Models

ASSUME MemberBound == MaxMembers \in Nat /\ \A l \in Lists : StartNames[l] \in Seq(Names)

\* A member carries its identity: the list it was put into, when, and where.
Member == [id : Models \X Lists \X Nat \X Nat, name : Names]
Contents == [Lists -> Seq(Member)]
Class == {"read", "default"}
State == [lists : Contents, generation : [Lists -> Nat], class : Class]

ASSUME PlaceholdersApart == {Unused, Gone} \cap State = {} /\ Unused # Gone

ASSUME CallBounds == MaxGeneration \in Nat /\ MaxApplies \in Nat /\ MaxSteps \in Nat

-----------------------------------------------------------------------------
(* Properties. *)

Truthful(h) ==
    /\ handles[h].index \in DOMAIN Items(h)
    /\ Items(h)[handles[h].index].id = handles[h].of

\* A ref that answers answers for the member it was taken for, inside the list,
\* however lists were assigned, renamed, borrowed and moved since; as long as
\* the list was not changed by a pipeline or through a callback's model, or lost
\* to a panic.
RefsTrue ==
    \A h \in Handles :
        /\ Answers(h)
        /\ handles[h].kind = "ref"
        /\ ~bypassed[handles[h].model][handles[h].list]
        => Truthful(h)

\* The promise of the error message "is stale after structural mutation": a ref
\* never answers for another member than its own, pipelines included.
StaleIsReported ==
    \A h \in Handles : Answers(h) /\ handles[h].kind = "ref" => Truthful(h)

HasTheClass(m) == Live(m) /\ states[m].class = "read"

\* The class that was read is in one model at all times, panics included: never
\* lost and never in two.  Until a panic has left a callback, nobody can use a
\* model that holds the default of mem::take instead.
ContentsInOnePlace ==
    /\ \E m \in Models : HasTheClass(m) /\ \A n \in Models : HasTheClass(n) => n = m
    /\ unwound = {} => \A m \in Models : Usable(m) => HasTheClass(m)

\* A model handed to a callback answers nothing once the callback has returned or
\* raised, whatever views and refs Python kept; one that a panic left does.
CallbackModelsDie ==
    \A h \in Handles :
        Answers(h) =>
            \/ handles[h].model = Outer
            \/ \E i \in DOMAIN applies : applies[i].callback = handles[h].model
            \/ \E u \in unwound : u.callback = handles[h].model

Returns == Len(applies') < Len(applies) /\ returned' # "panic"

\* An apply that comes to its end fails exactly when one of its own callbacks
\* raised, whichever it was and whatever came after it, or when it found an error
\* in the slot, which only an apply of the same pipeline ended by a panic leaves
\* there; if none of its callbacks applied the same pipeline again, as both would
\* then use one slot.
ErrorsReachTheCaller ==
    [][Returns /\ ~Top.reentered =>
        /\ returned' = "error" <=> Top.raised \/ Top.leftover
        /\ Top.leftover => \E u \in unwound : u.pipeline = Top.pipeline]_vars
=============================================================================
