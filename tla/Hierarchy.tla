------------------------------ MODULE Hierarchy ------------------------------
(***************************************************************************)
(* Queries about class hierarchies (analysis/hierarchy.rs).  A resolver is   *)
(* a function from the names it knows to their superclass, or NoClass; it    *)
(* may miss classes and it may have cycles.  Queries that fail return no     *)
(* answer: an answer is a set of at most one element.                        *)
(***************************************************************************)
EXTENDS Integers, Sequences, FiniteSets

CONSTANTS
    Object,     \* java/lang/Object, which every resolver knows
    NoClass,    \* no superclass
    Arrays      \* the names that start with [

Knows(resolver, class) == class = Object \/ class \in DOMAIN resolver

SuperOf(resolver, class) == IF class = Object THEN NoClass ELSE resolver[class]

\* The classes met on the way up: step 0 is the class itself.
Climb(resolver, class) ==
    LET up[k \in 0..(Cardinality(DOMAIN resolver) + 2)] ==
            IF k = 0 THEN class
            ELSE IF up[k - 1] # NoClass /\ Knows(resolver, up[k - 1])
                 THEN SuperOf(resolver, up[k - 1])
                 ELSE NoClass
    IN  up

\* All superclasses in order, Object last.  It fails for an unknown class on
\* the way and for a class met twice.
iter_superclasses(resolver, class) ==
    LET up == Climb(resolver, class)
        met == {k \in DOMAIN up : up[k] # NoClass}
        last == Cardinality(met) - 1
        above == [k \in 1..last |-> up[k]]
    IN  IF (\E k \in met : ~Knows(resolver, up[k])) \/ met = DOMAIN up THEN {}
        ELSE IF up[last] = Object THEN {above}
        ELSE {Append(above, Object)}

\* The first class of a chain that is among others.
FirstShared(ups, others) ==
    ups[CHOOSE k \in DOMAIN ups : ups[k] \in others /\ \A j \in 1..(k - 1) : ups[j] \notin others]

\* Superclasses only: two classes with an interface in common join in Object.
common_superclass(resolver, left, right) ==
    IF left = right THEN {left}
    ELSE IF left \in Arrays \/ right \in Arrays THEN {Object}
    ELSE {FirstShared(<<left>> \o l, {right} \cup {r[k] : k \in DOMAIN r}) :
            l \in iter_superclasses(resolver, left), r \in iter_superclasses(resolver, right)}
=============================================================================
