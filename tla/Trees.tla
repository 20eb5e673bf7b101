-------------------------------- MODULE Trees --------------------------------
(***************************************************************************)
(* Trees of conditions and of transforms, as they are written down: records  *)
(* that hold others in a list "of", or one as "transform".  A place in a     *)
(* tree is the way to it from the root.                                      *)
(***************************************************************************)
EXTENDS Naturals, SequencesExt

CONSTANT Deepest   \* no tree that is written down is nested deeper

ASSUME DeepestIsNumber == Deepest \in Nat

Parts(t) ==
    CASE "of" \in DOMAIN t -> t.of
      [] "transform" \in DOMAIN t -> <<t.transform>>
      [] OTHER -> <<>>

Subtree(tree, way) ==
    LET at[n \in 0..Len(way)] == IF n = 0 THEN tree ELSE Parts(at[n - 1])[way[n]] IN at[Len(way)]

Ways(tree) ==
    {way \in Seq(Nat) :
        \A n \in DOMAIN way : way[n] \in DOMAIN Parts(Subtree(tree, SubSeq(way, 1, n - 1)))}

\* The ways in a tree to what is n deep.
WaysOfLength(tree, n) ==
    LET ways[k \in 0..n] ==
            IF k = 0 THEN {<<>>}
            ELSE UNION {{Append(way, i) : i \in DOMAIN Parts(Subtree(tree, way))} : way \in ways[k - 1]}
    IN  ways[n]

\* The tree ends, and every node is one of those.
IsTree(tree, isNode(_)) ==
    /\ WaysOfLength(tree, Deepest + 1) = {}
    /\ \A n \in 0..Deepest : \A way \in WaysOfLength(tree, n) : isNode(Subtree(tree, way))

\* The value of a tree from the values of its parts, which value(_, _) is given in order.
FoldTree(tree, value(_, _)) ==
    LET fold[way \in Ways(tree)] ==
            LET t == Subtree(tree, way)
            IN  value(t, [i \in DOMAIN Parts(t) |-> fold[Append(way, i)]])
    IN  fold[<<>>]

\* What a transform does step by step: a sequence within a sequence is part of it.
Flat(tree) ==
    FoldTree(tree, LAMBDA t, parts : IF t.do = "sequence" THEN FlattenSeq(parts) ELSE <<t>>)
=============================================================================
