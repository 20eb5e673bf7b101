---------------------------- MODULE Subsequences -----------------------------
(* What is left of a sequence when elements are dropped (Vec::retain). *)
EXTENDS Naturals, Sequences

\* The elements of a sequence at a set of positions, in their order.
Kept(s, hits) ==
    LET kept[i \in 0..Len(s)] ==
            IF i = 0 THEN <<>>
            ELSE IF i \in hits THEN Append(kept[i - 1], s[i])
            ELSE kept[i - 1]
    IN  kept[Len(s)]
=============================================================================
