------------------------------ MODULE CodeEdits ------------------------------
(***************************************************************************)
(* Where the code transforms find what they match, and how they put other   *)
(* items there (model/mod.rs, impl CodeModel).  A match is a position, or    *)
(* the first position of a sequence.                                        *)
(***************************************************************************)
EXTENDS Subsequences, SequencesExt

\* From left to right, those of a set of positions.
Positions(items, hits) == Kept([i \in DOMAIN items |-> i], hits)

\* Whether a sequence begins at i, hits[k] being where its k-th element matches.
SequenceAt(hits, i) == \A k \in DOMAIN hits : i + k - 1 \in hits[k]

\* From left to right, the next match after the end of the one before.
NonOverlapping(items, hits) ==
    LET scan[i \in 0..Len(items)] ==
            IF i = 0 THEN [found |-> <<>>, free |-> 1]
            ELSE LET before == scan[i - 1]
                 IN  IF i >= before.free /\ SequenceAt(hits, i)
                     THEN [found |-> Append(before.found, i), free |-> i + Len(hits)]
                     ELSE before
    IN  scan[Len(items)].found

splice(items, from, to, new) ==
    SubSeq(items, 1, from - 1) \o new \o SubSeq(items, to, Len(items))

\* A wrong order: the indices of later matches move while earlier ones are replaced.
SpliceForward(items, found, skip, width, new) ==
    LET spliced[k \in 0..Len(found)] ==
            IF k = 0 THEN items
            ELSE splice(spliced[k - 1], found[k] + skip, found[k] + skip + width, new)
    IN  spliced[Len(found)]

\* Matches are replaced from the last to the first.
SpliceAll(items, found, skip, width, new) ==
    LET at(k) == found[Len(found) - k + 1] + skip
        spliced[k \in 0..Len(found)] ==
            IF k = 0 THEN items ELSE splice(spliced[k - 1], at(k), at(k) + width, new)
    IN  spliced[Len(found)]
=============================================================================
