--------------------------- MODULE PyConstantPool ---------------------------
(***************************************************************************)
(* The builder as Python holds it (pytecode-python/src/model.rs): the       *)
(* binding offers checkpoint() and rollback() in place of count() and       *)
(* truncate(), and checkpoint() answers len(), the number of entries.       *)
(***************************************************************************)
EXTENDS MCConstantPool

PyInit ==
    /\ pool \in {NewPool} \cup {FromPool(r) : r \in RawPools}
    /\ mark = NoIndex
    /\ saved = pool

checkpoint ==
    /\ mark' = LiveCount(pool)
    /\ saved' = pool
    /\ UNCHANGED pool

rollback ==
    /\ mark # NoIndex
    /\ Truncate

PyNext ==
    \/ \E v \in Values : Add(v)
    \/ checkpoint
    \/ rollback

PySpec == PyInit /\ [][PyNext]_vars

\* A constant added before the checkpoint is still there after the rollback:
\* the text "keep" of the test on checkpoint and rollback.
RollbackKeepsConstants ==
    \A v \in Values :
        Find(saved, v) # NoIndex => Find(Truncated(pool, mark), v) = Find(saved, v)
=============================================================================
