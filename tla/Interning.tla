------------------------------ MODULE Interning ------------------------------
(***************************************************************************)
(* What a constant pool promises its callers: a table from constants to     *)
(* indices in which an index, once given, stands for one constant and stays *)
(* with it, until the caller goes back to a table it kept.                  *)
(***************************************************************************)
VARIABLES
    table,      \* the pairs of a constant and its index
    kept        \* the table to go back to

vars == <<table, kept>>

\* One index names one constant and one constant has one index.
Agree(x, y) == x[1] = y[1] <=> x[2] = y[2]

Init == (\A x, y \in table : Agree(x, y)) /\ kept = table

\* A constant may need parts of its own, which are interned with it; when there
\* is no room for all of them some may be.
Intern ==
    /\ UNCHANGED kept
    /\ table \subseteq table'
    /\ \A x \in table' \ table, y \in table' : Agree(x, y)

Keep == kept' = table /\ UNCHANGED table

GoBack == table' = kept /\ UNCHANGED kept

Next == Intern \/ Keep \/ GoBack

Spec == Init /\ [][Next]_vars
=============================================================================
