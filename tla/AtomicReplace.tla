---------------------------- MODULE AtomicReplace ----------------------------
(***************************************************************************)
(* What rewriting a file promises to everyone who reads it: the file holds  *)
(* its old contents until, in one step, it holds all of the new ones, and   *)
(* the new ones are what was settled when the rewrite began.                *)
(***************************************************************************)
CONSTANTS Writers, NoJob, Missing

VARIABLES
    disk,   \* the contents of each path
    job     \* per writer NoJob, or the destination and the parts to put there

vars == <<disk, job>>

Init == job = [w \in Writers |-> NoJob]

Settle(w) ==
    /\ job[w] = NoJob
    /\ job' = [job EXCEPT ![w] = job'[w]]
    /\ UNCHANGED disk

\* Contents with a part that cannot be had are never published.
Publish(w) ==
    /\ job[w] # NoJob
    /\ \A i \in DOMAIN job[w].whole : job[w].whole[i] # Missing
    /\ disk' = [disk EXCEPT ![job[w].dest] = job[w].whole]
    /\ job' = [job EXCEPT ![w] = NoJob]

\* An error, or the end of the process.
Abandon(w) ==
    /\ job' = [job EXCEPT ![w] = NoJob]
    /\ UNCHANGED disk

Next == \E w \in Writers : Settle(w) \/ Publish(w) \/ Abandon(w)

Spec == Init /\ [][Next]_vars
=============================================================================
