---------------------------- MODULE MCCodeLayout ----------------------------
(* Codes of up to five items, with a reach of a few bytes in place of 32767, *)
(* and longer ones in which one branch outgrows the reach of the next.        *)
EXTENDS CodeLayout

CONSTANTS a, b

Items ==
    {Label(a), Label(b), Plain(1), Plain(4), Goto(a), Goto(b), If(a), If(b), Switch(a, 8)}

OneOfEach(p) ==
    \A i, j \in DOMAIN p :
        p[i].kind = "label" /\ p[i] = p[j] => i = j

ShortCodes == {p \in UNION {[1..n -> Items] : n \in 1..5} : OneOfEach(p)}

Loops ==
    {<<Plain(x), Goto(a), Plain(y), Label(b), Switch(b, 8), Plain(z), Goto(b), Plain(w), Label(a)>> :
        x \in 0..3, y \in 0..3, z \in 0..3, w \in 0..3}

AllCodes == ShortCodes \cup Loops

(* n jumps in a row, each of which is pushed out of reach only when all the   *)
(* later ones have been widened: one is widened in each round.  The last is   *)
(* out of reach by itself.  The plain items stand for runs of instructions.   *)
Chain(n) ==
    [k \in 1..n |-> Goto(k)]
    \o <<Plain(Reach + 4 - 5 * n)>>
    \o [k \in 1..(2 * n - 1) |->
            IF k % 2 = 1 THEN Label((k + 1) \div 2)
            ELSE Plain(IF k = 2 * n - 2 THEN 4 ELSE 5)]

Chains == {Chain(n) : n \in 2..8}
=============================================================================
