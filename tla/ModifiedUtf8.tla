---------------------------- MODULE ModifiedUtf8 ----------------------------
(***************************************************************************)
(* crates/pytecode-engine/src/modified_utf8.rs: strings as sequences of    *)
(* UTF-16 code units, and their byte form in a Utf8 constant.              *)
(***************************************************************************)
EXTENDS Integers, Sequences, SequencesExt

Continuation(b) == b \div 64 = 2

\* A wrong HeadUnit: a two-byte form is taken whatever it stands for.
HeadUnitOverlong(data) ==
    LET b == data[1]
    IN  CASE b \in 1..127 -> [unit |-> b, bytes |-> 1]
          [] b \in 192..223 /\ Len(data) >= 2 /\ Continuation(data[2]) ->
                [unit |-> (b % 32) * 64 + (data[2] % 64), bytes |-> 2]
          [] OTHER -> [unit |-> 0, bytes |-> 0]

\* The code unit at the head of data and the bytes it takes; 0 bytes when it is
\* refused: a bare NUL, a stray or missing continuation byte, a longer form
\* than the unit needs (only NUL has one), a four-byte sequence.
HeadUnit(data) ==
    LET b == data[1]
        two   == (b % 32) * 64 + (data[2] % 64)
        three == (b % 16) * 4096 + (data[2] % 64) * 64 + (data[3] % 64)
    IN  CASE b \in 1..127 -> [unit |-> b, bytes |-> 1]
          [] b \in 192..223 /\ Len(data) >= 2 /\ Continuation(data[2])
                /\ (two >= 128 \/ two = 0) -> [unit |-> two, bytes |-> 2]
          [] b \in 224..239 /\ Len(data) >= 3 /\ Continuation(data[2])
                /\ Continuation(data[3]) /\ three >= 2048 -> [unit |-> three, bytes |-> 3]
          [] OTHER -> [unit |-> 0, bytes |-> 0]

\* decode_modified_utf8 before the surrogates are looked at.  The fold visits
\* each byte and skips those already used.
DecodeUnits(data) ==
    FoldLeft(LAMBDA acc, i :
        IF ~acc.ok \/ i < acc.next THEN acc
        ELSE LET u == HeadUnit(SubSeq(data, i, Len(data)))
             IN  [ok |-> u.bytes > 0, next |-> i + u.bytes, units |-> Append(acc.units, u.unit)],
        [ok |-> TRUE, next |-> 1, units |-> <<>>], [i \in 1..Len(data) |-> i])

High(u) == u \in 55296..56319
Low(u)  == u \in 56320..57343

\* String::from_utf16: every surrogate is half of a pair.
WellPaired(units) ==
    \A i \in DOMAIN units :
        /\ High(units[i]) => i < Len(units) /\ Low(units[i + 1])
        /\ Low(units[i]) => i > 1 /\ High(units[i - 1])

Decodes(data) == LET d == DecodeUnits(data) IN d.ok /\ WellPaired(d.units)

\* encode_modified_utf8.
EncodeUnit(u) ==
    CASE u = 0           -> <<192, 128>>
      [] u \in 1..127    -> <<u>>
      [] u \in 128..2047 -> <<192 + (u \div 64), 128 + (u % 64)>>
      [] OTHER           -> <<224 + (u \div 4096), 128 + ((u \div 64) % 64), 128 + (u % 64)>>
Encode(units) == FoldLeft(LAMBDA acc, u : acc \o EncodeUnit(u), <<>>, units)
=============================================================================
