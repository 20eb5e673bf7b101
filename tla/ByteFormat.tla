----------------------------- MODULE ByteFormat -----------------------------
(***************************************************************************)
(* The primitives of crates/pytecode-engine/src/bytes.rs and the words in  *)
(* which ClassReader and ClassWriter state a layout.  A byte string is a   *)
(* sequence of 0..255.  A scalar keeps its bytes; only what the code       *)
(* counts with (lengths, counts, tags) is turned into a number.            *)
(***************************************************************************)
EXTENDS Integers, Sequences

Byte == 0..255

\* A number of n bytes written big-endian; the "as u8" and "as u16" casts of
\* the writer keep the low bytes.
Bytes(n, x) == [i \in 1..n |-> (x \div 256^(n - i)) % 256]

\* The number a byte string stands for.  No stream of the model is 2^24 bytes
\* long, so a length with a high byte set is only known to be too long.
TooLong == 2^24
Num(bs) ==
    IF Len(bs) = 4 /\ bs[1] > 0 THEN TooLong
    ELSE LET f[i \in 0..Len(bs)] == IF i = 0 THEN 0 ELSE 256 * f[i - 1] + bs[i]
         IN  f[Len(bs)]

-----------------------------------------------------------------------------
(***************************************************************************)
(* Layouts.                                                                *)
(***************************************************************************)
Uint(n)         == [k |-> "uint", n |-> n]
U1              == Uint(1)
U2              == Uint(2)
U4              == Uint(4)
OneOf(S)        == [k |-> "oneof", of |-> S]           \* one byte, refused outside S
Zero(n)         == [k |-> "zero", n |-> n]             \* reserved bytes, refused unless 0
Struct(fields)  == [k |-> "struct", of |-> fields]     \* << <<name, layout>>, ... >>
List(n, f)      == [k |-> "list", n |-> n, of |-> f]   \* an n-byte count, then that many
Times(n, f)     == [k |-> "times", n |-> n, of |-> f]  \* exactly n
Sized(n, f)     == [k |-> "sized", n |-> n, of |-> f]  \* an n-byte length, then f fills it
Rest            == [k |-> "rest"]                      \* the bytes that are left
All(f)          == [k |-> "all", of |-> f]             \* f until nothing is left
Choice(rows)    == [k |-> "choice", of |-> rows]       \* a tag byte, then the row's layout
Padding         == [k |-> "padding"]                   \* to the next multiple of four
Table           == [k |-> "table"]                     \* low, high and an offset for each
Attribute       == [k |-> "attribute"]
Annotation      == [k |-> "annotation"]                \* the two layouts that contain
ElementValue    == [k |-> "element_value"]             \* themselves go by name
Nothing         == Struct(<<>>)

\* A row of a Choice: the variant it builds, the tags that select it, and the
\* layout of what follows the tag.
Row(variant, tags, f) == [variant |-> variant, tags |-> tags, of |-> f]
=============================================================================
