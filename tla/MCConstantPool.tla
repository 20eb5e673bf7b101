--------------------------- MODULE MCConstantPool ---------------------------
(* Small instances of ConstantPool.                                          *)
EXTENDS ConstantPool, Sequences

CONSTANTS s1, s2, long, one

SignaturesInUse == {<<s1, s2>>, <<s2, long>>}

\* A pool as the reader builds it from a list of entries, a gap after a wide one.
RECURSIVE ReadPool(_)
ReadPool(list) ==
    IF list = <<>>
    THEN [len |-> 1, entries |-> [i \in Slots |-> NoEntry]]
    ELSE LET n == Len(list)
             r == ReadPool(SubSeq(list, 1, n - 1))
         IN  [len |-> r.len + (IF IsWide(list[n]) THEN 2 ELSE 1),
              entries |-> [r.entries EXCEPT ![r.len] = list[n]]]

\* Class files as compilers and other tools leave them: parts after the whole,
\* a Long in the middle, and one constant stored twice, with a user of the copy.
FlatPools ==
    {ReadPool(<<Part("Class", NoData, 4), Leaf("Long", one), Utf8(s1)>>),
     ReadPool(<<Utf8(s1), Utf8(s1), Part("Class", NoData, 2), Part("MethodHandle", one, 3)>>),
     ReadPool(<<Utf8(s1), Part("Class", NoData, 1), Part("Class", NoData, 1), Utf8(s2),
                Pair("NameAndType", 1, 4), Pair("MethodRef", 3, 5)>>)}

ASSUME AllFlat == \A r \in FlatPools : Flat(r)
=============================================================================
