---------------------------- MODULE MCJarArchive ----------------------------
(* Small instances of JarArchive: a class, a plain resource and one with a   *)
(* ZIP comment, in a JAR that two holders may rewrite, in place or to out.   *)
EXTENDS JarArchive, TLC

CONSTANTS src, out, r1, r2, c, d, code, text1, text2, new, low

Stored(name, bytes, plain) == [name |-> name, bytes |-> bytes, plain |-> plain]

OneJar ==
    (src :> <<Stored(c, code, TRUE), Stored(r1, text1, TRUE), Stored(r2, text2, FALSE)>>)
        @@ (out :> NoFile)

Low(bytes) == low

AllContents == {code, text1, text2, new, low, Empty}

Symmetry == Permutations(Holders)
=============================================================================
