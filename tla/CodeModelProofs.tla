-------------------------- MODULE CodeModelProofs --------------------------
(***************************************************************************)
(* Theorems about CodeModel for any code read and any matchers, patterns and  *)
(* snippets: edits touch exactly what matches, what was written can be read   *)
(* and written again and comes back as it was, no attribute is lost,          *)
(* preserved frames stand, and every place follows its instruction.           *)
(***************************************************************************)
EXTENDS CodeModel, Induction, SequenceTheorems

-----------------------------------------------------------------------------
(* What is laid end to end. *)

\* f is the recursion in FlattenSeq, for n sequences.
Flattening(S, seqs, n, f) ==
    /\ f \in [1..n -> Seq(S)] /\ f[1] = seqs[1] /\ FlattenSeq(seqs) = f[n]
    /\ \A i \in 1..(n - 1) : f[i + 1] = f[i] \o seqs[i + 1]

LEMMA FlattenSteps ==
    ASSUME NEW S, NEW seqs \in Seq(Seq(S)), Len(seqs) # 0
    PROVE  \E f : Flattening(S, seqs, Len(seqs), f)
<1> DEFINE n == Len(seqs)
           d == n - 1
           V == Seq(S)
           step == [i \in 1..d |-> [s \in V |-> s \o seqs[i + 1]]]
           Fits(f) == f = [i \in 1..n |-> IF i = 1 THEN seqs[i] ELSE f[i - 1] \o seqs[i]]
           flat == CHOOSE f : Fits(f)
           first == seqs[1]
<1>1. /\ n \in Nat /\ d \in Nat /\ n = d + 1 /\ first \in V
      /\ \A i \in 1..n : seqs[i] \in V
      /\ \A i \in 1..d : i + 1 \in 1..n
  OBVIOUS
<1>2. \A i \in 1..d, s \in V : s \o seqs[i + 1] \in V
  BY <1>1
<1>3. step \in [1..d -> [V -> V]] /\ \A i \in 1..d, s \in V : step[i][s] = s \o seqs[i + 1]
  <2> HIDE DEF d, V
  <2> QED BY <1>2
<1> HIDE DEF step, n, d, V, first
<1>4. PICK f \in [1..(d + 1) -> V] : RecursiveFromOne(d, first, step, f)
  BY <1>1, <1>3, RecursionFromOne
<1>5. ASSUME NEW i \in 1..d PROVE f[i + 1] = f[i] \o seqs[i + 1]
  <2>1. i \in 1..(d + 1)
    BY <1>1
  <2>2. f[i] \in V
    BY <2>1, <1>4
  <2> QED BY <2>2, <1>3, <1>4 DEF RecursiveFromOne
<1>6. ASSUME NEW i \in 1..n PROVE f[i] = IF i = 1 THEN seqs[i] ELSE f[i - 1] \o seqs[i]
  <2>1. CASE i = 1
    BY <2>1, <1>4 DEF RecursiveFromOne, first
  <2>2. CASE i # 1
    <3>1. i - 1 \in 1..d /\ (i - 1) + 1 = i
      BY <2>2, <1>1
    <3> QED BY <3>1, <2>2, <1>5
  <2> QED BY <2>1, <2>2
<1>7. Fits(f)
  <2>1. f = [i \in 1..n |-> f[i]]
    BY <1>1, <1>4
  <2> QED BY <2>1, <1>6
<1>8. Fits(flat)
  <2> HIDE DEF Fits
  <2> QED BY <1>7
<1>9. flat[1] = first /\ \A i \in 1..d : flat[i + 1] = flat[i] \o seqs[i + 1]
  <2> HIDE DEF flat
  <2>1. \A i \in 1..n : flat[i] = IF i = 1 THEN seqs[i] ELSE flat[i - 1] \o seqs[i]
    BY <1>8
  <2>2. 1 \in 1..n /\ \A i \in 1..d : i + 1 \in 1..n /\ i + 1 # 1 /\ (i + 1) - 1 = i
    BY <1>1
  <2> QED BY <2>1, <2>2 DEF first
<1>10. FlattenSeq(seqs) = flat[n]
  BY DEF FlattenSeq, flat, n
<1> HIDE DEF flat
<1>11. \A i \in 1..n : flat[i] \in V
  <2> DEFINE T == {i \in 1..(d + 1) : flat[i] \in V}
  <2>1. 1 \in T
    BY <1>1, <1>9
  <2>2. \A i \in 1..d : i \in T => i + 1 \in T
    BY <1>1, <1>2, <1>9
  <2> HIDE DEF T
  <2>3. 1..(d + 1) \subseteq T
    BY <1>1, <2>1, <2>2, UpToFromOne
  <2> QED BY <1>1, <2>3 DEF T
<1>12. flat = [i \in 1..n |-> flat[i]]
  <2> DEFINE e == [i \in 1..n |-> IF i = 1 THEN seqs[i] ELSE flat[i - 1] \o seqs[i]]
  <2>1. flat = e
    BY <1>8
  <2>2. e = [i \in 1..n |-> e[i]]
    OBVIOUS
  <2> QED BY <2>1, <2>2
<1>13. flat \in [1..n -> V]
  BY <1>11, <1>12
<1> QED BY <1>9, <1>10, <1>13 DEF Flattening, first, d, V, n

LEMMA FlattenNothing == FlattenSeq(<<>>) = <<>>
  BY DEF FlattenSeq

LEMMA FlattenIsSequence ==
    ASSUME NEW S, NEW seqs \in Seq(Seq(S)) PROVE FlattenSeq(seqs) \in Seq(S)
<1>1. CASE Len(seqs) = 0
  <2>1. seqs = <<>> /\ <<>> \in Seq(S)
    BY <1>1
  <2> QED BY <2>1, FlattenNothing
<1>2. CASE Len(seqs) # 0
  <2>1. PICK f : Flattening(S, seqs, Len(seqs), f)
    BY <1>2, FlattenSteps
  <2>2. Len(seqs) \in 1..Len(seqs)
    BY <1>2
  <2> QED BY <2>1, <2>2 DEF Flattening
<1> QED BY <1>1, <1>2

LEMMA FlattenAppend ==
    ASSUME NEW S, NEW seqs \in Seq(Seq(S)), NEW t \in Seq(S)
    PROVE  FlattenSeq(Append(seqs, t)) = FlattenSeq(seqs) \o t
<1> DEFINE n == Len(seqs)
           more == Append(seqs, t)
<1>1. /\ n \in Nat /\ more \in Seq(Seq(S)) /\ Len(more) = n + 1 /\ Len(more) # 0 /\ more[n + 1] = t
      /\ \A i \in 1..n : more[i] = seqs[i]
  OBVIOUS
<1> HIDE DEF more
<1>2. PICK g : Flattening(S, more, n + 1, g)
  <2>1. \E g : Flattening(S, more, Len(more), g)
    BY <1>1, FlattenSteps
  <2> QED BY <2>1, <1>1
<1>3. CASE n = 0
  <2>1. seqs = <<>>
    BY <1>3
  <2>2. FlattenSeq(more) = t
    BY <1>1, <1>2, <1>3 DEF Flattening
  <2>3. <<>> \o t = t
    OBVIOUS
  <2> QED BY <2>1, <2>2, <2>3, FlattenNothing DEF more
<1>4. CASE n # 0
  <2>1. PICK f : Flattening(S, seqs, n, f)
    BY <1>4, FlattenSteps
  <2> DEFINE N == {i \in 1..n : g[i] = f[i]}
             d == n - 1
  <2>2. d \in Nat /\ n = d + 1 /\ 1..(d + 1) = 1..n /\ (n + 1) - 1 = n /\ n \in 1..n
    BY <1>1, <1>4
  <2>3. 1 \in N
    BY <1>1, <1>2, <1>4, <2>1 DEF Flattening
  <2>4. ASSUME NEW i \in 1..d, i \in N PROVE i + 1 \in N
    <3>1. i + 1 \in 1..n /\ i \in 1..n
      BY <2>2
    <3>2. f[i + 1] = f[i] \o seqs[i + 1]
      BY <2>1 DEF Flattening
    <3>3. g[i + 1] = g[i] \o more[i + 1]
      BY <2>2, <3>1, <1>2 DEF Flattening
    <3> QED BY <3>1, <3>2, <3>3, <1>1, <2>4
  <2> HIDE DEF N, d
  <2>5. 1..(d + 1) \subseteq N
    BY <2>2, <2>3, <2>4, UpToFromOne
  <2>6. g[n] = f[n]
    BY <2>2, <2>5 DEF N
  <2>7. g[n + 1] = g[n] \o more[n + 1]
    BY <2>2, <1>2 DEF Flattening
  <2> QED BY <1>1, <1>2, <2>1, <2>6, <2>7 DEF Flattening, more
<1> QED BY <1>3, <1>4

LEMMA FlattenStep ==
    ASSUME NEW S, NEW seqs \in Seq(Seq(S)), NEW i \in 1..Len(seqs)
    PROVE  /\ i - 1 \in 0..Len(seqs) /\ i \in 0..Len(seqs) /\ seqs[i] \in Seq(S)
           /\ FlattenSeq(Upto(seqs, i - 1)) \in Seq(S) /\ FlattenSeq(Upto(seqs, i)) \in Seq(S)
           /\ FlattenSeq(Upto(seqs, i)) = FlattenSeq(Upto(seqs, i - 1)) \o seqs[i]
<1>1. /\ i - 1 \in 0..Len(seqs) /\ i \in 0..Len(seqs) /\ seqs[i] \in Seq(S)
      /\ Upto(seqs, i) = Append(Upto(seqs, i - 1), seqs[i])
  BY UptoFacts
<1>2. Upto(seqs, i) \in Seq(Seq(S)) /\ Upto(seqs, i - 1) \in Seq(Seq(S))
  BY <1>1, UptoFacts
<1> QED BY <1>1, <1>2, FlattenAppend, FlattenIsSequence

LEMMA FlattenEnds ==
    ASSUME NEW S, NEW seqs \in Seq(Seq(S))
    PROVE  FlattenSeq(Upto(seqs, 0)) = <<>> /\ FlattenSeq(Upto(seqs, Len(seqs))) = FlattenSeq(seqs)
  BY UptoFacts, FlattenNothing

LEMMA ConcatElements ==
    ASSUME NEW S, NEW s \in Seq(S), NEW t \in Seq(S)
    PROVE  /\ s \o t \in Seq(S) /\ Len(s \o t) = Len(s) + Len(t)
           /\ \A i \in 1..Len(s) : (s \o t)[i] = s[i]
           /\ \A i \in (Len(s) + 1)..(Len(s) + Len(t)) : (s \o t)[i] = t[i - Len(s)]
<1>1. Len(s) \in Nat /\ Len(t) \in Nat
  OBVIOUS
<1>2. s \o t \in Seq(S) /\ Len(s \o t) = Len(s) + Len(t)
  OBVIOUS
<1>3. \A i \in 1..Len(s) : (s \o t)[i] = s[i]
  OBVIOUS
<1>4. ASSUME NEW i \in (Len(s) + 1)..(Len(s) + Len(t)) PROVE (s \o t)[i] = t[i - Len(s)]
  BY <1>1
<1> QED BY <1>2, <1>3, <1>4

LEMMA ConcatRange ==
    ASSUME NEW S, NEW s \in Seq(S), NEW t \in Seq(S) PROVE Range(s \o t) = Range(s) \cup Range(t)
<1>1. /\ Len(s) \in Nat /\ DOMAIN s = 1..Len(s) /\ Len(t) \in Nat /\ DOMAIN t = 1..Len(t)
      /\ DOMAIN (s \o t) = 1..(Len(s) + Len(t))
  OBVIOUS
<1>2. \A k \in 1..Len(s) : (s \o t)[k] = s[k] /\ k \in DOMAIN (s \o t)
  OBVIOUS
<1>3. ASSUME NEW k \in 1..Len(t) PROVE Len(s) + k \in DOMAIN (s \o t) /\ (s \o t)[Len(s) + k] = t[k]
  BY <1>1
<1>4. ASSUME NEW k \in DOMAIN (s \o t) PROVE (s \o t)[k] \in Range(s) \cup Range(t)
  <2>1. CASE k \in 1..Len(s)
    BY <1>1, <1>2, <2>1 DEF Range
  <2>2. CASE k \notin 1..Len(s)
    <3>1. k - Len(s) \in 1..Len(t) /\ Len(s) + (k - Len(s)) = k
      BY <1>1, <2>2
    <3>2. (s \o t)[k] = t[k - Len(s)]
      BY <1>3, <3>1
    <3> QED BY <1>1, <3>1, <3>2 DEF Range
  <2> QED BY <2>1, <2>2
<1>5. Range(s \o t) \subseteq Range(s) \cup Range(t)
  BY <1>4 DEF Range
<1>6. Range(s) \subseteq Range(s \o t) /\ Range(t) \subseteq Range(s \o t)
  BY <1>1, <1>2, <1>3 DEF Range
<1> QED BY <1>5, <1>6

\* Nothing is added and nothing is left out.
LEMMA FlattenElements ==
    ASSUME NEW S, NEW seqs \in Seq(Seq(S)), NEW x
    PROVE  x \in Range(FlattenSeq(seqs)) <=> \E i \in 1..Len(seqs) : x \in Range(seqs[i])
<1> DEFINE flat(i) == FlattenSeq(Upto(seqs, i))
           N == {i \in 0..Len(seqs) : x \in Range(flat(i)) <=> \E j \in 1..i : x \in Range(seqs[j])}
<1>1. Len(seqs) \in Nat
  OBVIOUS
<1>2. 0 \in N
  <2>1. flat(0) = <<>> /\ Range(<<>>) = {} /\ 1..0 = {} /\ 0 \in 0..Len(seqs)
    BY FlattenEnds DEF Range
  <2> QED BY <2>1
<1>3. ASSUME NEW i \in 1..Len(seqs), i - 1 \in N PROVE i \in N
  <2>1. /\ flat(i - 1) \in Seq(S) /\ seqs[i] \in Seq(S) /\ flat(i) = flat(i - 1) \o seqs[i] /\ i \in 0..Len(seqs)
    BY FlattenStep
  <2> HIDE DEF flat
  <2>2. Range(flat(i)) = Range(flat(i - 1)) \cup Range(seqs[i])
    BY <2>1, ConcatRange
  <2>3. 1..i = (1..(i - 1)) \cup {i}
    BY <1>1
  <2> QED BY <1>3, <2>1, <2>2, <2>3
<1> HIDE DEF N
<1>4. 0..Len(seqs) \subseteq N
  BY <1>1, <1>2, <1>3, UpTo
<1>5. Len(seqs) \in N
  BY <1>1, <1>4
<1>6. flat(Len(seqs)) = FlattenSeq(seqs)
  BY FlattenEnds
<1> QED BY <1>5, <1>6 DEF N

-----------------------------------------------------------------------------
(* Elements chosen for what they are. *)

Chosen(s, P) == Kept(s, {i \in DOMAIN s : s[i] \in P})

\* Only positions of the sequence matter.
LEMMA KeptSame ==
    ASSUME NEW S, NEW s \in Seq(S), NEW H, NEW G, \A i \in 1..Len(s) : i \in H <=> i \in G
    PROVE  Kept(s, H) = Kept(s, G)
<1> DEFINE h(i) == Kept(Upto(s, i), H)
           g(i) == Kept(Upto(s, i), G)
           N == {i \in 0..Len(s) : h(i) = g(i)}
<1>1. Len(s) \in Nat /\ h(0) = g(0) /\ h(Len(s)) = Kept(s, H) /\ g(Len(s)) = Kept(s, G)
  BY KeptUpto
<1>2. ASSUME NEW i \in 1..Len(s)
      PROVE  /\ i \in 0..Len(s)
             /\ i \in H => h(i) = Append(h(i - 1), s[i])
             /\ i \notin H => h(i) = h(i - 1)
             /\ i \in G => g(i) = Append(g(i - 1), s[i])
             /\ i \notin G => g(i) = g(i - 1)
  BY KeptStep
<1> HIDE DEF h, g
<1>3. 0 \in N
  BY <1>1
<1>4. \A i \in 1..Len(s) : i - 1 \in N => i \in N
  BY <1>2
<1> HIDE DEF N
<1>5. 0..Len(s) \subseteq N
  BY <1>1, <1>3, <1>4, UpTo
<1>6. Len(s) \in N
  BY <1>1, <1>5
<1> QED BY <1>1, <1>6 DEF N

LEMMA ChosenNothing == ASSUME NEW P PROVE Chosen(<<>>, P) = <<>>
  BY KeptNothing DEF Chosen

LEMMA ChosenAppend ==
    ASSUME NEW S, NEW s \in Seq(S), NEW x \in S, NEW P
    PROVE  /\ Chosen(s, P) \in Seq(S)
           /\ x \in P => Chosen(Append(s, x), P) = Append(Chosen(s, P), x)
           /\ x \notin P => Chosen(Append(s, x), P) = Chosen(s, P)
<1> DEFINE t == Append(s, x)
           H == {i \in DOMAIN t : t[i] \in P}
           G == {i \in DOMAIN s : s[i] \in P}
<1>1. t \in Seq(S) /\ Len(s) \in Nat /\ DOMAIN t = 1..(Len(s) + 1) /\ DOMAIN s = 1..Len(s)
  OBVIOUS
<1>2. t[Len(s) + 1] = x /\ \A i \in 1..Len(s) : t[i] = s[i]
  OBVIOUS
<1>3. Len(s) + 1 \in H <=> x \in P
  BY <1>1, <1>2
<1>4. \A i \in 1..Len(s) : i \in H <=> i \in G
  BY <1>1, <1>2
<1> HIDE DEF H, G
<1>5. Kept(s, H) = Kept(s, G) /\ Kept(s, G) \in Seq(S)
  BY <1>4, KeptSame, KeptIsList
<1>6. /\ Len(s) + 1 \in H => Kept(t, H) = Append(Kept(s, H), x)
      /\ Len(s) + 1 \notin H => Kept(t, H) = Kept(s, H)
  BY KeptAppend
<1>7. Chosen(t, P) = Kept(t, H) /\ Chosen(s, P) = Kept(s, G)
  BY DEF Chosen, H, G
<1> QED BY <1>3, <1>5, <1>6, <1>7 DEF t

LEMMA ChosenMore ==
    ASSUME NEW S, NEW s \in Seq(S), NEW x \in S, NEW P, x \in P
    PROVE  Chosen(Append(s, x), P) = Append(Chosen(s, P), x)
  BY ChosenAppend

LEMMA ChosenLess ==
    ASSUME NEW S, NEW s \in Seq(S), NEW x \in S, NEW P, x \notin P
    PROVE  Chosen(Append(s, x), P) = Chosen(s, P)
  BY ChosenAppend

LEMMA ChosenConcat ==
    ASSUME NEW S, NEW s \in Seq(S), NEW t \in Seq(S), NEW P
    PROVE  Chosen(s \o t, P) = Chosen(s, P) \o Chosen(t, P)
<1> DEFINE T == {u \in Seq(S) : Chosen(s \o u, P) = Chosen(s, P) \o Chosen(u, P)}
<1>1. Upto(t, 0) \in T
  <2>1. Upto(t, 0) = <<>> /\ s \o <<>> = s /\ <<>> \in Seq(S)
    BY UptoFacts
  <2>2. Chosen(s, P) \in Seq(S)
    BY KeptIsList DEF Chosen
  <2>3. Chosen(s, P) \o <<>> = Chosen(s, P)
    BY <2>2
  <2> QED BY <2>1, <2>3, ChosenNothing
<1>2. ASSUME NEW i \in 1..Len(t), Upto(t, i - 1) \in T PROVE Upto(t, i) \in T
  <2> DEFINE u == Upto(t, i - 1)
             x == t[i]
  <2>1. Upto(t, i) = Append(u, x) /\ u \in Seq(S) /\ x \in S
    BY UptoFacts
  <2>2. Chosen(s \o u, P) = Chosen(s, P) \o Chosen(u, P)
    BY <1>2
  <2> HIDE DEF u, x
  <2>3. s \o Append(u, x) = Append(s \o u, x) /\ s \o u \in Seq(S) /\ Append(u, x) \in Seq(S)
    BY <2>1
  <2>4. /\ x \in P => Chosen(Append(u, x), P) = Append(Chosen(u, P), x)
        /\ x \notin P => Chosen(Append(u, x), P) = Chosen(u, P)
    BY <2>1, ChosenMore, ChosenLess
  <2>5. /\ x \in P => Chosen(Append(s \o u, x), P) = Append(Chosen(s \o u, P), x)
        /\ x \notin P => Chosen(Append(s \o u, x), P) = Chosen(s \o u, P)
    BY <2>1, <2>3, ChosenMore, ChosenLess, ZenonT(40)
  <2>6. Chosen(s, P) \in Seq(S) /\ Chosen(u, P) \in Seq(S)
    BY <2>1, KeptIsList DEF Chosen
  <2>7. Chosen(s, P) \o Append(Chosen(u, P), x) = Append(Chosen(s, P) \o Chosen(u, P), x)
    BY <2>1, <2>6
  <2>8. Chosen(s \o Append(u, x), P) = Chosen(s, P) \o Chosen(Append(u, x), P)
    BY <2>2, <2>3, <2>4, <2>5, <2>7
  <2> QED BY <2>1, <2>3, <2>8
<1> HIDE DEF T
<1>3. t \in T
  BY <1>1, <1>2, PrefixInduction
<1> QED BY <1>3 DEF T

LEMMA ChosenAll ==
    ASSUME NEW S, NEW s \in Seq(S), NEW P, \A i \in 1..Len(s) : s[i] \in P
    PROVE  Chosen(s, P) = s
<1> DEFINE T == {u \in Seq(S) : Chosen(u, P) = u}
<1>1. Upto(s, 0) \in T
  <2>1. Upto(s, 0) = <<>> /\ <<>> \in Seq(S)
    BY UptoFacts
  <2> QED BY <2>1, ChosenNothing
<1>2. ASSUME NEW i \in 1..Len(s), Upto(s, i - 1) \in T PROVE Upto(s, i) \in T
  <2> DEFINE u == Upto(s, i - 1)
  <2>1. Upto(s, i) = Append(u, s[i]) /\ u \in Seq(S) /\ s[i] \in S /\ s[i] \in P
    BY UptoFacts
  <2>2. Chosen(u, P) = u
    BY <1>2
  <2> HIDE DEF u
  <2>3. Chosen(Append(u, s[i]), P) = Append(Chosen(u, P), s[i])
    BY <2>1, ChosenMore, ChosenLess
  <2>4. Append(u, s[i]) \in Seq(S)
    BY <2>1
  <2> QED BY <2>1, <2>2, <2>3, <2>4
<1> HIDE DEF T
<1>3. s \in T
  BY <1>1, <1>2, PrefixInduction
<1> QED BY <1>3 DEF T

LEMMA ChosenNone ==
    ASSUME NEW S, NEW s \in Seq(S), NEW P, \A i \in 1..Len(s) : s[i] \notin P
    PROVE  Chosen(s, P) = <<>>
<1> DEFINE T == {u \in Seq(S) : Chosen(u, P) = <<>>}
<1>1. Upto(s, 0) \in T
  <2>1. Upto(s, 0) = <<>> /\ <<>> \in Seq(S)
    BY UptoFacts
  <2> QED BY <2>1, ChosenNothing
<1>2. ASSUME NEW i \in 1..Len(s), Upto(s, i - 1) \in T PROVE Upto(s, i) \in T
  <2> DEFINE u == Upto(s, i - 1)
  <2>1. Upto(s, i) = Append(u, s[i]) /\ u \in Seq(S) /\ s[i] \in S /\ s[i] \notin P
    BY UptoFacts
  <2>2. Chosen(u, P) = <<>>
    BY <1>2
  <2> HIDE DEF u
  <2>3. Chosen(Append(u, s[i]), P) = Chosen(u, P)
    BY <2>1, ChosenMore, ChosenLess
  <2>4. Append(u, s[i]) \in Seq(S)
    BY <2>1
  <2> QED BY <2>1, <2>2, <2>3, <2>4
<1> HIDE DEF T
<1>3. s \in T
  BY <1>1, <1>2, PrefixInduction
<1> QED BY <1>3 DEF T

\* What is chosen is of both sets, and everything that is of both is chosen.
LEMMA ChosenElements ==
    ASSUME NEW S, NEW s \in Seq(S), NEW P
    PROVE  /\ Chosen(s, P) \in Seq(S \cap P)
           /\ \A i \in 1..Len(s) : s[i] \in P => s[i] \in Range(Chosen(s, P))
           /\ Range(Chosen(s, P)) \subseteq Range(s)
<1> DEFINE H == {i \in DOMAIN s : s[i] \in P}
           c == Kept(s, H)
<1>1. c = Chosen(s, P) /\ c \in Seq(S) /\ DOMAIN s = 1..Len(s)
  BY KeptIsList DEF Chosen
<1>2. ASSUME NEW i \in 1..Len(s), s[i] \in P PROVE s[i] \in Range(c)
  <2>1. i \in H
    BY <1>1, <1>2
  <2> HIDE DEF H
  <2>2. Tally(s, H, i) \in 1..Len(c) /\ c[Tally(s, H, i)] = s[i]
    BY <2>1, KeptElements
  <2> HIDE DEF c
  <2>3. DOMAIN c = 1..Len(c)
    BY <1>1
  <2> QED BY <2>2, <2>3 DEF Range
<1>3. ASSUME NEW k \in 1..Len(c) PROVE c[k] \in S \cap P /\ c[k] \in Range(s)
  <2>1. PICK i \in 1..Len(s) : i \in H /\ Tally(s, H, i) = k
    <3> HIDE DEF H
    <3> QED BY <1>1, KeptOnto DEF c
  <2>2. c[Tally(s, H, i)] = s[i]
    <3> HIDE DEF H
    <3> QED BY <2>1, KeptElements DEF c
  <2>3. s[i] \in S \cap P /\ s[i] \in Range(s)
    BY <1>1, <2>1 DEF Range
  <2> HIDE DEF c, H
  <2> QED BY <2>1, <2>2, <2>3
<1> HIDE DEF c, H
<1>4. c \in Seq(S \cap P)
  <2>1. c = [k \in 1..Len(c) |-> c[k]] /\ Len(c) \in Nat
    BY <1>1
  <2> QED BY <1>3, <2>1, SeqDef
<1>5. Range(c) \subseteq Range(s)
  <2>1. DOMAIN c = 1..Len(c)
    BY <1>1
  <2> QED BY <1>3, <2>1 DEF Range
<1> QED BY <1>1, <1>2, <1>4, <1>5

-----------------------------------------------------------------------------
(* Splices. *)

LEMMA SpliceElements ==
    ASSUME NEW S, NEW u \in Seq(S), NEW new \in Seq(S), NEW a \in 1..(Len(u) + 1), NEW b \in a..(Len(u) + 1)
    PROVE  /\ splice(u, a, b, new) \in Seq(S)
           /\ Len(splice(u, a, b, new)) = Len(u) + Len(new) - (b - a)
           /\ \A i \in 1..(a - 1) : splice(u, a, b, new)[i] = u[i]
           /\ \A i \in a..(a + Len(new) - 1) : splice(u, a, b, new)[i] = new[i - a + 1]
           /\ \A i \in (a + Len(new))..(Len(u) + Len(new) - (b - a)) :
                splice(u, a, b, new)[i] = u[i - Len(new) + (b - a)]
<1> DEFINE s == SubSeq(u, 1, a - 1)
           t == SubSeq(u, b, Len(u))
<1>1. Len(u) \in Nat /\ Len(new) \in Nat /\ a \in Nat /\ b \in Nat /\ 1 <= a /\ a <= b /\ b <= Len(u) + 1
  OBVIOUS
<1>2. s \in Seq(S) /\ Len(s) = a - 1 /\ \A i \in 1..(a - 1) : s[i] = u[i]
  OBVIOUS
<1>3. t \in Seq(S) /\ Len(t) = Len(u) - b + 1 /\ \A i \in 1..Len(t) : t[i] = u[b + i - 1]
  <2>1. CASE b = Len(u) + 1
    BY <1>1, <2>1
  <2>2. CASE b # Len(u) + 1
    <3>1. b \in 1..Len(u)
      BY <1>1, <2>2
    <3>2. t \in Seq(S) /\ Len(t) = Len(u) - b + 1
      BY <3>1
    <3>3. \A i \in 1..(Len(u) - b + 1) : t[i] = u[b + i - 1]
      BY <3>1
    <3> QED BY <3>2, <3>3
  <2> QED BY <2>1, <2>2
<1>4. splice(u, a, b, new) = (s \o new) \o t
  BY DEF splice
<1> HIDE DEF s, t
<1> DEFINE q == s \o new
<1>5. /\ q \in Seq(S) /\ Len(q) = a - 1 + Len(new)
      /\ \A i \in 1..(a - 1) : q[i] = s[i]
      /\ \A i \in a..(a - 1 + Len(new)) : q[i] = new[i - (a - 1)]
  <2>1. /\ q \in Seq(S) /\ Len(q) = Len(s) + Len(new)
        /\ \A i \in 1..Len(s) : q[i] = s[i]
        /\ \A i \in (Len(s) + 1)..(Len(s) + Len(new)) : q[i] = new[i - Len(s)]
    BY <1>2, ConcatElements
  <2>2. Len(s) + 1 = a
    BY <1>1, <1>2
  <2> QED BY <2>1, <2>2, <1>2
<1> HIDE DEF q
<1> DEFINE r == q \o t
<1>6. /\ r \in Seq(S) /\ Len(r) = Len(q) + Len(t)
      /\ \A i \in 1..Len(q) : r[i] = q[i]
      /\ \A i \in (Len(q) + 1)..(Len(q) + Len(t)) : r[i] = t[i - Len(q)]
  BY <1>3, <1>5, ConcatElements
<1> HIDE DEF r
<1>7. Len(r) = Len(u) + Len(new) - (b - a) /\ Len(q) + Len(t) = Len(u) + Len(new) - (b - a)
  BY <1>1, <1>3, <1>5, <1>6
<1>8. ASSUME NEW i \in 1..(a - 1) PROVE r[i] = u[i]
  <2>1. i \in 1..Len(q)
    BY <1>1, <1>5
  <2> QED BY <2>1, <1>2, <1>5, <1>6
<1>9. ASSUME NEW i \in a..(a + Len(new) - 1) PROVE r[i] = new[i - a + 1]
  <2>1. i \in 1..Len(q) /\ i \in a..(a - 1 + Len(new)) /\ i - (a - 1) = i - a + 1
    BY <1>1, <1>5
  <2> QED BY <2>1, <1>5, <1>6
<1>10. ASSUME NEW i \in (a + Len(new))..(Len(u) + Len(new) - (b - a)) PROVE r[i] = u[i - Len(new) + (b - a)]
  <2>1. /\ i \in (Len(q) + 1)..(Len(q) + Len(t)) /\ i - Len(q) \in 1..Len(t)
        /\ b + (i - Len(q)) - 1 = i - Len(new) + (b - a)
    BY <1>1, <1>3, <1>5, <1>7
  <2> QED BY <2>1, <1>3, <1>6
<1>11. splice(u, a, b, new) = r
  BY <1>4 DEF r, q
<1> QED BY <1>6, <1>7, <1>8, <1>9, <1>10, <1>11

SpliceIs(S, u, a, b, new, r) ==
    /\ r \in Seq(S)
    /\ Len(r) = Len(u) + Len(new) - (b - a)
    /\ \A i \in 1..(a - 1) : r[i] = u[i]
    /\ \A i \in a..(a + Len(new) - 1) : r[i] = new[i - a + 1]
    /\ \A i \in (a + Len(new))..(Len(u) + Len(new) - (b - a)) : r[i] = u[i - Len(new) + (b - a)]

LEMMA SpliceFacts ==
    ASSUME NEW S, NEW u \in Seq(S), NEW new \in Seq(S), NEW a \in 1..(Len(u) + 1), NEW b \in a..(Len(u) + 1)
    PROVE  SpliceIs(S, u, a, b, new, splice(u, a, b, new))
<1>1. splice(u, a, b, new) \in Seq(S) /\ Len(splice(u, a, b, new)) = Len(u) + Len(new) - (b - a)
  BY SpliceElements
<1>2. \A i \in 1..(a - 1) : splice(u, a, b, new)[i] = u[i]
  BY SpliceElements
<1>3. \A i \in a..(a + Len(new) - 1) : splice(u, a, b, new)[i] = new[i - a + 1]
  BY SpliceElements
<1>4. \A i \in (a + Len(new))..(Len(u) + Len(new) - (b - a)) :
            splice(u, a, b, new)[i] = u[i - Len(new) + (b - a)]
  BY SpliceElements
<1> QED BY <1>1, <1>2, <1>3, <1>4 DEF SpliceIs

\* v is what is left of u in its order, with elements of Z among it.
Thins(v, u, Z, f) ==
    /\ f \in [1..Len(v) -> 0..Len(u)]
    /\ \A i \in 1..Len(v) : f[i] = 0 => v[i] \in Z
    /\ \A i \in 1..Len(v) : f[i] # 0 => v[i] = u[f[i]]
    /\ \A i, j \in 1..Len(v) : i < j /\ f[i] # 0 /\ f[j] # 0 => f[i] < f[j]

Thinned(v, u, Z) == \E f : Thins(v, u, Z, f)

LEMMA SpliceThins ==
    ASSUME NEW S, NEW u \in Seq(S), NEW new \in Seq(S), NEW a \in 1..(Len(u) + 1), NEW b \in a..(Len(u) + 1)
    PROVE  Thinned(splice(u, a, b, new), u, Range(new))
<1> DEFINE v == splice(u, a, b, new)
           d == Len(new) - (b - a)
           f == [i \in 1..Len(v) |-> IF i < a THEN i ELSE IF i < a + Len(new) THEN 0 ELSE i - d]
<1>1. Len(u) \in Nat /\ Len(new) \in Nat /\ a \in Nat /\ b \in Nat /\ 1 <= a /\ a <= b /\ b <= Len(u) + 1
  OBVIOUS
<1>2. /\ v \in Seq(S) /\ Len(v) = Len(u) + d
      /\ \A i \in 1..(a - 1) : v[i] = u[i]
      /\ \A i \in a..(a + Len(new) - 1) : v[i] = new[i - a + 1]
      /\ \A i \in (a + Len(new))..(Len(u) + d) : v[i] = u[i - d]
  <2>1. Len(u) + Len(new) - (b - a) = Len(u) + d /\ \A i \in Nat : i - Len(new) + (b - a) = i - d
    BY <1>1
  <2>2. \A i \in (a + Len(new))..(Len(u) + Len(new) - (b - a)) : v[i] = u[i - Len(new) + (b - a)]
    BY SpliceElements
  <2>3. ASSUME NEW i \in (a + Len(new))..(Len(u) + d) PROVE v[i] = u[i - d]
    <3>1. i \in Nat /\ i \in (a + Len(new))..(Len(u) + Len(new) - (b - a))
      BY <1>1, <2>1
    <3> QED BY <3>1, <2>1, <2>2
  <2>4. v \in Seq(S) /\ Len(v) = Len(u) + Len(new) - (b - a)
    BY SpliceElements
  <2>5. \A i \in 1..(a - 1) : v[i] = u[i]
    BY SpliceElements
  <2>6. \A i \in a..(a + Len(new) - 1) : v[i] = new[i - a + 1]
    BY SpliceElements
  <2> HIDE DEF v, d
  <2> QED BY <2>1, <2>3, <2>4, <2>5, <2>6
<1> HIDE DEF v
<1>3. ASSUME NEW i \in 1..Len(v)
      PROVE  /\ i < a => f[i] = i /\ v[i] = u[i] /\ i \in 1..Len(u)
             /\ i >= a /\ i < a + Len(new) => f[i] = 0 /\ v[i] \in Range(new)
             /\ i >= a + Len(new) => f[i] = i - d /\ v[i] = u[i - d] /\ i - d \in 1..Len(u) /\ i - d >= a
  <2>1. CASE i < a
    <3>1. i \in 1..(a - 1) /\ i \in 1..Len(u)
      BY <1>1, <2>1
    <3> QED BY <1>1, <1>2, <2>1, <3>1
  <2>2. CASE i >= a /\ i < a + Len(new)
    <3>1. i \in a..(a + Len(new) - 1) /\ i - a + 1 \in 1..Len(new)
      BY <1>1, <2>2
    <3>2. v[i] = new[i - a + 1]
      BY <1>2, <3>1, Zenon
    <3>3. DOMAIN new = 1..Len(new)
      OBVIOUS
    <3>4. new[i - a + 1] \in Range(new)
      BY <3>1, <3>3 DEF Range
    <3>5. f[i] = 0
      BY <1>2, <2>2
    <3>6. i < a + Len(new) /\ ~(i < a) /\ ~(i >= a + Len(new))
      BY <1>1, <2>2
    <3> QED BY <3>2, <3>4, <3>5, <3>6, Zenon
  <2>3. CASE i >= a + Len(new)
    <3>1. i \in (a + Len(new))..(Len(u) + d) /\ i - d \in 1..Len(u) /\ i - d >= a
      BY <1>1, <1>2, <2>3
    <3>2. v[i] = u[i - d]
      BY <1>2, <3>1, Zenon
    <3>3. f[i] = i - d
      BY <1>1, <2>3
    <3>4. ~(i < a) /\ ~(i < a + Len(new))
      BY <1>1, <2>3
    <3> HIDE DEF d, f
    <3> QED BY <3>1, <3>2, <3>3, <3>4, Zenon
  <2> QED BY <1>1, <2>1, <2>2, <2>3
<1>4. Len(v) \in Nat /\ d \in Int /\ DOMAIN f = 1..Len(v) /\ f = [i \in 1..Len(v) |-> f[i]]
  BY <1>1, <1>2
<1> HIDE DEF f, d
<1>5. \A i \in 1..Len(v) : f[i] \in 0..Len(u)
  BY <1>1, <1>3, <1>4
<1>6. ASSUME NEW i \in 1..Len(v), f[i] = 0 PROVE v[i] \in Range(new)
  <2>1. i >= a /\ i < a + Len(new)
    BY <1>1, <1>3, <1>4, <1>6
  <2> QED BY <2>1, <1>3
<1>7. ASSUME NEW i \in 1..Len(v), f[i] # 0 PROVE v[i] = u[f[i]]
  <2>1. i < a \/ i >= a + Len(new)
    BY <1>1, <1>3, <1>4, <1>7
  <2> QED BY <2>1, <1>3
<1>8. ASSUME NEW i \in 1..Len(v), NEW j \in 1..Len(v), i < j, f[i] # 0, f[j] # 0 PROVE f[i] < f[j]
  <2>1. i \in Nat /\ j \in Nat
    BY <1>4
  <2>2. (i < a \/ i >= a + Len(new)) /\ (j < a \/ j >= a + Len(new))
    BY <1>1, <1>3, <1>8, <2>1
  <2>3. CASE i < a /\ j < a
    BY <1>3, <1>8, <2>3
  <2>4. CASE i < a /\ j >= a + Len(new)
    <3>1. f[i] = i /\ f[j] = j - d /\ j - d >= a
      BY <1>3, <2>4
    <3> QED BY <3>1, <2>1, <2>4, <1>1, <1>4
  <2>5. CASE i >= a + Len(new) /\ j >= a + Len(new)
    <3>1. f[i] = i - d /\ f[j] = j - d
      BY <1>3, <2>5
    <3> QED BY <3>1, <2>1, <1>8, <1>4
  <2> QED BY <2>1, <2>2, <2>3, <2>4, <2>5, <1>1, <1>8
<1>9. f \in [1..Len(v) -> 0..Len(u)]
  BY <1>4, <1>5
<1> QED BY <1>6, <1>7, <1>8, <1>9 DEF Thinned, Thins, v

LEMMA KeptThins ==
    ASSUME NEW S, NEW s \in Seq(S), NEW hits, NEW Z PROVE Thinned(Kept(s, hits), s, Z)
<1> DEFINE v == Kept(s, hits)
           at(k) == CHOOSE i \in 1..Len(s) : i \in hits /\ Tally(s, hits, i) = k
           f == [k \in 1..Len(v) |-> at(k)]
<1>1. ASSUME NEW k \in 1..Len(v) PROVE at(k) \in 1..Len(s) /\ at(k) \in hits /\ Tally(s, hits, at(k)) = k
  <2>1. \E i \in 1..Len(s) : i \in hits /\ Tally(s, hits, i) = k
    BY KeptOnto
  <2> QED BY <2>1
<1>2. ASSUME NEW k \in 1..Len(v) PROVE v[k] = s[at(k)]
  <2> DEFINE i == at(k)
  <2>1. i \in 1..Len(s) /\ i \in hits /\ Tally(s, hits, i) = k
    BY <1>1
  <2> HIDE DEF i
  <2>2. v[Tally(s, hits, i)] = s[i]
    BY <2>1, KeptElements
  <2> HIDE DEF v
  <2> QED BY <2>1, <2>2 DEF i
<1>3. ASSUME NEW i \in 1..Len(v), NEW j \in 1..Len(v), i < j PROVE at(i) < at(j)
  <2> SUFFICES ASSUME ~(at(i) < at(j)) PROVE FALSE
    OBVIOUS
  <2>1. at(i) \in 1..Len(s) /\ at(j) \in 1..Len(s) /\ Tally(s, hits, at(i)) = i /\ Tally(s, hits, at(j)) = j
    BY <1>1
  <2> HIDE DEF at
  <2>2. at(j) \in 0..Len(s) /\ at(i) \in at(j)..Len(s)
    BY <2>1
  <2>3. Tally(s, hits, at(j)) <= Tally(s, hits, at(i))
    BY <2>2, TallyGrows
  <2>4. i \in Int /\ j \in Int
    OBVIOUS
  <2> QED BY <1>3, <2>1, <2>3, <2>4
<1> HIDE DEF at, v
<1>4. f \in [1..Len(v) -> 0..Len(s)] /\ \A i \in 1..Len(v) : f[i] = at(i) /\ f[i] # 0
  BY <1>1
<1> HIDE DEF f
<1> QED BY <1>2, <1>3, <1>4 DEF Thinned, Thins, v

LEMMA ThinnedIsList ==
    ASSUME NEW S, NEW u \in Seq(S), NEW Z \in SUBSET S, NEW R, NEW v \in Seq(R), Thinned(v, u, Z)
    PROVE  v \in Seq(S)
<1>1. PICK f : Thins(v, u, Z, f)
  BY DEF Thinned
<1>2. \A i \in 1..Len(v) : v[i] \in S
  <2>1. \A i \in 1..Len(v) : f[i] # 0 => f[i] \in 1..Len(u) /\ u[f[i]] \in S
    BY <1>1 DEF Thins
  <2> QED BY <1>1, <2>1 DEF Thins
<1>3. v = [i \in 1..Len(v) |-> v[i]] /\ Len(v) \in Nat
  OBVIOUS
<1> QED BY <1>2, <1>3, SeqDef

-----------------------------------------------------------------------------
(* All splices.  Of what is found, each begins behind the end of the one     *)
(* before, and all are within n items.                                      *)

Spaced(found, skip, width, n) ==
    /\ found \in Seq(1..n)
    /\ \A i \in 1..Len(found) : found[i] + skip + width <= n + 1
    /\ \A i, j \in 1..Len(found) : i < j => found[i] < found[j] /\ found[i] + width <= found[j]

\* Where the k-th splice begins, from the last to the first.
SplicedAt(found, skip, k) == found[Len(found) - k + 1] + skip

\* f is the recursion in SpliceAll.
Splicing(S, items, found, skip, width, new, f) ==
    /\ f \in [0..Len(found) -> Seq(S)] /\ f[0] = items
    /\ SpliceAll(items, found, skip, width, new) = f[Len(found)]
    /\ \A k \in 1..Len(found) :
        /\ SplicedAt(found, skip, k) \in 1..(Len(f[k - 1]) + 1)
        /\ SplicedAt(found, skip, k) + width \in SplicedAt(found, skip, k)..(Len(f[k - 1]) + 1)
        /\ f[k] = splice(f[k - 1], SplicedAt(found, skip, k), SplicedAt(found, skip, k) + width, new)

LEMMA SpliceSteps ==
    ASSUME NEW S, NEW items \in Seq(S), NEW new \in Seq(S), NEW skip \in Nat, NEW width \in Nat,
           NEW found, Spaced(found, skip, width, Len(items))
    PROVE  \E f : Splicing(S, items, found, skip, width, new, f)
<1> DEFINE m == Len(found)
           n == Len(items)
           V == Seq(S)
           at(k) == SplicedAt(found, skip, k)
           fits(k, t) == at(k) + width <= Len(t) + 1
           new_(k, t) == splice(t, at(k), at(k) + width, new)
           next(k, t) == IF fits(k, t) THEN new_(k, t) ELSE t
           step == [k \in 1..m |-> [t \in V |-> next(k, t)]]
           Fits(f) == f = [k \in 0..m |-> IF k = 0 THEN items
                                          ELSE splice(f[k - 1], found[Len(found) - k + 1] + skip,
                                                      found[Len(found) - k + 1] + skip + width, new)]
           all == CHOOSE f : Fits(f)
<1>1. n \in Nat /\ m \in Nat /\ items \in V
  BY DEF Spaced
<1>2. ASSUME NEW k \in 1..m
      PROVE  /\ at(k) \in Nat \ {0} /\ at(k) + width <= n + 1
             /\ k < m => at(k + 1) + width <= at(k)
  <2>1. m - k + 1 \in 1..m /\ found[m - k + 1] \in 1..n /\ found[m - k + 1] + skip + width <= n + 1
    BY <1>1, SMTT(30) DEF Spaced
  <2>2. ASSUME k < m PROVE at(k + 1) + width <= at(k)
    <3>1. m - (k + 1) + 1 \in 1..m /\ m - (k + 1) + 1 < m - k + 1
      BY <1>1, <2>2
    <3>2. ASSUME NEW i \in 1..m, NEW j \in 1..m, i < j PROVE found[i] + width <= found[j]
      BY <3>2 DEF Spaced
    <3>3. found[m - (k + 1) + 1] + width <= found[m - k + 1] /\ found[m - (k + 1) + 1] \in 1..n
      <4> HIDE DEF m, n
      <4>1. \A i \in 1..m : found[i] \in 1..n
        BY SMTT(30) DEF Spaced, m, n
      <4> QED BY <2>1, <3>1, <3>2, <4>1
    <3> QED BY <2>1, <3>3, <1>1, SMTT(30) DEF SplicedAt
  <2> QED BY <2>1, <2>2 DEF SplicedAt
<1> HIDE DEF at
<1>3. ASSUME NEW k \in 1..m, NEW t \in V, fits(k, t)
      PROVE  /\ new_(k, t) \in V /\ at(k) \in 1..(Len(t) + 1) /\ at(k) + width \in at(k)..(Len(t) + 1)
             /\ k < m => fits(k + 1, new_(k, t))
  <2>1. at(k) \in 1..(Len(t) + 1) /\ at(k) + width \in at(k)..(Len(t) + 1) /\ Len(t) \in Nat /\ Len(new) \in Nat
    BY <1>2, <1>3
  <2>2. new_(k, t) \in Seq(S) /\ Len(new_(k, t)) = Len(t) + Len(new) - ((at(k) + width) - at(k))
    BY <2>1, SpliceElements
  <2> HIDE DEF new_
  <2>3. ASSUME k < m PROVE fits(k + 1, new_(k, t))
    <3>1. k + 1 \in 1..m
      BY <1>1, <2>3
    <3>2. at(k + 1) \in Nat /\ at(k + 1) + width <= at(k)
      BY <1>2, <2>3, <3>1
    <3>3. Len(new_(k, t)) + 1 >= at(k)
      <4>1. \A a, l, r \in Nat : a + width <= l + 1 => l + r - ((a + width) - a) + 1 >= a
        OBVIOUS
      <4>2. at(k) \in Nat /\ at(k) + width <= Len(t) + 1
        BY <1>2, <2>1
      <4> QED BY <4>1, <4>2, <2>1, <2>2
    <3> QED BY <2>1, <2>2, <3>2, <3>3, SMTT(30)
  <2> QED BY <2>1, <2>2, <2>3
<1> HIDE DEF new_, fits
<1>4. \A k \in 1..m, t \in V : next(k, t) \in V
  BY <1>3
<1>5. step \in [1..m -> [V -> V]] /\ \A k \in 1..m, t \in V : step[k][t] = next(k, t)
  <2> HIDE DEF next, V, m
  <2> QED BY <1>4
<1> HIDE DEF step, m, n, V
<1>6. PICK f \in [0..m -> V] : Recursive(m, items, step, f)
  BY <1>1, <1>5, Recursion
<1>7. ASSUME NEW k \in 1..m PROVE k - 1 \in 0..m /\ f[k - 1] \in V /\ f[k] = next(k, f[k - 1])
  <2>1. k - 1 \in 0..m
    BY <1>1
  <2>2. f[k - 1] \in V
    BY <1>6, <2>1
  <2>3. f[k] = step[k][f[k - 1]]
    BY <1>6 DEF Recursive
  <2> HIDE DEF next
  <2> QED BY <1>5, <2>1, <2>2, <2>3
<1>71. m # 0 => fits(1, items)
  BY <1>1, <1>2 DEF fits, n
<1>8. \A k \in 1..m : fits(k, f[k - 1])
  <2> DEFINE N == {k \in 0..m : k < m => fits(k + 1, f[k])}
  <2>1. 0 \in N
    BY <1>1, <1>6, <1>71 DEF Recursive
  <2>2. ASSUME NEW k \in 1..m, k - 1 \in N PROVE k \in N
    <3>1. (k - 1) + 1 = k /\ k - 1 < m /\ k \in 0..m
      BY <1>1
    <3>2. fits(k, f[k - 1])
      BY <2>2, <3>1
    <3>3. f[k] = new_(k, f[k - 1])
      BY <1>7, <3>2
    <3>4. k < m => fits(k + 1, f[k])
      BY <1>3, <1>7, <3>2, <3>3
    <3> QED BY <3>1, <3>4
  <2> HIDE DEF N
  <2>3. 0..m \subseteq N
    BY <1>1, <2>1, <2>2, UpTo
  <2>4. \A k \in 1..m : k - 1 \in 0..m /\ k - 1 < m /\ (k - 1) + 1 = k
    BY <1>1
  <2> QED BY <2>3, <2>4 DEF N
<1>9. \A k \in 1..m : f[k] = new_(k, f[k - 1])
  BY <1>7, <1>8
<1>10. Fits(f)
  <2>1. f = [k \in 0..m |-> f[k]]
    BY <1>6
  <2>2. \A k \in 0..m : k = 0 \/ k \in 1..m
    BY <1>1
  <2>3. \A k \in 0..m : f[k] = IF k = 0 THEN items
                                ELSE splice(f[k - 1], found[Len(found) - k + 1] + skip,
                                            found[Len(found) - k + 1] + skip + width, new)
    BY <1>6, <1>9, <2>2 DEF Recursive, new_, at, SplicedAt
  <2> QED BY <2>1, <2>3 DEF m
<1>11. Fits(all)
  <2> HIDE DEF Fits
  <2> QED BY <1>10
<1>12. SpliceAll(items, found, skip, width, new) = all[m]
  BY DEF SpliceAll, all, m
<1> HIDE DEF all
<1>13. all[0] = items /\ \A k \in 1..m : all[k] = new_(k, all[k - 1])
  <2>1. 0 \in 0..m /\ \A k \in 1..m : k \in 0..m /\ k # 0
    BY <1>1
  <2>2. \A k \in 0..m : all[k] = IF k = 0 THEN items
                                ELSE splice(all[k - 1], found[Len(found) - k + 1] + skip,
                                            found[Len(found) - k + 1] + skip + width, new)
    BY <1>11 DEF m
  <2> QED BY <2>1, <2>2 DEF new_, at, SplicedAt
<1> DEFINE N == {k \in 0..m : all[k] \in V /\ (k < m => fits(k + 1, all[k]))}
<1>14. 0 \in N
  BY <1>1, <1>13, <1>71
<1>15. ASSUME NEW k \in 1..m, k - 1 \in N PROVE k \in N
  <2>1. (k - 1) + 1 = k /\ k - 1 < m /\ k \in 0..m
    BY <1>1
  <2>2. fits(k, all[k - 1]) /\ all[k - 1] \in V
    BY <1>15, <2>1
  <2>3. all[k] = new_(k, all[k - 1])
    BY <1>13
  <2> QED BY <1>3, <2>1, <2>2, <2>3
<1> HIDE DEF N
<1>16. 0..m \subseteq N
  BY <1>1, <1>14, <1>15, UpTo
<1>17. all = [k \in 0..m |-> all[k]]
  <2> DEFINE e == [k \in 0..m |-> IF k = 0 THEN items
                                ELSE splice(all[k - 1], found[Len(found) - k + 1] + skip,
                                            found[Len(found) - k + 1] + skip + width, new)]
  <2>1. all = e
    BY <1>11 DEF m
  <2>2. e = [k \in 0..m |-> e[k]]
    OBVIOUS
  <2> QED BY <2>1, <2>2
<1>18. all \in [0..m -> V]
  BY <1>16, <1>17 DEF N
<1>19. ASSUME NEW k \in 1..m
       PROVE  /\ at(k) \in 1..(Len(all[k - 1]) + 1)
              /\ at(k) + width \in at(k)..(Len(all[k - 1]) + 1)
              /\ all[k] = splice(all[k - 1], at(k), at(k) + width, new)
  <2>1. k - 1 \in 0..m /\ k - 1 < m /\ (k - 1) + 1 = k
    BY <1>1
  <2>2. all[k - 1] \in V /\ fits(k, all[k - 1])
    BY <1>16, <2>1 DEF N
  <2>3. all[k] = new_(k, all[k - 1])
    BY <1>13
  <2> QED BY <1>3, <2>2, <2>3 DEF new_
<1> QED BY <1>12, <1>13, <1>18, <1>19 DEF Splicing, m, V, at

\* What every splice keeps, all of them keep.
LEMMA SpliceAllIn ==
    ASSUME NEW S, NEW T \in SUBSET Seq(S), NEW items \in T, NEW new \in Seq(S), NEW skip \in Nat,
           NEW width \in Nat, NEW found, Spaced(found, skip, width, Len(items)),
           \A u \in T : \A a \in 1..(Len(u) + 1) : \A b \in a..(Len(u) + 1) : splice(u, a, b, new) \in T
    PROVE  SpliceAll(items, found, skip, width, new) \in T
<1>1. items \in Seq(S)
  OBVIOUS
<1>2. PICK f : Splicing(S, items, found, skip, width, new, f)
  BY <1>1, SpliceSteps
<1> DEFINE m == Len(found)
           at(k) == SplicedAt(found, skip, k)
           N == {k \in 0..m : f[k] \in T}
<1>3. m \in Nat /\ m \in 0..m
  BY DEF Spaced
<1>4. f[0] = items /\ SpliceAll(items, found, skip, width, new) = f[m]
  BY <1>2 DEF Splicing
<1>5. ASSUME NEW k \in 1..m
      PROVE  /\ at(k) \in 1..(Len(f[k - 1]) + 1) /\ at(k) + width \in at(k)..(Len(f[k - 1]) + 1)
             /\ f[k] = splice(f[k - 1], at(k), at(k) + width, new)
  BY <1>2 DEF Splicing
<1> HIDE DEF m, at
<1>6. 0 \in N
  BY <1>3, <1>4
<1>7. ASSUME NEW k \in 1..m, k - 1 \in N PROVE k \in N
  <2>1. k \in 0..m /\ f[k - 1] \in T
    BY <1>7, <1>3
  <2>2. splice(f[k - 1], at(k), at(k) + width, new) \in T
    BY <1>5, <2>1
  <2> QED BY <1>5, <2>1, <2>2
<1> HIDE DEF N
<1>8. 0..m \subseteq N
  BY <1>3, <1>6, <1>7, UpTo
<1> QED BY <1>3, <1>4, <1>8 DEF N

LEMMA PositionsFacts ==
    ASSUME NEW S, NEW items \in Seq(S), NEW hits
    PROVE  /\ Positions(items, hits) \in Seq(1..Len(items))
           /\ \A k \in 1..Len(Positions(items, hits)) : Positions(items, hits)[k] \in hits
           /\ \A k, l \in 1..Len(Positions(items, hits)) : k < l => Positions(items, hits)[k] < Positions(items, hits)[l]
<1> DEFINE n == Len(items)
           s == [i \in 1..n |-> i]
           v == Kept(s, hits)
<1>1. n \in Nat /\ DOMAIN items = 1..n
  OBVIOUS
<1>2. s \in Seq(1..n) /\ Len(s) = n /\ \A i \in 1..n : s[i] = i
  BY <1>1
<1>3. Positions(items, hits) = v
  BY <1>1 DEF Positions
<1> HIDE DEF n, s
<1>4. v \in Seq(1..n)
  BY <1>2, KeptIsList
<1>5. ASSUME NEW k \in 1..Len(v) PROVE v[k] \in 1..n /\ v[k] \in hits /\ Tally(s, hits, v[k]) = k
  <2>1. PICK i \in 1..Len(s) : i \in hits /\ Tally(s, hits, i) = k
    BY <1>2, KeptOnto
  <2>2. v[Tally(s, hits, i)] = s[i]
    BY <1>2, <2>1, KeptElements
  <2> HIDE DEF v
  <2> QED BY <1>2, <2>1, <2>2
<1>6. ASSUME NEW k \in 1..Len(v), NEW l \in 1..Len(v), k < l PROVE v[k] < v[l]
  <2> SUFFICES ASSUME ~(v[k] < v[l]) PROVE FALSE
    OBVIOUS
  <2> DEFINE i == v[k]
             j == v[l]
  <2>1. i \in 1..n /\ j \in 1..n /\ Tally(s, hits, i) = k /\ Tally(s, hits, j) = l /\ ~(i < j)
    BY <1>5
  <2> HIDE DEF i, j
  <2>2. j \in 0..Len(s) /\ i \in j..Len(s)
    BY <1>1, <1>2, <2>1
  <2>3. Tally(s, hits, j) <= Tally(s, hits, i)
    BY <1>2, <2>2, TallyGrows
  <2>4. k \in Int /\ l \in Int
    OBVIOUS
  <2> QED BY <1>6, <2>1, <2>3, <2>4
<1> HIDE DEF v
<1> QED BY <1>3, <1>4, <1>5, <1>6 DEF n

LEMMA PositionsAreSpaced ==
    ASSUME NEW S, NEW items \in Seq(S), NEW hits, NEW skip \in Nat, NEW width \in Nat, skip + width <= 1
    PROVE  Spaced(Positions(items, hits), skip, width, Len(items))
<1> DEFINE p == Positions(items, hits)
<1>1. /\ p \in Seq(1..Len(items))
      /\ \A k, l \in 1..Len(p) : k < l => p[k] < p[l]
  BY PositionsFacts
<1> HIDE DEF p
<1>2. \A k \in 1..Len(p) : p[k] \in 1..Len(items) /\ Len(items) \in Nat
  BY <1>1
<1>3. \A k \in 1..Len(p) : p[k] + skip + width <= Len(items) + 1
  BY <1>2
<1>4. ASSUME NEW k \in 1..Len(p), NEW l \in 1..Len(p), k < l PROVE p[k] < p[l] /\ p[k] + width <= p[l]
  BY <1>1, <1>2, <1>4
<1> QED BY <1>1, <1>3, <1>4 DEF Spaced, p

\* f is the recursion in NonOverlapping.
Scanning(items, hits, f) ==
    /\ f \in [0..Len(items) -> [found : Seq(1..Len(items)), free : Nat]]
    /\ f[0] = [found |-> <<>>, free |-> 1]
    /\ NonOverlapping(items, hits) = f[Len(items)].found
    /\ \A i \in 1..Len(items) :
        /\ i >= f[i - 1].free /\ SequenceAt(hits, i)
            => f[i] = [found |-> Append(f[i - 1].found, i), free |-> i + Len(hits)]
        /\ ~(i >= f[i - 1].free /\ SequenceAt(hits, i)) => f[i] = f[i - 1]

LEMMA ScanSteps ==
    ASSUME NEW S, NEW items \in Seq(S), NEW H, NEW hits \in Seq(H)
    PROVE  \E f : Scanning(items, hits, f)
<1> DEFINE n == Len(items)
           V == [found : Seq(1..n), free : Nat]
           first == [found |-> <<>>, free |-> 1]
           next(i, t) == IF i >= t.free /\ SequenceAt(hits, i)
                         THEN [found |-> Append(t.found, i), free |-> i + Len(hits)] ELSE t
           step == [i \in 1..n |-> [t \in V |-> next(i, t)]]
           Fits(f) == f = [i \in 0..n |-> IF i = 0 THEN [found |-> <<>>, free |-> 1]
                                          ELSE IF i >= f[i - 1].free /\ SequenceAt(hits, i)
                                          THEN [found |-> Append(f[i - 1].found, i), free |-> i + Len(hits)]
                                          ELSE f[i - 1]]
           scan == CHOOSE f : Fits(f)
<1>1. n \in Nat /\ first \in V /\ Len(hits) \in Nat
  OBVIOUS
<1>2. ASSUME NEW i \in 1..n, NEW t \in V PROVE next(i, t) \in V
  <2>1. Append(t.found, i) \in Seq(1..n) /\ i + Len(hits) \in Nat
    BY <1>1
  <2> QED BY <2>1
<1>3. step \in [1..n -> [V -> V]] /\ \A i \in 1..n, t \in V : step[i][t] = next(i, t)
  <2> HIDE DEF next, n, V
  <2> QED BY <1>2
<1> HIDE DEF step, n, V, first
<1>4. PICK f \in [0..n -> V] : Recursive(n, first, step, f)
  BY <1>1, <1>3, Recursion
<1>5. ASSUME NEW i \in 1..n PROVE f[i] = next(i, f[i - 1])
  <2>1. i - 1 \in 0..n
    BY <1>1
  <2>2. f[i - 1] \in V
    BY <2>1, <1>4
  <2>3. f[i] = step[i][f[i - 1]]
    BY <1>4 DEF Recursive
  <2> HIDE DEF next
  <2> QED BY <2>2, <2>3, <1>3
<1>6. Fits(f)
  <2>1. f = [i \in 0..n |-> f[i]]
    BY <1>4
  <2>2. ASSUME NEW i \in 0..n
        PROVE  f[i] = IF i = 0 THEN [found |-> <<>>, free |-> 1]
                      ELSE IF i >= f[i - 1].free /\ SequenceAt(hits, i)
                      THEN [found |-> Append(f[i - 1].found, i), free |-> i + Len(hits)]
                      ELSE f[i - 1]
    <3>1. CASE i = 0
      BY <3>1, <1>4 DEF Recursive, first
    <3>2. CASE i # 0
      <4>1. i \in 1..n
        BY <3>2, <1>1
      <4> QED BY <4>1, <3>2, <1>5
    <3> QED BY <3>1, <3>2
  <2> QED BY <2>1, <2>2
<1>7. Fits(scan)
  <2> HIDE DEF Fits
  <2> QED BY <1>6
<1>8. NonOverlapping(items, hits) = scan[n].found
  BY DEF NonOverlapping, scan, n
<1> HIDE DEF scan
<1>9. scan[0] = first /\ \A i \in 1..n : scan[i] = next(i, scan[i - 1])
  <2>1. 0 \in 0..n /\ \A i \in 1..n : i \in 0..n /\ i # 0
    BY <1>1
  <2>2. \A i \in 0..n : scan[i] = IF i = 0 THEN [found |-> <<>>, free |-> 1]
                      ELSE IF i >= scan[i - 1].free /\ SequenceAt(hits, i)
                      THEN [found |-> Append(scan[i - 1].found, i), free |-> i + Len(hits)]
                      ELSE scan[i - 1]
    BY <1>7
  <2> QED BY <2>1, <2>2 DEF first
<1>10. scan \in [0..n -> V]
  <2> DEFINE N == {i \in 0..n : scan[i] \in V}
  <2>1. 0 \in N
    BY <1>1, <1>9
  <2>2. \A i \in 1..n : i - 1 \in N => i \in N
    <3> HIDE DEF next
    <3> QED BY <1>1, <1>2, <1>9
  <2> HIDE DEF N
  <2>3. 0..n \subseteq N
    BY <1>1, <2>1, <2>2, UpTo
  <2>4. \A i \in 0..n : scan[i] \in V
    BY <2>3 DEF N
  <2>5. scan = [i \in 0..n |-> scan[i]]
    <3> DEFINE e == [i \in 0..n |-> IF i = 0 THEN [found |-> <<>>, free |-> 1]
                      ELSE IF i >= scan[i - 1].free /\ SequenceAt(hits, i)
                      THEN [found |-> Append(scan[i - 1].found, i), free |-> i + Len(hits)]
                      ELSE scan[i - 1]]
    <3>1. scan = e
      BY <1>7
    <3>2. e = [i \in 0..n |-> e[i]]
      OBVIOUS
    <3> QED BY <3>1, <3>2
  <2> QED BY <2>4, <2>5
<1>11. \A i \in 1..n :
        /\ i >= scan[i - 1].free /\ SequenceAt(hits, i)
            => scan[i] = [found |-> Append(scan[i - 1].found, i), free |-> i + Len(hits)]
        /\ ~(i >= scan[i - 1].free /\ SequenceAt(hits, i)) => scan[i] = scan[i - 1]
  BY <1>9
<1> QED BY <1>8, <1>9, <1>10, <1>11 DEF n, V, first, Scanning

LEMMA ListElements == ASSUME NEW S, NEW s \in Seq(S) PROVE Len(s) \in Nat /\ \A i \in 1..Len(s) : s[i] \in S
  OBVIOUS

LEMMA AppendElements ==
    ASSUME NEW S, NEW s \in Seq(S), NEW x \in S
    PROVE  /\ Append(s, x) \in Seq(S) /\ Len(Append(s, x)) = Len(s) + 1
           /\ \A i \in 1..Len(s) : Append(s, x)[i] = s[i]
           /\ Append(s, x)[Len(s) + 1] = x
  OBVIOUS

\* A match is within the items when each of its elements is.
LEMMA NonOverlappingIsSpaced ==
    ASSUME NEW S, NEW items \in Seq(S), NEW H, NEW hits \in Seq(H), hits # <<>>,
           \A i \in 1..Len(items) : SequenceAt(hits, i) => i + Len(hits) <= Len(items) + 1
    PROVE  Spaced(NonOverlapping(items, hits), 0, Len(hits), Len(items))
<1> DEFINE n == Len(items)
           w == Len(hits)
<1>1. n \in Nat /\ w \in Nat /\ w >= 1
  OBVIOUS
<1>2. PICK f : Scanning(items, hits, f)
  BY ScanSteps
<1>3. f \in [0..n -> [found : Seq(1..n), free : Nat]] /\ f[0] = [found |-> <<>>, free |-> 1]
  BY <1>2 DEF Scanning
<1>4. ASSUME NEW i \in 1..n
      PROVE  /\ i >= f[i - 1].free /\ SequenceAt(hits, i)
                  => f[i] = [found |-> Append(f[i - 1].found, i), free |-> i + w]
             /\ ~(i >= f[i - 1].free /\ SequenceAt(hits, i)) => f[i] = f[i - 1]
  BY <1>2 DEF Scanning
<1>5. NonOverlapping(items, hits) = f[n].found
  BY <1>2 DEF Scanning
<1>6. \A i \in 1..n : SequenceAt(hits, i) => i + w <= n + 1
  OBVIOUS
<1> HIDE DEF n, w
<1> DEFINE Good(t) == /\ \A j \in 1..Len(t.found) : t.found[j] + w <= n + 1 /\ t.found[j] + w <= t.free
                      /\ \A j, k \in 1..Len(t.found) : j < k => t.found[j] + w <= t.found[k]
           N == {i \in 0..n : Good(f[i])}
<1>7. 0 \in N
  <2>1. f[0].found = <<>> /\ 1..Len(<<>>) = {}
    BY <1>3
  <2> QED BY <2>1, <1>1
<1>8. ASSUME NEW i \in 1..n, i - 1 \in N PROVE i \in N
  <2>1. i - 1 \in 0..n /\ i \in 0..n
    BY <1>1
  <2>2. CASE ~(i >= f[i - 1].free /\ SequenceAt(hits, i))
    <3>1. f[i] = f[i - 1]
      BY <1>4, <2>2
    <3> QED BY <3>1, <2>1, <1>8
  <2>3. CASE i >= f[i - 1].free /\ SequenceAt(hits, i)
    <3> DEFINE s == f[i - 1].found
               t == Append(s, i)
               e == f[i - 1].free
    <3>1. e \in Nat /\ s \in Seq(1..n) /\ i >= e
      BY <1>3, <2>1, <2>3
    <3>2. Good(f[i - 1])
      BY <1>8
    <3>3. f[i] = [found |-> t, free |-> i + w]
      BY <1>4, <2>3
    <3>4. /\ \A j \in 1..Len(s) : s[j] + w <= n + 1 /\ s[j] + w <= e
          /\ \A j, k \in 1..Len(s) : j < k => s[j] + w <= s[k]
      BY <3>2
    <3> HIDE DEF s, e
    <3>5. t \in Seq(1..n) /\ Len(t) = Len(s) + 1 /\ (\A j \in 1..Len(s) : t[j] = s[j]) /\ t[Len(s) + 1] = i
      BY <3>1, AppendElements
    <3> HIDE DEF t
    <3>6. i + w <= n + 1
      BY <1>6, <2>3
    <3>7. Len(s) \in Nat /\ \A j \in 1..Len(s) : s[j] \in 1..n
      BY <3>1, ListElements
    <3>8. ASSUME NEW j \in 1..Len(t) PROVE t[j] + w <= n + 1 /\ t[j] + w <= i + w
      <4>1. CASE j \in 1..Len(s)
        <5>1. s[j] + w <= n + 1 /\ s[j] + w <= e /\ t[j] = s[j] /\ s[j] \in 1..n
          BY <4>1, <3>4, <3>5, <3>7
        <5> QED BY <5>1, <3>1, <1>1
      <4>2. CASE j = Len(s) + 1
        BY <4>2, <3>5, <3>6, <1>1
      <4> QED BY <4>1, <4>2, <3>1, <3>5
    <3>9. ASSUME NEW j \in 1..Len(t), NEW k \in 1..Len(t), j < k PROVE t[j] + w <= t[k]
      <4>1. j \in 1..Len(s)
        BY <3>1, <3>5, <3>9
      <4>2. CASE k \in 1..Len(s)
        BY <4>1, <4>2, <3>4, <3>5, <3>9
      <4>3. CASE k = Len(s) + 1
        <5>1. s[j] + w <= e /\ t[j] = s[j] /\ s[j] \in 1..n /\ t[k] = i
          BY <4>1, <4>3, <3>4, <3>5, <3>7
        <5> QED BY <5>1, <3>1, <1>1
      <4> QED BY <4>2, <4>3, <3>1, <3>5
    <3>10. Good(f[i])
      BY <3>3, <3>8, <3>9
    <3> QED BY <2>1, <3>10
  <2> QED BY <2>2, <2>3
<1> HIDE DEF N
<1>9. 0..n \subseteq N
  BY <1>1, <1>7, <1>8, UpTo
<1>10. n \in 0..n
  BY <1>1
<1>11. Good(f[n])
  BY <1>9, <1>10 DEF N
<1> DEFINE s == f[n].found
<1>12. s \in Seq(1..n)
  BY <1>3, <1>10
<1>13. /\ \A j \in 1..Len(s) : s[j] + w <= n + 1
       /\ \A j, k \in 1..Len(s) : j < k => s[j] + w <= s[k]
  BY <1>11
<1> HIDE DEF s
<1>14. \A j \in 1..Len(s) : s[j] \in Nat
  <2>1. \A j \in 1..Len(s) : s[j] \in 1..n
    BY <1>12, ListElements
  <2> QED BY <2>1
<1>15. \A j \in 1..Len(s) : s[j] + 0 + w <= n + 1
  BY <1>13, <1>14
<1>16. \A j, k \in 1..Len(s) : j < k => s[j] < s[k] /\ s[j] + w <= s[k]
  BY <1>1, <1>13, <1>14
<1> QED BY <1>5, <1>12, <1>15, <1>16 DEF Spaced, s, n, w

LEMMA NonOverlappingIsList ==
    ASSUME NEW S, NEW items \in Seq(S), NEW H, NEW hits \in Seq(H)
    PROVE  NonOverlapping(items, hits) \in Seq(1..Len(items))
<1>1. PICK f : Scanning(items, hits, f)
  BY ScanSteps
<1>2. Len(items) \in 0..Len(items)
  OBVIOUS
<1> QED BY <1>1, <1>2 DEF Scanning

LEMMA EqualLists ==
    ASSUME NEW S, NEW s \in Seq(S), NEW t \in Seq(S), Len(s) = Len(t), \A i \in 1..Len(s) : s[i] = t[i]
    PROVE  s = t
  OBVIOUS

\* A splice in what comes first leaves what comes behind alone.
LEMMA SpliceConcat ==
    ASSUME NEW S, NEW u \in Seq(S), NEW t \in Seq(S), NEW new \in Seq(S),
           NEW a \in 1..(Len(u) + 1), NEW b \in a..(Len(u) + 1)
    PROVE  splice(u \o t, a, b, new) = splice(u, a, b, new) \o t
<1> DEFINE n == Len(u)
           d == Len(new)
           v == splice(u, a, b, new)
           w == u \o t
           r == splice(w, a, b, new)
<1>1. /\ n \in Nat /\ d \in Nat /\ Len(t) \in Nat /\ a \in Nat /\ b \in Nat /\ 1 <= a /\ a <= b /\ b <= n + 1
      /\ u \in Seq(S)
  OBVIOUS
<1>2. /\ w \in Seq(S) /\ Len(w) = n + Len(t)
      /\ \A i \in 1..n : w[i] = u[i]
      /\ \A i \in (n + 1)..(n + Len(t)) : w[i] = t[i - n]
  BY ConcatElements
<1>3. /\ v \in Seq(S) /\ Len(v) = n + d - (b - a)
      /\ \A i \in 1..(a - 1) : v[i] = u[i]
      /\ \A i \in a..(a + d - 1) : v[i] = new[i - a + 1]
      /\ \A i \in (a + d)..(n + d - (b - a)) : v[i] = u[i - d + (b - a)]
  <2>1. SpliceIs(S, u, a, b, new, v)
    BY SpliceFacts
  <2> HIDE DEF v
  <2> QED BY <2>1 DEF SpliceIs
<1> HIDE DEF w, n
<1>4. a \in 1..(Len(w) + 1) /\ b \in a..(Len(w) + 1)
  BY <1>1, <1>2
<1>5. /\ r \in Seq(S) /\ Len(r) = Len(w) + d - (b - a)
      /\ \A i \in 1..(a - 1) : r[i] = w[i]
      /\ \A i \in a..(a + d - 1) : r[i] = new[i - a + 1]
      /\ \A i \in (a + d)..(Len(w) + d - (b - a)) : r[i] = w[i - d + (b - a)]
  <2>1. SpliceIs(S, w, a, b, new, r)
    BY <1>2, <1>4, SpliceFacts
  <2> HIDE DEF r
  <2> QED BY <2>1 DEF SpliceIs
<1> HIDE DEF v, r, d
<1> DEFINE x == v \o t
<1>6. /\ x \in Seq(S) /\ Len(x) = Len(v) + Len(t)
      /\ \A i \in 1..Len(v) : x[i] = v[i]
      /\ \A i \in (Len(v) + 1)..(Len(v) + Len(t)) : x[i] = t[i - Len(v)]
  BY <1>3, ConcatElements
<1> HIDE DEF x
<1>7. Len(r) = Len(x)
  BY <1>1, <1>2, <1>3, <1>5, <1>6
<1>8. ASSUME NEW i \in 1..Len(r) PROVE r[i] = x[i]
  <2>0. i \in Nat /\ i >= 1 /\ i <= n + Len(t) + d - (b - a)
    BY <1>1, <1>2, <1>5
  <2>1. CASE i < a
    <3>1. i \in 1..(a - 1) /\ i \in 1..n /\ i \in 1..Len(v)
      BY <1>1, <1>3, <2>0, <2>1, SMTT(30)
    <3> QED BY <3>1, <1>2, <1>3, <1>5, <1>6
  <2>2. CASE i >= a /\ i < a + d
    <3>1. i \in a..(a + d - 1)
      BY <1>1, <2>0, <2>2
    <3>2. Len(v) = n + d - (b - a) /\ b - 1 <= n
      BY <1>1, <1>3
    <3>3. i \in 1..Len(v)
      BY <1>1, <2>0, <2>2, <3>2, SMTT(30)
    <3> QED BY <3>1, <3>3, <1>3, <1>5, <1>6
  <2>3. CASE i >= a + d /\ i <= Len(v)
    <3>1. /\ i \in (a + d)..(n + d - (b - a)) /\ i \in 1..Len(v) /\ i \in (a + d)..(Len(w) + d - (b - a))
          /\ i - d + (b - a) \in 1..n
      <4>1. Len(w) = n + Len(t) /\ Len(v) = n + d - (b - a)
        BY <1>2, <1>3
      <4> QED BY <4>1, <1>1, <2>0, <2>3
    <3> QED BY <3>1, <1>2, <1>3, <1>5, <1>6
  <2>4. CASE i > Len(v)
    <3>1. /\ i \in (Len(v) + 1)..(Len(v) + Len(t)) /\ i \in (a + d)..(Len(w) + d - (b - a))
          /\ i - d + (b - a) \in (n + 1)..(n + Len(t)) /\ (i - d + (b - a)) - n = i - Len(v)
      BY <1>1, <1>2, <1>3, <2>0, <2>4
    <3> QED BY <3>1, <1>2, <1>5, <1>6
  <2> QED BY <1>1, <1>3, <2>0, <2>1, <2>2, <2>3, <2>4, SMTT(30)
<1>9. r = x
  BY <1>5, <1>6, <1>7, <1>8, EqualLists
<1> QED BY <1>9 DEF r, x, v, w

LEMMA SpacedFacts ==
    ASSUME NEW found, NEW skip \in Nat, NEW width \in Nat, NEW n \in Nat, Spaced(found, skip, width, n)
    PROVE  Len(found) \in Nat /\ \A k \in 1..Len(found) : SplicedAt(found, skip, k) \in Nat
<1>1. Len(found) \in Nat /\ \A i \in 1..Len(found) : found[i] \in 1..n
  BY ListElements DEF Spaced
<1>2. ASSUME NEW k \in 1..Len(found) PROVE SplicedAt(found, skip, k) \in Nat
  <2>1. Len(found) - k + 1 \in 1..Len(found)
    BY <1>1
  <2> QED BY <1>1, <2>1 DEF SplicedAt
<1> QED BY <1>1, <1>2

\* All that is needed for the splices to be what they should.
Replaces(S, items, found, skip, width, new) ==
    /\ items \in Seq(S) /\ new \in Seq(S) /\ skip \in Nat /\ width \in Nat
    /\ Spaced(found, skip, width, Len(items))

Joined(s, t) == s \o t

LEMMA SpliceAllConcat ==
    ASSUME NEW S, NEW p, NEW t, NEW new, NEW skip, NEW width, NEW found,
           Replaces(S, p, found, skip, width, new), t \in Seq(S)
    PROVE  /\ SpliceAll(p, found, skip, width, new) \in Seq(S)
           /\ SpliceAll(Joined(p, t), found, skip, width, new) = Joined(SpliceAll(p, found, skip, width, new), t)
<1> DEFINE w == p \o t
           m == Len(found)
           at(k) == SplicedAt(found, skip, k)
<1>0. p \in Seq(S) /\ new \in Seq(S) /\ skip \in Nat /\ width \in Nat /\ Spaced(found, skip, width, Len(p))
  BY DEF Replaces
<1>1. w \in Seq(S) /\ Len(w) = Len(p) + Len(t) /\ Len(p) \in Nat /\ Len(t) \in Nat
  BY <1>0
<1>2. Spaced(found, skip, width, Len(w))
  <2>1. 1..Len(p) \subseteq 1..Len(w)
    BY <1>1
  <2>2. found \in Seq(1..Len(p)) /\ \A i \in 1..Len(found) : found[i] + skip + width <= Len(p) + 1
    BY <1>0 DEF Spaced
  <2>3. found \in Seq(1..Len(w))
    BY <2>1, <2>2, SeqMonotonic
  <2>4. \A i \in 1..Len(found) : found[i] \in Nat
    <3>1. \A i \in 1..Len(found) : found[i] \in 1..Len(p)
      BY <2>2, ListElements
    <3> QED BY <3>1
  <2>5. \A i \in 1..Len(found) : found[i] + skip + width <= Len(w) + 1
    BY <1>0, <1>1, <2>2, <2>4
  <2> QED BY <1>0, <2>3, <2>5 DEF Spaced
<1> HIDE DEF w
<1>3. PICK f : Splicing(S, p, found, skip, width, new, f)
  BY <1>0, SpliceSteps
<1>4. PICK g : Splicing(S, w, found, skip, width, new, g)
  BY <1>0, <1>1, <1>2, SpliceSteps
<1>5. f \in [0..m -> Seq(S)] /\ f[0] = p /\ SpliceAll(p, found, skip, width, new) = f[m]
  BY <1>3 DEF Splicing
<1>6. g[0] = w /\ SpliceAll(w, found, skip, width, new) = g[m]
  BY <1>4 DEF Splicing
<1>7. ASSUME NEW k \in 1..m
      PROVE  /\ at(k) \in 1..(Len(f[k - 1]) + 1) /\ at(k) + width \in at(k)..(Len(f[k - 1]) + 1)
             /\ f[k] = splice(f[k - 1], at(k), at(k) + width, new)
             /\ g[k] = splice(g[k - 1], at(k), at(k) + width, new)
  BY <1>3, <1>4 DEF Splicing
<1>8. m \in Nat
  BY <1>0, <1>1, SpacedFacts
<1> HIDE DEF m, at
<1> DEFINE N == {k \in 0..m : g[k] = f[k] \o t}
<1>9. 0 \in N
  BY <1>5, <1>6, <1>8 DEF w
<1>10. ASSUME NEW k \in 1..m, k - 1 \in N PROVE k \in N
  <2>1. k - 1 \in 0..m /\ k \in 0..m
    BY <1>8
  <2>2. f[k - 1] \in Seq(S) /\ g[k - 1] = f[k - 1] \o t
    BY <1>5, <1>10, <2>1
  <2>3. splice(f[k - 1] \o t, at(k), at(k) + width, new) = splice(f[k - 1], at(k), at(k) + width, new) \o t
    BY <1>0, <1>7, <2>2, SpliceConcat, ZenonT(40)
  <2> QED BY <1>7, <2>1, <2>2, <2>3
<1> HIDE DEF N
<1>11. 0..m \subseteq N
  BY <1>8, <1>9, <1>10, UpTo
<1>12. m \in 0..m
  BY <1>8
<1>13. f[m] \in Seq(S) /\ g[m] = f[m] \o t
  BY <1>5, <1>11, <1>12 DEF N
<1> QED BY <1>5, <1>6, <1>13 DEF w, Joined

LEMMA SpacedInMore ==
    ASSUME NEW found, NEW skip \in Nat, NEW width \in Nat, NEW n \in Nat, NEW m \in Nat, n <= m,
           Spaced(found, skip, width, n)
    PROVE  Spaced(found, skip, width, m)
<1>1. 1..n \subseteq 1..m
  OBVIOUS
<1>2. found \in Seq(1..n) /\ \A i \in 1..Len(found) : found[i] + skip + width <= n + 1
  BY DEF Spaced
<1>3. found \in Seq(1..m)
  BY <1>1, <1>2, SeqMonotonic
<1>4. \A i \in 1..Len(found) : found[i] \in Nat
  <2>1. \A i \in 1..Len(found) : found[i] \in 1..n
    BY <1>2, ListElements
  <2> QED BY <2>1
<1>5. \A i \in 1..Len(found) : found[i] + skip + width <= m + 1
  BY <1>2, <1>4
<1> QED BY <1>3, <1>5 DEF Spaced

\* A further match behind p, in tail, makes rep of it.
Matches(S, p, tail, rep, skip, width, new) ==
    /\ tail \in Seq(S) /\ rep \in Seq(S) /\ skip + width <= Len(tail) /\ Len(tail) >= 1
    /\ splice(Joined(p, tail), Len(p) + 1 + skip, Len(p) + 1 + skip + width, new) = Joined(p, rep)

\* Its splice is done first.
LEMMA SpliceAllOneMore ==
    ASSUME NEW S, NEW p, NEW tail, NEW rep, NEW new, NEW skip, NEW width, NEW found,
           Replaces(S, p, found, skip, width, new), Matches(S, p, tail, rep, skip, width, new)
    PROVE  /\ Spaced(Append(found, Len(p) + 1), skip, width, Len(p) + Len(tail))
           /\ SpliceAll(Joined(p, tail), Append(found, Len(p) + 1), skip, width, new)
                = Joined(SpliceAll(p, found, skip, width, new), rep)
<1>00. /\ p \in Seq(S) /\ tail \in Seq(S) /\ rep \in Seq(S) /\ new \in Seq(S) /\ skip \in Nat /\ width \in Nat
       /\ Spaced(found, skip, width, Len(p)) /\ skip + width <= Len(tail) /\ Len(tail) >= 1
       /\ splice(Joined(p, tail), Len(p) + 1 + skip, Len(p) + 1 + skip + width, new) = Joined(p, rep)
  BY DEF Replaces, Matches
<1> USE <1>00
<1> DEFINE items == Joined(p, tail)
           next == Joined(p, rep)
           x == Len(p) + 1
           more == Append(found, x)
           m == Len(found)
           n == Len(items)
           at(k) == SplicedAt(found, skip, k)
<1>1. /\ items \in Seq(S) /\ n = Len(p) + Len(tail) /\ Len(p) \in Nat /\ Len(tail) \in Nat /\ Len(rep) \in Nat
      /\ next \in Seq(S) /\ Len(next) = Len(p) + Len(rep) /\ x \in 1..n
  BY DEF Joined
<1>2. /\ found \in Seq(1..Len(p))
      /\ \A i \in 1..m : found[i] + skip + width <= Len(p) + 1
      /\ \A i, j \in 1..m : i < j => found[i] < found[j] /\ found[i] + width <= found[j]
  BY DEF Spaced
<1>3. m \in Nat /\ \A i \in 1..m : found[i] \in 1..Len(p)
  BY <1>2, ListElements
<1>31. \A i \in 1..m : found[i] \in 1..Len(p) /\ found[i] + skip + width <= Len(p) + 1
  BY <1>2, <1>3
<1> HIDE DEF items, next, n
<1>4. more \in Seq(1..n) /\ Len(more) = m + 1 /\ (\A i \in 1..m : more[i] = found[i]) /\ more[m + 1] = x
  <2>1. 1..Len(p) \subseteq 1..n
    BY <1>1
  <2>2. found \in Seq(1..n)
    BY <1>2, <2>1, SeqMonotonic
  <2> QED BY <1>1, <2>2, AppendElements
<1> HIDE DEF more, x, m
<1>41. /\ \A a \in Nat : a + skip + width <= Len(p) + 1 => a + skip + width <= n + 1
       /\ \A a \in 1..Len(p) : a + skip + width <= Len(p) + 1 => a < Len(p) + 1 /\ a + width <= Len(p) + 1
  <2>1. n \in Nat /\ Len(p) \in Nat /\ Len(p) <= n
    BY <1>1
  <2> QED BY <2>1
<1>5. Spaced(more, skip, width, n)
  <2>1. ASSUME NEW i \in 1..Len(more) PROVE more[i] + skip + width <= n + 1
    <3>1. CASE i \in 1..m
      <4>1. more[i] = found[i] /\ found[i] \in 1..Len(p) /\ found[i] + skip + width <= Len(p) + 1
        <5>1. more[i] = found[i]
          BY <3>1, <1>4
        <5> QED BY <5>1, <3>1, <1>31
      <4>2. found[i] \in Nat
        BY <4>1
      <4> QED BY <4>1, <4>2, <1>41
    <3>2. CASE i = m + 1
      BY <3>2, <1>1, <1>4 DEF x
    <3> QED BY <3>1, <3>2, <1>3, <1>4
  <2>2. ASSUME NEW i \in 1..Len(more), NEW j \in 1..Len(more), i < j
        PROVE  more[i] < more[j] /\ more[i] + width <= more[j]
    <3>1. i \in 1..m
      BY <1>3, <1>4, <2>2
    <3>2. CASE j \in 1..m
      BY <3>1, <3>2, <1>2, <1>4, <2>2
    <3>3. CASE j = m + 1
      <4>1. more[i] = found[i] /\ more[j] = x /\ found[i] \in 1..Len(p) /\ found[i] + skip + width <= Len(p) + 1
        <5>1. more[i] = found[i] /\ more[j] = x
          BY <3>1, <3>3, <1>4
        <5> QED BY <5>1, <3>1, <1>31
      <4> QED BY <4>1, <1>41 DEF x
    <3> QED BY <3>2, <3>3, <1>3, <1>4
  <2> QED BY <1>4, <2>1, <2>2 DEF Spaced
<1>6. Spaced(found, skip, width, Len(next))
  BY <1>1, SpacedInMore
<1>7. PICK f : Splicing(S, items, more, skip, width, new, f)
  BY <1>1, <1>5, SpliceSteps DEF n
<1>8. PICK g : Splicing(S, next, found, skip, width, new, g)
  BY <1>1, <1>6, SpliceSteps
<1>9. /\ f[0] = items /\ SpliceAll(items, more, skip, width, new) = f[m + 1]
      /\ \A k \in 1..(m + 1) :
            f[k] = splice(f[k - 1], SplicedAt(more, skip, k), SplicedAt(more, skip, k) + width, new)
  BY <1>4, <1>7 DEF Splicing
<1>10. /\ g[0] = next /\ SpliceAll(next, found, skip, width, new) = g[m]
       /\ \A k \in 1..m : g[k] = splice(g[k - 1], at(k), at(k) + width, new)
  BY <1>8 DEF Splicing, m
<1>11. SplicedAt(more, skip, 1) = Len(p) + 1 + skip
  <2>1. (m + 1) - 1 + 1 = m + 1
    BY <1>3
  <2> QED BY <2>1, <1>4 DEF SplicedAt, x
<1>12. ASSUME NEW k \in 1..m PROVE SplicedAt(more, skip, k + 1) = at(k)
  <2>1. (m + 1) - (k + 1) + 1 = m - k + 1 /\ m - k + 1 \in 1..m
    BY <1>3
  <2>2. Len(more) - (k + 1) + 1 = m - k + 1 /\ more[m - k + 1] = found[m - k + 1]
    BY <2>1, <1>4
  <2>3. at(k) = found[m - k + 1] + skip
    BY DEF SplicedAt, m
  <2> QED BY <2>2, <2>3 DEF SplicedAt
<1> HIDE DEF at
<1> DEFINE N == {k \in 0..m : f[k + 1] = g[k]}
<1>13. 0 \in N
  <2>1. 1 \in 1..(m + 1) /\ 1 - 1 = 0 /\ 0 + 1 = 1 /\ 0 \in 0..m
    BY <1>3
  <2>2. f[1] = splice(items, Len(p) + 1 + skip, Len(p) + 1 + skip + width, new)
    BY <1>9, <1>11, <2>1
  <2>3. f[1] = g[0]
    BY <2>2, <1>10 DEF items, next
  <2> QED BY <2>1, <2>3
<1>14. ASSUME NEW k \in 1..m, k - 1 \in N PROVE k \in N
  <2>1. k \in 0..m /\ k + 1 \in 1..(m + 1) /\ (k + 1) - 1 = k /\ (k - 1) + 1 = k
    BY <1>3
  <2>2. f[k] = g[k - 1]
    BY <1>14, <2>1
  <2>3. f[k + 1] = splice(f[k], SplicedAt(more, skip, k + 1), SplicedAt(more, skip, k + 1) + width, new)
    BY <1>9, <2>1
  <2>4. f[k + 1] = g[k]
    BY <1>10, <1>12, <2>2, <2>3
  <2> QED BY <2>1, <2>4
<1> HIDE DEF N
<1>15. 0..m \subseteq N
  BY <1>3, <1>13, <1>14, UpTo
<1>16. f[m + 1] = g[m]
  BY <1>3, <1>15 DEF N
<1>17. SpliceAll(Joined(p, rep), found, skip, width, new) = Joined(SpliceAll(p, found, skip, width, new), rep)
  BY SpliceAllConcat
<1>18. Spaced(Append(found, Len(p) + 1), skip, width, Len(p) + Len(tail))
  BY <1>1, <1>5 DEF more, x
<1> QED BY <1>18, <1>9, <1>10, <1>16, <1>17 DEF items, next, more, x

LEMMA SpliceAllNext ==
    ASSUME NEW S, NEW p, NEW tail, NEW rep, NEW new, NEW skip, NEW width, NEW found,
           Replaces(S, p, found, skip, width, new), Matches(S, p, tail, rep, skip, width, new)
    PROVE  SpliceAll(Joined(p, tail), Append(found, Len(p) + 1), skip, width, new)
            = Joined(SpliceAll(p, found, skip, width, new), rep)
  BY SpliceAllOneMore

LEMMA SpacedNext ==
    ASSUME NEW S, NEW p, NEW tail, NEW rep, NEW new, NEW skip, NEW width, NEW found,
           Replaces(S, p, found, skip, width, new), Matches(S, p, tail, rep, skip, width, new)
    PROVE  Spaced(Append(found, Len(p) + 1), skip, width, Len(p) + Len(tail))
  BY SpliceAllOneMore

LEMMA SpliceNone ==
    ASSUME NEW S, NEW items \in Seq(S), NEW new \in Seq(S), NEW skip \in Nat, NEW width \in Nat
    PROVE  /\ Spaced(<<>>, skip, width, Len(items))
           /\ SpliceAll(items, <<>>, skip, width, new) = items
<1>1. Spaced(<<>>, skip, width, Len(items)) /\ Len(<<>>) = 0
  BY DEF Spaced
<1>2. PICK f : Splicing(S, items, <<>>, skip, width, new, f)
  BY <1>1, SpliceSteps
<1>3. SpliceAll(items, <<>>, skip, width, new) = f[0] /\ f[0] = items
  BY <1>1, <1>2 DEF Splicing
<1> QED BY <1>1, <1>3

\* A splice in what comes behind leaves what comes first alone.
LEMMA SpliceAfter ==
    ASSUME NEW S, NEW u \in Seq(S), NEW t \in Seq(S), NEW new \in Seq(S),
           NEW a \in 1..(Len(t) + 1), NEW b \in a..(Len(t) + 1)
    PROVE  splice(Joined(u, t), Len(u) + a, Len(u) + b, new) = Joined(u, splice(t, a, b, new))
<1> DEFINE n == Len(u)
           d == Len(new)
           v == splice(t, a, b, new)
           w == Joined(u, t)
           A == n + a
           B == n + b
           r == splice(w, A, B, new)
           x == Joined(u, v)
<1>1. /\ n \in Nat /\ d \in Nat /\ Len(t) \in Nat /\ a \in Nat /\ b \in Nat /\ 1 <= a /\ a <= b /\ b <= Len(t) + 1
      /\ u \in Seq(S)
  OBVIOUS
<1>2. /\ w \in Seq(S) /\ Len(w) = n + Len(t)
      /\ \A i \in 1..n : w[i] = u[i]
      /\ \A i \in (n + 1)..(n + Len(t)) : w[i] = t[i - n]
  BY ConcatElements DEF Joined
<1>3. /\ v \in Seq(S) /\ Len(v) = Len(t) + d - (b - a)
      /\ \A i \in 1..(a - 1) : v[i] = t[i]
      /\ \A i \in a..(a + d - 1) : v[i] = new[i - a + 1]
      /\ \A i \in (a + d)..(Len(t) + d - (b - a)) : v[i] = t[i - d + (b - a)]
  <2>1. SpliceIs(S, t, a, b, new, v)
    BY SpliceFacts
  <2> HIDE DEF v
  <2> QED BY <2>1 DEF SpliceIs
<1> HIDE DEF w, v
<1>6. /\ x \in Seq(S) /\ Len(x) = n + Len(v)
      /\ \A i \in 1..n : x[i] = u[i]
      /\ \A i \in (n + 1)..(n + Len(v)) : x[i] = v[i - n]
  BY <1>3, ConcatElements DEF Joined
<1> HIDE DEF n, x
<1>4. A \in 1..(Len(w) + 1) /\ B \in A..(Len(w) + 1) /\ B - A = b - a /\ A \in Nat
  BY <1>1, <1>2
<1>41. A = n + a
  OBVIOUS
<1> HIDE DEF A, B
<1>42. SpliceIs(S, w, A, B, new, r)
  BY <1>2, <1>4, SpliceFacts
<1> HIDE DEF r
<1>43. /\ r \in Seq(S) /\ Len(r) = Len(w) + d - (B - A)
       /\ \A i \in 1..(A - 1) : r[i] = w[i]
       /\ \A i \in A..(A + d - 1) : r[i] = new[i - A + 1]
       /\ \A i \in (A + d)..(Len(w) + d - (B - A)) : r[i] = w[i - d + (B - A)]
  BY <1>42 DEF SpliceIs
<1>5. /\ r \in Seq(S) /\ Len(r) = Len(w) + d - (b - a)
      /\ \A i \in 1..(A - 1) : r[i] = w[i]
      /\ \A i \in A..(A + d - 1) : r[i] = new[i - A + 1]
      /\ \A i \in (A + d)..(Len(w) + d - (b - a)) : r[i] = w[i - d + (b - a)]
  <2> DEFINE e == B - A
  <2>1. e = b - a
    BY <1>4
  <2>2. /\ r \in Seq(S) /\ Len(r) = Len(w) + d - e
        /\ \A i \in 1..(A - 1) : r[i] = w[i]
        /\ \A i \in A..(A + d - 1) : r[i] = new[i - A + 1]
        /\ \A i \in (A + d)..(Len(w) + d - e) : r[i] = w[i - d + e]
    BY <1>43
  <2> HIDE DEF e
  <2> QED BY <2>1, <2>2
<1> HIDE DEF d
<1>7. Len(r) = Len(x)
  BY <1>1, <1>2, <1>3, <1>5, <1>6
<1>8. ASSUME NEW i \in 1..Len(r) PROVE r[i] = x[i]
  <2>0. i \in Nat /\ i >= 1 /\ i <= n + Len(t) + d - (b - a) /\ Len(w) = n + Len(t) /\ Len(v) = Len(t) + d - (b - a)
    BY <1>1, <1>2, <1>3, <1>5
  <2>1. CASE i <= n
    <3>1. i \in 1..n /\ i \in 1..(A - 1)
      BY <1>1, <1>41, <2>0, <2>1
    <3> QED BY <3>1, <1>2, <1>5, <1>6
  <2>2. CASE i > n /\ i < n + a
    <3>1. i \in 1..(A - 1) /\ i - n \in 1..(a - 1) /\ i \in (n + 1)..(n + Len(t)) /\ i \in (n + 1)..(n + Len(v))
      BY <1>1, <1>41, <2>0, <2>2
    <3> QED BY <3>1, <1>2, <1>3, <1>5, <1>6
  <2>3. CASE i >= n + a /\ i < n + a + d
    <3>1. /\ i \in A..(A + d - 1) /\ i - n \in a..(a + d - 1) /\ i \in (n + 1)..(n + Len(v))
          /\ i - A + 1 = (i - n) - a + 1
      BY <1>1, <1>41, <2>0, <2>3
    <3> QED BY <3>1, <1>3, <1>5, <1>6
  <2>4. CASE i >= n + a + d
    <3>1. /\ i \in (A + d)..(Len(w) + d - (b - a)) /\ i - n \in (a + d)..(Len(t) + d - (b - a))
          /\ i - d + (b - a) \in (n + 1)..(n + Len(t)) /\ i \in (n + 1)..(n + Len(v))
          /\ (i - d + (b - a)) - n = (i - n) - d + (b - a)
      BY <1>1, <1>41, <2>0, <2>4
    <3>2. r[i] = w[i - d + (b - a)] /\ w[i - d + (b - a)] = t[(i - d + (b - a)) - n]
      BY <3>1, <1>2, <1>5
    <3>3. x[i] = v[i - n] /\ v[i - n] = t[(i - n) - d + (b - a)]
      BY <3>1, <1>3, <1>6
    <3>4. (i - d + (b - a)) - n = (i - n) - d + (b - a)
      BY <3>1
    <3> QED BY <3>2, <3>3, <3>4
  <2> QED BY <1>1, <1>41, <2>0, <2>1, <2>2, <2>3, <2>4, SMTT(30)
<1>9. r = x
  BY <1>5, <1>6, <1>7, <1>8, EqualLists
<1> QED BY <1>9 DEF r, x, v, w, n, A, B

LEMMA PositionsStep ==
    ASSUME NEW S, NEW u \in Seq(S), NEW x \in S, NEW hits
    PROVE  /\ Len(u) + 1 \in hits => Positions(Append(u, x), hits) = Append(Positions(u, hits), Len(u) + 1)
           /\ Len(u) + 1 \notin hits => Positions(Append(u, x), hits) = Positions(u, hits)
<1> DEFINE n == Len(u)
           s == [i \in 1..n |-> i]
           t == [i \in 1..(n + 1) |-> i]
<1>1. n \in Nat /\ DOMAIN u = 1..n /\ DOMAIN Append(u, x) = 1..(n + 1)
  OBVIOUS
<1>2. s \in Seq(Nat) /\ Len(s) = n /\ n + 1 \in Nat
  BY <1>1
<1>3. t = Append(s, n + 1)
  <2>1. t \in Seq(Nat) /\ Len(t) = n + 1 /\ \A i \in 1..(n + 1) : t[i] = i
    BY <1>1
  <2>2. \A i \in 1..n : s[i] = i
    OBVIOUS
  <2> HIDE DEF t, s
  <2> DEFINE r == Append(s, n + 1)
  <2>3. /\ r \in Seq(Nat) /\ Len(r) = n + 1
        /\ \A i \in 1..n : r[i] = s[i]
        /\ r[n + 1] = n + 1
    BY <1>2, AppendElements
  <2> HIDE DEF r, n
  <2>4. \A i \in 1..(n + 1) : t[i] = r[i]
    BY <1>1, <2>1, <2>2, <2>3
  <2>5. t = r
    BY <2>1, <2>3, <2>4, EqualLists
  <2> QED BY <2>5 DEF r
<1>4. Positions(u, hits) = Kept(s, hits) /\ Positions(Append(u, x), hits) = Kept(t, hits)
  BY <1>1 DEF Positions
<1> HIDE DEF s, t
<1>5. /\ Len(s) + 1 \in hits => Kept(Append(s, n + 1), hits) = Append(Kept(s, hits), n + 1)
      /\ Len(s) + 1 \notin hits => Kept(Append(s, n + 1), hits) = Kept(s, hits)
  <2> HIDE DEF n
  <2> QED BY <1>2, KeptAppend
<1> QED BY <1>2, <1>3, <1>4, <1>5

LEMMA PositionsMore ==
    ASSUME NEW S, NEW u \in Seq(S), NEW x \in S, NEW hits, Len(u) + 1 \in hits
    PROVE  Positions(Append(u, x), hits) = Append(Positions(u, hits), Len(u) + 1)
  BY PositionsStep

LEMMA PositionsLess ==
    ASSUME NEW S, NEW u \in Seq(S), NEW x \in S, NEW hits, Len(u) + 1 \notin hits
    PROVE  Positions(Append(u, x), hits) = Positions(u, hits)
  BY PositionsStep

LEMMA PositionsNothing == ASSUME NEW hits PROVE Positions(<<>>, hits) = <<>>
<1>1. [i \in DOMAIN <<>> |-> i] = <<>>
  OBVIOUS
<1> QED BY <1>1, KeptNothing DEF Positions

\* The splice makes rep[x] of a single x.
Makes(S, skip, width, new, rep) ==
    /\ rep \in [S -> Seq(S)]
    /\ \A x \in S : splice(<<x>>, 1 + skip, 1 + skip + width, new) = rep[x]

OneByOne(items, hits, rep) ==
    FlattenSeq([i \in 1..Len(items) |-> IF i \in hits THEN rep[items[i]] ELSE <<items[i]>>])

\* Splicing at single elements is replacing each of them, in one pass.
LEMMA SpliceIsSpread ==
    ASSUME NEW S, NEW items \in Seq(S), NEW new \in Seq(S), NEW hits, NEW skip \in Nat, NEW width \in Nat,
           skip + width <= 1, NEW rep, Makes(S, skip, width, new, rep)
    PROVE  SpliceAll(items, Positions(items, hits), skip, width, new) = OneByOne(items, hits, rep)
<1> SUFFICES ASSUME rep \in [S -> Seq(S)],
                    \A x \in S : splice(<<x>>, 1 + skip, 1 + skip + width, new) = rep[x]
             PROVE  SpliceAll(items, Positions(items, hits), skip, width, new)
                     = FlattenSeq([i \in 1..Len(items) |-> IF i \in hits THEN rep[items[i]] ELSE <<items[i]>>])
  BY DEF Makes, OneByOne
<1> DEFINE n == Len(items)
           spread == [i \in 1..n |-> IF i \in hits THEN rep[items[i]] ELSE <<items[i]>>]
           flat(i) == FlattenSeq(Upto(spread, i))
           found(i) == Positions(Upto(items, i), hits)
           all(i) == SpliceAll(Upto(items, i), found(i), skip, width, new)
           N == {i \in 0..n : all(i) = flat(i)}
<1>1. n \in Nat /\ \A i \in 1..n : items[i] \in S
  OBVIOUS
<1>2. spread \in Seq(Seq(S)) /\ Len(spread) = n
      /\ \A i \in 1..n : spread[i] = IF i \in hits THEN rep[items[i]] ELSE <<items[i]>>
  <2>1. \A i \in 1..n : (IF i \in hits THEN rep[items[i]] ELSE <<items[i]>>) \in Seq(S)
    BY <1>1
  <2> QED BY <1>1, <2>1
<1> HIDE DEF spread
<1>3. flat(0) = <<>> /\ flat(n) = FlattenSeq(spread)
  BY <1>2, FlattenEnds
<1>4. 0 \in N
  <2>1. Upto(items, 0) = <<>> /\ <<>> \in Seq(S)
    BY UptoFacts
  <2>2. Positions(<<>>, hits) = <<>>
    BY PositionsNothing
  <2>3. all(0) = <<>>
    BY <2>1, <2>2, SpliceNone
  <2> QED BY <1>1, <1>3, <2>3
<1>5. ASSUME NEW i \in 1..n, i - 1 \in N PROVE i \in N
  <2> DEFINE u == Upto(items, i - 1)
             x == items[i]
             p == Positions(u, hits)
  <2>1. /\ Upto(items, i) = Append(u, x) /\ u \in Seq(S) /\ x \in S /\ Len(u) = i - 1 /\ Len(u) + 1 = i
        /\ i \in 0..n /\ i - 1 \in 0..n /\ Append(u, x) = Joined(u, <<x>>) /\ <<x>> \in Seq(S) /\ Len(<<x>>) = 1
    <3>1. Upto(items, i) = Append(u, x) /\ u \in Seq(S) /\ x \in S /\ Len(u) = i - 1
      BY UptoFacts
    <3>2. i \in 0..n /\ i - 1 \in 0..n /\ (i - 1) + 1 = i
      BY <1>1
    <3> HIDE DEF u, x
    <3>3. Append(u, x) = u \o <<x>>
      BY <3>1
    <3>4. <<x>> \in Seq(S) /\ Len(<<x>>) = 1
      BY <3>1
    <3> QED BY <3>1, <3>2, <3>3, <3>4 DEF Joined
  <2>11. u \in Seq(S) /\ x \in S /\ Len(u) + 1 = i /\ Upto(items, i) = Append(u, x)
    BY <2>1
  <2>2. all(i - 1) = flat(i - 1)
    BY <1>5
  <2>3. flat(i) = flat(i - 1) \o spread[i]
    BY <1>2, FlattenStep
  <2>4. SpliceAll(u, p, skip, width, new) = flat(i - 1)
    BY <2>2
  <2> HIDE DEF u, x, flat, found
  <2>5. Spaced(p, skip, width, Len(u)) /\ Replaces(S, u, p, skip, width, new)
    BY <2>1, PositionsAreSpaced DEF Replaces
  <2>6. CASE i \in hits
    <3>1. found(i) = Append(p, Len(u) + 1)
      BY <2>11, <2>6, PositionsMore DEF found
    <3> DEFINE tail == <<x>>
               r == rep[x]
               a == 1 + skip
               b == 1 + skip + width
    <3>2. splice(tail, a, b, new) = r /\ r \in Seq(S)
      BY <2>1
    <3>3. a \in 1..(Len(tail) + 1) /\ b \in a..(Len(tail) + 1)
      BY <2>1
    <3>4. Len(u) + a = Len(u) + 1 + skip /\ Len(u) + b = Len(u) + 1 + skip + width
      BY <2>1
    <3>5. tail \in Seq(S) /\ skip + width <= Len(tail) /\ Len(tail) >= 1
      BY <2>1
    <3> HIDE DEF tail, r, p, a, b
    <3>6. splice(Joined(u, tail), Len(u) + a, Len(u) + b, new) = Joined(u, splice(tail, a, b, new))
      <4>1. u \in Seq(S)
        BY <2>1
      <4> QED BY <4>1, <3>3, <3>5, SpliceAfter
    <3>7. splice(Joined(u, tail), Len(u) + 1 + skip, Len(u) + 1 + skip + width, new) = Joined(u, r)
      BY <3>2, <3>4, <3>6
    <3>8. SpliceAll(Joined(u, tail), Append(p, Len(u) + 1), skip, width, new)
            = Joined(SpliceAll(u, p, skip, width, new), r)
      <4>1. Matches(S, u, tail, r, skip, width, new)
        BY <3>2, <3>5, <3>7 DEF Matches
      <4> QED BY <4>1, <2>5, SpliceAllNext
    <3>9. all(i) = SpliceAll(Joined(u, tail), Append(p, Len(u) + 1), skip, width, new)
      BY <2>1, <3>1 DEF tail
    <3>10. all(i) = Joined(flat(i - 1), r)
      BY <2>4, <3>8, <3>9
    <3>11. spread[i] = r
      BY <1>2, <2>6 DEF r, x
    <3>12. all(i) = flat(i)
      BY <2>3, <3>10, <3>11 DEF Joined
    <3> QED BY <2>1, <3>12
  <2>7. CASE i \notin hits
    <3>1. found(i) = p
      BY <2>11, <2>7, PositionsLess DEF found
    <3>2. SpliceAll(Joined(u, <<x>>), p, skip, width, new) = Joined(SpliceAll(u, p, skip, width, new), <<x>>)
      <4> DEFINE tail == <<x>>
      <4>1. tail \in Seq(S)
        BY <2>1
      <4> HIDE DEF tail, p
      <4>2. SpliceAll(Joined(u, tail), p, skip, width, new) = Joined(SpliceAll(u, p, skip, width, new), tail)
        BY <2>5, <4>1, SpliceAllConcat
      <4> QED BY <4>2 DEF tail
    <3>3. all(i) = Joined(flat(i - 1), <<x>>)
      BY <2>1, <2>4, <3>1, <3>2
    <3>4. spread[i] = <<x>>
      BY <1>2, <2>7 DEF x
    <3> QED BY <2>1, <2>3, <3>3, <3>4 DEF Joined
  <2> QED BY <2>6, <2>7
<1> HIDE DEF N
<1>6. 0..n \subseteq N
  BY <1>1, <1>4, <1>5, UpTo
<1>7. all(n) = flat(n)
  BY <1>1, <1>6 DEF N
<1>8. Upto(items, n) = items
  BY UptoFacts
<1> QED BY <1>3, <1>7, <1>8 DEF spread

-----------------------------------------------------------------------------
(* Sequences: what is found from left to right is what a pass replaces.      *)

\* What the pass makes of the items from i on, given what it makes of those behind.
Pass(items, hits, new, t, i) ==
    IF i > Len(items) THEN <<>>
    ELSE IF SequenceAt(hits, i) THEN new \o t[i + Len(hits)]
    ELSE <<items[i]>> \o t[i + 1]

Passing(S, items, hits, new, f) ==
    /\ f \in [1..(Len(items) + Len(hits)) -> Seq(S)]
    /\ \A i \in 1..(Len(items) + Len(hits)) : f[i] = Pass(items, hits, new, f, i)

LEMMA PassExists ==
    ASSUME NEW S, NEW items \in Seq(S), NEW new \in Seq(S), NEW H, NEW hits \in Seq(H), hits # <<>>
    PROVE  \E f : Passing(S, items, hits, new, f)
<1> DEFINE n == Len(items)
           w == Len(hits)
           D == 1..(n + w)
           V == [D -> Seq(S)]
           pass(t, i) == Pass(items, hits, new, t, i)
           next(d, t) == [i \in D |-> IF i = n - d + 1 THEN pass(t, i) ELSE t[i]]
           step == [d \in 1..n |-> [t \in V |-> next(d, t)]]
           first == [i \in D |-> <<>>]
<1>1. n \in Nat /\ w \in Nat /\ w >= 1 /\ first \in V
  OBVIOUS
<1>2. ASSUME NEW t \in V, NEW i \in D PROVE pass(t, i) \in Seq(S)
  <2>1. CASE i > n
    BY <2>1 DEF Pass
  <2>2. CASE ~(i > n)
    <3>1. i \in 1..n /\ i + w \in D /\ i + 1 \in D /\ items[i] \in S
      BY <1>1, <2>2
    <3>2. t[i + w] \in Seq(S) /\ t[i + 1] \in Seq(S)
      BY <3>1
    <3>3. new \o t[i + w] \in Seq(S) /\ <<items[i]>> \o t[i + 1] \in Seq(S)
      BY <3>1, <3>2
    <3> QED BY <2>2, <3>3 DEF Pass
  <2> QED BY <2>1, <2>2
<1>3. ASSUME NEW t, NEW u, NEW i \in D, \A j \in D : j > i => t[j] = u[j] PROVE pass(t, i) = pass(u, i)
  <2>1. CASE i > n
    BY <2>1 DEF Pass
  <2>2. CASE ~(i > n)
    <3>1. i + w \in D /\ i + 1 \in D /\ i + w > i /\ i + 1 > i
      BY <1>1, <2>2
    <3>2. t[i + w] = u[i + w] /\ t[i + 1] = u[i + 1]
      BY <3>1, <1>3
    <3> QED BY <3>2 DEF Pass
  <2> QED BY <2>1, <2>2
<1> HIDE DEF pass
<1>4. ASSUME NEW d \in 1..n, NEW t \in V PROVE next(d, t) \in V
  <2>1. \A i \in D : (IF i = n - d + 1 THEN pass(t, i) ELSE t[i]) \in Seq(S)
    BY <1>2
  <2> QED BY <2>1
<1>5. step \in [1..n -> [V -> V]] /\ \A d \in 1..n, t \in V : step[d][t] = next(d, t)
  <2> HIDE DEF next, n, V
  <2> QED BY <1>4
<1> HIDE DEF step, first
<1>6. PICK g \in [0..n -> V] : Recursive(n, first, step, g)
  <2> HIDE DEF V, n
  <2> QED BY <1>1, <1>5, Recursion
<1>7. ASSUME NEW d \in 1..n PROVE d - 1 \in 0..n /\ g[d - 1] \in V /\ g[d] = next(d, g[d - 1])
  <2> HIDE DEF V, n, next
  <2>1. d - 1 \in 0..n
    BY <1>1
  <2>2. g[d - 1] \in V
    BY <2>1, <1>6
  <2>3. g[d] = step[d][g[d - 1]]
    BY <1>6 DEF Recursive
  <2> QED BY <2>1, <2>2, <2>3, <1>5
<1> DEFINE N == {d \in 0..n : \A i \in D : i > n - d => g[d][i] = pass(g[d], i)}
<1>8. 0 \in N
  <2>1. ASSUME NEW i \in D, i > n - 0 PROVE g[0][i] = pass(g[0], i)
    <3>1. i > n
      BY <1>1, <2>1
    <3>2. g[0][i] = <<>>
      BY <1>6 DEF Recursive, first
    <3> QED BY <3>1, <3>2 DEF Pass, pass
  <2> QED BY <1>1, <2>1
<1>9. ASSUME NEW d \in 1..n, d - 1 \in N PROVE d \in N
  <2> DEFINE k == n - d + 1
             t == g[d - 1]
             u == g[d]
  <2>1. k \in 1..n /\ k \in D /\ n - (d - 1) = k /\ d \in 0..n
    BY <1>1
  <2>2. \A i \in D : i > k => t[i] = pass(t, i)
    BY <1>9, <2>1
  <2>3. u = next(d, t)
    BY <1>7
  <2>4. u[k] = pass(t, k) /\ \A i \in D : i # k => u[i] = t[i]
    BY <2>1, <2>3
  <2> HIDE DEF k, t, u
  <2>5. ASSUME NEW i \in D, i >= k PROVE pass(t, i) = pass(u, i)
    <3>1. \A j \in D : j > i => t[j] = u[j]
      BY <2>1, <2>4, <2>5
    <3> QED BY <3>1, <1>3
  <2>6. ASSUME NEW i \in D, i > n - d PROVE u[i] = pass(u, i)
    <3>1. i >= k
      BY <2>1, <2>6 DEF k
    <3>2. CASE i = k
      BY <3>1, <3>2, <2>4, <2>5
    <3>3. CASE i # k
      <4>1. i > k
        BY <2>1, <3>1, <3>3
      <4> QED BY <4>1, <3>1, <3>3, <2>2, <2>4, <2>5
    <3> QED BY <3>2, <3>3
  <2> QED BY <2>1, <2>6 DEF u
<1> HIDE DEF N
<1>10. 0..n \subseteq N
  <2> HIDE DEF n
  <2> QED BY <1>1, <1>8, <1>9, UpTo
<1>11. n \in 0..n /\ \A i \in D : i > n - n
  BY <1>1
<1>12. g[n] \in V /\ \A i \in D : g[n][i] = pass(g[n], i)
  BY <1>10, <1>11 DEF N
<1> QED BY <1>12 DEF Passing, pass

\* There is one such pass only, so any choice of one is as good.
LEMMA PassIsTyped ==
    ASSUME NEW S, NEW items \in Seq(S), NEW new \in Seq(S), NEW H, NEW hits \in Seq(H), hits # <<>>, NEW f,
           f = [i \in 1..(Len(items) + Len(hits)) |-> Pass(items, hits, new, f, i)]
    PROVE  Passing(S, items, hits, new, f)
<1> DEFINE n == Len(items)
           w == Len(hits)
           D == 1..(n + w)
           pass(t, i) == Pass(items, hits, new, t, i)
           N == {d \in 0..n : \A i \in D : i > n - d => f[i] \in Seq(S)}
<1>1. n \in Nat /\ w \in Nat /\ w >= 1
  OBVIOUS
<1>2. \A i \in D : f[i] = pass(f, i)
  OBVIOUS
<1>3. 0 \in N
  <2>1. ASSUME NEW i \in D, i > n - 0 PROVE f[i] \in Seq(S)
    <3>1. i > n
      BY <1>1, <2>1
    <3>2. f[i] = <<>>
      <4>1. f[i] = pass(f, i)
        BY <1>2
      <4> QED BY <4>1, <3>1 DEF Pass
    <3> QED BY <3>2
  <2> QED BY <1>1, <2>1
<1>4. ASSUME NEW d \in 1..n, d - 1 \in N PROVE d \in N
  <2>1. \A i \in D : i > n - (d - 1) => f[i] \in Seq(S)
    BY <1>4
  <2>2. ASSUME NEW i \in D, i > n - d PROVE f[i] \in Seq(S)
    <3>1. CASE i > n - (d - 1)
      BY <2>1, <3>1
    <3>2. CASE ~(i > n - (d - 1))
      <4>1. /\ i \in 1..n /\ ~(i > n) /\ i + w \in D /\ i + 1 \in D /\ items[i] \in S
            /\ i + w > n - (d - 1) /\ i + 1 > n - (d - 1)
        BY <1>1, <2>2, <3>2
      <4>2. f[i + w] \in Seq(S) /\ f[i + 1] \in Seq(S)
        BY <2>1, <4>1
      <4>3. new \o f[i + w] \in Seq(S) /\ <<items[i]>> \o f[i + 1] \in Seq(S)
        BY <4>1, <4>2
      <4>4. f[i] = pass(f, i)
        BY <1>2
      <4> HIDE DEF D
      <4> QED BY <4>1, <4>3, <4>4 DEF Pass
    <3> QED BY <3>1, <3>2
  <2> QED BY <1>1, <2>2
<1> HIDE DEF N
<1>5. 0..n \subseteq N
  <2> HIDE DEF n
  <2> QED BY <1>1, <1>3, <1>4, UpTo
<1>6. n \in 0..n /\ \A i \in D : i > n - n
  BY <1>1
<1>7. \A i \in D : f[i] \in Seq(S)
  BY <1>5, <1>6 DEF N
<1>8. f \in [D -> Seq(S)]
  <2>1. f = [i \in D |-> pass(f, i)]
    OBVIOUS
  <2> HIDE DEF pass, D
  <2>2. DOMAIN f = D /\ f = [i \in D |-> f[i]]
    BY <2>1
  <2> QED BY <1>7, <2>2
<1> QED BY <1>2, <1>8 DEF Passing

LEMMA UptoMore ==
    ASSUME NEW S, NEW s \in Seq(S), NEW i \in 1..(Len(s) + 1), NEW w \in Nat, i + w <= Len(s) + 1
    PROVE  /\ SubSeq(s, i, i + w - 1) \in Seq(S) /\ Len(SubSeq(s, i, i + w - 1)) = w
           /\ Upto(s, i + w - 1) = Joined(Upto(s, i - 1), SubSeq(s, i, i + w - 1))
<1> DEFINE p == Upto(s, i - 1)
           t == SubSeq(s, i, i + w - 1)
           q == Upto(s, i + w - 1)
           r == Joined(p, t)
<1>1. Len(s) \in Nat /\ i - 1 \in 0..Len(s) /\ i + w - 1 \in 0..Len(s) /\ i \in Nat
  OBVIOUS
<1>2. p \in Seq(S) /\ Len(p) = i - 1 /\ \A k \in 1..(i - 1) : p[k] = s[k]
  BY <1>1 DEF Upto
<1>3. q \in Seq(S) /\ Len(q) = i + w - 1 /\ \A k \in 1..(i + w - 1) : q[k] = s[k]
  BY <1>1 DEF Upto
<1>4. t \in Seq(S) /\ Len(t) = w /\ \A k \in 1..w : t[k] = s[i + k - 1]
  <2>1. CASE w = 0
    BY <1>1, <2>1
  <2>2. CASE w # 0
    <3>1. i \in 1..Len(s) /\ i + w - 1 \in i..Len(s)
      BY <1>1, <2>2
    <3>2. t \in Seq(S) /\ Len(t) = w
      BY <1>1, <3>1
    <3>3. \A k \in 1..w : t[k] = s[i + k - 1]
      BY <1>1, <3>1
    <3> QED BY <3>2, <3>3
  <2> QED BY <2>1, <2>2
<1> HIDE DEF p, t, q
<1>5. /\ r \in Seq(S) /\ Len(r) = Len(p) + Len(t)
      /\ \A k \in 1..Len(p) : r[k] = p[k]
      /\ \A k \in (Len(p) + 1)..(Len(p) + Len(t)) : r[k] = t[k - Len(p)]
  BY <1>2, <1>4, ConcatElements DEF Joined
<1> HIDE DEF r
<1>6. Len(r) = i + w - 1
  BY <1>1, <1>2, <1>4, <1>5
<1>7. ASSUME NEW k \in 1..(i + w - 1) PROVE q[k] = r[k]
  <2>1. CASE k < i
    <3>1. k \in 1..(i - 1) /\ k \in 1..Len(p)
      BY <1>1, <1>2, <2>1
    <3> QED BY <3>1, <1>2, <1>3, <1>5
  <2>2. CASE ~(k < i)
    <3>1. /\ k \in (Len(p) + 1)..(Len(p) + Len(t)) /\ k - Len(p) \in 1..w
          /\ i + (k - Len(p)) - 1 = k
      BY <1>1, <1>2, <1>4, <2>2
    <3>2. r[k] = t[k - Len(p)] /\ t[k - Len(p)] = s[i + (k - Len(p)) - 1]
      BY <3>1, <1>4, <1>5
    <3> QED BY <3>1, <3>2, <1>3
  <2> QED BY <2>1, <2>2
<1>8. q = r
  BY <1>3, <1>5, <1>6, <1>7, EqualLists
<1> QED BY <1>4, <1>8 DEF p, t, q, r

\* A splice of all there is.
LEMMA SpliceWhole ==
    ASSUME NEW S, NEW t \in Seq(S), NEW new \in Seq(S) PROVE splice(t, 1, Len(t) + 1, new) = new
<1> DEFINE b == Len(t) + 1
           r == splice(t, 1, b, new)
<1>1. Len(t) \in Nat /\ 1 \in 1..(Len(t) + 1) /\ b \in 1..(Len(t) + 1) /\ Len(new) \in Nat /\ b = Len(t) + 1
  OBVIOUS
<1> HIDE DEF b
<1>2. SpliceIs(S, t, 1, b, new, r)
  BY <1>1, SpliceFacts
<1> HIDE DEF r
<1>3. r \in Seq(S) /\ Len(r) = Len(new) /\ \A i \in 1..Len(new) : r[i] = new[i]
  <2> DEFINE a == 1
  <2>1. a \in Nat /\ a = 1 /\ SpliceIs(S, t, a, b, new, r)
    BY <1>2
  <2> HIDE DEF a
  <2>2. r \in Seq(S)
    BY <2>1 DEF SpliceIs
  <2>3. Len(r) = Len(t) + Len(new) - (b - a)
    BY <2>1 DEF SpliceIs
  <2>4. \A i \in a..(a + Len(new) - 1) : r[i] = new[i - a + 1]
    BY <2>1 DEF SpliceIs
  <2>5. Len(r) = Len(new)
    BY <2>1, <2>3, <1>1
  <2>6. ASSUME NEW i \in 1..Len(new) PROVE r[i] = new[i]
    <3>1. i \in a..(a + Len(new) - 1) /\ i - a + 1 = i
      BY <2>1, <1>1
    <3> QED BY <3>1, <2>4
  <2> QED BY <2>2, <2>5, <2>6
<1>4. r = new
  BY <1>3, EqualLists
<1> QED BY <1>4 DEF r, b

LEMMA SpliceBehind ==
    ASSUME NEW S, NEW u \in Seq(S), NEW t \in Seq(S), NEW new \in Seq(S), NEW w, w = Len(t)
    PROVE  splice(Joined(u, t), Len(u) + 1, Len(u) + (1 + w), new) = Joined(u, new)
<1> DEFINE a == 1
           b == 1 + w
<1>1. a \in 1..(Len(t) + 1) /\ b \in a..(Len(t) + 1)
  OBVIOUS
<1>3. splice(t, a, b, new) = new
  <2>1. a = 1 /\ b = Len(t) + 1
    OBVIOUS
  <2> HIDE DEF a, b
  <2> QED BY <2>1, SpliceWhole
<1> HIDE DEF a, b
<1>2. splice(Joined(u, t), Len(u) + a, Len(u) + b, new) = Joined(u, splice(t, a, b, new))
  BY <1>1, SpliceAfter
<1> QED BY <1>2, <1>3 DEF a, b

LEMMA JoinedAssociates ==
    ASSUME NEW S, NEW a \in Seq(S), NEW b \in Seq(S), NEW c \in Seq(S)
    PROVE  Joined(a, Joined(b, c)) = Joined(Joined(a, b), c)
BY DEF Joined

LEMMA JoinedNothing == ASSUME NEW S, NEW s \in Seq(S) PROVE Joined(<<>>, s) = s /\ Joined(s, <<>>) = s
BY DEF Joined

LEMMA JoinedIsList ==
    ASSUME NEW S, NEW a \in Seq(S), NEW b \in Seq(S)
    PROVE  Joined(a, b) \in Seq(S) /\ Len(Joined(a, b)) = Len(a) + Len(b)
BY DEF Joined

LEMMA ScanIsPass ==
    ASSUME NEW S, NEW items \in Seq(S), NEW new \in Seq(S), NEW H, NEW hits \in Seq(H), hits # <<>>,
           \A i \in 1..Len(items) : SequenceAt(hits, i) => i + Len(hits) <= Len(items) + 1,
           NEW f, Passing(S, items, hits, new, f)
    PROVE  SpliceAll(items, NonOverlapping(items, hits), 0, Len(hits), new) = f[1]
<1> DEFINE n == Len(items)
           w == Len(hits)
<1>1. n \in Nat /\ w \in Nat /\ w >= 1
  OBVIOUS
<1>2. PICK g : Scanning(items, hits, g)
  BY ScanSteps
<1>3. g \in [0..n -> [found : Seq(1..n), free : Nat]] /\ g[0] = [found |-> <<>>, free |-> 1]
  BY <1>2 DEF Scanning
<1>4. ASSUME NEW i \in 1..n
      PROVE  /\ i >= g[i - 1].free /\ SequenceAt(hits, i)
                  => g[i] = [found |-> Append(g[i - 1].found, i), free |-> i + w]
             /\ ~(i >= g[i - 1].free /\ SequenceAt(hits, i)) => g[i] = g[i - 1]
  BY <1>2 DEF Scanning
<1>5. NonOverlapping(items, hits) = g[n].found
  BY <1>2 DEF Scanning
<1>6. \A i \in 1..n : SequenceAt(hits, i) => i + w <= n + 1
  OBVIOUS
<1>7. ASSUME NEW i \in 1..n
      PROVE  /\ f[i + w] \in Seq(S) /\ f[i + 1] \in Seq(S)
             /\ SequenceAt(hits, i) => f[i] = Joined(new, f[i + w])
             /\ ~SequenceAt(hits, i) => f[i] = Joined(<<items[i]>>, f[i + 1])
  <2>1. i \in 1..(n + w) /\ i + w \in 1..(n + w) /\ i + 1 \in 1..(n + w) /\ ~(i > n)
    BY <1>1
  <2>2. f[i + w] \in Seq(S) /\ f[i + 1] \in Seq(S)
    BY <2>1 DEF Passing
  <2>3. f[i] = Pass(items, hits, new, f, i)
    BY <2>1 DEF Passing
  <2> QED BY <2>1, <2>2, <2>3 DEF Pass, Joined
<1>8. f[n + 1] = <<>> /\ f[1] \in Seq(S)
  <2>1. n + 1 \in 1..(n + w) /\ 1 \in 1..(n + w) /\ n + 1 > n
    BY <1>1
  <2>2. f[n + 1] = Pass(items, hits, new, f, n + 1)
    BY <2>1 DEF Passing
  <2>3. f[1] \in Seq(S)
    BY <2>1 DEF Passing
  <2> QED BY <2>1, <2>2, <2>3 DEF Pass
<1> HIDE DEF n, w
<1> DEFINE done(s, e) == SpliceAll(Upto(items, e - 1), s, 0, w, new)
           Good(s, e) == /\ e \in 1..(n + 1)
                         /\ Replaces(S, Upto(items, e - 1), s, 0, w, new)
                         /\ f[1] = Joined(done(s, e), f[e])
           end(i) == IF g[i].free > i + 1 THEN g[i].free ELSE i + 1
           N == {i \in 0..n : Good(g[i].found, end(i))}
<1>9. 0 \in N
  <2>1. g[0].found = <<>> /\ end(0) = 1
    BY <1>3
  <2>2. Upto(items, 1 - 1) = <<>> /\ <<>> \in Seq(S) /\ Len(<<>>) = 0
    BY UptoFacts
  <2>3. Spaced(<<>>, 0, w, Len(<<>>)) /\ SpliceAll(<<>>, <<>>, 0, w, new) = <<>>
    BY <1>1, <2>2, SpliceNone
  <2>4. Replaces(S, Upto(items, 1 - 1), <<>>, 0, w, new)
    BY <1>1, <2>2, <2>3 DEF Replaces
  <2>5. f[1] = Joined(done(<<>>, 1), f[1])
    <3>1. done(<<>>, 1) = <<>>
      BY <2>2, <2>3
    <3> HIDE DEF done
    <3>2. f[1] = Joined(<<>>, f[1])
      BY <1>8, JoinedNothing
    <3> QED BY <3>1, <3>2
  <2> QED BY <1>1, <2>1, <2>4, <2>5
<1>10. ASSUME NEW i \in 1..n, i - 1 \in N PROVE i \in N
  <2> DEFINE s == g[i - 1].found
             e == g[i - 1].free
             p == Upto(items, i - 1)
  <2>1. i - 1 \in 0..n /\ i \in 0..n /\ (i - 1) + 1 = i /\ e \in Nat
    BY <1>1, <1>3
  <2>2. Good(s, end(i - 1))
    BY <1>10
  <2>3. CASE e > i
    <3>1. g[i] = g[i - 1]
      <4>1. ~(i >= e)
        <5> HIDE DEF e
        <5> QED BY <2>1, <2>3
      <4> QED BY <1>4, <4>1
    <3>2. end(i - 1) = e /\ end(i) = e
      BY <3>1, <2>1, <2>3
    <3> HIDE DEF Good, end
    <3> QED BY <3>1, <3>2, <2>1, <2>2
  <2>4. CASE ~(e > i)
    <3>1. end(i - 1) = i
      BY <2>1, <2>4
    <3>2. Replaces(S, p, s, 0, w, new) /\ f[1] = Joined(SpliceAll(p, s, 0, w, new), f[i]) /\ p \in Seq(S) /\ Len(p) = i - 1
      <4>1. p \in Seq(S) /\ Len(p) = i - 1
        BY <2>1, UptoFacts DEF n
      <4>2. Good(s, i)
        BY <3>1, <2>2
      <4> QED BY <4>1, <4>2
    <3> DEFINE a == SpliceAll(p, s, 0, w, new)
    <3>3. a \in Seq(S)
      <4>1. <<>> \in Seq(S)
        OBVIOUS
      <4> QED BY <4>1, <3>2, SpliceAllConcat
    <3>4. CASE SequenceAt(hits, i)
      <4> DEFINE tail == SubSeq(items, i, i + w - 1)
                 more == Append(s, i)
                 q == Upto(items, i + w - 1)
      <4>1. g[i] = [found |-> more, free |-> i + w]
        BY <1>4, <2>1, <2>4, <3>4, SMTT(30)
      <4>2. g[i].found = more /\ end(i) = i + w
        BY <4>1, <1>1
      <4>3. i + w <= n + 1 /\ i \in 1..(Len(items) + 1)
        BY <1>1, <1>6, <3>4 DEF n
      <4>4. tail \in Seq(S) /\ Len(tail) = w /\ q = Joined(p, tail)
        BY <4>3, <1>1, UptoMore DEF n
      <4> HIDE DEF tail, q, p, s
      <4>6. splice(Joined(p, tail), Len(p) + 1, Len(p) + (1 + w), new) = Joined(p, new)
        <5>1. p \in Seq(S) /\ tail \in Seq(S) /\ w = Len(tail)
          BY <3>2, <4>4
        <5> QED BY <5>1, SpliceBehind
      <4>7. Len(p) + 1 + 0 = Len(p) + 1 /\ Len(p) + 1 + 0 + w = Len(p) + (1 + w) /\ 1 + w = Len(tail) + 1 /\ 0 + w <= Len(tail)
        BY <1>1, <3>2, <4>4
      <4>8. Matches(S, p, tail, new, 0, w, new)
        BY <4>4, <4>6, <4>7, <1>1 DEF Matches
      <4>9. Len(p) + 1 = i
        BY <3>2
      <4>10. SpliceAll(q, more, 0, w, new) = Joined(a, new)
        BY <4>4, <4>8, <4>9, <3>2, SpliceAllNext
      <4>11. Spaced(more, 0, w, Len(p) + Len(tail))
        <5>1. Spaced(Append(s, Len(p) + 1), 0, w, Len(p) + Len(tail))
          BY <3>2, <4>8, SpacedNext
        <5> QED BY <5>1, <4>9
      <4>12. q \in Seq(S) /\ Len(q) = Len(p) + Len(tail)
        BY <4>4, <3>2, JoinedIsList
      <4>13. Replaces(S, q, more, 0, w, new)
        BY <4>11, <4>12, <1>1 DEF Replaces
      <4>14. f[1] = Joined(Joined(a, new), f[i + w])
        <5>1. f[i] = Joined(new, f[i + w]) /\ f[i + w] \in Seq(S)
          BY <1>7, <3>4
        <5>2. Joined(a, Joined(new, f[i + w])) = Joined(Joined(a, new), f[i + w])
          <6> HIDE DEF a
          <6> QED BY <5>1, <3>3, JoinedAssociates
        <5> QED BY <5>1, <5>2, <3>2
      <4>15. i + w \in 1..(n + 1)
        BY <4>3, <1>1
      <4>16. Good(more, i + w)
        <5>1. (i + w) - 1 = i + w - 1
          BY <1>1
        <5>2. Upto(items, (i + w) - 1) = q
          BY <5>1 DEF q
        <5> QED BY <4>10, <4>13, <4>14, <4>15, <5>2
      <4> HIDE DEF Good, end
      <4> QED BY <4>2, <4>16, <2>1
    <3>5. CASE ~SequenceAt(hits, i)
      <4> DEFINE x == items[i]
                 q == Upto(items, i)
                 tail == <<x>>
      <4>1. g[i] = g[i - 1]
        BY <1>4, <3>5
      <4>2. g[i].found = s /\ end(i) = i + 1
        BY <4>1, <2>1, <2>4
      <4>3. x \in S /\ q = Append(p, x)
        BY UptoFacts DEF n
      <4>4. tail \in Seq(S) /\ q = Joined(p, tail) /\ q \in Seq(S) /\ Len(q) = Len(p) + 1
        <5> HIDE DEF x, q, p
        <5> QED BY <3>2, <4>3 DEF Joined
      <4> HIDE DEF tail, q, p, s
      <4>5. SpliceAll(q, s, 0, w, new) = Joined(a, tail)
        BY <3>2, <4>4, SpliceAllConcat
      <4>6. Replaces(S, q, s, 0, w, new)
        <5>1. Spaced(s, 0, w, Len(p)) /\ new \in Seq(S)
          BY <3>2 DEF Replaces
        <5>2. Len(p) \in Nat /\ Len(q) \in Nat /\ Len(p) <= Len(q) /\ 0 \in Nat
          BY <3>2, <4>4
        <5>3. Spaced(s, 0, w, Len(q))
          BY <5>1, <5>2, <1>1, SpacedInMore
        <5> QED BY <5>1, <5>2, <5>3, <4>4, <1>1 DEF Replaces
      <4>7. f[1] = Joined(Joined(a, tail), f[i + 1])
        <5>1. f[i] = Joined(tail, f[i + 1]) /\ f[i + 1] \in Seq(S)
          BY <1>7, <3>5 DEF tail
        <5>2. Joined(a, Joined(tail, f[i + 1])) = Joined(Joined(a, tail), f[i + 1])
          <6> HIDE DEF a
          <6> QED BY <5>1, <3>3, <4>4, JoinedAssociates
        <5> QED BY <5>1, <5>2, <3>2
      <4>8. i + 1 \in 1..(n + 1) /\ (i + 1) - 1 = i
        BY <1>1
      <4>9. Good(s, i + 1)
        BY <4>5, <4>6, <4>7, <4>8 DEF q
      <4> HIDE DEF Good, end
      <4> QED BY <4>2, <4>9, <2>1
    <3> QED BY <3>4, <3>5
  <2> QED BY <2>3, <2>4
<1> HIDE DEF N
<1>11. 0..n \subseteq N
  BY <1>1, <1>9, <1>10, UpTo
<1>12. n \in 0..n /\ g[n].free \in Nat
  BY <1>1, <1>3
<1>13. Good(g[n].found, end(n))
  BY <1>11, <1>12 DEF N
<1>14. end(n) = n + 1
  <2>1. end(n) \in 1..(n + 1)
    BY <1>13
  <2> QED BY <2>1, <1>1, <1>12
<1> DEFINE a == SpliceAll(items, g[n].found, 0, w, new)
<1>15. f[1] = Joined(a, <<>>)
  <2>1. Upto(items, (n + 1) - 1) = items
    <3>1. (n + 1) - 1 = n
      BY <1>1
    <3> QED BY <3>1, UptoFacts DEF n
  <2> QED BY <1>8, <1>13, <1>14, <2>1
<1>16. a \in Seq(S)
  <2>1. Upto(items, (n + 1) - 1) = items
    <3>1. (n + 1) - 1 = n
      BY <1>1
    <3> QED BY <3>1, UptoFacts DEF n
  <2>2. Replaces(S, items, g[n].found, 0, w, new)
    BY <1>13, <1>14, <2>1
  <2>3. <<>> \in Seq(S)
    OBVIOUS
  <2> QED BY <2>2, <2>3, SpliceAllConcat
<1>17. Joined(a, <<>>) = a
  <2> HIDE DEF a
  <2> QED BY <1>16, JoinedNothing
<1> QED BY <1>5, <1>15, <1>17 DEF w

-----------------------------------------------------------------------------
(* Types.  Labels are not attached to a size, and have no targets. *)

Items == {x \in [op : Ops \cup {"label"}, id : Nat, targets : Seq(Nat)] :
            x.op = "label" => x.targets = <<>>}

Shaped(c) == c \in [insns : Seq(Instructions), handlers : Seq(Handlers), attrs : Seq(Attributes)]

NestedAttributes == {a \in Attributes : a.kind \notin DebugKinds}

Models ==
    [items : Seq(Items), handlers : Seq(Handlers), tables : [DebugKinds -> Seq(Nat)],
     attributes : Seq(NestedAttributes), layout : Seq(AttributeKinds), stale : BOOLEAN,
     original : [items : Seq(Items), handlers : Seq(Handlers)]]

TypeInvariant ==
    /\ Shaped(file)
    /\ code # NoCode => code \in Models /\ Shaped(origin)
    /\ wrote \in [frames : {"none", "preserved", "recomputed"}, strip : BOOLEAN]
    /\ edits \in Nat /\ writes \in Nat

-----------------------------------------------------------------------------
(* Offsets. *)

OffsetsAre(insns, f) ==
    /\ f \in [1..(Len(insns) + 1) -> Nat] /\ f[1] = 0
    /\ \A i \in 1..Len(insns) : f[i + 1] = f[i] + insns[i].size

LEMMA OffsetsFacts ==
    ASSUME NEW S, NEW insns \in Seq(S), \A x \in S : x.size \in Nat
    PROVE  OffsetsAre(insns, Offsets(insns))
<1> DEFINE n == Len(insns)
           next(i, v) == v + insns[i].size
           step == [i \in 1..n |-> [v \in Nat |-> next(i, v)]]
           Fits(f) == f = [i \in 1..(n + 1) |-> IF i = 1 THEN 0 ELSE f[i - 1] + insns[i - 1].size]
           at == CHOOSE f : Fits(f)
<1>1. n \in Nat /\ \A i \in 1..n : insns[i].size \in Nat
  OBVIOUS
<1>2. \A i \in 1..n, v \in Nat : next(i, v) \in Nat
  BY <1>1
<1>3. step \in [1..n -> [Nat -> Nat]] /\ \A i \in 1..n, v \in Nat : step[i][v] = next(i, v)
  <2> HIDE DEF next, n
  <2> QED BY <1>2
<1> HIDE DEF step, n
<1>4. PICK f \in [1..(n + 1) -> Nat] : RecursiveFromOne(n, 0, step, f)
  BY <1>1, <1>3, RecursionFromOne
<1>5. f[1] = 0 /\ \A i \in 1..n : f[i + 1] = f[i] + insns[i].size
  <2>1. \A i \in 1..n : i \in 1..(n + 1) /\ f[i] \in Nat
    BY <1>1, <1>4
  <2> QED BY <2>1, <1>3, <1>4 DEF RecursiveFromOne
<1>6. Fits(f)
  <2>1. f = [i \in 1..(n + 1) |-> f[i]]
    BY <1>4
  <2>2. ASSUME NEW i \in 1..(n + 1) PROVE f[i] = IF i = 1 THEN 0 ELSE f[i - 1] + insns[i - 1].size
    <3>1. CASE i = 1
      BY <1>5, <3>1
    <3>2. CASE i # 1
      <4>1. i - 1 \in 1..n /\ (i - 1) + 1 = i
        BY <1>1, <3>2
      <4> QED BY <4>1, <3>2, <1>5
    <3> QED BY <3>1, <3>2
  <2> QED BY <2>1, <2>2
<1>7. Fits(at)
  <2> HIDE DEF Fits
  <2> QED BY <1>6
<1>8. Offsets(insns) = at
  BY DEF Offsets, at, n
<1> HIDE DEF at
<1>9. at[1] = 0 /\ \A i \in 1..n : at[i + 1] = at[i] + insns[i].size
  <2>1. \A i \in 1..(n + 1) : at[i] = IF i = 1 THEN 0 ELSE at[i - 1] + insns[i - 1].size
    BY <1>7
  <2>2. \A i \in 1..n : i + 1 \in 1..(n + 1) /\ i + 1 # 1 /\ (i + 1) - 1 = i
    BY <1>1
  <2>3. 1 \in 1..(n + 1)
    BY <1>1
  <2> QED BY <2>1, <2>2, <2>3
<1>10. \A i \in 1..(n + 1) : at[i] \in Nat
  <2> DEFINE N == {i \in 1..(n + 1) : at[i] \in Nat}
  <2>1. 1 \in N
    BY <1>1, <1>9
  <2>3. ASSUME NEW i \in 1..n, i \in N PROVE i + 1 \in N
    <3>1. i + 1 \in 1..(n + 1)
      BY <1>1
    <3>2. at[i] \in Nat /\ insns[i].size \in Nat /\ at[i + 1] = at[i] + insns[i].size
      BY <2>3, <1>1, <1>9
    <3>3. at[i] + insns[i].size \in Nat
      BY <3>2
    <3> QED BY <3>1, <3>2, <3>3
  <2> HIDE DEF N
  <2>2. 1..(n + 1) \subseteq N
    BY <1>1, <2>1, <2>3, UpToFromOne
  <2> QED BY <2>2 DEF N
<1>11. at \in [1..(n + 1) -> Nat]
  <2>1. \E e : at = [i \in 1..(n + 1) |-> e[i]]
    <3> DEFINE e == [i \in 1..(n + 1) |-> IF i = 1 THEN 0 ELSE at[i - 1] + insns[i - 1].size]
    <3>1. at = e
      BY <1>7
    <3>2. e = [i \in 1..(n + 1) |-> e[i]]
      OBVIOUS
    <3> QED BY <3>1, <3>2
  <2> QED BY <2>1, <1>10
<1> QED BY <1>8, <1>9, <1>11 DEF n, OffsetsAre

LEMMA OffsetsOfInstructions ==
    ASSUME NEW insns \in Seq(Instructions) PROVE OffsetsAre(insns, Offsets(insns))
<1>1. \A x \in Instructions : x.size \in Nat
  BY DEF Instructions
<1> QED BY <1>1, OffsetsFacts

LEMMA SizesAreNumbers == ASSUME NEW x \in Items PROVE instruction_size(x) \in Nat
  BY OpsHaveLengths DEF Items, instruction_size

LEMMA ItemOffsetsFacts ==
    ASSUME NEW items \in Seq(Items)
    PROVE  /\ ItemOffsets(items) \in [1..(Len(items) + 1) -> Nat] /\ ItemOffsets(items)[1] = 0
           /\ \A i \in 1..Len(items) : ItemOffsets(items)[i + 1] = ItemOffsets(items)[i] + instruction_size(items[i])
<1> DEFINE sizes == [i \in 1..Len(items) |-> [size |-> instruction_size(items[i])]]
           S == [size : Nat]
<1>1. Len(items) \in Nat /\ DOMAIN items = 1..Len(items) /\ \A i \in 1..Len(items) : items[i] \in Items
  OBVIOUS
<1>2. \A i \in 1..Len(items) : instruction_size(items[i]) \in Nat
  BY <1>1, SizesAreNumbers
<1>3. sizes \in Seq(S) /\ Len(sizes) = Len(items) /\ \A i \in 1..Len(items) : sizes[i].size = instruction_size(items[i])
  BY <1>1, <1>2
<1>4. ItemOffsets(items) = Offsets(sizes)
  BY <1>1 DEF ItemOffsets
<1>5. \A x \in S : x.size \in Nat
  OBVIOUS
<1> HIDE DEF sizes, S
<1>6. OffsetsAre(sizes, Offsets(sizes))
  BY <1>3, <1>5, OffsetsFacts
<1> QED BY <1>1, <1>3, <1>4, <1>6 DEF OffsetsAre

-----------------------------------------------------------------------------
(* Attributes by their kinds. *)

IsOf(kinds) == {a \in Attributes : a.kind \in kinds}

IsNotOf(kinds) == {a \in Attributes : a.kind \notin kinds}

LEMMA OfKindIsChosen ==
    ASSUME NEW attrs \in Seq(Attributes), NEW kinds
    PROVE  /\ OfKind(attrs, kinds) = Chosen(attrs, IsOf(kinds))
           /\ NotOfKind(attrs, kinds) = Chosen(attrs, IsNotOf(kinds))
<1>1. DOMAIN attrs = 1..Len(attrs) /\ \A i \in 1..Len(attrs) : attrs[i] \in Attributes
  OBVIOUS
<1>2. OfKind(attrs, kinds) = Chosen(attrs, IsOf(kinds))
  <2>1. {i \in DOMAIN attrs : attrs[i].kind \in kinds} = {i \in DOMAIN attrs : attrs[i] \in IsOf(kinds)}
    BY <1>1 DEF IsOf
  <2> QED BY <2>1 DEF OfKind, Chosen
<1>3. NotOfKind(attrs, kinds) = Chosen(attrs, IsNotOf(kinds))
  <2>1. {i \in DOMAIN attrs : attrs[i].kind \notin kinds} = {i \in DOMAIN attrs : attrs[i] \in IsNotOf(kinds)}
    BY <1>1 DEF IsNotOf
  <2> QED BY <2>1 DEF NotOfKind, Chosen
<1> QED BY <1>2, <1>3

LEMMA RangeOfList ==
    ASSUME NEW S, NEW s \in Seq(S) PROVE Range(s) \subseteq S /\ \A i \in 1..Len(s) : s[i] \in Range(s)
  BY DEF Range

LEMMA InRange ==
    ASSUME NEW S, NEW s \in Seq(S), NEW x \in Range(s) PROVE \E i \in 1..Len(s) : s[i] = x
  BY DEF Range

LEMMA OfKindElements ==
    ASSUME NEW attrs \in Seq(Attributes), NEW kinds
    PROVE  /\ OfKind(attrs, kinds) \in Seq(Attributes) /\ NotOfKind(attrs, kinds) \in Seq(Attributes)
           /\ OfKind(attrs, kinds) \in Seq(IsOf(kinds)) /\ NotOfKind(attrs, kinds) \in Seq(IsNotOf(kinds))
           /\ \A a \in Range(attrs) : a.kind \in kinds => a \in Range(OfKind(attrs, kinds))
           /\ Range(OfKind(attrs, kinds)) \subseteq Range(attrs)
<1>1. /\ OfKind(attrs, kinds) = Chosen(attrs, IsOf(kinds))
      /\ NotOfKind(attrs, kinds) = Chosen(attrs, IsNotOf(kinds))
  BY OfKindIsChosen
<1>2. OfKind(attrs, kinds) \in Seq(Attributes) /\ NotOfKind(attrs, kinds) \in Seq(Attributes)
  BY KeptIsList DEF OfKind, NotOfKind
<1>3. /\ Chosen(attrs, IsOf(kinds)) \in Seq(Attributes \cap IsOf(kinds))
      /\ Range(Chosen(attrs, IsOf(kinds))) \subseteq Range(attrs)
      /\ \A i \in 1..Len(attrs) : attrs[i] \in IsOf(kinds) => attrs[i] \in Range(Chosen(attrs, IsOf(kinds)))
  BY ChosenElements
<1>4. Chosen(attrs, IsNotOf(kinds)) \in Seq(Attributes \cap IsNotOf(kinds))
  BY ChosenElements
<1>5. Attributes \cap IsOf(kinds) = IsOf(kinds) /\ Attributes \cap IsNotOf(kinds) = IsNotOf(kinds)
  BY DEF IsOf, IsNotOf
<1>6. ASSUME NEW a \in Range(attrs), a.kind \in kinds PROVE a \in Range(Chosen(attrs, IsOf(kinds)))
  <2>1. PICK i \in 1..Len(attrs) : attrs[i] = a
    BY InRange
  <2>2. attrs[i] \in IsOf(kinds)
    BY <2>1, <1>6 DEF IsOf
  <2> QED BY <2>1, <2>2, <1>3
<1> QED BY <1>1, <1>2, <1>3, <1>4, <1>5, <1>6

-----------------------------------------------------------------------------
(* Lifting. *)

LabelAt(c, i) == IF Offsets(c.insns)[i] \in Places(c) THEN <<Label(Offsets(c.insns)[i])>> ELSE <<>>

LiftedInsn(c, i) == [op |-> c.insns[i].op, id |-> c.insns[i].id, targets |-> c.insns[i].targets]

Groups(c) == [i \in 1..Len(c.insns) |-> Append(LabelAt(c, i), LiftedInsn(c, i))]

LEMMA LiftedIs ==
    ASSUME NEW c, Shaped(c)
    PROVE  LiftedItems(c) = FlattenSeq(Groups(c)) \o LabelAt(c, Len(c.insns) + 1)
<1>1. DOMAIN c.insns = 1..Len(c.insns)
  BY DEF Shaped
<1> QED BY <1>1 DEF LiftedItems, Groups, LabelAt, LiftedInsn

LEMMA LabelIsItem == ASSUME NEW l \in Nat PROVE Label(l) \in Items /\ Label(l).op = "label" /\ Label(l).id = l
  BY DEF Label, Items

LEMMA GroupsAre ==
    ASSUME NEW c, Shaped(c)
    PROVE  /\ OffsetsAre(c.insns, Offsets(c.insns)) /\ Len(c.insns) \in Nat
           /\ \A i \in 1..(Len(c.insns) + 1) : LabelAt(c, i) \in Seq(Items)
           /\ \A i \in 1..Len(c.insns) : LiftedInsn(c, i) \in Items
           /\ Groups(c) \in Seq(Seq(Items)) /\ Len(Groups(c)) = Len(c.insns)
<1>1. c.insns \in Seq(Instructions) /\ Len(c.insns) \in Nat /\ \A i \in 1..Len(c.insns) : c.insns[i] \in Instructions
  BY DEF Shaped
<1>2. OffsetsAre(c.insns, Offsets(c.insns))
  BY <1>1, OffsetsOfInstructions
<1>3. ASSUME NEW i \in 1..(Len(c.insns) + 1) PROVE LabelAt(c, i) \in Seq(Items)
  <2>1. Label(Offsets(c.insns)[i]) \in Items
    BY <1>2, LabelIsItem DEF OffsetsAre
  <2> QED BY <2>1 DEF LabelAt
<1>4. \A i \in 1..Len(c.insns) : LiftedInsn(c, i) \in Items
  BY <1>1, OpsHaveLengths DEF LiftedInsn, Items, Instructions
<1>5. \A i \in 1..Len(c.insns) : Append(LabelAt(c, i), LiftedInsn(c, i)) \in Seq(Items)
  <2>1. \A i \in 1..Len(c.insns) : i \in 1..(Len(c.insns) + 1)
    BY <1>1
  <2> QED BY <2>1, <1>3, <1>4, AppendProperties
<1>6. Groups(c) \in Seq(Seq(Items)) /\ Len(Groups(c)) = Len(c.insns)
  BY <1>1, <1>5 DEF Groups
<1> QED BY <1>1, <1>2, <1>3, <1>4, <1>6

LEMMA LiftedIsList == ASSUME NEW c, Shaped(c) PROVE LiftedItems(c) \in Seq(Items)
<1>1. FlattenSeq(Groups(c)) \in Seq(Items)
  BY GroupsAre, FlattenIsSequence
<1>2. Len(c.insns) + 1 \in 1..(Len(c.insns) + 1)
  BY GroupsAre
<1>3. LabelAt(c, Len(c.insns) + 1) \in Seq(Items)
  BY <1>2, GroupsAre
<1> QED BY <1>1, <1>3, LiftedIs, ConcatProperties

\* Each item is a label for a place, or an instruction read.
LEMMA LiftedElements ==
    ASSUME NEW c, Shaped(c), NEW x \in Range(LiftedItems(c))
    PROVE  \/ x.targets = <<>>
           \/ \E i \in 1..Len(c.insns) : x.targets = c.insns[i].targets
<1> DEFINE flat == FlattenSeq(Groups(c))
           end == LabelAt(c, Len(c.insns) + 1)
<1>1. flat \in Seq(Items) /\ end \in Seq(Items) /\ LiftedItems(c) = flat \o end
  <2>1. Len(c.insns) + 1 \in 1..(Len(c.insns) + 1)
    BY GroupsAre
  <2> QED BY <2>1, GroupsAre, FlattenIsSequence, LiftedIs
<1>2. ASSUME NEW i \in 1..(Len(c.insns) + 1), NEW y \in Range(LabelAt(c, i)) PROVE y.targets = <<>>
  BY DEF LabelAt, Label, Range
<1> HIDE DEF flat, end
<1>3. x \in Range(flat) \/ x \in Range(end)
  <2>1. PICK k \in 1..Len(flat \o end) : (flat \o end)[k] = x
    <3>1. flat \o end \in Seq(Items)
      BY <1>1
    <3> QED BY <3>1, <1>1, InRange
  <2>2. k \in 1..Len(flat) \/ k \in (Len(flat) + 1)..(Len(flat) + Len(end))
    BY <1>1, <2>1
  <2>3. CASE k \in 1..Len(flat)
    <3>1. flat[k] = x
      BY <2>1, <2>3, <1>1, ConcatElements
    <3> QED BY <3>1, <2>3, <1>1, RangeOfList
  <2>4. CASE k \in (Len(flat) + 1)..(Len(flat) + Len(end))
    <3>1. end[k - Len(flat)] = x
      BY <2>1, <2>4, <1>1, ConcatElements
    <3>2. k - Len(flat) \in 1..Len(end)
      BY <2>4, <1>1
    <3> QED BY <3>1, <3>2, <1>1, RangeOfList
  <2> QED BY <2>2, <2>3, <2>4
<1>4. CASE x \in Range(end)
  <2>1. Len(c.insns) + 1 \in 1..(Len(c.insns) + 1)
    BY GroupsAre
  <2> QED BY <2>1, <1>2, <1>4 DEF end
<1>5. CASE x \in Range(flat)
  <2>1. PICK i \in 1..Len(Groups(c)) : x \in Range(Groups(c)[i])
    BY <1>5, GroupsAre, FlattenElements DEF flat
  <2>2. i \in 1..Len(c.insns) /\ i \in 1..(Len(c.insns) + 1) /\ Groups(c)[i] = Append(LabelAt(c, i), LiftedInsn(c, i))
    BY <2>1, GroupsAre DEF Groups
  <2>3. LabelAt(c, i) \in Seq(Items) /\ LiftedInsn(c, i) \in Items
    BY <2>2, GroupsAre
  <2>4. x \in Range(LabelAt(c, i)) \/ x = LiftedInsn(c, i)
    <3> DEFINE a == LabelAt(c, i)
               b == LiftedInsn(c, i)
    <3>1. a \in Seq(Items) /\ b \in Items /\ x \in Range(Append(a, b))
      BY <2>1, <2>2, <2>3
    <3> HIDE DEF a, b
    <3>2. x \in Range(a) \/ x = b
      BY <3>1 DEF Range
    <3> QED BY <3>2 DEF a, b
  <2>5. LiftedInsn(c, i).targets = c.insns[i].targets
    BY DEF LiftedInsn
  <2> QED BY <2>2, <2>4, <2>5, <1>2
<1> QED BY <1>3, <1>4, <1>5

\* Every place that is an offset is labelled, that behind the last instruction too.
LEMMA PlacesAreLabelled ==
    ASSUME NEW c, Shaped(c), NEW p \in Places(c), p \in Range(Offsets(c.insns))
    PROVE  p \in LabelsIn(LiftedItems(c))
<1> DEFINE flat == FlattenSeq(Groups(c))
           end == LabelAt(c, Len(c.insns) + 1)
           items == LiftedItems(c)
<1>1. flat \in Seq(Items) /\ end \in Seq(Items) /\ items = flat \o end /\ items \in Seq(Items)
  <2>1. Len(c.insns) + 1 \in 1..(Len(c.insns) + 1)
    BY GroupsAre
  <2> QED BY <2>1, GroupsAre, FlattenIsSequence, LiftedIs, LiftedIsList
<1>2. PICK i \in 1..(Len(c.insns) + 1) : Offsets(c.insns)[i] = p
  <2>1. DOMAIN Offsets(c.insns) = 1..(Len(c.insns) + 1)
    BY GroupsAre DEF OffsetsAre
  <2> QED BY <2>1 DEF Range
<1>3. LabelAt(c, i) = <<Label(p)>> /\ p \in Nat
  BY <1>2, GroupsAre DEF LabelAt, OffsetsAre
<1>4. Label(p) \in Range(flat) \/ Label(p) \in Range(end)
  <2>1. CASE i = Len(c.insns) + 1
    <3>1. end = <<Label(p)>>
      BY <1>3, <2>1
    <3> QED BY <3>1 DEF Range
  <2>2. CASE i # Len(c.insns) + 1
    <3>1. i \in 1..Len(c.insns)
      BY <2>2, GroupsAre
    <3>2. Groups(c)[i] = Append(<<Label(p)>>, LiftedInsn(c, i))
      BY <3>1, <1>3 DEF Groups
    <3>3. Label(p) \in Range(Groups(c)[i])
      BY <3>2 DEF Range
    <3>4. i \in 1..Len(Groups(c))
      BY <3>1, GroupsAre
    <3> QED BY <3>3, <3>4, GroupsAre, FlattenElements
  <2> QED BY <2>1, <2>2
<1> HIDE DEF flat, end, items
<1>5. \E k \in 1..Len(items) : items[k] = Label(p)
  <2>1. CASE Label(p) \in Range(flat)
    <3>1. PICK k \in 1..Len(flat) : flat[k] = Label(p)
      BY <2>1, <1>1, InRange
    <3>2. items[k] = flat[k] /\ k \in 1..Len(items)
      BY <3>1, <1>1
    <3> QED BY <3>1, <3>2
  <2>2. CASE Label(p) \in Range(end)
    <3>1. PICK k \in 1..Len(end) : end[k] = Label(p)
      BY <2>2, <1>1, InRange
    <3>2. items[Len(flat) + k] = end[k] /\ Len(flat) + k \in 1..Len(items)
      BY <3>1, <1>1
    <3> QED BY <3>1, <3>2
  <2> QED BY <1>4, <2>1, <2>2
<1>6. DOMAIN items = 1..Len(items)
  BY <1>1
<1>7. Label(p).op = "label" /\ Label(p).id = p
  BY <1>3, LabelIsItem
<1> QED BY <1>5, <1>6, <1>7 DEF LabelsIn, items

-----------------------------------------------------------------------------
(* The tables of a kind. *)

LEMMA LastIsElement ==
    ASSUME NEW S, NEW s \in Seq(S), s # <<>> PROVE Last(s) \in Range(s) /\ Last(s) \in S
<1>1. Len(s) \in 1..Len(s) /\ Last(s) = s[Len(s)]
  BY DEF Last
<1> QED BY <1>1, RangeOfList

LEMMA TableFacts ==
    ASSUME NEW attrs \in Seq(Attributes), NEW kind
    PROVE  /\ Table(attrs, kind) \in Seq(Nat)
           /\ Table(attrs, kind) = <<>> \/ \E a \in Range(attrs) : a.kind = kind /\ Table(attrs, kind) = a.at
<1> DEFINE tables == OfKind(attrs, {kind})
<1>1. tables \in Seq(IsOf({kind})) /\ Range(tables) \subseteq Range(attrs)
  BY OfKindElements
<1>2. Table(attrs, kind) = IF tables = <<>> THEN <<>> ELSE Last(tables).at
  BY DEF Table
<1> HIDE DEF tables
<1>3. CASE tables = <<>>
  BY <1>2, <1>3
<1>4. CASE tables # <<>>
  <2>1. Last(tables) \in Range(tables) /\ Last(tables) \in IsOf({kind})
    BY <1>1, <1>4, LastIsElement
  <2>2. Last(tables).at \in Seq(Nat) /\ Last(tables).kind = kind
    BY <2>1 DEF IsOf, Attributes
  <2> QED BY <2>1, <2>2, <1>1, <1>2, <1>4
<1> QED BY <1>3, <1>4

LEMMA PlacesAre ==
    ASSUME NEW c, NEW p
    PROVE  p \in Places(c) <=> \/ \E i \in DOMAIN c.insns : p \in Range(c.insns[i].targets)
                               \/ \E h \in Range(c.handlers) : p \in {h.start, h.end, h.handler}
                               \/ \E a \in Range(OfKind(c.attrs, DebugKinds)) : p \in Range(a.at)
<1> DEFINE A == UNION {Range(c.insns[i].targets) : i \in DOMAIN c.insns}
           B == UNION {{h.start, h.end, h.handler} : h \in Range(c.handlers)}
           D == UNION {Range(a.at) : a \in Range(OfKind(c.attrs, DebugKinds))}
<1>1. Places(c) = A \cup B \cup D
  BY Zenon DEF Places
<1>2. p \in A <=> \E i \in DOMAIN c.insns : p \in Range(c.insns[i].targets)
  OBVIOUS
<1>3. p \in B <=> \E h \in Range(c.handlers) : p \in {h.start, h.end, h.handler}
  OBVIOUS
<1>4. p \in D <=> \E a \in Range(OfKind(c.attrs, DebugKinds)) : p \in Range(a.at)
  OBVIOUS
<1> HIDE DEF A, B, D
<1> QED BY <1>1, <1>2, <1>3, <1>4

LEMMA PlacesOfTables ==
    ASSUME NEW c, Shaped(c), NEW kind \in DebugKinds PROVE Range(Table(c.attrs, kind)) \subseteq Places(c)
<1>1. c.attrs \in Seq(Attributes)
  BY DEF Shaped
<1>2. CASE Table(c.attrs, kind) = <<>>
  BY <1>2 DEF Range
<1>3. CASE Table(c.attrs, kind) # <<>>
  <2>1. PICK a \in Range(c.attrs) : a.kind = kind /\ Table(c.attrs, kind) = a.at
    BY <1>1, <1>3, TableFacts
  <2>2. a \in Range(OfKind(c.attrs, DebugKinds))
    BY <1>1, <2>1, OfKindElements
  <2> QED BY <2>1, <2>2, PlacesAre
<1> QED BY <1>2, <1>3

LEMMA ReferencedAre ==
    ASSUME NEW model, NEW strip, NEW p \in Referenced(model, strip)
    PROVE  \/ \E x \in Range(model.items) : p \in Range(x.targets)
           \/ \E h \in Range(model.handlers) : p \in {h.start, h.end, h.handler}
           \/ ~strip_debug_info(model, strip) /\ \E kind \in DebugKinds : p \in Range(model.tables[kind])
<1> DEFINE A == UNION {Range(x.targets) : x \in Range(model.items)}
           B == UNION {{h.start, h.end, h.handler} : h \in Range(model.handlers)}
           D == UNION {Range(model.tables[kind]) : kind \in DebugKinds}
<1>1. p \in A \/ p \in B \/ (~strip_debug_info(model, strip) /\ p \in D)
  <2> DEFINE E == IF strip_debug_info(model, strip) THEN {} ELSE D
  <2>1. Referenced(model, strip) = A \cup B \cup E
    BY Zenon DEF Referenced
  <2>2. p \in E => ~strip_debug_info(model, strip) /\ p \in D
    <3> HIDE DEF D
    <3> QED OBVIOUS
  <2> HIDE DEF A, B, D, E
  <2> QED BY <2>1, <2>2
<1>2. p \in A => \E x \in Range(model.items) : p \in Range(x.targets)
  OBVIOUS
<1>3. p \in B => \E h \in Range(model.handlers) : p \in {h.start, h.end, h.handler}
  OBVIOUS
<1>4. p \in D => \E kind \in DebugKinds : p \in Range(model.tables[kind])
  OBVIOUS
<1> HIDE DEF A, B, D
<1> QED BY <1>1, <1>2, <1>3, <1>4

\* Code whose places are all offsets is written, unless it is edited.
LEMMA LiftedIsWritable ==
    ASSUME NEW c, Shaped(c), Places(c) \subseteq Range(Offsets(c.insns))
    PROVE  Referenced(lift_code_model(c), FALSE) \subseteq LabelsIn(lift_code_model(c).items)
<1> DEFINE model == lift_code_model(c)
<1>1. /\ model.items = LiftedItems(c) /\ model.handlers = c.handlers /\ ~model.stale
      /\ model.tables = [kind \in DebugKinds |-> Table(c.attrs, kind)]
  BY DEF lift_code_model
<1>2. ASSUME NEW x \in Range(model.items) PROVE Range(x.targets) \subseteq Places(c)
  <2>1. x.targets = <<>> \/ \E i \in 1..Len(c.insns) : x.targets = c.insns[i].targets
    BY <1>1, LiftedElements
  <2>2. CASE x.targets = <<>>
    BY <2>2 DEF Range
  <2>3. ASSUME NEW i \in 1..Len(c.insns), x.targets = c.insns[i].targets PROVE Range(x.targets) \subseteq Places(c)
    <3>1. i \in DOMAIN c.insns
      BY DEF Shaped
    <3> QED BY <2>3, <3>1, PlacesAre
  <2> QED BY <2>1, <2>2, <2>3
<1>3. ASSUME NEW h \in Range(model.handlers) PROVE {h.start, h.end, h.handler} \subseteq Places(c)
  BY <1>1, PlacesAre
<1>4. ASSUME NEW kind \in DebugKinds PROVE Range(model.tables[kind]) \subseteq Places(c)
  BY <1>1, PlacesOfTables
<1> HIDE DEF model
<1>5. Referenced(model, FALSE) \subseteq Places(c)
  BY <1>2, <1>3, <1>4, ReferencedAre
<1>6. Places(c) \subseteq LabelsIn(model.items)
  BY <1>1, PlacesAreLabelled
<1> QED BY <1>5, <1>6 DEF model

LEMMA LiftIsTyped == ASSUME NEW c, Shaped(c) PROVE lift_code_model(c) \in Models
<1>1. LiftedItems(c) \in Seq(Items)
  BY LiftedIsList
<1>2. c.handlers \in Seq(Handlers) /\ c.attrs \in Seq(Attributes)
  BY DEF Shaped
<1>3. [kind \in DebugKinds |-> Table(c.attrs, kind)] \in [DebugKinds -> Seq(Nat)]
  BY <1>2, TableFacts
<1>4. NotOfKind(c.attrs, DebugKinds) \in Seq(NestedAttributes)
  <2>1. IsNotOf(DebugKinds) = NestedAttributes
    BY DEF IsNotOf, NestedAttributes
  <2> QED BY <2>1, <1>2, OfKindElements
<1>5. Kinds(c.attrs) \in Seq(AttributeKinds)
  <2>1. Len(c.attrs) \in Nat /\ DOMAIN c.attrs = 1..Len(c.attrs) /\ \A i \in 1..Len(c.attrs) : c.attrs[i].kind \in AttributeKinds
    <3>1. \A i \in 1..Len(c.attrs) : c.attrs[i] \in Attributes
      BY <1>2
    <3>2. \A a \in Attributes : a.kind \in AttributeKinds
      BY DEF Attributes
    <3> QED BY <1>2, <3>1, <3>2
  <2> QED BY <2>1 DEF Kinds
<1> QED BY <1>1, <1>2, <1>3, <1>4, <1>5 DEF lift_code_model, Models

-----------------------------------------------------------------------------
(* Edits keep the items what they are. *)

LEMMA InsertedIsList == ASSUME NEW s \in Seq(Ops) PROVE Inserted(s) \in Seq(Items) /\ (s # <<>> => Inserted(s) # <<>>)
<1>1. Len(s) \in Nat /\ DOMAIN s = 1..Len(s) /\ \A i \in 1..Len(s) : s[i] \in Ops
  OBVIOUS
<1>2. \A i \in 1..Len(s) : [op |-> s[i], id |-> 0, targets |-> <<>>] \in Items
  BY <1>1 DEF Items
<1>3. Inserted(s) = [i \in 1..Len(s) |-> [op |-> s[i], id |-> 0, targets |-> <<>>]]
  BY <1>1 DEF Inserted
<1> QED BY <1>1, <1>2, <1>3

LEMMA SpliceKeepsLists ==
    ASSUME NEW S, NEW new \in Seq(S), NEW u \in Seq(S), NEW a \in 1..(Len(u) + 1), NEW b \in a..(Len(u) + 1)
    PROVE  splice(u, a, b, new) \in Seq(S)
  BY SpliceElements

LEMMA SpliceAllKeepsLists ==
    ASSUME NEW S, NEW items \in Seq(S), NEW new \in Seq(S), NEW skip \in Nat, NEW width \in Nat, NEW found,
           Spaced(found, skip, width, Len(items))
    PROVE  SpliceAll(items, found, skip, width, new) \in Seq(S)
<1>1. \A u \in Seq(S) : \A a \in 1..(Len(u) + 1) : \A b \in a..(Len(u) + 1) : splice(u, a, b, new) \in Seq(S)
  BY SpliceKeepsLists
<1> QED BY <1>1, SpliceAllIn

LEMMA PatternFacts ==
    ASSUME NEW items \in Seq(Items), NEW p \in Patterns
    PROVE  /\ SelectedBy(p, items) \in Seq(SUBSET (1..Len(items))) /\ SelectedBy(p, items) # <<>>
           /\ Len(SelectedBy(p, items)) = Len(p)
           /\ \A i \in 1..Len(items) : SequenceAt(SelectedBy(p, items), i) => i + Len(p) <= Len(items) + 1
<1> DEFINE hits == SelectedBy(p, items)
<1>1. p # <<>> /\ p \in Seq(SUBSET (Ops \cup {"label"}))
  BY PatternsMatchSomething
<1>2. Len(p) \in Nat /\ Len(p) >= 1 /\ DOMAIN p = 1..Len(p)
  BY <1>1
<1>3. Len(items) \in Nat /\ DOMAIN items = 1..Len(items)
  OBVIOUS
<1>4. hits = [k \in 1..Len(p) |-> Selected(p[k], items)] /\ \A k \in 1..Len(p) : Selected(p[k], items) \in SUBSET (1..Len(items))
  BY <1>2, <1>3 DEF SelectedBy, Selected
<1> HIDE DEF hits
<1>5. hits \in Seq(SUBSET (1..Len(items))) /\ Len(hits) = Len(p)
  BY <1>2, <1>4
<1>6. ASSUME NEW i \in 1..Len(items), SequenceAt(hits, i) PROVE i + Len(p) <= Len(items) + 1
  <2>1. Len(p) \in DOMAIN hits /\ hits[Len(p)] \subseteq 1..Len(items)
    BY <1>2, <1>4
  <2>2. i + Len(p) - 1 \in 1..Len(items)
    BY <1>6, <2>1 DEF SequenceAt
  <2> QED BY <2>2, <1>2, <1>3
<1> QED BY <1>2, <1>5, <1>6 DEF hits

LEMMA EditsKeepItems ==
    ASSUME NEW items \in Seq(Items), NEW m, NEW new \in Seq(Items)
    PROVE  /\ Redirect(items) \in Seq(Items) /\ remove_insns(items, m) \in Seq(Items)
           /\ replace_insns(items, m, new) \in Seq(Items) /\ insert_before(items, m, new) \in Seq(Items)
           /\ insert_after(items, m, new) \in Seq(Items)
           /\ \A p \in Patterns : replace_sequences(items, p, new) \in Seq(Items)
<1> DEFINE found == find_insns(items, m)
<1>1. remove_insns(items, m) \in Seq(Items)
  BY KeptIsList DEF remove_insns
<1>2. /\ Spaced(found, 0, 1, Len(items)) /\ Spaced(found, 0, 0, Len(items)) /\ Spaced(found, 1, 0, Len(items))
  BY PositionsAreSpaced DEF find_insns
<1> HIDE DEF found
<1>3. /\ SpliceAll(items, found, 0, 1, new) \in Seq(Items) /\ SpliceAll(items, found, 0, 0, new) \in Seq(Items)
      /\ SpliceAll(items, found, 1, 0, new) \in Seq(Items)
  BY <1>2, SpliceAllKeepsLists
<1>4. ASSUME NEW p \in Patterns PROVE replace_sequences(items, p, new) \in Seq(Items)
  <2> DEFINE hits == SelectedBy(p, items)
             where == NonOverlapping(items, hits)
  <2>1. /\ hits \in Seq(SUBSET (1..Len(items))) /\ hits # <<>> /\ Len(hits) = Len(p) /\ Len(hits) \in Nat
        /\ \A i \in 1..Len(items) : SequenceAt(hits, i) => i + Len(hits) <= Len(items) + 1
    <3>1. /\ hits \in Seq(SUBSET (1..Len(items))) /\ hits # <<>> /\ Len(hits) = Len(p)
          /\ \A i \in 1..Len(items) : SequenceAt(hits, i) => i + Len(p) <= Len(items) + 1
      BY PatternFacts
    <3> HIDE DEF hits
    <3>2. Len(hits) \in Nat
      BY <3>1
    <3> QED BY <3>1, <3>2
  <2>2. replace_sequences(items, p, new) = SpliceAll(items, where, 0, Len(hits), new)
    BY <2>1 DEF replace_sequences, find_non_overlapping_sequences
  <2> HIDE DEF hits
  <2>3. Spaced(where, 0, Len(hits), Len(items))
    BY <2>1, NonOverlappingIsSpaced
  <2> HIDE DEF where
  <2> QED BY <2>1, <2>2, <2>3, SpliceAllKeepsLists
<1>5. Redirect(items) \in Seq(Items)
  <2>1. Len(items) \in Nat /\ DOMAIN items = 1..Len(items) /\ \A i \in 1..Len(items) : items[i] \in Items
    OBVIOUS
  <2>2. ASSUME NEW x \in Items, x.op \in DOMAIN Redirected PROVE [x EXCEPT !.op = Redirected[@]] \in Items
    <3>1. x.op \in Ops /\ Redirected[x.op] \in Ops /\ Redirected[x.op] # "label" /\ "label" \notin Ops
      BY <2>2, RedirectsKeepOps, OpsHaveLengths
    <3> QED BY <3>1 DEF Items
  <2>3. Redirect(items) = [i \in 1..Len(items) |->
            IF items[i].op \in DOMAIN Redirected THEN [items[i] EXCEPT !.op = Redirected[@]] ELSE items[i]]
    BY <2>1 DEF Redirect
  <2> QED BY <2>1, <2>2, <2>3
<1> QED BY <1>1, <1>3, <1>4, <1>5 DEF replace_insns, insert_before, insert_after, found

-----------------------------------------------------------------------------
(* Edits are exact. *)

LEMMA SpliceOfOne ==
    ASSUME NEW S, NEW x \in S, NEW new \in Seq(S)
    PROVE  /\ splice(<<x>>, 1 + 0, 1 + 0 + 1, new) = new
           /\ splice(<<x>>, 1 + 0, 1 + 0 + 0, new) = Append(new, x)
           /\ splice(<<x>>, 1 + 1, 1 + 1 + 0, new) = <<x>> \o new
<1>1. splice(<<x>>, 1, 2, new) = new
  <2>1. <<x>> \in Seq(S) /\ Len(<<x>>) + 1 = 2
    OBVIOUS
  <2> QED BY <2>1, SpliceWhole
<1>2. /\ SubSeq(<<x>>, 1, 0) = <<>> /\ SubSeq(<<x>>, 1, 1) = <<x>> /\ SubSeq(<<x>>, 2, 1) = <<>>
      /\ Len(<<x>>) = 1 /\ 1 - 1 = 0 /\ 2 - 1 = 1
  <2> DEFINE u == <<x>>
  <2>1. u \in Seq(S) /\ Len(u) = 1 /\ u[1] = x
    OBVIOUS
  <2> HIDE DEF u
  <2>2. SubSeq(u, 1, 0) = <<>> /\ SubSeq(u, 2, 1) = <<>>
    BY SubSeqEmpty
  <2>3. SubSeq(u, 1, 1) = u
    BY <2>1, UptoFacts DEF Upto
  <2> QED BY <2>1, <2>2, <2>3 DEF u
<1>3. splice(<<x>>, 1, 1, new) = <<>> \o new \o <<x>>
  BY <1>2 DEF splice
<1>4. splice(<<x>>, 2, 2, new) = <<x>> \o new \o <<>>
  BY <1>2 DEF splice
<1>5. <<>> \o new \o <<x>> = Append(new, x)
  OBVIOUS
<1>6. <<x>> \o new \o <<>> = <<x>> \o new
  OBVIOUS
<1>7. 1 + 0 = 1 /\ 1 + 0 + 1 = 2 /\ 1 + 0 + 0 = 1 /\ 1 + 1 = 2 /\ 1 + 1 + 0 = 2
  OBVIOUS
<1> QED BY <1>1, <1>3, <1>4, <1>5, <1>6, <1>7

Spreading(items, m, rep) ==
    FlattenSeq([i \in DOMAIN items |-> IF items[i].op \in m THEN rep[items[i]] ELSE <<items[i]>>])

LEMMA SplicesAreSpread ==
    ASSUME NEW items \in Seq(Items), NEW m, NEW new \in Seq(Items), NEW skip \in Nat, NEW width \in Nat,
           skip + width <= 1, NEW rep, Makes(Items, skip, width, new, rep)
    PROVE  SpliceAll(items, find_insns(items, m), skip, width, new) = Spreading(items, m, rep)
<1> DEFINE hits == Selected(m, items)
<1>1. DOMAIN items = 1..Len(items) /\ \A i \in 1..Len(items) : i \in hits <=> items[i].op \in m
  BY DEF Selected
<1>2. find_insns(items, m) = Positions(items, hits)
  BY DEF find_insns
<1> HIDE DEF hits
<1>3. SpliceAll(items, Positions(items, hits), skip, width, new) = OneByOne(items, hits, rep)
  BY SpliceIsSpread
<1>4. [i \in 1..Len(items) |-> IF i \in hits THEN rep[items[i]] ELSE <<items[i]>>]
        = [i \in DOMAIN items |-> IF items[i].op \in m THEN rep[items[i]] ELSE <<items[i]>>]
  BY <1>1
<1> QED BY <1>2, <1>3, <1>4 DEF Spreading, OneByOne

LEMMA SpreadIs ==
    ASSUME NEW items \in Seq(Items), NEW m, NEW new \in Seq(Items)
    PROVE  /\ Spread(items, m, LAMBDA x : new) = Spreading(items, m, [x \in Items |-> new])
           /\ Spread(items, m, LAMBDA x : Append(new, x)) = Spreading(items, m, [x \in Items |-> Append(new, x)])
           /\ Spread(items, m, LAMBDA x : <<x>> \o new) = Spreading(items, m, [x \in Items |-> <<x>> \o new])
<1>1. \A i \in DOMAIN items : items[i] \in Items
  OBVIOUS
<1>2. [i \in DOMAIN items |-> IF items[i].op \in m THEN new ELSE <<items[i]>>]
        = [i \in DOMAIN items |-> IF items[i].op \in m THEN [x \in Items |-> new][items[i]] ELSE <<items[i]>>]
  BY <1>1
<1>3. [i \in DOMAIN items |-> IF items[i].op \in m THEN Append(new, items[i]) ELSE <<items[i]>>]
        = [i \in DOMAIN items |-> IF items[i].op \in m THEN [x \in Items |-> Append(new, x)][items[i]] ELSE <<items[i]>>]
  BY <1>1
<1>4. [i \in DOMAIN items |-> IF items[i].op \in m THEN <<items[i]>> \o new ELSE <<items[i]>>]
        = [i \in DOMAIN items |-> IF items[i].op \in m THEN [x \in Items |-> <<x>> \o new][items[i]] ELSE <<items[i]>>]
  BY <1>1
<1> QED BY <1>2, <1>3, <1>4 DEF Spread, Spreading

LEMMA ReplacedIsRewritten ==
    ASSUME NEW items \in Seq(Items), NEW p \in Patterns, NEW new \in Seq(Items)
    PROVE  replace_sequences(items, p, new) = Rewritten(items, p, new)
<1> DEFINE hits == SelectedBy(p, items)
           H == SUBSET (1..Len(items))
           w == Len(p)
           D == 1..(Len(items) + w)
           pass(t, i) == IF i > Len(items) THEN <<>>
                         ELSE IF SequenceAt(hits, i) THEN new \o t[i + w]
                         ELSE <<items[i]>> \o t[i + 1]
           Fits(t) == t = [i \in D |-> pass(t, i)]
           from == CHOOSE t : Fits(t)
<1>1. hits \in Seq(H) /\ hits # <<>> /\ Len(hits) = w
  BY PatternFacts
<1>2. \A i \in 1..Len(items) : SequenceAt(hits, i) => i + w <= Len(items) + 1
  BY PatternFacts
<1>3. Rewritten(items, p, new) = from[1]
  BY DEF Rewritten
<1>4. replace_sequences(items, p, new) = SpliceAll(items, NonOverlapping(items, hits), 0, w, new)
  BY DEF replace_sequences, find_non_overlapping_sequences
<1> HIDE DEF hits, w, H, from
<1>5. \A t, i : pass(t, i) = Pass(items, hits, new, t, i)
  BY <1>1 DEF Pass
<1>6. PICK f : Passing(Items, items, hits, new, f)
  BY <1>1, PassExists
<1>7. \E t : Fits(t)
  <2>1. f \in [D -> Seq(Items)] /\ \A i \in D : f[i] = Pass(items, hits, new, f, i)
    BY <1>1, <1>6 DEF Passing
  <2>2. \A i \in D : f[i] = pass(f, i)
    BY <2>1, <1>5
  <2>3. f = [i \in D |-> f[i]]
    BY <2>1
  <2> HIDE DEF pass
  <2>4. Fits(f)
    BY <2>2, <2>3
  <2> QED BY <2>4
<1>8. Fits(from)
  <2> HIDE DEF Fits
  <2> QED BY <1>7 DEF from
<1>9. from = [i \in 1..(Len(items) + Len(hits)) |-> Pass(items, hits, new, from, i)]
  <2> HIDE DEF pass
  <2> QED BY <1>1, <1>5, <1>8
<1>10. Passing(Items, items, hits, new, from)
  BY <1>1, <1>9, PassIsTyped
<1>11. SpliceAll(items, NonOverlapping(items, hits), 0, Len(hits), new) = from[1]
  <2>1. \A i \in 1..Len(items) : SequenceAt(hits, i) => i + Len(hits) <= Len(items) + 1
    BY <1>1, <1>2
  <2> QED BY <2>1, <1>1, <1>10, ScanIsPass
<1> QED BY <1>1, <1>3, <1>4, <1>11

\* Every edit of code is one pass over it.
LEMMA EditsArePasses ==
    ASSUME NEW items \in Seq(Items), NEW m, NEW new \in Seq(Items)
    PROVE  /\ replace_insns(items, m, new) = Spread(items, m, LAMBDA x : new)
           /\ insert_before(items, m, new) = Spread(items, m, LAMBDA x : Append(new, x))
           /\ insert_after(items, m, new) = Spread(items, m, LAMBDA x : <<x>> \o new)
<1>1. /\ Makes(Items, 0, 1, new, [x \in Items |-> new])
      /\ Makes(Items, 0, 0, new, [x \in Items |-> Append(new, x)])
      /\ Makes(Items, 1, 0, new, [x \in Items |-> <<x>> \o new])
  <2>1. /\ [x \in Items |-> new] \in [Items -> Seq(Items)]
        /\ [x \in Items |-> Append(new, x)] \in [Items -> Seq(Items)]
        /\ [x \in Items |-> <<x>> \o new] \in [Items -> Seq(Items)]
    OBVIOUS
  <2>2. ASSUME NEW x \in Items
        PROVE  /\ splice(<<x>>, 1 + 0, 1 + 0 + 1, new) = [y \in Items |-> new][x]
               /\ splice(<<x>>, 1 + 0, 1 + 0 + 0, new) = [y \in Items |-> Append(new, y)][x]
               /\ splice(<<x>>, 1 + 1, 1 + 1 + 0, new) = [y \in Items |-> <<y>> \o new][x]
    BY SpliceOfOne
  <2> QED BY <2>1, <2>2 DEF Makes
<1>2. replace_insns(items, m, new) = Spreading(items, m, [x \in Items |-> new])
  BY <1>1, SplicesAreSpread DEF replace_insns
<1>3. insert_before(items, m, new) = Spreading(items, m, [x \in Items |-> Append(new, x)])
  BY <1>1, SplicesAreSpread DEF insert_before
<1>4. insert_after(items, m, new) = Spreading(items, m, [x \in Items |-> <<x>> \o new])
  BY <1>1, SplicesAreSpread DEF insert_after
<1> QED BY <1>2, <1>3, <1>4, SpreadIs, ZenonT(40)

LEMMA TypedEditsAreExact == ASSUME code # NoCode => code.items \in Seq(Items) PROVE EditsAreExact
<1> SUFFICES ASSUME code # NoCode, NEW s \in Snippets
             PROVE  /\ \A m \in Matchers :
                        /\ replace_insns(code.items, m, Inserted(s)) = Spread(code.items, m, LAMBDA x : Inserted(s))
                        /\ insert_before(code.items, m, Inserted(s))
                            = Spread(code.items, m, LAMBDA x : Append(Inserted(s), x))
                        /\ insert_after(code.items, m, Inserted(s))
                            = Spread(code.items, m, LAMBDA x : <<x>> \o Inserted(s))
                    /\ \A p \in Patterns :
                        replace_sequences(code.items, p, Inserted(s)) = Rewritten(code.items, p, Inserted(s))
  BY DEF EditsAreExact
<1> DEFINE new == Inserted(s)
           items == code.items
<1>1. items \in Seq(Items) /\ new \in Seq(Items)
  BY SnippetsAreCode, InsertedIsList
<1> HIDE DEF new, items
<1>2. ASSUME NEW m \in Matchers
      PROVE  /\ replace_insns(items, m, new) = Spread(items, m, LAMBDA x : new)
             /\ insert_before(items, m, new) = Spread(items, m, LAMBDA x : Append(new, x))
             /\ insert_after(items, m, new) = Spread(items, m, LAMBDA x : <<x>> \o new)
  BY <1>1, EditsArePasses
<1>3. \A p \in Patterns : replace_sequences(items, p, new) = Rewritten(items, p, new)
  BY <1>1, ReplacedIsRewritten
<1> QED BY <1>2, <1>3 DEF new, items

-----------------------------------------------------------------------------
(* Writing: labels become offsets again. *)

LEMMA GreatestNumber ==
    ASSUME NEW n \in Nat, NEW S \in SUBSET (0..n), S # {} PROVE \E x \in S : \A y \in S : y <= x
<1> DEFINE T == {d \in 0..n : n - d \in S}
<1>1. PICK y \in S : TRUE
  OBVIOUS
<1>2. n - y \in T
  <2>1. y \in 0..n
    BY <1>1
  <2>2. n - y \in 0..n /\ n - (n - y) = y
    BY <2>1
  <2> QED BY <2>2, <1>1
<1>3. T \in SUBSET Nat /\ T # {}
  <2>1. \A d \in T : d \in Nat
    OBVIOUS
  <2> HIDE DEF T
  <2> QED BY <2>1, <1>2
<1>4. PICK d \in T : \A e \in T : d <= e
  <2> HIDE DEF T
  <2> QED BY <1>3, LeastNumber
<1>5. ASSUME NEW x \in S PROVE x <= n - d
  <2>1. x \in 0..n /\ d \in 0..n
    BY <1>4
  <2>2. n - x \in 0..n /\ n - (n - x) = x
    BY <2>1
  <2>3. n - x \in T
    BY <2>2
  <2>4. d <= n - x
    BY <2>3, <1>4
  <2> QED BY <2>1, <2>4
<1>6. n - d \in S
  BY <1>4
<1> QED BY <1>5, <1>6

\* k is the last position of a label.
LastAt(items, l, k) ==
    /\ k \in 1..Len(items) /\ items[k] = Label(l)
    /\ \A j \in 1..Len(items) : items[j] = Label(l) => j <= k

LEMMA LabelsArePlaced ==
    ASSUME NEW items \in Seq(Items), NEW l \in LabelsIn(items)
    PROVE  l \in Nat /\ \E k : LastAt(items, l, k) /\ compute_label_offsets(items)[l] = ItemOffsets(items)[k]
<1> DEFINE I == {i \in 1..Len(items) : items[i] = Label(l)}
<1>1. Len(items) \in Nat /\ DOMAIN items = 1..Len(items) /\ \A i \in 1..Len(items) : items[i] \in Items
  OBVIOUS
<1>2. PICK i \in 1..Len(items) : items[i].op = "label" /\ items[i].id = l
  BY <1>1 DEF LabelsIn
<1>3. l \in Nat /\ items[i] = Label(l)
  BY <1>1, <1>2 DEF Items, Label
<1>4. I \in SUBSET (0..Len(items)) /\ I # {}
  BY <1>1, <1>3
<1>5. \E x \in I : \A y \in I : y <= x
  <2> HIDE DEF I
  <2> QED BY <1>1, <1>4, GreatestNumber
<1> DEFINE k == SelectLastInSeq(items, LAMBDA item : item = Label(l))
<1>6. k = CHOOSE x \in I : \A y \in I : x >= y
  BY <1>4 DEF SelectLastInSeq, Max
<1>7. k \in I /\ \A y \in I : k >= y
  <2>1. \E x \in I : \A y \in I : x >= y
    <3>1. I \subseteq Nat
      BY <1>1
    <3> HIDE DEF I
    <3> QED BY <3>1, <1>5
  <2> HIDE DEF I, k
  <2> QED BY <2>1, <1>6
<1>8. compute_label_offsets(items)[l] = ItemOffsets(items)[k]
  BY DEF compute_label_offsets
<1> HIDE DEF k
<1>9. k \in 1..Len(items) /\ items[k] = Label(l)
  BY <1>7
<1>10. ASSUME NEW j \in 1..Len(items), items[j] = Label(l) PROVE j <= k
  <2>1. j \in I /\ k \in Nat /\ j \in Nat
    BY <1>9, <1>10
  <2>2. k >= j
    BY <2>1, <1>7
  <2> QED BY <2>1, <2>2
<1> QED BY <1>3, <1>8, <1>9, <1>10 DEF LastAt

LEMMA OffsetsOfLabels ==
    ASSUME NEW items \in Seq(Items), NEW l \in LabelsIn(items) PROVE compute_label_offsets(items)[l] \in Nat
<1>1. PICK k : LastAt(items, l, k) /\ compute_label_offsets(items)[l] = ItemOffsets(items)[k]
  BY LabelsArePlaced
<1>2. k \in 1..(Len(items) + 1)
  BY <1>1 DEF LastAt
<1> QED BY <1>1, <1>2, ItemOffsetsFacts

InsnItems == {x \in Items : x.op # "label"}

LoweredInsn(x, at) ==
    [op |-> x.op, id |-> x.id, size |-> instruction_size(x),
     targets |-> [k \in DOMAIN x.targets |-> at[x.targets[k]]]]

LEMMA LoweredInsnsAre ==
    ASSUME NEW items \in Seq(Items), NEW at
    PROVE  /\ Chosen(items, InsnItems) \in Seq(InsnItems) /\ Chosen(items, InsnItems) \in Seq(Items)
           /\ Range(Chosen(items, InsnItems)) \subseteq Range(items)
           /\ LoweredInsns(items, at) = [i \in 1..Len(Chosen(items, InsnItems)) |-> LoweredInsn(Chosen(items, InsnItems)[i], at)]
<1> DEFINE H == {i \in DOMAIN items : items[i].op # "label"}
           c == Chosen(items, InsnItems)
<1>1. \A i \in DOMAIN items : items[i] \in Items
  OBVIOUS
<1>2. H = {i \in DOMAIN items : items[i] \in InsnItems}
  BY <1>1 DEF InsnItems
<1>3. Kept(items, H) = c
  BY <1>2 DEF Chosen
<1>4. c \in Seq(Items \cap InsnItems) /\ Range(c) \subseteq Range(items)
  BY ChosenElements
<1>5. Items \cap InsnItems = InsnItems
  BY DEF InsnItems
<1>6. c \in Seq(Items)
  BY KeptIsList DEF Chosen
<1> HIDE DEF c
<1>7. DOMAIN c = 1..Len(c)
  BY <1>6
<1>8. LoweredInsns(items, at) = [i \in DOMAIN c |-> LoweredInsn(c[i], at)]
  BY <1>3 DEF LoweredInsns, LoweredInsn
<1> QED BY <1>4, <1>5, <1>6, <1>7, <1>8 DEF c

\* Every place that an instruction names is a label.
TargetsAreLabels(items) == \A x \in Range(items) : Range(x.targets) \subseteq LabelsIn(items)

LEMMA LoweredInsnsAreTyped ==
    ASSUME NEW items \in Seq(Items), TargetsAreLabels(items)
    PROVE  LoweredInsns(items, compute_label_offsets(items)) \in Seq(Instructions)
<1> DEFINE at == compute_label_offsets(items)
           c == Chosen(items, InsnItems)
<1>1. c \in Seq(InsnItems) /\ Range(c) \subseteq Range(items)
      /\ LoweredInsns(items, at) = [i \in 1..Len(c) |-> LoweredInsn(c[i], at)]
  BY LoweredInsnsAre
<1>2. \A l \in LabelsIn(items) : at[l] \in Nat
  BY OffsetsOfLabels
<1> HIDE DEF at, c
<1>3. ASSUME NEW i \in 1..Len(c) PROVE LoweredInsn(c[i], at) \in Instructions
  <2> DEFINE x == c[i]
  <2>1. x \in InsnItems /\ x \in Range(items)
    BY <1>1, RangeOfList
  <2>2. x.op \in Ops /\ x.op # "label" /\ x.id \in Nat /\ x.targets \in Seq(Nat)
    BY <2>1 DEF InsnItems, Items
  <2>3. instruction_size(x) \in Nat \ {0}
    BY <2>2, OpsHaveLengths DEF instruction_size
  <2>4. Range(x.targets) \subseteq LabelsIn(items)
    BY <2>1 DEF TargetsAreLabels
  <2> HIDE DEF x
  <2>5. \A k \in 1..Len(x.targets) : at[x.targets[k]] \in Nat
    BY <2>2, <2>4, <1>2, RangeOfList
  <2>6. [k \in DOMAIN x.targets |-> at[x.targets[k]]] \in Seq(Nat)
    <3>1. DOMAIN x.targets = 1..Len(x.targets) /\ Len(x.targets) \in Nat
      BY <2>2
    <3> QED BY <3>1, <2>5
  <2>7. LoweredInsn(x, at) \in Instructions
    BY <2>2, <2>3, <2>6 DEF LoweredInsn, Instructions
  <2> QED BY <2>7 DEF x
<1>4. Len(c) \in Nat
  BY <1>1
<1>5. LoweredInsns(items, at) \in Seq(Instructions)
  BY <1>1, <1>3, <1>4
<1> QED BY <1>5 DEF at

\* The instruction that an item is lowered to begins where the item stands.
LEMMA ItemOffsetsAreOffsets ==
    ASSUME NEW items \in Seq(Items), TargetsAreLabels(items), NEW insns,
           insns = LoweredInsns(items, compute_label_offsets(items)), NEW H,
           H = {i \in DOMAIN items : items[i] \in InsnItems}
    PROVE  \A i \in 1..(Len(items) + 1) :
            /\ Tally(items, H, i - 1) + 1 \in 1..(Len(insns) + 1)
            /\ ItemOffsets(items)[i] = Offsets(insns)[Tally(items, H, i - 1) + 1]
<1> DEFINE n == Len(items)
           c == Kept(items, H)
           t(i) == Tally(items, H, i)
           N == {i \in 1..(n + 1) : ItemOffsets(items)[i] = Offsets(insns)[t(i - 1) + 1]}
<1>1. n \in Nat /\ DOMAIN items = 1..n /\ \A i \in 1..n : items[i] \in Items
  OBVIOUS
<1>2. insns \in Seq(Instructions)
  BY LoweredInsnsAreTyped
<1>3. c = Chosen(items, InsnItems) /\ Len(insns) = Len(c)
      /\ \A k \in 1..Len(c) : insns[k].size = instruction_size(c[k])
  <2>1. c = Chosen(items, InsnItems)
    BY DEF Chosen
  <2>2. insns = [i \in 1..Len(c) |-> LoweredInsn(c[i], compute_label_offsets(items))] /\ c \in Seq(Items)
    BY <2>1, LoweredInsnsAre
  <2> HIDE DEF c
  <2>3. Len(insns) = Len(c) /\ \A k \in 1..Len(c) : insns[k] = LoweredInsn(c[k], compute_label_offsets(items))
    BY <2>2
  <2>4. \A x, at : LoweredInsn(x, at).size = instruction_size(x)
    BY DEF LoweredInsn
  <2> QED BY <2>1, <2>3, <2>4
<1>4. OffsetsAre(insns, Offsets(insns))
  BY <1>2, OffsetsOfInstructions
<1>5. /\ t(0) = 0 /\ \A i \in 0..n : t(i) \in Nat
      /\ \A i \in 1..n : i \in H => t(i) = t(i - 1) + 1
      /\ \A i \in 1..n : i \notin H => t(i) = t(i - 1)
      /\ Len(c) = t(n)
  BY TallyFacts
<1>6. ASSUME NEW i \in 1..n, i \in H PROVE t(i) \in 1..Len(c) /\ c[t(i)] = items[i]
  BY <1>6, KeptElements
<1>7. \A i \in 0..n : t(i) <= t(n)
  <2>1. \A i \in 0..n : n \in i..n
    BY <1>1
  <2> QED BY <2>1, TallyGrows
<1>8. \A i \in 1..n : i \in H <=> items[i].op # "label"
  BY <1>1 DEF InsnItems
<1>9. ItemOffsets(items)[1] = 0
      /\ \A i \in 1..n : ItemOffsets(items)[i + 1] = ItemOffsets(items)[i] + instruction_size(items[i])
  BY ItemOffsetsFacts
<1>15. ItemOffsets(items) \in [1..(n + 1) -> Nat]
  BY ItemOffsetsFacts
<1> HIDE DEF n, c, t
<1>10. 1 \in N
  <2>1. 1 \in 1..(n + 1) /\ 1 - 1 = 0 /\ t(1 - 1) + 1 = 1
    BY <1>1, <1>5
  <2> QED BY <2>1, <1>4, <1>9 DEF OffsetsAre
<1>11. ASSUME NEW i \in 1..n, i \in N PROVE i + 1 \in N
  <2>1. i + 1 \in 1..(n + 1) /\ (i + 1) - 1 = i /\ i - 1 \in 0..n /\ i \in 0..n
    BY <1>1
  <2>2. ItemOffsets(items)[i] = Offsets(insns)[t(i - 1) + 1]
    BY <1>11
  <2>3. ItemOffsets(items)[i + 1] = ItemOffsets(items)[i] + instruction_size(items[i])
    BY <1>9
  <2>4. CASE i \in H
    <3>1. t(i) \in 1..Len(c) /\ c[t(i)] = items[i] /\ t(i) = t(i - 1) + 1
      BY <2>4, <1>5, <1>6
    <3> DEFINE k == t(i)
    <3>2. k \in 1..Len(insns) /\ insns[k].size = instruction_size(items[i])
      BY <3>1, <1>3
    <3>3. Offsets(insns)[k + 1] = Offsets(insns)[k] + insns[k].size
      BY <3>2, <1>4 DEF OffsetsAre
    <3>4. ItemOffsets(items)[i] = Offsets(insns)[k]
      BY <2>2, <3>1
    <3>5. ItemOffsets(items)[i + 1] = Offsets(insns)[t((i + 1) - 1) + 1]
      <4> HIDE DEF k
      <4>1. ItemOffsets(items)[i + 1] = Offsets(insns)[k + 1]
        BY <2>3, <3>2, <3>3, <3>4
      <4> QED BY <4>1, <2>1 DEF k
    <3> QED BY <3>5, <2>1
  <2>5. CASE i \notin H
    <3>1. t(i) = t(i - 1)
      BY <2>5, <1>5
    <3>2. instruction_size(items[i]) = 0
      BY <2>5, <1>8 DEF instruction_size
    <3>3. ItemOffsets(items)[i + 1] = ItemOffsets(items)[i]
      <4>1. i \in 1..(n + 1)
        BY <1>1
      <4>2. ItemOffsets(items)[i] \in Nat
        BY <4>1, <1>15
      <4> QED BY <4>2, <2>3, <3>2
    <3>4. ItemOffsets(items)[i + 1] = Offsets(insns)[t((i + 1) - 1) + 1]
      BY <3>1, <3>3, <2>1, <2>2
    <3> QED BY <3>4, <2>1
  <2> QED BY <2>4, <2>5
<1> HIDE DEF N
<1>12. 1..(n + 1) \subseteq N
  BY <1>1, <1>10, <1>11, UpToFromOne
<1>13. ASSUME NEW i \in 1..(n + 1)
       PROVE  t(i - 1) + 1 \in 1..(Len(insns) + 1) /\ ItemOffsets(items)[i] = Offsets(insns)[t(i - 1) + 1]
  <2>1. i - 1 \in 0..n
    BY <1>1
  <2>2. t(i - 1) \in Nat /\ t(i - 1) <= t(n) /\ t(n) = Len(insns)
    BY <2>1, <1>3, <1>5, <1>7
  <2>3. t(i - 1) + 1 \in 1..(Len(insns) + 1)
    <3> DEFINE a == t(i - 1)
    <3> HIDE DEF a
    <3>1. a \in Nat /\ Len(insns) \in Nat /\ a <= Len(insns)
      BY <2>2, <1>2 DEF a
    <3>2. a + 1 \in 1..(Len(insns) + 1)
      BY <3>1
    <3> QED BY <3>2 DEF a
  <2> QED BY <2>3, <1>12 DEF N
<1> QED BY <1>13 DEF n, t

LEMMA LabelsAreOffsets ==
    ASSUME NEW items \in Seq(Items), TargetsAreLabels(items), NEW l \in LabelsIn(items), NEW insns,
           insns = LoweredInsns(items, compute_label_offsets(items))
    PROVE  compute_label_offsets(items)[l] \in Range(Offsets(insns))
<1> DEFINE H == {i \in DOMAIN items : items[i] \in InsnItems}
<1>1. PICK k : LastAt(items, l, k) /\ compute_label_offsets(items)[l] = ItemOffsets(items)[k]
  BY LabelsArePlaced
<1>2. k \in 1..(Len(items) + 1)
  BY <1>1 DEF LastAt
<1>3. insns \in Seq(Instructions)
  BY LoweredInsnsAreTyped
<1>4. OffsetsAre(insns, Offsets(insns))
  BY <1>3, OffsetsOfInstructions
<1> DEFINE j == Tally(items, H, k - 1) + 1
<1>5. j \in 1..(Len(insns) + 1) /\ ItemOffsets(items)[k] = Offsets(insns)[j]
  BY <1>2, ItemOffsetsAreOffsets
<1> HIDE DEF j
<1>6. DOMAIN Offsets(insns) = 1..(Len(insns) + 1)
  BY <1>4 DEF OffsetsAre
<1> QED BY <1>1, <1>5, <1>6 DEF Range

-----------------------------------------------------------------------------
(* Attributes go back among the tables.  A state of it is what is out, what  *)
(* others are left and what tables are left.                                *)

TableKinds == DebugKinds \cup {"frames"}

Placements(A) == [out : Seq(A), others : Seq(A), tables : [TableKinds -> Seq(A)]]

Place(acc, kind, recompute) ==
    IF kind \notin DebugKinds /\ ~(kind = "frames" /\ recompute)
    THEN IF acc.others = <<>> THEN acc
         ELSE [acc EXCEPT !.out = Append(@, Head(acc.others)), !.others = Tail(@)]
    ELSE [acc EXCEPT !.out = @ \o acc.tables[kind], !.tables[kind] = <<>>]

LEMMA PlaceIsTyped ==
    ASSUME NEW A, NEW acc \in Placements(A), NEW kind, NEW recompute
    PROVE  Place(acc, kind, recompute) \in Placements(A)
<1>1. CASE kind \notin DebugKinds /\ ~(kind = "frames" /\ recompute)
  <2>1. CASE acc.others = <<>>
    BY <1>1, <2>1 DEF Place
  <2>2. CASE acc.others # <<>>
    <3>1. Head(acc.others) \in A /\ Tail(acc.others) \in Seq(A) /\ acc.out \in Seq(A)
      BY <2>2, HeadTailProperties DEF Placements
    <3>2. Append(acc.out, Head(acc.others)) \in Seq(A)
      BY <3>1
    <3> QED BY <1>1, <2>2, <3>1, <3>2 DEF Place, Placements
  <2> QED BY <2>1, <2>2
<1>2. CASE ~(kind \notin DebugKinds /\ ~(kind = "frames" /\ recompute))
  <2>1. kind \in TableKinds
    BY <1>2 DEF TableKinds
  <2>2. acc.tables[kind] \in Seq(A) /\ acc.out \in Seq(A) /\ <<>> \in Seq(A)
    BY <2>1 DEF Placements
  <2>3. acc.out \o acc.tables[kind] \in Seq(A)
    BY <2>2
  <2> QED BY <1>2, <2>1, <2>2, <2>3 DEF Place, Placements
<1> QED BY <1>1, <1>2

\* f is the recursion in lower_nested_attributes.
Placing(A, layout, others, tables, recompute, f) ==
    /\ f \in [0..Len(layout) -> Placements(A)]
    /\ f[0] = [out |-> <<>>, others |-> others, tables |-> tables]
    /\ \A i \in 1..Len(layout) : f[i] = Place(f[i - 1], layout[i], recompute)

Leaving(acc) ==
    acc.out \o acc.others \o acc.tables["lines"] \o acc.tables["locals"] \o acc.tables["types"]
    \o acc.tables["frames"]

Remaining(attributes, recompute) ==
    IF recompute THEN NotOfKind(attributes, {"frames"}) ELSE attributes

LEMMA PlacingSteps ==
    ASSUME NEW A, NEW layout \in Seq(AttributeKinds), NEW attributes, NEW recompute,
           Remaining(attributes, recompute) \in Seq(A), NEW tables \in [TableKinds -> Seq(A)]
    PROVE  \E f : /\ Placing(A, layout, Remaining(attributes, recompute), tables, recompute, f)
                  /\ lower_nested_attributes(layout, attributes, tables, recompute) = Leaving(f[Len(layout)])
<1> DEFINE n == Len(layout)
           V == Placements(A)
           others == Remaining(attributes, recompute)
           start == [out |-> <<>>, others |-> others, tables |-> tables]
           place(acc, kind) ==
                IF kind \notin DebugKinds /\ ~(kind = "frames" /\ recompute)
                THEN IF acc.others = <<>> THEN acc
                     ELSE [acc EXCEPT !.out = Append(@, Head(acc.others)), !.others = Tail(@)]
                ELSE [acc EXCEPT !.out = @ \o acc.tables[kind], !.tables[kind] = <<>>]
           step == [i \in 1..n |-> [acc \in V |-> place(acc, layout[i])]]
           Fits(f) == f = [i \in 0..n |-> IF i = 0 THEN start ELSE place(f[i - 1], layout[i])]
           placed == CHOOSE f : Fits(f)
<1>1. n \in Nat /\ start \in V
  <2>1. <<>> \in Seq(A)
    OBVIOUS
  <2>2. start \in V
    <3> HIDE DEF others
    <3> QED BY <2>1 DEF Placements, others
  <2> QED BY <2>2
<1>2. \A acc, kind : place(acc, kind) = Place(acc, kind, recompute)
  BY DEF Place
<1>3. lower_nested_attributes(layout, attributes, tables, recompute) = Leaving(placed[n])
  BY DEF lower_nested_attributes, Leaving, Remaining
<1> HIDE DEF place, start, V
<1>4. \A acc \in V : \A kind : place(acc, kind) \in V
  BY <1>2, PlaceIsTyped DEF V
<1>5. step \in [1..n -> [V -> V]] /\ \A i \in 1..n, acc \in V : step[i][acc] = place(acc, layout[i])
  BY <1>4
<1> HIDE DEF step, n
<1>6. PICK f \in [0..n -> V] : Recursive(n, start, step, f)
  BY <1>1, <1>5, Recursion
<1>7. \A i \in 1..n : f[i] = place(f[i - 1], layout[i])
  <2>1. \A i \in 1..n : i - 1 \in 0..n /\ f[i - 1] \in V
    <3>1. \A i \in 1..n : i - 1 \in 0..n
      BY <1>1
    <3> QED BY <3>1, <1>6
  <2> QED BY <2>1, <1>5, <1>6 DEF Recursive
<1>8. \E g : Fits(g)
  <2>1. f = [i \in 0..n |-> f[i]]
    BY <1>6
  <2>2. \A i \in 0..n : f[i] = IF i = 0 THEN start ELSE place(f[i - 1], layout[i])
    <3>1. \A i \in 0..n : i = 0 \/ i \in 1..n
      BY <1>1
    <3> QED BY <3>1, <1>6, <1>7 DEF Recursive
  <2>3. Fits(f)
    BY <2>1, <2>2
  <2> HIDE DEF Fits
  <2> QED BY <2>3
<1>9. Fits(placed)
  <2> HIDE DEF Fits
  <2> QED BY <1>8
<1> HIDE DEF placed
<1>10. placed[0] = start /\ \A i \in 1..n : placed[i] = place(placed[i - 1], layout[i])
  <2>1. 0 \in 0..n /\ \A i \in 1..n : i \in 0..n /\ i # 0
    BY <1>1
  <2>2. \A i \in 0..n : placed[i] = IF i = 0 THEN start ELSE place(placed[i - 1], layout[i])
    BY <1>9
  <2> QED BY <2>1, <2>2
<1>11. placed \in [0..n -> V]
  <2> DEFINE N == {i \in 0..n : placed[i] \in V}
  <2>1. 0 \in N
    BY <1>1, <1>10
  <2>2. \A i \in 1..n : i - 1 \in N => i \in N
    BY <1>1, <1>4, <1>10
  <2> HIDE DEF N
  <2>3. 0..n \subseteq N
    BY <1>1, <2>1, <2>2, UpTo
  <2>4. \A i \in 0..n : placed[i] \in V
    BY <2>3 DEF N
  <2>5. \E e : placed = [i \in 0..n |-> e[i]]
    <3> DEFINE e == [i \in 0..n |-> IF i = 0 THEN start ELSE place(placed[i - 1], layout[i])]
    <3>1. placed = e
      BY <1>9
    <3>2. e = [i \in 0..n |-> e[i]]
      OBVIOUS
    <3> QED BY <3>1, <3>2
  <2> QED BY <2>4, <2>5
<1>12. Placing(A, layout, others, tables, recompute, placed)
  BY <1>2, <1>10, <1>11 DEF Placing, n, V, start
<1> QED BY <1>3, <1>12 DEF n

\* What is lowered comes from what is given, so it has what all of that has.
LEMMA LoweredAttributesAre ==
    ASSUME NEW A, NEW layout \in Seq(AttributeKinds), NEW attributes, NEW recompute,
           Remaining(attributes, recompute) \in Seq(A), NEW tables \in [TableKinds -> Seq(A)]
    PROVE  lower_nested_attributes(layout, attributes, tables, recompute) \in Seq(A)
<1>1. PICK f : /\ Placing(A, layout, Remaining(attributes, recompute), tables, recompute, f)
               /\ lower_nested_attributes(layout, attributes, tables, recompute) = Leaving(f[Len(layout)])
  BY PlacingSteps
<1> DEFINE acc == f[Len(layout)]
<1>2. acc \in Placements(A)
  <2>1. Len(layout) \in 0..Len(layout)
    OBVIOUS
  <2> QED BY <2>1, <1>1 DEF Placing
<1>3. /\ acc.out \in Seq(A) /\ acc.others \in Seq(A) /\ acc.tables["lines"] \in Seq(A)
      /\ acc.tables["locals"] \in Seq(A) /\ acc.tables["types"] \in Seq(A) /\ acc.tables["frames"] \in Seq(A)
  BY <1>2 DEF Placements, TableKinds, DebugKinds
<1> HIDE DEF acc
<1>4. Leaving(acc) \in Seq(A)
  BY <1>3 DEF Leaving
<1> QED BY <1>1, <1>4 DEF acc

FrameTables == {a \in Attributes : a.kind = "frames"}

\* Attributes with debug tables that name places in P.
AttributesWithin(P) == {a \in Attributes : a.kind \in DebugKinds => Range(a.at) \subseteq P}

LEMMA MappedPlaces ==
    ASSUME NEW s \in Seq(Nat), NEW at, NEW L, \A l \in L : at[l] \in Nat, Range(s) \subseteq L,
           NEW P, \A l \in L : at[l] \in P
    PROVE  /\ [k \in DOMAIN s |-> at[s[k]]] \in Seq(Nat)
           /\ Range([k \in DOMAIN s |-> at[s[k]]]) \subseteq P
<1>1. DOMAIN s = 1..Len(s) /\ Len(s) \in Nat
  OBVIOUS
<1>2. \A k \in 1..Len(s) : s[k] \in L
  BY RangeOfList
<1>3. \A k \in 1..Len(s) : at[s[k]] \in Nat /\ at[s[k]] \in P
  BY <1>2
<1> DEFINE r == [k \in 1..Len(s) |-> at[s[k]]]
<1>4. r \in Seq(Nat)
  BY <1>1, <1>3
<1>5. Range(r) \subseteq P
  BY <1>3 DEF Range
<1> QED BY <1>1, <1>4, <1>5


LEMMA ReferencesAre ==
    ASSUME NEW model, NEW strip, Referenced(model, strip) \subseteq LabelsIn(model.items)
    PROVE  /\ TargetsAreLabels(model.items)
           /\ \A h \in Range(model.handlers) : {h.start, h.end, h.handler} \subseteq LabelsIn(model.items)
           /\ ~strip_debug_info(model, strip)
                => \A kind \in DebugKinds : Range(model.tables[kind]) \subseteq LabelsIn(model.items)
<1> DEFINE A == UNION {Range(x.targets) : x \in Range(model.items)}
           B == UNION {{h.start, h.end, h.handler} : h \in Range(model.handlers)}
           D == UNION {Range(model.tables[kind]) : kind \in DebugKinds}
           E == IF strip_debug_info(model, strip) THEN {} ELSE D
           L == LabelsIn(model.items)
<1>1. Referenced(model, strip) = A \cup B \cup E
  BY Zenon DEF Referenced
<1>2. ~strip_debug_info(model, strip) => E = D
  OBVIOUS
<1>3. \A x \in Range(model.items) : Range(x.targets) \subseteq A
  OBVIOUS
<1>4. \A h \in Range(model.handlers) : {h.start, h.end, h.handler} \subseteq B
  OBVIOUS
<1>5. \A kind \in DebugKinds : Range(model.tables[kind]) \subseteq D
  OBVIOUS
<1> HIDE DEF A, B, D, E
<1>6. A \subseteq L /\ B \subseteq L /\ E \subseteq L
  BY <1>1
<1>7. TargetsAreLabels(model.items)
  <2> HIDE DEF L
  <2>1. \A x \in Range(model.items) : Range(x.targets) \subseteq L
    BY <1>3, <1>6
  <2> QED BY <2>1 DEF TargetsAreLabels, L
<1>8. \A h \in Range(model.handlers) : {h.start, h.end, h.handler} \subseteq L
  BY <1>4, <1>6
<1>9. ~strip_debug_info(model, strip) => \A kind \in DebugKinds : Range(model.tables[kind]) \subseteq L
  BY <1>2, <1>5, <1>6
<1> QED BY <1>7, <1>8, <1>9

TablesOf(model, frames, strip, at) ==
    [kind \in TableKinds |-> IF kind = "frames" THEN frames ELSE LoweredTable(model, kind, strip, at)]

LEMMA LoweredIs ==
    ASSUME NEW model, NEW strip, NEW frames, NEW recompute
    PROVE  LET at == compute_label_offsets(model.items)
               low == Lowered(model, strip, frames, recompute)
           IN  /\ low.insns = LoweredInsns(model.items, at)
               /\ low.handlers = LoweredHandlers(model.handlers, at)
               /\ low.attrs = lower_nested_attributes(model.layout, model.attributes,
                                                      TablesOf(model, frames, strip, at), recompute)
               /\ low = [insns |-> low.insns, handlers |-> low.handlers, attrs |-> low.attrs]
  BY DEF Lowered, TablesOf, TableKinds

LEMMA ModelFields ==
    ASSUME NEW model \in Models
    PROVE  /\ model.items \in Seq(Items) /\ model.handlers \in Seq(Handlers)
           /\ model.tables \in [DebugKinds -> Seq(Nat)] /\ model.attributes \in Seq(NestedAttributes)
           /\ model.layout \in Seq(AttributeKinds) /\ model.stale \in BOOLEAN
           /\ model.original.items \in Seq(Items) /\ model.original.handlers \in Seq(Handlers)
  BY DEF Models

LEMMA KindsAreKinds == DebugKinds \subseteq AttributeKinds /\ "frames" \in AttributeKinds /\ "added" \in AttributeKinds
  BY DEF AttributeKinds

LEMMA LoweredTableIs ==
    ASSUME NEW model \in Models, NEW strip, NEW kind \in DebugKinds, NEW P,
           Referenced(model, strip) \subseteq LabelsIn(model.items),
           \A l \in LabelsIn(model.items) : compute_label_offsets(model.items)[l] \in P
    PROVE  LoweredTable(model, kind, strip, compute_label_offsets(model.items))
            \in Seq({a \in AttributesWithin(P) : a.kind = kind})
<1> DEFINE at == compute_label_offsets(model.items)
           s == model.tables[kind]
           r == [k \in DOMAIN s |-> at[s[k]]]
           S == {a \in AttributesWithin(P) : a.kind = kind}
<1>1. CASE strip_debug_info(model, strip) \/ s = <<>>
  <2>1. LoweredTable(model, kind, strip, at) = <<>> /\ <<>> \in Seq(S)
    BY <1>1 DEF LoweredTable
  <2> QED BY <2>1
<1>2. CASE ~(strip_debug_info(model, strip) \/ s = <<>>)
  <2>1. LoweredTable(model, kind, strip, at) = <<[kind |-> kind, at |-> r]>>
    BY <1>2 DEF LoweredTable
  <2>2. s \in Seq(Nat) /\ Range(s) \subseteq LabelsIn(model.items)
    BY <1>2, ModelFields, ReferencesAre
  <2>3. \A l \in LabelsIn(model.items) : at[l] \in Nat /\ at[l] \in P
    BY ModelFields, OffsetsOfLabels
  <2> HIDE DEF at, s
  <2>4. r \in Seq(Nat) /\ Range(r) \subseteq P
    BY <2>2, <2>3, MappedPlaces
  <2> HIDE DEF r
  <2>5. [kind |-> kind, at |-> r] \in Attributes
    <3>1. kind \in AttributeKinds
      BY KindsAreKinds
    <3> QED BY <3>1, <2>4 DEF Attributes
  <2>6. [kind |-> kind, at |-> r] \in S
    BY <2>4, <2>5 DEF AttributesWithin
  <2> HIDE DEF S
  <2>7. <<[kind |-> kind, at |-> r]>> \in Seq(S)
    BY <2>6
  <2> QED BY <2>1, <2>7 DEF at, s, r, S
<1> QED BY <1>1, <1>2

LEMMA LoweredHandlersAre ==
    ASSUME NEW handlers \in Seq(Handlers), NEW at, NEW L, NEW P, \A l \in L : at[l] \in Nat /\ at[l] \in P,
           \A h \in Range(handlers) : {h.start, h.end, h.handler} \subseteq L
    PROVE  /\ LoweredHandlers(handlers, at) \in Seq(Handlers)
           /\ Len(LoweredHandlers(handlers, at)) = Len(handlers)
           /\ \A h \in Range(LoweredHandlers(handlers, at)) : {h.start, h.end, h.handler} \subseteq P
<1> DEFINE low(h) == [id |-> h.id, start |-> at[h.start], end |-> at[h.end], handler |-> at[h.handler]]
<1>1. Len(handlers) \in Nat /\ DOMAIN handlers = 1..Len(handlers)
      /\ \A k \in 1..Len(handlers) : handlers[k] \in Handlers /\ handlers[k] \in Range(handlers)
  BY RangeOfList
<1>2. ASSUME NEW h \in Handlers, h \in Range(handlers)
      PROVE  low(h) \in Handlers /\ {low(h).start, low(h).end, low(h).handler} \subseteq P
  <2>1. {h.start, h.end, h.handler} \subseteq L
    BY <1>2
  <2>2. at[h.start] \in Nat /\ at[h.end] \in Nat /\ at[h.handler] \in Nat
        /\ at[h.start] \in P /\ at[h.end] \in P /\ at[h.handler] \in P
    BY <2>1
  <2>3. h.id \in Nat
    BY DEF Handlers
  <2>4. low(h) \in Handlers
    BY <2>2, <2>3 DEF Handlers
  <2>5. low(h).start = at[h.start] /\ low(h).end = at[h.end] /\ low(h).handler = at[h.handler]
    OBVIOUS
  <2> HIDE DEF low
  <2> QED BY <2>2, <2>4, <2>5
<1>3. LoweredHandlers(handlers, at) = [k \in 1..Len(handlers) |-> low(handlers[k])]
  BY <1>1 DEF LoweredHandlers
<1> HIDE DEF low
<1> DEFINE r == [k \in 1..Len(handlers) |-> low(handlers[k])]
<1>4. \A k \in 1..Len(handlers) : low(handlers[k]) \in Handlers
  BY <1>1, <1>2
<1>5. r \in Seq(Handlers) /\ Len(r) = Len(handlers) /\ \A k \in 1..Len(handlers) : r[k] = low(handlers[k])
  BY <1>1, <1>4
<1> HIDE DEF r
<1>6. ASSUME NEW h \in Range(r) PROVE {h.start, h.end, h.handler} \subseteq P
  <2>1. PICK k \in 1..Len(r) : r[k] = h
    BY <1>5, InRange
  <2>2. k \in 1..Len(handlers) /\ h = low(handlers[k])
    BY <1>5, <2>1
  <2> QED BY <2>2, <1>1, <1>2
<1> QED BY <1>3, <1>5, <1>6 DEF r

LEMMA TablesAreTyped ==
    ASSUME NEW model \in Models, NEW strip, NEW P, NEW frames \in Seq(FrameTables),
           Referenced(model, strip) \subseteq LabelsIn(model.items),
           \A l \in LabelsIn(model.items) : compute_label_offsets(model.items)[l] \in P
    PROVE  TablesOf(model, frames, strip, compute_label_offsets(model.items)) \in [TableKinds -> Seq(AttributesWithin(P))]
<1> DEFINE at == compute_label_offsets(model.items)
           A == AttributesWithin(P)
<1>1. ASSUME NEW kind \in DebugKinds PROVE LoweredTable(model, kind, strip, at) \in Seq(A)
  <2> DEFINE S == {a \in A : a.kind = kind}
  <2>1. LoweredTable(model, kind, strip, at) \in Seq(S)
    BY LoweredTableIs
  <2>2. S \subseteq A
    OBVIOUS
  <2> HIDE DEF S
  <2> QED BY <2>1, <2>2, SeqMonotonic
<1>2. frames \in Seq(A)
  <2>1. FrameTables \subseteq A
    BY DEF FrameTables, AttributesWithin, DebugKinds
  <2> QED BY <2>1, SeqMonotonic
<1> HIDE DEF at, A
<1>3. TablesOf(model, frames, strip, at) \in [TableKinds -> Seq(A)]
  <2>1. \A kind \in TableKinds : kind = "frames" \/ kind \in DebugKinds
    BY DEF TableKinds
  <2> QED BY <2>1, <1>1, <1>2 DEF TablesOf
<1> QED BY <1>3 DEF at, A

LEMMA RemainingIsTyped ==
    ASSUME NEW attributes \in Seq(NestedAttributes), NEW recompute, NEW P
    PROVE  Remaining(attributes, recompute) \in Seq(NestedAttributes)
           /\ Remaining(attributes, recompute) \in Seq(AttributesWithin(P))
<1>1. Remaining(attributes, recompute) \in Seq(NestedAttributes)
  BY KeptIsList DEF Remaining, NotOfKind
<1>2. NestedAttributes \subseteq AttributesWithin(P)
  BY DEF NestedAttributes, AttributesWithin
<1> QED BY <1>1, <1>2, SeqMonotonic

\* What is written is code, and all its places are offsets.
LEMMA LoweredIsTyped ==
    ASSUME NEW model \in Models, NEW strip, NEW recompute, NEW frames \in Seq(FrameTables),
           Referenced(model, strip) \subseteq LabelsIn(model.items), NEW low,
           low = Lowered(model, strip, frames, recompute)
    PROVE  Shaped(low) /\ Places(low) \subseteq Range(Offsets(low.insns))
<1> DEFINE at == compute_label_offsets(model.items)
           insns == LoweredInsns(model.items, at)
           P == Range(Offsets(insns))
           L == LabelsIn(model.items)
           tables == TablesOf(model, frames, strip, at)
<1>1. /\ low.insns = insns /\ low.handlers = LoweredHandlers(model.handlers, at)
      /\ low.attrs = lower_nested_attributes(model.layout, model.attributes, tables, recompute)
      /\ low = [insns |-> low.insns, handlers |-> low.handlers, attrs |-> low.attrs]
  BY LoweredIs
<1>2. model.items \in Seq(Items) /\ TargetsAreLabels(model.items)
  BY ModelFields, ReferencesAre
<1>3. insns \in Seq(Instructions)
  BY <1>2, LoweredInsnsAreTyped
<1>4. ASSUME NEW l \in L PROVE at[l] \in Nat /\ at[l] \in P
  BY <1>2, OffsetsOfLabels, LabelsAreOffsets
<1>5. /\ LoweredHandlers(model.handlers, at) \in Seq(Handlers)
      /\ \A h \in Range(LoweredHandlers(model.handlers, at)) : {h.start, h.end, h.handler} \subseteq P
  <2>1. model.handlers \in Seq(Handlers) /\ \A h \in Range(model.handlers) : {h.start, h.end, h.handler} \subseteq L
    BY ModelFields, ReferencesAre
  <2> HIDE DEF at, P, L
  <2> QED BY <2>1, <1>4, LoweredHandlersAre
<1>6. low.attrs \in Seq(AttributesWithin(P))
  <2>1. tables \in [TableKinds -> Seq(AttributesWithin(P))]
    <3>1. \A l \in LabelsIn(model.items) : compute_label_offsets(model.items)[l] \in P
      BY <1>4
    <3> HIDE DEF P
    <3> QED BY <3>1, TablesAreTyped
  <2>2. Remaining(model.attributes, recompute) \in Seq(AttributesWithin(P)) /\ model.layout \in Seq(AttributeKinds)
    <3> HIDE DEF P
    <3> QED BY ModelFields, RemainingIsTyped
  <2> HIDE DEF tables, P
  <2> QED BY <2>1, <2>2, <1>1, LoweredAttributesAre
<1>7. low.attrs \in Seq(Attributes)
  <2>1. AttributesWithin(P) \subseteq Attributes
    BY DEF AttributesWithin
  <2> HIDE DEF P
  <2> QED BY <2>1, <1>6, SeqMonotonic
<1>8. Shaped(low)
  BY <1>1, <1>3, <1>5, <1>7 DEF Shaped
<1>9. \A x \in Range(insns) : Range(x.targets) \subseteq P
  <2> DEFINE c == Chosen(model.items, InsnItems)
  <2>1. /\ c \in Seq(InsnItems) /\ Range(c) \subseteq Range(model.items)
        /\ insns = [i \in 1..Len(c) |-> LoweredInsn(c[i], at)]
    BY <1>2, LoweredInsnsAre
  <2> HIDE DEF c, P
  <2>2. ASSUME NEW x \in Range(insns) PROVE Range(x.targets) \subseteq P
    <3>1. PICK i \in 1..Len(c) : x = LoweredInsn(c[i], at)
      BY <2>1, <2>2 DEF Range
    <3>2. c[i] \in InsnItems /\ c[i] \in Range(model.items)
      BY <2>1, RangeOfList
    <3>3. c[i].targets \in Seq(Nat) /\ Range(c[i].targets) \subseteq L
      BY <3>2, <1>2 DEF InsnItems, Items, TargetsAreLabels
    <3>4. x.targets = [k \in DOMAIN c[i].targets |-> at[c[i].targets[k]]]
      BY <3>1 DEF LoweredInsn
    <3> HIDE DEF at, L
    <3> QED BY <3>3, <3>4, <1>4, MappedPlaces
  <2> QED BY <2>2
<1>10. ASSUME NEW p \in Places(low) PROVE p \in P
  <2>1. CASE \E i \in DOMAIN low.insns : p \in Range(low.insns[i].targets)
    <3>1. \A i \in DOMAIN low.insns : low.insns[i] \in Range(insns)
      BY <1>1 DEF Range
    <3> HIDE DEF P
    <3> QED BY <2>1, <3>1, <1>9
  <2>2. CASE \E h \in Range(low.handlers) : p \in {h.start, h.end, h.handler}
    BY <2>2, <1>1, <1>5
  <2>3. CASE \E a \in Range(OfKind(low.attrs, DebugKinds)) : p \in Range(a.at)
    <3>1. PICK a \in Range(OfKind(low.attrs, DebugKinds)) : p \in Range(a.at)
      BY <2>3
    <3>2. a \in IsOf(DebugKinds) /\ a \in Range(low.attrs)
      BY <1>7, OfKindElements, RangeOfList
    <3>3. a \in AttributesWithin(P)
      <4> HIDE DEF P
      <4> QED BY <3>2, <1>6, RangeOfList
    <3> QED BY <3>1, <3>2, <3>3 DEF IsOf, AttributesWithin
  <2> QED BY <2>1, <2>2, <2>3, PlacesAre
<1> QED BY <1>1, <1>8, <1>10

-----------------------------------------------------------------------------
(* The steps. *)

\* Once code is written, all places of the file are offsets.
PlacesAreOffsets == writes > 0 => Places(file) \subseteq Range(Offsets(file.insns))

WritingInvariant == TypeInvariant /\ PlacesAreOffsets

LEMMA TransformedIsTyped ==
    ASSUME NEW items \in Seq(Items), NEW new \in Transformed(items) PROVE new \in Seq(Items)
<1>1. \A s \in Snippets : Inserted(s) \in Seq(Items)
  BY SnippetsAreCode, InsertedIsList
<1>2. Inserted(<<>>) \in Seq(Items)
  <2>1. <<>> \in Seq(Ops)
    OBVIOUS
  <2> QED BY <2>1, InsertedIsList
<1>3. CASE new = Redirect(items)
  <2>1. <<>> \in Seq(Items)
    OBVIOUS
  <2> QED BY <2>1, <1>3, EditsKeepItems
<1>4. ASSUME NEW m \in Matchers, new = remove_insns(items, m) PROVE new \in Seq(Items)
  <2>1. <<>> \in Seq(Items)
    OBVIOUS
  <2> QED BY <2>1, <1>4, EditsKeepItems
<1>5. ASSUME NEW m \in Matchers, NEW s \in Snippets,
             \/ new = replace_insns(items, m, Inserted(s))
             \/ new = insert_before(items, m, Inserted(s))
             \/ new = insert_after(items, m, Inserted(s))
      PROVE  new \in Seq(Items)
  <2>1. Inserted(s) \in Seq(Items)
    BY <1>1
  <2>2. /\ replace_insns(items, m, Inserted(s)) \in Seq(Items)
        /\ insert_before(items, m, Inserted(s)) \in Seq(Items)
        /\ insert_after(items, m, Inserted(s)) \in Seq(Items)
    BY <2>1, EditsKeepItems
  <2> QED BY <2>2, <1>5
<1>6. ASSUME NEW p \in Patterns, NEW s \in Snippets \cup {<<>>}, new = replace_sequences(items, p, Inserted(s))
      PROVE  new \in Seq(Items)
  <2>1. Inserted(s) \in Seq(Items)
    BY <1>1, <1>2
  <2> QED BY <2>1, <1>6, EditsKeepItems
<1> QED BY <1>3, <1>4, <1>5, <1>6 DEF Transformed

LEMMA RemoveAtIsList == ASSUME NEW S, NEW s \in Seq(S), NEW k \in DOMAIN s PROVE RemoveAt(s, k) \in Seq(S)
<1>1. k \in 1..Len(s) /\ Len(s) \in Nat
  OBVIOUS
<1>2. SubSeq(s, 1, k - 1) \in Seq(S) /\ SubSeq(s, k + 1, Len(s)) \in Seq(S)
  <2>1. \A i \in 1..(k - 1) : s[i] \in S
    BY <1>1
  <2>2. \A i \in (k + 1)..Len(s) : s[i] \in S
    BY <1>1
  <2>3. 1 \in Int /\ k - 1 \in Int /\ k + 1 \in Int /\ Len(s) \in Int
    BY <1>1
  <2> QED BY <2>1, <2>2, <2>3, SubSeqProperties
<1> QED BY <1>2, ConcatProperties DEF RemoveAt

LEMMA EditIsTyped ==
    ASSUME TypeInvariant, Edit
    PROVE  /\ code # NoCode /\ code' \in Models /\ code' = [code' EXCEPT !.tables = code.tables]
           /\ UNCHANGED <<file, origin, wrote, writes>> /\ edits' = edits + 1
<1>1. code # NoCode /\ code \in Models
  BY DEF Edit, TypeInvariant
<1> DEFINE Same == UNCHANGED <<file, origin, wrote, writes>> /\ edits' = edits + 1
           Keeps(model) == model \in Models /\ model = [model EXCEPT !.tables = code.tables]
<1>2. CASE Transform
  <2>1. PICK items \in Transformed(code.items) : Edited([code EXCEPT !.items = items])
    BY <1>2 DEF Transform
  <2>2. items \in Seq(Items)
    BY <1>1, ModelFields, TransformedIsTyped
  <2>3. Keeps([code EXCEPT !.items = items])
    BY <1>1, <2>2 DEF Models
  <2> QED BY <1>1, <2>1, <2>3 DEF Edited
<1>3. CASE \E k \in DOMAIN code.handlers : RemoveHandler(k)
  <2>1. PICK k \in DOMAIN code.handlers : RemoveHandler(k)
    BY <1>3
  <2>2. RemoveAt(code.handlers, k) \in Seq(Handlers)
    BY <1>1, ModelFields, RemoveAtIsList
  <2>3. Keeps([code EXCEPT !.handlers = RemoveAt(@, k)])
    BY <1>1, <2>2 DEF Models
  <2> QED BY <1>1, <2>1, <2>3 DEF Edited, RemoveHandler
<1>4. CASE \E k \in DOMAIN code.attributes : RemoveAttribute(k)
  <2>1. PICK k \in DOMAIN code.attributes : RemoveAttribute(k)
    BY <1>4
  <2>2. RemoveAt(code.attributes, k) \in Seq(NestedAttributes)
    BY <1>1, ModelFields, RemoveAtIsList
  <2>3. Keeps([code EXCEPT !.attributes = RemoveAt(@, k)])
    BY <1>1, <2>2 DEF Models
  <2> QED BY <1>1, <2>1, <2>3 DEF Edited, RemoveAttribute
<1>5. CASE AddAttribute
  <2>1. [kind |-> "added", at |-> <<>>] \in NestedAttributes
    BY KindsAreKinds DEF NestedAttributes, Attributes, DebugKinds
  <2>2. Append(code.attributes, [kind |-> "added", at |-> <<>>]) \in Seq(NestedAttributes)
    BY <1>1, <2>1, ModelFields, AppendProperties
  <2>3. Keeps([code EXCEPT !.attributes = Append(@, [kind |-> "added", at |-> <<>>])])
    BY <1>1, <2>2 DEF Models
  <2> QED BY <1>1, <1>5, <2>3 DEF Edited, AddAttribute
<1>6. CASE mark_method_debug_info_stale
  <2>1. Keeps([code EXCEPT !.stale = TRUE])
    BY <1>1 DEF Models
  <2> QED BY <1>1, <1>6, <2>1 DEF Edited, mark_method_debug_info_stale
<1> QED BY <1>2, <1>3, <1>4, <1>5, <1>6 DEF Edit

LEMMA RecomputedFramesAreTables ==
    ASSUME NEW model \in Models, NEW strip, Referenced(model, strip) \subseteq LabelsIn(model.items),
           NEW f \in RecomputedFrames(model, compute_label_offsets(model.items))
    PROVE  f \in FrameTables
<1> DEFINE insns == LoweredInsns(model.items, compute_label_offsets(model.items))
           starts == Offsets(insns)
<1>1. insns \in Seq(Instructions)
  BY ModelFields, ReferencesAre, LoweredInsnsAreTyped
<1>2. starts \in [1..(Len(insns) + 1) -> Nat] /\ Len(insns) \in Nat
  BY <1>1, OffsetsOfInstructions DEF OffsetsAre
<1>3. PICK reached : f = [kind |-> "frames", at |-> Kept(starts, {i \in DOMAIN starts : starts[i] \in reached})]
  BY DEF RecomputedFrames
<1> HIDE DEF starts, insns
<1>4. starts \in Seq(Nat)
  <2>1. Len(insns) + 1 \in Nat
    BY <1>2
  <2> QED BY <2>1, <1>2
<1>5. f.at \in Seq(Nat) /\ f = [kind |-> "frames", at |-> f.at]
  BY <1>3, <1>4, KeptIsList
<1> QED BY <1>5, KindsAreKinds DEF FrameTables, Attributes

\* Each write lowers the model, with no frames or with recomputed ones.
LEMMA WritesLower ==
    ASSUME TypeInvariant, Write
    PROVE  \E strip \in BOOLEAN, recompute \in BOOLEAN, frames \in Seq(FrameTables) :
            /\ code # NoCode /\ Referenced(code, strip) \subseteq LabelsIn(code.items)
            /\ file' = Lowered(code, strip, frames, recompute)
            /\ ~recompute => frames = <<>> /\ ensure_frame_sensitive_attrs_supported(code)
            /\ recompute => Len(frames) <= 1
            /\ wrote' = [frames |-> IF recompute THEN "recomputed" ELSE "preserved", strip |-> strip]
            /\ writes' = writes + 1 /\ UNCHANGED <<code, origin, edits>>
<1>1. PICK strip \in BOOLEAN : WritePreserving(strip) \/ WriteRecomputing(strip)
  BY DEF Write
<1>2. CASE WritePreserving(strip)
  <2>1. <<>> \in Seq(FrameTables)
    OBVIOUS
  <2> QED BY <2>1, <1>2 DEF WritePreserving, Writable, Written
<1>3. CASE WriteRecomputing(strip)
  <2> DEFINE at == compute_label_offsets(code.items)
  <2>1. code # NoCode /\ Referenced(code, strip) \subseteq LabelsIn(code.items) /\ code \in Models
    BY <1>3 DEF WriteRecomputing, Writable, TypeInvariant
  <2>2. PICK frames \in {<<>>} \cup {<<f>> : f \in RecomputedFrames(code, at)} :
            Written(Lowered(code, strip, frames, TRUE), [frames |-> "recomputed", strip |-> strip])
    BY <1>3 DEF WriteRecomputing
  <2>3. frames \in Seq(FrameTables) /\ Len(frames) <= 1
    <3>1. CASE frames = <<>>
      BY <3>1
    <3>2. CASE frames # <<>>
      <4>1. PICK f \in RecomputedFrames(code, at) : frames = <<f>>
        BY <3>2
      <4>2. f \in FrameTables
        BY <2>1, RecomputedFramesAreTables
      <4> QED BY <4>1, <4>2
    <3> QED BY <3>1, <3>2
  <2> HIDE DEF at
  <2> QED BY <2>1, <2>2, <2>3 DEF Written
<1> QED BY <1>1, <1>2, <1>3

-----------------------------------------------------------------------------
(* No attribute is lost, doubled or out of order. *)

LEMMA MoveHead ==
    ASSUME NEW S, NEW c \in Seq(S), NEW o \in Seq(S), o # <<>>
    PROVE  Append(c, Head(o)) \o Tail(o) = c \o o
<1> DEFINE h == Head(o)
           t == Tail(o)
<1>1. h \in S /\ t \in Seq(S) /\ o = <<h>> \o t
  <2>1. Len(o) \in Nat /\ Len(o) >= 1 /\ Head(o) = o[1] /\ Head(o) \in S
    OBVIOUS
  <2>2. Tail(o) \in Seq(S) /\ Len(Tail(o)) = Len(o) - 1 /\ \A i \in 1..(Len(o) - 1) : Tail(o)[i] = o[i + 1]
    OBVIOUS
  <2>3. o = <<Head(o)>> \o Tail(o)
    OBVIOUS
  <2> QED BY <2>1, <2>2, <2>3
<1> HIDE DEF h, t
<1>2. Append(c, h) = c \o <<h>>
  BY <1>1
<1>3. (c \o <<h>>) \o t = c \o (<<h>> \o t)
  <2> DEFINE b == <<h>>
  <2>1. b \in Seq(S)
    BY <1>1
  <2> HIDE DEF b
  <2>2. Joined(c, Joined(b, t)) = Joined(Joined(c, b), t)
    BY <1>1, <2>1, JoinedAssociates
  <2> QED BY <2>2 DEF Joined, b
<1>4. Append(c, h) \o t = c \o o
  BY <1>1, <1>2, <1>3, Zenon
<1> QED BY <1>4 DEF h, t

Shown(acc, P) == Joined(Chosen(acc.out, P), acc.others)

OthersApart(A, P, acc) == acc.others \in Seq(A \cap P) /\ acc.tables \in [TableKinds -> Seq(A \ P)]

LEMMA NoneInOthers == ASSUME NEW A, NEW P, NEW s \in Seq(A \ P) PROVE s \in Seq(A) /\ Chosen(s, P) = <<>>
<1>1. A \ P \subseteq A
  OBVIOUS
<1>2. s \in Seq(A)
  BY <1>1, SeqMonotonic
<1>3. \A i \in 1..Len(s) : s[i] \notin P
  <2>1. \A i \in 1..Len(s) : s[i] \in A \ P
    BY ListElements
  <2> QED BY <2>1
<1> QED BY <1>2, <1>3, ChosenNone

LEMMA AllInOwn == ASSUME NEW A, NEW P, NEW s \in Seq(A \cap P) PROVE s \in Seq(A) /\ Chosen(s, P) = s
<1>1. A \cap P \subseteq A
  OBVIOUS
<1>2. s \in Seq(A)
  BY <1>1, SeqMonotonic
<1>3. \A i \in 1..Len(s) : s[i] \in P
  <2>1. \A i \in 1..Len(s) : s[i] \in A \cap P
    BY ListElements
  <2> QED BY <2>1
<1> QED BY <1>2, <1>3, ChosenAll

LEMMA ChosenJoined ==
    ASSUME NEW A, NEW P, NEW s \in Seq(A), NEW t \in Seq(A)
    PROVE  Chosen(Joined(s, t), P) = Joined(Chosen(s, P), Chosen(t, P))
  BY ChosenConcat DEF Joined

LEMMA ChosenIsList == ASSUME NEW A, NEW P, NEW s \in Seq(A) PROVE Chosen(s, P) \in Seq(A)
  BY KeptIsList DEF Chosen

\* A table among what is out adds nothing to what is shown of the others.
LEMMA ShownOfTables ==
    ASSUME NEW A, NEW P, NEW out \in Seq(A), NEW t \in Seq(A \ P)
    PROVE  Chosen(out \o t, P) = Chosen(out, P)
<1>1. t \in Seq(A) /\ Chosen(t, P) = <<>>
  BY NoneInOthers
<1>2. Chosen(Joined(out, t), P) = Joined(Chosen(out, P), <<>>)
  BY <1>1, ChosenJoined
<1>3. Joined(Chosen(out, P), <<>>) = Chosen(out, P)
  BY ChosenIsList, JoinedNothing
<1> QED BY <1>2, <1>3 DEF Joined

LEMMA PlaceKeepsOthers ==
    ASSUME NEW A, NEW P, NEW acc \in Placements(A), OthersApart(A, P, acc), NEW kind, NEW recompute
    PROVE  OthersApart(A, P, Place(acc, kind, recompute)) /\ Shown(Place(acc, kind, recompute), P) = Shown(acc, P)
<1> DEFINE r == Place(acc, kind, recompute)
<1>1. CASE kind \notin DebugKinds /\ ~(kind = "frames" /\ recompute)
  <2>1. CASE acc.others = <<>>
    <3>1. r = acc
      BY <1>1, <2>1 DEF Place
    <3> QED BY <3>1
  <2>2. CASE acc.others # <<>>
    <3> DEFINE h == Head(acc.others)
               t == Tail(acc.others)
    <3>1. r = [acc EXCEPT !.out = Append(@, h), !.others = t]
      BY <1>1, <2>2 DEF Place
    <3>2. acc.out \in Seq(A) /\ acc.others \in Seq(A \cap P)
      BY DEF Placements, OthersApart
    <3>3. h \in A \cap P /\ t \in Seq(A \cap P)
      BY <3>2, <2>2, HeadTailProperties
    <3>4. r.out = Append(acc.out, h) /\ r.others = t /\ r.tables = acc.tables
      BY <3>1 DEF Placements
    <3>5. Chosen(Append(acc.out, h), P) = Append(Chosen(acc.out, P), h)
      <4>1. h \in A /\ h \in P
        BY <3>3
      <4> HIDE DEF h
      <4> QED BY <4>1, <3>2, ChosenMore
    <3>6. Append(Chosen(acc.out, P), h) \o t = Chosen(acc.out, P) \o acc.others
      <4>1. acc.others \in Seq(A) /\ Chosen(acc.out, P) \in Seq(A)
        BY <3>2, AllInOwn, ChosenIsList
      <4> QED BY <4>1, <2>2, MoveHead
    <3>7. OthersApart(A, P, r)
      BY <3>3, <3>4 DEF OthersApart
    <3> HIDE DEF h, t, r
    <3>8. Shown(r, P) = Shown(acc, P)
      BY <3>4, <3>5, <3>6 DEF Shown, Joined
    <3> QED BY <3>7, <3>8 DEF r
  <2> QED BY <2>1, <2>2
<1>2. CASE ~(kind \notin DebugKinds /\ ~(kind = "frames" /\ recompute))
  <2>1. r = [acc EXCEPT !.out = @ \o acc.tables[kind], !.tables[kind] = <<>>]
    BY <1>2 DEF Place
  <2>2. kind \in TableKinds /\ acc.tables \in [TableKinds -> Seq(A \ P)] /\ <<>> \in Seq(A \ P)
    BY <1>2 DEF TableKinds, OthersApart
  <2>3. r.out = acc.out \o acc.tables[kind] /\ r.others = acc.others /\ r.tables \in [TableKinds -> Seq(A \ P)]
    BY <2>1, <2>2 DEF Placements
  <2>4. acc.out \in Seq(A) /\ acc.tables[kind] \in Seq(A \ P)
    BY <2>2 DEF Placements
  <2>5. Chosen(acc.out \o acc.tables[kind], P) = Chosen(acc.out, P)
    BY <2>4, ShownOfTables
  <2> HIDE DEF r
  <2> QED BY <2>3, <2>5 DEF Shown, OthersApart, r
<1> QED BY <1>1, <1>2

\* What is shown of what is left in the end, part by part.
LEMMA LeavingShows ==
    ASSUME NEW A, NEW P, NEW acc \in Placements(A)
    PROVE  Chosen(Leaving(acc), P) =
            Joined(Joined(Joined(Joined(Joined(Chosen(acc.out, P), Chosen(acc.others, P)),
                Chosen(acc.tables["lines"], P)), Chosen(acc.tables["locals"], P)),
                Chosen(acc.tables["types"], P)), Chosen(acc.tables["frames"], P))
<1> DEFINE a == acc.out
           b == acc.others
           c == acc.tables["lines"]
           d == acc.tables["locals"]
           e == acc.tables["types"]
           g == acc.tables["frames"]
           p == Joined(a, b)
           q == Joined(p, c)
           r == Joined(q, d)
           s == Joined(r, e)
<1>1. Leaving(acc) = Joined(s, g)
  BY DEF Leaving, Joined
<1>2. a \in Seq(A) /\ b \in Seq(A) /\ c \in Seq(A) /\ d \in Seq(A) /\ e \in Seq(A) /\ g \in Seq(A)
  BY DEF Placements, TableKinds, DebugKinds
<1> HIDE DEF a, b, c, d, e, g
<1>3. p \in Seq(A) /\ Chosen(p, P) = Joined(Chosen(a, P), Chosen(b, P))
  BY <1>2, ChosenJoined, JoinedIsList
<1> HIDE DEF p
<1>4. q \in Seq(A) /\ Chosen(q, P) = Joined(Chosen(p, P), Chosen(c, P))
  BY <1>2, <1>3, ChosenJoined, JoinedIsList
<1> HIDE DEF q
<1>5. r \in Seq(A) /\ Chosen(r, P) = Joined(Chosen(q, P), Chosen(d, P))
  BY <1>2, <1>4, ChosenJoined, JoinedIsList
<1> HIDE DEF r
<1>6. s \in Seq(A) /\ Chosen(s, P) = Joined(Chosen(r, P), Chosen(e, P))
  BY <1>2, <1>5, ChosenJoined, JoinedIsList
<1> HIDE DEF s
<1>7. Chosen(Joined(s, g), P) = Joined(Chosen(s, P), Chosen(g, P))
  BY <1>2, <1>6, ChosenJoined
<1> QED BY <1>1, <1>3, <1>4, <1>5, <1>6, <1>7 DEF a, b, c, d, e, g

\* The placing of all kinds in a layout, from what there is first to what is there last.
PlacedFrom(A, layout, recompute, first, last) ==
    \E f \in [0..Len(layout) -> Placements(A)] :
        /\ f[0] = first /\ f[Len(layout)] = last
        /\ \A i \in 1..Len(layout) : f[i] = Place(f[i - 1], layout[i], recompute)

\* The steps of a placing keep what each of them keeps.
LEMMA PlacingKeepsOthers ==
    ASSUME NEW A, NEW P, NEW layout \in Seq(AttributeKinds), NEW recompute, NEW first, NEW last,
           PlacedFrom(A, layout, recompute, first, last), OthersApart(A, P, first)
    PROVE  last \in Placements(A) /\ OthersApart(A, P, last) /\ Shown(last, P) = Shown(first, P)
<1>0. PICK f \in [0..Len(layout) -> Placements(A)] :
            /\ f[0] = first /\ f[Len(layout)] = last
            /\ \A i \in 1..Len(layout) : f[i] = Place(f[i - 1], layout[i], recompute)
  BY DEF PlacedFrom
<1> DEFINE n == Len(layout)
           V == {acc \in Placements(A) : OthersApart(A, P, acc) /\ Shown(acc, P) = Shown(first, P)}
           T == {i \in 0..n : f[i] \in V}
<1>1. n \in Nat /\ f \in [0..n -> Placements(A)] /\ \A i \in 1..n : f[i] = Place(f[i - 1], layout[i], recompute)
  BY <1>0
<1> HIDE DEF n
<1>2. 0 \in T
  <2>1. 0 \in 0..n
    BY <1>1
  <2> QED BY <2>1, <1>0, <1>1
<1>3. \A i \in 1..n : i - 1 \in T => i \in T
  <2> SUFFICES ASSUME NEW i \in 1..n, i - 1 \in T PROVE i \in T
    OBVIOUS
  <2>1. i \in 0..n
    BY <1>1
  <2> DEFINE acc == f[i - 1]
             kind == layout[i]
  <2>2. acc \in Placements(A) /\ OthersApart(A, P, acc) /\ Shown(acc, P) = Shown(first, P)
    OBVIOUS
  <2>3. f[i] = Place(acc, kind, recompute) /\ f[i] \in Placements(A)
    BY <2>1, <1>1
  <2> HIDE DEF acc, kind
  <2>4. OthersApart(A, P, Place(acc, kind, recompute)) /\ Shown(Place(acc, kind, recompute), P) = Shown(acc, P)
    BY <2>2, PlaceKeepsOthers
  <2> QED BY <2>1, <2>2, <2>3, <2>4
<1> HIDE DEF T
<1>4. 0..n \subseteq T
  BY <1>1, <1>2, <1>3, UpTo
<1>5. n \in T
  <2>1. n \in 0..n
    BY <1>1
  <2> QED BY <2>1, <1>4
<1> QED BY <1>0, <1>5 DEF T, n

OthersGiven(A, P, others, tables) == others \in Seq(A \cap P) /\ tables \in [TableKinds -> Seq(A \ P)]

\* The attributes that are in no table come out as they are, wherever tables stood.
LEMMA OthersKept ==
    ASSUME NEW A, NEW P, NEW layout \in Seq(AttributeKinds), NEW attributes, NEW recompute, NEW tables,
           OthersGiven(A, P, Remaining(attributes, recompute), tables)
    PROVE  Chosen(lower_nested_attributes(layout, attributes, tables, recompute), P)
            = Remaining(attributes, recompute)
<1> DEFINE others == Remaining(attributes, recompute)
<1>0. others \in Seq(A \cap P) /\ tables \in [TableKinds -> Seq(A \ P)]
  BY DEF OthersGiven
<1>1. others \in Seq(A)
  BY <1>0, AllInOwn
<1>2. tables \in [TableKinds -> Seq(A)]
  <2>1. \A kind \in TableKinds : tables[kind] \in Seq(A)
    BY <1>0, NoneInOthers
  <2> QED BY <1>0, <2>1
<1>3. PICK f : /\ Placing(A, layout, others, tables, recompute, f)
               /\ lower_nested_attributes(layout, attributes, tables, recompute) = Leaving(f[Len(layout)])
  BY <1>1, <1>2, PlacingSteps
<1> DEFINE acc == f[Len(layout)]
           first == [out |-> <<>>, others |-> others, tables |-> tables]
<1>4. f[0] = first
  BY <1>3 DEF Placing
<1>5. OthersApart(A, P, first) /\ Shown(first, P) = others
  <2>1. first.out = <<>> /\ first.others = others /\ first.tables = tables
    OBVIOUS
  <2> HIDE DEF first
  <2>2. Chosen(<<>>, P) = <<>>
    BY ChosenNothing
  <2> HIDE DEF others
  <2>3. Joined(<<>>, others) = others
    BY <1>1, JoinedNothing
  <2> QED BY <1>0, <2>1, <2>2, <2>3 DEF OthersApart, Shown, others
<1> HIDE DEF first, others
<1>6. acc \in Placements(A) /\ OthersApart(A, P, acc) /\ Shown(acc, P) = others
  <2>1. PlacedFrom(A, layout, recompute, first, acc)
    BY <1>3, <1>4 DEF Placing, PlacedFrom
  <2> HIDE DEF acc
  <2> QED BY <2>1, <1>5, PlacingKeepsOthers
<1> HIDE DEF acc
<1>7. Chosen(acc.others, P) = acc.others
  BY <1>6, AllInOwn DEF OthersApart
<1>8. \A kind \in TableKinds : Chosen(acc.tables[kind], P) = <<>>
  <2>1. \A kind \in TableKinds : acc.tables[kind] \in Seq(A \ P)
    BY <1>6 DEF OthersApart
  <2> QED BY <2>1, NoneInOthers
<1>9. Chosen(Leaving(acc), P) = Joined(Joined(Joined(Joined(others, <<>>), <<>>), <<>>), <<>>)
  <2>1. Chosen(acc.tables["lines"], P) = <<>> /\ Chosen(acc.tables["locals"], P) = <<>>
        /\ Chosen(acc.tables["types"], P) = <<>> /\ Chosen(acc.tables["frames"], P) = <<>>
    BY <1>8 DEF TableKinds, DebugKinds
  <2>2. Joined(Chosen(acc.out, P), Chosen(acc.others, P)) = others
    BY <1>6, <1>7 DEF Shown
  <2> QED BY <1>6, <2>1, <2>2, LeavingShows
<1>10. Joined(others, <<>>) = others
  BY <1>1, JoinedNothing DEF others
<1> QED BY <1>3, <1>9, <1>10 DEF acc, others

\* The same of what is shown of one table.
ShownOwn(acc, P, own) == Joined(Chosen(acc.out, P), acc.tables[own])

OwnApart(A, P, own, acc) ==
    /\ acc.others \in Seq(A \ P)
    /\ acc.tables[own] \in Seq(A \cap P)
    /\ \A kind \in TableKinds \ {own} : acc.tables[kind] \in Seq(A \ P)

LEMMA PlaceKeepsOwn ==
    ASSUME NEW A, NEW P, NEW own \in TableKinds, NEW acc \in Placements(A), OwnApart(A, P, own, acc),
           NEW kind, NEW recompute
    PROVE  /\ OwnApart(A, P, own, Place(acc, kind, recompute))
           /\ ShownOwn(Place(acc, kind, recompute), P, own) = ShownOwn(acc, P, own)
<1> DEFINE r == Place(acc, kind, recompute)
<1>0. acc.out \in Seq(A) /\ acc.tables \in [TableKinds -> Seq(A)]
  BY DEF Placements
<1>1. CASE kind \notin DebugKinds /\ ~(kind = "frames" /\ recompute)
  <2>1. CASE acc.others = <<>>
    <3>1. r = acc
      BY <1>1, <2>1 DEF Place
    <3> QED BY <3>1
  <2>2. CASE acc.others # <<>>
    <3> DEFINE h == Head(acc.others)
               t == Tail(acc.others)
    <3>1. r = [acc EXCEPT !.out = Append(@, h), !.others = t]
      BY <1>1, <2>2 DEF Place
    <3>2. acc.others \in Seq(A \ P)
      BY DEF OwnApart
    <3>3. h \in A \ P /\ t \in Seq(A \ P)
      BY <3>2, <2>2, HeadTailProperties
    <3>4. r.out = Append(acc.out, h) /\ r.others = t /\ r.tables = acc.tables
      BY <3>1 DEF Placements
    <3>5. Chosen(Append(acc.out, h), P) = Chosen(acc.out, P)
      <4>1. h \in A /\ h \notin P
        BY <3>3
      <4> HIDE DEF h
      <4> QED BY <4>1, <1>0, ChosenLess
    <3> HIDE DEF h, t, r
    <3>6. OwnApart(A, P, own, r)
      BY <3>3, <3>4 DEF OwnApart
    <3>7. ShownOwn(r, P, own) = ShownOwn(acc, P, own)
      BY <3>4, <3>5 DEF ShownOwn
    <3> QED BY <3>6, <3>7 DEF r
  <2> QED BY <2>1, <2>2
<1>2. CASE ~(kind \notin DebugKinds /\ ~(kind = "frames" /\ recompute))
  <2>1. r = [acc EXCEPT !.out = @ \o acc.tables[kind], !.tables[kind] = <<>>]
    BY <1>2 DEF Place
  <2>2. kind \in TableKinds
    BY <1>2 DEF TableKinds
  <2>3. /\ r.out = acc.out \o acc.tables[kind] /\ r.others = acc.others
        /\ r.tables[kind] = <<>> /\ \A k \in TableKinds \ {kind} : r.tables[k] = acc.tables[k]
    BY <1>0, <2>1, <2>2 DEF Placements
  <2>4. <<>> \in Seq(A \ P) /\ <<>> \in Seq(A \cap P)
    OBVIOUS
  <2> HIDE DEF r
  <2>5. OwnApart(A, P, own, r)
    BY <2>2, <2>3, <2>4 DEF OwnApart
  <2>6. CASE kind = own
    <3> DEFINE c == Chosen(acc.out, P)
               t == acc.tables[own]
    <3>1. t \in Seq(A \cap P) /\ t \in Seq(A) /\ Chosen(t, P) = t
      BY AllInOwn DEF OwnApart
    <3>2. Chosen(Joined(acc.out, t), P) = Joined(c, t)
      BY <1>0, <3>1, ChosenJoined
    <3>3. c \in Seq(A)
      BY <1>0, ChosenIsList
    <3> HIDE DEF c, t
    <3>4. Joined(Joined(c, t), <<>>) = Joined(c, t)
      BY <3>1, <3>3, JoinedIsList, JoinedNothing
    <3>5. r.out = Joined(acc.out, t) /\ r.tables[own] = <<>>
      BY <2>3, <2>6 DEF Joined, t
    <3>6. ShownOwn(r, P, own) = ShownOwn(acc, P, own)
      BY <3>2, <3>4, <3>5 DEF ShownOwn, c, t
    <3> QED BY <2>5, <3>6 DEF r
  <2>7. CASE kind # own
    <3>1. acc.tables[kind] \in Seq(A \ P)
      BY <2>2, <2>7 DEF OwnApart
    <3>2. Chosen(acc.out \o acc.tables[kind], P) = Chosen(acc.out, P)
      BY <1>0, <3>1, ShownOfTables
    <3>3. r.tables[own] = acc.tables[own]
      BY <2>3, <2>7
    <3>4. ShownOwn(r, P, own) = ShownOwn(acc, P, own)
      BY <2>3, <3>2, <3>3 DEF ShownOwn
    <3> QED BY <2>5, <3>4 DEF r
  <2> QED BY <2>6, <2>7
<1> QED BY <1>1, <1>2

LEMMA PlacingKeepsOwn ==
    ASSUME NEW A, NEW P, NEW own \in TableKinds, NEW layout \in Seq(AttributeKinds), NEW recompute,
           NEW first, NEW last, PlacedFrom(A, layout, recompute, first, last), OwnApart(A, P, own, first)
    PROVE  last \in Placements(A) /\ OwnApart(A, P, own, last) /\ ShownOwn(last, P, own) = ShownOwn(first, P, own)
<1>0. PICK f \in [0..Len(layout) -> Placements(A)] :
            /\ f[0] = first /\ f[Len(layout)] = last
            /\ \A i \in 1..Len(layout) : f[i] = Place(f[i - 1], layout[i], recompute)
  BY DEF PlacedFrom
<1> DEFINE n == Len(layout)
           V == {acc \in Placements(A) :
                    OwnApart(A, P, own, acc) /\ ShownOwn(acc, P, own) = ShownOwn(first, P, own)}
           T == {i \in 0..n : f[i] \in V}
<1>1. n \in Nat /\ f \in [0..n -> Placements(A)] /\ \A i \in 1..n : f[i] = Place(f[i - 1], layout[i], recompute)
  BY <1>0
<1> HIDE DEF n
<1>2. 0 \in T
  <2>1. 0 \in 0..n
    BY <1>1
  <2> QED BY <2>1, <1>0, <1>1
<1>3. \A i \in 1..n : i - 1 \in T => i \in T
  <2> SUFFICES ASSUME NEW i \in 1..n, i - 1 \in T PROVE i \in T
    OBVIOUS
  <2>1. i \in 0..n
    BY <1>1
  <2> DEFINE acc == f[i - 1]
             kind == layout[i]
  <2>2. acc \in Placements(A) /\ OwnApart(A, P, own, acc) /\ ShownOwn(acc, P, own) = ShownOwn(first, P, own)
    OBVIOUS
  <2>3. f[i] = Place(acc, kind, recompute) /\ f[i] \in Placements(A)
    BY <2>1, <1>1
  <2> HIDE DEF acc, kind
  <2>4. /\ OwnApart(A, P, own, Place(acc, kind, recompute))
        /\ ShownOwn(Place(acc, kind, recompute), P, own) = ShownOwn(acc, P, own)
    BY <2>2, PlaceKeepsOwn
  <2> QED BY <2>1, <2>2, <2>3, <2>4
<1> HIDE DEF T
<1>4. 0..n \subseteq T
  BY <1>1, <1>2, <1>3, UpTo
<1>5. n \in T
  <2>1. n \in 0..n
    BY <1>1
  <2> QED BY <2>1, <1>4
<1> QED BY <1>0, <1>5 DEF T, n

OwnGiven(A, P, own, others, tables) ==
    /\ others \in Seq(A \ P) /\ tables \in [TableKinds -> Seq(A)]
    /\ tables[own] \in Seq(A \cap P) /\ \A kind \in TableKinds \ {own} : tables[kind] \in Seq(A \ P)

\* Of one kind of table, what comes out is what was to be placed.
LEMMA OwnKept ==
    ASSUME NEW A, NEW P, NEW own \in TableKinds, NEW layout \in Seq(AttributeKinds), NEW attributes,
           NEW recompute, NEW tables, OwnGiven(A, P, own, Remaining(attributes, recompute), tables)
    PROVE  Chosen(lower_nested_attributes(layout, attributes, tables, recompute), P) = tables[own]
<1> DEFINE others == Remaining(attributes, recompute)
<1>0. /\ others \in Seq(A \ P) /\ tables \in [TableKinds -> Seq(A)]
      /\ tables[own] \in Seq(A \cap P) /\ \A kind \in TableKinds \ {own} : tables[kind] \in Seq(A \ P)
  BY DEF OwnGiven
<1>1. others \in Seq(A)
  BY <1>0, NoneInOthers
<1>2. PICK f : /\ Placing(A, layout, others, tables, recompute, f)
               /\ lower_nested_attributes(layout, attributes, tables, recompute) = Leaving(f[Len(layout)])
  BY <1>0, <1>1, PlacingSteps
<1> DEFINE acc == f[Len(layout)]
           first == [out |-> <<>>, others |-> others, tables |-> tables]
           t == tables[own]
<1>3. f[0] = first
  BY <1>2 DEF Placing
<1>4. t \in Seq(A)
  BY <1>0, AllInOwn
<1>5. OwnApart(A, P, own, first) /\ ShownOwn(first, P, own) = t
  <2>1. first.out = <<>> /\ first.others = others /\ first.tables = tables
    OBVIOUS
  <2> HIDE DEF first
  <2>2. Chosen(<<>>, P) = <<>>
    BY ChosenNothing
  <2>3. Joined(<<>>, t) = t
    BY <1>4, JoinedNothing
  <2>4. OwnApart(A, P, own, first)
    BY <1>0, <2>1 DEF OwnApart
  <2>5. ShownOwn(first, P, own) = t
    BY <2>1, <2>2, <2>3 DEF ShownOwn
  <2> QED BY <2>4, <2>5
<1> HIDE DEF first, others, t
<1>6. acc \in Placements(A) /\ OwnApart(A, P, own, acc) /\ ShownOwn(acc, P, own) = t
  <2>1. PlacedFrom(A, layout, recompute, first, acc)
    BY <1>2, <1>3 DEF Placing, PlacedFrom
  <2> HIDE DEF acc
  <2> QED BY <2>1, <1>5, PlacingKeepsOwn
<1> HIDE DEF acc
<1>7. Chosen(acc.others, P) = <<>>
  BY <1>6, NoneInOthers DEF OwnApart
<1>8. \A kind \in TableKinds \ {own} : Chosen(acc.tables[kind], P) = <<>>
  <2>1. \A kind \in TableKinds \ {own} : acc.tables[kind] \in Seq(A \ P)
    BY <1>6 DEF OwnApart
  <2> QED BY <2>1, NoneInOthers
<1>9. Chosen(acc.tables[own], P) = acc.tables[own] /\ acc.tables[own] \in Seq(A)
  BY <1>6, AllInOwn DEF OwnApart
<1> DEFINE c == Chosen(acc.out, P)
           own_ == acc.tables[own]
           lines == Chosen(acc.tables["lines"], P)
           locals == Chosen(acc.tables["locals"], P)
           types == Chosen(acc.tables["types"], P)
           frames == Chosen(acc.tables["frames"], P)
<1>10. c \in Seq(A)
  BY <1>6, ChosenIsList DEF Placements
<1>11. Chosen(Leaving(acc), P) = Joined(Joined(Joined(Joined(c, lines), locals), types), frames)
  <2>1. Joined(c, <<>>) = c
    BY <1>10, JoinedNothing
  <2> QED BY <1>6, <1>7, <2>1, LeavingShows
<1>12. /\ "lines" \in TableKinds /\ "locals" \in TableKinds /\ "types" \in TableKinds /\ "frames" \in TableKinds
       /\ own \in {"lines", "locals", "types", "frames"}
  BY DEF TableKinds, DebugKinds
<1>13. /\ lines = IF own = "lines" THEN own_ ELSE <<>>
       /\ locals = IF own = "locals" THEN own_ ELSE <<>>
       /\ types = IF own = "types" THEN own_ ELSE <<>>
       /\ frames = IF own = "frames" THEN own_ ELSE <<>>
  BY <1>8, <1>9, <1>12
<1>14. own_ \in Seq(A) /\ Joined(c, own_) = t
  BY <1>6, <1>9 DEF ShownOwn
<1> HIDE DEF c, own_, lines, locals, types, frames
<1>15. Joined(c, <<>>) = c /\ Joined(t, <<>>) = t
  BY <1>4, <1>10, JoinedNothing DEF t
<1>16. Chosen(Leaving(acc), P) = t
  <2>1. CASE own = "lines"
    BY <2>1, <1>11, <1>13, <1>14, <1>15
  <2>2. CASE own = "locals"
    BY <2>2, <1>11, <1>13, <1>14, <1>15
  <2>3. CASE own = "types"
    BY <2>3, <1>11, <1>13, <1>14, <1>15
  <2>4. CASE own = "frames"
    BY <2>4, <1>11, <1>13, <1>14, <1>15
  <2> QED BY <1>12, <2>1, <2>2, <2>3, <2>4
<1> QED BY <1>2, <1>16 DEF acc, t

\* The kinds that are not kept among the other attributes.
TabledKinds(recompute) == DebugKinds \cup IF recompute THEN {"frames"} ELSE {}

LEMMA RemainingIsChosen ==
    ASSUME NEW attributes \in Seq(NestedAttributes), NEW recompute
    PROVE  /\ Remaining(attributes, recompute) = NotOfKind(attributes, TabledKinds(recompute))
           /\ Remaining(attributes, recompute) \in Seq(IsNotOf(TabledKinds(recompute)))
<1>1. NestedAttributes \subseteq Attributes
  BY DEF NestedAttributes
<1>2. attributes \in Seq(Attributes)
  BY <1>1, SeqMonotonic
<1>3. NotOfKind(attributes, TabledKinds(recompute)) \in Seq(IsNotOf(TabledKinds(recompute)))
  BY <1>2, OfKindElements
<1>4. \A i \in 1..Len(attributes) : attributes[i] \in NestedAttributes
  BY ListElements
<1>5. DOMAIN attributes = 1..Len(attributes)
  OBVIOUS
<1>6. CASE recompute
  <2> DEFINE H == {i \in DOMAIN attributes : attributes[i].kind \notin {"frames"}}
             G == {i \in DOMAIN attributes : attributes[i].kind \notin TabledKinds(recompute)}
  <2>1. \A i \in 1..Len(attributes) : i \in H <=> i \in G
    BY <1>4, <1>5, <1>6 DEF TabledKinds, NestedAttributes
  <2>2. Remaining(attributes, recompute) = Kept(attributes, H)
        /\ NotOfKind(attributes, TabledKinds(recompute)) = Kept(attributes, G)
    BY <1>6 DEF Remaining, NotOfKind
  <2> HIDE DEF H, G
  <2>3. Kept(attributes, H) = Kept(attributes, G)
    BY <1>2, <2>1, KeptSame
  <2> QED BY <2>2, <2>3, <1>3
<1>7. CASE ~recompute
  <2> DEFINE P == IsNotOf(TabledKinds(recompute))
  <2>1. Remaining(attributes, recompute) = attributes
    BY <1>7 DEF Remaining
  <2>2. \A i \in 1..Len(attributes) : attributes[i] \in P
    BY <1>1, <1>4, <1>7 DEF TabledKinds, NestedAttributes, IsNotOf
  <2>3. NotOfKind(attributes, TabledKinds(recompute)) = Chosen(attributes, P)
    BY <1>2, OfKindIsChosen
  <2> HIDE DEF P
  <2>4. Chosen(attributes, P) = attributes
    BY <1>2, <2>2, ChosenAll
  <2> QED BY <2>1, <2>3, <2>4, <1>3
<1> QED BY <1>6, <1>7

\* Each table is of its kind.
LEMMA TablesAreOfKinds ==
    ASSUME NEW model \in Models, NEW strip, NEW frames \in Seq(FrameTables),
           Referenced(model, strip) \subseteq LabelsIn(model.items)
    PROVE  LET tables == TablesOf(model, frames, strip, compute_label_offsets(model.items))
           IN  tables = [kind \in TableKinds |-> tables[kind]]
               /\ \A kind \in TableKinds : tables[kind] \in Seq(IsOf({kind}))
<1> DEFINE at == compute_label_offsets(model.items)
<1>1. ASSUME NEW kind \in DebugKinds PROVE LoweredTable(model, kind, strip, at) \in Seq(IsOf({kind}))
  <2> DEFINE S == {a \in AttributesWithin(Nat) : a.kind = kind}
  <2>1. \A l \in LabelsIn(model.items) : at[l] \in Nat
    BY ModelFields, OffsetsOfLabels
  <2>2. LoweredTable(model, kind, strip, at) \in Seq(S)
    BY <2>1, LoweredTableIs
  <2>3. S \subseteq IsOf({kind})
    BY DEF AttributesWithin, IsOf
  <2> HIDE DEF S, at
  <2> QED BY <2>2, <2>3, SeqMonotonic
<1>2. FrameTables = IsOf({"frames"})
  BY DEF FrameTables, IsOf
<1> HIDE DEF at
<1> DEFINE tables == TablesOf(model, frames, strip, at)
<1>3. tables = [kind \in TableKinds |-> tables[kind]]
  BY DEF TablesOf
<1>4. ASSUME NEW kind \in TableKinds PROVE tables[kind] \in Seq(IsOf({kind}))
  <2>1. CASE kind = "frames"
    BY <2>1, <1>2 DEF TablesOf
  <2>2. CASE kind # "frames"
    <3>1. kind \in DebugKinds /\ tables[kind] = LoweredTable(model, kind, strip, at)
      BY <2>2 DEF TablesOf, TableKinds
    <3> QED BY <3>1, <1>1
  <2> QED BY <2>1, <2>2
<1> QED BY <1>3, <1>4 DEF at

\* Frames are given only when they are recomputed.
FramesGiven(frames, recompute) == recompute \/ frames = <<>>

KeepsAttributes(model, strip, frames, recompute, low) ==
    /\ NotOfKind(low.attrs, TabledKinds(recompute)) = NotOfKind(model.attributes, TabledKinds(recompute))
    /\ recompute => OfKind(low.attrs, {"frames"}) = frames
    /\ \A kind \in DebugKinds :
        OfKind(low.attrs, {kind}) = LoweredTable(model, kind, strip, compute_label_offsets(model.items))

\* What is written has the attributes that the model has, and the tables lowered.
LEMMA LoweredKeepsAttributes ==
    ASSUME NEW model \in Models, NEW strip, NEW recompute, NEW frames \in Seq(FrameTables),
           Referenced(model, strip) \subseteq LabelsIn(model.items), FramesGiven(frames, recompute),
           NEW low, low = Lowered(model, strip, frames, recompute)
    PROVE  KeepsAttributes(model, strip, frames, recompute, low)
<1> DEFINE at == compute_label_offsets(model.items)
           tables == TablesOf(model, frames, strip, at)
           others == Remaining(model.attributes, recompute)
           A == Attributes
<1>1. low.attrs = lower_nested_attributes(model.layout, model.attributes, tables, recompute)
      /\ low.attrs \in Seq(A)
  BY LoweredIs, LoweredIsTyped DEF Shaped
<1>2. model.layout \in Seq(AttributeKinds) /\ model.attributes \in Seq(NestedAttributes)
  BY ModelFields
<1>3. others = NotOfKind(model.attributes, TabledKinds(recompute)) /\ others \in Seq(IsNotOf(TabledKinds(recompute)))
  BY <1>2, RemainingIsChosen
<1>4. tables = [kind \in TableKinds |-> tables[kind]] /\ \A kind \in TableKinds : tables[kind] \in Seq(IsOf({kind}))
  BY TablesAreOfKinds
<1>5. FramesGiven(tables["frames"], recompute)
  BY DEF TablesOf, TableKinds
<1>6. /\ recompute => tables["frames"] = frames
      /\ \A kind \in DebugKinds : tables[kind] = LoweredTable(model, kind, strip, at)
  BY DEF TablesOf, TableKinds, DebugKinds
<1> HIDE DEF at, tables, others
<1>7. NotOfKind(low.attrs, TabledKinds(recompute)) = others
  <2> DEFINE P == IsNotOf(TabledKinds(recompute))
  <2>1. others \in Seq(A \cap P)
    <3>1. P \subseteq A \cap P
      BY DEF IsNotOf
    <3> HIDE DEF P
    <3> QED BY <1>3, <3>1, SeqMonotonic DEF P
  <2>2. ASSUME NEW kind \in TableKinds PROVE tables[kind] \in Seq(A \ P)
    <3>1. CASE kind = "frames" /\ ~recompute
      <4>1. tables[kind] = <<>>
        BY <1>5, <3>1 DEF FramesGiven
      <4> QED BY <4>1
    <3>2. CASE ~(kind = "frames" /\ ~recompute)
      <4>1. kind \in TabledKinds(recompute)
        BY <3>2 DEF TableKinds, TabledKinds
      <4>2. IsOf({kind}) \subseteq A \ P
        BY <4>1 DEF IsOf, IsNotOf
      <4> HIDE DEF P
      <4> QED BY <1>4, <4>2, SeqMonotonic
    <3> QED BY <3>1, <3>2
  <2>3. tables \in [TableKinds -> Seq(A \ P)]
    <3> HIDE DEF P, A
    <3> QED BY <1>4, <2>2
  <2>4. NotOfKind(low.attrs, TabledKinds(recompute)) = Chosen(low.attrs, P)
    BY <1>1, OfKindIsChosen
  <2> HIDE DEF P, A
  <2>5. Chosen(lower_nested_attributes(model.layout, model.attributes, tables, recompute), P)
            = Remaining(model.attributes, recompute)
    <3>1. OthersGiven(A, P, Remaining(model.attributes, recompute), tables)
      BY <2>1, <2>3 DEF others, OthersGiven
    <3> QED BY <1>2, <3>1, OthersKept
  <2> QED BY <1>1, <2>4, <2>5 DEF others
<1>8. ASSUME NEW own \in TableKinds, own \in TabledKinds(recompute) PROVE OfKind(low.attrs, {own}) = tables[own]
  <2> DEFINE P == IsOf({own})
  <2>1. others \in Seq(A \ P)
    <3>1. IsNotOf(TabledKinds(recompute)) \subseteq A \ P
      BY <1>8 DEF IsOf, IsNotOf
    <3> HIDE DEF P
    <3> QED BY <1>3, <3>1, SeqMonotonic
  <2>2. tables[own] \in Seq(A \cap P)
    <3>1. P \subseteq A \cap P
      BY DEF IsOf
    <3> HIDE DEF A
    <3> QED BY <1>4, <3>1, SeqMonotonic
  <2>3. ASSUME NEW kind \in TableKinds PROVE tables[kind] \in Seq(A)
    <3>1. IsOf({kind}) \subseteq A
      BY DEF IsOf
    <3> HIDE DEF A
    <3> QED BY <1>4, <3>1, SeqMonotonic
  <2>4. ASSUME NEW kind \in TableKinds \ {own} PROVE tables[kind] \in Seq(A \ P)
    <3>1. IsOf({kind}) \subseteq A \ P
      BY DEF IsOf
    <3> HIDE DEF P
    <3> QED BY <1>4, <3>1, SeqMonotonic
  <2>5. tables \in [TableKinds -> Seq(A)]
    <3> HIDE DEF A
    <3> QED BY <1>4, <2>3
  <2>6. OfKind(low.attrs, {own}) = Chosen(low.attrs, P)
    BY <1>1, OfKindIsChosen
  <2> HIDE DEF P, A
  <2>7. Chosen(lower_nested_attributes(model.layout, model.attributes, tables, recompute), P) = tables[own]
    <3>1. OwnGiven(A, P, own, Remaining(model.attributes, recompute), tables)
      BY <2>1, <2>2, <2>4, <2>5 DEF others, OwnGiven
    <3> QED BY <1>2, <1>8, <3>1, OwnKept
  <2> QED BY <1>1, <2>6, <2>7
<1>9. recompute => OfKind(low.attrs, {"frames"}) = frames
  BY <1>6, <1>8 DEF TableKinds, TabledKinds
<1>10. \A kind \in DebugKinds : OfKind(low.attrs, {kind}) = LoweredTable(model, kind, strip, at)
  BY <1>6, <1>8 DEF TableKinds, TabledKinds
<1> QED BY <1>3, <1>7, <1>9, <1>10 DEF at, others, KeepsAttributes

-----------------------------------------------------------------------------
(* Theorems. *)

LEMMA InitEstablishes == Init => WritingInvariant
<1> SUFFICES ASSUME Init PROVE WritingInvariant
  OBVIOUS
<1>1. Shaped(file)
  BY CodesAreParsed DEF Init, IsCode, Shaped
<1> QED BY <1>1 DEF Init, WritingInvariant, TypeInvariant, PlacesAreOffsets

LEMMA StepKeepsWriting == WritingInvariant /\ [Next]_vars => WritingInvariant'
<1> SUFFICES ASSUME WritingInvariant, [Next]_vars PROVE WritingInvariant'
  OBVIOUS
<1>1. TypeInvariant /\ PlacesAreOffsets
  BY DEF WritingInvariant
<1>2. CASE Read
  <2>1. lift_code_model(file) \in Models /\ Shaped(file)
    BY <1>1, LiftIsTyped DEF TypeInvariant
  <2> QED BY <1>1, <1>2, <2>1 DEF Read, WritingInvariant, TypeInvariant, PlacesAreOffsets
<1>3. CASE Edit
  <2>1. code # NoCode /\ code' \in Models /\ UNCHANGED <<file, origin, wrote, writes>> /\ edits' = edits + 1
    BY <1>1, <1>3, EditIsTyped
  <2> QED BY <1>1, <2>1 DEF WritingInvariant, TypeInvariant, PlacesAreOffsets
<1>4. CASE Write
  <2>1. PICK strip \in BOOLEAN, recompute \in BOOLEAN, frames \in Seq(FrameTables) :
            /\ code # NoCode /\ Referenced(code, strip) \subseteq LabelsIn(code.items)
            /\ file' = Lowered(code, strip, frames, recompute)
            /\ wrote' = [frames |-> IF recompute THEN "recomputed" ELSE "preserved", strip |-> strip]
            /\ writes' = writes + 1 /\ UNCHANGED <<code, origin, edits>>
    BY <1>1, <1>4, WritesLower
  <2>2. code \in Models
    BY <1>1, <2>1 DEF TypeInvariant
  <2>3. Shaped(file') /\ Places(file') \subseteq Range(Offsets(file'.insns))
    BY <2>1, <2>2, LoweredIsTyped
  <2>4. wrote' \in [frames : {"none", "preserved", "recomputed"}, strip : BOOLEAN]
    BY <2>1
  <2> QED BY <1>1, <2>1, <2>3, <2>4 DEF WritingInvariant, TypeInvariant, PlacesAreOffsets
<1>5. CASE UNCHANGED vars
  BY <1>1, <1>5 DEF vars, WritingInvariant, TypeInvariant, PlacesAreOffsets
<1> QED BY <1>2, <1>3, <1>4, <1>5 DEF Next

\* Code is code after any edits and writes, the model's items are instructions and
\* labels, and every place of a file that was written is the start of an instruction or
\* the end (compute_label_offsets).
THEOREM CodeIsTyped == Spec => []WritingInvariant
<1>1. Init => WritingInvariant
  BY InitEstablishes
<1>2. WritingInvariant /\ [Next]_vars => WritingInvariant'
  BY StepKeepsWriting
<1> QED BY <1>1, <1>2, PTL DEF Spec

\* Whatever is read, edited and written: what was written can be read and written again
\* (lift_code_model labels every place, the one behind the last instruction included).
THEOREM WrittenCodeStaysWritable == Spec => []WrittenCodeIsWritable
<1>1. WritingInvariant => WrittenCodeIsWritable
  <2> SUFFICES ASSUME WritingInvariant, writes > 0 \/ Places(file) \subseteq Range(Offsets(file.insns))
               PROVE  Referenced(lift_code_model(file), FALSE) \subseteq LabelsIn(lift_code_model(file).items)
    BY DEF WrittenCodeIsWritable
  <2>1. Shaped(file) /\ Places(file) \subseteq Range(Offsets(file.insns))
    BY DEF WritingInvariant, TypeInvariant, PlacesAreOffsets
  <2> QED BY <2>1, LiftedIsWritable
<1> QED BY <1>1, CodeIsTyped, PTL

\* Every edit of any code, by any matcher or pattern and any snippet, is one pass over
\* the items (replace_insns, insert_before, insert_after, replace_sequences).
THEOREM EditsStayExact == Spec => []EditsAreExact
<1>1. WritingInvariant => EditsAreExact
  <2> SUFFICES ASSUME WritingInvariant PROVE EditsAreExact
    OBVIOUS
  <2>1. code # NoCode => code.items \in Seq(Items)
    BY ModelFields DEF WritingInvariant, TypeInvariant
  <2> QED BY <2>1, TypedEditsAreExact
<1> QED BY <1>1, CodeIsTyped, PTL

-----------------------------------------------------------------------------
\* The debug tables of the model are those read, whatever is edited.
TablesAreRead ==
    code # NoCode => code.tables = [kind \in DebugKinds |-> Table(origin.attrs, kind)]

AttributesInvariant == WritingInvariant /\ TablesAreRead

LEMMA StepKeepsTables == AttributesInvariant /\ [Next]_vars => AttributesInvariant'
<1> SUFFICES ASSUME AttributesInvariant, [Next]_vars PROVE AttributesInvariant'
  OBVIOUS
<1>1. TypeInvariant /\ TablesAreRead /\ WritingInvariant'
  BY StepKeepsWriting DEF AttributesInvariant, WritingInvariant
<1>2. CASE Read
  <2>1. code' = lift_code_model(file) /\ origin' = file
    BY <1>2 DEF Read
  <2>2. code'.tables = [kind \in DebugKinds |-> Table(file.attrs, kind)]
    BY <2>1 DEF lift_code_model
  <2> QED BY <1>1, <2>1, <2>2 DEF AttributesInvariant, TablesAreRead
<1>3. CASE Edit
  <2>1. code # NoCode /\ code' = [code' EXCEPT !.tables = code.tables] /\ origin' = origin /\ code' \in Models
    BY <1>1, <1>3, EditIsTyped
  <2>2. code'.tables = code.tables
    BY <2>1 DEF Models
  <2> QED BY <1>1, <2>1, <2>2 DEF AttributesInvariant, TablesAreRead
<1>4. CASE Write
  <2>1. code' = code /\ origin' = origin
    BY <1>4 DEF Write, WritePreserving, WriteRecomputing, Written
  <2> QED BY <1>1, <2>1 DEF AttributesInvariant, TablesAreRead
<1>5. CASE UNCHANGED vars
  BY <1>1, <1>5 DEF vars, AttributesInvariant, TablesAreRead
<1> QED BY <1>2, <1>3, <1>4, <1>5 DEF Next

\* Only writing counts as a write.
LEMMA StepsThatWrite ==
    ASSUME TypeInvariant, [Next]_vars, writes' # writes PROVE Write
<1>1. CASE Read
  BY <1>1 DEF Read
<1>2. CASE Edit
  BY <1>2, EditIsTyped
<1>3. CASE UNCHANGED vars
  BY <1>3 DEF vars
<1> QED BY <1>1, <1>2, <1>3 DEF Next

AttributesKeptNext ==
    writes' # writes =>
        LET stripped == wrote'.strip \/ code.stale
            recomputed == wrote'.frames = "recomputed"
            others(attrs) == NotOfKind(attrs, DebugKinds \cup IF recomputed THEN {"frames"} ELSE {})
        IN  /\ others(file'.attrs) = others(code.attributes)
            /\ recomputed => Len(OfKind(file'.attrs, {"frames"})) <= 1
            /\ \A kind \in DebugKinds : Len(OfKind(origin.attrs, {kind})) <= 1 =>
                Len(OfKind(file'.attrs, {kind})) =
                    IF stripped \/ Table(origin.attrs, kind) = <<>> THEN 0 ELSE 1

LEMMA WritesKeepAttributes ==
    ASSUME AttributesInvariant, [Next]_vars PROVE AttributesKeptNext
<1> SUFFICES ASSUME writes' # writes
             PROVE  /\ NotOfKind(file'.attrs, TabledKinds(wrote'.frames = "recomputed"))
                        = NotOfKind(code.attributes, TabledKinds(wrote'.frames = "recomputed"))
                    /\ wrote'.frames = "recomputed" => Len(OfKind(file'.attrs, {"frames"})) <= 1
                    /\ \A kind \in DebugKinds :
                        Len(OfKind(file'.attrs, {kind})) =
                            IF wrote'.strip \/ code.stale \/ Table(origin.attrs, kind) = <<>> THEN 0 ELSE 1
  BY DEF AttributesKeptNext, TabledKinds
<1>1. TypeInvariant /\ TablesAreRead
  BY DEF AttributesInvariant, WritingInvariant
<1>2. Write
  BY <1>1, StepsThatWrite
<1>3. PICK strip \in BOOLEAN, recompute \in BOOLEAN, frames \in Seq(FrameTables) :
            /\ code # NoCode /\ Referenced(code, strip) \subseteq LabelsIn(code.items)
            /\ file' = Lowered(code, strip, frames, recompute)
            /\ ~recompute => frames = <<>> /\ ensure_frame_sensitive_attrs_supported(code)
            /\ recompute => Len(frames) <= 1
            /\ wrote' = [frames |-> IF recompute THEN "recomputed" ELSE "preserved", strip |-> strip]
  BY <1>1, <1>2, WritesLower
<1> DEFINE R == wrote'.frames = "recomputed"
           at == compute_label_offsets(code.items)
<1>4. code \in Models /\ code.tables = [kind \in DebugKinds |-> Table(origin.attrs, kind)]
  BY <1>1, <1>3 DEF TypeInvariant, TablesAreRead
<1>5. recompute = R /\ wrote'.strip = strip
  BY <1>3
<1>6. FramesGiven(frames, recompute)
  BY <1>3 DEF FramesGiven
<1>7. /\ NotOfKind(file'.attrs, TabledKinds(recompute)) = NotOfKind(code.attributes, TabledKinds(recompute))
      /\ recompute => OfKind(file'.attrs, {"frames"}) = frames
      /\ \A kind \in DebugKinds : OfKind(file'.attrs, {kind}) = LoweredTable(code, kind, strip, at)
  <2>1. file' = Lowered(code, strip, frames, recompute) /\ Referenced(code, strip) \subseteq LabelsIn(code.items)
    BY <1>3
  <2>2. KeepsAttributes(code, strip, frames, recompute, file')
    BY <1>4, <1>6, <2>1, LoweredKeepsAttributes
  <2> QED BY <2>2 DEF KeepsAttributes
<1>8. \A kind \in DebugKinds :
        Len(LoweredTable(code, kind, strip, at))
            = IF strip \/ code.stale \/ Table(origin.attrs, kind) = <<>> THEN 0 ELSE 1
  <2>1. ASSUME NEW kind \in DebugKinds PROVE code.tables[kind] = Table(origin.attrs, kind)
    BY <1>4
  <2> QED BY <2>1 DEF LoweredTable, strip_debug_info
<1> HIDE DEF R, at
<1>9. NotOfKind(file'.attrs, TabledKinds(R)) = NotOfKind(code.attributes, TabledKinds(R))
  BY <1>5, <1>7
<1>10. R => Len(OfKind(file'.attrs, {"frames"})) <= 1
  BY <1>3, <1>5, <1>7
<1>11. \A kind \in DebugKinds :
        Len(OfKind(file'.attrs, {kind}))
            = IF wrote'.strip \/ code.stale \/ Table(origin.attrs, kind) = <<>> THEN 0 ELSE 1
  BY <1>5, <1>7, <1>8
<1> QED BY <1>9, <1>10, <1>11 DEF R

\* However often code is edited and written: the attributes that are in no table come
\* out as they are and in their order, and each debug table that is the only one of its
\* kind comes out once, unless it is empty, stripped or stale (lower_nested_attributes).
THEOREM AttributesStayKept == Spec => AttributesKept
<1>1. Init => AttributesInvariant
  BY InitEstablishes DEF Init, AttributesInvariant, TablesAreRead
<1>2. AttributesInvariant /\ [Next]_vars => AttributesInvariant'
  BY StepKeepsTables
<1>3. AttributesInvariant /\ [Next]_vars => [AttributesKeptNext]_vars
  BY WritesKeepAttributes
<1>4. Spec => [][AttributesKeptNext]_vars
  BY <1>1, <1>2, <1>3, PTL DEF Spec
<1> QED BY <1>4 DEF AttributesKept, AttributesKeptNext

-----------------------------------------------------------------------------
(* Reading and writing again. *)

\* All labels of the items stand at their own offsets, and the items end at an offset.
Stands(items, end) ==
    /\ items \in Seq(Items) /\ end \in Nat /\ ItemOffsets(items)[Len(items) + 1] = end
    /\ \A k \in 1..Len(items) : items[k].op = "label" => ItemOffsets(items)[k] = items[k].id

LEMMA ItemOffsetsOfMore ==
    ASSUME NEW s \in Seq(Items), NEW x \in Items, NEW t, t = Append(s, x)
    PROVE  /\ \A k \in 1..(Len(s) + 1) : ItemOffsets(t)[k] = ItemOffsets(s)[k]
           /\ ItemOffsets(t)[Len(s) + 2] = ItemOffsets(s)[Len(s) + 1] + instruction_size(x)
<1> DEFINE n == Len(s)
           N == {k \in 1..(n + 1) : ItemOffsets(t)[k] = ItemOffsets(s)[k]}
<1>1. n \in Nat /\ t \in Seq(Items) /\ Len(t) = n + 1 /\ t[n + 1] = x /\ \A k \in 1..n : t[k] = s[k]
  BY AppendElements
<1>2. ItemOffsets(s)[1] = 0
      /\ \A k \in 1..n : ItemOffsets(s)[k + 1] = ItemOffsets(s)[k] + instruction_size(s[k])
  BY ItemOffsetsFacts
<1>3. ItemOffsets(t)[1] = 0
      /\ \A k \in 1..(n + 1) : ItemOffsets(t)[k + 1] = ItemOffsets(t)[k] + instruction_size(t[k])
  BY <1>1, ItemOffsetsFacts
<1> HIDE DEF n
<1>4. 1 \in N
  <2>1. 1 \in 1..(n + 1)
    BY <1>1
  <2> QED BY <2>1, <1>2, <1>3
<1>5. ASSUME NEW k \in 1..n, k \in N PROVE k + 1 \in N
  <2>1. k \in 1..(n + 1) /\ k + 1 \in 1..(n + 1)
    BY <1>1
  <2>2. t[k] = s[k] /\ ItemOffsets(t)[k] = ItemOffsets(s)[k]
    BY <1>1, <1>5
  <2>3. ItemOffsets(t)[k + 1] = ItemOffsets(s)[k + 1]
    BY <2>1, <2>2, <1>2, <1>3
  <2> QED BY <2>1, <2>3
<1> HIDE DEF N
<1>6. 1..(n + 1) \subseteq N
  BY <1>1, <1>4, <1>5, UpToFromOne
<1>7. \A k \in 1..(n + 1) : ItemOffsets(t)[k] = ItemOffsets(s)[k]
  BY <1>6 DEF N
<1>8. n + 1 \in 1..(n + 1) /\ (n + 1) + 1 = n + 2
  BY <1>1
<1>9. ItemOffsets(t)[n + 2] = ItemOffsets(s)[n + 1] + instruction_size(x)
  <2>1. ItemOffsets(t)[(n + 1) + 1] = ItemOffsets(t)[n + 1] + instruction_size(t[n + 1])
    BY <1>3, <1>8
  <2> QED BY <2>1, <1>1, <1>7, <1>8
<1> QED BY <1>7, <1>9 DEF n

LEMMA StandsWithMore ==
    ASSUME NEW s, NEW end, Stands(s, end), NEW x \in Items, x.op = "label" => x.id = end
    PROVE  Stands(Append(s, x), end + instruction_size(x))
<1> DEFINE t == Append(s, x)
           n == Len(s)
<1>1. s \in Seq(Items) /\ end \in Nat /\ ItemOffsets(s)[n + 1] = end
      /\ \A k \in 1..n : s[k].op = "label" => ItemOffsets(s)[k] = s[k].id
  BY DEF Stands
<1>2. n \in Nat /\ t \in Seq(Items) /\ Len(t) = n + 1 /\ t[n + 1] = x /\ \A k \in 1..n : t[k] = s[k]
  BY <1>1, AppendElements
<1>3. /\ \A k \in 1..(n + 1) : ItemOffsets(t)[k] = ItemOffsets(s)[k]
      /\ ItemOffsets(t)[n + 2] = ItemOffsets(s)[n + 1] + instruction_size(x)
  BY <1>1, ItemOffsetsOfMore
<1>4. instruction_size(x) \in Nat
  BY SizesAreNumbers
<1> HIDE DEF t, n
<1>5. ASSUME NEW k \in 1..(n + 1), t[k].op = "label" PROVE ItemOffsets(t)[k] = t[k].id
  <2>1. CASE k = n + 1
    BY <2>1, <1>1, <1>2, <1>3, <1>5
  <2>2. CASE k # n + 1
    <3>1. k \in 1..n
      BY <2>2, <1>2
    <3> QED BY <3>1, <1>1, <1>2, <1>3, <1>5
  <2> QED BY <2>1, <2>2
<1>6. Len(t) + 1 = n + 2 /\ end + instruction_size(x) \in Nat
  BY <1>1, <1>2, <1>4
<1> QED BY <1>1, <1>2, <1>3, <1>5, <1>6 DEF Stands, t

\* A label, if there is one for the place where the items end, stands there.
LEMMA StandsWithLabel ==
    ASSUME NEW c, Shaped(c), NEW i \in 1..(Len(c.insns) + 1), NEW s, Stands(s, Offsets(c.insns)[i])
    PROVE  Stands(s \o LabelAt(c, i), Offsets(c.insns)[i])
<1> DEFINE o == Offsets(c.insns)[i]
<1>1. s \in Seq(Items) /\ o \in Nat
  BY DEF Stands
<1>2. CASE o \in Places(c)
  <2>1. LabelAt(c, i) = <<Label(o)>>
    BY <1>2 DEF LabelAt
  <2>2. Label(o) \in Items /\ Label(o).op = "label" /\ Label(o).id = o
    BY <1>1, LabelIsItem
  <2>3. instruction_size(Label(o)) = 0
    BY <2>2 DEF instruction_size
  <2> DEFINE x == Label(o)
  <2> HIDE DEF o, x
  <2>4. Stands(Append(s, x), o + instruction_size(x))
    BY <2>2, StandsWithMore DEF o, x
  <2>5. s \o <<x>> = Append(s, x)
    BY <1>1
  <2>6. o + instruction_size(x) = o
    BY <2>3, <1>1 DEF x
  <2> QED BY <2>1, <2>4, <2>5, <2>6 DEF o, x
<1>3. CASE o \notin Places(c)
  <2>1. LabelAt(c, i) = <<>>
    BY <1>3 DEF LabelAt
  <2>2. s \o <<>> = s
    BY <1>1
  <2> QED BY <2>1, <2>2
<1> QED BY <1>2, <1>3

Grown(c, i) == FlattenSeq(Upto(Groups(c), i))

LEMMA GrownSteps ==
    ASSUME NEW c, Shaped(c)
    PROVE  /\ Grown(c, 0) = <<>> /\ Grown(c, Len(c.insns)) = FlattenSeq(Groups(c))
           /\ \A i \in 1..Len(c.insns) :
                /\ Grown(c, i - 1) \in Seq(Items) /\ Grown(c, i) \in Seq(Items)
                /\ Grown(c, i) = Append(Grown(c, i - 1) \o LabelAt(c, i), LiftedInsn(c, i))
<1>1. Groups(c) \in Seq(Seq(Items)) /\ Len(Groups(c)) = Len(c.insns)
  BY GroupsAre
<1>2. Grown(c, 0) = <<>> /\ Grown(c, Len(c.insns)) = FlattenSeq(Groups(c))
  BY <1>1, FlattenEnds DEF Grown
<1>3. ASSUME NEW i \in 1..Len(c.insns)
      PROVE  /\ Grown(c, i - 1) \in Seq(Items) /\ Grown(c, i) \in Seq(Items)
             /\ Grown(c, i) = Append(Grown(c, i - 1) \o LabelAt(c, i), LiftedInsn(c, i))
  <2>1. /\ Grown(c, i - 1) \in Seq(Items) /\ Grown(c, i) \in Seq(Items)
        /\ Grown(c, i) = Grown(c, i - 1) \o Groups(c)[i]
    BY <1>1, FlattenStep DEF Grown
  <2>2. Groups(c)[i] = Append(LabelAt(c, i), LiftedInsn(c, i))
    BY DEF Groups
  <2>3. i \in 1..(Len(c.insns) + 1)
    BY GroupsAre
  <2>4. LabelAt(c, i) \in Seq(Items) /\ LiftedInsn(c, i) \in Items
    BY <2>3, GroupsAre
  <2> DEFINE a == Grown(c, i - 1)
             b == LabelAt(c, i)
             x == LiftedInsn(c, i)
  <2>5. a \in Seq(Items) /\ b \in Seq(Items) /\ x \in Items
    BY <2>1, <2>4
  <2> HIDE DEF a, b, x
  <2>6. a \o Append(b, x) = Append(a \o b, x)
    BY <2>5
  <2> QED BY <2>1, <2>2, <2>6 DEF a, b, x
<1> QED BY <1>2, <1>3

\* In the items lifted from shortest forms, all labels stand where they were read.
LEMMA LiftedStands ==
    ASSUME NEW c, Shaped(c), ShortestForms(c)
    PROVE  Stands(LiftedItems(c), Offsets(c.insns)[Len(c.insns) + 1])
<1> DEFINE n == Len(c.insns)
           o(i) == Offsets(c.insns)[i]
           N == {i \in 0..n : Stands(Grown(c, i), o(i + 1))}
<1>1. n \in Nat /\ OffsetsAre(c.insns, Offsets(c.insns)) /\ c.insns \in Seq(Instructions)
  BY GroupsAre DEF Shaped
<1>2. /\ \A i \in 1..(n + 1) : o(i) \in Nat
      /\ o(1) = 0 /\ \A i \in 1..n : o(i + 1) = o(i) + c.insns[i].size
  BY <1>1 DEF OffsetsAre
<1>3. 0 \in N
  <2>1. <<>> \in Seq(Items) /\ Len(<<>>) = 0
    OBVIOUS
  <2>2. ItemOffsets(<<>>)[1] = 0
    BY <2>1, ItemOffsetsFacts
  <2>3. Stands(<<>>, 0)
    BY <2>1, <2>2 DEF Stands
  <2>4. 0 \in 0..n /\ 0 + 1 = 1
    BY <1>1
  <2> QED BY <2>3, <2>4, <1>2, GrownSteps
<1>4. ASSUME NEW i \in 1..n, i - 1 \in N PROVE i \in N
  <2>1. i \in 0..n /\ (i - 1) + 1 = i /\ i \in 1..(n + 1)
    BY <1>1
  <2>2. Stands(Grown(c, i - 1), o(i))
    BY <1>4, <2>1
  <2>3. Stands(Grown(c, i - 1) \o LabelAt(c, i), o(i))
    BY <2>1, <2>2, StandsWithLabel
  <2> DEFINE x == LiftedInsn(c, i)
  <2>4. x \in Items /\ x.op = c.insns[i].op
    BY GroupsAre DEF LiftedInsn
  <2>5. c.insns[i] \in Instructions /\ i \in DOMAIN c.insns
    BY <1>1
  <2>6. x.op # "label" /\ c.insns[i].size = Shortest[x.op]
    BY <2>4, <2>5, OpsHaveLengths DEF ShortestForms, Instructions
  <2>7. instruction_size(x) = c.insns[i].size
    BY <2>6 DEF instruction_size
  <2> DEFINE s == Grown(c, i - 1) \o LabelAt(c, i)
             e == o(i)
  <2>8. Stands(s, e)
    BY <2>3
  <2> HIDE DEF s, e, x
  <2>9. Stands(Append(s, x), e + instruction_size(x))
    BY <2>4, <2>6, <2>8, StandsWithMore
  <2>10. Grown(c, i) = Append(s, x)
    BY GrownSteps DEF s, x
  <2>11. o(i + 1) = e + instruction_size(x)
    BY <2>7, <1>2 DEF e
  <2> QED BY <2>1, <2>9, <2>10, <2>11
<1> HIDE DEF N, n
<1>5. 0..n \subseteq N
  BY <1>1, <1>3, <1>4, UpTo
<1>6. Stands(Grown(c, n), o(n + 1))
  <2>1. n \in 0..n
    BY <1>1
  <2> QED BY <2>1, <1>5 DEF N
<1>7. n + 1 \in 1..(Len(c.insns) + 1)
  BY <1>1 DEF n
<1>8. Stands(Grown(c, n) \o LabelAt(c, n + 1), o(n + 1))
  BY <1>6, <1>7, StandsWithLabel
<1>9. LiftedItems(c) = Grown(c, n) \o LabelAt(c, n + 1)
  BY GrownSteps, LiftedIs DEF n
<1> QED BY <1>8, <1>9 DEF n

\* So each label is written as it was read.
LEMMA LabelsStay ==
    ASSUME NEW items, NEW end, Stands(items, end)
    PROVE  \A l \in LabelsIn(items) : compute_label_offsets(items)[l] = l
<1>1. items \in Seq(Items) /\ \A k \in 1..Len(items) : items[k].op = "label" => ItemOffsets(items)[k] = items[k].id
  BY DEF Stands
<1>2. ASSUME NEW l \in LabelsIn(items) PROVE compute_label_offsets(items)[l] = l
  <2>1. PICK k : LastAt(items, l, k) /\ compute_label_offsets(items)[l] = ItemOffsets(items)[k]
    BY <1>1, LabelsArePlaced
  <2>2. k \in 1..Len(items) /\ items[k] = Label(l) /\ l \in Nat
    BY <1>1, <2>1, LabelsArePlaced DEF LastAt
  <2> QED BY <2>1, <2>2, <1>1, LabelIsItem
<1> QED BY <1>2

\* The instructions among the lifted items are those read, in their order.
LiftedInsns(c) == [i \in 1..Len(c.insns) |-> LiftedInsn(c, i)]

LEMMA NoInsnsInLabels ==
    ASSUME NEW c, Shaped(c), NEW i \in 1..(Len(c.insns) + 1), NEW s \in Seq(Items)
    PROVE  s \o LabelAt(c, i) \in Seq(Items) /\ Chosen(s \o LabelAt(c, i), InsnItems) = Chosen(s, InsnItems)
<1> DEFINE o == Offsets(c.insns)[i]
<1>1. CASE o \in Places(c)
  <2>1. o \in Nat
    BY GroupsAre DEF OffsetsAre
  <2>2. Label(o) \in Items /\ Label(o) \notin InsnItems
    BY <2>1, LabelIsItem DEF InsnItems
  <2>3. LabelAt(c, i) = <<Label(o)>>
    BY <1>1 DEF LabelAt
  <2> DEFINE x == Label(o)
  <2> HIDE DEF x
  <2>4. s \o <<x>> = Append(s, x) /\ Append(s, x) \in Seq(Items)
    BY <2>2 DEF x
  <2>5. Chosen(Append(s, x), InsnItems) = Chosen(s, InsnItems)
    BY <2>2, ChosenLess DEF x
  <2> QED BY <2>3, <2>4, <2>5 DEF x
<1>2. CASE o \notin Places(c)
  <2>1. LabelAt(c, i) = <<>>
    BY <1>2 DEF LabelAt
  <2>2. s \o <<>> = s
    OBVIOUS
  <2> QED BY <2>1, <2>2
<1> QED BY <1>1, <1>2

LEMMA InsnsOfLifted ==
    ASSUME NEW c, Shaped(c)
    PROVE  LiftedInsns(c) \in Seq(Items) /\ Chosen(LiftedItems(c), InsnItems) = LiftedInsns(c)
<1> DEFINE n == Len(c.insns)
           l == LiftedInsns(c)
           N == {i \in 0..n : Chosen(Grown(c, i), InsnItems) = Upto(l, i)}
<1>1. n \in Nat /\ \A i \in 1..n : LiftedInsn(c, i) \in Items /\ LiftedInsn(c, i) \in InsnItems
  <2>1. n \in Nat /\ c.insns \in Seq(Instructions) /\ \A i \in 1..n : LiftedInsn(c, i) \in Items
    BY GroupsAre DEF Shaped
  <2>2. \A i \in 1..n : c.insns[i].op # "label"
    <3>1. \A i \in 1..n : c.insns[i] \in Instructions
      BY <2>1
    <3> QED BY <3>1, OpsHaveLengths DEF Instructions
  <2> QED BY <2>1, <2>2 DEF InsnItems, LiftedInsn
<1>2. l \in Seq(Items) /\ Len(l) = n /\ \A i \in 1..n : l[i] = LiftedInsn(c, i)
  BY <1>1 DEF LiftedInsns
<1> HIDE DEF l, n
<1>3. 0 \in N
  <2>1. Chosen(<<>>, InsnItems) = <<>> /\ Upto(l, 0) = <<>>
    BY <1>2, ChosenNothing, UptoFacts
  <2>2. 0 \in 0..n /\ Grown(c, 0) = <<>>
    BY <1>1, GrownSteps
  <2> QED BY <2>1, <2>2
<1>4. ASSUME NEW i \in 1..n, i - 1 \in N PROVE i \in N
  <2>1. i \in 0..n /\ i \in 1..(n + 1)
    BY <1>1
  <2> DEFINE g == Grown(c, i - 1)
             s == g \o LabelAt(c, i)
             x == LiftedInsn(c, i)
  <2>2. g \in Seq(Items) /\ Grown(c, i) = Append(s, x)
    BY GrownSteps DEF n
  <2>3. s \in Seq(Items) /\ Chosen(s, InsnItems) = Chosen(g, InsnItems)
    <3> HIDE DEF g
    <3> QED BY <2>1, <2>2, NoInsnsInLabels DEF n
  <2>4. x \in Items /\ x \in InsnItems
    BY <1>1
  <2>5. Chosen(g, InsnItems) = Upto(l, i - 1)
    BY <1>4
  <2>6. Upto(l, i) = Append(Upto(l, i - 1), x)
    <3>1. i \in 1..Len(l)
      BY <1>2
    <3>2. Upto(l, i) = Append(Upto(l, i - 1), l[i])
      BY <3>1, <1>2, UptoFacts
    <3> QED BY <3>2, <1>2
  <2> HIDE DEF g, s, x
  <2>7. Chosen(Append(s, x), InsnItems) = Append(Chosen(s, InsnItems), x)
    BY <2>3, <2>4, ChosenMore
  <2> QED BY <2>1, <2>2, <2>3, <2>5, <2>6, <2>7
<1> HIDE DEF N
<1>5. 0..n \subseteq N
  BY <1>1, <1>3, <1>4, UpTo
<1>6. Chosen(Grown(c, n), InsnItems) = l
  <2>1. n \in N
    <3>1. n \in 0..n
      BY <1>1
    <3> QED BY <3>1, <1>5
  <2>2. Upto(l, n) = l
    BY <1>2, UptoFacts
  <2> QED BY <2>1, <2>2 DEF N
<1>7. LiftedItems(c) = Grown(c, n) \o LabelAt(c, n + 1)
  BY GrownSteps, LiftedIs DEF n
<1>8. n + 1 \in 1..(Len(c.insns) + 1) /\ Grown(c, n) \in Seq(Items)
  BY <1>1, GroupsAre, GrownSteps, FlattenIsSequence DEF n
<1> DEFINE g == Grown(c, n)
           m == n + 1
<1> HIDE DEF g, m
<1>9. Chosen(g \o LabelAt(c, m), InsnItems) = Chosen(g, InsnItems)
  BY <1>8, NoInsnsInLabels DEF g, m
<1> QED BY <1>2, <1>6, <1>7, <1>9 DEF l, g, m

\* Labels that are written where they were read change nothing.
Stay(at, L) == \A p \in L : at[p] = p

LEMMA StayingPlaces ==
    ASSUME NEW at, NEW L, Stay(at, L), NEW s \in Seq(Nat), Range(s) \subseteq L
    PROVE  [k \in DOMAIN s |-> at[s[k]]] = s
<1>1. DOMAIN s = 1..Len(s) /\ s = [k \in DOMAIN s |-> s[k]]
  OBVIOUS
<1>2. \A k \in DOMAIN s : at[s[k]] = s[k]
  BY <1>1, RangeOfList DEF Stay
<1> QED BY <1>1, <1>2

LEMMA InsnsComeBack ==
    ASSUME NEW c, Shaped(c), ShortestForms(c), NEW at,
           Stay(at, LabelsIn(LiftedItems(c))), TargetsAreLabels(LiftedItems(c))
    PROVE  LoweredInsns(LiftedItems(c), at) = c.insns
<1> DEFINE items == LiftedItems(c)
           n == Len(c.insns)
           l == LiftedInsns(c)
<1>1. items \in Seq(Items) /\ n \in Nat /\ c.insns \in Seq(Instructions)
  BY LiftedIsList, GroupsAre DEF Shaped
<1>2. Chosen(items, InsnItems) = l /\ l \in Seq(Items) /\ Len(l) = n /\ \A i \in 1..n : l[i] = LiftedInsn(c, i)
  BY <1>1, InsnsOfLifted DEF LiftedInsns
<1> HIDE DEF l
<1>3. Range(l) \subseteq Range(items) /\ LoweredInsns(items, at) = [i \in 1..n |-> LoweredInsn(l[i], at)]
  BY <1>1, <1>2, LoweredInsnsAre
<1> HIDE DEF items
<1>4. ASSUME NEW i \in 1..n PROVE LoweredInsn(l[i], at) = c.insns[i]
  <2> DEFINE x == c.insns[i]
             y == l[i]
  <2>1. x \in Instructions /\ i \in DOMAIN c.insns
    BY <1>1
  <2>2. y.op = x.op /\ y.id = x.id /\ y.targets = x.targets
    <3>1. y = LiftedInsn(c, i)
      BY <1>2
    <3>2. LiftedInsn(c, i) = [op |-> x.op, id |-> x.id, targets |-> x.targets]
      BY DEF LiftedInsn
    <3> HIDE DEF x, y
    <3> QED BY <3>1, <3>2
  <2>3. x.size = Shortest[x.op] /\ x.op # "label"
    BY <2>1, OpsHaveLengths DEF ShortestForms, Instructions
  <2>4. instruction_size(y) = x.size
    BY <2>2, <2>3 DEF instruction_size
  <2>5. y \in Range(items)
    BY <1>2, <1>3, RangeOfList
  <2>6. x.targets \in Seq(Nat) /\ Range(x.targets) \subseteq LabelsIn(items)
    BY <2>1, <2>2, <2>5 DEF TargetsAreLabels, Instructions, items
  <2>7. [k \in DOMAIN x.targets |-> at[x.targets[k]]] = x.targets
    <3> DEFINE t == x.targets
               L == LabelsIn(items)
    <3>1. t \in Seq(Nat) /\ Range(t) \subseteq L /\ Stay(at, L)
      BY <2>6 DEF items
    <3> HIDE DEF t, L
    <3>2. [k \in DOMAIN t |-> at[t[k]]] = t
      BY <3>1, StayingPlaces
    <3> QED BY <3>2 DEF t
  <2>8. x = [op |-> x.op, id |-> x.id, size |-> x.size, targets |-> x.targets]
    BY <2>1 DEF Instructions
  <2>9. LoweredInsn(y, at) = [op |-> x.op, id |-> x.id, size |-> x.size, targets |-> x.targets]
    <3>1. LoweredInsn(y, at) = [op |-> y.op, id |-> y.id, size |-> instruction_size(y),
                                targets |-> [k \in DOMAIN y.targets |-> at[y.targets[k]]]]
      BY DEF LoweredInsn
    <3> HIDE DEF x, y
    <3> QED BY <3>1, <2>2, <2>4, <2>7
  <2> QED BY <2>8, <2>9
<1>5. LoweredInsns(items, at) = [i \in 1..n |-> c.insns[i]]
  BY <1>3, <1>4
<1>6. c.insns = [i \in 1..n |-> c.insns[i]]
  BY <1>1
<1> QED BY <1>5, <1>6 DEF items

LEMMA HandlersComeBack ==
    ASSUME NEW handlers \in Seq(Handlers), NEW at, NEW L, Stay(at, L),
           \A h \in Range(handlers) : {h.start, h.end, h.handler} \subseteq L
    PROVE  LoweredHandlers(handlers, at) = handlers
<1> DEFINE n == Len(handlers)
<1>1. n \in Nat /\ DOMAIN handlers = 1..n /\ handlers = [k \in 1..n |-> handlers[k]]
  OBVIOUS
<1>2. ASSUME NEW k \in 1..n
      PROVE  [id |-> handlers[k].id, start |-> at[handlers[k].start], end |-> at[handlers[k].end],
              handler |-> at[handlers[k].handler]] = handlers[k]
  <2>1. handlers[k] \in Handlers /\ handlers[k] \in Range(handlers)
    BY RangeOfList
  <2> DEFINE h == handlers[k]
  <2>2. h = [id |-> h.id, start |-> h.start, end |-> h.end, handler |-> h.handler]
    BY <2>1 DEF Handlers
  <2>3. at[h.start] = h.start /\ at[h.end] = h.end /\ at[h.handler] = h.handler
    BY <2>1 DEF Stay
  <2> HIDE DEF h
  <2>4. [id |-> h.id, start |-> at[h.start], end |-> at[h.end], handler |-> at[h.handler]] = h
    BY <2>2, <2>3
  <2> QED BY <2>4 DEF h
<1> QED BY <1>1, <1>2 DEF LoweredHandlers

Begins(S, a, b) == \E r \in Seq(S) : b = Joined(a, r)

\* What is chosen from a beginning is a beginning of what is chosen.
LEMMA ChosenBegins ==
    ASSUME NEW S, NEW s \in Seq(S), NEW i \in 0..Len(s), NEW P
    PROVE  Begins(S, Chosen(Upto(s, i), P), Chosen(s, P))
<1> DEFINE u == Upto(s, i)
           v == [k \in 1..(Len(s) - i) |-> s[k + i]]
<1>1. Len(s) \in Nat /\ i \in Nat /\ Len(s) - i \in Nat
  OBVIOUS
<1>2. v \in Seq(S) /\ Len(v) = Len(s) - i /\ \A k \in 1..(Len(s) - i) : v[k] = s[k + i]
  <2>1. \A k \in 1..(Len(s) - i) : k + i \in 1..Len(s)
    BY <1>1
  <2>2. \A k \in 1..(Len(s) - i) : s[k + i] \in S
    BY <2>1
  <2> QED BY <1>1, <2>2
<1>3. u \in Seq(S) /\ Len(u) = i
  BY UptoFacts
<1>4. \A k \in 1..i : u[k] = s[k]
  BY <1>1 DEF Upto
<1> HIDE DEF u, v
<1>5. s = Joined(u, v)
  <2> DEFINE w == u \o v
  <2>1. /\ w \in Seq(S) /\ Len(w) = Len(s)
        /\ \A k \in 1..i : w[k] = u[k]
        /\ \A k \in (i + 1)..(i + Len(v)) : w[k] = v[k - i]
    <3>1. v \in Seq(S) /\ u \in Seq(S)
      BY <1>2, <1>3
    <3>2. /\ w \in Seq(S) /\ Len(w) = Len(u) + Len(v)
          /\ \A k \in 1..Len(u) : w[k] = u[k]
          /\ \A k \in (Len(u) + 1)..(Len(u) + Len(v)) : w[k] = v[k - Len(u)]
      BY <3>1, ConcatElements
    <3> HIDE DEF w
    <3>3. Len(u) = i /\ Len(v) = Len(s) - i /\ i + (Len(s) - i) = Len(s)
      BY <1>1, <1>2, <1>3
    <3> QED BY <3>2, <3>3
  <2> HIDE DEF w
  <2>2. ASSUME NEW k \in 1..Len(s) PROVE s[k] = w[k]
    <3>1. CASE k <= i
      <4>1. k \in 1..i
        BY <3>1, <1>1
      <4> QED BY <4>1, <2>1, <1>4
    <3>2. CASE ~(k <= i)
      <4>1. k \in (i + 1)..(i + Len(v)) /\ k - i \in 1..(Len(s) - i) /\ (k - i) + i = k
        BY <3>2, <1>1, <1>2
      <4>2. v[k - i] = s[(k - i) + i]
        BY <4>1, <1>2
      <4>3. w[k] = v[k - i]
        BY <4>1, <2>1
      <4> QED BY <4>1, <4>2, <4>3
    <3> QED BY <3>1, <3>2
  <2>3. s = w
    BY <2>1, <2>2, EqualLists
  <2> QED BY <2>3 DEF w, Joined
<1>6. Chosen(Joined(u, v), P) = Joined(Chosen(u, P), Chosen(v, P))
  BY <1>2, <1>3, ChosenJoined
<1>7. Chosen(v, P) \in Seq(S)
  BY <1>2, ChosenIsList
<1> QED BY <1>5, <1>6, <1>7 DEF u, Begins

\* Of two endings of the same, the next element is the same.
LEMMA NextIsHead ==
    ASSUME NEW S, NEW a \in Seq(S), NEW b \in Seq(S), NEW r \in Seq(S), NEW x \in S,
           Joined(a, b) = Joined(Append(a, x), r)
    PROVE  b # <<>> /\ Head(b) = x
<1> DEFINE n == Len(a)
           c == Append(a, x)
           p == a \o b
           q == c \o r
<1>1. p = q
  BY DEF Joined
<1>2. c \in Seq(S) /\ Len(c) = n + 1 /\ c[n + 1] = x
  BY AppendElements
<1>3. Len(p) = n + Len(b) /\ \A i \in (n + 1)..(n + Len(b)) : p[i] = b[i - n]
  BY ConcatElements
<1> HIDE DEF c
<1>4. Len(q) = Len(c) + Len(r) /\ \A i \in 1..Len(c) : q[i] = c[i]
  BY <1>2, ConcatElements
<1> HIDE DEF p, q
<1>5. n \in Nat /\ Len(b) \in Nat /\ Len(r) \in Nat
  OBVIOUS
<1> HIDE DEF n
<1>6. Len(b) = Len(r) + 1
  BY <1>1, <1>2, <1>3, <1>4, <1>5
<1>7. n + 1 \in (n + 1)..(n + Len(b)) /\ (n + 1) - n = 1 /\ n + 1 \in 1..Len(c)
  BY <1>2, <1>5, <1>6
<1>8. b[1] = x
  BY <1>1, <1>2, <1>3, <1>4, <1>7
<1> QED BY <1>5, <1>6, <1>8

LEMMA NothingLeft ==
    ASSUME NEW S, NEW a \in Seq(S), NEW b \in Seq(S), Joined(a, b) = a PROVE b = <<>>
<1>1. Len(a \o b) = Len(a) + Len(b) /\ Len(a) \in Nat /\ Len(b) \in Nat
  OBVIOUS
<1>2. Len(a \o b) = Len(a)
  BY DEF Joined
<1>3. Len(b) = 0
  BY <1>1, <1>2
<1> QED BY <1>3

\* The first i attributes are placed as they were read, and of each kind what is not
\* yet placed is there to be placed.
OtherAttributes == IsNotOf(DebugKinds)

Back(attrs, i, acc) ==
    /\ acc \in Placements(Attributes) /\ acc.out = Upto(attrs, i)
    /\ OthersApart(Attributes, OtherAttributes, acc)
    /\ Shown(acc, OtherAttributes) = Chosen(attrs, OtherAttributes)
    /\ \A own \in DebugKinds :
        /\ OwnApart(Attributes, IsOf({own}), own, acc)
        /\ ShownOwn(acc, IsOf({own}), own) = Chosen(attrs, IsOf({own}))

Preserving(recompute) == ~recompute

LEMMA BackStep ==
    ASSUME NEW attrs \in Seq(Attributes), \A own \in DebugKinds : Len(Chosen(attrs, IsOf({own}))) <= 1,
           NEW i \in 1..Len(attrs), NEW acc, Back(attrs, i - 1, acc), NEW recompute, Preserving(recompute)
    PROVE  Back(attrs, i, Place(acc, attrs[i].kind, recompute))
<1> DEFINE A == Attributes
           P == OtherAttributes
           x == attrs[i]
           r == Place(acc, x.kind, recompute)
           u == Upto(attrs, i - 1)
<1>1. acc \in Placements(A) /\ acc.out = u /\ OthersApart(A, P, acc) /\ Shown(acc, P) = Chosen(attrs, P)
  BY DEF Back
<1>2. ASSUME NEW own \in DebugKinds
      PROVE  OwnApart(A, IsOf({own}), own, acc) /\ ShownOwn(acc, IsOf({own}), own) = Chosen(attrs, IsOf({own}))
  BY DEF Back
<1>3. i \in 0..Len(attrs) /\ u \in Seq(A) /\ Upto(attrs, i) = Append(u, x) /\ x \in A
  <2>1. i \in 0..Len(attrs) /\ i - 1 \in 0..Len(attrs) /\ x \in A
    OBVIOUS
  <2>2. Upto(attrs, i) = Append(u, x)
    BY UptoFacts
  <2> HIDE DEF A
  <2>3. \A j \in 0..Len(attrs) : Upto(attrs, j) \in Seq(A)
    BY UptoFacts DEF A
  <2> QED BY <2>1, <2>2, <2>3
<1>4. DebugKinds \subseteq TableKinds
  BY DEF TableKinds
<1> HIDE DEF u
<1>5. r \in Placements(A)
  <2>1. acc \in Placements(A)
    BY <1>1
  <2> HIDE DEF x
  <2> QED BY <2>1, PlaceIsTyped
<1>6. OthersApart(A, P, r) /\ Shown(r, P) = Chosen(attrs, P)
  <2> HIDE DEF x, P
  <2> QED BY <1>1, PlaceKeepsOthers
<1>7. ASSUME NEW own \in DebugKinds
      PROVE  OwnApart(A, IsOf({own}), own, r) /\ ShownOwn(r, IsOf({own}), own) = Chosen(attrs, IsOf({own}))
  <2> DEFINE Q == IsOf({own})
  <2>1. OwnApart(A, Q, own, acc) /\ ShownOwn(acc, Q, own) = Chosen(attrs, Q) /\ own \in TableKinds
    BY <1>2, <1>4
  <2> HIDE DEF x, Q
  <2>2. OwnApart(A, Q, own, r) /\ ShownOwn(r, Q, own) = Chosen(attrs, Q)
    BY <1>1, <2>1, PlaceKeepsOwn
  <2> QED BY <2>2 DEF Q
<1>8. ASSUME NEW Q, x \in Q, NEW b \in Seq(A), Joined(Chosen(u, Q), b) = Chosen(attrs, Q)
      PROVE  b # <<>> /\ Head(b) = x
  <2> DEFINE v == Upto(attrs, i)
  <2>1. PICK t \in Seq(A) : Chosen(attrs, Q) = Joined(Chosen(v, Q), t)
    <3>1. Begins(A, Chosen(v, Q), Chosen(attrs, Q))
      BY <1>3, ChosenBegins
    <3> QED BY <3>1 DEF Begins
  <2>2. Chosen(v, Q) = Append(Chosen(u, Q), x)
    <3> HIDE DEF x
    <3>1. Chosen(Append(u, x), Q) = Append(Chosen(u, Q), x)
      BY <1>3, <1>8, ChosenMore
    <3> QED BY <3>1, <1>3
  <2>3. Chosen(u, Q) \in Seq(A)
    BY <1>3, ChosenIsList
  <2> DEFINE a == Chosen(u, Q)
  <2> HIDE DEF x, v, a
  <2>4. Joined(a, b) = Joined(Append(a, x), t)
    BY <1>8, <2>1, <2>2 DEF a
  <2>5. a \in Seq(A) /\ x \in A
    BY <1>3, <2>3 DEF a
  <2> QED BY <2>4, <2>5, NextIsHead
<1>9. r.out = Upto(attrs, i)
  <2>1. CASE x.kind \notin DebugKinds
    <3>1. x \in P
      BY <1>3, <2>1 DEF OtherAttributes, IsNotOf
    <3>2. acc.others \in Seq(A) /\ Joined(Chosen(u, P), acc.others) = Chosen(attrs, P)
      BY <1>1, AllInOwn DEF OthersApart, Shown
    <3>3. acc.others # <<>> /\ Head(acc.others) = x
      <4> HIDE DEF P
      <4> QED BY <1>8, <3>1, <3>2
    <3>4. r = [acc EXCEPT !.out = Append(@, Head(acc.others)), !.others = Tail(@)]
      BY <2>1, <3>3 DEF Place, Preserving
    <3>5. r.out = Append(acc.out, Head(acc.others))
      BY <1>1, <3>4 DEF Placements
    <3> QED BY <1>1, <1>3, <3>3, <3>5
  <2>2. CASE x.kind \in DebugKinds
    <3> DEFINE own == x.kind
               Q == IsOf({own})
               t == acc.tables[own]
    <3>1. x \in Q
      BY <1>3 DEF IsOf
    <3>2. t \in Seq(A) /\ Joined(Chosen(u, Q), t) = Chosen(attrs, Q)
      <4>1. OwnApart(A, Q, own, acc) /\ ShownOwn(acc, Q, own) = Chosen(attrs, Q)
        BY <1>2, <2>2
      <4>2. t \in Seq(A \cap Q)
        BY <4>1 DEF OwnApart
      <4> HIDE DEF Q, own
      <4>3. t \in Seq(A)
        BY <4>2, AllInOwn
      <4> QED BY <4>1, <4>3, <1>1 DEF ShownOwn
    <3>3. Len(Chosen(attrs, Q)) <= 1
      BY <2>2
    <3> HIDE DEF Q, t
    <3>4. t # <<>> /\ Head(t) = x
      BY <1>8, <3>1, <3>2
    <3>5. t = <<x>>
      <4> DEFINE a == Chosen(u, Q)
      <4>1. a \in Seq(A)
        BY <1>3, ChosenIsList
      <4> HIDE DEF a
      <4>2. Len(a \o t) = Len(a) + Len(t) /\ Len(a) \in Nat /\ Len(t) \in Nat /\ Len(t) # 0
        BY <4>1, <3>2, <3>4
      <4>3. Len(a \o t) <= 1
        BY <3>2, <3>3 DEF Joined, a
      <4> DEFINE m == Len(a \o t)
      <4> HIDE DEF m
      <4>4. Len(t) = 1
        <5>1. m = Len(a) + Len(t) /\ m <= 1
          BY <4>2, <4>3 DEF m
        <5> QED BY <5>1, <4>2
      <4> QED BY <4>4, <3>2, <3>4
    <3>6. r = [acc EXCEPT !.out = @ \o acc.tables[own], !.tables[own] = <<>>]
      BY <2>2 DEF Place
    <3>7. r.out = acc.out \o t
      BY <1>1, <3>6 DEF Placements, t
    <3>8. u \o <<x>> = Append(u, x)
      BY <1>3
    <3> QED BY <1>1, <1>3, <3>5, <3>7, <3>8
  <2> QED BY <2>1, <2>2
<1> QED BY <1>5, <1>6, <1>7, <1>9 DEF Back

\* Attributes that are read come back, when there is at most one table of a kind.
TablesRead(attrs, tables) ==
    /\ tables \in [TableKinds -> Seq(Attributes)] /\ tables["frames"] = <<>>
    /\ \A kind \in DebugKinds : tables[kind] = OfKind(attrs, {kind}) /\ Len(tables[kind]) <= 1

LEMMA AttributesComeBack ==
    ASSUME NEW attrs \in Seq(Attributes), NEW tables, TablesRead(attrs, tables),
           NEW recompute, Preserving(recompute)
    PROVE  lower_nested_attributes(Kinds(attrs), NotOfKind(attrs, DebugKinds), tables, recompute) = attrs
<1> DEFINE A == Attributes
           P == OtherAttributes
           n == Len(attrs)
           layout == Kinds(attrs)
           others == NotOfKind(attrs, DebugKinds)
<1>1. n \in Nat /\ DOMAIN attrs = 1..n /\ \A i \in 1..n : attrs[i] \in Attributes
  OBVIOUS
<1>2. layout \in Seq(AttributeKinds) /\ Len(layout) = n /\ \A i \in 1..n : layout[i] = attrs[i].kind
  BY <1>1 DEF Kinds, Attributes
<1>3. others = Chosen(attrs, P) /\ others \in Seq(A) /\ others \in Seq(P)
  BY OfKindIsChosen, OfKindElements DEF OtherAttributes
<1>4. tables \in [TableKinds -> Seq(A)] /\ tables["frames"] = <<>>
      /\ \A kind \in DebugKinds : tables[kind] = Chosen(attrs, IsOf({kind})) /\ tables[kind] \in Seq(IsOf({kind}))
                                  /\ Len(tables[kind]) <= 1
  BY OfKindIsChosen, OfKindElements DEF TablesRead
<1>5. Remaining(others, recompute) = others
  BY DEF Remaining, Preserving
<1> HIDE DEF layout, others
<1>6. PICK f : /\ Placing(A, layout, others, tables, recompute, f)
               /\ lower_nested_attributes(layout, others, tables, recompute) = Leaving(f[Len(layout)])
  <2> HIDE DEF A
  <2>1. Remaining(others, recompute) \in Seq(A)
    BY <1>3, <1>5
  <2>2. PICK f : /\ Placing(A, layout, Remaining(others, recompute), tables, recompute, f)
                 /\ lower_nested_attributes(layout, others, tables, recompute) = Leaving(f[Len(layout)])
    <3>1. layout \in Seq(AttributeKinds) /\ tables \in [TableKinds -> Seq(A)]
      BY <1>2, <1>4
    <3> QED BY <3>1, <2>1, PlacingSteps
  <2> QED BY <2>2, <1>5
<1> DEFINE first == [out |-> <<>>, others |-> others, tables |-> tables]
           N == {i \in 0..n : Back(attrs, i, f[i])}
<1>7. /\ f[0] = first /\ f \in [0..n -> Placements(A)]
      /\ \A i \in 1..n : f[i] = Place(f[i - 1], layout[i], recompute)
  BY <1>2, <1>6 DEF Placing
<1>8. Back(attrs, 0, first)
  <2>1. first.out = <<>> /\ first.others = others /\ first.tables = tables
    OBVIOUS
  <2>2. first \in Placements(A)
    <3>1. 0 \in 0..n
      BY <1>1
    <3> QED BY <3>1, <1>7
  <2>3. Upto(attrs, 0) = <<>>
    BY UptoFacts
  <2> HIDE DEF first
  <2>4. OthersApart(A, P, first)
    <3>1. P \subseteq A \cap P
      BY DEF OtherAttributes, IsNotOf
    <3>2. others \in Seq(A \cap P)
      <4> HIDE DEF A, P
      <4> QED BY <3>1, <1>3, SeqMonotonic
    <3>3. ASSUME NEW kind \in TableKinds PROVE tables[kind] \in Seq(A \ P)
      <4>1. CASE kind = "frames"
        BY <4>1, <1>4
      <4>2. CASE kind # "frames"
        <5>1. kind \in DebugKinds
          BY <4>2 DEF TableKinds
        <5>2. IsOf({kind}) \subseteq A \ P
          BY <5>1 DEF OtherAttributes, IsOf, IsNotOf
        <5> HIDE DEF A, P
        <5> QED BY <5>1, <5>2, <1>4, SeqMonotonic
      <4> QED BY <4>1, <4>2
    <3> HIDE DEF A, P
    <3> QED BY <2>1, <3>2, <3>3, <1>4 DEF OthersApart
  <2>5. Shown(first, P) = Chosen(attrs, P)
    <3>1. Chosen(<<>>, P) = <<>>
      BY ChosenNothing
    <3>2. Joined(<<>>, others) = others
      BY <1>3, JoinedNothing
    <3> QED BY <2>1, <3>1, <3>2, <1>3 DEF Shown
  <2>6. ASSUME NEW own \in DebugKinds
        PROVE  OwnApart(A, IsOf({own}), own, first) /\ ShownOwn(first, IsOf({own}), own) = Chosen(attrs, IsOf({own}))
    <3> DEFINE Q == IsOf({own})
    <3>1. tables[own] \in Seq(A \cap Q)
      <4>1. Q \subseteq A \cap Q
        BY DEF IsOf
      <4> HIDE DEF A
      <4> QED BY <4>1, <1>4, SeqMonotonic
    <3>2. others \in Seq(A \ Q)
      <4>1. P \subseteq A \ Q
        BY <2>6 DEF OtherAttributes, IsOf, IsNotOf
      <4> HIDE DEF A, Q, P
      <4> QED BY <4>1, <1>3, SeqMonotonic
    <3>3. ASSUME NEW kind \in TableKinds \ {own} PROVE tables[kind] \in Seq(A \ Q)
      <4>1. CASE kind = "frames"
        BY <4>1, <1>4
      <4>2. CASE kind # "frames"
        <5>1. kind \in DebugKinds
          BY <4>2 DEF TableKinds
        <5>2. IsOf({kind}) \subseteq A \ Q
          BY DEF IsOf
        <5> HIDE DEF A, Q
        <5> QED BY <5>1, <5>2, <1>4, SeqMonotonic
      <4> QED BY <4>1, <4>2
    <3>4. Chosen(<<>>, Q) = <<>>
      BY ChosenNothing
    <3>5. tables[own] \in Seq(A)
      BY <1>4 DEF TableKinds
    <3>6. Joined(<<>>, tables[own]) = tables[own]
      BY <3>5, JoinedNothing
    <3> HIDE DEF A, Q
    <3>7. OwnApart(A, Q, own, first)
      BY <2>1, <3>1, <3>2, <3>3 DEF OwnApart
    <3>8. ShownOwn(first, Q, own) = Chosen(attrs, Q)
      BY <2>1, <3>4, <3>6, <1>4 DEF ShownOwn, Q
    <3> QED BY <3>7, <3>8 DEF Q
  <2> QED BY <2>1, <2>2, <2>3, <2>4, <2>5, <2>6 DEF Back
<1>9. 0 \in N
  BY <1>1, <1>7, <1>8
<1>10. ASSUME NEW i \in 1..n, i - 1 \in N PROVE i \in N
  <2>1. i \in 0..n /\ f[i] = Place(f[i - 1], attrs[i].kind, recompute)
    BY <1>1, <1>2, <1>7
  <2>2. Back(attrs, i - 1, f[i - 1])
    BY <1>10
  <2>3. \A own \in DebugKinds : Len(Chosen(attrs, IsOf({own}))) <= 1
    BY <1>4
  <2> DEFINE acc == f[i - 1]
  <2> HIDE DEF acc
  <2>4. Back(attrs, i, Place(acc, attrs[i].kind, recompute))
    BY <2>2, <2>3, BackStep DEF acc
  <2> QED BY <2>1, <2>4 DEF acc
<1> HIDE DEF N
<1>11. 0..n \subseteq N
  BY <1>1, <1>9, <1>10, UpTo
<1> DEFINE acc == f[n]
<1>12. Back(attrs, n, acc)
  <2>1. n \in 0..n
    BY <1>1
  <2> QED BY <2>1, <1>11 DEF N
<1> HIDE DEF acc
<1>13. acc.out = attrs /\ acc \in Placements(A)
  BY <1>12, UptoFacts DEF Back
<1>14. acc.others = <<>>
  <2>1. Joined(Chosen(attrs, P), acc.others) = Chosen(attrs, P)
    BY <1>12, <1>13 DEF Back, Shown
  <2>2. acc.others \in Seq(A)
    BY <1>13 DEF Placements
  <2> DEFINE a == Chosen(attrs, P)
  <2>3. a \in Seq(A)
    BY <1>3
  <2> HIDE DEF a, A
  <2> QED BY <2>1, <2>2, <2>3, NothingLeft DEF a
<1>15. ASSUME NEW own \in DebugKinds PROVE acc.tables[own] = <<>>
  <2> DEFINE a == Chosen(attrs, IsOf({own}))
             b == acc.tables[own]
  <2>1. Joined(a, b) = a
    BY <1>12, <1>13 DEF Back, ShownOwn
  <2>2. a \in Seq(A) /\ b \in Seq(A)
    BY <1>13, ChosenIsList DEF Placements, TableKinds
  <2> HIDE DEF a, b, A
  <2>3. b = <<>>
    BY <2>1, <2>2, NothingLeft
  <2> QED BY <2>3 DEF b
<1>16. acc.tables["frames"] = <<>>
  <2> DEFINE M == {i \in 0..n : f[i].tables["frames"] = <<>>}
  <2>1. 0 \in M
    BY <1>1, <1>4, <1>7
  <2>2. ASSUME NEW i \in 1..n, i - 1 \in M PROVE i \in M
    <3>1. i \in 0..n /\ i - 1 \in 0..n /\ f[i] = Place(f[i - 1], layout[i], recompute)
      BY <1>1, <1>7
    <3> DEFINE p == f[i - 1]
               kind == layout[i]
    <3>2. p \in Placements(A) /\ p.tables["frames"] = <<>>
      BY <2>2, <3>1, <1>7
    <3> HIDE DEF p, kind
    <3>3. Place(p, kind, recompute).tables["frames"] = <<>>
      <4>1. CASE kind \notin DebugKinds
        BY <4>1, <3>2 DEF Place, Placements, Preserving
      <4>2. CASE kind \in DebugKinds
        <5>1. Place(p, kind, recompute) = [p EXCEPT !.out = @ \o p.tables[kind], !.tables[kind] = <<>>]
          BY <4>2 DEF Place
        <5> QED BY <4>2, <5>1, <3>2 DEF Placements, DebugKinds
      <4> QED BY <4>1, <4>2
    <3> QED BY <3>1, <3>3 DEF p, kind
  <2> HIDE DEF M
  <2>3. 0..n \subseteq M
    BY <1>1, <2>1, <2>2, UpTo
  <2>4. n \in 0..n
    BY <1>1
  <2> QED BY <2>3, <2>4 DEF M, acc
<1>17. Leaving(acc) = attrs
  <2>1. Leaving(acc) = attrs \o <<>> \o <<>> \o <<>> \o <<>> \o <<>>
    BY <1>13, <1>14, <1>15, <1>16 DEF Leaving, DebugKinds
  <2>2. attrs \o <<>> = attrs
    OBVIOUS
  <2> QED BY <2>1, <2>2
<1> QED BY <1>2, <1>6, <1>17 DEF acc, layout, others

LEMMA RangesOfFew == Range(<<>>) = {} /\ \A t : Len(<<t>>) = 1 /\ Range(<<t>>) = {t}
<1>1. Range(<<>>) = {}
  <2>1. DOMAIN <<>> = {}
    OBVIOUS
  <2> QED BY <2>1 DEF Range
<1>2. ASSUME NEW t PROVE Len(<<t>>) = 1 /\ Range(<<t>>) = {t}
  <2> DEFINE s == <<t>>
  <2>1. DOMAIN s = {1} /\ s[1] = t /\ Len(s) = 1
    OBVIOUS
  <2> HIDE DEF s
  <2>2. Range(s) = {t}
    BY <2>1 DEF Range
  <2> QED BY <2>1, <2>2 DEF s
<1> QED BY <1>1, <1>2

LEMMA OneIsFirst ==
    ASSUME NEW S, NEW s \in Seq(S), Len(s) <= 1, s # <<>>
    PROVE  Len(s) = 1 /\ s = <<s[1]>> /\ Last(s) = s[1] /\ s[1] \in S
<1>1. Len(s) \in Nat /\ Len(s) # 0
  OBVIOUS
<1>2. Len(s) = 1
  <2> DEFINE n == Len(s)
  <2>1. n \in Nat /\ n # 0 /\ n <= 1
    BY <1>1
  <2> HIDE DEF n
  <2>2. n = 1
    BY <2>1
  <2> QED BY <2>2 DEF n
<1> QED BY <1>2 DEF Last

LEMMA LoweredIsSettled ==
    ASSUME NEW model \in Models, NEW strip, NEW recompute, NEW frames \in Seq(FrameTables),
           Referenced(model, strip) \subseteq LabelsIn(model.items), FramesGiven(frames, recompute),
           NEW low, low = Lowered(model, strip, frames, recompute)
    PROVE  Settled(low)
<1> DEFINE at == compute_label_offsets(model.items)
           c == Chosen(model.items, InsnItems)
<1>1. ShortestForms(low)
  <2>1. /\ c \in Seq(InsnItems)
        /\ LoweredInsns(model.items, at) = [i \in 1..Len(c) |-> LoweredInsn(c[i], at)]
    BY ModelFields, LoweredInsnsAre
  <2>2. low.insns = LoweredInsns(model.items, at)
    BY LoweredIs
  <2> HIDE DEF c, at
  <2>3. ASSUME NEW i \in 1..Len(c) PROVE LoweredInsn(c[i], at).size = Shortest[LoweredInsn(c[i], at).op]
    <3> DEFINE x == c[i]
    <3>1. x.op # "label"
      BY <2>1 DEF InsnItems
    <3> HIDE DEF x
    <3>2. LoweredInsn(x, at).size = instruction_size(x) /\ LoweredInsn(x, at).op = x.op
      BY DEF LoweredInsn
    <3>3. instruction_size(x) = Shortest[x.op]
      BY <3>1 DEF instruction_size
    <3> QED BY <3>2, <3>3 DEF x
  <2>4. DOMAIN low.insns = 1..Len(c) /\ \A i \in 1..Len(c) : low.insns[i] = LoweredInsn(c[i], at)
    BY <2>1, <2>2
  <2> QED BY <2>3, <2>4 DEF ShortestForms
<1>2. ASSUME NEW kind \in DebugKinds
      PROVE  Len(OfKind(low.attrs, {kind})) <= 1 /\ \A table \in Range(OfKind(low.attrs, {kind})) : table.at # <<>>
  <2>1. OfKind(low.attrs, {kind}) = LoweredTable(model, kind, strip, at)
    <3>1. KeepsAttributes(model, strip, frames, recompute, low)
      BY LoweredKeepsAttributes
    <3> QED BY <3>1 DEF KeepsAttributes
  <2> HIDE DEF at
  <2> DEFINE s == model.tables[kind]
  <2>2. s \in Seq(Nat)
    BY ModelFields
  <2>3. CASE strip_debug_info(model, strip) \/ s = <<>>
    <3>1. LoweredTable(model, kind, strip, at) = <<>>
      BY <2>3 DEF LoweredTable
    <3> DEFINE q == OfKind(low.attrs, {kind})
               e == <<>>
    <3>2. Len(e) <= 1 /\ Range(e) = {}
      BY RangesOfFew
    <3>3. q = e
      BY <2>1, <3>1
    <3> HIDE DEF q, e
    <3> QED BY <3>2, <3>3 DEF q
  <2>4. CASE ~(strip_debug_info(model, strip) \/ s = <<>>)
    <3> DEFINE t == [kind |-> kind, at |-> [k \in DOMAIN s |-> at[s[k]]]]
    <3>1. LoweredTable(model, kind, strip, at) = <<t>>
      BY <2>4 DEF LoweredTable
    <3>2. t.at # <<>>
      <4> DEFINE r == [k \in DOMAIN s |-> at[s[k]]]
      <4>1. DOMAIN s = 1..Len(s) /\ Len(s) \in Nat /\ Len(s) # 0
        BY <2>2, <2>4
      <4> HIDE DEF s
      <4>2. 1 \in DOMAIN s /\ DOMAIN r = DOMAIN s
        BY <4>1
      <4>3. DOMAIN <<>> = {}
        OBVIOUS
      <4> HIDE DEF r
      <4>4. r # <<>>
        BY <4>2, <4>3
      <4>5. t.at = r
        BY DEF r
      <4> QED BY <4>4, <4>5
    <3> HIDE DEF t
    <3> DEFINE q == OfKind(low.attrs, {kind})
               e == <<t>>
    <3>3. Len(e) = 1 /\ Range(e) = {t}
      BY Zenon, RangesOfFew
    <3>4. q = e
      BY <2>1, <3>1
    <3> HIDE DEF q, e
    <3>5. Len(q) <= 1 /\ \A table \in Range(q) : table = t
      <4>1. 1 <= 1
        OBVIOUS
      <4> QED BY <3>3, <3>4, <4>1
    <3>6. \A table \in Range(q) : table.at # <<>>
      BY <3>2, <3>5
    <3> QED BY <3>5, <3>6 DEF q
  <2> QED BY <2>3, <2>4
<1> QED BY <1>1, <1>2 DEF Settled

\* A table that is read is written as it was.
LEMMA TableComesBack ==
    ASSUME NEW attrs \in Seq(Attributes), NEW kind \in DebugKinds, NEW at, NEW L, Stay(at, L),
           Len(OfKind(attrs, {kind})) <= 1, \A table \in Range(OfKind(attrs, {kind})) : table.at # <<>>,
           Range(Table(attrs, kind)) \subseteq L, NEW model, NEW strip,
           ~strip_debug_info(model, strip), model.tables[kind] = Table(attrs, kind)
    PROVE  LoweredTable(model, kind, strip, at) = OfKind(attrs, {kind})
<1> DEFINE T == OfKind(attrs, {kind})
           s == Table(attrs, kind)
           r == [k \in DOMAIN s |-> at[s[k]]]
<1>1. T \in Seq(IsOf({kind})) /\ s = IF T = <<>> THEN <<>> ELSE Last(T).at
  BY OfKindElements DEF Table
<1>2. LoweredTable(model, kind, strip, at) = IF s = <<>> THEN <<>> ELSE <<[kind |-> kind, at |-> r]>>
  BY DEF LoweredTable
<1> HIDE DEF T
<1>3. CASE T = <<>>
  BY <1>1, <1>2, <1>3 DEF T
<1>4. CASE T # <<>>
  <2> DEFINE t == T[1]
  <2>1. Len(T) = 1 /\ T = <<t>> /\ Last(T) = t /\ t \in IsOf({kind}) /\ t \in Range(T)
    <3>1. Len(T) <= 1
      BY DEF T
    <3>2. Len(T) = 1 /\ T = <<t>> /\ Last(T) = t /\ t \in IsOf({kind})
      BY <3>1, <1>1, <1>4, OneIsFirst
    <3> HIDE DEF t
    <3>3. t \in Range(T)
      BY <3>2, RangesOfFew
    <3> QED BY <3>2, <3>3
  <2>2. t.kind = kind /\ t.at \in Seq(Nat) /\ t = [kind |-> t.kind, at |-> t.at]
    BY <2>1 DEF IsOf, Attributes
  <2>3. t.at # <<>>
    BY <2>1 DEF T
  <2>4. s = t.at
    BY <1>1, <1>4, <2>1
  <2> HIDE DEF t, s
  <2>5. s \in Seq(Nat) /\ Range(s) \subseteq L
    BY <2>2, <2>4 DEF s
  <2>6. r = s
    BY <2>5, StayingPlaces
  <2> HIDE DEF r
  <2>7. <<[kind |-> kind, at |-> r]>> = <<t>>
    BY <2>2, <2>4, <2>6
  <2> QED BY <1>2, <2>1, <2>3, <2>4, <2>7 DEF T, s, r
<1> QED BY <1>3, <1>4

\* Settled code that is read and not edited is written as it was.
LEMMA SettledComesBack ==
    ASSUME NEW c, Shaped(c), Settled(c), NEW model, model = lift_code_model(c), NEW strip, strip = FALSE,
           Referenced(model, strip) \subseteq LabelsIn(model.items), NEW recompute, Preserving(recompute)
    PROVE  Lowered(model, strip, <<>>, recompute) = c
<1> DEFINE at == compute_label_offsets(model.items)
           L == LabelsIn(model.items)
           tables == TablesOf(model, <<>>, strip, at)
           low == Lowered(model, strip, <<>>, recompute)
<1>1. /\ model.items = LiftedItems(c) /\ model.handlers = c.handlers
      /\ model.tables = [kind \in DebugKinds |-> Table(c.attrs, kind)]
      /\ model.attributes = NotOfKind(c.attrs, DebugKinds) /\ model.layout = Kinds(c.attrs)
      /\ ~strip_debug_info(model, strip)
  BY DEF lift_code_model, strip_debug_info
<1>2. c.attrs \in Seq(Attributes) /\ c.handlers \in Seq(Handlers)
      /\ c = [insns |-> c.insns, handlers |-> c.handlers, attrs |-> c.attrs]
  BY DEF Shaped
<1>3. Stay(at, L)
  <2>1. Stands(model.items, Offsets(c.insns)[Len(c.insns) + 1])
    BY <1>1, LiftedStands DEF Settled
  <2>2. \A l \in LabelsIn(model.items) : compute_label_offsets(model.items)[l] = l
    BY <2>1, LabelsStay
  <2> QED BY <2>2 DEF Stay
<1>4. TargetsAreLabels(model.items)
      /\ (\A h \in Range(model.handlers) : {h.start, h.end, h.handler} \subseteq L)
      /\ (\A kind \in DebugKinds : Range(model.tables[kind]) \subseteq L)
  BY <1>1, ReferencesAre
<1>5. /\ low.insns = LoweredInsns(model.items, at) /\ low.handlers = LoweredHandlers(model.handlers, at)
      /\ low.attrs = lower_nested_attributes(model.layout, model.attributes, tables, recompute)
      /\ low = [insns |-> low.insns, handlers |-> low.handlers, attrs |-> low.attrs]
  BY LoweredIs
<1> HIDE DEF at, low
<1>6. low.insns = c.insns
  <2>1. Stay(at, LabelsIn(LiftedItems(c))) /\ TargetsAreLabels(LiftedItems(c)) /\ ShortestForms(c)
    BY <1>1, <1>3, <1>4 DEF Settled
  <2> QED BY <1>1, <1>5, <2>1, InsnsComeBack
<1>7. low.handlers = c.handlers
  <2> HIDE DEF L
  <2> QED BY <1>1, <1>2, <1>3, <1>4, <1>5, HandlersComeBack
<1>8. TablesRead(c.attrs, tables)
  <2>1. ASSUME NEW kind \in DebugKinds
        PROVE  LoweredTable(model, kind, strip, at) = OfKind(c.attrs, {kind}) /\ Len(OfKind(c.attrs, {kind})) <= 1
               /\ OfKind(c.attrs, {kind}) \in Seq(Attributes)
    <3>1. /\ Len(OfKind(c.attrs, {kind})) <= 1
          /\ \A table \in Range(OfKind(c.attrs, {kind})) : table.at # <<>>
      BY DEF Settled
    <3>2. model.tables[kind] = Table(c.attrs, kind) /\ Range(Table(c.attrs, kind)) \subseteq L
      BY <1>1, <1>4
    <3> HIDE DEF L
    <3>3. LoweredTable(model, kind, strip, at) = OfKind(c.attrs, {kind})
      BY <1>1, <1>2, <1>3, <3>1, <3>2, TableComesBack
    <3> QED BY <3>1, <3>3, <1>2, OfKindElements
  <2>2. tables["frames"] = <<>>
    BY DEF TablesOf, TableKinds
  <2>3. \A kind \in DebugKinds : tables[kind] = LoweredTable(model, kind, strip, at)
    BY DEF TablesOf, TableKinds, DebugKinds
  <2>4. tables = [kind \in TableKinds |-> tables[kind]]
    BY DEF TablesOf
  <2> HIDE DEF tables
  <2>5. \A kind \in TableKinds : kind = "frames" \/ kind \in DebugKinds
    BY DEF TableKinds
  <2>6. \A kind \in TableKinds : tables[kind] \in Seq(Attributes)
    <3>1. <<>> \in Seq(Attributes)
      OBVIOUS
    <3> QED BY <3>1, <2>1, <2>2, <2>3, <2>5
  <2>7. tables \in [TableKinds -> Seq(Attributes)]
    BY <2>4, <2>6
  <2> QED BY <2>1, <2>2, <2>3, <2>7 DEF TablesRead
<1> HIDE DEF tables
<1>9. low.attrs = c.attrs
  BY <1>1, <1>2, <1>5, <1>8, AttributesComeBack
<1> QED BY <1>2, <1>5, <1>6, <1>7, <1>9 DEF low

RoundTripIsExactNext ==
    writes' # writes =>
        /\ Settled(file')
        /\ code = lift_code_model(origin) /\ wrote' = [frames |-> "preserved", strip |-> FALSE]
           /\ Settled(origin) => file' = origin

LEMMA WritesRoundTrip ==
    ASSUME WritingInvariant, [Next]_vars PROVE RoundTripIsExactNext
<1> SUFFICES ASSUME writes' # writes
             PROVE  /\ Settled(file')
                    /\ (code = lift_code_model(origin) /\ wrote' = [frames |-> "preserved", strip |-> FALSE]
                        /\ Settled(origin)) => file' = origin
  BY DEF RoundTripIsExactNext
<1>1. TypeInvariant
  BY DEF WritingInvariant
<1>2. Write
  BY <1>1, StepsThatWrite
<1>3. PICK strip \in BOOLEAN, recompute \in BOOLEAN, frames \in Seq(FrameTables) :
            /\ code # NoCode /\ Referenced(code, strip) \subseteq LabelsIn(code.items)
            /\ file' = Lowered(code, strip, frames, recompute)
            /\ ~recompute => frames = <<>> /\ ensure_frame_sensitive_attrs_supported(code)
            /\ wrote' = [frames |-> IF recompute THEN "recomputed" ELSE "preserved", strip |-> strip]
  BY <1>1, <1>2, WritesLower
<1>4. code \in Models /\ Shaped(origin)
  BY <1>1, <1>3 DEF TypeInvariant
<1>5. FramesGiven(frames, recompute)
  BY <1>3 DEF FramesGiven
<1>6. file' = Lowered(code, strip, frames, recompute) /\ Referenced(code, strip) \subseteq LabelsIn(code.items)
  BY <1>3
<1>7. Settled(file')
  BY <1>4, <1>5, <1>6, LoweredIsSettled
<1>8. ASSUME code = lift_code_model(origin), wrote' = [frames |-> "preserved", strip |-> FALSE], Settled(origin)
      PROVE  file' = origin
  <2>1. Preserving(recompute) /\ strip = FALSE /\ frames = <<>>
    BY <1>3, <1>8 DEF Preserving
  <2>2. Lowered(code, strip, <<>>, recompute) = origin
    BY <1>4, <1>6, <1>8, <2>1, SettledComesBack, ZenonT(40)
  <2> QED BY <1>6, <2>1, <2>2
<1> QED BY <1>7, <1>8

\* What was written comes back from reading and writing unedited, instruction for
\* instruction and attribute for attribute: lift_code_model and lower_code_model are
\* inverse on code in shortest forms with one table of a kind, and all code written is.
THEOREM RoundTripStaysExact == Spec => RoundTripIsExact
<1>1. WritingInvariant /\ [Next]_vars => [RoundTripIsExactNext]_vars
  BY WritesRoundTrip
<1>2. Spec => [][RoundTripIsExactNext]_vars
  BY <1>1, CodeIsTyped, PTL DEF Spec
<1> QED BY <1>2 DEF RoundTripIsExact, RoundTripIsExactNext

-----------------------------------------------------------------------------
(* Frames that are preserved. *)

\* Two sequences of the same length whose elements are pairwise related.
Alike(R, s, t) == Len(s) = Len(t) /\ \A i \in 1..Len(s) : <<s[i], t[i]>> \in R

LEMMA AlikeWithMore ==
    ASSUME NEW S, NEW R, NEW s \in Seq(S), NEW t \in Seq(S), Alike(R, s, t), NEW x \in S, NEW y \in S, <<x, y>> \in R
    PROVE  Alike(R, Append(s, x), Append(t, y))
<1> DEFINE n == Len(s)
           u == Append(s, x)
           v == Append(t, y)
<1>1. Len(t) = n /\ \A i \in 1..n : <<s[i], t[i]>> \in R
  BY DEF Alike
<1>2. n \in Nat /\ Len(u) = n + 1 /\ u[n + 1] = x /\ \A i \in 1..n : u[i] = s[i]
  BY AppendElements
<1>3. Len(v) = n + 1 /\ v[n + 1] = y /\ \A i \in 1..n : v[i] = t[i]
  BY <1>1, AppendElements
<1> HIDE DEF n, u, v
<1>4. ASSUME NEW i \in 1..(n + 1) PROVE <<u[i], v[i]>> \in R
  <2>1. CASE i = n + 1
    BY <2>1, <1>2, <1>3
  <2>2. CASE i # n + 1
    <3>1. i \in 1..n
      BY <2>2, <1>2
    <3> QED BY <3>1, <1>1, <1>2, <1>3
  <2> QED BY <2>1, <2>2
<1> QED BY <1>2, <1>3, <1>4 DEF Alike, u, v

LEMMA KeptAlike ==
    ASSUME NEW S, NEW R, NEW s \in Seq(S), NEW t \in Seq(S), Alike(R, s, t), NEW hits
    PROVE  Alike(R, Kept(s, hits), Kept(t, hits))
<1> DEFINE n == Len(s)
           a(i) == Kept(Upto(s, i), hits)
           b(i) == Kept(Upto(t, i), hits)
           N == {i \in 0..n : Alike(R, a(i), b(i))}
<1>1. n \in Nat /\ Len(t) = n /\ \A i \in 1..n : <<s[i], t[i]>> \in R
  BY DEF Alike
<1>2. /\ a(0) = <<>> /\ a(n) = Kept(s, hits) /\ b(0) = <<>> /\ b(n) = Kept(t, hits)
  BY <1>1, KeptUpto
<1>3. ASSUME NEW i \in 1..n
      PROVE  /\ i - 1 \in 0..n /\ i \in 0..n /\ s[i] \in S /\ t[i] \in S /\ a(i - 1) \in Seq(S) /\ b(i - 1) \in Seq(S)
             /\ (i \in hits => a(i) = Append(a(i - 1), s[i]) /\ b(i) = Append(b(i - 1), t[i]))
             /\ (i \notin hits => a(i) = a(i - 1) /\ b(i) = b(i - 1))
  <2>1. i \in 1..Len(t) /\ i - 1 \in 0..Len(s) /\ i - 1 \in 0..Len(t) /\ i \in 0..n
    BY <1>1
  <2>2. a(i - 1) \in Seq(S) /\ b(i - 1) \in Seq(S)
    BY <2>1, KeptUpto
  <2>3. /\ (i \in hits => a(i) = Append(a(i - 1), s[i]))
        /\ (i \notin hits => a(i) = a(i - 1))
    BY KeptStep
  <2>4. /\ (i \in hits => b(i) = Append(b(i - 1), t[i]))
        /\ (i \notin hits => b(i) = b(i - 1))
    <3>1. \A j \in 1..Len(t) : /\ (j \in hits => b(j) = Append(b(j - 1), t[j]))
                               /\ (j \notin hits => b(j) = b(j - 1))
      BY KeptStep
    <3> HIDE DEF b, n
    <3> QED BY <2>1, <3>1
  <2>5. s[i] \in S /\ t[i] \in S
    BY <2>1
  <2> QED BY <2>1, <2>2, <2>3, <2>4, <2>5
<1> HIDE DEF n, a, b
<1>4. 0 \in N
  <2>1. Alike(R, <<>>, <<>>)
    BY DEF Alike
  <2>2. 0 \in 0..n
    BY <1>1
  <2> QED BY <2>1, <2>2, <1>2
<1>5. ASSUME NEW i \in 1..n, i - 1 \in N PROVE i \in N
  <2>1. Alike(R, a(i - 1), b(i - 1))
    BY <1>5
  <2>2. CASE i \in hits
    <3>1. Alike(R, Append(a(i - 1), s[i]), Append(b(i - 1), t[i]))
      BY <2>1, <1>1, <1>3, AlikeWithMore
    <3> QED BY <2>2, <3>1, <1>3
  <2>3. CASE i \notin hits
    BY <2>1, <2>3, <1>3
  <2> QED BY <2>2, <2>3
<1> HIDE DEF N
<1>6. 0..n \subseteq N
  BY <1>1, <1>4, <1>5, UpTo
<1>7. n \in N
  BY <1>1, <1>6
<1> QED BY <1>2, <1>7 DEF N

\* Items that differ only in which instruction they once were.
SameItems == {p \in Items \X Items : p[1].op = p[2].op /\ p[1].targets = p[2].targets
                                     /\ (p[1].op = "label" => p[1] = p[2])}

LEMMA ShapesAreAlike ==
    ASSUME NEW s \in Seq(Items), NEW t \in Seq(Items), Shape(s) = Shape(t)
    PROVE  Alike(SameItems, s, t)
<1> DEFINE anonymous(x) == IF x.op = "label" THEN x ELSE [x EXCEPT !.id = 0]
           n == Len(s)
<1>1. n \in Nat /\ DOMAIN s = 1..n /\ \A i \in 1..n : s[i] \in Items
  OBVIOUS
<1>2. Len(t) \in Nat /\ DOMAIN t = 1..Len(t) /\ \A i \in 1..Len(t) : t[i] \in Items
  OBVIOUS
<1>3. Shape(s) = [i \in 1..n |-> anonymous(s[i])]
  BY <1>1 DEF Shape
<1>4. Shape(t) = [i \in 1..Len(t) |-> anonymous(t[i])]
  BY <1>2 DEF Shape
<1> HIDE DEF anonymous
<1>5. 1..n = 1..Len(t)
  <2>1. DOMAIN Shape(s) = 1..n /\ DOMAIN Shape(t) = 1..Len(t)
    BY <1>3, <1>4
  <2> QED BY <2>1
<1>6. n = Len(t)
  <2> DEFINE m == Len(t)
  <2> HIDE DEF n, m
  <2>1. n \in Nat /\ m \in Nat /\ 1..n = 1..m
    BY <1>1, <1>2, <1>5 DEF m
  <2>2. n = m
    <3>1. n # 0 => n \in 1..m
      BY <2>1
    <3>2. m # 0 => m \in 1..n
      BY <2>1
    <3> QED BY <2>1, <3>1, <3>2
  <2> QED BY <2>2 DEF m
<1>7. ASSUME NEW i \in 1..n PROVE <<s[i], t[i]>> \in SameItems
  <2> DEFINE x == s[i]
             y == t[i]
  <2>1. x \in Items /\ y \in Items
    BY <1>1, <1>2, <1>6
  <2>2. anonymous(x) = anonymous(y)
    <3>1. Shape(s)[i] = anonymous(x) /\ Shape(t)[i] = anonymous(y)
      BY <1>3, <1>4, <1>5
    <3> QED BY <3>1
  <2> HIDE DEF x, y
  <2>3. anonymous(x).op = x.op /\ anonymous(x).targets = x.targets /\ (x.op = "label" => anonymous(x) = x)
    BY <2>1 DEF anonymous, Items
  <2>4. anonymous(y).op = y.op /\ anonymous(y).targets = y.targets /\ (y.op = "label" => anonymous(y) = y)
    BY <2>1 DEF anonymous, Items
  <2>5. x.op = y.op /\ x.targets = y.targets /\ (x.op = "label" => x = y)
    BY <2>2, <2>3, <2>4
  <2> QED BY <2>1, <2>5 DEF SameItems, x, y
<1> QED BY <1>6, <1>7 DEF Alike

\* Alike items stand at the same offsets.
LEMMA AlikeStands ==
    ASSUME NEW s \in Seq(Items), NEW t, NEW end, Stands(t, end), Alike(SameItems, s, t)
    PROVE  Stands(s, end)
<1> DEFINE n == Len(s)
<1>1. t \in Seq(Items) /\ end \in Nat /\ ItemOffsets(t)[Len(t) + 1] = end
      /\ \A k \in 1..Len(t) : t[k].op = "label" => ItemOffsets(t)[k] = t[k].id
  BY DEF Stands
<1>2. Len(t) = n /\ \A i \in 1..n : <<s[i], t[i]>> \in SameItems
  BY DEF Alike
<1>3. \A i \in 1..n : s[i].op = t[i].op /\ (s[i].op = "label" => s[i] = t[i])
  BY <1>2 DEF SameItems
<1>4. DOMAIN s = 1..n /\ DOMAIN t = 1..n
  BY <1>1, <1>2
<1> HIDE DEF n
<1>5. ItemOffsets(s) = ItemOffsets(t)
  <2>1. \A i \in 1..n : instruction_size(s[i]) = instruction_size(t[i])
    BY <1>3 DEF instruction_size
  <2>2. [i \in DOMAIN s |-> [size |-> instruction_size(s[i])]] = [i \in DOMAIN t |-> [size |-> instruction_size(t[i])]]
    BY <1>4, <2>1
  <2> QED BY <2>2 DEF ItemOffsets
<1> QED BY <1>1, <1>2, <1>3, <1>5 DEF Stands, n

LEMMA SameSizesSameOffsets ==
    ASSUME NEW a \in Seq(Instructions), NEW b \in Seq(Instructions), Len(a) = Len(b),
           \A i \in 1..Len(a) : a[i].size = b[i].size
    PROVE  Offsets(a) = Offsets(b)
<1> DEFINE n == Len(a)
           f == Offsets(a)
           g == Offsets(b)
           N == {i \in 1..(n + 1) : f[i] = g[i]}
<1>1. n \in Nat /\ OffsetsAre(a, f) /\ OffsetsAre(b, g)
  BY OffsetsOfInstructions
<1>2. /\ f \in [1..(n + 1) -> Nat] /\ f[1] = 0 /\ g \in [1..(n + 1) -> Nat] /\ g[1] = 0
      /\ \A i \in 1..n : f[i + 1] = f[i] + a[i].size /\ g[i + 1] = g[i] + a[i].size
  BY <1>1 DEF OffsetsAre
<1> HIDE DEF n, f, g
<1>3. 1 \in N
  <2>1. 1 \in 1..(n + 1)
    BY <1>1
  <2> QED BY <2>1, <1>2
<1>4. ASSUME NEW i \in 1..n, i \in N PROVE i + 1 \in N
  <2>1. i + 1 \in 1..(n + 1)
    BY <1>1
  <2> QED BY <2>1, <1>2, <1>4
<1> HIDE DEF N
<1>5. 1..(n + 1) \subseteq N
  BY <1>1, <1>3, <1>4, UpToFromOne
<1>6. \A i \in 1..(n + 1) : f[i] = g[i]
  BY <1>5 DEF N
<1>7. f = [i \in 1..(n + 1) |-> f[i]] /\ g = [i \in 1..(n + 1) |-> g[i]]
  BY <1>2
<1>8. f = g
  BY <1>6, <1>7
<1> QED BY <1>8 DEF f, g

LEMMA StartsAreSame ==
    ASSUME NEW c, NEW d, NEW n, DOMAIN Offsets(c.insns) = 1..n, Offsets(d.insns) = Offsets(c.insns),
           NEW ps \in Seq(Nat), Range(ps) \subseteq Range(Offsets(c.insns))
    PROVE  AllStart(c, ps, d, ps)
<1> DEFINE f == Offsets(c.insns)
<1>1. DOMAIN ps = 1..Len(ps) /\ \A k \in 1..Len(ps) : ps[k] \in Range(ps)
  BY RangeOfList
<1>2. ASSUME NEW p \in Range(f) PROVE SameStart(c, p, d, p)
  <2>1. PICK i \in DOMAIN f : f[i] = p
    BY DEF Range
  <2> QED BY <2>1 DEF SameStart
<1>3. \A k \in DOMAIN ps : SameStart(c, ps[k], d, ps[k])
  BY <1>1, <1>2
<1> QED BY <1>3 DEF AllStart

\* What is chosen are elements, and elements that are chosen are among them.
LEMMA InChosen ==
    ASSUME NEW S, NEW s \in Seq(S), NEW P, NEW x \in Range(s), x \in P PROVE x \in Range(Chosen(s, P))
<1> DEFINE H == {i \in DOMAIN s : s[i] \in P}
<1>1. PICK i \in 1..Len(s) : s[i] = x
  BY InRange
<1>2. i \in H
  BY <1>1
<1> HIDE DEF H
<1>3. Kept(s, H) \in Seq(S) /\ Tally(s, H, i) \in 1..Len(Kept(s, H)) /\ Kept(s, H)[Tally(s, H, i)] = x
  BY <1>1, <1>2, KeptElements, KeptIsList
<1>4. x \in Range(Kept(s, H))
  BY <1>3, RangeOfList
<1> QED BY <1>4 DEF Chosen, H

LEMMA ChosenAreElements ==
    ASSUME NEW S, NEW s \in Seq(S), NEW P, NEW x \in Range(Chosen(s, P)) PROVE x \in Range(s)
<1> DEFINE H == {i \in DOMAIN s : s[i] \in P}
<1>1. x \in Range(Kept(s, H))
  BY DEF Chosen
<1> HIDE DEF H
<1>2. Kept(s, H) \in Seq(S)
  BY KeptIsList
<1>3. PICK k \in 1..Len(Kept(s, H)) : Kept(s, H)[k] = x
  BY <1>1, <1>2, InRange
<1>4. PICK i \in 1..Len(s) : i \in H /\ Tally(s, H, i) = k
  BY <1>3, KeptOnto
<1>5. s[i] = x
  BY <1>3, <1>4, KeptElements
<1> QED BY <1>5, RangeOfList

\* What a file's frames and the code it was lifted from have in common with the model.
FramesAreRead(model, c) ==
    /\ model.original = [items |-> LiftedItems(c), handlers |-> c.handlers]
    /\ \A a \in Range(model.attributes) : a.kind = "frames" => a \in Range(c.attrs)

\* A table of frames that is written was read, and for the items that are written.
LEMMA FramesComeFromReading ==
    ASSUME NEW model \in Models, NEW c, Shaped(c), FramesAreRead(model, c), NEW strip,
           Referenced(model, strip) \subseteq LabelsIn(model.items),
           ensure_frame_sensitive_attrs_supported(model), NEW recompute, Preserving(recompute),
           NEW low, low = Lowered(model, strip, <<>>, recompute), NEW table \in Range(OfKind(low.attrs, {"frames"}))
    PROVE  /\ table \in Range(OfKind(c.attrs, {"frames"})) /\ table \in Attributes
           /\ Shape(model.items) = Shape(LiftedItems(c)) /\ model.handlers = c.handlers
<1>1. <<>> \in Seq(FrameTables)
  OBVIOUS
<1>2. Shaped(low)
  BY <1>1, LoweredIsTyped
<1>3. low.attrs \in Seq(Attributes) /\ c.attrs \in Seq(Attributes)
  BY <1>2 DEF Shaped
<1>4. model.attributes \in Seq(Attributes)
  <2>1. model.attributes \in Seq(NestedAttributes) /\ NestedAttributes \subseteq Attributes
    BY ModelFields DEF NestedAttributes
  <2> QED BY <2>1
<1>5. table \in Range(low.attrs) /\ table.kind = "frames" /\ table \in Attributes
  <2>1. OfKind(low.attrs, {"frames"}) \in Seq(IsOf({"frames"})) /\ Range(OfKind(low.attrs, {"frames"})) \subseteq Range(low.attrs)
    BY <1>3, OfKindElements
  <2>2. table \in IsOf({"frames"})
    BY <2>1, RangeOfList
  <2> QED BY <2>1, <2>2 DEF IsOf
<1>6. NotOfKind(low.attrs, DebugKinds) = NotOfKind(model.attributes, DebugKinds)
  <2>1. FramesGiven(<<>>, recompute)
    BY DEF FramesGiven
  <2>2. KeepsAttributes(model, strip, <<>>, recompute, low)
    BY <1>1, <2>1, LoweredKeepsAttributes
  <2>3. TabledKinds(recompute) = DebugKinds
    BY DEF TabledKinds, Preserving
  <2> QED BY <2>2, <2>3 DEF KeepsAttributes
<1>7. table \in Range(NotOfKind(low.attrs, DebugKinds))
  <2> DEFINE s == low.attrs
             P == IsNotOf(DebugKinds)
  <2>1. s \in Seq(Attributes) /\ table \in Range(s) /\ table \in P
    BY <1>3, <1>5 DEF IsNotOf, DebugKinds
  <2>2. NotOfKind(s, DebugKinds) = Chosen(s, P)
    BY <2>1, OfKindIsChosen
  <2> HIDE DEF s, P
  <2>3. table \in Range(Chosen(s, P))
    BY <2>1, InChosen
  <2> QED BY <2>2, <2>3 DEF s
<1>8. table \in Range(model.attributes)
  <2> DEFINE s == model.attributes
  <2>1. s \in Seq(Attributes) /\ table \in Range(NotOfKind(s, DebugKinds))
    BY <1>4, <1>6, <1>7
  <2> HIDE DEF s
  <2>2. NotOfKind(s, DebugKinds) = Chosen(s, IsNotOf(DebugKinds))
    BY <2>1, OfKindIsChosen
  <2>3. table \in Range(s)
    BY <2>1, <2>2, ChosenAreElements
  <2> QED BY <2>3 DEF s
<1>9. OfKind(model.attributes, {"frames"}) # <<>>
  <2>1. table \in Range(OfKind(model.attributes, {"frames"}))
    BY <1>4, <1>5, <1>8, OfKindElements
  <2> QED BY <2>1 DEF Range
<1>10. ~code_shape_edited(model)
  BY <1>9 DEF ensure_frame_sensitive_attrs_supported
<1>11. Shape(model.items) = Shape(LiftedItems(c)) /\ model.handlers = c.handlers
  BY <1>10 DEF code_shape_edited, FramesAreRead
<1>12. table \in Range(OfKind(c.attrs, {"frames"}))
  <2>1. table \in Range(c.attrs)
    BY <1>5, <1>8 DEF FramesAreRead
  <2> QED BY <2>1, <1>3, <1>5, OfKindElements
<1> QED BY <1>5, <1>11, <1>12

\* Items of the shape of those lifted are lowered to the instructions that were read.
LEMMA SameShapeLowersSame ==
    ASSUME NEW c, Shaped(c), ShortestForms(c), NEW items \in Seq(Items), Shape(items) = Shape(LiftedItems(c)),
           TargetsAreLabels(items), NEW at, at = compute_label_offsets(items), NEW insns, insns = LoweredInsns(items, at)
    PROVE  /\ Stay(at, LabelsIn(items)) /\ Len(insns) = Len(c.insns)
           /\ \A i \in 1..Len(c.insns) :
                insns[i].op = c.insns[i].op /\ insns[i].size = c.insns[i].size /\ insns[i].targets = c.insns[i].targets
<1> DEFINE lifted == LiftedItems(c)
           l == LiftedInsns(c)
           n == Len(c.insns)
           chosen == Chosen(items, InsnItems)
<1>1. lifted \in Seq(Items) /\ n \in Nat /\ c.insns \in Seq(Instructions)
  BY LiftedIsList, GroupsAre DEF Shaped
<1>2. Chosen(lifted, InsnItems) = l /\ l \in Seq(Items) /\ Len(l) = n /\ \A i \in 1..n : l[i] = LiftedInsn(c, i)
  BY <1>1, InsnsOfLifted DEF LiftedInsns
<1>3. Stands(lifted, Offsets(c.insns)[n + 1])
  BY LiftedStands
<1> HIDE DEF l, lifted
<1>4. Alike(SameItems, items, lifted)
  BY <1>1, ShapesAreAlike DEF lifted
<1>5. Stay(at, LabelsIn(items))
  <2>1. Stands(items, Offsets(c.insns)[n + 1])
    <3> DEFINE end == Offsets(c.insns)[n + 1]
    <3> HIDE DEF end
    <3> QED BY <1>3, <1>4, AlikeStands DEF end
  <2> QED BY <2>1, LabelsStay DEF Stay
<1>6. Alike(SameItems, chosen, l)
  <2> DEFINE H == {i \in DOMAIN items : items[i] \in InsnItems}
             G == {i \in DOMAIN lifted : lifted[i] \in InsnItems}
  <2>1. DOMAIN items = 1..Len(items) /\ DOMAIN lifted = 1..Len(lifted) /\ Len(items) = Len(lifted)
        /\ \A i \in 1..Len(items) : items[i] \in Items /\ lifted[i] \in Items /\ <<items[i], lifted[i]>> \in SameItems
    BY <1>1, <1>4 DEF Alike
  <2>2. \A i \in 1..Len(items) : items[i] \in InsnItems <=> lifted[i] \in InsnItems
    BY <2>1 DEF SameItems, InsnItems
  <2>3. H = G
    BY <2>1, <2>2
  <2>4. chosen = Kept(items, H) /\ Chosen(lifted, InsnItems) = Kept(lifted, G)
    BY DEF Chosen
  <2> HIDE DEF H, G, chosen
  <2>5. Alike(SameItems, Kept(items, H), Kept(lifted, H))
    BY <1>1, <1>4, KeptAlike
  <2> QED BY <1>2, <2>3, <2>4, <2>5
<1>7. /\ chosen \in Seq(Items) /\ Range(chosen) \subseteq Range(items)
      /\ insns = [i \in 1..Len(chosen) |-> LoweredInsn(chosen[i], at)]
  BY LoweredInsnsAre
<1> HIDE DEF chosen
<1>8. Len(chosen) = n /\ \A i \in 1..n : <<chosen[i], l[i]>> \in SameItems
  BY <1>2, <1>6 DEF Alike
<1>9. Len(insns) = n /\ \A i \in 1..n : insns[i] = LoweredInsn(chosen[i], at)
  BY <1>1, <1>7, <1>8
<1>10. ASSUME NEW i \in 1..n
       PROVE  insns[i].op = c.insns[i].op /\ insns[i].size = c.insns[i].size /\ insns[i].targets = c.insns[i].targets
  <2> DEFINE x == c.insns[i]
             y == chosen[i]
  <2>1. x \in Instructions /\ i \in DOMAIN c.insns
    BY <1>1
  <2>2. y.op = x.op /\ y.targets = x.targets
    <3>1. y.op = l[i].op /\ y.targets = l[i].targets
      BY <1>8 DEF SameItems
    <3>2. l[i] = LiftedInsn(c, i)
      BY <1>2
    <3>3. LiftedInsn(c, i) = [op |-> x.op, id |-> x.id, targets |-> x.targets]
      BY DEF LiftedInsn
    <3> HIDE DEF x, y
    <3> QED BY <3>1, <3>2, <3>3
  <2>3. x.size = Shortest[x.op] /\ x.op # "label"
    BY <2>1, OpsHaveLengths DEF ShortestForms, Instructions
  <2>4. instruction_size(y) = x.size
    BY <2>2, <2>3 DEF instruction_size
  <2>5. y \in Range(items)
    BY <1>7, <1>8, RangeOfList
  <2>6. x.targets \in Seq(Nat) /\ Range(x.targets) \subseteq LabelsIn(items)
    BY <2>1, <2>2, <2>5 DEF TargetsAreLabels, Instructions
  <2>7. [k \in DOMAIN x.targets |-> at[x.targets[k]]] = x.targets
    <3> DEFINE t == x.targets
               L == LabelsIn(items)
    <3>1. t \in Seq(Nat) /\ Range(t) \subseteq L /\ Stay(at, L)
      BY <1>5, <2>6
    <3> HIDE DEF t, L
    <3>2. [k \in DOMAIN t |-> at[t[k]]] = t
      BY <3>1, StayingPlaces
    <3> QED BY <3>2 DEF t
  <2>8. insns[i] = [op |-> y.op, id |-> y.id, size |-> instruction_size(y),
                    targets |-> [k \in DOMAIN y.targets |-> at[y.targets[k]]]]
    BY <1>9 DEF LoweredInsn
  <2> HIDE DEF x, y
  <2>9. insns[i].op = x.op /\ insns[i].size = x.size /\ insns[i].targets = x.targets
    BY <2>2, <2>4, <2>7, <2>8
  <2> QED BY <2>9 DEF x
<1> QED BY <1>5, <1>9, <1>10

\* Frames that are preserved stand in the code that they were read with.
LEMMA PreservedFramesFollow ==
    ASSUME NEW model \in Models, NEW c, Shaped(c), ShortestForms(c), FramesStand(c), FramesAreRead(model, c),
           NEW strip, Referenced(model, strip) \subseteq LabelsIn(model.items),
           ensure_frame_sensitive_attrs_supported(model), NEW recompute, Preserving(recompute),
           NEW low, low = Lowered(model, strip, <<>>, recompute)
    PROVE  FramesFollow(c, low)
<1> SUFFICES ASSUME NEW table \in Range(OfKind(low.attrs, {"frames"}))
             PROVE  /\ SameCode(c, low)
                    /\ \E read \in Range(OfKind(c.attrs, {"frames"})) : AllStart(c, read.at, low, table.at)
  BY DEF FramesFollow
<1> DEFINE items == model.items
           at == compute_label_offsets(items)
           n == Len(c.insns)
           f == Offsets(c.insns)
<1>1. /\ table \in Range(OfKind(c.attrs, {"frames"})) /\ table \in Attributes
      /\ Shape(items) = Shape(LiftedItems(c)) /\ model.handlers = c.handlers
  BY FramesComeFromReading
<1>2. items \in Seq(Items) /\ model.handlers \in Seq(Handlers) /\ c.insns \in Seq(Instructions) /\ n \in Nat
  BY ModelFields, GroupsAre DEF Shaped
<1>3. TargetsAreLabels(items) /\ \A h \in Range(model.handlers) : {h.start, h.end, h.handler} \subseteq LabelsIn(items)
  BY ReferencesAre
<1>4. low.insns = LoweredInsns(items, at) /\ low.handlers = LoweredHandlers(model.handlers, at)
  BY LoweredIs
<1>5. Shaped(low) /\ Places(low) \subseteq Range(Offsets(low.insns))
  <2>1. <<>> \in Seq(FrameTables)
    OBVIOUS
  <2> QED BY <2>1, LoweredIsTyped
<1>6. low.insns \in Seq(Instructions)
  BY <1>5 DEF Shaped
<1> HIDE DEF items, at
<1>7. /\ Stay(at, LabelsIn(items)) /\ Len(low.insns) = n
      /\ \A i \in 1..n : low.insns[i].op = c.insns[i].op /\ low.insns[i].size = c.insns[i].size
                         /\ low.insns[i].targets = c.insns[i].targets
  <2>1. at = compute_label_offsets(items)
    BY DEF at
  <2> DEFINE insns == low.insns
  <2>2. insns = LoweredInsns(items, at)
    BY <1>4
  <2> HIDE DEF insns
  <2>3. /\ Stay(at, LabelsIn(items)) /\ Len(insns) = n
        /\ \A i \in 1..n : insns[i].op = c.insns[i].op /\ insns[i].size = c.insns[i].size /\ insns[i].targets = c.insns[i].targets
    BY <1>1, <1>2, <1>3, <2>1, <2>2, SameShapeLowersSame
  <2> QED BY <2>3 DEF insns
<1>8. low.handlers = c.handlers
  BY <1>1, <1>2, <1>3, <1>4, <1>7, HandlersComeBack
<1>9. Offsets(low.insns) = f
  <2> DEFINE a == low.insns
             b == c.insns
  <2>1. a \in Seq(Instructions) /\ b \in Seq(Instructions) /\ Len(a) = Len(b) /\ \A i \in 1..Len(a) : a[i].size = b[i].size
    BY <1>2, <1>6, <1>7
  <2> HIDE DEF a, b
  <2>2. Offsets(a) = Offsets(b)
    BY <2>1, SameSizesSameOffsets
  <2> QED BY <2>2 DEF a, b
<1>10. DOMAIN f = 1..(n + 1)
  BY <1>2, OffsetsOfInstructions DEF OffsetsAre
<1> DEFINE m == n + 1
<1> HIDE DEF n, m
<1>11. ASSUME NEW ps \in Seq(Nat), Range(ps) \subseteq Range(f) PROVE AllStart(c, ps, low, ps)
  <2>1. DOMAIN Offsets(c.insns) = 1..m
    BY <1>10 DEF m
  <2> QED BY <2>1, <1>9, <1>11, StartsAreSame
<1> HIDE DEF f
<1>12. ASSUME NEW i \in DOMAIN c.insns
       PROVE  c.insns[i].op = low.insns[i].op /\ AllStart(c, c.insns[i].targets, low, low.insns[i].targets)
  <2>1. i \in 1..n /\ i \in DOMAIN low.insns
    <3>1. DOMAIN c.insns = 1..n
      BY <1>2 DEF n
    <3>2. DOMAIN low.insns = 1..n
      BY <1>6, <1>7
    <3> QED BY <3>1, <3>2
  <2>2. c.insns[i].targets \in Seq(Nat)
    <3>1. c.insns[i] \in Instructions
      BY <1>2
    <3> QED BY <3>1 DEF Instructions
  <2>3. low.insns[i].targets = c.insns[i].targets /\ low.insns[i].op = c.insns[i].op
    BY <1>7, <2>1
  <2>4. Range(c.insns[i].targets) \subseteq Range(f)
    <3>1. \A p \in Range(low.insns[i].targets) : p \in Places(low)
      BY <2>1, PlacesAre
    <3> QED BY <3>1, <1>5, <1>9, <2>3
  <2> DEFINE ps == c.insns[i].targets
  <2> HIDE DEF ps
  <2>5. AllStart(c, ps, low, ps)
    BY <1>11, <2>2, <2>4 DEF ps
  <2> QED BY <2>3, <2>5 DEF ps
<1>13. ASSUME NEW k \in DOMAIN c.handlers
       PROVE  AllStart(c, <<c.handlers[k].start, c.handlers[k].end, c.handlers[k].handler>>,
                       low, <<low.handlers[k].start, low.handlers[k].end, low.handlers[k].handler>>)
  <2> DEFINE h == c.handlers[k]
             ps == <<h.start, h.end, h.handler>>
  <2>1. h \in Range(low.handlers) /\ h \in Handlers
    <3>1. c.handlers \in Seq(Handlers) /\ k \in 1..Len(c.handlers)
      BY <1>1, <1>2
    <3>2. h \in Range(c.handlers) /\ h \in Handlers
      BY <3>1, RangeOfList
    <3> QED BY <3>2, <1>8
  <2>2. ps \in Seq(Nat)
    BY <2>1 DEF Handlers
  <2>3. {h.start, h.end, h.handler} \subseteq Range(f)
    <3>1. \A p \in {h.start, h.end, h.handler} : p \in Places(low)
      BY <2>1, PlacesAre
    <3> QED BY <3>1, <1>5, <1>9
  <2>4. Range(ps) \subseteq Range(f)
    <3>1. Range(ps) = {h.start, h.end, h.handler}
      <4> HIDE DEF h
      <4> QED BY DEF Range
    <3> QED BY <3>1, <2>3
  <2>5. AllStart(c, ps, low, ps)
    <3> HIDE DEF ps
    <3> QED BY <1>11, <2>2, <2>4
  <2> QED BY <2>5, <1>8
<1>14. Len(c.insns) = Len(low.insns) /\ Len(c.handlers) = Len(low.handlers)
  BY <1>7, <1>8 DEF n
<1>15. SameCode(c, low)
  BY <1>12, <1>13, <1>14 DEF SameCode
<1>16. AllStart(c, table.at, low, table.at)
  <2>1. table.at \in Seq(Nat)
    BY <1>1 DEF Attributes
  <2>2. Range(table.at) \subseteq Range(f)
    BY <1>1 DEF FramesStand, f
  <2> DEFINE ps == table.at
  <2> HIDE DEF ps
  <2>3. AllStart(c, ps, low, ps)
    BY <1>11, <2>1, <2>2 DEF ps
  <2> QED BY <2>3 DEF ps
<1> QED BY <1>1, <1>15, <1>16

-----------------------------------------------------------------------------
OriginalIsRead == code # NoCode => FramesAreRead(code, origin)

FramesInvariant == WritingInvariant /\ OriginalIsRead

LEMMA RemovedAreElements ==
    ASSUME NEW S, NEW s \in Seq(S), NEW k \in DOMAIN s PROVE Range(RemoveAt(s, k)) \subseteq Range(s)
<1> DEFINE R == Range(s)
<1>1. s \in Seq(R)
  BY RangeOfList
<1> HIDE DEF R
<1>2. RemoveAt(s, k) \in Seq(R)
  BY <1>1, RemoveAtIsList
<1> QED BY <1>2, RangeOfList DEF R

\* Edits remember what was read, and add no frames.
LEMMA EditKeepsOriginal ==
    ASSUME TypeInvariant, Edit
    PROVE  /\ code'.original = code.original
           /\ \A a \in Range(code'.attributes) : a.kind = "frames" => a \in Range(code.attributes)
<1>1. code # NoCode /\ code \in Models
  BY DEF Edit, TypeInvariant
<1>2. code.attributes \in Seq(NestedAttributes)
  BY <1>1, ModelFields
<1>3. CASE Transform
  <2>1. PICK items : code' = [code EXCEPT !.items = items]
    BY <1>3 DEF Transform, Edited
  <2> QED BY <1>1, <2>1 DEF Models
<1>4. CASE \E k \in DOMAIN code.handlers : RemoveHandler(k)
  <2>1. PICK k \in DOMAIN code.handlers : code' = [code EXCEPT !.handlers = RemoveAt(@, k)]
    BY <1>4 DEF RemoveHandler, Edited
  <2> QED BY <1>1, <2>1 DEF Models
<1>5. CASE \E k \in DOMAIN code.attributes : RemoveAttribute(k)
  <2>1. PICK k \in DOMAIN code.attributes : code' = [code EXCEPT !.attributes = RemoveAt(code.attributes, k)]
    BY <1>5 DEF RemoveAttribute, Edited
  <2>2. code'.original = code.original /\ code'.attributes = RemoveAt(code.attributes, k)
    BY <1>1, <2>1 DEF Models
  <2>3. Range(RemoveAt(code.attributes, k)) \subseteq Range(code.attributes)
    BY <1>2, RemovedAreElements
  <2> QED BY <2>2, <2>3
<1>6. CASE AddAttribute
  <2> DEFINE x == [kind |-> "added", at |-> <<>>]
             s == code.attributes
  <2>1. code' = [code EXCEPT !.attributes = Append(s, x)]
    BY <1>6 DEF AddAttribute, Edited
  <2>2. code'.original = code.original /\ code'.attributes = Append(s, x)
    BY <1>1, <2>1 DEF Models
  <2>3. x.kind # "frames"
    OBVIOUS
  <2>4. s \in Seq(NestedAttributes) /\ x \in NestedAttributes
    BY <1>2, KindsAreKinds DEF NestedAttributes, Attributes, DebugKinds
  <2> HIDE DEF x, s
  <2>5. Range(Append(s, x)) \subseteq Range(s) \cup {x}
    <3>1. Append(s, x) \in Seq(Range(s) \cup {x})
      <4>1. s \in Seq(Range(s) \cup {x})
        BY <2>4, RangeOfList
      <4> QED BY <4>1
    <3> DEFINE t == Append(s, x)
               R == Range(s) \cup {x}
    <3> HIDE DEF t, R
    <3>2. Range(t) \subseteq R
      BY <3>1, RangeOfList DEF t, R
    <3> QED BY <3>2 DEF t, R
  <2> QED BY <2>2, <2>3, <2>5 DEF s
<1>7. CASE mark_method_debug_info_stale
  <2>1. code' = [code EXCEPT !.stale = TRUE]
    BY <1>7 DEF mark_method_debug_info_stale, Edited
  <2> QED BY <1>1, <2>1 DEF Models
<1> QED BY <1>3, <1>4, <1>5, <1>6, <1>7 DEF Edit

LEMMA StepKeepsFrames == FramesInvariant /\ [Next]_vars => FramesInvariant'
<1> SUFFICES ASSUME FramesInvariant, [Next]_vars PROVE FramesInvariant'
  OBVIOUS
<1>1. TypeInvariant /\ OriginalIsRead /\ WritingInvariant'
  BY StepKeepsWriting DEF FramesInvariant, WritingInvariant
<1>2. CASE Read
  <2>1. code' = lift_code_model(file) /\ origin' = file
    BY <1>2 DEF Read
  <2>2. FramesAreRead(lift_code_model(file), file)
    <3>1. file.attrs \in Seq(Attributes)
      BY <1>1 DEF TypeInvariant, Shaped
    <3> DEFINE s == file.attrs
               P == IsNotOf(DebugKinds)
    <3>2. NotOfKind(s, DebugKinds) = Chosen(s, P)
      BY <3>1, OfKindIsChosen
    <3>3. Range(Chosen(s, P)) \subseteq Range(s)
      <4> HIDE DEF s, P
      <4> QED BY <3>1, ChosenAreElements DEF s
    <3>4. lift_code_model(file).attributes = NotOfKind(s, DebugKinds)
          /\ lift_code_model(file).original = [items |-> LiftedItems(file), handlers |-> file.handlers]
      BY DEF lift_code_model
    <3> QED BY <3>2, <3>3, <3>4 DEF FramesAreRead
  <2> QED BY <1>1, <2>1, <2>2 DEF FramesInvariant, OriginalIsRead
<1>3. CASE Edit
  <2>1. code # NoCode /\ origin' = origin
    BY <1>1, <1>3, EditIsTyped
  <2>2. FramesAreRead(code, origin)
    BY <1>1, <2>1 DEF OriginalIsRead
  <2>3. FramesAreRead(code', origin)
    BY <1>1, <1>3, <2>2, EditKeepsOriginal DEF FramesAreRead
  <2> QED BY <1>1, <2>1, <2>3 DEF FramesInvariant, OriginalIsRead
<1>4. CASE Write
  <2>1. code' = code /\ origin' = origin
    BY <1>4 DEF Write, WritePreserving, WriteRecomputing, Written
  <2> QED BY <1>1, <2>1 DEF FramesInvariant, OriginalIsRead
<1>5. CASE UNCHANGED vars
  BY <1>1, <1>5 DEF vars, FramesInvariant, OriginalIsRead
<1> QED BY <1>2, <1>3, <1>4, <1>5 DEF Next

FramesOfShortFormsHoldNext ==
    writes' # writes /\ wrote'.frames = "preserved" /\ ShortestForms(origin) /\ FramesStand(origin)
        => FramesFollow(origin, file')

LEMMA WritesKeepFrames ==
    ASSUME FramesInvariant, [Next]_vars PROVE FramesOfShortFormsHoldNext
<1> SUFFICES ASSUME writes' # writes, wrote'.frames = "preserved", ShortestForms(origin), FramesStand(origin)
             PROVE  FramesFollow(origin, file')
  BY DEF FramesOfShortFormsHoldNext
<1>1. TypeInvariant /\ OriginalIsRead
  BY DEF FramesInvariant, WritingInvariant
<1>2. Write
  BY <1>1, StepsThatWrite
<1>3. PICK strip \in BOOLEAN, recompute \in BOOLEAN, frames \in Seq(FrameTables) :
            /\ code # NoCode /\ Referenced(code, strip) \subseteq LabelsIn(code.items)
            /\ file' = Lowered(code, strip, frames, recompute)
            /\ ~recompute => frames = <<>> /\ ensure_frame_sensitive_attrs_supported(code)
            /\ wrote' = [frames |-> IF recompute THEN "recomputed" ELSE "preserved", strip |-> strip]
  BY <1>1, <1>2, WritesLower
<1>4. code \in Models /\ Shaped(origin) /\ FramesAreRead(code, origin)
  BY <1>1, <1>3 DEF TypeInvariant, OriginalIsRead
<1>5. Preserving(recompute) /\ frames = <<>> /\ ensure_frame_sensitive_attrs_supported(code)
  <2>1. ~recompute
    BY <1>3
  <2> QED BY <1>3, <2>1 DEF Preserving
<1>6. file' = Lowered(code, strip, <<>>, recompute) /\ Referenced(code, strip) \subseteq LabelsIn(code.items)
  BY <1>3, <1>5
<1>7. Preserving(recompute) /\ ensure_frame_sensitive_attrs_supported(code)
  BY <1>5
<1> QED BY <1>4, <1>6, <1>7, PreservedFramesFollow

\* A StackMapTable that is preserved stands, frame by frame, at the instructions it was
\* read for, in code that does what the code read did: whatever was edited in between,
\* and edited back (code_shape_edited, ensure_frame_sensitive_attrs_supported).
THEOREM PreservedFramesStand == Spec => FramesOfShortFormsHold
<1>1. Init => FramesInvariant
  BY InitEstablishes DEF Init, FramesInvariant, OriginalIsRead
<1>2. FramesInvariant /\ [Next]_vars => FramesInvariant'
  BY StepKeepsFrames
<1>3. FramesInvariant /\ [Next]_vars => [FramesOfShortFormsHoldNext]_vars
  BY WritesKeepFrames
<1>4. Spec => [][FramesOfShortFormsHoldNext]_vars
  BY <1>1, <1>2, <1>3, PTL DEF Spec
<1> QED BY <1>4 DEF FramesOfShortFormsHold, FramesOfShortFormsHoldNext

-----------------------------------------------------------------------------
(* Places follow. *)

\* An instruction that was read, and one that an edit put in.
WasRead(x) == x.op # "label" /\ x.id # 0

PutIn == {x \in Items : x.op # "label" /\ x.id = 0}

\* An instruction that was read stands before a label iff it stood before that offset.
Ordered(c, s) ==
    \A j, k \in 1..Len(s) :
        WasRead(s[j]) /\ s[k].op = "label" => (j < k <=> s[j].id \in Before(c, s[k].id))

OwnIds(s) == \A j, k \in 1..Len(s) : WasRead(s[j]) /\ WasRead(s[k]) /\ s[j].id = s[k].id => j = k

TargetsAreRead(c, s) ==
    \A j \in 1..Len(s) : WasRead(s[j]) =>
        \A i \in 1..Len(c.insns) : c.insns[i].id = s[j].id => s[j].targets = c.insns[i].targets

ItemsFollow(c, s) == Ordered(c, s) /\ OwnIds(s) /\ TargetsAreRead(c, s)

\* What is removed or put in does not change what is left.
LEMMA ThinningFollows ==
    ASSUME NEW c, NEW u \in Seq(Items), NEW v \in Seq(Items), Thinned(v, u, PutIn), ItemsFollow(c, u)
    PROVE  ItemsFollow(c, v)
<1>1. PICK f : Thins(v, u, PutIn, f)
  BY DEF Thinned
<1>2. ASSUME NEW i \in 1..Len(v), WasRead(v[i]) \/ v[i].op = "label"
      PROVE  f[i] # 0 /\ f[i] \in 1..Len(u) /\ v[i] = u[f[i]]
  <2>1. v[i] \notin PutIn
    BY <1>2 DEF PutIn, WasRead
  <2>2. f[i] # 0 /\ f[i] \in 0..Len(u) /\ v[i] = u[f[i]]
    BY <1>1, <2>1 DEF Thins
  <2> QED BY <2>2
<1>3. ASSUME NEW i \in 1..Len(v), NEW j \in 1..Len(v), i < j, f[i] # 0, f[j] # 0 PROVE f[i] < f[j]
  BY <1>1, <1>3 DEF Thins
<1>4. Ordered(c, v)
  <2> SUFFICES ASSUME NEW j \in 1..Len(v), NEW k \in 1..Len(v), WasRead(v[j]), v[k].op = "label"
               PROVE  j < k <=> v[j].id \in Before(c, v[k].id)
    BY DEF Ordered
  <2>1. /\ f[j] \in 1..Len(u) /\ v[j] = u[f[j]] /\ f[j] # 0
        /\ f[k] \in 1..Len(u) /\ v[k] = u[f[k]] /\ f[k] # 0
    BY <1>2
  <2>2. f[j] < f[k] <=> u[f[j]].id \in Before(c, u[f[k]].id)
    BY <2>1 DEF ItemsFollow, Ordered
  <2>3. j # k
    BY DEF WasRead
  <2>4. j < k <=> f[j] < f[k]
    <3>1. j < k \/ k < j
      BY <2>3
    <3>2. j < k => f[j] < f[k]
      BY <1>3, <2>1
    <3>3. k < j => f[k] < f[j]
      BY <1>3, <2>1
    <3>4. f[j] \in Int /\ f[k] \in Int /\ j \in Int /\ k \in Int
      BY <2>1
    <3> QED BY <3>1, <3>2, <3>3, <3>4
  <2> QED BY <2>1, <2>2, <2>4
<1>5. OwnIds(v)
  <2> SUFFICES ASSUME NEW j \in 1..Len(v), NEW k \in 1..Len(v), WasRead(v[j]), WasRead(v[k]), v[j].id = v[k].id
               PROVE  j = k
    BY DEF OwnIds
  <2>1. /\ f[j] \in 1..Len(u) /\ v[j] = u[f[j]] /\ f[j] # 0
        /\ f[k] \in 1..Len(u) /\ v[k] = u[f[k]] /\ f[k] # 0
    BY <1>2
  <2>2. f[j] = f[k]
    BY <2>1 DEF ItemsFollow, OwnIds
  <2>3. j < k => f[j] < f[k]
    BY <1>3, <2>1
  <2>4. k < j => f[k] < f[j]
    BY <1>3, <2>1
  <2>5. f[j] \in Int /\ f[k] \in Int /\ j \in Int /\ k \in Int
    BY <2>1
  <2> QED BY <2>2, <2>3, <2>4, <2>5
<1>6. TargetsAreRead(c, v)
  <2> SUFFICES ASSUME NEW j \in 1..Len(v), WasRead(v[j]), NEW i \in 1..Len(c.insns), c.insns[i].id = v[j].id
               PROVE  v[j].targets = c.insns[i].targets
    BY DEF TargetsAreRead
  <2>1. f[j] \in 1..Len(u) /\ v[j] = u[f[j]]
    BY <1>2
  <2> QED BY <2>1 DEF ItemsFollow, TargetsAreRead
<1> QED BY <1>4, <1>5, <1>6 DEF ItemsFollow

LEMMA ThinnedByLess ==
    ASSUME NEW v, NEW u, NEW Z, NEW Y, Thinned(v, u, Z), Z \subseteq Y PROVE Thinned(v, u, Y)
  BY DEF Thinned, Thins

LEMMA SplicesFollow ==
    ASSUME NEW c, NEW items \in Seq(Items), ItemsFollow(c, items), NEW new \in Seq(Items), Range(new) \subseteq PutIn,
           NEW skip \in Nat, NEW width \in Nat, NEW found, Spaced(found, skip, width, Len(items))
    PROVE  ItemsFollow(c, SpliceAll(items, found, skip, width, new))
<1> DEFINE T == {u \in Seq(Items) : ItemsFollow(c, u)}
<1>1. T \in SUBSET Seq(Items) /\ items \in T
  OBVIOUS
<1>2. ASSUME NEW u \in T, NEW a \in 1..(Len(u) + 1), NEW b \in a..(Len(u) + 1) PROVE splice(u, a, b, new) \in T
  <2>1. u \in Seq(Items) /\ ItemsFollow(c, u)
    BY <1>2
  <2> HIDE DEF T
  <2>2. Thinned(splice(u, a, b, new), u, Range(new))
    BY <2>1, SpliceThins
  <2>3. splice(u, a, b, new) \in Seq(Items)
    BY <2>1, SpliceFacts DEF SpliceIs
  <2>4. Thinned(splice(u, a, b, new), u, PutIn)
    BY <2>2, ThinnedByLess
  <2> DEFINE v == splice(u, a, b, new)
  <2> HIDE DEF v
  <2>5. ItemsFollow(c, v)
    BY <2>1, <2>3, <2>4, ThinningFollows DEF v
  <2> QED BY <2>3, <2>5 DEF T, v
<1> HIDE DEF T
<1>3. SpliceAll(items, found, skip, width, new) \in T
  BY <1>1, <1>2, SpliceAllIn
<1> QED BY <1>3 DEF T

\* Each transform keeps the order of what it does not touch.
LEMMA EditsFollow ==
    ASSUME NEW c, NEW items \in Seq(Items), ItemsFollow(c, items), NEW m, NEW new \in Seq(Items), Range(new) \subseteq PutIn
    PROVE  /\ ItemsFollow(c, Redirect(items)) /\ ItemsFollow(c, remove_insns(items, m))
           /\ ItemsFollow(c, replace_insns(items, m, new)) /\ ItemsFollow(c, insert_before(items, m, new))
           /\ ItemsFollow(c, insert_after(items, m, new))
           /\ \A p \in Patterns : ItemsFollow(c, replace_sequences(items, p, new))
<1> DEFINE found == find_insns(items, m)
<1>1. ItemsFollow(c, remove_insns(items, m))
  <2> DEFINE H == DOMAIN items \ Selected(m, items)
             v == Kept(items, H)
  <2>1. remove_insns(items, m) = v
    BY DEF remove_insns
  <2> HIDE DEF H
  <2>2. v \in Seq(Items) /\ Thinned(v, items, PutIn)
    BY KeptIsList, KeptThins
  <2> HIDE DEF v
  <2>3. ItemsFollow(c, v)
    BY <2>2, ThinningFollows
  <2> QED BY <2>1, <2>3
<1>2. /\ Spaced(found, 0, 1, Len(items)) /\ Spaced(found, 0, 0, Len(items)) /\ Spaced(found, 1, 0, Len(items))
  BY PositionsAreSpaced DEF find_insns
<1> HIDE DEF found
<1>3. /\ ItemsFollow(c, SpliceAll(items, found, 0, 1, new)) /\ ItemsFollow(c, SpliceAll(items, found, 0, 0, new))
      /\ ItemsFollow(c, SpliceAll(items, found, 1, 0, new))
  BY <1>2, SplicesFollow
<1>4. ASSUME NEW p \in Patterns PROVE ItemsFollow(c, replace_sequences(items, p, new))
  <2> DEFINE hits == SelectedBy(p, items)
             where == NonOverlapping(items, hits)
  <2>1. /\ hits \in Seq(SUBSET (1..Len(items))) /\ hits # <<>> /\ Len(hits) = Len(p) /\ Len(hits) \in Nat
        /\ \A i \in 1..Len(items) : SequenceAt(hits, i) => i + Len(hits) <= Len(items) + 1
    <3>1. /\ hits \in Seq(SUBSET (1..Len(items))) /\ hits # <<>> /\ Len(hits) = Len(p)
          /\ \A i \in 1..Len(items) : SequenceAt(hits, i) => i + Len(p) <= Len(items) + 1
      BY PatternFacts
    <3> HIDE DEF hits
    <3>2. Len(hits) \in Nat
      BY <3>1
    <3> QED BY <3>1, <3>2
  <2>2. replace_sequences(items, p, new) = SpliceAll(items, where, 0, Len(hits), new)
    BY <2>1 DEF replace_sequences, find_non_overlapping_sequences
  <2> HIDE DEF hits
  <2>3. Spaced(where, 0, Len(hits), Len(items))
    BY <2>1, NonOverlappingIsSpaced
  <2> HIDE DEF where
  <2> QED BY <2>1, <2>2, <2>3, SplicesFollow
<1>5. ItemsFollow(c, Redirect(items))
  <2> DEFINE n == Len(items)
             v == Redirect(items)
             redirected(x) == IF x.op \in DOMAIN Redirected THEN [x EXCEPT !.op = Redirected[@]] ELSE x
  <2>1. n \in Nat /\ DOMAIN items = 1..n /\ \A i \in 1..n : items[i] \in Items
    OBVIOUS
  <2>2. v = [i \in 1..n |-> redirected(items[i])]
    BY <2>1 DEF Redirect
  <2>3. ASSUME NEW x \in Items
        PROVE  /\ redirected(x).id = x.id /\ redirected(x).targets = x.targets
               /\ redirected(x).op = "label" <=> x.op = "label"
    <3>1. CASE x.op \in DOMAIN Redirected
      <4>1. x.op \in Ops /\ Redirected[x.op] \in Ops /\ "label" \notin Ops
        BY <3>1, RedirectsKeepOps, OpsHaveLengths
      <4>2. x = [op |-> x.op, id |-> x.id, targets |-> x.targets]
        BY DEF Items
      <4> QED BY <3>1, <4>1, <4>2
    <3>2. CASE x.op \notin DOMAIN Redirected
      BY <3>2
    <3> QED BY <3>1, <3>2
  <2> HIDE DEF redirected, v, n
  <2>4. Len(v) = n /\ \A i \in 1..n : v[i] = redirected(items[i])
    BY <2>1, <2>2
  <2>5. \A i \in 1..n : v[i].id = items[i].id /\ v[i].targets = items[i].targets
    BY <2>1, <2>3, <2>4
  <2>6. \A i \in 1..n : v[i].op = "label" <=> items[i].op = "label"
    BY <2>1, <2>3, <2>4
  <2>7. \A i \in 1..n : WasRead(v[i]) <=> WasRead(items[i])
    BY <2>5, <2>6 DEF WasRead
  <2>8. Ordered(c, v) /\ OwnIds(v) /\ TargetsAreRead(c, v)
    <3>1. Ordered(c, items) /\ OwnIds(items) /\ TargetsAreRead(c, items)
      BY DEF ItemsFollow
    <3>2. Ordered(c, v)
      BY <3>1, <2>4, <2>5, <2>6, <2>7 DEF Ordered, n
    <3>3. OwnIds(v)
      BY <3>1, <2>4, <2>5, <2>7 DEF OwnIds, n
    <3>4. TargetsAreRead(c, v)
      BY <3>1, <2>4, <2>5, <2>7 DEF TargetsAreRead, n
    <3> QED BY <3>2, <3>3, <3>4
  <2> QED BY <2>8 DEF ItemsFollow, v
<1> QED BY <1>1, <1>3, <1>4, <1>5 DEF replace_insns, insert_before, insert_after, found

LEMMA InsertedIsPutIn == ASSUME NEW s \in Seq(Ops) PROVE Inserted(s) \in Seq(Items) /\ Range(Inserted(s)) \subseteq PutIn
<1>1. Inserted(s) \in Seq(Items)
  BY InsertedIsList
<1>2. DOMAIN s = 1..Len(s) /\ \A i \in 1..Len(s) : s[i] \in Ops /\ s[i] # "label"
  BY OpsHaveLengths
<1>3. \A i \in 1..Len(s) : Inserted(s)[i].op = s[i] /\ Inserted(s)[i].id = 0
  BY <1>2 DEF Inserted
<1>4. DOMAIN Inserted(s) = 1..Len(s)
  BY <1>2 DEF Inserted
<1>5. ASSUME NEW x \in Range(Inserted(s)) PROVE x \in PutIn
  <2>1. PICK i \in 1..Len(s) : x = Inserted(s)[i]
    BY <1>4 DEF Range
  <2>2. x \in Items
    BY <1>1, RangeOfList
  <2> QED BY <2>1, <2>2, <1>2, <1>3 DEF PutIn
<1> QED BY <1>1, <1>5

LEMMA TransformedFollows ==
    ASSUME NEW c, NEW items \in Seq(Items), ItemsFollow(c, items), NEW new \in Transformed(items)
    PROVE  ItemsFollow(c, new)
<1>1. \A s \in Snippets : Inserted(s) \in Seq(Items) /\ Range(Inserted(s)) \subseteq PutIn
  BY SnippetsAreCode, InsertedIsPutIn
<1>2. Inserted(<<>>) \in Seq(Items) /\ Range(Inserted(<<>>)) \subseteq PutIn
  <2>1. <<>> \in Seq(Ops)
    OBVIOUS
  <2> QED BY <2>1, InsertedIsPutIn
<1>3. CASE new = Redirect(items)
  BY <1>2, <1>3, EditsFollow
<1>4. ASSUME NEW m \in Matchers, new = remove_insns(items, m) PROVE ItemsFollow(c, new)
  BY <1>2, <1>4, EditsFollow
<1>5. ASSUME NEW m \in Matchers, NEW s \in Snippets,
             \/ new = replace_insns(items, m, Inserted(s))
             \/ new = insert_before(items, m, Inserted(s))
             \/ new = insert_after(items, m, Inserted(s))
      PROVE  ItemsFollow(c, new)
  <2> DEFINE put == Inserted(s)
  <2>1. put \in Seq(Items) /\ Range(put) \subseteq PutIn
    BY <1>1
  <2> HIDE DEF put
  <2>2. /\ ItemsFollow(c, replace_insns(items, m, put)) /\ ItemsFollow(c, insert_before(items, m, put))
        /\ ItemsFollow(c, insert_after(items, m, put))
    BY <2>1, EditsFollow
  <2> QED BY <2>2, <1>5 DEF put
<1>6. ASSUME NEW p \in Patterns, NEW s \in Snippets \cup {<<>>}, new = replace_sequences(items, p, Inserted(s))
      PROVE  ItemsFollow(c, new)
  <2> DEFINE put == Inserted(s)
  <2>1. put \in Seq(Items) /\ Range(put) \subseteq PutIn
    BY <1>1, <1>2
  <2> HIDE DEF put
  <2>2. ItemsFollow(c, replace_sequences(items, p, put))
    BY <2>1, EditsFollow
  <2> QED BY <2>2, <1>6 DEF put
<1> QED BY <1>3, <1>4, <1>5, <1>6 DEF Transformed

\* What IsCode says of ids: they tell instructions and handlers apart.
IdsDiffer(c) ==
    /\ \A i, j \in DOMAIN c.insns : c.insns[i].id = c.insns[j].id => i = j \/ c.insns[i].id = 0
    /\ \A i, j \in DOMAIN c.handlers : c.handlers[i].id = c.handlers[j].id => i = j

\* Where an item may come behind others so that all follow.
MayFollow(c, s, x) ==
    /\ x.op = "label" => \A j \in 1..Len(s) : WasRead(s[j]) => s[j].id \in Before(c, x.id)
    /\ WasRead(x) =>
        /\ \A k \in 1..Len(s) : s[k].op = "label" => x.id \notin Before(c, s[k].id)
        /\ \A j \in 1..Len(s) : WasRead(s[j]) => s[j].id # x.id
        /\ \A i \in 1..Len(c.insns) : c.insns[i].id = x.id => x.targets = c.insns[i].targets

LEMMA FollowsWithMore ==
    ASSUME NEW c, NEW s \in Seq(Items), ItemsFollow(c, s), NEW x \in Items, MayFollow(c, s, x)
    PROVE  ItemsFollow(c, Append(s, x))
<1> DEFINE n == Len(s)
           t == Append(s, x)
<1>1. n \in Nat /\ Len(t) = n + 1 /\ t[n + 1] = x /\ \A i \in 1..n : t[i] = s[i]
  BY AppendElements
<1>2. \A i \in 1..(n + 1) : i = n + 1 \/ i \in 1..n
  BY <1>1
<1> HIDE DEF t
<1>3. Ordered(c, s) /\ OwnIds(s) /\ TargetsAreRead(c, s)
  BY DEF ItemsFollow
<1> HIDE DEF n
<1>4. Ordered(c, t)
  <2> SUFFICES ASSUME NEW j \in 1..(n + 1), NEW k \in 1..(n + 1), WasRead(t[j]), t[k].op = "label"
               PROVE  j < k <=> t[j].id \in Before(c, t[k].id)
    BY <1>1 DEF Ordered
  <2>1. CASE j \in 1..n /\ k \in 1..n
    <3>1. t[j] = s[j] /\ t[k] = s[k]
      BY <1>1, <2>1
    <3> QED BY <2>1, <3>1, <1>3 DEF Ordered, n
  <2>2. CASE j = n + 1 /\ k \in 1..n
    <3>1. t[j] = x /\ t[k] = s[k] /\ ~(j < k)
      BY <1>1, <2>2
    <3>2. x.id \notin Before(c, s[k].id)
      BY <2>2, <3>1 DEF MayFollow, n
    <3> QED BY <3>1, <3>2
  <2>3. CASE j \in 1..n /\ k = n + 1
    <3>1. t[j] = s[j] /\ t[k] = x /\ j < k
      BY <1>1, <2>3
    <3>2. s[j].id \in Before(c, x.id)
      BY <2>3, <3>1 DEF MayFollow, n
    <3> QED BY <3>1, <3>2
  <2>4. CASE j = n + 1 /\ k = n + 1
    BY <2>4 DEF WasRead
  <2> QED BY <1>2, <2>1, <2>2, <2>3, <2>4
<1>5. OwnIds(t)
  <2> SUFFICES ASSUME NEW j \in 1..(n + 1), NEW k \in 1..(n + 1), WasRead(t[j]), WasRead(t[k]), t[j].id = t[k].id
               PROVE  j = k
    BY <1>1 DEF OwnIds
  <2>1. CASE j \in 1..n /\ k \in 1..n
    <3>1. t[j] = s[j] /\ t[k] = s[k]
      BY <1>1, <2>1
    <3> QED BY <2>1, <3>1, <1>3 DEF OwnIds, n
  <2>2. CASE j = n + 1 /\ k \in 1..n
    <3>1. t[j] = x /\ t[k] = s[k]
      BY <1>1, <2>2
    <3> QED BY <2>2, <3>1 DEF MayFollow, n
  <2>3. CASE j \in 1..n /\ k = n + 1
    <3>1. t[j] = s[j] /\ t[k] = x
      BY <1>1, <2>3
    <3> QED BY <2>3, <3>1 DEF MayFollow, n
  <2> QED BY <1>2, <2>1, <2>2, <2>3
<1>6. TargetsAreRead(c, t)
  <2> SUFFICES ASSUME NEW j \in 1..(n + 1), WasRead(t[j]), NEW i \in 1..Len(c.insns), c.insns[i].id = t[j].id
               PROVE  t[j].targets = c.insns[i].targets
    BY <1>1 DEF TargetsAreRead
  <2>1. CASE j = n + 1
    <3>1. t[j] = x
      BY <1>1, <2>1
    <3> QED BY <3>1 DEF MayFollow
  <2>2. CASE j \in 1..n
    <3>1. t[j] = s[j]
      BY <1>1, <2>2
    <3> QED BY <3>1, <2>2, <1>3 DEF TargetsAreRead, n
  <2> QED BY <1>2, <2>1, <2>2
<1> QED BY <1>4, <1>5, <1>6 DEF ItemsFollow, t

\* Numbers that never fall from one to the next never fall.
LEMMA NeverFalls ==
    ASSUME NEW n \in Nat, NEW f, \A i \in 1..(n + 1) : f[i] \in Nat, \A i \in 1..n : f[i] <= f[i + 1],
           NEW i \in 1..(n + 1), NEW j \in 1..(n + 1), i <= j
    PROVE  f[i] <= f[j]
<1> DEFINE N == {d \in 0..(n + 1 - i) : f[i] <= f[i + d]}
<1>1. n + 1 - i \in Nat /\ i \in Nat /\ f[i] \in Nat /\ i + 0 = i
  OBVIOUS
<1>2. 0 \in N
  BY <1>1
<1>3. ASSUME NEW d \in 1..(n + 1 - i), d - 1 \in N PROVE d \in N
  <2>1. d \in 0..(n + 1 - i) /\ i + (d - 1) \in 1..n /\ i + d \in 1..(n + 1) /\ (i + (d - 1)) + 1 = i + d
        /\ i + (d - 1) \in 1..(n + 1)
    BY <1>1
  <2>2. f[i] <= f[i + (d - 1)] /\ f[i + (d - 1)] <= f[i + d]
    BY <1>3, <2>1
  <2>3. f[i + (d - 1)] \in Nat /\ f[i + d] \in Nat
    BY <2>1
  <2>4. f[i] <= f[i + d]
    BY <1>1, <2>2, <2>3
  <2> QED BY <2>1, <2>4
<1> HIDE DEF N
<1>4. 0..(n + 1 - i) \subseteq N
  BY <1>1, <1>2, <1>3, UpTo
<1>5. j - i \in 0..(n + 1 - i) /\ i + (j - i) = j
  OBVIOUS
<1> QED BY <1>4, <1>5 DEF N

\* Instructions have no length 0: each begins behind those before it.
LEMMA OffsetsRise ==
    ASSUME NEW insns \in Seq(Instructions)
    PROVE  /\ \A i, j \in 1..(Len(insns) + 1) : i < j => Offsets(insns)[i] < Offsets(insns)[j]
           /\ \A i \in 1..(Len(insns) + 1) : Offsets(insns)[i] \in Nat
<1> DEFINE n == Len(insns)
           f == Offsets(insns)
<1>1. n \in Nat /\ \A i \in 1..n : insns[i].size \in Nat \ {0}
  <2>1. n \in Nat /\ \A i \in 1..n : insns[i] \in Instructions
    OBVIOUS
  <2>2. \A x \in Instructions : x.size \in Nat \ {0}
    BY DEF Instructions
  <2> HIDE DEF n
  <2> QED BY <2>1, <2>2
<1>2. f \in [1..(n + 1) -> Nat] /\ \A i \in 1..n : f[i + 1] = f[i] + insns[i].size
  BY OffsetsOfInstructions DEF OffsetsAre
<1> HIDE DEF n, f
<1>3. \A i \in 1..(n + 1) : f[i] \in Nat
  BY <1>2
<1>4. \A i \in 1..n : f[i] < f[i + 1] /\ f[i] <= f[i + 1]
  <2> TAKE i \in 1..n
  <2>1. i \in 1..(n + 1) /\ i + 1 \in 1..(n + 1)
    BY <1>1
  <2>2. f[i] \in Nat /\ f[i + 1] \in Nat /\ insns[i].size \in Nat \ {0} /\ f[i + 1] = f[i] + insns[i].size
    BY <1>1, <1>2, <1>3, <2>1
  <2> QED BY <2>2
<1>5. ASSUME NEW i \in 1..(n + 1), NEW j \in 1..(n + 1), i < j PROVE f[i] < f[j]
  <2>1. i \in 1..n /\ i + 1 \in 1..(n + 1) /\ i + 1 <= j
    BY <1>1, <1>5
  <2>2. f[i + 1] <= f[j]
    BY <1>1, <1>3, <1>4, <2>1, NeverFalls
  <2>3. f[i] \in Nat /\ f[j] \in Nat /\ f[i + 1] \in Nat
    BY <1>3, <2>1
  <2> QED BY <1>4, <2>1, <2>2, <2>3
<1> QED BY <1>3, <1>5 DEF n, f

LEMMA InBefore ==
    ASSUME NEW c, c.insns \in Seq(Instructions), NEW p, NEW x
    PROVE  x \in Before(c, p) <=> x # 0 /\ \E i \in 1..Len(c.insns) : c.insns[i].id = x /\ Offsets(c.insns)[i] < p
<1>1. DOMAIN c.insns = 1..Len(c.insns)
  OBVIOUS
<1> QED BY <1>1 DEF Before

\* s is what was lifted from the first i instructions, and its labels are up to o.
Gathered(c, s, i, o) ==
    /\ s \in Seq(Items) /\ ItemsFollow(c, s)
    /\ \A j \in 1..Len(s) : WasRead(s[j]) => \E m \in 1..i : c.insns[m].id = s[j].id
    /\ \A k \in 1..Len(s) : s[k].op = "label" => s[k].id <= o

LEMMA GatheredLabel ==
    ASSUME NEW c, Shaped(c), NEW i \in 1..(Len(c.insns) + 1), NEW s, Gathered(c, s, i - 1, Offsets(c.insns)[i])
    PROVE  Gathered(c, s \o LabelAt(c, i), i - 1, Offsets(c.insns)[i])
<1> DEFINE o == Offsets(c.insns)[i]
           n == Len(c.insns)
           x == Label(o)
           t == Append(s, x)
<1>1. /\ s \in Seq(Items) /\ ItemsFollow(c, s)
      /\ \A j \in 1..Len(s) : WasRead(s[j]) => \E m \in 1..(i - 1) : c.insns[m].id = s[j].id
      /\ \A k \in 1..Len(s) : s[k].op = "label" => s[k].id <= o
  BY DEF Gathered
<1>2. c.insns \in Seq(Instructions) /\ n \in Nat
  BY GroupsAre DEF Shaped
<1>3. o \in Nat /\ \A m \in 1..(i - 1) : m \in 1..n /\ Offsets(c.insns)[m] < o
  <2>1. \A m \in 1..(i - 1) : m \in 1..n /\ m \in 1..(n + 1) /\ m < i
    BY <1>2
  <2> QED BY <2>1, <1>2, OffsetsRise
<1>4. CASE o \in Places(c)
  <2>1. x \in Items /\ x.op = "label" /\ x.id = o
    BY <1>3, LabelIsItem
  <2>2. MayFollow(c, s, x)
    <3>1. ASSUME NEW j \in 1..Len(s), WasRead(s[j]) PROVE s[j].id \in Before(c, o)
      <4>1. PICK m \in 1..(i - 1) : c.insns[m].id = s[j].id
        BY <1>1, <3>1
      <4>2. m \in 1..Len(c.insns) /\ Offsets(c.insns)[m] < o
        BY <1>3
      <4>3. s[j].id # 0
        BY <3>1 DEF WasRead
      <4> HIDE DEF o, n
      <4> QED BY <4>1, <4>2, <4>3, <1>2, InBefore
    <3> HIDE DEF x, o
    <3> QED BY <2>1, <3>1 DEF MayFollow, WasRead
  <2>3. LabelAt(c, i) = <<x>> /\ s \o <<x>> = t
    BY <1>1, <1>4 DEF LabelAt
  <2> DEFINE l == Len(s)
  <2> HIDE DEF o, x, n
  <2>4. t \in Seq(Items) /\ l \in Nat /\ Len(t) = l + 1 /\ t[l + 1] = x /\ \A k \in 1..l : t[k] = s[k]
    BY <1>1, <2>1, AppendElements
  <2>5. ItemsFollow(c, t)
    BY <1>1, <2>1, <2>2, FollowsWithMore
  <2> HIDE DEF t
  <2>6. ASSUME NEW j \in 1..Len(t), WasRead(t[j]) PROVE \E m \in 1..(i - 1) : c.insns[m].id = t[j].id
    <3>1. j # l + 1
      BY <2>1, <2>4, <2>6 DEF WasRead
    <3>2. j \in 1..l
      BY <2>4, <3>1
    <3>3. t[j] = s[j]
      BY <2>4, <3>2
    <3> QED BY <1>1, <2>6, <3>2, <3>3 DEF l
  <2>7. ASSUME NEW k \in 1..Len(t), t[k].op = "label" PROVE t[k].id <= o
    <3>1. CASE k = l + 1
      BY <3>1, <1>3, <2>1, <2>4
    <3>2. CASE k # l + 1
      <4>1. k \in 1..l
        BY <2>4, <3>2
      <4>2. t[k] = s[k]
        BY <2>4, <4>1
      <4> QED BY <1>1, <2>7, <4>1, <4>2 DEF l
    <3> QED BY <3>1, <3>2
  <2>8. Gathered(c, t, i - 1, o)
    BY <2>4, <2>5, <2>6, <2>7 DEF Gathered
  <2> QED BY <2>3, <2>8 DEF o
<1>5. CASE o \notin Places(c)
  <2>1. LabelAt(c, i) = <<>>
    BY <1>5 DEF LabelAt
  <2>2. s \o <<>> = s
    BY <1>1
  <2> QED BY <2>1, <2>2
<1> QED BY <1>4, <1>5

LEMMA GatheredInsn ==
    ASSUME NEW c, Shaped(c), IdsDiffer(c), NEW i \in 1..Len(c.insns), NEW s, Gathered(c, s, i - 1, Offsets(c.insns)[i])
    PROVE  Gathered(c, Append(s, LiftedInsn(c, i)), i, Offsets(c.insns)[i + 1])
<1> DEFINE o == Offsets(c.insns)[i]
           e == Offsets(c.insns)[i + 1]
           n == Len(c.insns)
           x == LiftedInsn(c, i)
           t == Append(s, x)
           l == Len(s)
<1>1. /\ s \in Seq(Items) /\ ItemsFollow(c, s)
      /\ \A j \in 1..Len(s) : WasRead(s[j]) => \E m \in 1..(i - 1) : c.insns[m].id = s[j].id
      /\ \A k \in 1..Len(s) : s[k].op = "label" => s[k].id <= o
  BY DEF Gathered
<1>2. c.insns \in Seq(Instructions) /\ n \in Nat /\ DOMAIN c.insns = 1..n
  BY GroupsAre DEF Shaped
<1>3. x \in Items /\ x.id = c.insns[i].id /\ x.targets = c.insns[i].targets
  BY GroupsAre DEF LiftedInsn
<1>4. x.op # "label"
  <2>1. c.insns[i] \in Instructions
    BY <1>2
  <2> QED BY <2>1, OpsHaveLengths DEF LiftedInsn, Instructions
<1>5. o \in Nat /\ e \in Nat /\ o < e /\ \A k \in 1..n : ~(o < Offsets(c.insns)[k]) /\ k # i => k < i
  <2>1. i \in 1..(n + 1) /\ i + 1 \in 1..(n + 1) /\ i < i + 1
    BY <1>2
  <2>2. o \in Nat /\ e \in Nat /\ o < e
    BY <1>2, <2>1, OffsetsRise
  <2>3. ASSUME NEW k \in 1..n, ~(o < Offsets(c.insns)[k]), k # i PROVE k < i
    <3>1. k \in 1..(n + 1) /\ (i < k \/ k < i)
      BY <1>2, <2>3
    <3>2. i < k => o < Offsets(c.insns)[k]
      BY <1>2, <2>1, <3>1, OffsetsRise
    <3> QED BY <3>1, <3>2, <2>3
  <2> QED BY <2>2, <2>3
<1>6. ASSUME NEW m \in 1..n, c.insns[m].id = x.id, x.id # 0 PROVE m = i
  BY <1>2, <1>3, <1>6 DEF IdsDiffer
<1>7. MayFollow(c, s, x)
  <2>1. ASSUME WasRead(x), NEW k \in 1..Len(s), s[k].op = "label" PROVE x.id \notin Before(c, s[k].id)
    <3> SUFFICES ASSUME x.id \in Before(c, s[k].id) PROVE FALSE
      OBVIOUS
    <3> DEFINE q == s[k].id
    <3>1. PICK m \in 1..Len(c.insns) : c.insns[m].id = x.id /\ Offsets(c.insns)[m] < q
      <4> HIDE DEF x, q
      <4>1. x.id \in Before(c, q)
        BY DEF q
      <4> QED BY <1>2, <4>1, InBefore
    <3>2. x.id # 0
      BY <2>1 DEF WasRead
    <3>3. m = i
      BY <3>1, <3>2, <1>6
    <3>4. q <= o /\ q \in Nat /\ o \in Nat
      <4>1. s[k] \in Items
        BY <1>1
      <4> QED BY <1>1, <1>5, <2>1, <4>1 DEF Items
    <3>5. o < q
      BY <3>1, <3>3
    <3> HIDE DEF q, o
    <3> QED BY <3>4, <3>5
  <2>2. ASSUME WasRead(x), NEW j \in 1..Len(s), WasRead(s[j]) PROVE s[j].id # x.id
    <3>1. PICK m \in 1..(i - 1) : c.insns[m].id = s[j].id
      BY <1>1, <2>2
    <3>2. m \in 1..n /\ m # i
      BY <1>2
    <3> QED BY <3>1, <3>2, <1>6, <2>2 DEF WasRead
  <2>3. ASSUME WasRead(x), NEW k \in 1..Len(c.insns), c.insns[k].id = x.id PROVE x.targets = c.insns[k].targets
    <3>1. k = i
      BY <2>3, <1>6 DEF WasRead
    <3> QED BY <3>1, <1>3
  <2> HIDE DEF x
  <2> QED BY <2>1, <2>2, <2>3, <1>4 DEF MayFollow
<1> HIDE DEF o, x, n, e
<1>8. t \in Seq(Items) /\ l \in Nat /\ Len(t) = l + 1 /\ t[l + 1] = x /\ \A k \in 1..l : t[k] = s[k]
  BY <1>1, <1>3, AppendElements
<1>9. ItemsFollow(c, t)
  BY <1>1, <1>3, <1>7, FollowsWithMore
<1> HIDE DEF t
<1>10. ASSUME NEW j \in 1..Len(t), WasRead(t[j]) PROVE \E m \in 1..i : c.insns[m].id = t[j].id
  <2>1. CASE j = l + 1
    BY <2>1, <1>3, <1>8
  <2>2. CASE j # l + 1
    <3>1. j \in 1..l
      BY <2>2, <1>8
    <3>2. t[j] = s[j]
      BY <1>8, <3>1
    <3>3. PICK m \in 1..(i - 1) : c.insns[m].id = s[j].id
      BY <1>1, <1>10, <3>1, <3>2 DEF l
    <3>4. m \in 1..i
      OBVIOUS
    <3> QED BY <3>2, <3>3, <3>4
  <2> QED BY <2>1, <2>2
<1>11. ASSUME NEW k \in 1..Len(t), t[k].op = "label" PROVE t[k].id <= e
  <2>1. k # l + 1
    BY <1>4, <1>8, <1>11
  <2>2. k \in 1..l
    BY <2>1, <1>8
  <2>3. t[k] = s[k]
    BY <1>8, <2>2
  <2>4. s[k].id <= o /\ s[k].id \in Nat
    <3>1. s[k] \in Items
      BY <1>1, <2>2 DEF l
    <3> QED BY <1>1, <1>11, <2>2, <2>3, <3>1 DEF l, Items
  <2> QED BY <2>3, <2>4, <1>5
<1>12. Gathered(c, t, i, e)
  BY <1>8, <1>9, <1>10, <1>11 DEF Gathered
<1> QED BY <1>12 DEF t, e, x

LEMMA LiftedFollows ==
    ASSUME NEW c, Shaped(c), IdsDiffer(c) PROVE ItemsFollow(c, LiftedItems(c))
<1> DEFINE n == Len(c.insns)
           o(i) == Offsets(c.insns)[i]
           N == {i \in 0..n : Gathered(c, Grown(c, i), i, o(i + 1))}
<1>1. n \in Nat
  BY GroupsAre
<1>2. 0 \in N
  <2>1. <<>> \in Seq(Items) /\ Len(<<>>) = 0
    OBVIOUS
  <2>2. ItemsFollow(c, <<>>)
    BY <2>1 DEF ItemsFollow, Ordered, OwnIds, TargetsAreRead
  <2>3. Gathered(c, <<>>, 0, o(0 + 1))
    BY <2>1, <2>2 DEF Gathered
  <2>4. 0 \in 0..n
    BY <1>1
  <2> HIDE DEF o
  <2> QED BY <2>3, <2>4, GrownSteps
<1>3. ASSUME NEW i \in 1..n, i - 1 \in N PROVE i \in N
  <2>1. i \in 0..n /\ (i - 1) + 1 = i /\ i \in 1..(n + 1)
    BY <1>1
  <2>2. Gathered(c, Grown(c, i - 1), i - 1, o(i))
    BY <1>3, <2>1
  <2>3. Gathered(c, Grown(c, i - 1) \o LabelAt(c, i), i - 1, o(i))
    BY <2>1, <2>2, GatheredLabel
  <2> DEFINE s == Grown(c, i - 1) \o LabelAt(c, i)
  <2>4. Gathered(c, s, i - 1, Offsets(c.insns)[i])
    BY <2>3
  <2> HIDE DEF s
  <2>5. Gathered(c, Append(s, LiftedInsn(c, i)), i, Offsets(c.insns)[i + 1])
    BY <2>4, GatheredInsn
  <2>6. Grown(c, i) = Append(s, LiftedInsn(c, i))
    BY GrownSteps DEF s
  <2> QED BY <2>1, <2>5, <2>6
<1> HIDE DEF N, n
<1>4. 0..n \subseteq N
  BY <1>1, <1>2, <1>3, UpTo
<1> DEFINE m == n + 1
<1>5. Gathered(c, Grown(c, n), m - 1, Offsets(c.insns)[m])
  <2>1. n \in 0..n /\ m - 1 = n
    BY <1>1
  <2> QED BY <2>1, <1>4 DEF N
<1>6. m \in 1..(Len(c.insns) + 1)
  BY <1>1 DEF n
<1> HIDE DEF m
<1>7. Gathered(c, Grown(c, n) \o LabelAt(c, m), m - 1, Offsets(c.insns)[m])
  BY <1>5, <1>6, GatheredLabel
<1>8. LiftedItems(c) = Grown(c, n) \o LabelAt(c, m)
  BY GrownSteps, LiftedIs DEF n, m
<1> QED BY <1>7, <1>8 DEF Gathered

\* Handlers that are left are handlers that were read, each once.
HandlersFollow(c, hs) ==
    /\ \A i \in 1..Len(hs) : hs[i] \in Range(c.handlers)
    /\ \A i, j \in 1..Len(hs) : hs[i].id = hs[j].id => i = j

LEMMA RemovingFollows ==
    ASSUME NEW c, NEW hs \in Seq(Handlers), HandlersFollow(c, hs), NEW k \in DOMAIN hs
    PROVE  HandlersFollow(c, RemoveAt(hs, k))
<1> DEFINE v == RemoveAt(hs, k)
           n == Len(hs)
<1>1. n \in Nat /\ k \in 1..n /\ v \in Seq(Handlers)
  BY RemoveAtIsList
<1>2. v = splice(hs, k, k + 1, <<>>)
  <2>1. SubSeq(hs, 1, k - 1) \in Seq(Handlers) /\ SubSeq(hs, k + 1, n) \in Seq(Handlers)
    <3>1. \A i \in 1..(k - 1) : hs[i] \in Handlers
      BY <1>1
    <3>2. \A i \in (k + 1)..n : hs[i] \in Handlers
      BY <1>1
    <3>3. 1 \in Int /\ k - 1 \in Int /\ k + 1 \in Int /\ n \in Int
      BY <1>1
    <3> QED BY <3>1, <3>2, <3>3, SubSeqProperties
  <2> DEFINE a == SubSeq(hs, 1, k - 1)
             b == SubSeq(hs, k + 1, n)
  <2>2. v = a \o b /\ splice(hs, k, k + 1, <<>>) = a \o <<>> \o b
    BY DEF RemoveAt, splice
  <2> HIDE DEF a, b
  <2>3. a \o <<>> = a
    BY <2>1 DEF a
  <2> QED BY <2>2, <2>3
<1>3. Thinned(v, hs, {})
  <2>1. <<>> \in Seq(Handlers) /\ Range(<<>>) = {}
    BY RangesOfFew
  <2>2. k \in 1..(n + 1) /\ k + 1 \in k..(n + 1)
    BY <1>1
  <2> DEFINE b == k + 1
  <2> HIDE DEF v, b
  <2>3. b \in k..(Len(hs) + 1) /\ k \in 1..(Len(hs) + 1)
    BY <2>2 DEF b
  <2>4. Thinned(splice(hs, k, b, <<>>), hs, Range(<<>>))
    BY <2>1, <2>3, SpliceThins
  <2> QED BY <2>1, <2>4, <1>2 DEF b
<1> HIDE DEF v
<1>4. PICK f : Thins(v, hs, {}, f)
  BY <1>3 DEF Thinned
<1>5. ASSUME NEW i \in 1..Len(v) PROVE f[i] # 0 /\ f[i] \in 1..n /\ v[i] = hs[f[i]]
  <2>1. f[i] # 0 /\ f[i] \in 0..Len(hs) /\ v[i] = hs[f[i]]
    BY <1>4 DEF Thins
  <2> QED BY <2>1
<1>6. ASSUME NEW i \in 1..Len(v), NEW j \in 1..Len(v), v[i].id = v[j].id PROVE i = j
  <2>1. f[i] = f[j] /\ f[i] # 0 /\ f[j] # 0
    <3>1. \A a, b \in 1..n : hs[a].id = hs[b].id => a = b
      BY DEF HandlersFollow
    <3>2. f[i] # 0 /\ f[i] \in 1..n /\ v[i] = hs[f[i]]
      BY <1>5
    <3>3. f[j] # 0 /\ f[j] \in 1..n /\ v[j] = hs[f[j]]
      BY <1>5
    <3>4. hs[f[i]].id = hs[f[j]].id
      BY <3>2, <3>3, <1>6, Zenon
    <3> HIDE DEF n
    <3> QED BY <3>1, <3>2, <3>3, <3>4, Zenon
  <2>2. (i < j => f[i] < f[j]) /\ (j < i => f[j] < f[i])
    BY <1>4, <2>1 DEF Thins
  <2>3. f[i] \in Int /\ i \in Int /\ j \in Int
    BY <1>5
  <2> QED BY <2>1, <2>2, <2>3
<1>7. \A i \in 1..Len(v) : v[i] \in Range(c.handlers)
  BY <1>5 DEF HandlersFollow
<1> QED BY <1>6, <1>7 DEF HandlersFollow, v

\* An instruction that is written and the item that it was.
Lowers(items, insns, i, j) ==
    /\ i \in 1..Len(insns) /\ j \in 1..Len(items) /\ items[j] \in Items /\ items[j].op # "label"
    /\ insns[i] = LoweredInsn(items[j], compute_label_offsets(items))
    /\ Offsets(insns)[i] = ItemOffsets(items)[j]

LEMMA InsnsAreItems ==
    ASSUME NEW items \in Seq(Items), TargetsAreLabels(items), NEW insns,
           insns = LoweredInsns(items, compute_label_offsets(items))
    PROVE  /\ \A i \in 1..Len(insns) : \E j : Lowers(items, insns, i, j)
           /\ \A j \in 1..Len(items) : items[j].op # "label" => \E i : Lowers(items, insns, i, j)
<1> DEFINE n == Len(items)
           at == compute_label_offsets(items)
           H == {i \in DOMAIN items : items[i] \in InsnItems}
           kept == Kept(items, H)
<1>1. n \in Nat /\ DOMAIN items = 1..n /\ \A i \in 1..n : items[i] \in Items
  OBVIOUS
<1>2. /\ kept \in Seq(InsnItems)
      /\ insns = [i \in 1..Len(kept) |-> LoweredInsn(kept[i], at)]
  BY LoweredInsnsAre DEF Chosen
<1>3. \A i \in 1..(n + 1) : ItemOffsets(items)[i] = Offsets(insns)[Tally(items, H, i - 1) + 1]
  BY ItemOffsetsAreOffsets
<1>4. \A j \in 1..n : j \in H <=> items[j].op # "label"
  BY <1>1 DEF InsnItems
<1> HIDE DEF H, at, kept
<1>5. Len(insns) = Len(kept) /\ \A i \in 1..Len(kept) : insns[i] = LoweredInsn(kept[i], at)
  BY <1>2
<1>6. ASSUME NEW j \in 1..n, j \in H PROVE Lowers(items, insns, Tally(items, H, j), j)
  <2>1. /\ Tally(items, H, j) \in 1..Len(kept) /\ Tally(items, H, j) = Tally(items, H, j - 1) + 1
        /\ kept[Tally(items, H, j)] = items[j]
    BY <1>6, KeptElements DEF kept
  <2>2. j \in 1..(n + 1)
    BY <1>1
  <2>3. ItemOffsets(items)[j] = Offsets(insns)[Tally(items, H, j)]
    BY <1>3, <2>1, <2>2
  <2>4. insns[Tally(items, H, j)] = LoweredInsn(items[j], at)
    BY <1>5, <2>1
  <2>5. items[j] \in Items /\ items[j].op # "label"
    BY <1>1, <1>4, <1>6
  <2> QED BY <1>5, <2>1, <2>3, <2>4, <2>5 DEF Lowers, at
<1>7. ASSUME NEW i \in 1..Len(insns) PROVE \E j : Lowers(items, insns, i, j)
  <2>1. i \in 1..Len(Kept(items, H))
    BY <1>5 DEF kept
  <2>2. PICK j \in 1..n : j \in H /\ Tally(items, H, j) = i
    BY <2>1, KeptOnto
  <2> QED BY <2>2, <1>6
<1>8. ASSUME NEW j \in 1..n, items[j].op # "label" PROVE \E i : Lowers(items, insns, i, j)
  BY <1>4, <1>6, <1>8
<1> QED BY <1>7, <1>8

\* An instruction begins before a label iff its item stands before it.
LEMMA ItemsRise ==
    ASSUME NEW items \in Seq(Items), NEW j \in 1..Len(items), items[j].op # "label", NEW k \in 1..Len(items)
    PROVE  ItemOffsets(items)[j] < ItemOffsets(items)[k] <=> j < k
<1> DEFINE n == Len(items)
           f == ItemOffsets(items)
<1>1. n \in Nat /\ \A i \in 1..n : items[i] \in Items
  OBVIOUS
<1>2. f \in [1..(n + 1) -> Nat] /\ \A i \in 1..n : f[i + 1] = f[i] + instruction_size(items[i])
  BY ItemOffsetsFacts
<1>3. \A i \in 1..n : instruction_size(items[i]) \in Nat
  BY <1>1, SizesAreNumbers
<1>4. instruction_size(items[j]) \in Nat \ {0}
  <2>1. items[j].op \in Ops
    BY <1>1 DEF Items
  <2> QED BY <2>1, OpsHaveLengths DEF instruction_size
<1> HIDE DEF n, f
<1>5. \A i \in 1..(n + 1) : f[i] \in Nat
  BY <1>2
<1>6. \A i \in 1..n : f[i] <= f[i + 1]
  <2> TAKE i \in 1..n
  <2>1. i \in 1..(n + 1)
    BY <1>1
  <2> QED BY <2>1, <1>2, <1>3, <1>5
<1>7. j \in 1..(n + 1) /\ j + 1 \in 1..(n + 1) /\ k \in 1..(n + 1) /\ j \in 1..n
  BY <1>1 DEF n
<1>8. f[j] \in Nat /\ f[k] \in Nat /\ f[j + 1] \in Nat /\ f[j] < f[j + 1]
  <2>1. f[j + 1] = f[j] + instruction_size(items[j])
    BY <1>2, <1>7
  <2>2. f[j] \in Nat /\ f[k] \in Nat /\ f[j + 1] \in Nat
    BY <1>5, <1>7
  <2> QED BY <2>1, <2>2, <1>4
<1>9. CASE j < k
  <2>1. j + 1 <= k
    BY <1>7, <1>9
  <2> DEFINE m == j + 1
  <2>2. m \in 1..(n + 1) /\ m <= k
    BY <2>1, <1>7
  <2> HIDE DEF m
  <2>3. f[m] <= f[k]
    BY <1>1, <1>5, <1>6, <1>7, <2>2, NeverFalls
  <2> QED BY <2>3, <1>8, <1>9 DEF f, m
<1>10. CASE ~(j < k)
  <2>1. k <= j
    BY <1>7, <1>10
  <2>2. f[k] <= f[j]
    BY <1>1, <1>5, <1>6, <1>7, <2>1, NeverFalls
  <2> QED BY <2>2, <1>8, <1>10 DEF f
<1> QED BY <1>9, <1>10

\* d holds the instructions that the items are lowered to, which follow those of c.
WrittenFrom(c, items, d) ==
    /\ Shaped(c) /\ Shaped(d) /\ items \in Seq(Items) /\ TargetsAreLabels(items) /\ ItemsFollow(c, items)
    /\ d.insns = LoweredInsns(items, compute_label_offsets(items))

\* A label divides the instructions as it did when it was an offset.
LEMMA LabelFollows ==
    ASSUME NEW c, NEW items, NEW d, WrittenFrom(c, items, d), NEW l \in LabelsIn(items)
    PROVE  Follows(c, l, d, compute_label_offsets(items)[l])
<1> DEFINE at == compute_label_offsets(items)
           insns == d.insns
           q == at[l]
<1>1. /\ Shaped(c) /\ Shaped(d) /\ items \in Seq(Items) /\ TargetsAreLabels(items) /\ ItemsFollow(c, items)
      /\ insns = LoweredInsns(items, at)
  BY DEF WrittenFrom
<1>2. PICK k : LastAt(items, l, k) /\ q = ItemOffsets(items)[k]
  BY <1>1, LabelsArePlaced
<1>3. k \in 1..Len(items) /\ items[k].op = "label" /\ items[k].id = l
  <2>1. k \in 1..Len(items) /\ items[k] = Label(l) /\ l \in Nat
    BY <1>1, <1>2, LabelsArePlaced DEF LastAt
  <2> QED BY <2>1, LabelIsItem
<1>4. q \in Range(Offsets(insns))
  BY <1>1, LabelsAreOffsets
<1>5. insns \in Seq(Instructions) /\ c.insns \in Seq(Instructions) /\ DOMAIN insns = 1..Len(insns) /\ DOMAIN c.insns = 1..Len(c.insns)
  BY <1>1 DEF Shaped
<1>6. /\ \A i \in 1..Len(insns) : \E j : Lowers(items, insns, i, j)
      /\ \A j \in 1..Len(items) : items[j].op # "label" => \E i : Lowers(items, insns, i, j)
  BY <1>1, InsnsAreItems
<1>7. ASSUME NEW i, NEW j, Lowers(items, insns, i, j)
      PROVE  /\ i \in 1..Len(insns) /\ j \in 1..Len(items) /\ insns[i].id = items[j].id
             /\ Offsets(insns)[i] < q <=> j < k
             /\ insns[i].id # 0 => (j < k <=> insns[i].id \in Before(c, l))
  <2>1. /\ i \in 1..Len(insns) /\ j \in 1..Len(items) /\ items[j].op # "label"
        /\ insns[i] = LoweredInsn(items[j], at) /\ Offsets(insns)[i] = ItemOffsets(items)[j]
    BY <1>7 DEF Lowers
  <2>2. insns[i].id = items[j].id
    BY <2>1 DEF LoweredInsn
  <2>3. Offsets(insns)[i] < q <=> j < k
    BY <1>1, <1>2, <1>3, <2>1, ItemsRise
  <2>4. ASSUME insns[i].id # 0 PROVE j < k <=> insns[i].id \in Before(c, l)
    BY <1>1, <1>3, <2>1, <2>2, <2>4 DEF ItemsFollow, Ordered, WasRead
  <2> HIDE DEF insns, q
  <2> QED BY <2>1, <2>2, <2>3, <2>4
<1> HIDE DEF at, q
<1>8. ASSUME NEW x \in Before(d, q), x \in Ids(c) PROVE x \in Before(c, l) /\ x \in Ids(d)
  <2>1. x # 0 /\ \E i \in 1..Len(d.insns) : d.insns[i].id = x /\ Offsets(d.insns)[i] < q
    BY <1>5, InBefore
  <2>2. PICK i \in 1..Len(insns) : insns[i].id = x /\ Offsets(insns)[i] < q
    BY <2>1
  <2>3. PICK j : Lowers(items, insns, i, j)
    BY <1>6
  <2>4. x \in Before(c, l)
    BY <1>7, <2>1, <2>2, <2>3
  <2>5. x \in Ids(d)
    BY <1>5, <2>1, <2>2 DEF Ids
  <2> QED BY <2>4, <2>5
<1>9. ASSUME NEW x \in Before(c, l), x \in Ids(d) PROVE x \in Before(d, q) /\ x \in Ids(c)
  <2>1. x # 0 /\ \E i \in 1..Len(c.insns) : c.insns[i].id = x
    BY <1>5, InBefore
  <2>2. PICK i \in 1..Len(insns) : insns[i].id = x
    BY <1>5, <1>9 DEF Ids
  <2>3. PICK j : Lowers(items, insns, i, j)
    BY <1>6
  <2>4. Offsets(insns)[i] < q
    BY <1>7, <2>1, <2>2, <2>3
  <2>5. x \in Before(d, q)
    <3>1. \E m \in 1..Len(d.insns) : d.insns[m].id = x /\ Offsets(d.insns)[m] < q
      BY <2>2, <2>4
    <3> QED BY <2>1, <3>1, <1>5, InBefore
  <2>6. x \in Ids(c)
    BY <1>5, <2>1 DEF Ids
  <2> QED BY <2>5, <2>6
<1>10. Before(d, q) \cap Ids(c) = Before(c, l) \cap Ids(d)
  <2> DEFINE A == Before(d, q)
             B == Before(c, l)
             C == Ids(c)
             D == Ids(d)
  <2>1. \A x \in A : x \in C => x \in B /\ x \in D
    BY <1>8
  <2>2. \A x \in B : x \in D => x \in A /\ x \in C
    BY <1>9
  <2> HIDE DEF A, B, C, D
  <2>3. A \cap C = B \cap D
    BY <2>1, <2>2
  <2> QED BY <2>3 DEF A, B, C, D
<1> QED BY <1>4, <1>10 DEF Follows, at, q

LEMMA LabelsFollow ==
    ASSUME NEW c, NEW items, NEW d, WrittenFrom(c, items, d), NEW ps \in Seq(Nat), Range(ps) \subseteq LabelsIn(items)
    PROVE  AllFollow(c, ps, d, [k \in DOMAIN ps |-> compute_label_offsets(items)[ps[k]]])
<1> DEFINE at == compute_label_offsets(items)
           qs == [k \in DOMAIN ps |-> at[ps[k]]]
<1>1. DOMAIN ps = 1..Len(ps) /\ Len(ps) \in Nat
  OBVIOUS
<1>2. ASSUME NEW k \in 1..Len(ps) PROVE Follows(c, ps[k], d, at[ps[k]])
  <2>1. ps[k] \in LabelsIn(items)
    BY RangeOfList
  <2> QED BY <2>1, LabelFollows
<1> HIDE DEF at
<1>3. Len(ps) = Len(qs) /\ \A k \in DOMAIN ps : qs[k] = at[ps[k]]
  BY <1>1
<1> QED BY <1>1, <1>2, <1>3 DEF AllFollow, at

\* The parts of PlacesFollow.
TargetsFollow(c, d) ==
    \A j \in DOMAIN d.insns : \A i \in DOMAIN c.insns :
        c.insns[i].id = d.insns[j].id /\ c.insns[i].id # 0 =>
            AllFollow(c, c.insns[i].targets, d, d.insns[j].targets)

RangesFollow(c, d) ==
    \A h \in Range(d.handlers) : \A g \in Range(c.handlers) :
        g.id = h.id =>
            AllFollow(c, <<g.start, g.end, g.handler>>, d, <<h.start, h.end, h.handler>>)

TablesFollow(c, d) ==
    \A kind \in DebugKinds : \A table \in Range(OfKind(d.attrs, {kind})) :
        AllFollow(c, Table(c.attrs, kind), d, table.at)

LEMMA WrittenTargetsFollow ==
    ASSUME NEW c, NEW items, NEW d, WrittenFrom(c, items, d) PROVE TargetsFollow(c, d)
<1> SUFFICES ASSUME NEW j \in DOMAIN d.insns, NEW i \in DOMAIN c.insns,
                    c.insns[i].id = d.insns[j].id, c.insns[i].id # 0
             PROVE  AllFollow(c, c.insns[i].targets, d, d.insns[j].targets)
  BY DEF TargetsFollow
<1> DEFINE at == compute_label_offsets(items)
<1>1. /\ Shaped(c) /\ Shaped(d) /\ items \in Seq(Items) /\ TargetsAreLabels(items) /\ ItemsFollow(c, items)
      /\ d.insns = LoweredInsns(items, at)
  BY DEF WrittenFrom
<1>2. j \in 1..Len(d.insns) /\ i \in 1..Len(c.insns)
  BY <1>1 DEF Shaped
<1>3. PICK m : Lowers(items, d.insns, j, m)
  BY <1>1, <1>2, InsnsAreItems
<1>4. /\ m \in 1..Len(items) /\ items[m] \in Items /\ items[m].op # "label"
      /\ d.insns[j] = LoweredInsn(items[m], at)
  BY <1>3 DEF Lowers
<1>5. d.insns[j].id = items[m].id /\ d.insns[j].targets = [k \in DOMAIN items[m].targets |-> at[items[m].targets[k]]]
  BY <1>4 DEF LoweredInsn
<1>6. items[m].targets = c.insns[i].targets
  BY <1>1, <1>2, <1>4, <1>5 DEF ItemsFollow, TargetsAreRead, WasRead
<1> DEFINE ps == items[m].targets
<1>7. ps \in Seq(Nat) /\ Range(ps) \subseteq LabelsIn(items)
  <2>1. items[m] \in Range(items)
    BY <1>1, <1>4, RangeOfList
  <2> QED BY <1>1, <1>4, <2>1 DEF TargetsAreLabels, Items
<1> HIDE DEF ps
<1>8. AllFollow(c, ps, d, [k \in DOMAIN ps |-> at[ps[k]]])
  BY <1>7, LabelsFollow
<1> QED BY <1>5, <1>6, <1>8 DEF ps

LEMMA WrittenRangesFollow ==
    ASSUME NEW c, NEW items, NEW d, WrittenFrom(c, items, d), IdsDiffer(c), NEW hs \in Seq(Handlers),
           HandlersFollow(c, hs), d.handlers = LoweredHandlers(hs, compute_label_offsets(items)),
           \A h \in Range(hs) : {h.start, h.end, h.handler} \subseteq LabelsIn(items)
    PROVE  RangesFollow(c, d)
<1> SUFFICES ASSUME NEW h \in Range(d.handlers), NEW g \in Range(c.handlers), g.id = h.id
             PROVE  AllFollow(c, <<g.start, g.end, g.handler>>, d, <<h.start, h.end, h.handler>>)
  BY DEF RangesFollow
<1> DEFINE at == compute_label_offsets(items)
<1>1. DOMAIN hs = 1..Len(hs) /\ \A k \in 1..Len(hs) : hs[k] \in Handlers /\ hs[k] \in Range(hs)
  BY RangeOfList
<1> HIDE DEF at
<1>2. PICK k \in 1..Len(hs) : h = [id |-> hs[k].id, start |-> at[hs[k].start], end |-> at[hs[k].end],
                                   handler |-> at[hs[k].handler]]
  <2>1. d.handlers = [k \in 1..Len(hs) |-> [id |-> hs[k].id, start |-> at[hs[k].start], end |-> at[hs[k].end],
                                            handler |-> at[hs[k].handler]]]
    BY <1>1 DEF LoweredHandlers, at
  <2> QED BY <2>1 DEF Range
<1>3. g = hs[k]
  <2>1. hs[k] \in Range(c.handlers)
    BY DEF HandlersFollow
  <2>2. PICK a \in DOMAIN c.handlers : hs[k] = c.handlers[a]
    BY <2>1 DEF Range
  <2>3. PICK b \in DOMAIN c.handlers : g = c.handlers[b]
    BY DEF Range
  <2>4. c.handlers[a].id = c.handlers[b].id
    BY <1>2, <2>2, <2>3
  <2>5. a = b
    BY <2>4 DEF IdsDiffer
  <2> QED BY <2>2, <2>3, <2>5
<1> DEFINE ps == <<g.start, g.end, g.handler>>
<1>4. ps \in Seq(Nat) /\ Range(ps) \subseteq LabelsIn(items)
  <2>1. g \in Handlers /\ {g.start, g.end, g.handler} \subseteq LabelsIn(items)
    BY <1>1, <1>3
  <2>2. g.start \in Nat /\ g.end \in Nat /\ g.handler \in Nat
    BY <2>1 DEF Handlers
  <2>3. Range(ps) = {g.start, g.end, g.handler}
    BY DEF Range
  <2> QED BY <2>1, <2>2, <2>3
<1>5. [i \in DOMAIN ps |-> at[ps[i]]] = <<at[g.start], at[g.end], at[g.handler]>>
  OBVIOUS
<1>6. <<h.start, h.end, h.handler>> = <<at[g.start], at[g.end], at[g.handler]>>
  BY <1>2, <1>3
<1> HIDE DEF ps
<1>7. AllFollow(c, ps, d, [i \in DOMAIN ps |-> at[ps[i]]])
  BY <1>4, LabelsFollow DEF at
<1> QED BY <1>5, <1>6, <1>7 DEF ps

LEMMA WrittenTablesFollow ==
    ASSUME NEW c, NEW model \in Models, NEW d, WrittenFrom(c, model.items, d),
           model.tables = [kind \in DebugKinds |-> Table(c.attrs, kind)], NEW strip,
           Referenced(model, strip) \subseteq LabelsIn(model.items),
           NEW frames, NEW recompute, KeepsAttributes(model, strip, frames, recompute, d)
    PROVE  TablesFollow(c, d)
<1> SUFFICES ASSUME NEW kind \in DebugKinds, NEW table \in Range(OfKind(d.attrs, {kind}))
             PROVE  AllFollow(c, Table(c.attrs, kind), d, table.at)
  BY DEF TablesFollow
<1> DEFINE items == model.items
           at == compute_label_offsets(items)
           ps == model.tables[kind]
<1>1. ps = Table(c.attrs, kind) /\ ps \in Seq(Nat)
  BY ModelFields
<1>2. table \in Range(LoweredTable(model, kind, strip, at))
  BY DEF KeepsAttributes
<1> HIDE DEF at
<1>3. ~strip_debug_info(model, strip) /\ table = [kind |-> kind, at |-> [k \in DOMAIN ps |-> at[ps[k]]]]
  <2> DEFINE t == [kind |-> kind, at |-> [k \in DOMAIN ps |-> at[ps[k]]]]
  <2>1. LoweredTable(model, kind, strip, at) = IF strip_debug_info(model, strip) \/ ps = <<>> THEN <<>> ELSE <<t>>
    BY DEF LoweredTable
  <2> HIDE DEF t
  <2>2. ~strip_debug_info(model, strip) /\ table \in Range(<<t>>)
    BY <1>2, <2>1, RangesOfFew
  <2>3. table = t
    BY <2>2, RangesOfFew
  <2> QED BY <2>2, <2>3 DEF t
<1>4. Range(ps) \subseteq LabelsIn(items)
  BY <1>3, ReferencesAre
<1> HIDE DEF ps, items
<1>5. WrittenFrom(c, items, d)
  BY DEF items
<1>6. AllFollow(c, ps, d, [k \in DOMAIN ps |-> at[ps[k]]])
  BY <1>1, <1>4, <1>5, LabelsFollow DEF at
<1> QED BY <1>1, <1>3, <1>6

\* What is written can be told apart again.
LEMMA WrittenDiffer ==
    ASSUME NEW c, NEW items, NEW d, WrittenFrom(c, items, d), NEW hs \in Seq(Handlers),
           HandlersFollow(c, hs), d.handlers = LoweredHandlers(hs, compute_label_offsets(items))
    PROVE  IdsDiffer(d)
<1> DEFINE at == compute_label_offsets(items)
           insns == d.insns
<1>1. /\ Shaped(d) /\ items \in Seq(Items) /\ TargetsAreLabels(items) /\ ItemsFollow(c, items)
      /\ insns = LoweredInsns(items, at)
  BY DEF WrittenFrom
<1>2. insns \in Seq(Instructions) /\ DOMAIN insns = 1..Len(insns) /\ Len(insns) \in Nat
  BY <1>1 DEF Shaped
<1>3. \A i \in 1..Len(insns) : \E m : Lowers(items, insns, i, m)
  BY <1>1, InsnsAreItems
<1>4. ASSUME NEW i \in 1..Len(insns), NEW j \in 1..Len(insns), insns[i].id = insns[j].id, insns[i].id # 0
      PROVE  i = j
  <2>1. PICK m : Lowers(items, insns, i, m)
    BY <1>3
  <2>2. PICK k : Lowers(items, insns, j, k)
    BY <1>3
  <2>3. /\ m \in 1..Len(items) /\ items[m].op # "label" /\ insns[i].id = items[m].id
        /\ Offsets(insns)[i] = ItemOffsets(items)[m]
    BY <2>1 DEF Lowers, LoweredInsn
  <2>4. /\ k \in 1..Len(items) /\ items[k].op # "label" /\ insns[j].id = items[k].id
        /\ Offsets(insns)[j] = ItemOffsets(items)[k]
    BY <2>2 DEF Lowers, LoweredInsn
  <2> HIDE DEF insns
  <2>5. m = k
    BY <1>1, <1>4, <2>3, <2>4 DEF ItemsFollow, OwnIds, WasRead
  <2>6. Offsets(insns)[i] = Offsets(insns)[j]
    BY <2>3, <2>4, <2>5
  <2>7. i \in 1..(Len(insns) + 1) /\ j \in 1..(Len(insns) + 1)
    BY <1>2
  <2>8. i < j => Offsets(insns)[i] < Offsets(insns)[j]
    BY <1>2, <2>7, OffsetsRise
  <2>9. j < i => Offsets(insns)[j] < Offsets(insns)[i]
    BY <1>2, <2>7, OffsetsRise
  <2>10. Offsets(insns)[i] \in Nat /\ i \in Nat /\ j \in Nat
    BY <1>2, <2>7, OffsetsRise
  <2> QED BY <2>6, <2>8, <2>9, <2>10
<1>5. DOMAIN d.handlers = 1..Len(hs) /\ \A k \in 1..Len(hs) : d.handlers[k].id = hs[k].id
  <2>1. DOMAIN hs = 1..Len(hs)
    OBVIOUS
  <2> QED BY <2>1 DEF LoweredHandlers
<1>6. \A i, j \in DOMAIN d.handlers : d.handlers[i].id = d.handlers[j].id => i = j
  BY <1>5 DEF HandlersFollow
<1>7. \A i, j \in DOMAIN d.insns : d.insns[i].id = d.insns[j].id => i = j \/ d.insns[i].id = 0
  BY <1>2, <1>4
<1> QED BY <1>6, <1>7 DEF IdsDiffer

CodeFollows == IdsDiffer(origin) /\ ItemsFollow(origin, code.items) /\ HandlersFollow(origin, code.handlers)

PlacesInvariant == AttributesInvariant /\ IdsDiffer(file) /\ (code # NoCode => CodeFollows)

LEMMA EditKeepsOrder ==
    ASSUME TypeInvariant, Edit, NEW c, ItemsFollow(c, code.items), HandlersFollow(c, code.handlers)
    PROVE  ItemsFollow(c, code'.items) /\ HandlersFollow(c, code'.handlers)
<1>1. code # NoCode /\ code \in Models
  BY DEF Edit, TypeInvariant
<1>2. code.items \in Seq(Items) /\ code.handlers \in Seq(Handlers)
  BY <1>1, ModelFields
<1>3. CASE Transform
  <2>1. PICK items \in Transformed(code.items) : code' = [code EXCEPT !.items = items]
    BY <1>3 DEF Transform, Edited
  <2>2. code'.items = items /\ code'.handlers = code.handlers
    BY <1>1, <2>1 DEF Models
  <2>3. ItemsFollow(c, items)
    BY <1>2, TransformedFollows
  <2> QED BY <2>2, <2>3
<1>4. CASE \E k \in DOMAIN code.handlers : RemoveHandler(k)
  <2>1. PICK k \in DOMAIN code.handlers : code' = [code EXCEPT !.handlers = RemoveAt(code.handlers, k)]
    BY <1>4 DEF RemoveHandler, Edited
  <2>2. code'.items = code.items /\ code'.handlers = RemoveAt(code.handlers, k)
    BY <1>1, <2>1 DEF Models
  <2> DEFINE hs == code.handlers
  <2>3. hs \in Seq(Handlers) /\ HandlersFollow(c, hs) /\ k \in DOMAIN hs
    BY <1>2
  <2> HIDE DEF hs
  <2>4. HandlersFollow(c, RemoveAt(hs, k))
    BY <2>3, RemovingFollows
  <2> QED BY <2>2, <2>4 DEF hs
<1>5. CASE \E k \in DOMAIN code.attributes : RemoveAttribute(k)
  <2>1. PICK k \in DOMAIN code.attributes : code' = [code EXCEPT !.attributes = RemoveAt(code.attributes, k)]
    BY <1>5 DEF RemoveAttribute, Edited
  <2>2. code'.items = code.items /\ code'.handlers = code.handlers
    BY <1>1, <2>1 DEF Models
  <2> QED BY <2>2
<1>6. CASE AddAttribute
  <2>1. code' = [code EXCEPT !.attributes = Append(code.attributes, [kind |-> "added", at |-> <<>>])]
    BY <1>6 DEF AddAttribute, Edited
  <2>2. code'.items = code.items /\ code'.handlers = code.handlers
    BY <1>1, <2>1 DEF Models
  <2> QED BY <2>2
<1>7. CASE mark_method_debug_info_stale
  <2>1. code' = [code EXCEPT !.stale = TRUE]
    BY <1>7 DEF mark_method_debug_info_stale, Edited
  <2>2. code'.items = code.items /\ code'.handlers = code.handlers
    BY <1>1, <2>1 DEF Models
  <2> QED BY <2>2
<1> QED BY <1>3, <1>4, <1>5, <1>6, <1>7 DEF Edit

\* What a write writes, for all that is to follow.
LEMMA WritesFollow ==
    ASSUME PlacesInvariant, Write
    PROVE  /\ code # NoCode /\ IdsDiffer(file')
           /\ TargetsFollow(origin, file') /\ RangesFollow(origin, file') /\ TablesFollow(origin, file')
<1>1. TypeInvariant /\ TablesAreRead
  BY DEF PlacesInvariant, AttributesInvariant, WritingInvariant
<1>2. PICK strip \in BOOLEAN, recompute \in BOOLEAN, frames \in Seq(FrameTables) :
            /\ code # NoCode /\ Referenced(code, strip) \subseteq LabelsIn(code.items)
            /\ file' = Lowered(code, strip, frames, recompute)
            /\ ~recompute => frames = <<>> /\ ensure_frame_sensitive_attrs_supported(code)
  BY <1>1, WritesLower
<1>3. /\ code \in Models /\ Shaped(origin)
      /\ code.tables = [kind \in DebugKinds |-> Table(origin.attrs, kind)]
  BY <1>1, <1>2 DEF TypeInvariant, TablesAreRead
<1>4. IdsDiffer(origin) /\ ItemsFollow(origin, code.items) /\ HandlersFollow(origin, code.handlers)
  BY <1>2 DEF PlacesInvariant, CodeFollows
<1>5. FramesGiven(frames, recompute)
  BY <1>2 DEF FramesGiven
<1>6. file' = Lowered(code, strip, frames, recompute) /\ Referenced(code, strip) \subseteq LabelsIn(code.items)
  BY <1>2
<1> DEFINE d == file'
           items == code.items
           hs == code.handlers
           at == compute_label_offsets(items)
<1>7. KeepsAttributes(code, strip, frames, recompute, d)
  BY <1>3, <1>5, <1>6, LoweredKeepsAttributes
<1>8. Shaped(d)
  BY <1>3, <1>6, LoweredIsTyped
<1>9. items \in Seq(Items) /\ hs \in Seq(Handlers) /\ TargetsAreLabels(items)
      /\ \A h \in Range(hs) : {h.start, h.end, h.handler} \subseteq LabelsIn(items)
  BY <1>3, <1>6, ModelFields, ReferencesAre
<1>10. d.insns = LoweredInsns(items, at) /\ d.handlers = LoweredHandlers(hs, at)
  BY <1>6, LoweredIs
<1>11. WrittenFrom(origin, items, d)
  BY <1>3, <1>4, <1>8, <1>9, <1>10 DEF WrittenFrom
<1>12. TablesFollow(origin, d)
  BY <1>3, <1>6, <1>7, <1>11, WrittenTablesFollow
<1>13. HandlersFollow(origin, hs)
  BY <1>4
<1> HIDE DEF d, items, hs, at
<1>14. TargetsFollow(origin, d)
  BY <1>11, WrittenTargetsFollow
<1>15. RangesFollow(origin, d)
  BY <1>4, <1>9, <1>10, <1>11, <1>13, WrittenRangesFollow DEF at
<1>16. IdsDiffer(d)
  BY <1>9, <1>10, <1>11, <1>13, WrittenDiffer DEF at
<1> QED BY <1>2, <1>12, <1>14, <1>15, <1>16 DEF d

LEMMA StepKeepsPlaces == PlacesInvariant /\ [Next]_vars => PlacesInvariant'
<1> SUFFICES ASSUME PlacesInvariant, [Next]_vars PROVE PlacesInvariant'
  OBVIOUS
<1>1. TypeInvariant /\ AttributesInvariant' /\ IdsDiffer(file)
  BY StepKeepsTables DEF PlacesInvariant, AttributesInvariant, WritingInvariant
<1>2. CASE Read
  <2>1. code' = lift_code_model(file) /\ origin' = file /\ file' = file /\ Shaped(file)
    BY <1>1, <1>2 DEF Read, TypeInvariant
  <2>2. lift_code_model(file).items = LiftedItems(file) /\ lift_code_model(file).handlers = file.handlers
    BY DEF lift_code_model
  <2>3. ItemsFollow(file, LiftedItems(file))
    BY <1>1, <2>1, LiftedFollows
  <2>4. HandlersFollow(file, file.handlers)
    <3>1. file.handlers \in Seq(Handlers)
      BY <2>1 DEF Shaped
    <3>2. DOMAIN file.handlers = 1..Len(file.handlers) /\ \A k \in 1..Len(file.handlers) : file.handlers[k] \in Range(file.handlers)
      BY <3>1, RangeOfList
    <3> QED BY <1>1, <3>2 DEF HandlersFollow, IdsDiffer
  <2>5. CodeFollows'
    BY <1>1, <2>1, <2>2, <2>3, <2>4 DEF CodeFollows
  <2> QED BY <1>1, <2>1, <2>5 DEF PlacesInvariant
<1>3. CASE Edit
  <2>1. code # NoCode /\ origin' = origin /\ file' = file
    BY <1>1, <1>3, EditIsTyped
  <2>2. IdsDiffer(origin) /\ ItemsFollow(origin, code.items) /\ HandlersFollow(origin, code.handlers)
    BY <2>1 DEF PlacesInvariant, CodeFollows
  <2>3. ItemsFollow(origin, code'.items) /\ HandlersFollow(origin, code'.handlers)
    BY <1>1, <1>3, <2>2, EditKeepsOrder
  <2>4. CodeFollows'
    BY <2>1, <2>2, <2>3 DEF CodeFollows
  <2> QED BY <1>1, <2>1, <2>4 DEF PlacesInvariant
<1>4. CASE Write
  <2>1. code' = code /\ origin' = origin
    BY <1>4 DEF Write, WritePreserving, WriteRecomputing, Written
  <2>2. code # NoCode /\ IdsDiffer(file')
    BY <1>4, WritesFollow
  <2>3. CodeFollows'
    BY <2>1, <2>2 DEF PlacesInvariant, CodeFollows
  <2> QED BY <1>1, <2>2, <2>3 DEF PlacesInvariant
<1>5. CASE UNCHANGED vars
  BY <1>1, <1>5 DEF vars, PlacesInvariant, CodeFollows
<1> QED BY <1>2, <1>3, <1>4, <1>5 DEF Next

PlacesFollowNext ==
    writes' # writes =>
        /\ \A j \in DOMAIN file'.insns : \A i \in DOMAIN origin.insns :
                origin.insns[i].id = file'.insns[j].id /\ origin.insns[i].id # 0 =>
                    AllFollow(origin, origin.insns[i].targets, file', file'.insns[j].targets)
        /\ \A h \in Range(file'.handlers) : \A g \in Range(origin.handlers) :
                g.id = h.id =>
                    AllFollow(origin, <<g.start, g.end, g.handler>>, file', <<h.start, h.end, h.handler>>)
        /\ \A kind \in DebugKinds : \A table \in Range(OfKind(file'.attrs, {kind})) :
                AllFollow(origin, Table(origin.attrs, kind), file', table.at)

LEMMA WritesKeepPlaces ==
    ASSUME PlacesInvariant, [Next]_vars PROVE PlacesFollowNext
<1> SUFFICES ASSUME writes' # writes
             PROVE  TargetsFollow(origin, file') /\ RangesFollow(origin, file') /\ TablesFollow(origin, file')
  BY DEF PlacesFollowNext, TargetsFollow, RangesFollow, TablesFollow
<1>1. TypeInvariant
  BY DEF PlacesInvariant, AttributesInvariant, WritingInvariant
<1>2. Write
  BY <1>1, StepsThatWrite
<1> QED BY <1>2, WritesFollow

\* However often code is read, edited and written: each branch, handler range and debug
\* table of the file written names the start of an instruction, and divides what is left
\* of the instructions read as it did when they were read (compute_label_offsets,
\* lower_code_model, the transforms' splices).
THEOREM PlacesAlwaysFollow == Spec => PlacesFollow
<1>1. Init => PlacesInvariant
  <2> SUFFICES ASSUME Init PROVE PlacesInvariant
    OBVIOUS
  <2>1. AttributesInvariant
    BY InitEstablishes DEF Init, AttributesInvariant, TablesAreRead
  <2>2. IdsDiffer(file)
    <3>1. IsCode(file)
      BY CodesAreParsed DEF Init
    <3> QED BY <3>1 DEF IsCode, IdsDiffer
  <2> QED BY <2>1, <2>2 DEF PlacesInvariant, Init
<1>2. PlacesInvariant /\ [Next]_vars => PlacesInvariant'
  BY StepKeepsPlaces
<1>3. PlacesInvariant /\ [Next]_vars => [PlacesFollowNext]_vars
  BY WritesKeepPlaces
<1>4. Spec => [][PlacesFollowNext]_vars
  BY <1>1, <1>2, <1>3, PTL DEF Spec
<1> QED BY <1>4 DEF PlacesFollow, PlacesFollowNext
=============================================================================
