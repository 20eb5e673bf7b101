------------------------------ MODULE Induction ------------------------------
(***************************************************************************)
(* Induction over the numbers up to n, as facts about sets of numbers, the   *)
(* recursive functions it defines, and what is kept of a sequence.           *)
(***************************************************************************)
EXTENDS Subsequences, SequenceTheorems, WellFoundedInduction, TLAPS

\* Every set of numbers has a least one.
LEMMA LeastNumber ==
    ASSUME NEW S \in SUBSET Nat, S # {}
    PROVE  \E x \in S : \A y \in S : x <= y
<1> DEFINE R == {ss \in Nat \X Nat : ss[1] < ss[2]}
<1>1. OpToRel(<, Nat) = R
  BY DEF OpToRel
<1>2. IsWellFoundedOn(R, Nat)
  BY <1>1, NatLessThanWellFounded
<1>3. PICK x \in S : \A y \in S : ~(<<y, x>> \in R)
  <2> HIDE DEF R
  <2> QED BY <1>2, WFMin
<1>4. ASSUME NEW y \in S PROVE x <= y
  <2>1. x \in Nat /\ y \in Nat /\ <<y, x>> \in Nat \X Nat
    OBVIOUS
  <2>2. ~(y < x)
    BY <1>3, <2>1
  <2> QED BY <2>1, <2>2
<1> QED BY <1>4

\* A set that has 0, and each number up to n with the one before, has them all.
LEMMA UpTo ==
    ASSUME NEW n \in Nat, NEW T, 0 \in T, \A i \in 1..n : i - 1 \in T => i \in T
    PROVE  0..n \subseteq T
<1> DEFINE S == {i \in 0..n : i \notin T}
<1> SUFFICES ASSUME S # {} PROVE FALSE
  OBVIOUS
<1>1. S \in SUBSET Nat
  OBVIOUS
<1>2. PICK x \in S : \A y \in S : x <= y
  <2> HIDE DEF S
  <2> QED BY <1>1, LeastNumber
<1>3. x \in 1..n /\ x - 1 \in 0..n /\ ~(x <= x - 1)
  OBVIOUS
<1>4. x - 1 \in T
  BY <1>2, <1>3
<1> QED BY <1>3, <1>4

\* f has the first value v, and each further one is a step from the one before.
Recursive(n, v, step, f) == f[0] = v /\ \A i \in 1..n : f[i] = step[i][f[i - 1]]

LEMMA Recursion ==
    ASSUME NEW n \in Nat, NEW V, NEW v \in V, NEW step \in [1..n -> [V -> V]]
    PROVE  \E f \in [0..n -> V] : Recursive(n, v, step, f)
<1> DEFINE Fits(m, f) == f[0] = v /\ \A i \in 1..m : f[i] = step[i][f[i - 1]]
           T == {m \in 0..n : \E f \in [0..m -> V] : Fits(m, f)}
<1>1. 0 \in T
  <2> DEFINE g == [i \in 0..0 |-> v]
  <2>1. g \in [0..0 -> V] /\ g[0] = v /\ 1..0 = {}
    OBVIOUS
  <2> HIDE DEF g
  <2> QED BY <2>1
<1>2. ASSUME NEW m \in 1..n, m - 1 \in T PROVE m \in T
  <2>1. PICK f \in [0..(m - 1) -> V] : Fits(m - 1, f)
    BY <1>2
  <2> DEFINE g == [i \in 0..m |-> IF i = m THEN step[m][f[m - 1]] ELSE f[i]]
  <2>2. f[m - 1] \in V /\ step[m] \in [V -> V]
    OBVIOUS
  <2>3. g \in [0..m -> V] /\ g[0] = v
    BY <2>1, <2>2
  <2>4. ASSUME NEW i \in 1..m PROVE g[i] = step[i][g[i - 1]]
    <3>1. CASE i = m
      <4>1. g[i] = step[m][f[m - 1]] /\ g[i - 1] = f[m - 1]
        BY <3>1
      <4> QED BY <4>1, <3>1
    <3>2. CASE i # m
      <4>1. i \in 1..(m - 1) /\ g[i] = f[i] /\ g[i - 1] = f[i - 1]
        BY <3>2
      <4> QED BY <4>1, <2>1
    <3> QED BY <3>1, <3>2
  <2>5. Fits(m, g)
    BY <2>3, <2>4
  <2> HIDE DEF g, Fits
  <2> QED BY <2>3, <2>5
<1> HIDE DEF Fits
<1>3. 0..n \subseteq T
  <2> HIDE DEF T
  <2> QED BY <1>1, <1>2, UpTo
<1>4. PICK f \in [0..n -> V] : Fits(n, f)
  BY <1>3
<1> QED BY <1>4 DEF Fits, Recursive

\* The same for functions that begin at 1.
RecursiveFromOne(n, v, step, f) == f[1] = v /\ \A i \in 1..n : f[i + 1] = step[i][f[i]]

LEMMA RecursionFromOne ==
    ASSUME NEW n \in Nat, NEW V, NEW v \in V, NEW step \in [1..n -> [V -> V]]
    PROVE  \E f \in [1..(n + 1) -> V] : RecursiveFromOne(n, v, step, f)
<1>1. PICK g \in [0..n -> V] : Recursive(n, v, step, g)
  BY Recursion
<1> DEFINE f == [i \in 1..(n + 1) |-> g[i - 1]]
<1>2. f \in [1..(n + 1) -> V] /\ f[1] = g[0]
  OBVIOUS
<1>3. ASSUME NEW i \in 1..n PROVE f[i + 1] = step[i][f[i]]
  <2>1. f[i + 1] = g[i] /\ f[i] = g[i - 1]
    OBVIOUS
  <2> QED BY <1>1, <2>1 DEF Recursive
<1> HIDE DEF f
<1> QED BY <1>1, <1>2, <1>3 DEF Recursive, RecursiveFromOne

LEMMA UpToFromOne ==
    ASSUME NEW n \in Nat, NEW T, 1 \in T, \A i \in 1..n : i \in T => i + 1 \in T
    PROVE  1..(n + 1) \subseteq T
<1> DEFINE S == {i \in 0..n : i + 1 \in T}
<1>1. 0 \in S
  OBVIOUS
<1>2. \A i \in 1..n : i - 1 \in S => i \in S
  OBVIOUS
<1>3. 0..n \subseteq S
  <2> HIDE DEF S
  <2> QED BY <1>1, <1>2, UpTo
<1>4. \A i \in 1..(n + 1) : i - 1 \in 0..n /\ (i - 1) + 1 = i
  OBVIOUS
<1> QED BY <1>3, <1>4

-----------------------------------------------------------------------------
(* Prefixes. *)

Upto(s, i) == SubSeq(s, 1, i)

LEMMA UptoFacts ==
    ASSUME NEW S, NEW s \in Seq(S)
    PROVE  /\ Len(s) \in Nat /\ DOMAIN s = 1..Len(s) /\ \A i \in 1..Len(s) : s[i] \in S
           /\ Upto(s, 0) = <<>> /\ Upto(s, Len(s)) = s
           /\ \A i \in 0..Len(s) : Upto(s, i) \in Seq(S) /\ Len(Upto(s, i)) = i
           /\ \A i \in 1..Len(s) : i - 1 \in 0..Len(s) /\ Upto(s, i) = Append(Upto(s, i - 1), s[i])
<1>1. Len(s) \in Nat /\ DOMAIN s = 1..Len(s) /\ \A i \in 1..Len(s) : s[i] \in S
  OBVIOUS
<1>2. Upto(s, 0) = <<>> /\ Upto(s, Len(s)) = s
  BY DEF Upto
<1>3. \A i \in 0..Len(s) : Upto(s, i) \in Seq(S) /\ Len(Upto(s, i)) = i
  BY DEF Upto
<1>4. ASSUME NEW i \in 1..Len(s)
      PROVE  i - 1 \in 0..Len(s) /\ Upto(s, i) = Append(Upto(s, i - 1), s[i])
  BY DEF Upto
<1> QED BY <1>1, <1>2, <1>3, <1>4

\* A property of sequences as the set of the prefixes that have it.
LEMMA PrefixInduction ==
    ASSUME NEW S, NEW s \in Seq(S), NEW T, Upto(s, 0) \in T,
           \A i \in 1..Len(s) : Upto(s, i - 1) \in T => Upto(s, i) \in T
    PROVE  s \in T /\ \A i \in 0..Len(s) : Upto(s, i) \in T
<1> DEFINE N == {i \in 0..Len(s) : Upto(s, i) \in T}
<1>1. Len(s) \in Nat /\ Upto(s, Len(s)) = s
  BY UptoFacts
<1>2. 0 \in N /\ \A i \in 1..Len(s) : i - 1 \in N => i \in N
  BY <1>1
<1> HIDE DEF N
<1>3. 0..Len(s) \subseteq N
  BY <1>1, <1>2, UpTo
<1>4. \A i \in 0..Len(s) : Upto(s, i) \in T
  BY <1>3 DEF N
<1>5. Len(s) \in 0..Len(s)
  BY <1>1
<1> QED BY <1>1, <1>4, <1>5

-----------------------------------------------------------------------------
(* What is kept. *)

\* f is the recursion in Kept, for a sequence of length n.
Keeping(S, s, n, hits, f) ==
    /\ f \in [0..n -> Seq(S)] /\ f[0] = <<>> /\ Kept(s, hits) = f[n]
    /\ \A i \in 1..n : f[i] = IF i \in hits THEN Append(f[i - 1], s[i]) ELSE f[i - 1]

LEMMA KeptSteps ==
    ASSUME NEW S, NEW s \in Seq(S), NEW hits PROVE \E f : Keeping(S, s, Len(s), hits, f)
<1> DEFINE n == Len(s)
           V == Seq(S)
           next(i, t) == IF i \in hits THEN Append(t, s[i]) ELSE t
           step == [i \in 1..n |-> [t \in V |-> next(i, t)]]
           Fits(f) == f = [i \in 0..n |-> IF i = 0 THEN <<>>
                                          ELSE IF i \in hits THEN Append(f[i - 1], s[i]) ELSE f[i - 1]]
           kept == CHOOSE f : Fits(f)
<1>1. n \in Nat /\ <<>> \in V /\ \A i \in 1..n : s[i] \in S
  OBVIOUS
<1>2. \A i \in 1..n, t \in V : next(i, t) \in V
  BY <1>1
<1>3. step \in [1..n -> [V -> V]] /\ \A i \in 1..n, t \in V : step[i][t] = next(i, t)
  <2> HIDE DEF next, n, V
  <2> QED BY <1>2
<1> HIDE DEF step, n, V
<1>4. PICK f \in [0..n -> V] : Recursive(n, <<>>, step, f)
  BY <1>1, <1>3, Recursion
<1>5. ASSUME NEW i \in 1..n PROVE f[i] = next(i, f[i - 1])
  <2>1. i - 1 \in 0..n
    BY <1>1
  <2>2. f[i - 1] \in V
    BY <2>1, <1>4
  <2>3. f[i] = step[i][f[i - 1]]
    BY <1>4 DEF Recursive
  <2> HIDE DEF next
  <2> QED BY <2>2, <2>3, <1>3
<1>6. Fits(f)
  <2>1. f = [i \in 0..n |-> f[i]]
    BY <1>4
  <2>2. \A i \in 0..n : f[i] = IF i = 0 THEN <<>>
                               ELSE IF i \in hits THEN Append(f[i - 1], s[i]) ELSE f[i - 1]
    <3>1. \A i \in 0..n : i = 0 \/ i \in 1..n
      BY <1>1
    <3> QED BY <3>1, <1>4, <1>5 DEF Recursive
  <2> QED BY <2>1, <2>2
<1>7. Fits(kept)
  <2> HIDE DEF Fits
  <2> QED BY <1>6
<1>8. Kept(s, hits) = kept[n]
  BY DEF Kept, kept, n
<1> HIDE DEF kept
<1>9. kept[0] = <<>> /\ \A i \in 1..n : kept[i] = next(i, kept[i - 1])
  <2>1. 0 \in 0..n /\ \A i \in 1..n : i \in 0..n /\ i # 0
    BY <1>1
  <2>2. \A i \in 0..n : kept[i] = IF i = 0 THEN <<>>
                               ELSE IF i \in hits THEN Append(kept[i - 1], s[i]) ELSE kept[i - 1]
    BY <1>7
  <2> QED BY <2>1, <2>2
<1>10. kept \in [0..n -> V]
  <2> DEFINE N == {i \in 0..n : kept[i] \in V}
  <2>1. 0 \in N
    BY <1>1, <1>9
  <2>2. \A i \in 1..n : i - 1 \in N => i \in N
    <3> HIDE DEF next
    <3> QED BY <1>1, <1>2, <1>9
  <2> HIDE DEF N
  <2>3. 0..n \subseteq N
    BY <1>1, <2>1, <2>2, UpTo
  <2>4. \A i \in 0..n : kept[i] \in V
    BY <2>3 DEF N
  <2>5. kept = [i \in 0..n |-> kept[i]]
    <3>1. \E e : kept = [i \in 0..n |-> e[i]]
      <4> DEFINE e == [i \in 0..n |-> IF i = 0 THEN <<>>
                                     ELSE IF i \in hits THEN Append(kept[i - 1], s[i]) ELSE kept[i - 1]]
      <4>1. kept = e
        BY <1>7
      <4>2. e = [i \in 0..n |-> e[i]]
        OBVIOUS
      <4> QED BY <4>1, <4>2
    <3> QED BY <3>1
  <2> QED BY <2>4, <2>5
<1> QED BY <1>8, <1>9, <1>10 DEF n, V, Keeping

LEMMA KeptIsList == ASSUME NEW S, NEW s \in Seq(S), NEW hits PROVE Kept(s, hits) \in Seq(S)
<1>1. PICK f \in [0..Len(s) -> Seq(S)] : Kept(s, hits) = f[Len(s)]
  BY KeptSteps DEF Keeping
<1>2. Len(s) \in 0..Len(s)
  OBVIOUS
<1> QED BY <1>1, <1>2

LEMMA KeptNothing == ASSUME NEW hits PROVE Kept(<<>>, hits) = <<>>
<1>1. <<>> \in Seq({}) /\ Len(<<>>) = 0
  OBVIOUS
<1>2. PICK f : Keeping({}, <<>>, Len(<<>>), hits, f)
  BY <1>1, KeptSteps
<1> QED BY <1>1, <1>2 DEF Keeping

LEMMA KeptAppend ==
    ASSUME NEW S, NEW s \in Seq(S), NEW x \in S, NEW hits
    PROVE  /\ Len(s) + 1 \in hits => Kept(Append(s, x), hits) = Append(Kept(s, hits), x)
           /\ Len(s) + 1 \notin hits => Kept(Append(s, x), hits) = Kept(s, hits)
<1> DEFINE n == Len(s)
           t == Append(s, x)
<1>1. n \in Nat /\ t \in Seq(S) /\ Len(t) = n + 1 /\ t[n + 1] = x /\ \A i \in 1..n : t[i] = s[i]
  OBVIOUS
<1> HIDE DEF n, t
<1>2. PICK f : Keeping(S, s, n, hits, f)
  BY KeptSteps DEF n
<1>3. PICK g : Keeping(S, t, n + 1, hits, g)
  <2>1. \E g : Keeping(S, t, Len(t), hits, g)
    BY <1>1, KeptSteps
  <2> QED BY <2>1, <1>1
<1> DEFINE N == {i \in 0..n : g[i] = f[i]}
<1>4. 0 \in N
  BY <1>1, <1>2, <1>3 DEF Keeping
<1>5. \A i \in 1..n : i - 1 \in N => i \in N
  <2>1. \A i \in 1..n : i \in 1..(n + 1) /\ i \in 0..n /\ t[i] = s[i]
    BY <1>1
  <2> QED BY <2>1, <1>2, <1>3 DEF Keeping
<1> HIDE DEF N
<1>6. 0..n \subseteq N
  BY <1>1, <1>4, <1>5, UpTo
<1>7. g[n] = f[n]
  BY <1>1, <1>6 DEF N
<1>8. g[n + 1] = IF n + 1 \in hits THEN Append(g[n], x) ELSE g[n]
  <2>1. n + 1 \in 1..(n + 1) /\ (n + 1) - 1 = n
    BY <1>1
  <2> QED BY <2>1, <1>1, <1>3 DEF Keeping
<1> QED BY <1>2, <1>3, <1>7, <1>8 DEF n, t, Keeping

\* How many of the first i elements are kept: the place the next one gets.
Tally(s, hits, i) == Len(Kept(Upto(s, i), hits))

LEMMA TallyFacts ==
    ASSUME NEW S, NEW s \in Seq(S), NEW hits
    PROVE  /\ Tally(s, hits, 0) = 0
           /\ \A i \in 0..Len(s) : Tally(s, hits, i) \in Nat
           /\ \A i \in 1..Len(s) :
                 /\ i \in hits => Tally(s, hits, i) = Tally(s, hits, i - 1) + 1
                 /\ i \notin hits => Tally(s, hits, i) = Tally(s, hits, i - 1)
           /\ Len(Kept(s, hits)) = Tally(s, hits, Len(s))
<1>1. Tally(s, hits, 0) = 0
  BY UptoFacts, KeptNothing DEF Tally
<1>2. \A i \in 0..Len(s) : Kept(Upto(s, i), hits) \in Seq(S)
  BY UptoFacts, KeptIsList
<1>3. \A i \in 0..Len(s) : Tally(s, hits, i) \in Nat
  BY <1>2 DEF Tally
<1>4. ASSUME NEW i \in 1..Len(s)
      PROVE  /\ i \in hits => Tally(s, hits, i) = Tally(s, hits, i - 1) + 1
             /\ i \notin hits => Tally(s, hits, i) = Tally(s, hits, i - 1)
  <2> DEFINE u == Upto(s, i - 1)
  <2>1. /\ Upto(s, i) = Append(u, s[i]) /\ u \in Seq(S) /\ s[i] \in S
        /\ i - 1 \in 0..Len(s) /\ Len(u) + 1 = i
    BY UptoFacts
  <2>2. Kept(u, hits) \in Seq(S)
    BY <2>1, KeptIsList
  <2> HIDE DEF u
  <2>3. /\ Len(u) + 1 \in hits => Kept(Append(u, s[i]), hits) = Append(Kept(u, hits), s[i])
        /\ Len(u) + 1 \notin hits => Kept(Append(u, s[i]), hits) = Kept(u, hits)
    BY <2>1, KeptAppend
  <2>4. Len(Kept(Upto(s, i), hits)) = IF i \in hits THEN Len(Kept(u, hits)) + 1 ELSE Len(Kept(u, hits))
    BY <2>1, <2>2, <2>3
  <2> QED BY <2>4 DEF Tally, u
<1>5. Len(Kept(s, hits)) = Tally(s, hits, Len(s))
  BY UptoFacts DEF Tally
<1> QED BY <1>1, <1>3, <1>4, <1>5

LEMMA TallyGrows ==
    ASSUME NEW S, NEW s \in Seq(S), NEW hits, NEW i \in 0..Len(s), NEW j \in i..Len(s)
    PROVE  Tally(s, hits, i) <= Tally(s, hits, j)
<1> DEFINE n == Len(s)
           N == {d \in 0..(n - i) : Tally(s, hits, i) <= Tally(s, hits, i + d)}
<1>1. n \in Nat /\ i \in 0..n /\ n - i \in Nat /\ \A d \in 0..(n - i) : i + d \in 0..n
  OBVIOUS
<1> HIDE DEF n
<1>2. \A k \in 0..n : Tally(s, hits, k) \in Nat
  BY TallyFacts DEF n
<1>3. \A k \in 1..n : Tally(s, hits, k - 1) <= Tally(s, hits, k)
  <2>1. \A k \in 1..n : Tally(s, hits, k) = Tally(s, hits, k - 1) \/ Tally(s, hits, k) = Tally(s, hits, k - 1) + 1
    BY TallyFacts DEF n
  <2>2. \A k \in 1..n : k - 1 \in 0..n
    BY <1>1
  <2> QED BY <1>2, <2>1, <2>2
<1>4. 0 \in N
  <2>1. i + 0 = i
    BY <1>1
  <2> QED BY <1>1, <1>2, <2>1
<1>5. ASSUME NEW d \in 1..(n - i), d - 1 \in N PROVE d \in N
  <2>1. d \in 0..(n - i) /\ i + d \in 1..n /\ (i + d) - 1 = i + (d - 1) /\ i + (d - 1) \in 0..n
    BY <1>1
  <2>2. Tally(s, hits, i + (d - 1)) <= Tally(s, hits, i + d)
    BY <2>1, <1>3
  <2>3. Tally(s, hits, i) <= Tally(s, hits, i + (d - 1))
    BY <1>5
  <2> QED BY <2>1, <2>2, <2>3, <1>1, <1>2
<1> HIDE DEF N
<1>6. 0..(n - i) \subseteq N
  BY <1>1, <1>4, <1>5, UpTo
<1>7. j - i \in 0..(n - i) /\ i + (j - i) = j
  BY <1>1 DEF n
<1> QED BY <1>6, <1>7 DEF N

LEMMA KeptUpto ==
    ASSUME NEW S, NEW s \in Seq(S), NEW hits
    PROVE  /\ Kept(Upto(s, 0), hits) = <<>> /\ Kept(Upto(s, Len(s)), hits) = Kept(s, hits)
           /\ \A i \in 0..Len(s) : Kept(Upto(s, i), hits) \in Seq(S) /\ Len(Kept(Upto(s, i), hits)) = Tally(s, hits, i)
  BY UptoFacts, KeptNothing, KeptIsList DEF Tally

LEMMA KeptStep ==
    ASSUME NEW S, NEW s \in Seq(S), NEW hits, NEW i \in 1..Len(s)
    PROVE  /\ i - 1 \in 0..Len(s) /\ i \in 0..Len(s) /\ s[i] \in S
           /\ i \in hits => Kept(Upto(s, i), hits) = Append(Kept(Upto(s, i - 1), hits), s[i])
           /\ i \notin hits => Kept(Upto(s, i), hits) = Kept(Upto(s, i - 1), hits)
<1> DEFINE u == Upto(s, i - 1)
<1>1. /\ Upto(s, i) = Append(u, s[i]) /\ u \in Seq(S) /\ s[i] \in S
      /\ i - 1 \in 0..Len(s) /\ i \in 0..Len(s) /\ Len(u) + 1 = i
  BY UptoFacts, SMTT(30)
<1> HIDE DEF u
<1>2. /\ Len(u) + 1 \in hits => Kept(Append(u, s[i]), hits) = Append(Kept(u, hits), s[i])
      /\ Len(u) + 1 \notin hits => Kept(Append(u, s[i]), hits) = Kept(u, hits)
  BY <1>1, KeptAppend
<1> QED BY <1>1, <1>2 DEF u

\* An element that is kept is at the place counted for it.
LEMMA KeptElements ==
    ASSUME NEW S, NEW s \in Seq(S), NEW hits, NEW i \in 1..Len(s), i \in hits
    PROVE  /\ Tally(s, hits, i) \in 1..Len(Kept(s, hits)) /\ Tally(s, hits, i) = Tally(s, hits, i - 1) + 1
           /\ Kept(s, hits)[Tally(s, hits, i)] = s[i]
<1> DEFINE k == Tally(s, hits, i)
           upto(j) == Kept(Upto(s, j), hits)
           N == {d \in 0..(Len(s) - i) : upto(i + d)[k] = s[i]}
<1>1. Len(s) \in Nat /\ i \in 1..Len(s) /\ Len(s) - i \in Nat /\ i - 1 \in 0..Len(s) /\ i \in 0..Len(s)
  OBVIOUS
<1>2. k = Tally(s, hits, i - 1) + 1 /\ Tally(s, hits, i - 1) \in Nat /\ Len(Kept(s, hits)) = Tally(s, hits, Len(s))
  BY <1>1, TallyFacts
<1>3. \A j \in i..Len(s) : k <= Tally(s, hits, j) /\ Tally(s, hits, j) \in Nat
  <2>1. \A j \in i..Len(s) : j \in 0..Len(s)
    BY <1>1
  <2> QED BY <2>1, <1>1, TallyFacts, TallyGrows
<1>4. upto(Len(s)) = Kept(s, hits)
  BY KeptUpto
<1>41. \A j \in 0..Len(s) : upto(j) \in Seq(S) /\ Len(upto(j)) = Tally(s, hits, j)
  BY KeptUpto
<1>42. ASSUME NEW j \in 1..Len(s)
       PROVE  /\ s[j] \in S
              /\ j \in hits => upto(j) = Append(upto(j - 1), s[j])
              /\ j \notin hits => upto(j) = upto(j - 1)
  BY KeptStep
<1> HIDE DEF k, upto
<1>5. upto(i)[k] = s[i]
  <2>1. upto(i - 1) \in Seq(S) /\ Len(upto(i - 1)) + 1 = k
    BY <1>1, <1>2, <1>41
  <2>2. upto(i) = Append(upto(i - 1), s[i])
    BY <1>1, <1>42
  <2> QED BY <2>1, <2>2
<1>51. 0 \in N
  <2>1. i + 0 = i /\ 0 \in 0..(Len(s) - i)
    BY <1>1
  <2> QED BY <1>5, <2>1
<1>6. ASSUME NEW d \in 1..(Len(s) - i), d - 1 \in N PROVE d \in N
  <2>1. /\ i + d \in 1..Len(s) /\ (i + d) - 1 = i + (d - 1) /\ (i + d) - 1 \in i..Len(s)
        /\ (i + d) - 1 \in 0..Len(s) /\ d \in 0..(Len(s) - i)
    BY <1>1
  <2> DEFINE j == i + d
             u == upto(j - 1)
  <2>2. u[k] = s[i]
    BY <2>1, <1>6
  <2>3. u \in Seq(S) /\ Len(u) = Tally(s, hits, j - 1)
    BY <2>1, <1>41
  <2>4. k <= Tally(s, hits, j - 1) /\ Tally(s, hits, j - 1) \in Nat
    BY <2>1, <1>3
  <2>5. s[j] \in S /\ (upto(j) = Append(u, s[j]) \/ upto(j) = u)
    BY <2>1, <1>42
  <2>6. k \in 1..Len(u)
    BY <1>2, <2>3, <2>4
  <2> HIDE DEF u, j
  <2>7. Append(u, s[j])[k] = u[k]
    BY <2>3, <2>5, <2>6
  <2>8. upto(j)[k] = s[i]
    BY <2>2, <2>5, <2>7
  <2> QED BY <2>1, <2>8 DEF j
<1> HIDE DEF N
<1>7. 0..(Len(s) - i) \subseteq N
  BY <1>1, <1>51, <1>6, UpTo
<1>8. Len(s) - i \in 0..(Len(s) - i) /\ i + (Len(s) - i) = Len(s) /\ Len(s) \in i..Len(s)
  BY <1>1
<1>9. upto(i + (Len(s) - i))[k] = s[i]
  BY <1>7, <1>8 DEF N
<1>10. Kept(s, hits)[k] = s[i]
  BY <1>4, <1>8, <1>9
<1>11. k <= Tally(s, hits, Len(s)) /\ Tally(s, hits, Len(s)) \in Nat
  BY <1>3, <1>8
<1> QED BY <1>2, <1>10, <1>11 DEF k

\* Whatever is kept was there.
LEMMA KeptOnto ==
    ASSUME NEW S, NEW s \in Seq(S), NEW hits, NEW k \in 1..Len(Kept(s, hits))
    PROVE  \E i \in 1..Len(s) : i \in hits /\ Tally(s, hits, i) = k
<1> DEFINE n == Len(s)
           Over == {i \in 0..n : k <= Tally(s, hits, i)}
<1>1. n \in Nat /\ n \in 0..n /\ Kept(s, hits) \in Seq(S)
  BY KeptIsList
<1>2. Tally(s, hits, n) = Len(Kept(s, hits)) /\ Tally(s, hits, 0) = 0
  BY TallyFacts
<1>3. Over \in SUBSET Nat /\ n \in Over
  BY <1>1, <1>2
<1>4. PICK i \in Over : \A j \in Over : i <= j
  <2> HIDE DEF Over
  <2> QED BY <1>3, LeastNumber
<1>5. k \in Nat /\ k >= 1
  BY <1>1
<1>6. i # 0
  BY <1>2, <1>4, <1>5
<1>7. i \in 1..n /\ i - 1 \in 0..n /\ ~(i <= i - 1)
  BY <1>1, <1>4, <1>6
<1>8. ~(k <= Tally(s, hits, i - 1)) /\ k <= Tally(s, hits, i)
  BY <1>4, <1>7
<1>9. /\ Tally(s, hits, i - 1) \in Nat /\ Tally(s, hits, i) \in Nat
      /\ i \in hits => Tally(s, hits, i) = Tally(s, hits, i - 1) + 1
      /\ i \notin hits => Tally(s, hits, i) = Tally(s, hits, i - 1)
  BY <1>7, TallyFacts
<1>10. i \in hits /\ Tally(s, hits, i) = k
  BY <1>5, <1>8, <1>9
<1> QED BY <1>7, <1>10

=============================================================================
